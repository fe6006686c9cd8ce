--------------------------- MODULE RoundScheduler ---------------------------
(***************************************************************************)
(* The Round command scheduler of CommandScheduler_Round.h, as operators   *)
(* on a record of its member variables.  It serves every requestor once    *)
(* in a round of reads or of writes; `counter' counts the cycles of the    *)
(* round and swCAS is the cycle in which the round may end, moved back     *)
(* whenever a command is taken into account ("considered").                *)
(*                                                                         *)
(* A requestor's first command waits in tempqueue once it is ready: here   *)
(* `tempqueue' is the set of these requestors and head[id] the type of the *)
(* command.  roundType is "READ" or "WRITE", and every rule of the code is *)
(* written once for both.  Members that are written but never read         *)
(* (countCAS, countFAW, oppslot and others) are left out.                  *)
(***************************************************************************)
EXTENDS DDR3

CONSTANTS
  NumOrder,   \* ids the scheduler puts in Order (8 in the code)
  FreshInts,  \* what the int members no constructor sets may hold
  FreshBools  \* what the bool members no constructor sets may hold

RoundTypes == {"READ", "WRITE"}
AccessOf(type)   == IF type = "READ" THEN "RD" ELSE "WR"
ActivateOf(type) == IF type = "READ" THEN "ACT_R" ELSE "ACT_W"
Other(type)      == IF type = "READ" THEN "WRITE" ELSE "READ"

tCCD == Constraint.tCCD
tRCD == Constraint.tRCD
tRRD == Constraint.tRRD
tFAW == Constraint.tFAW
tWtoR == Constraint.tWL + Constraint.tBus + Constraint.tWTR
\* The turn of the bus at the start of a round.
Turnaround(type) == IF type = "READ" THEN tWtoR ELSE Constraint.tRTW

AtLeast0(n) == Max({0, n})

\* Mutant: the memory of the scheduler is not zero.
FreshSchedulerDirty ==
  [order : {[i \in 1 .. NumOrder |-> i - 1]},
   tempqueue : {{}}, served : {{}}, considered : {{}},
   roundType : {"READ"}, counter : {0}, lastACT : {0}, blockACT : {FALSE},
   lastCAS : {1000}, swCAS : {1000}, swACT : {0}, countACT : {0},
   jumps : {{}}, jump_6 : {FALSE}, jump_7 : {FALSE},
   first : {FALSE}, BypassReset : {FALSE}]

\* The constructor.  swCAS is set from tCCD, which is not set before.  The
\* flags jump_1 to jump_5 are cleared where they are first used; `jumps' holds
\* those that are still set.
FreshScheduler ==
  [order : {[i \in 1 .. NumOrder |-> i - 1]},
   tempqueue : {{}}, served : {{}}, considered : {{}},
   roundType : {"READ"}, counter : {0}, lastACT : {0}, blockACT : {FALSE},
   lastCAS : FreshInts, swCAS : FreshInts, swACT : FreshInts,
   countACT : FreshInts \cap Nat,
   jumps : SUBSET (IF TRUE \in FreshBools THEN 1 .. 5 ELSE {}),
   jump_6 : FreshBools, jump_7 : FreshBools,
   first : FreshBools, BypassReset : FreshBools]

-----------------------------------------------------------------------------
(* Requestors of the round.                                                *)

\* Requestors in Order with a command of this type waiting.
Waiting(s, head, types) ==
  {id \in ToSet(s.order) \cap s.tempqueue : head[id] \in types}

Unserved(s, head, types) == Waiting(s, head, types) \ s.served
New(s, head, type) == Unserved(s, head, {type}) \ s.considered

FirstOf(s, ids) == s.order[Min({i \in DOMAIN s.order : s.order[i] \in ids})]

-----------------------------------------------------------------------------
(* End of a round.                                                         *)

\* counter == swACT: leave a cycle more for an activate that was considered
\* and not sent, or let no other activate into this round.
SwitchACT(s, head) ==
  LET late == 5 \notin s.jumps
              /\ Unserved(s, head, Activates) \cap s.considered # {}
  IN IF s.counter # s.swACT THEN s
     ELSE IF late THEN [s EXCEPT !.swACT = @ + 1, !.swCAS = @ + 1,
                                 !.jump_6 = TRUE, !.blockACT = FALSE,
                                 !.jumps = @ \ {5}]
     ELSE [s EXCEPT !.blockACT = TRUE, !.jumps = @ \ {5}]

Reset(s) == [s EXCEPT !.served = {}, !.considered = {}, !.blockACT = FALSE,
                      !.countACT = 0]

\* Mutant: the type of the round is not switched.
TurnKept(s) == [Reset(s) EXCEPT !.lastACT = 0, !.first = TRUE]

Turn(s) == [Reset(s) EXCEPT !.roundType = Other(@), !.lastACT = 0, !.first = TRUE]

Again(s) == [Reset(s) EXCEPT !.BypassReset = FALSE, !.counter = 0,
                             !.lastACT = 0, !.lastCAS = -tCCD,
                             !.swCAS = 0, !.swACT = 0]

\* The next round: of the other type when a command asks for it, else of the
\* same type, else none yet.  All of tempqueue is looked at, Order or not.
NextRound(s, head) ==
  LET Asks(cmd) == \E id \in s.tempqueue : head[id] = cmd
      other == Other(s.roundType)
      same  == Asks(AccessOf(s.roundType)) \/ Asks(ActivateOf(s.roundType))
  IN IF Asks(AccessOf(other)) THEN Turn(s)
     ELSE IF 1 \in s.jumps THEN s
     ELSE IF Asks(ActivateOf(other)) THEN Turn(s)
     ELSE IF 2 \in s.jumps THEN s
     ELSE IF same \/ 3 \in s.jumps
          THEN [Again(s) EXCEPT !.BypassReset = ~ same /\ s.BypassReset,
                                !.jumps = @ \ {3}]
     ELSE [Reset(s) EXCEPT !.BypassReset = TRUE]

\* counter == swCAS: leave a cycle more for an access that was considered and
\* not sent, or end the round.
SwitchCAS(s, head) ==
  LET late == 5 \notin s.jumps
              /\ Unserved(s, head, {"RD", "WR"}) \cap s.considered # {}
      longer == IF late THEN [s EXCEPT !.swCAS = @ + 1, !.jump_7 = TRUE] ELSE s
      ended  == IF late \/ 4 \in s.jumps THEN longer ELSE NextRound(s, head)
  IN IF s.counter # s.swCAS THEN s
     ELSE [ended EXCEPT !.jumps = @ \ {1, 2, 4, 5}]

-----------------------------------------------------------------------------
(* Which commands the round takes into account, and how long it gets.      *)

\* The first access of a round waits for the bus to turn; any other adds its
\* transfer to the round.
ConsiderAccess(s, id, absolute) ==
  LET last == IF absolute /\ s.lastCAS < 0 THEN -s.lastCAS ELSE s.lastCAS
      wait == AtLeast0(Turnaround(s.roundType) - (s.counter - last))
      seen == [s EXCEPT !.considered = @ \cup {id}]
  IN IF s.first
     THEN [seen EXCEPT !.lastCAS = wait, !.counter = 0, !.first = FALSE,
                       !.swCAS = wait + tCCD, !.swACT = 0]
     ELSE [seen EXCEPT !.lastCAS = @ + tCCD, !.swCAS = @ + tCCD,
                       !.swACT = AtLeast0(s.swCAS + tCCD - tRCD)]

\* An activate is planned tRRD after the last, the fifth in a row in a new
\* tFAW window, and its access tRCD later.
ConsiderActivate(s, id) ==
  LET fifth  == s.countACT + 1 = 5
      apart  == IF fifth THEN tFAW - 3 * tRRD ELSE tRRD
      act    == IF s.first THEN 0 ELSE Max({s.counter, s.lastACT + apart})
      access == IF s.first THEN tRCD ELSE Max({act + tRCD, s.lastCAS + tCCD})
  IN [s EXCEPT !.considered = @ \cup {id}, !.first = FALSE,
               !.counter = IF s.first THEN 0 ELSE @,
               !.countACT = IF fifth /\ ~ s.first THEN 0 ELSE @ + 1,
               !.lastACT = act, !.lastCAS = access,
               !.swCAS = access + tCCD,
               !.swACT = AtLeast0(access + tCCD - tRCD)]

ConsiderAccesses(s, head, absolute) ==
  FoldLeft(LAMBDA t, id : IF id \in New(t, head, AccessOf(t.roundType))
                          THEN ConsiderAccess(t, id, absolute) ELSE t,
           s, s.order)

ConsiderActivates(s, head) ==
  IF s.blockACT THEN s
  ELSE FoldLeft(LAMBDA t, id : IF id \in New(t, head, ActivateOf(t.roundType))
                               THEN ConsiderActivate(t, id) ELSE t,
                s, s.order)

ConsiderOne(s, id, head) ==
  IF id \in New(s, head, AccessOf(s.roundType)) THEN ConsiderAccess(s, id, TRUE)
  ELSE IF id \in New(s, head, ActivateOf(s.roundType)) /\ ~ s.blockACT
  THEN ConsiderActivate(ConsiderAccesses(s, head, TRUE), id)
  ELSE IF \/ id \in New(s, head, "PRE")
          \/ id \in Unserved(s, head, {"PRE"}) /\ s.roundType = "READ"
  THEN ConsiderActivates(ConsiderAccesses(s, head, FALSE), head)
  ELSE s

\* The members that considering changes.
Considered(s, t) ==
  [s EXCEPT !.considered = t.considered, !.first = t.first,
            !.counter = t.counter, !.countACT = t.countACT,
            !.lastACT = t.lastACT, !.lastCAS = t.lastCAS,
            !.swACT = t.swACT, !.swCAS = t.swCAS]

ConsiderAll(s, head) ==
  Considered(s, FoldLeft(LAMBDA t, id : ConsiderOne(t, id, head), s, s.order))

\* Mutant: a round that nothing was asked of is not kept open.
ConsiderNoBypass(s, head) == ConsiderAll(s, head)

Consider(s, head) ==
  LET t == ConsiderAll(s, head)
  IN IF t.BypassReset THEN [t EXCEPT !.swCAS = t.counter + 1] ELSE t

-----------------------------------------------------------------------------
(* The command that goes out.                                              *)

\* What the pass over Order sends when it comes to requestor id: a command of
\* the round, an access before an activate before id's own precharge.
Sends(s, id, head, issuable) ==
  LET accesses  == Unserved(s, head, {AccessOf(s.roundType)}) \cap issuable
      activates == IF s.blockACT THEN {}
                   ELSE Unserved(s, head, {ActivateOf(s.roundType)}) \cap issuable
      best(own) == IF accesses # {} THEN {FirstOf(s, accesses)} ELSE own
  IN IF id \in Unserved(s, head, {AccessOf(s.roundType)}) THEN {id} \cap accesses
     ELSE IF /\ id \in Unserved(s, head, {ActivateOf(s.roundType)})
             /\ s.roundType = "WRITE" => ~ s.blockACT
     THEN best({id} \cap activates)
     ELSE IF \/ id \in Unserved(s, head, {"PRE"})
             \/ id \in Waiting(s, head, {"PRE"}) /\ s.roundType = "READ"
     THEN best(IF activates # {} THEN {FirstOf(s, activates)}
                                 ELSE {id} \cap issuable)
     ELSE {}

\* A second access of a requestor that has been served in this round.
Opportunities(s, head, issuable) ==
  Waiting(s, head, {AccessOf(s.roundType)}) \cap s.served \cap issuable

Rotate(order, id) ==
  Append(RemoveAt(order, CHOOSE i \in DOMAIN order : order[i] = id), id)

\* The end of commandSchedule, after sendCommand for id.
SentAccess(s, id) ==
  [s EXCEPT !.order = Rotate(@, id), !.served = @ \cup {id},
            !.tempqueue = @ \ {id}, !.counter = @ + 1,
            !.lastCAS = IF s.jump_7 THEN s.counter + 1 ELSE @,
            !.swCAS = IF s.jump_7 THEN s.counter + 1 + tCCD ELSE @,
            !.jump_6 = FALSE, !.jump_7 = FALSE, !.BypassReset = FALSE]

\* `at' is the cycle an activate counts for: the counter is incremented before
\* the end of the round is moved if a precharge was first in Order.
SentActivate(s, id, at) ==
  [s EXCEPT !.tempqueue = @ \ {id}, !.counter = @ + 1,
            !.lastACT = IF s.jump_6 THEN at ELSE @,
            !.lastCAS = IF s.jump_7 THEN at ELSE IF s.jump_6 THEN at + tRCD ELSE @,
            !.swCAS = IF s.jump_7 THEN at + tCCD
                      ELSE IF s.jump_6 THEN at + tRCD + tCCD ELSE @,
            !.jump_6 = FALSE, !.jump_7 = FALSE, !.BypassReset = FALSE]

SentPrecharge(s, id) ==
  [s EXCEPT !.tempqueue = @ \ {id}, !.counter = @ + 1,
            !.jump_6 = FALSE, !.jump_7 = FALSE, !.BypassReset = FALSE]

SentOpportunity(s, id) ==
  [s EXCEPT !.order = Rotate(@, id), !.tempqueue = @ \ {id},
            !.counter = @ + 1, !.BypassReset = FALSE]

\* Mutant: a cycle without a command is not counted.
SentNothingUncounted(s) ==
  [s EXCEPT !.BypassReset = FALSE,
            !.jump_6 = @ /\ s.tempqueue = {}, !.jump_7 = @ /\ s.tempqueue = {}]

SentNothing(s) ==
  [s EXCEPT !.counter = @ + 1, !.BypassReset = FALSE,
            !.jump_6 = @ /\ s.tempqueue = {}, !.jump_7 = @ /\ s.tempqueue = {}]

\* The scheduler before it sends: the ready commands have joined tempqueue.
Planned(s, ready, head) ==
  LET filled == [s EXCEPT !.tempqueue = @ \cup ready]
  IN Consider(SwitchCAS(SwitchACT(filled, head), head), head)

\* The scheduler and the requestor whose command is sent, found when the pass
\* over Order came to requestor via.
Send(t, id, via, head) ==
  LET at == IF head[via] = "PRE" THEN t.counter + 1 ELSE t.counter
  IN [sent |-> {id},
      scheduler |-> CASE head[id] \in {"RD", "WR"} -> SentAccess(t, id)
                      [] head[id] \in Activates -> SentActivate(t, id, at)
                      [] head[id] = "PRE" -> SentPrecharge(t, id)]

SendFirst(t, senders, chances, head, issuable) ==
  IF senders # {}
  THEN LET via == FirstOf(t, senders)
       IN Send(t, CHOOSE id \in Sends(t, via, head, issuable) : TRUE, via, head)
  ELSE IF chances # {}
  THEN [sent |-> {FirstOf(t, chances)},
        scheduler |-> SentOpportunity(t, FirstOf(t, chances))]
  ELSE [sent |-> {}, scheduler |-> SentNothing(t)]

SendOne(t, head, issuable) ==
  SendFirst(t, {id \in ToSet(t.order) : Sends(t, id, head, issuable) # {}},
            Opportunities(t, head, issuable), head, issuable)

\* commandSchedule: whose command is sent, if any, and the scheduler after.
CommandSchedule(s, ready, head, issuable) ==
  SendOne(Planned(s, ready, head), head, issuable)
=============================================================================

-------------------------- MODULE RoundTiming_proofs --------------------------
(***************************************************************************)
(* Under Round every command keeps the distances of DDR3.cpp at the chip,  *)
(* for every speed grade, every number of requestors and every trace.      *)
(*                                                                         *)
(* The scheduler sends the command of a requestor that waits in tempqueue, *)
(* whose timer had run out when it was put there, and that the device      *)
(* accepts.  The device keeps the distances it checks (DeviceKeeps); for a *)
(* PRE it does not check the bank.  There the timer keeps nRAS after the   *)
(* activates (RowsKeptOpen), and nRTP after a read has passed because the  *)
(* next request of an in-order requestor is only generated when the data   *)
(* of the last read are back: a PRE is the first command of its request    *)
(* (PrechargesWait), and data take longer than nRTP (ReadsReturn).         *)
(*                                                                         *)
(* A round ends only in the cycle in which counter is swCAS, and it always *)
(* still can (RoundWillEndAlways): once a command has been considered for  *)
(* a round its end lies ahead (Planning, kept along the folds over Order), *)
(* and a round that begins was chosen for a command in tempqueue (Wanted), *)
(* or for none and then ends a cycle later (BypassReset).                  *)
(***************************************************************************)
EXTENDS RoundHistory_proofs, DDR3_proofs

-----------------------------------------------------------------------------
(* The Round scheduler: of all it keeps, the order of requestors and those *)
(* that wait in tempqueue.                                                 *)

\* The member variables.
Members == {"order", "tempqueue", "served", "considered", "roundType", "counter",
            "lastACT", "blockACT", "lastCAS", "swCAS", "swACT", "countACT", "jumps",
            "jump_6", "jump_7", "first", "BypassReset"}

\* A record of the scheduler's members, with a list of requestors.
SchedulerOK(s) == DOMAIN s = Members /\ s.order \in Seq(Nat)

\* t is s with other plans.
Keeps(s, t) == DOMAIN t = Members /\ t.order = s.order /\ t.tempqueue = s.tempqueue

\* FirstOf finds one of the requestors it is asked for.
LEMMA FirstOfIs ==
  ASSUME NEW s, SchedulerOK(s), NEW ids, ids \cap ToSet(s.order) # {}
  PROVE  FirstOf(s, ids) \in ids \cap ToSet(s.order)
<1> DEFINE places == {i \in DOMAIN s.order : s.order[i] \in ids}
<1>1. ToSet(s.order) = {s.order[i] : i \in DOMAIN s.order}
  BY DEF ToSet
<1>2. s.order \in Seq(Nat) /\ DOMAIN s.order \subseteq Nat
  BY DEF SchedulerOK
<1>3. places \in SUBSET Nat /\ places # {}
  BY <1>1, <1>2
<1>4. Min(places) \in places
  <2> HIDE DEF places
  <2>1. PICK m \in places : \A n \in places : m <= n
    BY <1>3, LeastNat
  <2> QED
    BY <2>1 DEF Min
<1>5. FirstOf(s, ids) = s.order[Min(places)]
  BY DEF FirstOf
<1> QED
  BY <1>1, <1>4, <1>5

\* A requestor that is moved to the end stays in the list.
LEMMA RotateIs ==
  ASSUME NEW order \in Seq(Nat), NEW id \in ToSet(order)
  PROVE  Rotate(order, id) \in Seq(Nat)
<1>1. \E i \in DOMAIN order : order[i] = id
  BY DEF ToSet
<1> DEFINE i == CHOOSE k \in DOMAIN order : order[k] = id
<1>2. i \in 1 .. Len(order) /\ id \in Nat
  BY <1>1
<1> HIDE DEF i
<1>3. RemoveAt(order, i) \in Seq(Nat)
  <2>1. RemoveAt(order, i) = Without(order, i)
    BY DEF RemoveAt, Without
  <2> QED
    BY <1>2, <2>1, WithoutType
<1>4. Rotate(order, id) = Append(RemoveAt(order, i), id)
  BY DEF Rotate, i
<1> HIDE DEF i
<1> QED
  BY <1>2, <1>3, <1>4

\* The rest of the round, and who is considered for it, are plans.
LEMMA PlansKeep ==
  ASSUME NEW s, DOMAIN s = Members, NEW head
  PROVE  /\ Keeps(s, SwitchACT(s, head))
         /\ Keeps(s, SwitchCAS(s, head))
         /\ Keeps(s, Consider(s, head))
<1>1. ASSUME NEW r, DOMAIN r = Members
      PROVE  /\ Keeps(r, Turn(r)) /\ Keeps(r, Again(r)) /\ Keeps(r, Reset(r))
  <2>1. Keeps(r, Reset(r))
    BY <1>1 DEF Reset, Keeps, Members
  <2>2. Keeps(r, Turn(r))
    BY <2>1 DEF Turn, Keeps, Members
  <2>3. Keeps(r, Again(r))
    BY <2>1 DEF Again, Keeps, Members
  <2> QED
    BY <2>1, <2>2, <2>3
<1>2. Keeps(s, SwitchACT(s, head))
  BY DEF SwitchACT, Keeps, Members
<1>3. ASSUME NEW r, DOMAIN r = Members
      PROVE  Keeps(r, NextRound(r, head))
  <2>1. Keeps(r, Turn(r)) /\ Keeps(r, Again(r)) /\ Keeps(r, Reset(r)) /\ Keeps(r, r)
    BY <1>1, <1>3 DEF Keeps
  <2>2. \A b, j : Keeps(r, [Again(r) EXCEPT !.BypassReset = b, !.jumps = j])
    BY <2>1 DEF Keeps, Members
  <2>3. Keeps(r, [Reset(r) EXCEPT !.BypassReset = TRUE])
    BY <2>1 DEF Keeps, Members
  <2> QED
    BY <2>1, <2>2, <2>3 DEF NextRound
<1>4. Keeps(s, SwitchCAS(s, head))
  <2>1. Keeps(s, s) /\ Keeps(s, [s EXCEPT !.swCAS = @ + 1, !.jump_7 = TRUE])
    BY DEF Keeps, Members
  <2>2. Keeps(s, NextRound(s, head))
    BY <1>3
  <2>3. \A t, j : Keeps(s, t) => Keeps(s, [t EXCEPT !.jumps = j])
    BY DEF Keeps, Members
  <2> QED
    BY <2>1, <2>2, <2>3 DEF SwitchCAS
<1>5. Keeps(s, Consider(s, head))
  <2>1. \A t : Keeps(s, Considered(s, t))
    BY DEF Considered, Keeps, Members
  <2>2. Keeps(s, ConsiderAll(s, head))
    BY <2>1 DEF ConsiderAll
  <2>3. \A t, n : Keeps(s, t) => Keeps(s, [t EXCEPT !.swCAS = n])
    BY DEF Keeps, Members
  <2> QED
    BY <2>2, <2>3 DEF Consider
<1> QED
  BY <1>2, <1>4, <1>5

\* The scheduler before it sends: the requestors with a ready command wait too.
LEMMA PlannedIs ==
  ASSUME NEW s, SchedulerOK(s), NEW ready, NEW head
  PROVE  /\ SchedulerOK(Planned(s, ready, head))
         /\ Planned(s, ready, head).tempqueue = s.tempqueue \cup ready
<1> DEFINE filled == [s EXCEPT !.tempqueue = @ \cup ready]
           act == SwitchACT(filled, head)
           cas == SwitchCAS(act, head)
<1>1. /\ DOMAIN filled = Members /\ filled.order = s.order
      /\ filled.tempqueue = s.tempqueue \cup ready
  BY DEF SchedulerOK, Members
<1>2. Planned(s, ready, head) = Consider(cas, head)
  BY DEF Planned
<1> HIDE DEF filled
<1>3. Keeps(filled, act)
  BY <1>1, PlansKeep
<1> HIDE DEF act
<1>4. Keeps(act, cas)
  BY <1>3, PlansKeep DEF Keeps
<1> HIDE DEF cas
<1>5. Keeps(cas, Consider(cas, head))
  BY <1>4, PlansKeep DEF Keeps
<1> QED
  BY <1>1, <1>2, <1>3, <1>4, <1>5 DEF Keeps, SchedulerOK

\* Only commands that wait, in Order, and that the device accepts are sent.
LEMMA SendsOnly ==
  ASSUME NEW s, SchedulerOK(s), NEW id, NEW head, NEW issuable
  PROVE  Sends(s, id, head, issuable) \subseteq issuable \cap s.tempqueue \cap ToSet(s.order)
<1> DEFINE accesses == Unserved(s, head, {AccessOf(s.roundType)}) \cap issuable
           activates == IF s.blockACT THEN {}
                        ELSE Unserved(s, head, {ActivateOf(s.roundType)}) \cap issuable
           all == issuable \cap s.tempqueue \cap ToSet(s.order)
<1>1. \A types : Unserved(s, head, types) \subseteq s.tempqueue \cap ToSet(s.order)
  BY DEF Unserved, Waiting
<1>2. \A types : Waiting(s, head, types) \subseteq s.tempqueue \cap ToSet(s.order)
  BY DEF Waiting
<1>3. accesses \subseteq all /\ activates \subseteq all
  BY <1>1
<1>4. accesses # {} => FirstOf(s, accesses) \in all
  <2> HIDE DEF all
  <2>1. accesses \cap ToSet(s.order) = accesses
    BY <1>3 DEF all
  <2> HIDE DEF accesses
  <2> QED
    BY <1>3, <2>1, FirstOfIs
<1>5. activates # {} => FirstOf(s, activates) \in all
  <2> HIDE DEF all
  <2>1. activates \cap ToSet(s.order) = activates
    BY <1>3 DEF all
  <2> HIDE DEF activates
  <2> QED
    BY <1>3, <2>1, FirstOfIs
<1>6. /\ id \in Unserved(s, head, {ActivateOf(s.roundType)}) => {id} \cap activates \subseteq all
      /\ id \in Unserved(s, head, {"PRE"}) \/ id \in Waiting(s, head, {"PRE"})
           => {id} \cap issuable \subseteq all
  BY <1>1, <1>2, <1>3
<1>7. Sends(s, id, head, issuable) =
        IF id \in Unserved(s, head, {AccessOf(s.roundType)}) THEN {id} \cap accesses
        ELSE IF /\ id \in Unserved(s, head, {ActivateOf(s.roundType)})
                /\ s.roundType = "WRITE" => ~ s.blockACT
        THEN IF accesses # {} THEN {FirstOf(s, accesses)} ELSE {id} \cap activates
        ELSE IF \/ id \in Unserved(s, head, {"PRE"})
                \/ id \in Waiting(s, head, {"PRE"}) /\ s.roundType = "READ"
        THEN IF accesses # {} THEN {FirstOf(s, accesses)}
             ELSE IF activates # {} THEN {FirstOf(s, activates)} ELSE {id} \cap issuable
        ELSE {}
  BY DEF Sends
<1> HIDE DEF accesses, activates, all
<1>8. Sends(s, id, head, issuable) \subseteq all
  BY <1>3, <1>4, <1>5, <1>6, <1>7
<1> QED
  BY <1>8 DEF all

\* Sending takes a requestor out of tempqueue, and perhaps to the end of Order.
LEMMA SentIs ==
  ASSUME NEW t, SchedulerOK(t), NEW id \in ToSet(t.order), NEW at
  PROVE  /\ SchedulerOK(SentAccess(t, id)) /\ SentAccess(t, id).tempqueue = t.tempqueue \ {id}
         /\ SchedulerOK(SentActivate(t, id, at))
         /\ SentActivate(t, id, at).tempqueue = t.tempqueue \ {id}
         /\ SchedulerOK(SentPrecharge(t, id))
         /\ SentPrecharge(t, id).tempqueue = t.tempqueue \ {id}
         /\ SchedulerOK(SentOpportunity(t, id))
         /\ SentOpportunity(t, id).tempqueue = t.tempqueue \ {id}
<1>1. t.order \in Seq(Nat) /\ Rotate(t.order, id) \in Seq(Nat) /\ DOMAIN t = Members
  BY RotateIs DEF SchedulerOK
<1>2. SchedulerOK(SentAccess(t, id)) /\ SentAccess(t, id).tempqueue = t.tempqueue \ {id}
  BY <1>1 DEF SentAccess, SchedulerOK, Members
<1>3. /\ SchedulerOK(SentActivate(t, id, at))
      /\ SentActivate(t, id, at).tempqueue = t.tempqueue \ {id}
  BY <1>1 DEF SentActivate, SchedulerOK, Members
<1>4. /\ SchedulerOK(SentPrecharge(t, id))
      /\ SentPrecharge(t, id).tempqueue = t.tempqueue \ {id}
  BY <1>1 DEF SentPrecharge, SchedulerOK, Members
<1>5. /\ SchedulerOK(SentOpportunity(t, id))
      /\ SentOpportunity(t, id).tempqueue = t.tempqueue \ {id}
  BY <1>1 DEF SentOpportunity, SchedulerOK, Members
<1> QED
  BY <1>2, <1>3, <1>4, <1>5

\* What a call of commandSchedule returns, for the requestors in tempqueue.
Chosen(result, queue, issuable) ==
  /\ SchedulerOK(result.scheduler)
  /\ \/ result.sent = {} /\ result.scheduler.tempqueue = queue
     \/ \E id \in queue \cap issuable : /\ result.sent = {id}
                                        /\ result.scheduler.tempqueue = queue \ {id}

\* The scheduler sends the command of one requestor that waits, and that the
\* device accepts, or none.
LEMMA ScheduleIs ==
  ASSUME NEW s, SchedulerOK(s), NEW ready, NEW head, NEW issuable,
         \A id \in s.tempqueue \cup ready : head[id] \in {"PRE", "RD", "WR"} \cup Activates
  PROVE  Chosen(CommandSchedule(s, ready, head, issuable), s.tempqueue \cup ready, issuable)
<1> DEFINE t == Planned(s, ready, head)
           senders == {id \in ToSet(t.order) : Sends(t, id, head, issuable) # {}}
           chances == Opportunities(t, head, issuable)
           queue == s.tempqueue \cup ready
           result == CommandSchedule(s, ready, head, issuable)
<1>1. SchedulerOK(t) /\ t.tempqueue = queue
  BY PlannedIs
<1>2. result = SendFirst(t, senders, chances, head, issuable)
  BY DEF CommandSchedule, SendOne
<1> HIDE DEF t, result
<1>3. ASSUME NEW id \in queue \cap issuable \cap ToSet(t.order), NEW via
      PROVE  Chosen(Send(t, id, via, head), queue, issuable)
  <2> DEFINE at == IF head[via] = "PRE" THEN t.counter + 1 ELSE t.counter
             next == Send(t, id, via, head).scheduler
  <2>1. Send(t, id, via, head).sent = {id}
    BY DEF Send
  <2>2. next = CASE head[id] \in {"RD", "WR"} -> SentAccess(t, id)
                 [] head[id] \in Activates -> SentActivate(t, id, at)
                 [] head[id] = "PRE" -> SentPrecharge(t, id)
    BY DEF Send
  <2> HIDE DEF next, at
  <2>3. head[id] \in {"PRE", "RD", "WR"} \cup Activates
    OBVIOUS
  <2>4. next \in {SentAccess(t, id), SentActivate(t, id, at), SentPrecharge(t, id)}
    BY <2>2, <2>3
  <2>5. SchedulerOK(next) /\ next.tempqueue = queue \ {id}
    BY <1>1, <1>3, <2>4, SentIs
  <2> QED
    BY <1>3, <2>1, <2>5 DEF Chosen, next
<1>4. CASE senders # {}
  <2> DEFINE via == FirstOf(t, senders)
             id == CHOOSE x \in Sends(t, via, head, issuable) : TRUE
  <2>1. senders \cap ToSet(t.order) # {}
    BY <1>4
  <2>2. via \in senders
    BY <1>1, <2>1, FirstOfIs
  <2>3. Sends(t, via, head, issuable) # {}
    BY <2>2
  <2>4. id \in Sends(t, via, head, issuable)
    BY <2>3
  <2>5. result = Send(t, id, via, head)
    BY <1>2, <1>4 DEF SendFirst
  <2> HIDE DEF id, via
  <2>6. id \in queue \cap issuable \cap ToSet(t.order)
    BY <1>1, <2>4, SendsOnly
  <2>7. Chosen(result, queue, issuable)
    BY <1>3, <2>5, <2>6
  <2> QED
    BY <2>7 DEF result
<1>5. CASE senders = {} /\ chances # {}
  <2> DEFINE id == FirstOf(t, chances)
  <2>1. chances \subseteq queue \cap issuable \cap ToSet(t.order)
    BY <1>1 DEF Opportunities, Waiting
  <2> HIDE DEF chances
  <2>2. chances \cap ToSet(t.order) # {}
    BY <1>5, <2>1
  <2>3. id \in chances
    BY <1>1, <2>2, FirstOfIs
  <2>4. result = [sent |-> {id}, scheduler |-> SentOpportunity(t, id)]
    BY <1>2, <1>5 DEF SendFirst
  <2> HIDE DEF id
  <2>5. id \in queue \cap issuable \cap ToSet(t.order)
    BY <2>1, <2>3
  <2>6. SchedulerOK(SentOpportunity(t, id)) /\ SentOpportunity(t, id).tempqueue = queue \ {id}
    BY <1>1, <2>5, SentIs
  <2>7. Chosen(result, queue, issuable)
    BY <2>4, <2>5, <2>6 DEF Chosen
  <2> QED
    BY <2>7 DEF result
<1>6. CASE senders = {} /\ chances = {}
  <2>1. result = [sent |-> {}, scheduler |-> SentNothing(t)]
    BY <1>2, <1>6 DEF SendFirst
  <2>2. SchedulerOK(SentNothing(t)) /\ SentNothing(t).tempqueue = queue
    BY <1>1 DEF SentNothing, SchedulerOK, Members
  <2>3. Chosen(result, queue, issuable)
    BY <2>1, <2>2 DEF Chosen
  <2> QED
    BY <2>3 DEF result
<1> QED
  BY <1>4, <1>5, <1>6

\* The constructor.
LEMMA SchedulerInit ==
  ASSUME NEW s \in FreshScheduler
  PROVE  SchedulerOK(s) /\ s.tempqueue = {}
<1>1. NumOrder \in Nat
  BY RoundAssumption
<1>2. [i \in 1 .. NumOrder |-> i - 1] \in Seq(Nat)
  BY <1>1
<1> QED
  BY <1>2 DEF FreshScheduler, SchedulerOK, Members

-----------------------------------------------------------------------------
(* The inductive invariant.                                                *)

\* The part of the device the system uses.
OwnDevice == [ranks |-> {OwnRank}, banks |-> Banks]

\* Types of what the commands are timed with.
TimesTyped ==
  /\ since \in [OpenPage \X Requestors -> Nat]
  /\ timer \in [Requestors -> [OpenPage -> Nat]]
  /\ DeviceType(dev, OwnDevice)
  /\ SchedulerOK(scheduler)

\* The device waits long enough for all commands it has got.
DeviceKeeps == DeviceWaited(dev, since, OwnRank, Requestors)

\* Who waits in tempqueue has a command there whose timer has run out.
WaitersReady ==
  \A id \in scheduler.tempqueue :
    /\ id \in Requestors /\ commandQueue[id] # <<>>
    /\ timer[id][Head(commandQueue[id]).type] = 0

\* The timers are ahead by a cycle between step and update.
Ahead == IF turn = NumRequestors + 1 THEN 1 ELSE 0

\* The timer of a PRE covers nRAS after each activate.
RowsKeptOpen ==
  \A id \in Requestors, a \in Activates :
    timer[id]["PRE"] + since[<<a, id>>] + Ahead >= Speed.nRAS

\* The last read is nRTP ago.
ReadDone(id) == since[<<"RD", id>>] >= Speed.nRTP

\* It will be when data that are still on their way are returned.
ReadUnderWay(id) ==
  \E k \in 1 .. Len(pendingReadData) :
    /\ pendingReadData[k].id = id
    /\ since[<<"RD", id>>] + dataCycles[k] >= Speed.nRTP

\* One or the other.
ReadsReturn == \A id \in Requestors : ReadDone(id) \/ ReadUnderWay(id)

\* The commands are the requestor's own; a PRE comes first of all commands of a
\* request, after all reads of the last.
PrechargeFirst(id, buffer) ==
  \A i \in 1 .. Len(buffer) : /\ buffer[i].id = id
                              /\ buffer[i].type = "PRE" => i = 1 /\ ReadDone(id)

\* Of all buffers.
PrechargesWait == \A id \in Requestors : PrechargeFirst(id, commandQueue[id])

\* The inductive invariant, given ChannelInv.
TimingInv ==
  /\ TimesTyped /\ DeviceKeeps /\ WaitersReady
  /\ RowsKeptOpen /\ ReadsReturn /\ PrechargesWait

\* What is known of the channel already.
ChannelInv == TypeOK /\ ReadCountersOrdered /\ BurstsAccounted /\ RowsFollow

-----------------------------------------------------------------------------
(* Constants.                                                              *)

\* The constants of the system.
LEMMA SystemConstants ==
  /\ OpenPage \subseteq Commands /\ Requestors \subseteq Banks
  /\ MaxAge \in Nat /\ OwnRank \in OwnDevice.ranks /\ Requestors \subseteq OwnDevice.banks
  /\ NumRequestors \in Nat \ {0}
  /\ OpenPage = {"ACT_R", "ACT_W", "PRE", "RD", "WR"} /\ Activates = {"ACT_R", "ACT_W"}
  /\ tRL + tBus >= Speed.nRTP /\ tRL \in Nat /\ tBus \in Nat
BY RoundAssumption, HistoryAssumption, ConstantsAssumption, SpeedAssumption, SpeedInt
   DEF OwnDevice, OpenPage, Activates, Constraint

\* Where since stops counting, nothing waits any more.
AgeLimit == [c \in OpenPage |-> MaxAge]

\* No distance between the commands of the system is longer than MaxAge.
LEMMA AgeLimitIs ==
  /\ AgeLimit \in [OpenPage -> Nat]
  /\ \A c \in OpenPage : /\ LongEnough(AgeLimit, RankTiming, OpenPage, c)
                         /\ LongEnough(AgeLimit, BankTiming, OpenPage, c)
  /\ MaxAge >= Speed.nRAS /\ MaxAge >= Speed.nRTP
<1>1. AgeLimit \in [OpenPage -> Nat]
  BY SystemConstants DEF AgeLimit
<1>2. \A c \in OpenPage : /\ LongEnough(AgeLimit, RankTiming, OpenPage, c)
                          /\ LongEnough(AgeLimit, BankTiming, OpenPage, c)
  BY HistoryAssumption DEF LongEnough, AgeLimit
<1>3. /\ <<"ACT_R", "PRE", Speed.nRAS>> \in BankTiming
      /\ <<"RD", "PRE", Speed.nRTP>> \in BankTiming
  BY DEF BankTiming, After, Activates
<1>4. \A e \in BankTiming : {e[1], e[2]} \subseteq OpenPage => e[3] <= MaxAge
  BY HistoryAssumption
<1>5. MaxAge >= Speed.nRAS /\ MaxAge >= Speed.nRTP
  <2>1. {"ACT_R", "PRE"} \subseteq OpenPage /\ {"RD", "PRE"} \subseteq OpenPage
    BY SystemConstants
  <2> QED
    BY <1>3, <1>4, <2>1, SystemConstants, SpeedInt
<1> QED
  BY <1>1, <1>2, <1>5

\* The distances before a PRE, but the one after a WR.
LEMMA BeforePrecharge ==
  ASSUME NEW e \in BankTiming \ After({"WR"}, {"PRE"}, WriteRecovery),
         e[2] = "PRE", e[1] \in OpenPage
  PROVE  \/ e[1] \in Activates /\ e[3] = Speed.nRAS
         \/ e[1] = "RD" /\ e[3] = Speed.nRTP
<1>1. e \in After(Activates, {"PRE"}, Speed.nRAS) \cup After({"RD"}, {"PRE"}, Speed.nRTP)
  <2>1. \A f \in After(Activates, Accesses, Speed.nRCD)
               \cup After({"RDA"}, Activates, Speed.nRTP + Speed.nRP)
               \cup After({"WRA"}, Activates, WriteRecovery + Speed.nRP)
               \cup After(Activates, Activates, Speed.nRC)
               \cup After({"PRE"}, Activates, Speed.nRP) : f[2] # "PRE"
    BY DEF After, Accesses, Reads, Writes, Activates
  <2> QED
    BY <2>1 DEF BankTiming
<1> QED
  BY <1>1 DEF After

-----------------------------------------------------------------------------
(* The buffers in the cycle in which a command is chosen.                  *)

\* A request joins an empty buffer, when no read of its requestor is under way.
LEMMA RequestAlone ==
  ASSUME TypeOK, BurstsAccounted, NEW id \in Requestors, requestQueue[id] # <<>>
  PROVE  /\ commandQueue[id] = <<>>
         /\ \A k \in 1 .. Len(pendingReadData) : pendingReadData[k].id # id
<1>1. pendingReadData \in Seq(Packets)
  BY DEF TypeOK
<1>2. BurstsOf(id, pendingReadData) = {} /\ commandQueue[id] = <<>>
  BY DEF BurstsAccounted, NothingInFlight
<1> QED
  BY <1>1, <1>2 DEF BurstsOf

\* Only the first command OPEN makes of a request is a PRE.
LEMMA GeneratedFirst ==
  ASSUME NEW id \in Requestors, NEW req \in Requests, NEW open \in BOOLEAN,
         NEW i \in 1 .. Len(CommandGenerate(id, req, open))
  PROVE  /\ CommandGenerate(id, req, open)[i].id = id
         /\ CommandGenerate(id, req, open)[i].type = "PRE" => i = 1
<1> DEFINE packet(t) == [type |-> t, id |-> id, addr |-> BusAddress(req.addr),
                         row |-> RowOf[req.addr]]
           read == req.type = "DATA_READ"
           cas == [k \in 1 .. BurstsPerRequest |-> packet(IF read THEN "RD" ELSE "WR")]
           opening == <<packet("PRE"), packet(IF read THEN "ACT_R" ELSE "ACT_W")>>
<1>1. BurstsPerRequest \in Nat \ {0}
  BY ConstantsAssumption
<1> DEFINE some == {packet("PRE"), packet("ACT_R"), packet("ACT_W"), packet("RD"), packet("WR")}
<1>2. /\ cas \in Seq(some) /\ Len(cas) = BurstsPerRequest
      /\ \A k \in 1 .. BurstsPerRequest : cas[k].id = id /\ cas[k].type # "PRE"
  BY <1>1
<1>3. /\ opening \in Seq(some) /\ Len(opening) = 2
      /\ opening[1].id = id /\ opening[2].id = id /\ opening[2].type # "PRE"
  OBVIOUS
<1>4. CommandGenerate(id, req, open) = IF open THEN cas ELSE opening \o cas
  BY DEF CommandGenerate
<1> HIDE DEF cas, opening, some
<1>5. CASE open
  BY <1>2, <1>4, <1>5
<1>6. CASE ~ open
  <2>1. /\ Len(opening \o cas) = 2 + BurstsPerRequest
        /\ \A k \in 1 .. 2 : (opening \o cas)[k] = opening[k]
        /\ \A k \in 3 .. 2 + BurstsPerRequest : (opening \o cas)[k] = cas[k - 2]
    <3>1. /\ Len(opening \o cas) = Len(opening) + Len(cas)
          /\ \A k \in 1 .. Len(opening) : (opening \o cas)[k] = opening[k]
          /\ \A k \in Len(opening) + 1 .. Len(opening) + Len(cas) :
               (opening \o cas)[k] = cas[k - Len(opening)]
      BY <1>2, <1>3, Concatenation
    <3> QED
      BY <1>1, <1>2, <1>3, <3>1
  <2>2. i \in 1 .. 2 + BurstsPerRequest
    BY <1>4, <1>6, <2>1
  <2>3. CASE i \in 3 .. 2 + BurstsPerRequest
    <3>1. i - 2 \in 1 .. BurstsPerRequest /\ (opening \o cas)[i] = cas[i - 2]
      BY <1>1, <2>1, <2>3
    <3> QED
      BY <1>2, <1>4, <1>6, <3>1
  <2>4. CASE i \in 1 .. 2
    <3>1. (i = 1 \/ i = 2) /\ 1 \in 1 .. 2 /\ 2 \in 1 .. 2
      BY <2>4
    <3>2. (opening \o cas)[1] = opening[1] /\ (opening \o cas)[2] = opening[2]
      BY <2>1, <3>1
    <3> QED
      BY <1>3, <1>4, <1>6, <3>1, <3>2
  <2> QED
    BY <1>1, <2>2, <2>3, <2>4
<1> QED
  BY <1>5, <1>6

\* What the buffers hold when a command is chosen.
LEMMA Buffers ==
  ASSUME ChannelInv, TimingInv, NEW id \in Requestors
  PROVE  /\ Buffer(id) \in Seq(Packets)
         /\ \A i \in 1 .. Len(Buffer(id)) : Buffer(id)[i].type \in OpenPage
         /\ PrechargeFirst(id, Buffer(id))
         /\ commandQueue[id] # <<>> => Buffer(id) = commandQueue[id]
<1>1. /\ Buffer(id) \in Seq(Packets)
      /\ \A i \in 1 .. Len(Buffer(id)) : Buffer(id)[i].type \in OpenPage
  BY BufferFollows DEF ChannelInv, Follow
<1>2. CASE id \notin Requesting
  <2>1. Buffer(id) = commandQueue[id]
    BY <1>2 DEF Buffer, Generated
  <2> QED
    BY <1>1, <2>1 DEF TimingInv, PrechargesWait
<1>3. CASE id \in Requesting
  <2> DEFINE req == Head(requestQueue[id])
             hit == id \in Hits
  <2>1. requestQueue[id] # <<>> /\ req \in Requests
    BY <1>3 DEF ChannelInv, TypeOK, Requesting
  <2>2. /\ commandQueue[id] = <<>>
        /\ \A k \in 1 .. Len(pendingReadData) : pendingReadData[k].id # id
    BY <2>1, RequestAlone DEF ChannelInv
  <2>3. ReadDone(id)
    BY <2>2 DEF TimingInv, ReadsReturn, ReadUnderWay
  <2>4. Buffer(id) = <<>> \o CommandGenerate(id, req, hit)
    BY <1>3, <2>2 DEF Buffer, Generated
  <2>5. hit \in BOOLEAN
    OBVIOUS
  <2> HIDE DEF req, hit
  <2>6. CommandGenerate(id, req, hit) \in Seq(Packets)
    BY <2>1, <2>5, CommandGenerateType
  <2>7. Buffer(id) = CommandGenerate(id, req, hit)
    BY <2>4, <2>6
  <2>8. PrechargeFirst(id, Buffer(id))
    BY <2>1, <2>3, <2>5, <2>7, GeneratedFirst DEF PrechargeFirst
  <2> QED
    BY <1>1, <2>2, <2>8
<1> QED
  BY <1>2, <1>3

\* Heads are the types of the commands at the front.
LEMMA HeadsAre ==
  ASSUME ChannelInv, TimingInv, NEW id \in Requestors, Buffer(id) # <<>>
  PROVE  /\ id \in DOMAIN Heads /\ Heads[id] = Head(Buffer(id)).type
         /\ Head(Buffer(id)) = Buffer(id)[1] /\ Heads[id] \in OpenPage
         /\ 1 \in 1 .. Len(Buffer(id)) /\ Head(Buffer(id)) \in Packets
<1>1. id \in DOMAIN Heads /\ Heads[id] = Head(Buffer(id)).type
  BY DEF Heads
<1>2. /\ Buffer(id) \in Seq(Packets)
      /\ \A i \in 1 .. Len(Buffer(id)) : Buffer(id)[i].type \in OpenPage
  BY Buffers
<1>3. 1 \in 1 .. Len(Buffer(id)) /\ Head(Buffer(id)) = Buffer(id)[1]
      /\ Head(Buffer(id)) \in Packets
  BY <1>2
<1> QED
  BY <1>1, <1>2, <1>3

\* The requestors the scheduler knows to wait, with those that join them.
Queue == scheduler.tempqueue \cup Ready

\* They have a command, and its timer has run out.
LEMMA QueueIs ==
  ASSUME ChannelInv, TimingInv, NEW id \in Queue
  PROVE  /\ id \in Requestors /\ Buffer(id) # <<>> /\ timer[id][Heads[id]] = 0
         /\ Heads[id] \in OpenPage
<1>1. CASE id \in Ready
  <2>1. id \in DOMAIN Heads /\ timer[id][Heads[id]] = 0
    BY <1>1 DEF Ready
  <2>2. id \in Requestors /\ Buffer(id) # <<>>
    BY <2>1 DEF Heads
  <2> QED
    BY <2>1, <2>2, HeadsAre
<1>2. CASE id \in scheduler.tempqueue
  <2>1. /\ id \in Requestors /\ commandQueue[id] # <<>>
        /\ timer[id][Head(commandQueue[id]).type] = 0
    BY <1>2 DEF TimingInv, WaitersReady
  <2>2. Buffer(id) = commandQueue[id]
    BY <2>1, Buffers
  <2> QED
    BY <2>1, <2>2, HeadsAre
<1> QED
  BY <1>1, <1>2 DEF Queue

-----------------------------------------------------------------------------
(* The step in which a command is chosen.                                  *)

\* No command is sent.
NothingSent ==
  /\ \A id \in Requestors : ~ Sent(id) /\ commandQueue'[id] = Buffer(id)
  /\ UNCHANGED <<since, dev, returnVars>>
  /\ timer' = TimerAfter({}) /\ scheduler'.tempqueue = Queue

\* The command of requestor id is sent: its timer has run out, and the device
\* accepts it.
OneSent(id) ==
  /\ Buffer(id) # <<>> /\ timer[id][Heads[id]] = 0
  /\ CommandCheck(dev, Heads[id], OwnRank, id)
  /\ \A j \in Requestors : Sent(j) => j = id
  /\ \A j \in Requestors : commandQueue'[j] = IF j = id THEN Tail(Buffer(j)) ELSE Buffer(j)
  /\ since' = SentTo(since, Heads[id], {id})
  /\ dev' = DeviceUpdate(dev, Heads[id], OwnRank, id)
  /\ GenerateData(Head(Buffer(id)))
  /\ timer' = TimerAfter({id}) /\ scheduler'.tempqueue = Queue \ {id}

\* One or the other.
LEMMA StepCases ==
  ASSUME ChannelInv, TimingInv, ObservedStep
  PROVE  /\ turn = NumRequestors /\ turn' = NumRequestors + 1 /\ SchedulerOK(scheduler')
         /\ NothingSent \/ \E id \in Requestors : OneSent(id)
<1> DEFINE result == CommandSchedule(scheduler, Ready, Heads, Issuable)
<1>1. turn = NumRequestors /\ StepWith(result)
  BY DEF ObservedStep, RoundStep
<1>2. SchedulerOK(scheduler)
  BY DEF TimingInv, TimesTyped
<1>3. \A id \in scheduler.tempqueue \cup Ready : Heads[id] \in {"PRE", "RD", "WR"} \cup Activates
  BY QueueIs, SystemConstants DEF Queue
<1>4. Chosen(result, Queue, Issuable)
  BY <1>2, <1>3, ScheduleIs DEF Queue
<1> HIDE DEF result
<1>5. scheduler' = result.scheduler /\ timer' = TimerAfter(result.sent)
  BY <1>1 DEF StepWith
<1>6. SchedulerOK(scheduler')
  BY <1>4, <1>5 DEF Chosen
<1>7. ASSUME NEW id \in Requestors, Buffer(id) # <<>>
      PROVE  Tail(Buffer(id)) # Buffer(id)
  <2>1. Buffer(id) \in Seq(Packets)
    BY Buffers
  <2> QED
    BY <1>7, <2>1
<1>8. \A id \in Requestors : Sent(id) <=> /\ Buffer(id) # <<>>
                                          /\ commandQueue'[id] = Tail(Buffer(id))
  BY <1>1 DEF Sent, Heads
<1>9. CASE result.sent = {}
  <2>1. StepNoCommand(Requesting, Hits) /\ UNCHANGED dev
    BY <1>1, <1>9 DEF StepWith
  <2>2. /\ turn' = turn + 1 /\ UNCHANGED returnVars
        /\ \A j \in Requestors : commandQueue'[j] = Buffer(j)
    BY <2>1 DEF StepNoCommand, Buffer
  <2>3. \A j \in Requestors : ~ Sent(j)
    BY <1>7, <1>8, <2>2
  <2>4. UNCHANGED since
    BY <2>3 DEF ObservedStep, historyVars
  <2>5. scheduler'.tempqueue = Queue
    BY <1>4, <1>5, <1>9 DEF Chosen
  <2>6. NothingSent
    BY <1>5, <1>9, <2>1, <2>2, <2>3, <2>4, <2>5 DEF NothingSent
  <2> QED
    BY <1>1, <1>6, <2>2, <2>6
<1>10. CASE result.sent # {}
  <2>1. PICK id \in Queue \cap Issuable : /\ result.sent = {id}
                                          /\ result.scheduler.tempqueue = Queue \ {id}
    BY <1>4, <1>10 DEF Chosen
  <2>2. id \in Requestors /\ Buffer(id) # <<>> /\ timer[id][Heads[id]] = 0
    BY QueueIs
  <2>3. StepCommand(id, Requesting, Hits) /\ dev' = DeviceUpdate(dev, Heads[id], OwnRank, id)
    BY <1>1, <1>10, <2>1 DEF StepWith
  <2>4. /\ turn' = turn + 1 /\ GenerateData(Head(Buffer(id)))
        /\ \A j \in Requestors : commandQueue'[j] = IF j = id THEN Tail(Buffer(j)) ELSE Buffer(j)
    BY <2>3 DEF StepCommand, Buffer
  <2>5. \A j \in Requestors : Sent(j) => j = id
    BY <1>7, <1>8, <2>4
  <2>6. Sent(id)
    BY <1>8, <2>2, <2>4
  <2>7. RecordCommand(id)
    BY <2>2, <2>5, <2>6 DEF ObservedStep
  <2>8. since' = SentTo(since, Heads[id], {id})
    <3>1. Heads[id] = Head(Buffer(id)).type
      BY <2>2, HeadsAre
    <3>2. since' = [since EXCEPT ![<<Heads[id], id>>] = 0]
      BY <2>7, <3>1 DEF RecordCommand
    <3>3. since \in [OpenPage \X Requestors -> Nat]
      BY DEF TimingInv, TimesTyped
    <3>4. \A x \in OpenPage \X Requestors :
            x = <<Heads[id], id>> <=> x[1] = Heads[id] /\ x[2] \in {id}
      OBVIOUS
    <3> QED
      BY <3>2, <3>3, <3>4 DEF SentTo
  <2>9. CommandCheck(dev, Heads[id], OwnRank, id)
    BY DEF Issuable
  <2>10. scheduler'.tempqueue = Queue \ {id} /\ timer' = TimerAfter({id})
    BY <1>5, <2>1
  <2>11. OneSent(id)
    BY <2>2, <2>3, <2>4, <2>5, <2>8, <2>9, <2>10 DEF OneSent
  <2> QED
    BY <1>1, <1>6, <2>2, <2>4, <2>11
<1> QED
  BY <1>9, <1>10

\* The waits of command_timing are naturals.
LEMMA WaitNat ==
  ASSUME NEW cmd \in OpenPage, NEW type \in OpenPage
  PROVE  CommandTiming(cmd, type) \in Nat
<1>1. Constraint.tRTW \in Nat
  BY SpeedInt, SpeedAssumption DEF Constraint
<1>2. /\ cmd \in {"ACT_R", "ACT_W", "PRE", "RD", "WR"}
      /\ type \in {"ACT_R", "ACT_W", "PRE", "RD", "WR"}
  BY SystemConstants
<1>3. cmd = "PRE" => CommandTiming(cmd, type) \in Nat
  BY <1>2, SpeedInt DEF CommandTiming, Activates
<1>4. cmd \in Activates => CommandTiming(cmd, type) \in Nat
  BY <1>2, SpeedInt DEF CommandTiming, Activates
<1>5. cmd = "RD" => CommandTiming(cmd, type) \in Nat
  BY <1>1, <1>2, SpeedInt DEF CommandTiming, Activates, Reads, Writes
<1>6. cmd = "WR" => CommandTiming(cmd, type) \in Nat
  BY <1>2, SpeedInt DEF CommandTiming, Activates, Reads, Writes
<1> QED
  BY <1>2, <1>3, <1>4, <1>5, <1>6 DEF Activates

\* A cycle takes at most one off a timer, and a command sets it first.
LEMMA TimersLater ==
  ASSUME TimingInv, NEW sent, \A id \in sent : id \in Requestors /\ Heads[id] \in OpenPage
  PROVE  /\ TimerAfter(sent) \in [Requestors -> [OpenPage -> Nat]]
         /\ \A j \in Requestors, type \in OpenPage :
              /\ TimerAfter(sent)[j][type] + 1 >= timer[j][type]
              /\ j \notin sent /\ timer[j][type] = 0 => TimerAfter(sent)[j][type] = 0
              /\ j \in sent => TimerAfter(sent)[j][type] + 1 >= CommandTiming(Heads[j], type)
<1> SUFFICES ASSUME NEW j \in Requestors, NEW type \in OpenPage
             PROVE  /\ TimerAfter(sent)[j][type] \in Nat
                    /\ TimerAfter(sent)[j][type] + 1 >= timer[j][type]
                    /\ j \notin sent /\ timer[j][type] = 0 => TimerAfter(sent)[j][type] = 0
                    /\ j \in sent => TimerAfter(sent)[j][type] + 1 >= CommandTiming(Heads[j], type)
  BY DEF TimerAfter
<1>1. timer[j][type] \in Nat
  BY DEF TimingInv, TimesTyped
<1>2. j \in sent => CommandTiming(Heads[j], type) \in Nat
  BY WaitNat
<1> DEFINE left == IF j \in sent THEN Max({timer[j][type], CommandTiming(Heads[j], type)})
                                 ELSE timer[j][type]
<1>3. TimerAfter(sent)[j][type] = AtLeast0(left - 1)
  BY DEF TimerAfter
<1>4. /\ left \in Nat /\ left >= timer[j][type]
      /\ j \notin sent => left = timer[j][type]
      /\ j \in sent => left >= CommandTiming(Heads[j], type)
  <2>1. CASE j \in sent
    <3>1. Max({timer[j][type], CommandTiming(Heads[j], type)})
            = IF timer[j][type] >= CommandTiming(Heads[j], type)
              THEN timer[j][type] ELSE CommandTiming(Heads[j], type)
      BY <1>1, <1>2, <2>1, Larger
    <3> QED
      BY <1>1, <1>2, <2>1, <3>1
  <2>2. CASE j \notin sent
    BY <1>1, <2>2
  <2> QED
    BY <2>1, <2>2
<1> HIDE DEF left
<1>5. AtLeast0(left - 1) = IF 0 >= left - 1 THEN 0 ELSE left - 1
  BY <1>4, Larger DEF AtLeast0
<1> QED
  BY <1>1, <1>2, <1>3, <1>4, <1>5

\* When no command is sent, only the timers and the buffers change.
LEMMA NothingKeeps ==
  ASSUME ChannelInv, TimingInv, turn = NumRequestors, turn' = NumRequestors + 1,
         SchedulerOK(scheduler'), NothingSent
  PROVE  TimingInv'
<1>1. /\ TimerAfter({}) \in [Requestors -> [OpenPage -> Nat]]
      /\ \A j \in Requestors, type \in OpenPage :
           /\ TimerAfter({})[j][type] + 1 >= timer[j][type]
           /\ timer[j][type] = 0 => TimerAfter({})[j][type] = 0
  BY TimersLater
<1>2. /\ timer' = TimerAfter({}) /\ scheduler'.tempqueue = Queue
      /\ UNCHANGED <<since, dev, pendingReadData, dataCycles>>
      /\ \A j \in Requestors : commandQueue'[j] = Buffer(j)
  BY DEF NothingSent, returnVars
<1>3. /\ since \in [OpenPage \X Requestors -> Nat]
      /\ timer \in [Requestors -> [OpenPage -> Nat]]
      /\ DeviceType(dev, OwnDevice)
  BY DEF TimingInv, TimesTyped
<1>4. TimesTyped'
  BY <1>1, <1>2, <1>3 DEF TimesTyped, DeviceType, OwnDevice
<1>5. DeviceKeeps'
  BY <1>2 DEF TimingInv, DeviceKeeps, DeviceWaited, Waited, Passed
<1>6. WaitersReady'
  <2> SUFFICES ASSUME NEW id \in Queue
               PROVE  /\ id \in Requestors /\ commandQueue'[id] # <<>>
                      /\ timer'[id][Head(commandQueue'[id]).type] = 0
    BY <1>2 DEF WaitersReady
  <2>1. /\ id \in Requestors /\ Buffer(id) # <<>> /\ timer[id][Heads[id]] = 0
        /\ Heads[id] \in OpenPage
    BY QueueIs
  <2>2. Heads[id] = Head(Buffer(id)).type
    BY <2>1, HeadsAre
  <2> QED
    BY <1>1, <1>2, <2>1, <2>2
<1>7. RowsKeptOpen'
  <2> SUFFICES ASSUME NEW id \in Requestors, NEW a \in Activates
               PROVE  timer'[id]["PRE"] + since'[<<a, id>>] + Ahead' >= Speed.nRAS
    BY DEF RowsKeptOpen
  <2>1. Ahead = 0 /\ Ahead' = 1
    BY SystemConstants DEF Ahead
  <2>2. a \in OpenPage /\ "PRE" \in OpenPage
    BY SystemConstants
  <2>3. timer[id]["PRE"] + since[<<a, id>>] + 0 >= Speed.nRAS
    BY <2>1 DEF TimingInv, RowsKeptOpen
  <2>4. timer[id]["PRE"] \in Nat /\ TimerAfter({})[id]["PRE"] \in Nat /\ since[<<a, id>>] \in Nat
    BY <1>1, <1>3, <2>2
  <2>5. TimerAfter({})[id]["PRE"] + 1 >= timer[id]["PRE"]
    BY <1>1, <2>2
  <2> QED
    BY <1>2, <2>1, <2>3, <2>4, <2>5, SpeedInt
<1>8. ReadsReturn'
  BY <1>2 DEF TimingInv, ReadsReturn, ReadDone, ReadUnderWay
<1>9. PrechargesWait'
  <2> SUFFICES ASSUME NEW id \in Requestors
               PROVE  PrechargeFirst(id, commandQueue[id])'
    BY DEF PrechargesWait
  <2>1. PrechargeFirst(id, Buffer(id)) /\ commandQueue'[id] = Buffer(id)
    BY <1>2, Buffers
  <2> QED
    BY <1>2, <2>1 DEF PrechargeFirst, ReadDone
<1> QED
  BY <1>4, <1>5, <1>6, <1>7, <1>8, <1>9 DEF TimingInv

\* A command is sent: it is of its requestor, and of a type OPEN makes.
LEMMA SentCommand ==
  ASSUME ChannelInv, TimingInv, NEW id \in Requestors, Buffer(id) # <<>>
  PROVE  /\ Head(Buffer(id)).id = id /\ Head(Buffer(id)).type = Heads[id]
         /\ Heads[id] \in OpenPage /\ Head(Buffer(id)) \in Packets
         /\ Heads[id] = "PRE" => ReadDone(id)
         /\ \A i \in 1 .. Len(Tail(Buffer(id))) : /\ Tail(Buffer(id))[i].id = id
                                                  /\ Tail(Buffer(id))[i].type # "PRE"
<1>1. /\ Heads[id] = Head(Buffer(id)).type /\ Head(Buffer(id)) = Buffer(id)[1]
      /\ Heads[id] \in OpenPage /\ 1 \in 1 .. Len(Buffer(id)) /\ Head(Buffer(id)) \in Packets
  BY HeadsAre
<1>2. Buffer(id) \in Seq(Packets) /\ PrechargeFirst(id, Buffer(id))
  BY Buffers
<1>3. \A i \in 1 .. Len(Tail(Buffer(id))) :
        i + 1 \in 1 .. Len(Buffer(id)) /\ i + 1 # 1 /\ Tail(Buffer(id))[i] = Buffer(id)[i + 1]
  BY <1>2
<1> QED
  BY <1>1, <1>2, <1>3 DEF PrechargeFirst

\* When a command is sent, what the device and the timers make the others wait
\* for covers its distances, and a read has its data on the way.
LEMMA SentKeeps ==
  ASSUME ChannelInv, TimingInv, turn = NumRequestors, turn' = NumRequestors + 1,
         SchedulerOK(scheduler'), NEW id \in Requestors, OneSent(id)
  PROVE  TimingInv'
<1> DEFINE cmd == Head(Buffer(id))
<1>1. /\ Buffer(id) # <<>> /\ timer' = TimerAfter({id}) /\ scheduler'.tempqueue = Queue \ {id}
      /\ dev' = DeviceUpdate(dev, Heads[id], OwnRank, id)
      /\ since' = SentTo(since, Heads[id], {id})
      /\ \A j \in Requestors : commandQueue'[j] = IF j = id THEN Tail(Buffer(j)) ELSE Buffer(j)
      /\ GenerateData(cmd)
  BY DEF OneSent
<1>2. /\ cmd.id = id /\ cmd.type = Heads[id] /\ Heads[id] \in OpenPage /\ cmd \in Packets
      /\ Heads[id] = "PRE" => ReadDone(id)
      /\ \A i \in 1 .. Len(Tail(Buffer(id))) : /\ Tail(Buffer(id))[i].id = id
                                               /\ Tail(Buffer(id))[i].type # "PRE"
  BY <1>1, SentCommand
<1> HIDE DEF cmd
<1>3. /\ TimerAfter({id}) \in [Requestors -> [OpenPage -> Nat]]
      /\ \A j \in Requestors, type \in OpenPage :
           /\ TimerAfter({id})[j][type] + 1 >= timer[j][type]
           /\ j \notin {id} /\ timer[j][type] = 0 => TimerAfter({id})[j][type] = 0
           /\ j \in {id} => TimerAfter({id})[j][type] + 1 >= CommandTiming(Heads[j], type)
  BY <1>2, TimersLater
<1>4. /\ since \in [OpenPage \X Requestors -> Nat]
      /\ timer \in [Requestors -> [OpenPage -> Nat]]
      /\ DeviceType(dev, OwnDevice) /\ DeviceWaited(dev, since, OwnRank, Requestors)
  BY DEF TimingInv, TimesTyped, DeviceKeeps
<1>5. /\ since' \in [OpenPage \X Requestors -> Nat]
      /\ \A c \in OpenPage, j \in Requestors :
           since'[<<c, j>>] = IF c = Heads[id] /\ j = id THEN 0 ELSE since[<<c, j>>]
  BY <1>1, <1>4 DEF SentTo
<1>6. TimesTyped'
  <2>1. DeviceType(DeviceUpdate(dev, Heads[id], OwnRank, id), OwnDevice)
    <3>1. Heads[id] \in Commands /\ OwnRank \in OwnDevice.ranks /\ id \in OwnDevice.banks
      BY <1>2, SystemConstants
    <3> QED
      BY <1>4, <3>1, UpdateType
  <2>2. DeviceType(dev', OwnDevice)
    BY <1>1, <2>1
  <2> QED
    BY <1>1, <1>3, <1>5, <2>2 DEF TimesTyped, DeviceType, OwnDevice
<1>7. DeviceKeeps'
  <2>1. DeviceWaited(DeviceUpdate(dev, Heads[id], OwnRank, id),
                     SentTo(since, Heads[id], {id}), OwnRank, Requestors)
    <3>1. /\ OpenPage \subseteq Commands /\ OwnRank \in OwnDevice.ranks
          /\ Requestors \subseteq OwnDevice.banks
      BY SystemConstants
    <3> QED
      BY <1>2, <1>4, <3>1, DeviceWaitedSend
  <2>2. DeviceWaited(dev', since', OwnRank, Requestors)
    BY <1>1, <2>1
  <2> QED
    BY <2>2 DEF DeviceKeeps, DeviceWaited, Waited, Passed
<1>8. WaitersReady'
  <2> SUFFICES ASSUME NEW j \in Queue \ {id}
               PROVE  /\ j \in Requestors /\ commandQueue'[j] # <<>>
                      /\ timer'[j][Head(commandQueue'[j]).type] = 0
    BY <1>1 DEF WaitersReady
  <2>1. /\ j \in Requestors /\ Buffer(j) # <<>> /\ timer[j][Heads[j]] = 0
        /\ Heads[j] \in OpenPage
    BY QueueIs
  <2>2. Heads[j] = Head(Buffer(j)).type
    BY <2>1, HeadsAre
  <2>3. commandQueue'[j] = Buffer(j)
    BY <1>1, <2>1
  <2>4. TimerAfter({id})[j][Heads[j]] = 0
    BY <1>3, <2>1
  <2> QED
    BY <1>1, <2>1, <2>2, <2>3, <2>4
<1>9. RowsKeptOpen'
  <2> SUFFICES ASSUME NEW j \in Requestors, NEW a \in Activates
               PROVE  timer'[j]["PRE"] + since'[<<a, j>>] + Ahead' >= Speed.nRAS
    BY DEF RowsKeptOpen
  <2>1. Ahead = 0 /\ Ahead' = 1
    BY SystemConstants DEF Ahead
  <2>2. a \in OpenPage /\ "PRE" \in OpenPage
    BY SystemConstants
  <2>3. timer[j]["PRE"] + since[<<a, j>>] + 0 >= Speed.nRAS
    BY <2>1 DEF TimingInv, RowsKeptOpen
  <2>4. timer[j]["PRE"] \in Nat /\ TimerAfter({id})[j]["PRE"] \in Nat /\ since[<<a, j>>] \in Nat
    BY <1>3, <1>4, <2>2
  <2>5. TimerAfter({id})[j]["PRE"] + 1 >= timer[j]["PRE"]
    BY <1>3, <2>2
  <2>6. timer'[j]["PRE"] = TimerAfter({id})[j]["PRE"]
    BY <1>1
  <2> DEFINE left == timer'[j]["PRE"]
             age == since'[<<a, j>>]
  <2>7. CASE a = Heads[id] /\ j = id
    <3>1. CommandTiming(a, "PRE") = Speed.nRAS
      BY DEF CommandTiming, Activates
    <3>2. TimerAfter({id})[j]["PRE"] + 1 >= Speed.nRAS
      BY <1>3, <2>2, <2>7, <3>1
    <3>3. age = 0 /\ left \in Nat /\ left + 1 >= Speed.nRAS
      BY <1>5, <2>2, <2>4, <2>6, <2>7, <3>2
    <3> HIDE DEF left, age
    <3>4. left + age + Ahead' >= Speed.nRAS
      BY <2>1, <3>3, SpeedInt
    <3> QED
      BY <3>4 DEF left, age
  <2>8. CASE ~ (a = Heads[id] /\ j = id)
    <3>1. age = since[<<a, j>>] /\ left \in Nat /\ left + 1 >= timer[j]["PRE"]
      BY <1>5, <2>2, <2>4, <2>5, <2>6, <2>8
    <3> HIDE DEF left, age
    <3>2. left + age + Ahead' >= Speed.nRAS
      BY <2>1, <2>3, <2>4, <3>1, SpeedInt
    <3> QED
      BY <3>2 DEF left, age
  <2> QED
    BY <2>7, <2>8
<1>10. ReadsReturn'
  <2>1. /\ pendingReadData \in Seq(Packets) /\ dataCycles \in Seq(Nat)
        /\ Len(dataCycles) = Len(pendingReadData)
    BY DEF ChannelInv, TypeOK, ReadCountersOrdered
  <2>2. IsRead(cmd) <=> Heads[id] = "RD"
    BY <1>2, SystemConstants DEF IsRead
  <2>3. CASE Heads[id] = "RD"
    <3>1. /\ pendingReadData' = Append(pendingReadData, cmd)
          /\ dataCycles' = Append(dataCycles, tRL + tBus)
      BY <1>1, <2>2, <2>3 DEF GenerateData
    <3> DEFINE n == Len(pendingReadData)
    <3>2. /\ Len(pendingReadData') = n + 1 /\ n \in Nat
          /\ pendingReadData'[n + 1] = cmd /\ dataCycles'[n + 1] = tRL + tBus
          /\ \A k \in 1 .. n : pendingReadData'[k] = pendingReadData[k]
                               /\ dataCycles'[k] = dataCycles[k]
      BY <1>2, <2>1, <3>1, SystemConstants
    <3> HIDE DEF n
    <3> SUFFICES ASSUME NEW j \in Requestors
                 PROVE  ReadDone(j)' \/ ReadUnderWay(j)'
      BY DEF ReadsReturn
    <3>3. CASE j = id
      <4>1. since'[<<"RD", id>>] = 0 /\ n + 1 \in 1 .. Len(pendingReadData')
        BY <1>2, <1>5, <2>3, <3>2
      <4>2. pendingReadData'[n + 1].id = id
            /\ since'[<<"RD", id>>] + dataCycles'[n + 1] >= Speed.nRTP
        BY <1>2, <3>2, <4>1, SystemConstants
      <4> QED
        BY <3>3, <4>1, <4>2 DEF ReadUnderWay
    <3>4. CASE j # id
      <4>1. since'[<<"RD", j>>] = since[<<"RD", j>>]
        BY <1>5, <3>4, SystemConstants
      <4>2. CASE ReadDone(j)
        BY <4>1, <4>2 DEF ReadDone
      <4>3. CASE ReadUnderWay(j)
        <5>1. PICK k \in 1 .. n : /\ pendingReadData[k].id = j
                                  /\ since[<<"RD", j>>] + dataCycles[k] >= Speed.nRTP
          BY <4>3 DEF ReadUnderWay, n
        <5>2. k \in 1 .. Len(pendingReadData') /\ pendingReadData'[k] = pendingReadData[k]
              /\ dataCycles'[k] = dataCycles[k]
          BY <3>2
        <5> QED
          BY <4>1, <5>1, <5>2 DEF ReadUnderWay
      <4> QED
        BY <4>2, <4>3 DEF TimingInv, ReadsReturn
    <3> QED
      BY <3>3, <3>4
  <2>4. CASE Heads[id] # "RD"
    <3>1. UNCHANGED <<pendingReadData, dataCycles>>
      BY <1>1, <2>2, <2>4 DEF GenerateData, returnVars
    <3>2. \A j \in Requestors : since'[<<"RD", j>>] = since[<<"RD", j>>]
      BY <1>5, <2>4, SystemConstants
    <3> QED
      BY <3>1, <3>2 DEF TimingInv, ReadsReturn, ReadDone, ReadUnderWay
  <2> QED
    BY <2>3, <2>4
<1>11. PrechargesWait'
  <2> SUFFICES ASSUME NEW j \in Requestors
               PROVE  PrechargeFirst(j, commandQueue[j])'
    BY DEF PrechargesWait
  <2>1. CASE j = id
    <3>1. commandQueue'[j] = Tail(Buffer(id))
      BY <1>1, <2>1
    <3> QED
      BY <1>2, <2>1, <3>1 DEF PrechargeFirst
  <2>2. CASE j # id
    <3>1. commandQueue'[j] = Buffer(j) /\ PrechargeFirst(j, Buffer(j))
      BY <1>1, <2>2, Buffers
    <3>2. since'[<<"RD", j>>] = since[<<"RD", j>>]
      BY <1>5, <2>2, SystemConstants
    <3> QED
      BY <3>1, <3>2 DEF PrechargeFirst, ReadDone
  <2> QED
    BY <2>1, <2>2
<1> QED
  BY <1>6, <1>7, <1>8, <1>9, <1>10, <1>11 DEF TimingInv

-----------------------------------------------------------------------------
(* The other steps.                                                        *)

\* What the invariant is about.
timingVars == <<since, timer, dev, scheduler, commandQueue, pendingReadData, dataCycles>>

\* Requestors change nothing of it.
LEMMA UntouchedKeeps ==
  ASSUME TimingInv, UNCHANGED timingVars, Ahead' = Ahead
  PROVE  TimingInv'
<1>1. /\ UNCHANGED since /\ UNCHANGED timer /\ UNCHANGED dev /\ UNCHANGED scheduler
      /\ UNCHANGED commandQueue /\ UNCHANGED pendingReadData /\ UNCHANGED dataCycles
  BY DEF timingVars
<1>2. TimesTyped'
  BY <1>1 DEF TimingInv, TimesTyped, DeviceType, OwnDevice
<1>3. DeviceKeeps'
  BY <1>1 DEF TimingInv, DeviceKeeps, DeviceWaited, Waited, Passed
<1>4. WaitersReady'
  BY <1>1 DEF TimingInv, WaitersReady
<1>5. RowsKeptOpen'
  BY <1>1 DEF TimingInv, RowsKeptOpen
<1>6. ReadsReturn'
  BY <1>1 DEF TimingInv, ReadsReturn, ReadDone, ReadUnderWay
<1>7. PrechargesWait'
  BY <1>1 DEF TimingInv, PrechargesWait, PrechargeFirst, ReadDone
<1> QED
  BY <1>2, <1>3, <1>4, <1>5, <1>6, <1>7 DEF TimingInv

\* The end of a cycle: what is left and what has passed change by one, and the
\* read that is returned has been sent for long enough.
LEMMA CycleKeeps ==
  ASSUME ChannelInv, TimingInv, RoundMemoryUpdate, RecordCycle
  PROVE  TimingInv'
<1>1. /\ turn = NumRequestors + 1 /\ turn' \in {NumRequestors + 2, 0}
      /\ dev' = DeviceTick(dev) /\ timer' = timer /\ scheduler' = scheduler
      /\ commandQueue' = commandQueue
  BY DEF RoundMemoryUpdate, MemoryUpdate, queueVars, Ended
<1>2. /\ since \in [OpenPage \X Requestors -> Nat]
      /\ timer \in [Requestors -> [OpenPage -> Nat]]
      /\ DeviceType(dev, OwnDevice) /\ DeviceWaited(dev, since, OwnRank, Requestors)
  BY DEF TimingInv, TimesTyped, DeviceKeeps
<1>3. since' = OneMoreCycle(since, AgeLimit)
  BY <1>2 DEF RecordCycle, OneMoreCycle, AgeLimit
<1>4. ASSUME NEW c \in OpenPage, NEW j \in Requestors
      PROVE  /\ since'[<<c, j>>] \in Nat /\ since[<<c, j>>] \in Nat
             /\ since'[<<c, j>>] = since[<<c, j>>] + 1 \/ since'[<<c, j>>] = MaxAge
             /\ since'[<<c, j>>] <= since[<<c, j>>] + 1
             /\ since'[<<c, j>>] >= since[<<c, j>>] \/ since'[<<c, j>>] = MaxAge
  <2>1. since[<<c, j>>] \in Nat
    BY <1>2
  <2>2. since'[<<c, j>>] = Min({MaxAge, since[<<c, j>>] + 1})
    BY <1>2, <1>3 DEF OneMoreCycle, AgeLimit
  <2>3. Min({MaxAge, since[<<c, j>>] + 1})
          = IF MaxAge <= since[<<c, j>>] + 1 THEN MaxAge ELSE since[<<c, j>>] + 1
    BY <2>1, SystemConstants, Smaller
  <2> QED
    BY <2>1, <2>2, <2>3, SystemConstants
<1>5. TimesTyped'
  <2>1. since' \in [OpenPage \X Requestors -> Nat]
    <3>1. DOMAIN since' = OpenPage \X Requestors /\ since' = [x \in DOMAIN since' |-> since'[x]]
      BY <1>2, <1>3 DEF OneMoreCycle
    <3> QED
      BY <1>4, <3>1
  <2>2. DeviceType(DeviceTick(dev), OwnDevice)
    BY <1>2, TickType
  <2>3. DeviceType(dev', OwnDevice)
    BY <1>1, <2>2
  <2> QED
    BY <1>1, <1>2, <2>1, <2>3 DEF TimingInv, TimesTyped, DeviceType, OwnDevice
<1>6. DeviceKeeps'
  <2>1. /\ OpenPage \subseteq Commands /\ OwnRank \in OwnDevice.ranks
        /\ Requestors \subseteq OwnDevice.banks
    BY SystemConstants
  <2>2. DeviceWaited(DeviceTick(dev), OneMoreCycle(since, AgeLimit), OwnRank, Requestors)
    BY <1>2, <2>1, AgeLimitIs, DeviceWaitedTick
  <2>3. DeviceWaited(dev', since', OwnRank, Requestors)
    BY <1>1, <1>3, <2>2
  <2> QED
    BY <2>3 DEF DeviceKeeps, DeviceWaited, Waited, Passed
<1>7. WaitersReady'
  BY <1>1 DEF TimingInv, WaitersReady
<1>8. RowsKeptOpen'
  <2> SUFFICES ASSUME NEW j \in Requestors, NEW a \in Activates
               PROVE  timer'[j]["PRE"] + since'[<<a, j>>] + Ahead' >= Speed.nRAS
    BY DEF RowsKeptOpen
  <2>1. Ahead = 1 /\ Ahead' = 0
    BY <1>1, SystemConstants DEF Ahead
  <2>2. a \in OpenPage /\ "PRE" \in OpenPage
    BY SystemConstants
  <2> DEFINE left == timer[j]["PRE"]
             age == since[<<a, j>>]
             later == since'[<<a, j>>]
  <2>3. left + age + 1 >= Speed.nRAS /\ timer'[j]["PRE"] = left
    BY <1>1, <2>1 DEF TimingInv, RowsKeptOpen
  <2>4. left \in Nat /\ age \in Nat /\ later \in Nat /\ (later = age + 1 \/ later = MaxAge)
    BY <1>2, <1>4, <2>2
  <2> HIDE DEF left, age, later
  <2>5. left + later + Ahead' >= Speed.nRAS
    BY <2>1, <2>3, <2>4, SpeedInt, AgeLimitIs, SystemConstants
  <2> QED
    BY <2>3, <2>5 DEF later
<1>9. \A j \in Requestors : ReadDone(j) => ReadDone(j)'
  <2> SUFFICES ASSUME NEW j \in Requestors, ReadDone(j)
               PROVE  ReadDone(j)'
    OBVIOUS
  <2>1. /\ since'[<<"RD", j>>] \in Nat /\ since[<<"RD", j>>] \in Nat
        /\ since'[<<"RD", j>>] >= since[<<"RD", j>>] \/ since'[<<"RD", j>>] = MaxAge
    BY <1>4, SystemConstants
  <2>2. since[<<"RD", j>>] >= Speed.nRTP
    BY DEF ReadDone
  <2>3. since'[<<"RD", j>>] >= Speed.nRTP
    BY <2>1, <2>2, SpeedInt, AgeLimitIs, SystemConstants
  <2> QED
    BY <2>3 DEF ReadDone
<1>10. ReadsReturn'
  <2> SUFFICES ASSUME NEW j \in Requestors
               PROVE  ReadDone(j)' \/ ReadUnderWay(j)'
    BY DEF ReadsReturn
  <2> DEFINE age == since[<<"RD", j>>]
             later == since'[<<"RD", j>>]
             cycles == Countdown(dataCycles)
             n == Len(pendingReadData)
  <2>1. CASE ReadDone(j)
    BY <1>9, <2>1
  <2>2. CASE ReadUnderWay(j)
    <3>1. PICK k \in 1 .. n : pendingReadData[k].id = j /\ age + dataCycles[k] >= Speed.nRTP
      BY <2>2 DEF ReadUnderWay
    <3>2. /\ pendingReadData \in Seq(Packets) /\ dataCycles \in Seq(Nat) /\ n \in Nat
          /\ Len(dataCycles) = n /\ dataCycles[k] > 0
      BY DEF ChannelInv, TypeOK, ReadCountersOrdered
    <3>3. cycles \in Seq(Nat) /\ Len(cycles) = n /\ cycles[k] = dataCycles[k] - 1
      BY <3>2, CountdownType
    <3>4. /\ age \in Nat /\ later \in Nat /\ later <= age + 1
          /\ later = age + 1 \/ later = MaxAge
      BY <1>4, SystemConstants
    <3>5. \/ /\ Head(cycles) = 0
             /\ dataCycles' = Tail(cycles) /\ pendingReadData' = Tail(pendingReadData)
          \/ dataCycles' = cycles /\ pendingReadData' = pendingReadData
      BY DEF RoundMemoryUpdate, MemoryUpdate
    <3>6. Head(cycles) = cycles[1]
      BY <3>2, <3>3
    <3>7. dataCycles[k] \in Nat
      BY <3>2
    <3>8. later = MaxAge => ReadDone(j)'
      BY AgeLimitIs DEF ReadDone
    <3> DEFINE left == cycles[k]
    <3>9. later + left >= Speed.nRTP \/ ReadDone(j)'
      <4>1. left = dataCycles[k] - 1
        BY <3>3
      <4>2. age + dataCycles[k] >= Speed.nRTP
        BY <3>1
      <4>3. \A x, d, bound \in Int : x + d >= bound => (x + 1) + (d - 1) >= bound
        OBVIOUS
      <4>4. age \in Int /\ (later = age + 1 \/ later = MaxAge)
        BY <3>4
      <4>5. dataCycles[k] \in Int
        BY <3>7
      <4>6. Speed.nRTP \in Int
        BY SpeedInt
      <4> HIDE DEF left, age, later
      <4>7. (age + 1) + (dataCycles[k] - 1) >= Speed.nRTP
        BY <4>2, <4>3, <4>4, <4>5, <4>6
      <4>8. later = age + 1 => later + left >= Speed.nRTP
        BY <4>1, <4>7
      <4> QED
        BY <3>8, <4>4, <4>8
    <3>10. CASE later + left >= Speed.nRTP /\ dataCycles' = cycles /\ pendingReadData' = pendingReadData
      BY <3>1, <3>10 DEF ReadUnderWay
    <3>11. CASE /\ later + left >= Speed.nRTP /\ Head(cycles) = 0
                /\ dataCycles' = Tail(cycles) /\ pendingReadData' = Tail(pendingReadData)
      <4>1. CASE k = 1
        <5>1. later >= Speed.nRTP
          BY <3>4, <3>6, <3>11, <4>1
        <5> QED
          BY <5>1 DEF ReadDone
      <4>2. CASE k # 1
        <5>1. /\ k - 1 \in 1 .. Len(pendingReadData')
              /\ pendingReadData'[k - 1] = pendingReadData[k] /\ dataCycles'[k - 1] = cycles[k]
          BY <3>2, <3>3, <3>11, <4>2
        <5> QED
          BY <3>1, <3>11, <5>1 DEF ReadUnderWay
      <4> QED
        BY <4>1, <4>2
    <3> QED
      BY <3>5, <3>9, <3>10, <3>11
  <2> QED
    BY <2>1, <2>2 DEF TimingInv, ReadsReturn
<1>11. PrechargesWait'
  <2> SUFFICES ASSUME NEW j \in Requestors
               PROVE  PrechargeFirst(j, commandQueue[j])'
    BY DEF PrechargesWait
  <2>1. PrechargeFirst(j, commandQueue[j]) /\ commandQueue'[j] = commandQueue[j]
    BY <1>1 DEF TimingInv, PrechargesWait
  <2>2. ReadDone(j) => ReadDone(j)'
    BY <1>9
  <2> QED
    BY <2>1, <2>2 DEF PrechargeFirst
<1> QED
  BY <1>5, <1>6, <1>7, <1>8, <1>10, <1>11 DEF TimingInv

-----------------------------------------------------------------------------
(* The theorem.                                                            *)

\* Initially nothing waits, and every command is long ago.
LEMMA TimingInit ==
  ASSUME ObservedInit
  PROVE  TimingInv
<1>1. /\ since = [x \in OpenPage \X Requestors |-> MaxAge]
      /\ timer = [id \in Requestors |-> [type \in OpenPage |-> 0]]
      /\ dev = InitDevice({OwnRank}, Banks) /\ scheduler \in FreshScheduler
      /\ commandQueue = [id \in Requestors |-> <<>>] /\ turn = 0
  BY DEF ObservedInit, RoundInit, Init
<1>2. SchedulerOK(scheduler) /\ scheduler.tempqueue = {}
  BY <1>1, SchedulerInit
<1>3. TimesTyped
  <2>1. DeviceType(dev, OwnDevice)
    <3>1. OwnDevice.ranks = {OwnRank} /\ OwnDevice.banks = Banks
      BY DEF OwnDevice
    <3> QED
      BY <1>1, <3>1, InitType
  <2> QED
    BY <1>1, <1>2, <2>1, SystemConstants DEF TimesTyped
<1>4. DeviceKeeps
  <2>1. \A x \in OpenPage \X Requestors : since[x] = AgeLimit[x[1]]
    BY <1>1 DEF AgeLimit
  <2>2. since \in [OpenPage \X Requestors -> Nat]
    BY <1>3 DEF TimesTyped
  <2>3. OwnRank \in {OwnRank} /\ Requestors \subseteq Banks /\ OpenPage \subseteq Commands
    BY SystemConstants, RoundAssumption
  <2>4. DeviceWaited(InitDevice({OwnRank}, Banks), since, OwnRank, Requestors)
    BY <2>1, <2>2, <2>3, AgeLimitIs, DeviceWaitedInit
  <2> QED
    BY <1>1, <2>4 DEF DeviceKeeps
<1>5. WaitersReady
  BY <1>2 DEF WaitersReady
<1>6. RowsKeptOpen
  <2> SUFFICES ASSUME NEW id \in Requestors, NEW a \in Activates
               PROVE  timer[id]["PRE"] + since[<<a, id>>] + Ahead >= Speed.nRAS
    BY DEF RowsKeptOpen
  <2>1. timer[id]["PRE"] = 0 /\ since[<<a, id>>] = MaxAge /\ Ahead = 0
    BY <1>1, SystemConstants DEF Ahead
  <2> QED
    BY <2>1, AgeLimitIs, SystemConstants
<1>7. ReadsReturn
  BY <1>1, AgeLimitIs, SystemConstants DEF ReadsReturn, ReadDone
<1>8. PrechargesWait
  BY <1>1 DEF PrechargesWait, PrechargeFirst
<1> QED
  BY <1>3, <1>4, <1>5, <1>6, <1>7, <1>8 DEF TimingInv

\* Every step keeps the invariant.
LEMMA TimingNext ==
  ASSUME ChannelInv, TimingInv, [ObservedNext]_observedVars
  PROVE  TimingInv'
<1>1. CASE \E id \in Requestors : RoundUpdate(id) /\ UNCHANGED historyVars
  <2>1. PICK id \in Requestors : RoundUpdate(id) /\ UNCHANGED historyVars
    BY <1>1
  <2>2. UNCHANGED timingVars
    BY <2>1 DEF RoundUpdate, Update, UpdateSend, UpdateWait, UpdateBlocked, UpdateBlank,
                UpdateEnd, queueVars, returnVars, schedulerVars, historyVars, timingVars
  <2>3. turn = id /\ turn' = turn + 1
    BY <2>1 DEF RoundUpdate, Update, UpdateSend, UpdateWait, UpdateBlocked, UpdateBlank, UpdateEnd
  <2>4. Ahead' = Ahead
    BY <2>3, SystemConstants DEF Ahead, Requestors
  <2> QED
    BY <2>2, <2>4, UntouchedKeeps
<1>2. CASE ObservedStep
  <2>1. /\ turn = NumRequestors /\ turn' = NumRequestors + 1 /\ SchedulerOK(scheduler')
        /\ NothingSent \/ \E id \in Requestors : OneSent(id)
    BY <1>2, StepCases
  <2> QED
    BY <2>1, NothingKeeps, SentKeeps
<1>3. CASE RoundMemoryUpdate /\ RecordCycle
  BY <1>3, CycleKeeps
<1>4. CASE RoundExit /\ UNCHANGED historyVars
  <2>1. UNCHANGED timingVars /\ turn' = turn
    BY <1>4 DEF RoundExit, Exit, vars, queueVars, returnVars, schedulerVars, historyVars, timingVars
  <2> QED
    BY <2>1, UntouchedKeeps DEF Ahead
<1>5. CASE UNCHANGED observedVars
  <2>1. UNCHANGED timingVars /\ turn' = turn
    BY <1>5 DEF observedVars, roundVars, vars, queueVars, returnVars, schedulerVars, historyVars,
                timingVars
  <2> QED
    BY <2>1, UntouchedKeeps DEF Ahead
<1> QED
  BY <1>1, <1>2, <1>3, <1>4, <1>5 DEF ObservedNext

\* The distances before the command of a requestor that is sent.
Distances(id) ==
  /\ Kept(RankTiming, since, Heads[id], Requestors)
  /\ Kept(BankTiming \ After({"WR"}, {"PRE"}, WriteRecovery), since, Heads[id], {id})

\* The device sees to the distances it knows; those before a PRE, of which it
\* knows none, are those of the timer, of the rows and of the answers.
LEMMA SentInTime ==
  ASSUME ChannelInv, TimingInv, ObservedNext, NEW id \in Requestors, Sent(id)
  PROVE  Distances(id)
<1> DEFINE ours == BankTiming \ After({"WR"}, {"PRE"}, WriteRecovery)
<1>1. turn = NumRequestors
  BY DEF Sent
<1>2. ObservedStep
  <2>1. turn \notin Requestors /\ turn # NumRequestors + 1 /\ turn # Ended
    BY <1>1, SystemConstants DEF Requestors, Ended
  <2> QED
    BY <2>1 DEF ObservedNext, RoundUpdate, Update, UpdateSend, UpdateWait, UpdateBlocked,
                UpdateBlank, UpdateEnd, RoundMemoryUpdate, MemoryUpdate, RoundExit, Exit
<1>3. OneSent(id)
  BY <1>2, StepCases DEF NothingSent, OneSent
<1>4. Buffer(id) # <<>> /\ timer[id][Heads[id]] = 0 /\ CommandCheck(dev, Heads[id], OwnRank, id)
  BY <1>3 DEF OneSent
<1>5. Heads[id] \in OpenPage /\ (Heads[id] = "PRE" => ReadDone(id))
  BY <1>4, SentCommand
<1>6. /\ since \in [OpenPage \X Requestors -> Nat]
      /\ DeviceWaited(dev, since, OwnRank, Requestors)
  BY DEF TimingInv, TimesTyped, DeviceKeeps
<1>7. /\ Kept(RankTiming, since, Heads[id], Requestors)
      /\ Heads[id] # "PRE" => Kept(BankTiming, since, Heads[id], {id})
  BY <1>4, <1>5, <1>6, DeviceWaitedKeeps
<1>8. CASE Heads[id] # "PRE"
  <2>1. Kept(ours, since, Heads[id], {id})
    BY <1>7, <1>8 DEF Kept
  <2> QED
    BY <1>7, <2>1 DEF Distances
<1>9. CASE Heads[id] = "PRE"
  <2>1. ASSUME NEW e \in ours, e[2] = "PRE", <<e[1], id>> \in DOMAIN since
        PROVE  since[<<e[1], id>>] >= e[3]
    <3>1. e[1] \in OpenPage /\ since[<<e[1], id>>] \in Nat
      BY <1>6, <2>1
    <3>2. CASE e[1] \in Activates /\ e[3] = Speed.nRAS
      <4>1. Ahead = 0 /\ timer[id]["PRE"] = 0
        BY <1>1, <1>4, <1>9, SystemConstants DEF Ahead
      <4>2. timer[id]["PRE"] + since[<<e[1], id>>] + Ahead >= Speed.nRAS
        BY <3>2 DEF TimingInv, RowsKeptOpen
      <4> QED
        BY <3>1, <3>2, <4>1, <4>2
    <3>3. CASE e[1] = "RD" /\ e[3] = Speed.nRTP
      BY <1>5, <1>9, <3>3 DEF ReadDone
    <3> QED
      BY <2>1, <3>1, <3>2, <3>3, BeforePrecharge
  <2> HIDE DEF ours
  <2>2. Kept(ours, since, Heads[id], {id})
    BY <1>9, <2>1 DEF Kept
  <2> QED
    BY <1>7, <2>2 DEF Distances, ours
<1> QED
  BY <1>8, <1>9

\* Every command of the system keeps the distances of DDR3.cpp at the chip, but
\* the one between a WR and the PRE of its bank, if no packet's address is cut.
THEOREM CommandsInTimeAlways ==
  ASSUME NoAddressCut
  PROVE  ObservedSpec => CommandsInTime
<1>1. ObservedInit => TimingInv
  BY TimingInit
<1>2. ChannelInv /\ TimingInv /\ [ObservedNext]_observedVars => TimingInv'
  BY TimingNext
<1>3. ChannelInv /\ TimingInv /\ ObservedNext =>
        \A id \in Requestors :
          Sent(id) => /\ Kept(RankTiming, since, Heads[id], Requestors)
                      /\ Kept(BankTiming \ After({"WR"}, {"PRE"}, WriteRecovery),
                              since, Heads[id], {id})
  BY SentInTime DEF Distances
<1>4. ObservedSpec => []ChannelInv
  <2>1. ObservedSpec => []TypeOK
    BY ObservedIsSystem, RoundImplementsChannel, TypeCorrect, PTL
  <2>2. ObservedSpec => []ReadCountersOrdered
    BY ObservedIsSystem, RoundReadBurstsReturnInTime, PTL
  <2>3. ObservedSpec => []BurstsAccounted
    BY ObservedIsSystem, RoundBurstsAreAccounted, PTL
  <2>4. ObservedSpec => []RowsFollow
    BY RowsFollowAlways
  <2> QED
    BY <2>1, <2>2, <2>3, <2>4, PTL DEF ChannelInv
<1> QED
  BY <1>1, <1>2, <1>3, <1>4, PTL DEF ObservedSpec, CommandsInTime

-----------------------------------------------------------------------------
(* The plans of a round.                                                   *)

\* Types of the members.
Schedulers ==
  [order : Seq(Nat), tempqueue : SUBSET Requestors, served : SUBSET Nat,
   considered : SUBSET Nat, roundType : RoundTypes, counter : Int, lastACT : Int,
   blockACT : BOOLEAN, lastCAS : Int, swCAS : Int, swACT : Int, countACT : Int,
   jumps : SUBSET (1 .. 5), jump_6 : BOOLEAN, jump_7 : BOOLEAN, first : BOOLEAN,
   BypassReset : BOOLEAN]

\* The end of the round lies ahead, at the latest when a command has been
\* considered for it.
Planning(t) == t.counter <= t.swCAS /\ (t.considered = {} \/ t.counter < t.swCAS)

\* What a scheduler may be when it has considered more commands.
Plans(s) ==
  {t \in Schedulers :
     /\ Planning(t) /\ s.considered \subseteq t.considered
     /\ t.order = s.order /\ t.tempqueue = s.tempqueue /\ t.served = s.served
     /\ t.roundType = s.roundType /\ t.blockACT = s.blockACT /\ t.jumps = s.jumps
     /\ t.BypassReset = s.BypassReset
     /\ s.counter < s.swCAS => t.counter < t.swCAS}

\* The constraints of a round.
LEMMA RoundTimes ==
  /\ tCCD \in Nat \ {0} /\ tRCD \in Nat /\ tRRD \in Nat /\ tFAW \in Nat
  /\ \A type : Turnaround(type) \in Int
  /\ \A n \in Int : AtLeast0(n) \in Nat
<1>1. \A f \in {"nCCD", "nRCD", "nRRD", "nFAW", "nCL", "nBL", "nCWL", "nWTR"} : Speed[f] \in Nat \ {0}
  BY SpeedAssumption DEF SpeedFields
<1>2. \A n \in Int : AtLeast0(n) = IF 0 >= n THEN 0 ELSE n
  BY Larger DEF AtLeast0
<1> QED
  BY <1>1, <1>2 DEF tCCD, tRCD, tRRD, tFAW, Turnaround, tWtoR, Constraint

\* A member that changes, one at a time.
LEMMA MembersChange ==
  ASSUME NEW s \in Schedulers
  PROVE  /\ \A n \in Int : /\ [s EXCEPT !.counter = n] \in Schedulers
                           /\ [s EXCEPT !.lastACT = n] \in Schedulers
                           /\ [s EXCEPT !.lastCAS = n] \in Schedulers
                           /\ [s EXCEPT !.swCAS = n] \in Schedulers
                           /\ [s EXCEPT !.swACT = n] \in Schedulers
                           /\ [s EXCEPT !.countACT = n] \in Schedulers
         /\ \A b \in BOOLEAN : /\ [s EXCEPT !.jump_6 = b] \in Schedulers
                               /\ [s EXCEPT !.jump_7 = b] \in Schedulers
                               /\ [s EXCEPT !.BypassReset = b] \in Schedulers
         /\ \A b \in BOOLEAN : /\ [s EXCEPT !.first = b] \in Schedulers
                               /\ [s EXCEPT !.blockACT = b] \in Schedulers
         /\ \A ids \in SUBSET Nat : [s EXCEPT !.considered = ids] \in Schedulers
         /\ \A id \in Nat : /\ [s EXCEPT !.served = @ \cup {id}] \in Schedulers
                            /\ [s EXCEPT !.considered = @ \cup {id}] \in Schedulers
         /\ \A ids \in SUBSET Requestors : [s EXCEPT !.tempqueue = ids] \in Schedulers
         /\ \A list \in Seq(Nat) : [s EXCEPT !.order = list] \in Schedulers
         /\ \A type \in RoundTypes : [s EXCEPT !.roundType = type] \in Schedulers
         /\ \A set \in SUBSET (1 .. 5) : [s EXCEPT !.jumps = set] \in Schedulers
BY DEF Schedulers

\* The values members are set back to.
LEMMA MembersReset ==
  ASSUME NEW s \in Schedulers
  PROVE  /\ [s EXCEPT !.counter = 0] \in Schedulers /\ [s EXCEPT !.lastACT = 0] \in Schedulers
         /\ [s EXCEPT !.swCAS = 0] \in Schedulers /\ [s EXCEPT !.swACT = 0] \in Schedulers
         /\ [s EXCEPT !.countACT = 0] \in Schedulers
         /\ [s EXCEPT !.blockACT = FALSE] \in Schedulers /\ [s EXCEPT !.blockACT = TRUE] \in Schedulers
         /\ [s EXCEPT !.first = FALSE] \in Schedulers /\ [s EXCEPT !.first = TRUE] \in Schedulers
         /\ [s EXCEPT !.served = {}] \in Schedulers /\ [s EXCEPT !.considered = {}] \in Schedulers
         /\ [s EXCEPT !.jump_6 = FALSE] \in Schedulers /\ [s EXCEPT !.jump_7 = FALSE] \in Schedulers
         /\ [s EXCEPT !.jump_6 = TRUE] \in Schedulers /\ [s EXCEPT !.jump_7 = TRUE] \in Schedulers
         /\ [s EXCEPT !.BypassReset = FALSE] \in Schedulers
         /\ [s EXCEPT !.BypassReset = TRUE] \in Schedulers
<1>1. /\ [s EXCEPT !.counter = 0] \in Schedulers /\ [s EXCEPT !.lastACT = 0] \in Schedulers
      /\ [s EXCEPT !.swCAS = 0] \in Schedulers /\ [s EXCEPT !.swACT = 0] \in Schedulers
      /\ [s EXCEPT !.countACT = 0] \in Schedulers
  <2>1. 0 \in Int
    OBVIOUS
  <2> QED
    BY <2>1, MembersChange
<1>2. /\ [s EXCEPT !.blockACT = FALSE] \in Schedulers /\ [s EXCEPT !.blockACT = TRUE] \in Schedulers
      /\ [s EXCEPT !.first = FALSE] \in Schedulers /\ [s EXCEPT !.first = TRUE] \in Schedulers
  BY DEF Schedulers
<1>3. /\ [s EXCEPT !.served = {}] \in Schedulers /\ [s EXCEPT !.considered = {}] \in Schedulers
      /\ [s EXCEPT !.jump_6 = FALSE] \in Schedulers /\ [s EXCEPT !.jump_7 = FALSE] \in Schedulers
  BY DEF Schedulers
<1>4. /\ [s EXCEPT !.jump_6 = TRUE] \in Schedulers /\ [s EXCEPT !.jump_7 = TRUE] \in Schedulers
      /\ [s EXCEPT !.BypassReset = FALSE] \in Schedulers
      /\ [s EXCEPT !.BypassReset = TRUE] \in Schedulers
  BY DEF Schedulers
<1> QED
  BY <1>1, <1>2, <1>3, <1>4

\* An access that is considered makes the round longer.
LEMMA AccessPlans ==
  ASSUME NEW t \in Schedulers, Planning(t), NEW id \in Nat, NEW absolute \in BOOLEAN
  PROVE  /\ ConsiderAccess(t, id, absolute) \in Plans(t)
         /\ id \in ConsiderAccess(t, id, absolute).considered
<1> DEFINE last == IF absolute /\ t.lastCAS < 0 THEN -t.lastCAS ELSE t.lastCAS
           wait == AtLeast0(Turnaround(t.roundType) - (t.counter - last))
           seen == [t EXCEPT !.considered = @ \cup {id}]
           end == AtLeast0(t.swCAS + tCCD - tRCD)
           r == ConsiderAccess(t, id, absolute)
<1>1. t.counter \in Int /\ t.lastCAS \in Int /\ t.swCAS \in Int
  BY DEF Schedulers
<1>2. wait \in Nat /\ end \in Nat
  BY <1>1, RoundTimes
<1>3. r = IF t.first
          THEN [seen EXCEPT !.lastCAS = wait, !.counter = 0, !.first = FALSE,
                            !.swCAS = wait + tCCD, !.swACT = 0]
          ELSE [seen EXCEPT !.lastCAS = @ + tCCD, !.swCAS = @ + tCCD, !.swACT = end]
  BY DEF ConsiderAccess
<1> HIDE DEF last, wait, end, r
<1>4. r \in Schedulers
  <2>1. seen \in Schedulers /\ seen.lastCAS = t.lastCAS /\ seen.swCAS = t.swCAS
    <3>1. seen \in Schedulers
      BY MembersChange
    <3> QED
      BY <3>1 DEF Schedulers
  <2>2. /\ t.lastCAS + tCCD \in Int /\ t.swCAS + tCCD \in Int /\ wait + tCCD \in Int
        /\ wait \in Int /\ end \in Int
    BY <1>1, <1>2, RoundTimes
  <2> HIDE DEF seen
  <2>3. CASE t.first
    <3> DEFINE q == [[[seen EXCEPT !.lastCAS = wait] EXCEPT !.counter = 0] EXCEPT !.first = FALSE]
    <3>1. r = [[q EXCEPT !.swCAS = wait + tCCD] EXCEPT !.swACT = 0]
      BY <1>3, <2>3
    <3>2. q \in Schedulers
      BY <2>1, <2>2, MembersChange, MembersReset
    <3> HIDE DEF q
    <3> QED
      BY <2>2, <3>1, <3>2, MembersChange, MembersReset
  <2>4. CASE ~ t.first
    <3>1. r = [[[seen EXCEPT !.lastCAS = t.lastCAS + tCCD] EXCEPT !.swCAS = t.swCAS + tCCD]
               EXCEPT !.swACT = end]
      BY <1>3, <2>1, <2>4
    <3> QED
      BY <2>1, <2>2, <3>1, MembersChange
  <2> QED
    BY <2>3, <2>4
<1>5. /\ r.considered = t.considered \cup {id} /\ r.order = t.order /\ r.tempqueue = t.tempqueue
      /\ r.served = t.served /\ r.roundType = t.roundType /\ r.blockACT = t.blockACT
      /\ r.jumps = t.jumps /\ r.BypassReset = t.BypassReset
  BY <1>3 DEF Schedulers
<1>6. r.counter < r.swCAS
  BY <1>1, <1>2, <1>3, RoundTimes DEF Schedulers, Planning
<1> QED
  BY <1>1, <1>4, <1>5, <1>6 DEF Plans, Planning, r, Schedulers

\* So does an activate: its access is planned after it.
LEMMA ActivatePlans ==
  ASSUME NEW t \in Schedulers, Planning(t), NEW id \in Nat
  PROVE  /\ ConsiderActivate(t, id) \in Plans(t)
         /\ id \in ConsiderActivate(t, id).considered
<1> DEFINE fifth  == t.countACT + 1 = 5
           apart  == IF fifth THEN tFAW - 3 * tRRD ELSE tRRD
           act    == IF t.first THEN 0 ELSE Max({t.counter, t.lastACT + apart})
           access == IF t.first THEN tRCD ELSE Max({act + tRCD, t.lastCAS + tCCD})
           start  == IF t.first THEN 0 ELSE t.counter
           count  == IF fifth /\ ~ t.first THEN 0 ELSE t.countACT + 1
           end    == AtLeast0(access + tCCD - tRCD)
           seen   == [t EXCEPT !.considered = @ \cup {id}]
           r == ConsiderActivate(t, id)
<1>1. t.counter \in Int /\ t.lastCAS \in Int /\ t.lastACT \in Int /\ t.countACT \in Int
  BY DEF Schedulers
<1>2. apart \in Int
  BY RoundTimes
<1> HIDE DEF apart
<1>3. act \in Int /\ start \in Int /\ start <= act
  BY <1>1, <1>2, Larger
<1> HIDE DEF act
<1>4. access \in Int /\ act + tRCD <= access
  <2>1. CASE t.first
    BY <2>1, RoundTimes DEF act
  <2>2. CASE ~ t.first
    <3>1. act + tRCD \in Int /\ t.lastCAS + tCCD \in Int
      BY <1>1, <1>3, RoundTimes
    <3>2. access = Max({act + tRCD, t.lastCAS + tCCD})
      BY <2>2
    <3> HIDE DEF access
    <3> QED
      BY <3>1, <3>2, Larger
  <2> QED
    BY <2>1, <2>2
<1> HIDE DEF access
<1>5. count \in Int /\ access + tCCD \in Int /\ start < access + tCCD
  BY <1>1, <1>3, <1>4, RoundTimes
<1>6. end \in Int
  <2>1. access + tCCD - tRCD \in Int
    BY <1>4, RoundTimes
  <2> QED
    BY <2>1, RoundTimes
<1>7. r = [t EXCEPT !.considered = @ \cup {id}, !.first = FALSE, !.counter = start,
                    !.countACT = count, !.lastACT = act, !.lastCAS = access,
                    !.swCAS = access + tCCD, !.swACT = end]
  BY DEF ConsiderActivate, act, access, apart
<1> HIDE DEF fifth, start, count, end, r
<1>8. r \in Schedulers
  <2>1. seen \in Schedulers
    BY MembersChange
  <2> DEFINE q == [[[seen EXCEPT !.first = FALSE] EXCEPT !.counter = start] EXCEPT !.countACT = count]
  <2>2. r = [[[[q EXCEPT !.lastACT = act] EXCEPT !.lastCAS = access]
               EXCEPT !.swCAS = access + tCCD] EXCEPT !.swACT = end]
    BY <1>7
  <2> HIDE DEF seen
  <2>3. q \in Schedulers
    BY <1>3, <1>5, <2>1, MembersChange, MembersReset
  <2> HIDE DEF q
  <2> QED
    BY <1>3, <1>4, <1>5, <1>6, <2>2, <2>3, MembersChange
<1>9. /\ r.considered = t.considered \cup {id} /\ r.order = t.order /\ r.tempqueue = t.tempqueue
      /\ r.served = t.served /\ r.roundType = t.roundType /\ r.blockACT = t.blockACT
      /\ r.jumps = t.jumps /\ r.BypassReset = t.BypassReset
      /\ r.counter = start /\ r.swCAS = access + tCCD
  BY <1>7 DEF Schedulers
<1> QED
  BY <1>3, <1>5, <1>8, <1>9 DEF Plans, Planning, r

\* Plans can be made in several steps, the first of which may be none.
LEMMA PlansGrow ==
  /\ \A s \in Schedulers : Planning(s) => s \in Plans(s)
  /\ \A s, t, r : t \in Plans(s) /\ r \in Plans(t) => r \in Plans(s)
  /\ \A s, t : t \in Plans(s) => t \in Schedulers /\ Planning(t)
BY DEF Plans

\* The list Order.
LEMMA OrderIs ==
  ASSUME NEW s \in Schedulers
  PROVE  /\ Len(s.order) \in Nat /\ DOMAIN s.order = 1 .. Len(s.order)
         /\ \A k \in 1 .. Len(s.order) : s.order[k] \in Nat
BY DEF Schedulers

\* All accesses that are considered.
LEMMA AccessesPlans ==
  ASSUME NEW s \in Schedulers, Planning(s), NEW head, NEW absolute \in BOOLEAN
  PROVE  ConsiderAccesses(s, head, absolute) \in Plans(s)
<1> DEFINE n == Len(s.order)
           next(t, id) == IF id \in New(t, head, AccessOf(t.roundType))
                          THEN ConsiderAccess(t, id, absolute) ELSE t
           op == [p \in Plans(s) \X (1 .. n) |-> next(p[1], s.order[p[2]])]
           Run(h) == h = [d \in SUBSET DOMAIN s.order |->
                            IF d = {} THEN s ELSE next(h[d \ {Max(d)}], s.order[Max(d)])]
           iter == CHOOSE h : Run(h)
<1>1. n \in Nat /\ DOMAIN s.order = 1 .. n /\ s \in Plans(s)
  BY OrderIs, PlansGrow
<1>2. ASSUME NEW t \in Plans(s), NEW k \in 1 .. n
      PROVE  next(t, s.order[k]) \in Plans(s)
  <2>1. s.order[k] \in Nat /\ t \in Schedulers /\ Planning(t)
    BY OrderIs, PlansGrow
  <2>2. ConsiderAccess(t, s.order[k], absolute) \in Plans(s)
    BY <2>1, AccessPlans, PlansGrow
  <2> QED
    BY <2>2
<1>3. ConsiderAccesses(s, head, absolute) = iter[DOMAIN s.order]
  BY DEF ConsiderAccesses, FoldLeft, MapThenFoldSet
<1> HIDE DEF next
<1>4. op \in [Plans(s) \X (1 .. n) -> Plans(s)]
  BY <1>2
<1> HIDE DEF n, op
<1>5. PICK h : Folding(Plans(s), n, s, op, h)
  BY <1>1, <1>4, FoldRuns
<1>6. Run(h)
  <2>1. ASSUME NEW d \in SUBSET (1 .. n), d # {}
        PROVE  h[d] = next(h[d \ {Max(d)}], s.order[Max(d)])
    <3>1. Max(d) \in 1 .. n /\ d \ {Max(d)} \in SUBSET (1 .. n)
      BY <1>1, <2>1, LastPlace
    <3>2. h[d \ {Max(d)}] \in Plans(s)
      BY <1>5, <3>1 DEF Folding
    <3> QED
      BY <1>5, <2>1, <3>1, <3>2 DEF op, Folding
  <2> QED
    BY <1>1, <1>5, <2>1 DEF Folding
<1>7. Run(iter)
  BY <1>6
<1> HIDE DEF iter
<1>8. \E g : Steps(Plans(s), n, s, op, g, iter[1 .. n])
  <2>1. iter[{}] = s
    BY <1>7
  <2>2. ASSUME NEW d \in SUBSET (1 .. n), d # {}, iter[d \ {Max(d)}] \in Plans(s)
        PROVE  iter[d] = op[<<iter[d \ {Max(d)}], Max(d)>>]
    <3>1. Max(d) \in 1 .. n
      BY <1>1, <2>2, LastPlace
    <3> QED
      BY <1>1, <1>7, <2>2, <3>1 DEF op
  <2>3. GoesOn(Plans(s), n, s, op, iter)
    BY <2>1, <2>2 DEF GoesOn
  <2> HIDE DEF Run
  <2> QED
    BY <1>1, <1>4, <2>3, FoldSteps
<1> QED
  BY <1>1, <1>3, <1>8 DEF Steps
\* All activates, unless no more are let into the round.
LEMMA ActivatesPlans ==
  ASSUME NEW s \in Schedulers, Planning(s), NEW head
  PROVE  ConsiderActivates(s, head) \in Plans(s)
<1> DEFINE n == Len(s.order)
           next(t, id) == IF id \in New(t, head, ActivateOf(t.roundType))
                          THEN ConsiderActivate(t, id) ELSE t
           op == [p \in Plans(s) \X (1 .. n) |-> next(p[1], s.order[p[2]])]
           Run(h) == h = [d \in SUBSET DOMAIN s.order |->
                            IF d = {} THEN s ELSE next(h[d \ {Max(d)}], s.order[Max(d)])]
           iter == CHOOSE h : Run(h)
<1>1. n \in Nat /\ DOMAIN s.order = 1 .. n /\ s \in Plans(s)
  BY OrderIs, PlansGrow
<1>2. ASSUME NEW t \in Plans(s), NEW k \in 1 .. n
      PROVE  next(t, s.order[k]) \in Plans(s)
  <2>1. s.order[k] \in Nat /\ t \in Schedulers /\ Planning(t)
    BY OrderIs, PlansGrow
  <2>2. ConsiderActivate(t, s.order[k]) \in Plans(s)
    BY <2>1, ActivatePlans, PlansGrow
  <2> QED
    BY <2>2
<1>3. ConsiderActivates(s, head) = IF s.blockACT THEN s ELSE iter[DOMAIN s.order]
  BY DEF ConsiderActivates, FoldLeft, MapThenFoldSet
<1> HIDE DEF next
<1>4. op \in [Plans(s) \X (1 .. n) -> Plans(s)]
  BY <1>2
<1> HIDE DEF n, op
<1>5. PICK h : Folding(Plans(s), n, s, op, h)
  BY <1>1, <1>4, FoldRuns
<1>6. Run(h)
  <2>1. ASSUME NEW d \in SUBSET (1 .. n), d # {}
        PROVE  h[d] = next(h[d \ {Max(d)}], s.order[Max(d)])
    <3>1. Max(d) \in 1 .. n /\ d \ {Max(d)} \in SUBSET (1 .. n)
      BY <1>1, <2>1, LastPlace
    <3>2. h[d \ {Max(d)}] \in Plans(s)
      BY <1>5, <3>1 DEF Folding
    <3> QED
      BY <1>5, <2>1, <3>1, <3>2 DEF op, Folding
  <2> QED
    BY <1>1, <1>5, <2>1 DEF Folding
<1>7. Run(iter)
  BY <1>6
<1> HIDE DEF iter
<1>8. \E g : Steps(Plans(s), n, s, op, g, iter[1 .. n])
  <2>1. iter[{}] = s
    BY <1>7
  <2>2. ASSUME NEW d \in SUBSET (1 .. n), d # {}, iter[d \ {Max(d)}] \in Plans(s)
        PROVE  iter[d] = op[<<iter[d \ {Max(d)}], Max(d)>>]
    <3>1. Max(d) \in 1 .. n
      BY <1>1, <2>2, LastPlace
    <3> QED
      BY <1>1, <1>7, <2>2, <3>1 DEF op
  <2>3. GoesOn(Plans(s), n, s, op, iter)
    BY <2>1, <2>2 DEF GoesOn
  <2> HIDE DEF Run
  <2> QED
    BY <1>1, <1>4, <2>3, FoldSteps
<1> QED
  BY <1>1, <1>3, <1>8 DEF Steps

\* Requestor id's command is one the round is for.
Wanted(s, id, head) ==
  /\ id \in ToSet(s.order) \cap s.tempqueue /\ id \notin s.served
  /\ \/ head[id] = AccessOf(s.roundType)
     \/ head[id] = ActivateOf(s.roundType) /\ ~ s.blockACT

\* A requestor in the pass over Order; if the round is for its command, this is
\* considered.
LEMMA OnePlans ==
  ASSUME NEW t \in Schedulers, Planning(t), NEW id \in Nat, NEW head
  PROVE  /\ ConsiderOne(t, id, head) \in Plans(t)
         /\ Wanted(t, id, head) => id \in ConsiderOne(t, id, head).considered
<1>1. t \in Plans(t)
  BY PlansGrow
<1>2. /\ ConsiderAccess(t, id, TRUE) \in Plans(t)
      /\ id \in ConsiderAccess(t, id, TRUE).considered
  BY AccessPlans
<1>3. ConsiderAccesses(t, head, TRUE) \in Plans(t) /\ ConsiderAccesses(t, head, FALSE) \in Plans(t)
  BY AccessesPlans
<1>4. /\ ConsiderActivate(ConsiderAccesses(t, head, TRUE), id) \in Plans(t)
      /\ id \in ConsiderActivate(ConsiderAccesses(t, head, TRUE), id).considered
  BY <1>3, ActivatePlans, PlansGrow
<1>5. ConsiderActivates(ConsiderAccesses(t, head, FALSE), head) \in Plans(t)
  BY <1>3, ActivatesPlans, PlansGrow
<1>6. ConsiderOne(t, id, head) \in Plans(t)
  BY <1>1, <1>2, <1>4, <1>5 DEF ConsiderOne
<1>7. ASSUME Wanted(t, id, head)
      PROVE  id \in ConsiderOne(t, id, head).considered
  <2>1. CASE id \in t.considered
    BY <1>6, <2>1 DEF Plans
  <2>2. CASE id \notin t.considered /\ head[id] = AccessOf(t.roundType)
    <3>1. id \in New(t, head, AccessOf(t.roundType))
      BY <1>7, <2>2 DEF New, Unserved, Waiting, Wanted
    <3> QED
      BY <1>2, <3>1 DEF ConsiderOne
  <2>3. CASE /\ id \notin t.considered /\ head[id] # AccessOf(t.roundType)
             /\ head[id] = ActivateOf(t.roundType) /\ ~ t.blockACT
    <3>1. /\ id \notin New(t, head, AccessOf(t.roundType))
          /\ id \in New(t, head, ActivateOf(t.roundType))
      BY <1>7, <2>3 DEF New, Unserved, Waiting, Wanted
    <3> QED
      BY <1>4, <2>3, <3>1 DEF ConsiderOne
  <2> QED
    BY <1>7, <2>1, <2>2, <2>3 DEF Wanted
<1> QED
  BY <1>6, <1>7

\* The pass over Order.
Pass(s, head) == FoldLeft(LAMBDA t, id : ConsiderOne(t, id, head), s, s.order)

\* It goes from one requestor to the next.
PassSteps(s, head, g) ==
  /\ g \in [0 .. Len(s.order) -> Plans(s)] /\ g[0] = s /\ g[Len(s.order)] = Pass(s, head)
  /\ \A k \in 1 .. Len(s.order) : g[k] = ConsiderOne(g[k - 1], s.order[k], head)

\* Every requestor of Order whose command the round is for is considered.
LEMMA PassPlans ==
  ASSUME NEW s \in Schedulers, Planning(s), NEW head
  PROVE  \E g : PassSteps(s, head, g)
<1> DEFINE n == Len(s.order)
           next(t, id) == ConsiderOne(t, id, head)
           op == [p \in Plans(s) \X (1 .. n) |-> next(p[1], s.order[p[2]])]
           Run(h) == h = [d \in SUBSET DOMAIN s.order |->
                            IF d = {} THEN s ELSE next(h[d \ {Max(d)}], s.order[Max(d)])]
           iter == CHOOSE h : Run(h)
<1>1. n \in Nat /\ DOMAIN s.order = 1 .. n /\ s \in Plans(s)
  BY OrderIs, PlansGrow
<1>2. ASSUME NEW t \in Plans(s), NEW k \in 1 .. n
      PROVE  next(t, s.order[k]) \in Plans(s)
  <2>1. s.order[k] \in Nat /\ t \in Schedulers /\ Planning(t)
    BY OrderIs, PlansGrow
  <2>2. ConsiderOne(t, s.order[k], head) \in Plans(s)
    BY <2>1, OnePlans, PlansGrow
  <2> QED
    BY <2>2
<1>3. Pass(s, head) = iter[DOMAIN s.order]
  BY DEF Pass, FoldLeft, MapThenFoldSet
<1> HIDE DEF next
<1>4. op \in [Plans(s) \X (1 .. n) -> Plans(s)]
  BY <1>2
<1> HIDE DEF n, op
<1>5. PICK h : Folding(Plans(s), n, s, op, h)
  BY <1>1, <1>4, FoldRuns
<1>6. Run(h)
  <2>1. ASSUME NEW d \in SUBSET (1 .. n), d # {}
        PROVE  h[d] = next(h[d \ {Max(d)}], s.order[Max(d)])
    <3>1. Max(d) \in 1 .. n /\ d \ {Max(d)} \in SUBSET (1 .. n)
      BY <1>1, <2>1, LastPlace
    <3>2. h[d \ {Max(d)}] \in Plans(s)
      BY <1>5, <3>1 DEF Folding
    <3> QED
      BY <1>5, <2>1, <3>1, <3>2 DEF op, Folding
  <2> QED
    BY <1>1, <1>5, <2>1 DEF Folding
<1>7. Run(iter)
  BY <1>6
<1> HIDE DEF iter
<1>8. \E g : Steps(Plans(s), n, s, op, g, iter[1 .. n])
  <2>1. iter[{}] = s
    BY <1>7
  <2>2. ASSUME NEW d \in SUBSET (1 .. n), d # {}, iter[d \ {Max(d)}] \in Plans(s)
        PROVE  iter[d] = op[<<iter[d \ {Max(d)}], Max(d)>>]
    <3>1. Max(d) \in 1 .. n
      BY <1>1, <2>2, LastPlace
    <3> QED
      BY <1>1, <1>7, <2>2, <3>1 DEF op
  <2>3. GoesOn(Plans(s), n, s, op, iter)
    BY <2>1, <2>2 DEF GoesOn
  <2> HIDE DEF Run
  <2> QED
    BY <1>1, <1>4, <2>3, FoldSteps
<1>9. PICK g : Steps(Plans(s), n, s, op, g, iter[1 .. n])
  BY <1>8
<1>10. g \in [0 .. n -> Plans(s)] /\ g[0] = s /\ g[n] = Pass(s, head)
  BY <1>1, <1>3, <1>9 DEF Steps
<1>11. ASSUME NEW k \in 1 .. n
       PROVE  g[k] = ConsiderOne(g[k - 1], s.order[k], head)
  <2>1. k - 1 \in 0 .. n /\ g[k] = op[<<g[k - 1], k>>]
    BY <1>1, <1>9, <1>11 DEF Steps
  <2>2. g[k - 1] \in Plans(s)
    BY <1>10, <2>1
  <2> QED
    BY <2>1, <2>2 DEF op, next
<1> QED
  BY <1>10, <1>11 DEF PassSteps, n

\* What is considered is for the round, which has its end ahead if it had, if a
\* command is wanted, or if nothing is.
LEMMA ConsiderPlans ==
  ASSUME NEW s \in Schedulers, Planning(s), NEW head,
         s.counter < s.swCAS \/ s.BypassReset \/ \E id : Wanted(s, id, head)
  PROVE  /\ Consider(s, head) \in Schedulers
         /\ Consider(s, head).counter < Consider(s, head).swCAS
         /\ Consider(s, head).order = s.order /\ Consider(s, head).jumps = s.jumps
<1> DEFINE n == Len(s.order)
           result == Pass(s, head)
           r == Considered(s, result)
<1>1. PICK g : PassSteps(s, head, g)
  BY PassPlans
<1>2. ConsiderAll(s, head) = Considered(s, result)
  BY DEF ConsiderAll, Pass
<1>3. /\ n \in Nat /\ g \in [0 .. n -> Plans(s)] /\ g[0] = s /\ g[n] = result
      /\ \A k \in 1 .. n : g[k] = ConsiderOne(g[k - 1], s.order[k], head)
  BY <1>1, OrderIs DEF PassSteps
<1> HIDE DEF result, n
<1>4. result \in Plans(s)
  BY <1>3
<1>5. ASSUME NEW id, Wanted(s, id, head)
      PROVE  id \in result.considered
  <2>1. PICK place \in 1 .. n : s.order[place] = id
    <3>1. id \in ToSet(s.order)
      BY <1>5 DEF Wanted
    <3> QED
      BY <3>1, OrderIs DEF ToSet, n
  <2> DEFINE S == {k \in 0 .. n : k >= place => id \in g[k].considered}
  <2>2. 0 \in S
    BY <1>3
  <2>3. ASSUME NEW k \in 1 .. n, k - 1 \in S
        PROVE  k \in S
    <3> DEFINE t == g[k - 1]
    <3>1. t \in Schedulers /\ Planning(t) /\ t \in Plans(s) /\ s.order[k] \in Nat
      <4>1. k - 1 \in 0 .. n /\ s.order[k] \in Nat
        BY <1>3, OrderIs DEF n
      <4> QED
        BY <1>3, <4>1, PlansGrow
    <3>2. g[k] = ConsiderOne(t, s.order[k], head)
      BY <1>3
    <3> HIDE DEF t
    <3>3. t.considered \subseteq g[k].considered
      BY <3>1, <3>2, OnePlans DEF Plans
    <3>4. CASE k = place
      <4>1. Wanted(t, id, head)
        BY <1>5, <3>1 DEF Plans, Wanted
      <4>2. id \in g[k].considered
        BY <2>1, <3>1, <3>2, <3>4, <4>1, OnePlans
      <4> QED
        BY <4>2
    <3>5. CASE k # place /\ k >= place
      <4>1. k - 1 >= place
        BY <3>5
      <4>2. id \in t.considered
        BY <2>3, <4>1 DEF t
      <4> QED
        BY <3>3, <4>2
    <3> QED
      BY <3>4, <3>5
  <2> HIDE DEF S
  <2>4. n \in Nat /\ n \in 0 .. n
    BY <1>3
  <2>5. 0 .. n \subseteq S
    BY <2>2, <2>3, <2>4, UpTo
  <2> QED
    BY <1>3, <2>1, <2>4, <2>5 DEF S
<1>6. s.BypassReset \/ result.counter < result.swCAS
  BY <1>4, <1>5 DEF Plans, Planning
<1>7. r \in Schedulers
  <2> DEFINE q == [[[[s EXCEPT !.considered = result.considered] EXCEPT !.first = result.first]
                   EXCEPT !.counter = result.counter] EXCEPT !.countACT = result.countACT]
  <2>1. result \in Schedulers
    BY <1>4, PlansGrow
  <2>2. /\ result.considered \in SUBSET Nat /\ result.first \in BOOLEAN /\ result.counter \in Int
        /\ result.countACT \in Int /\ result.lastACT \in Int /\ result.lastCAS \in Int
        /\ result.swACT \in Int /\ result.swCAS \in Int
    BY <2>1 DEF Schedulers
  <2>3. q \in Schedulers
    BY <2>2, MembersChange
  <2> DEFINE p == [[q EXCEPT !.lastACT = result.lastACT] EXCEPT !.lastCAS = result.lastCAS]
  <2>4. r = [[p EXCEPT !.swACT = result.swACT] EXCEPT !.swCAS = result.swCAS]
    BY DEF Considered
  <2> HIDE DEF q
  <2>5. p \in Schedulers
    BY <2>2, <2>3, MembersChange
  <2> HIDE DEF p, r
  <2> QED
    BY <2>2, <2>4, <2>5, MembersChange
<1>8. /\ r.counter = result.counter /\ r.swCAS = result.swCAS /\ r.order = s.order
      /\ r.jumps = s.jumps /\ r.BypassReset = s.BypassReset
  BY DEF Considered, Schedulers
<1>9. Consider(s, head) = IF r.BypassReset THEN [r EXCEPT !.swCAS = r.counter + 1] ELSE r
  BY <1>2 DEF Consider
<1> HIDE DEF r
<1>10. r.counter \in Int /\ r.counter + 1 \in Int
  BY <1>7 DEF Schedulers
<1>11. CASE r.BypassReset
  <2> DEFINE q == [r EXCEPT !.swCAS = r.counter + 1]
  <2>1. q \in Schedulers
    BY <1>7, <1>10, MembersChange
  <2>2. q.counter = r.counter /\ q.swCAS = r.counter + 1 /\ q.order = r.order /\ q.jumps = r.jumps
    BY <1>7 DEF Schedulers
  <2> QED
    BY <1>8, <1>9, <1>10, <1>11, <2>1, <2>2
<1>12. CASE ~ r.BypassReset
  BY <1>6, <1>7, <1>8, <1>9, <1>12
<1> QED
  BY <1>11, <1>12

\* What commandSchedule keeps of its members: their types, all requestors in
\* Order, and the end of the round ahead.
RoundOK(s) ==
  /\ s \in Schedulers /\ s.jumps = {} /\ Requestors \subseteq ToSet(s.order)
  /\ s.counter <= s.swCAS

\* An activate that is late, or too late.
LEMMA SwitchedACT ==
  ASSUME NEW s, RoundOK(s), NEW head
  PROVE  RoundOK(SwitchACT(s, head))
<1>1. s \in Schedulers /\ s.jumps = {} /\ s.swACT \in Int /\ s.swCAS \in Int /\ s.counter \in Int
  BY DEF RoundOK, Schedulers
<1>2. s.swACT + 1 \in Int /\ s.swCAS + 1 \in Int /\ {} \in SUBSET (1 .. 5) /\ {} \ {5} = {}
  BY <1>1
<1> DEFINE a == [[s EXCEPT !.swACT = s.swACT + 1] EXCEPT !.swCAS = s.swCAS + 1]
           b == [[a EXCEPT !.jump_6 = TRUE] EXCEPT !.blockACT = FALSE]
           later == [b EXCEPT !.jumps = {}]
           blocked == [[s EXCEPT !.blockACT = TRUE] EXCEPT !.jumps = {}]
<1>3. SwitchACT(s, head) \in {s, later, blocked}
  BY <1>1, <1>2 DEF SwitchACT
<1>4. a \in Schedulers
  BY <1>1, <1>2, MembersChange
<1>5. /\ later.order = s.order /\ later.counter = s.counter /\ later.swCAS = s.swCAS + 1
      /\ later.jumps = {}
  BY <1>1 DEF Schedulers
<1>6. /\ blocked.order = s.order /\ blocked.counter = s.counter /\ blocked.swCAS = s.swCAS
      /\ blocked.jumps = {}
  BY <1>1 DEF Schedulers
<1>7. blocked \in Schedulers
  BY <1>1, <1>2, MembersChange, MembersReset
<1> HIDE DEF a
<1>8. b \in Schedulers
  BY <1>4, MembersReset
<1> HIDE DEF b
<1>9. later \in Schedulers
  BY <1>2, <1>8, MembersChange
<1> HIDE DEF later, blocked
<1> QED
  BY <1>1, <1>3, <1>5, <1>6, <1>7, <1>9 DEF RoundOK

\* What is forgotten at the end of a round.
LEMMA ResetIs ==
  ASSUME NEW s \in Schedulers
  PROVE  /\ Reset(s) \in Schedulers /\ Reset(s).considered = {} /\ Reset(s).served = {}
         /\ Reset(s).blockACT = FALSE /\ Reset(s).order = s.order
         /\ Reset(s).tempqueue = s.tempqueue /\ Reset(s).jumps = s.jumps
         /\ Reset(s).counter = s.counter /\ Reset(s).swCAS = s.swCAS
         /\ Reset(s).roundType = s.roundType
<1> DEFINE a == [[s EXCEPT !.served = {}] EXCEPT !.considered = {}]
<1>1. a \in Schedulers
  BY MembersReset
<1>2. Reset(s) = [[a EXCEPT !.blockACT = FALSE] EXCEPT !.countACT = 0]
  BY DEF Reset
<1>3. Reset(s) \in Schedulers
  <2> HIDE DEF a
  <2> QED
    BY <1>1, <1>2, MembersReset
<1> QED
  BY <1>3 DEF Reset, Schedulers

\* When a round ends, a command is wanted in the next, or none is asked for and
\* the round is kept open.
LEMMA NextRoundIs ==
  ASSUME NEW s, RoundOK(s), NEW head
  PROVE  LET r == NextRound(s, head)
         IN /\ RoundOK(r) /\ r.order = s.order /\ r.considered = {}
            /\ r.BypassReset \/ \E id : Wanted(r, id, head)
<1> DEFINE Asks(cmd) == \E id \in s.tempqueue : head[id] = cmd
           other == Other(s.roundType)
           turn1 == Turn(s)
           again == [Again(s) EXCEPT !.BypassReset = FALSE, !.jumps = {}]
           none  == [Reset(s) EXCEPT !.BypassReset = TRUE]
<1>1. /\ s \in Schedulers /\ s.jumps = {} /\ s.roundType \in RoundTypes
      /\ s.tempqueue \subseteq ToSet(s.order)
  BY DEF RoundOK, Schedulers
<1>2. /\ Reset(s) \in Schedulers /\ Reset(s).considered = {} /\ Reset(s).served = {}
      /\ Reset(s).blockACT = FALSE /\ Reset(s).order = s.order
      /\ Reset(s).tempqueue = s.tempqueue /\ Reset(s).jumps = s.jumps
      /\ Reset(s).counter = s.counter /\ Reset(s).swCAS = s.swCAS
      /\ Reset(s).roundType = s.roundType
  BY <1>1, ResetIs
<1>3. NextRound(s, head) =
        IF Asks(AccessOf(other)) \/ Asks(ActivateOf(other)) THEN turn1
        ELSE IF Asks(AccessOf(s.roundType)) \/ Asks(ActivateOf(s.roundType)) THEN again
        ELSE none
  <2> DEFINE same == Asks(AccessOf(s.roundType)) \/ Asks(ActivateOf(s.roundType))
             asked == [Again(s) EXCEPT !.BypassReset = ~ same /\ s.BypassReset, !.jumps = @ \ {3}]
  <2>1. NextRound(s, head) =
          IF Asks(AccessOf(other)) THEN turn1
          ELSE IF 1 \in s.jumps THEN s
          ELSE IF Asks(ActivateOf(other)) THEN turn1
          ELSE IF 2 \in s.jumps THEN s
          ELSE IF same \/ 3 \in s.jumps THEN asked
          ELSE none
    BY DEF NextRound
  <2>2. Again(s).jumps = {}
    BY <1>1, <1>2 DEF Again, Schedulers
  <2>3. same => asked = again
    <3>1. Again(s).jumps \ {3} = {}
      BY <2>2
    <3> HIDE DEF Asks
    <3> QED
      BY <3>1
  <2> HIDE DEF turn1, again, asked, none, Asks, other
  <2> QED
    BY <1>1, <2>1, <2>3
<1>4. /\ RoundOK(turn1) /\ turn1.order = s.order /\ turn1.considered = {} /\ turn1.served = {}
      /\ turn1.blockACT = FALSE /\ turn1.roundType = other /\ turn1.tempqueue = s.tempqueue
  <2> DEFINE q == Reset(s)
             p == [[q EXCEPT !.roundType = other] EXCEPT !.lastACT = 0]
  <2>1. other \in RoundTypes
    BY DEF Other, RoundTypes
  <2>2. turn1 = [p EXCEPT !.first = TRUE]
    BY <1>2 DEF Turn
  <2> HIDE DEF q, other
  <2>3. p \in Schedulers
    BY <1>2, <2>1, MembersChange, MembersReset DEF q
  <2>4. turn1 \in Schedulers
    <3> HIDE DEF p, turn1
    <3> QED
      BY <2>2, <2>3, MembersReset
  <2>5. /\ turn1.order = q.order /\ turn1.considered = q.considered /\ turn1.served = q.served
        /\ turn1.blockACT = q.blockACT /\ turn1.roundType = other /\ turn1.tempqueue = q.tempqueue
        /\ turn1.jumps = q.jumps /\ turn1.counter = q.counter /\ turn1.swCAS = q.swCAS
    BY <1>2, <2>2 DEF Schedulers, q
  <2> HIDE DEF p, turn1
  <2> QED
    BY <1>1, <1>2, <2>4, <2>5 DEF RoundOK, q
<1>5. /\ RoundOK(again) /\ again.order = s.order /\ again.considered = {} /\ again.served = {}
      /\ again.blockACT = FALSE /\ again.roundType = s.roundType
      /\ again.tempqueue = s.tempqueue
  <2> DEFINE q == Reset(s)
             p == [[[q EXCEPT !.BypassReset = FALSE] EXCEPT !.counter = 0] EXCEPT !.lastACT = 0]
             o == [[[p EXCEPT !.lastCAS = -tCCD] EXCEPT !.swCAS = 0] EXCEPT !.swACT = 0]
  <2>1. -tCCD \in Int /\ {} \in SUBSET (1 .. 5)
    BY RoundTimes
  <2>2. again = [[o EXCEPT !.BypassReset = FALSE] EXCEPT !.jumps = {}]
    BY DEF Again
  <2> HIDE DEF q
  <2>3. p \in Schedulers
    BY <1>2, MembersReset DEF q
  <2>4. /\ p.order = q.order /\ p.considered = q.considered /\ p.served = q.served
        /\ p.blockACT = q.blockACT /\ p.roundType = q.roundType /\ p.tempqueue = q.tempqueue
        /\ p.counter = 0
    BY <1>2 DEF Schedulers, q
  <2> HIDE DEF p
  <2>5. o \in Schedulers
    BY <2>1, <2>3, MembersReset, MembersChange
  <2>6. /\ o.order = p.order /\ o.considered = p.considered /\ o.served = p.served
        /\ o.blockACT = p.blockACT /\ o.roundType = p.roundType /\ o.tempqueue = p.tempqueue
        /\ o.counter = p.counter /\ o.swCAS = 0
    BY <2>3 DEF Schedulers
  <2> HIDE DEF o, again
  <2>7. again \in Schedulers
    BY <2>1, <2>2, <2>5, MembersReset, MembersChange
  <2>8. /\ again.order = o.order /\ again.considered = o.considered /\ again.served = o.served
        /\ again.blockACT = o.blockACT /\ again.roundType = o.roundType
        /\ again.tempqueue = o.tempqueue /\ again.counter = o.counter /\ again.swCAS = o.swCAS
        /\ again.jumps = {}
    BY <2>2, <2>5 DEF Schedulers
  <2> QED
    BY <1>1, <1>2, <2>4, <2>6, <2>7, <2>8 DEF RoundOK, q
<1>6. RoundOK(none) /\ none.order = s.order /\ none.considered = {} /\ none.BypassReset
  <2> DEFINE q == Reset(s)
  <2>1. none \in Schedulers
    BY <1>2, MembersReset
  <2>2. /\ none.order = q.order /\ none.considered = q.considered /\ none.jumps = q.jumps
        /\ none.counter = q.counter /\ none.swCAS = q.swCAS /\ none.BypassReset = TRUE
    BY <1>2 DEF Schedulers
  <2> HIDE DEF none
  <2> QED
    BY <1>1, <1>2, <2>1, <2>2 DEF RoundOK
<1> HIDE DEF turn1, again, none
<1>7. CASE Asks(AccessOf(other)) \/ Asks(ActivateOf(other))
  <2>1. PICK id \in s.tempqueue : head[id] = AccessOf(other) \/ head[id] = ActivateOf(other)
    BY <1>7
  <2>2. Wanted(turn1, id, head)
    BY <1>1, <1>4, <2>1 DEF Wanted
  <2> QED
    BY <1>3, <1>4, <1>7, <2>2
<1>8. CASE /\ ~ (Asks(AccessOf(other)) \/ Asks(ActivateOf(other)))
           /\ Asks(AccessOf(s.roundType)) \/ Asks(ActivateOf(s.roundType))
  <2>1. PICK id \in s.tempqueue : \/ head[id] = AccessOf(s.roundType)
                                  \/ head[id] = ActivateOf(s.roundType)
    BY <1>8
  <2>2. Wanted(again, id, head)
    BY <1>1, <1>5, <2>1 DEF Wanted
  <2> QED
    BY <1>3, <1>5, <1>8, <2>2
<1>9. CASE /\ ~ (Asks(AccessOf(other)) \/ Asks(ActivateOf(other)))
           /\ ~ (Asks(AccessOf(s.roundType)) \/ Asks(ActivateOf(s.roundType)))
  BY <1>3, <1>6, <1>9
<1> QED
  BY <1>7, <1>8, <1>9

\* The scheduler before it sends: the end of the round lies ahead.
LEMMA PlannedAhead ==
  ASSUME NEW s, RoundOK(s), NEW ready \in SUBSET Requestors, NEW head
  PROVE  LET t == Planned(s, ready, head)
         IN RoundOK(t) /\ t.counter < t.swCAS
<1> DEFINE filled == [s EXCEPT !.tempqueue = @ \cup ready]
           act == SwitchACT(filled, head)
           cas == SwitchCAS(act, head)
           late == 5 \notin act.jumps
                   /\ Unserved(act, head, {"RD", "WR"}) \cap act.considered # {}
           more == [act EXCEPT !.swCAS = act.swCAS + 1, !.jump_7 = TRUE]
           next == NextRound(act, head)
           Cleared(r) == [r EXCEPT !.jumps = {}]
           Ready1(r) == r.counter < r.swCAS \/ r.BypassReset \/ \E id : Wanted(r, id, head)
<1>1. RoundOK(filled)
  <2>1. s \in Schedulers /\ s.tempqueue \cup ready \in SUBSET Requestors
    BY DEF RoundOK, Schedulers
  <2>2. filled \in Schedulers
    BY <2>1, MembersChange
  <2> QED
    BY <2>1, <2>2 DEF RoundOK, Schedulers
<1> HIDE DEF filled
<1>2. RoundOK(act)
  BY <1>1, SwitchedACT
<1> HIDE DEF act
<1>3. act \in Schedulers /\ act.jumps = {} /\ act.counter \in Int /\ act.swCAS \in Int
  BY <1>2 DEF RoundOK, Schedulers
<1>4. cas = IF act.counter # act.swCAS THEN act
            ELSE Cleared(IF late THEN more ELSE next)
  <2> DEFINE ended == IF late THEN more ELSE next
  <2>1. cas = IF act.counter # act.swCAS THEN act
              ELSE [ended EXCEPT !.jumps = @ \ {1, 2, 4, 5}]
    BY <1>3 DEF SwitchCAS
  <2>2. ended.jumps = {}
    <3>1. more.jumps = {}
      BY <1>3 DEF Schedulers
    <3>2. next.jumps = {}
      BY <1>2, NextRoundIs DEF RoundOK
    <3> QED
      BY <3>1, <3>2
  <2> HIDE DEF ended
  <2>3. [ended EXCEPT !.jumps = @ \ {1, 2, 4, 5}] = Cleared(ended)
    <3>1. ended.jumps \ {1, 2, 4, 5} = {}
      BY <2>2
    <3> QED
      BY <3>1
  <2> HIDE DEF Cleared, cas
  <2> QED
    BY <2>1, <2>3 DEF ended
<1> HIDE DEF late, cas
<1>5. /\ RoundOK(act) /\ Planning(act) /\ Ready1(act)
      \/ act.counter = act.swCAS
  BY <1>2, <1>3 DEF RoundOK, Planning
<1>6. RoundOK(Cleared(more)) /\ Planning(Cleared(more)) /\ Ready1(Cleared(more))
  <2> DEFINE q == [act EXCEPT !.swCAS = act.swCAS + 1]
             r == Cleared(more)
  <2>1. act.swCAS + 1 \in Int /\ {} \in SUBSET (1 .. 5)
    BY <1>3
  <2>2. q \in Schedulers
    BY <1>3, <2>1, MembersChange
  <2>3. r = [[q EXCEPT !.jump_7 = TRUE] EXCEPT !.jumps = {}]
    OBVIOUS
  <2> HIDE DEF q
  <2>4. r \in Schedulers
    <3> HIDE DEF r
    <3> QED
      BY <2>1, <2>2, <2>3, MembersChange, MembersReset
  <2>5. /\ r.counter = act.counter /\ r.swCAS = act.swCAS + 1 /\ r.order = act.order
        /\ r.jumps = {}
    BY <1>3 DEF Schedulers
  <2> HIDE DEF r
  <2>6. RoundOK(r) /\ Planning(r) /\ Ready1(r)
    BY <1>2, <1>3, <2>4, <2>5 DEF RoundOK, Planning
  <2> QED
    BY <2>6 DEF r
<1>7. RoundOK(Cleared(next)) /\ Planning(Cleared(next)) /\ Ready1(Cleared(next))
  <2>1. /\ RoundOK(next) /\ next.considered = {}
        /\ next.BypassReset \/ \E id : Wanted(next, id, head)
    BY <1>2, NextRoundIs
  <2> HIDE DEF next
  <2>2. Cleared(next) = next
    BY <2>1 DEF RoundOK, Schedulers
  <2> HIDE DEF Cleared
  <2> QED
    BY <2>1, <2>2 DEF RoundOK, Planning
<1> HIDE DEF more, next, Cleared, Ready1
<1>8. RoundOK(cas) /\ Planning(cas) /\ Ready1(cas)
  BY <1>2, <1>4, <1>5, <1>6, <1>7
<1>9. Planned(s, ready, head) = Consider(cas, head)
  BY DEF Planned, cas, act, filled
<1>10. LET t == Consider(cas, head)
       IN RoundOK(t) /\ t.counter < t.swCAS
  <2> DEFINE t == Consider(cas, head)
  <2>1. /\ t \in Schedulers /\ t.counter < t.swCAS /\ t.order = cas.order /\ t.jumps = cas.jumps
    BY <1>8, ConsiderPlans DEF RoundOK, Ready1
  <2> HIDE DEF t
  <2>2. t.counter \in Int /\ t.swCAS \in Int
    BY <2>1 DEF Schedulers
  <2>3. RoundOK(t) /\ t.counter < t.swCAS
    BY <1>8, <2>1, <2>2 DEF RoundOK
  <2> QED
    BY <2>3 DEF t
<1> QED
  BY <1>9, <1>10

\* A requestor that is moved to the end of Order pushes nobody out.
LEMMA RotateKeeps ==
  ASSUME NEW order \in Seq(Nat), NEW id \in ToSet(order)
  PROVE  Rotate(order, id) \in Seq(Nat) /\ ToSet(order) \subseteq ToSet(Rotate(order, id))
<1>1. \E i \in DOMAIN order : order[i] = id
  BY DEF ToSet
<1> DEFINE i == CHOOSE k \in DOMAIN order : order[k] = id
           n == Len(order)
           before == SubSeq(order, 1, i - 1)
           after == SubSeq(order, i + 1, n)
           rest == before \o after
           r == Append(rest, id)
<1>2. i \in 1 .. n /\ order[i] = id /\ n \in Nat /\ DOMAIN order = 1 .. n /\ id \in Nat
  BY <1>1
<1>3. Rotate(order, id) = r
  BY DEF Rotate, RemoveAt
<1> HIDE DEF i
<1>4. /\ before \in Seq(Nat) /\ Len(before) = i - 1
      /\ \A k \in 1 .. i - 1 : before[k] = order[k]
  BY <1>2
<1>5. /\ after \in Seq(Nat) /\ Len(after) = n - i
      /\ \A k \in 1 .. n - i : after[k] = order[k + i]
  <2>1. after \in Seq(Nat) /\ Len(after) = n - i
    <3>1. i + 1 \in Nat /\ n - (i + 1) + 1 = n - i /\ n - i \in Nat
      BY <1>2
    <3>2. \A k \in i + 1 .. n : order[k] \in Nat
      BY <1>2
    <3> DEFINE m == i + 1
    <3>3. after = SubSeq(order, m, n) /\ m \in Nat /\ n - m + 1 = n - i
      BY <3>1
    <3> HIDE DEF m, after
    <3>4. after \in Seq(Nat)
      BY <1>2, <3>2, <3>3
    <3>5. Len(after) = n - m + 1
      BY <1>2, <3>1, <3>2, <3>3
    <3> QED
      BY <3>3, <3>4, <3>5
  <2>2. ASSUME NEW k \in 1 .. n - i
        PROVE  after[k] = order[k + i]
    <3>1. i + 1 + k - 1 = k + i /\ k \in 1 .. n - (i + 1) + 1
      BY <1>2
    <3>2. after[k] = order[i + 1 + k - 1]
      BY <1>2, <3>1
    <3> QED
      BY <3>1, <3>2
  <2> QED
    BY <2>1, <2>2
<1> HIDE DEF n, before, after
<1>6. rest \in Seq(Nat) /\ Len(rest) = n - 1
  BY <1>2, <1>4, <1>5
<1>7. \A k \in 1 .. n - 1 : rest[k] = IF k < i THEN order[k] ELSE order[k + 1]
  <2> TAKE k \in 1 .. n - 1
  <2>1. CASE k < i
    BY <1>2, <1>4, <1>5, <2>1
  <2>2. CASE ~ k < i
    <3>1. k - (i - 1) \in 1 .. n - i /\ (k - (i - 1)) + i = k + 1
      BY <1>2, <2>2
    <3>2. rest[k] = after[k - (i - 1)]
      <4>1. /\ k \in 1 .. Len(before) + Len(after) /\ ~ k <= Len(before)
            /\ k - Len(before) = k - (i - 1)
        BY <1>2, <1>4, <1>5, <2>2
      <4>2. rest[k] = after[k - Len(before)]
        BY <1>4, <1>5, <4>1
      <4> QED
        BY <4>1, <4>2
    <3>3. after[k - (i - 1)] = order[k + 1]
      BY <1>5, <3>1
    <3> QED
      BY <2>2, <3>2, <3>3
  <2> QED
    BY <2>1, <2>2
<1> HIDE DEF rest
<1>8. /\ r \in Seq(Nat) /\ DOMAIN r = 1 .. n /\ r[n] = id
      /\ \A k \in 1 .. n - 1 : r[k] = rest[k]
  BY <1>2, <1>6
<1> HIDE DEF r
<1>9. ASSUME NEW k \in 1 .. n
      PROVE  \E j \in 1 .. n : r[j] = order[k]
  <2>1. CASE k < i
    <3>1. k \in 1 .. n - 1
      BY <1>2, <2>1
    <3>2. r[k] = order[k]
      BY <1>7, <1>8, <2>1, <3>1
    <3> QED
      BY <3>2
  <2>2. CASE k = i
    <3>1. n \in 1 .. n
      BY <1>2
    <3> QED
      BY <1>2, <1>8, <2>2, <3>1
  <2>3. CASE k > i
    <3>1. k - 1 \in 1 .. n - 1 /\ k - 1 \in 1 .. n /\ ~ (k - 1 < i) /\ (k - 1) + 1 = k
      BY <1>2, <2>3
    <3>2. r[k - 1] = order[k]
      BY <1>7, <1>8, <3>1
    <3> QED
      BY <3>1, <3>2
  <2> QED
    BY <1>2, <2>1, <2>2, <2>3
<1>10. ToSet(order) = {order[k] : k \in 1 .. n} /\ ToSet(r) = {r[k] : k \in 1 .. n}
  BY <1>2, <1>8 DEF ToSet
<1>11. ToSet(order) \subseteq ToSet(r)
  BY <1>9, <1>10
<1> QED
  BY <1>3, <1>8, <1>11

\* Whatever is sent, the cycle that passes does not pass the end of the round.
LEMMA SentAhead ==
  ASSUME NEW t, RoundOK(t), t.counter < t.swCAS
  PROVE  /\ RoundOK(SentNothing(t))
         /\ \A id \in ToSet(t.order) :
              /\ RoundOK(SentAccess(t, id)) /\ RoundOK(SentPrecharge(t, id))
              /\ RoundOK(SentActivate(t, id, t.counter))
              /\ RoundOK(SentActivate(t, id, t.counter + 1))
              /\ RoundOK(SentOpportunity(t, id))
<1>1. /\ t \in Schedulers /\ t.order \in Seq(Nat) /\ t.tempqueue \in SUBSET Requestors
      /\ t.counter \in Int /\ t.swCAS \in Int /\ t.lastACT \in Int /\ t.lastCAS \in Int
      /\ t.jumps = {} /\ t.counter + 1 \in Int /\ t.counter + 1 <= t.swCAS
      /\ t.jump_6 \in BOOLEAN /\ t.jump_7 \in BOOLEAN
  BY DEF RoundOK, Schedulers
<1>2. RoundOK(SentNothing(t))
  <2> DEFINE six == t.jump_6 /\ t.tempqueue = {}
             seven == t.jump_7 /\ t.tempqueue = {}
             a == [[t EXCEPT !.counter = t.counter + 1] EXCEPT !.BypassReset = FALSE]
             r == SentNothing(t)
  <2>1. six \in BOOLEAN /\ seven \in BOOLEAN
    OBVIOUS
  <2>2. r = [[a EXCEPT !.jump_6 = six] EXCEPT !.jump_7 = seven]
    BY DEF SentNothing
  <2>3. a \in Schedulers
    BY <1>1, MembersChange, MembersReset
  <2> HIDE DEF six, seven, r
  <2>4. r \in Schedulers
    <3> HIDE DEF a
    <3> QED
      BY <2>1, <2>2, <2>3, MembersChange
  <2>5. /\ r.counter = t.counter + 1 /\ r.swCAS = t.swCAS /\ r.order = t.order /\ r.jumps = t.jumps
    BY <1>1, <2>2 DEF Schedulers
  <2>6. RoundOK(r)
    BY <1>1, <2>4, <2>5 DEF RoundOK
  <2> QED
    BY <2>6 DEF r
<1>3. ASSUME NEW id \in ToSet(t.order)
      PROVE  /\ RoundOK(SentAccess(t, id)) /\ RoundOK(SentPrecharge(t, id))
             /\ RoundOK(SentActivate(t, id, t.counter))
             /\ RoundOK(SentActivate(t, id, t.counter + 1))
             /\ RoundOK(SentOpportunity(t, id))
  <2> DEFINE order == Rotate(t.order, id)
             left == t.tempqueue \ {id}
             a == [[t EXCEPT !.tempqueue = left] EXCEPT !.counter = t.counter + 1]
             b == [a EXCEPT !.order = order]
             End(s) == [[[s EXCEPT !.jump_6 = FALSE] EXCEPT !.jump_7 = FALSE]
                        EXCEPT !.BypassReset = FALSE]
  <2>1. /\ order \in Seq(Nat) /\ ToSet(t.order) \subseteq ToSet(order)
        /\ left \in SUBSET Requestors /\ id \in Nat
    <3>1. id \in Nat
      BY <1>1 DEF ToSet
    <3> QED
      BY <1>1, <3>1, RotateKeeps
  <2> HIDE DEF order, left
  <2>2. a \in Schedulers
    BY <1>1, <2>1, MembersChange
  <2>3. /\ a.counter = t.counter + 1 /\ a.swCAS = t.swCAS /\ a.order = t.order /\ a.jumps = t.jumps
        /\ a.lastACT = t.lastACT /\ a.lastCAS = t.lastCAS /\ a.served = t.served
    BY <1>1 DEF Schedulers
  <2> HIDE DEF a
  <2>4. b \in Schedulers
    BY <2>1, <2>2, MembersChange
  <2>5. /\ b.counter = t.counter + 1 /\ b.swCAS = t.swCAS /\ b.order = order /\ b.jumps = t.jumps
        /\ b.lastACT = t.lastACT /\ b.lastCAS = t.lastCAS /\ b.served = t.served
    BY <2>2, <2>3 DEF Schedulers
  <2> HIDE DEF b
  <2>6. ASSUME NEW s \in Schedulers
        PROVE  /\ End(s) \in Schedulers /\ End(s).counter = s.counter /\ End(s).swCAS = s.swCAS
               /\ End(s).order = s.order /\ End(s).jumps = s.jumps
    <3>1. End(s) \in Schedulers
      BY MembersReset
    <3> QED
      BY <3>1 DEF Schedulers
  <2>7. RoundOK(SentPrecharge(t, id))
    <3>1. SentPrecharge(t, id) = End(a)
      BY DEF SentPrecharge, a, left
    <3> HIDE DEF End
    <3> QED
      BY <1>1, <2>2, <2>3, <2>6, <3>1 DEF RoundOK
  <2>8. RoundOK(SentOpportunity(t, id))
    <3> DEFINE r == SentOpportunity(t, id)
    <3>1. r = [b EXCEPT !.BypassReset = FALSE]
      BY DEF SentOpportunity, a, b, left, order
    <3>2. r \in Schedulers
      BY <2>4, <3>1, MembersReset
    <3>3. /\ r.counter = b.counter /\ r.swCAS = b.swCAS /\ r.order = b.order /\ r.jumps = b.jumps
      BY <2>4, <3>1 DEF Schedulers
    <3> HIDE DEF r
    <3>4. RoundOK(r)
      BY <1>1, <2>1, <2>5, <3>2, <3>3 DEF RoundOK
    <3> QED
      BY <3>4 DEF r
  <2>9. RoundOK(SentAccess(t, id))
    <3> DEFINE cas == IF t.jump_7 THEN t.counter + 1 ELSE t.lastCAS
               end == IF t.jump_7 THEN t.counter + 1 + tCCD ELSE t.swCAS
               c == [b EXCEPT !.served = @ \cup {id}]
               d == [[c EXCEPT !.lastCAS = cas] EXCEPT !.swCAS = end]
    <3>1. cas \in Int /\ end \in Int /\ t.counter + 1 <= end
      <4>1. /\ t.counter + 1 \in Int /\ t.counter + 1 + tCCD \in Int
            /\ t.counter + 1 <= t.counter + 1 + tCCD
        <5>1. tCCD \in Nat
          BY RoundTimes
        <5>2. t.counter \in Int
          BY <1>1
        <5> QED
          BY <5>1, <5>2
      <4> QED
        BY <1>1, <4>1
    <3>2. SentAccess(t, id) = End(d)
      BY DEF SentAccess, a, b, left, order
    <3> HIDE DEF cas, end
    <3>3. c \in Schedulers
      BY <2>1, <2>4, MembersChange
    <3> HIDE DEF c
    <3>4. d \in Schedulers
      BY <3>1, <3>3, MembersChange
    <3>5. d.counter = t.counter + 1 /\ d.swCAS = end /\ d.order = order /\ d.jumps = t.jumps
      BY <2>4, <2>5, <3>3 DEF Schedulers, c
    <3> HIDE DEF d, End
    <3> QED
      BY <1>1, <2>1, <2>6, <3>1, <3>2, <3>4, <3>5 DEF RoundOK
  <2>10. ASSUME NEW at \in Int, t.counter <= at
         PROVE  RoundOK(SentActivate(t, id, at))
    <3> DEFINE act == IF t.jump_6 THEN at ELSE t.lastACT
               cas == IF t.jump_7 THEN at ELSE IF t.jump_6 THEN at + tRCD ELSE t.lastCAS
               end == IF t.jump_7 THEN at + tCCD
                      ELSE IF t.jump_6 THEN at + tRCD + tCCD ELSE t.swCAS
               c == [a EXCEPT !.lastACT = act]
               d == [[c EXCEPT !.lastCAS = cas] EXCEPT !.swCAS = end]
    <3>1. act \in Int /\ cas \in Int /\ end \in Int /\ t.counter + 1 <= end
      <4>1. /\ at + tCCD \in Int /\ at + tRCD \in Int /\ at + tRCD + tCCD \in Int
            /\ t.counter + 1 <= at + tCCD /\ t.counter + 1 <= at + tRCD + tCCD
        <5>1. tCCD \in Nat \ {0} /\ tRCD \in Nat
          BY RoundTimes
        <5>2. t.counter \in Int
          BY <1>1
        <5> QED
          BY <2>10, <5>1, <5>2
      <4> QED
        BY <1>1, <2>10, <4>1
    <3>2. SentActivate(t, id, at) = End(d)
      BY DEF SentActivate, a, left
    <3> HIDE DEF act, cas, end
    <3>3. c \in Schedulers
      BY <2>2, <3>1, MembersChange
    <3> HIDE DEF c
    <3>4. d \in Schedulers
      BY <3>1, <3>3, MembersChange
    <3>5. d.counter = t.counter + 1 /\ d.swCAS = end /\ d.order = t.order /\ d.jumps = t.jumps
      BY <2>2, <2>3, <3>3 DEF Schedulers, c
    <3> HIDE DEF d, End
    <3> QED
      BY <1>1, <2>6, <3>1, <3>2, <3>4, <3>5 DEF RoundOK
  <2> QED
    BY <1>1, <2>7, <2>8, <2>9, <2>10
<1> QED
  BY <1>2, <1>3

\* Only commands of the round, and precharges, are sent.
LEMMA SendsKnown ==
  ASSUME NEW s, SchedulerOK(s), NEW id, NEW head, NEW issuable
  PROVE  \A x \in Sends(s, id, head, issuable) : head[x] \in {"PRE", "RD", "WR"} \cup Activates
<1> DEFINE accesses == Unserved(s, head, {AccessOf(s.roundType)}) \cap issuable
           activates == IF s.blockACT THEN {}
                        ELSE Unserved(s, head, {ActivateOf(s.roundType)}) \cap issuable
           known == {x \in ToSet(s.order) : head[x] \in {"PRE", "RD", "WR"} \cup Activates}
<1>1. /\ AccessOf(s.roundType) \in {"RD", "WR"}
      /\ ActivateOf(s.roundType) \in Activates
  BY DEF AccessOf, ActivateOf, Activates
<1>2. accesses \subseteq known /\ activates \subseteq known
  BY <1>1 DEF Unserved, Waiting
<1>3. accesses # {} => FirstOf(s, accesses) \in known
  <2>1. accesses \cap ToSet(s.order) = accesses
    BY <1>2
  <2> HIDE DEF accesses, known
  <2> QED
    BY <1>2, <2>1, FirstOfIs
<1>4. activates # {} => FirstOf(s, activates) \in known
  <2>1. activates \cap ToSet(s.order) = activates
    BY <1>2
  <2> HIDE DEF activates, known
  <2> QED
    BY <1>2, <2>1, FirstOfIs
<1>5. id \in Unserved(s, head, {"PRE"}) \/ id \in Waiting(s, head, {"PRE"}) => id \in known
  BY DEF Unserved, Waiting
<1>6. Sends(s, id, head, issuable) =
        IF id \in Unserved(s, head, {AccessOf(s.roundType)}) THEN {id} \cap accesses
        ELSE IF /\ id \in Unserved(s, head, {ActivateOf(s.roundType)})
                /\ s.roundType = "WRITE" => ~ s.blockACT
        THEN IF accesses # {} THEN {FirstOf(s, accesses)} ELSE {id} \cap activates
        ELSE IF \/ id \in Unserved(s, head, {"PRE"})
                \/ id \in Waiting(s, head, {"PRE"}) /\ s.roundType = "READ"
        THEN IF accesses # {} THEN {FirstOf(s, accesses)}
             ELSE IF activates # {} THEN {FirstOf(s, activates)} ELSE {id} \cap issuable
        ELSE {}
  BY DEF Sends
<1> HIDE DEF accesses, activates, known
<1>7. Sends(s, id, head, issuable) \subseteq known
  BY <1>2, <1>3, <1>4, <1>5, <1>6
<1> QED
  BY <1>7 DEF known

\* One call of commandSchedule.
LEMMA ScheduledOK ==
  ASSUME NEW s, RoundOK(s), NEW ready \in SUBSET Requestors, NEW head, NEW issuable
  PROVE  RoundOK(CommandSchedule(s, ready, head, issuable).scheduler)
<1> DEFINE t == Planned(s, ready, head)
           senders == {id \in ToSet(t.order) : Sends(t, id, head, issuable) # {}}
           chances == Opportunities(t, head, issuable)
           result == CommandSchedule(s, ready, head, issuable)
<1>1. RoundOK(t) /\ t.counter < t.swCAS
  BY PlannedAhead
<1>2. result = SendFirst(t, senders, chances, head, issuable)
  BY DEF CommandSchedule, SendOne
<1> HIDE DEF t, result
<1>3. SchedulerOK(t)
  BY <1>1 DEF RoundOK, Schedulers, SchedulerOK, Members
<1>4. CASE senders # {}
  <2> DEFINE via == FirstOf(t, senders)
             id == CHOOSE x \in Sends(t, via, head, issuable) : TRUE
             at == IF head[via] = "PRE" THEN t.counter + 1 ELSE t.counter
  <2>1. senders \cap ToSet(t.order) # {}
    BY <1>4
  <2>2. via \in senders
    BY <1>3, <2>1, FirstOfIs
  <2>3. id \in Sends(t, via, head, issuable)
    BY <2>2
  <2>4. result = Send(t, id, via, head)
    BY <1>2, <1>4 DEF SendFirst
  <2> HIDE DEF id, via
  <2>5. id \in ToSet(t.order)
    BY <1>3, <2>3, SendsOnly
  <2>6. head[id] \in {"PRE", "RD", "WR"} \cup Activates
    BY <1>3, <2>3, SendsKnown
  <2>7. Send(t, id, via, head).scheduler =
          CASE head[id] \in {"RD", "WR"} -> SentAccess(t, id)
            [] head[id] \in Activates -> SentActivate(t, id, at)
            [] head[id] = "PRE" -> SentPrecharge(t, id)
    BY DEF Send
  <2>8. at = t.counter \/ at = t.counter + 1
    OBVIOUS
  <2> HIDE DEF at
  <2>9. result.scheduler \in {SentAccess(t, id), SentActivate(t, id, at), SentPrecharge(t, id)}
    BY <2>4, <2>6, <2>7
  <2>10. /\ RoundOK(SentAccess(t, id)) /\ RoundOK(SentPrecharge(t, id))
         /\ RoundOK(SentActivate(t, id, at))
    BY <1>1, <2>5, <2>8, SentAhead
  <2>11. RoundOK(result.scheduler)
    BY <2>9, <2>10
  <2> QED
    BY <2>11 DEF result
<1>5. CASE senders = {} /\ chances # {}
  <2> DEFINE id == FirstOf(t, chances)
  <2>1. chances \subseteq ToSet(t.order)
    BY DEF Opportunities, Waiting
  <2> HIDE DEF chances
  <2>2. chances \cap ToSet(t.order) # {}
    BY <1>5, <2>1
  <2>3. id \in ToSet(t.order)
    BY <1>3, <2>2, FirstOfIs
  <2>4. result.scheduler = SentOpportunity(t, id)
    BY <1>2, <1>5 DEF SendFirst
  <2> HIDE DEF id
  <2>5. RoundOK(result.scheduler)
    BY <1>1, <2>3, <2>4, SentAhead
  <2> QED
    BY <2>5 DEF result
<1>6. CASE senders = {} /\ chances = {}
  <2>1. result.scheduler = SentNothing(t)
    BY <1>2, <1>6 DEF SendFirst
  <2>2. RoundOK(result.scheduler)
    BY <1>1, <2>1, SentAhead
  <2> QED
    BY <2>2 DEF result
<1> QED
  BY <1>4, <1>5, <1>6

\* When the memory of a new scheduler is zero wherever a flag is, and holds no
\* negative number, the first round ends.
LEMMA FreshOK ==
  ASSUME FreshInts \subseteq Nat, TRUE \notin FreshBools, NumRequestors <= NumOrder,
         NEW s \in FreshScheduler
  PROVE  RoundOK(s)
<1>1. /\ NumOrder \in Nat /\ NumRequestors \in Nat /\ FreshBools \subseteq BOOLEAN
      /\ Requestors = 0 .. NumRequestors - 1
  BY RoundAssumption, SystemConstants DEF Requestors
<1> DEFINE list == [i \in 1 .. NumOrder |-> i - 1]
<1>2. list \in Seq(Nat) /\ DOMAIN list = 1 .. NumOrder
  BY <1>1
<1>3. Requestors \subseteq ToSet(list)
  <2>1. \A id \in Requestors : id + 1 \in DOMAIN list /\ list[id + 1] = id
    BY <1>1
  <2> QED
    BY <2>1 DEF ToSet
<1> HIDE DEF list
<1>4. /\ s.order = list /\ s.tempqueue = {} /\ s.served = {} /\ s.considered = {}
      /\ s.roundType = "READ" /\ s.counter = 0 /\ s.lastACT = 0 /\ s.blockACT = FALSE
      /\ s.lastCAS \in FreshInts /\ s.swCAS \in FreshInts /\ s.swACT \in FreshInts
      /\ s.countACT \in FreshInts /\ s.jumps = {} /\ s.jump_6 \in FreshBools
      /\ s.jump_7 \in FreshBools /\ s.first \in FreshBools /\ s.BypassReset \in FreshBools
  BY DEF FreshScheduler, list
<1>5. s = [order |-> s.order, tempqueue |-> s.tempqueue, served |-> s.served,
           considered |-> s.considered, roundType |-> s.roundType, counter |-> s.counter,
           lastACT |-> s.lastACT, blockACT |-> s.blockACT, lastCAS |-> s.lastCAS,
           swCAS |-> s.swCAS, swACT |-> s.swACT, countACT |-> s.countACT,
           jumps |-> s.jumps, jump_6 |-> s.jump_6, jump_7 |-> s.jump_7,
           first |-> s.first, BypassReset |-> s.BypassReset]
  BY DEF FreshScheduler
<1>6. s \in Schedulers
  <2>1. \A n \in FreshInts : n \in Int
    BY RoundAssumption
  <2>2. \A b \in FreshBools : b \in BOOLEAN
    BY <1>1
  <2>3. /\ s.order \in Seq(Nat) /\ s.tempqueue \in SUBSET Requestors /\ s.served \in SUBSET Nat
        /\ s.considered \in SUBSET Nat /\ s.roundType \in RoundTypes
        /\ s.blockACT \in BOOLEAN /\ s.jumps \in SUBSET (1 .. 5)
    BY <1>2, <1>4 DEF RoundTypes
  <2>4. /\ s.counter \in Int /\ s.lastACT \in Int /\ s.lastCAS \in Int
        /\ s.swCAS \in Int /\ s.swACT \in Int /\ s.countACT \in Int
    <3>1. 0 \in Int
      OBVIOUS
    <3> QED
      BY <1>4, <2>1, <3>1, Zenon
  <2>5. /\ s.jump_6 \in BOOLEAN /\ s.jump_7 \in BOOLEAN
        /\ s.first \in BOOLEAN /\ s.BypassReset \in BOOLEAN
    BY <1>4, <2>2
  <2> QED
    BY <1>5, <2>3, <2>4, <2>5 DEF Schedulers
<1>7. s.counter <= s.swCAS
  <2>1. s.swCAS \in Nat
    BY <1>4, Zenon
  <2>2. s.counter = 0
    BY <1>4, Zenon
  <2> QED
    BY <2>1, <2>2
<1> QED
  BY <1>3, <1>4, <1>6, <1>7 DEF RoundOK

\* RoundWillEnd: the round can always still end, as the code ends it only in
\* the one cycle in which counter is swCAS.  As long as the memory the
\* constructor does not set holds no negative number and no flag, and Order has
\* a place for every requestor: without one or the other a round may miss its
\* end.
THEOREM RoundWillEndAlways ==
  ASSUME FreshInts \subseteq Nat, TRUE \notin FreshBools, NumRequestors <= NumOrder
  PROVE  RoundSafeSpec => []RoundWillEnd
<1>1. RoundInit => RoundOK(scheduler)
  BY FreshOK DEF RoundInit
<1>2. RoundOK(scheduler) /\ [RoundNext]_roundVars => RoundOK(scheduler)'
  <2> SUFFICES ASSUME RoundOK(scheduler), [RoundNext]_roundVars
               PROVE  RoundOK(scheduler)'
    OBVIOUS
  <2>1. CASE RoundStep
    <3> DEFINE result == CommandSchedule(scheduler, Ready, Heads, Issuable)
    <3>1. Ready \in SUBSET Requestors
      BY DEF Ready, Heads
    <3>2. RoundOK(result.scheduler)
      BY <3>1, ScheduledOK
    <3>3. scheduler' = result.scheduler
      BY <2>1 DEF RoundStep, StepWith
    <3> HIDE DEF result
    <3>4. RoundOK(scheduler')
      BY <3>2, <3>3
    <3> QED
      BY <3>4 DEF RoundOK, Schedulers
  <2>2. CASE scheduler' = scheduler
    BY <2>2 DEF RoundOK, Schedulers
  <2>3. RoundStep \/ scheduler' = scheduler
    BY DEF RoundNext, RoundUpdate, RoundMemoryUpdate, RoundExit, schedulerVars, roundVars
  <2> QED
    BY <2>1, <2>2, <2>3
<1>3. RoundOK(scheduler) => RoundWillEnd
  BY DEF RoundOK, RoundWillEnd
<1> QED
  BY <1>1, <1>2, <1>3, PTL DEF RoundSafeSpec
=============================================================================

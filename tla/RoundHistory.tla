---------------------------- MODULE RoundHistory ----------------------------
(***************************************************************************)
(* RoundSystem with history variables: what a chip on the command bus      *)
(* sees, and how often a requestor that waits is overtaken.  Only          *)
(* properties read the variables of this module.                           *)
(***************************************************************************)
EXTENDS RoundSystem

CONSTANTS
  MaxAge,      \* where since stops counting (bound)
  MaxLatency   \* the latency that aborts the program (1000), where latency
               \* stops counting

ASSUME HistoryAssumption ==
  /\ MaxAge \in Nat /\ Speed.nFAW <= MaxAge
  /\ MaxLatency \in Nat
  /\ \A e \in RankTiming \cup BankTiming :
       {e[1], e[2]} \subseteq OpenPage => e[3] <= MaxAge

VARIABLES
  since,      \* cycles since each command was last sent to each bank
  openRow,    \* the row the commands sent have left open in each bank
  window,     \* ages of the activates of the last nFAW cycles, oldest first
  overtaken,  \* overtaken[id, other]: accesses of other while id waits
  latency     \* cycles for which the requestor has waited for its answer

historyVars  == <<since, openRow, window, overtaken, latency>>
observedVars == <<roundVars, historyVars>>

\* The command of requestor id leaves in this step.
Sent(id) ==
  /\ turn = NumRequestors /\ id \in DOMAIN Heads
  /\ commandQueue'[id] = Tail(Buffer(id))

-----------------------------------------------------------------------------

ObservedInit ==
  /\ RoundInit
  /\ since = [x \in OpenPage \X Requestors |-> MaxAge]
  /\ openRow = [id \in Requestors |-> NoRow]
  /\ window = <<>>
  /\ overtaken = [x \in Requestors \X Requestors |-> 0]
  /\ latency = [id \in Requestors |-> 0]

RecordCommand(id) ==
  LET cmd == Head(Buffer(id))
      passed == {j \in Requestors : Stage(j) = "queued"} \ {id}
  IN /\ since' = [since EXCEPT ![<<cmd.type, id>>] = 0]
     /\ openRow' = [openRow EXCEPT ![id] =
          CASE cmd.type = "PRE" -> NoRow
            [] cmd.type \in Activates -> cmd.row
            [] OTHER -> @]
     /\ window' = IF cmd.type \in Activates THEN Append(window, 0) ELSE window
     /\ overtaken' = IF cmd.type \notin Accesses THEN overtaken
          ELSE [x \in DOMAIN overtaken |->
                  IF x[1] = id THEN 0
                  ELSE IF x[1] \in passed /\ x[2] = id THEN overtaken[x] + 1
                  ELSE overtaken[x]]
     /\ UNCHANGED latency

RecordCycle ==
  /\ since' = [x \in DOMAIN since |-> Min({MaxAge, since[x] + 1})]
  /\ window' = SelectSeq([i \in DOMAIN window |-> window[i] + 1],
                         LAMBDA age : age < Speed.nFAW)
  /\ latency' = [id \in Requestors |->
                   IF corePendingData'[id] = <<>> THEN 0
                   ELSE Min({MaxLatency, latency[id] + 1})]
  /\ UNCHANGED <<openRow, overtaken>>

ObservedStep ==
  /\ RoundStep
  /\ \/ \E id \in Requestors : Sent(id) /\ RecordCommand(id)
     \/ (\A id \in Requestors : ~ Sent(id)) /\ UNCHANGED historyVars

ObservedNext ==
  \/ \E id \in Requestors : RoundUpdate(id) /\ UNCHANGED historyVars
  \/ ObservedStep
  \/ RoundMemoryUpdate /\ RecordCycle
  \/ RoundExit /\ UNCHANGED historyVars

ObservedSpec == /\ ObservedInit /\ [][ObservedNext]_observedVars
                /\ WF_turn(LoopStep)

-----------------------------------------------------------------------------
(* Properties.                                                             *)

\* Every command of the system keeps the distances of DDR3.cpp at the chip,
\* although the device does not check the bank of a PRE (Scope) and the timer
\* of the controller does not know the PRE after an access (CommandTiming):
\* an open page is closed only for a later request, and the answer to the one
\* before it takes longer than a read keeps the page.  Writes: see below.
CommandsInTime ==
  [][\A id \in Requestors :
       Sent(id) => /\ Kept(RankTiming, since, Heads[id], Requestors)
                   /\ Kept(BankTiming \ After({"WR"}, {"PRE"}, WriteRecovery),
                           since, Heads[id], {id})]_observedVars

\* DDR3.cpp:398: a PRE is nCWL + nBL + nWR cycles after a WR to its bank.
WriteRecovered ==
  [][\A id \in Requestors :
       Sent(id) => Kept(After({"WR"}, {"PRE"}, WriteRecovery), since, Heads[id], {id})]_observedVars

\* Four activates in nFAW cycles, of either kind: the device counts ACT_R and
\* ACT_W apart, so that only the rounds keep their sum at four.
FourActivatesInWindow == Len(window) <= 4

\* The commands of a request are generated, and the row table is changed, long
\* before they are sent; still, an access finds its row open, an activate its
\* bank precharged, and no precharge is of a bank that has the row of its command
\* open.
RowsOpened ==
  [][\A id \in Requestors :
       Sent(id) =>
         LET cmd == Head(Buffer(id))
         IN CASE cmd.type \in Accesses  -> openRow[id] = cmd.row
              [] cmd.type \in Activates -> openRow[id] = NoRow
              [] cmd.type = "PRE" ->
                   openRow[id] # cmd.row]_observedVars

\* Served once a round: while a requestor waits for its access, any other has
\* at most two, one before the end of the round and one in the next.
OvertakenTwice ==
  \A id, other \in Requestors : overtaken[<<id, other>>] <= 2

\* Requestor.cpp:128 aborts the simulation when a request took 1000 cycles.
LatencyBounded == \A id \in Requestors : latency[id] < MaxLatency
=============================================================================

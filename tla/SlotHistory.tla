----------------------------- MODULE SlotHistory -----------------------------
(***************************************************************************)
(* SlotSystem with history variables, which only properties read: what a   *)
(* chip on the command bus sees, and how requestors wait for each other.   *)
(***************************************************************************)
EXTENDS SlotSystem

CONSTANTS
  MaxAge,     \* where since stops counting (bound)
  MaxLatency  \* where latency stops counting (bound)

ASSUME HistoryAssumption ==
  /\ MaxAge \in Nat /\ MaxLatency \in Nat
  /\ \A e \in RankTiming \cup BankTiming :
       {e[1], e[2]} \subseteq OpenPage => e[3] <= MaxAge

VARIABLES
  since,     \* cycles since each command was last sent to each bank
  overtaken, \* overtaken[id, other]: slots of other while id waits for its own
  latency    \* cycles for which a critical requestor has waited for an answer

historyVars  == <<since, overtaken, latency>>
observedVars == <<slotSystemVars, historyVars>>

Kinds == {"RD", "WR", "PRE"} \cup Activates

\* The command of requestor id leaves in this step.
Sent(id) ==
  /\ turn = NumRequestors /\ Buffer(id) # <<>>
  /\ commandQueue'[id] = Tail(Buffer(id))

-----------------------------------------------------------------------------

ObservedInit ==
  /\ SlotInit
  /\ since = [x \in Kinds \X Requestors |-> MaxAge]
  /\ overtaken = [x \in Requestors \X Requestors |-> 0]
  /\ latency = [id \in Critical |-> 0]

RecordStep ==
  /\ since' = [x \in DOMAIN since |->
       IF Sent(x[2]) /\ Head(Buffer(x[2])).type = x[1] THEN 0 ELSE since[x]]
  /\ overtaken' = [x \in DOMAIN overtaken |->
       IF x[1] \in Chosen \/ x[1] \notin Requesting THEN 0
       ELSE IF x[2] \in Chosen THEN overtaken[x] + 1 ELSE overtaken[x]]
  /\ UNCHANGED latency

RecordCycle ==
  /\ since' = [x \in DOMAIN since |-> Min({MaxAge, since[x] + 1})]
  /\ latency' = [id \in Critical |->
                   IF corePendingData'[id] = <<>> THEN 0
                   ELSE Min({MaxLatency, latency[id] + 1})]
  /\ UNCHANGED overtaken

ObservedNext ==
  \/ \E id \in Requestors : SlotUpdate(id) /\ UNCHANGED historyVars
  \/ SlotStep /\ RecordStep
  \/ SlotMemoryUpdate /\ RecordCycle
  \/ SlotExit /\ UNCHANGED historyVars

ObservedSpec == /\ ObservedInit /\ [][ObservedNext]_observedVars
                /\ WF_turn(LoopStep)

-----------------------------------------------------------------------------
(* Properties.                                                             *)

\* A slot is long enough for the cycles of a speed grade: for a row to be opened,
\* accessed and recovered, and for the commands of one slot to be no concern
\* of the next.  The 42 cycles of the code are, up to 1600H.
SlotLongEnough ==
  /\ BurstsPerRequest = 1
  /\ Speed.nRP + Speed.nRCD + WriteRecovery <= timeSlot
  /\ Speed.nRP + Speed.nRCD + Speed.nRTP <= timeSlot
  /\ Speed.nRP + Speed.nRAS <= timeSlot
  /\ \A n \in {Speed.nRC, Speed.nFAW, Speed.nRRD, Speed.nCCD, ReadToWrite, WriteToRead} :
       n <= timeSlot

\* The distances of DDR3.cpp are all kept at the chip, those of a PRE too that
\* the device does not check: a slot is just long enough for a row to be
\* opened, written, recovered and closed by the first command of the next.
SlotCommandsInTime ==
  [][\A id \in Requestors :
       Sent(id) => LET cmd == Head(Buffer(id)).type
                   IN /\ Kept(RankTiming, since, cmd, Requestors)
                      /\ Kept(BankTiming, since, cmd, {id})]_observedVars

\* A requestor cannot tell from its slot what the others do: its commands
\* leave at the same distances from the start of the slot, whatever the
\* slots before held.
SlotsIsolated ==
  [][\A id \in Requestors :
       Sent(id) =>
         timeSlot - 1 - slotCounter' =
           LET cmd == Head(Buffer(id)).type
           IN CASE cmd = "PRE" -> 0
                [] cmd \in Activates -> Speed.nRP
                [] OTHER -> Speed.nRP + Speed.nRCD]_observedVars

\* A requestor that waits for a slot sees every other get one at most, though
\* the list of turns grows while turns are taken.
ServedInTurn ==
  \A id, other \in Requestors : overtaken[<<id, other>>] <= 1

\* So a critical requestor waits for the rest of a slot, for a slot of each
\* other, and for its own commands and data.
SlotLatency ==
  \A id \in Critical :
    latency[id] < NumRequestors * timeSlot + Speed.nRP + Speed.nRCD
                  + Max({tRL, tWL}) + tBus

\* Critical requestors are answered while the program runs, even when others
\* wait for ever.
CriticalAnswered == \A id \in Critical : Service!Answered(id)
=============================================================================

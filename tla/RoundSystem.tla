----------------------------- MODULE RoundSystem -----------------------------
(***************************************************************************)
(* The channel of MemoryController with the schedulers of Round.ini and    *)
(* its device: DIRECT turns every request into commands at once, and the   *)
(* command that goes out in a cycle is the one the Round scheduler of      *)
(* RoundScheduler chooses among the ready commands (CommandScheduler.cpp)  *)
(* that the DDR3 device accepts.  With one bank per requestor, the bank of *)
(* a command is the id of its requestor.                                   *)
(***************************************************************************)
EXTENDS MemoryController, RoundScheduler

\* The rank of all requests, where a requestor has its own bank.
OwnRank == 0

CONSTANT NoRow  \* "row table has no entry"

ASSUME RoundAssumption ==
  /\ Requestors \subseteq Banks /\ OpenPage \subseteq Commands
  /\ tWL = Constraint.tWL /\ tRL = Constraint.tRL /\ tBus = Constraint.tBus
  /\ NumOrder \in Nat \ {0}
  /\ FreshInts \subseteq Int /\ FreshBools \subseteq BOOLEAN
  /\ NoRow \notin Rows

VARIABLES
  rowTable,   \* RequestScheduler::bankTable (one bank per requestor)
  scheduler,  \* the Round scheduler
  timer,      \* reqCmdQueueTimer: cycles until the requestor's next command
  dev         \* the device

schedulerVars == <<rowTable, scheduler, timer, dev>>
roundVars     == <<vars, schedulerVars>>


-----------------------------------------------------------------------------
(* requestSchedule() of RequestScheduler_DIRECT.h and the command          *)
(* generator.  The buffers, and with bank privatization the banks, of two  *)
(* requestors are apart, so the order in which requestors are served       *)
(* leaves no trace.                                                        *)

NextRow(id) == RowOf[Head(requestQueue[id]).addr]

\* Mutant: any row that is open is a hit.
RowHitAnyRow(id) == rowTable[id] # NoRow
RowHit(id) == rowTable[id] = NextRow(id)
Hits == {id \in Requesting : RowHit(id)}

RowTableAfter ==
  [id \in Requestors |-> IF id \in Requesting THEN NextRow(id) ELSE rowTable[id]]

\* The buffers of CommandQueue, from which the command scheduler chooses.
Buffer(id) == Generated(id, Requesting, Hits)

-----------------------------------------------------------------------------
(* CommandScheduler.cpp.                                                   *)

\* The types of the commands at the front of the requestors' buffers.
Heads == [id \in {j \in Requestors : Buffer(j) # <<>>} |-> Head(Buffer(id)).type]

\* isReady.
Ready == {id \in DOMAIN Heads : timer[id][Heads[id]] = 0}

\* isIssuable.
Issuable == {id \in DOMAIN Heads : CommandCheck(dev, Heads[id], OwnRank, id)}

\* sendCommand and then tick.
TimerAfter(sent) ==
  [id \in Requestors |-> [type \in OpenPage |->
     LET left == IF id \in sent
                 THEN Max({timer[id][type], CommandTiming(Heads[id], type)})
                 ELSE timer[id][type]
     IN AtLeast0(left - 1)]]

\* The rest of the cycle, once the scheduler has chosen.
StepWith(result) ==
  /\ IF result.sent = {} THEN StepNoCommand(Requesting, Hits) /\ UNCHANGED dev
     ELSE \E id \in Requestors :
            /\ id \in result.sent
            /\ StepCommand(id, Requesting, Hits)
            /\ dev' = DeviceUpdate(dev, Heads[id], OwnRank, id)
  /\ rowTable' = RowTableAfter
  /\ scheduler' = result.scheduler
  /\ timer' = TimerAfter(result.sent)

\* MemoryController::step with the Round scheduler.
RoundStep == /\ turn = NumRequestors
             /\ StepWith(CommandSchedule(scheduler, Ready, Heads, Issuable))

RoundUpdate(id) == Update(id) /\ UNCHANGED schedulerVars

\* MemorySystem::update ends the clock cycle of the device as well.
RoundMemoryUpdate ==
  /\ MemoryUpdate
  /\ dev' = DeviceTick(dev)
  /\ UNCHANGED <<rowTable, scheduler, timer>>

RoundExit == Exit /\ UNCHANGED schedulerVars

RoundInit ==
  /\ Init
  /\ rowTable = [id \in Requestors |-> NoRow]
  /\ scheduler \in FreshScheduler
  /\ timer = [id \in Requestors |-> [type \in OpenPage |-> 0]]
  /\ dev = InitDevice({OwnRank}, Banks)

RoundNext == \/ \E id \in Requestors : RoundUpdate(id)
             \/ RoundStep
             \/ RoundMemoryUpdate
             \/ RoundExit

RoundSafeSpec == RoundInit /\ [][RoundNext]_roundVars

-----------------------------------------------------------------------------
(* Properties.                                                             *)

\* The round ends in the cycle in which counter EQUALS swCAS: between calls
\* the end still lies ahead, or the round would never end.
RoundWillEnd == scheduler.counter <= scheduler.swCAS

\* Whatever the others do, a request is answered while the program runs: no
\* requestor is starved by the rounds, the timers and the device.
EveryRequestAnswered == \A id \in Requestors : Service!Answered(id)
=============================================================================

----------------------------- MODULE SlotSystem -----------------------------
(***************************************************************************)
(* The channel of MemoryController with the other two schedulers that are  *)
(* built: RR turns one request in timeSlot cycles into commands, taking    *)
(* the requestors in turn, and FCFS sends the first command the device     *)
(* accepts, looking at the command queues in the order of their index.     *)
(*                                                                         *)
(* The queues are those of AMC.ini, the configuration that names both:     *)
(* one request queue with a buffer per requestor, and a command queue per  *)
(* bank.  With one bank per requestor, the command queue of a requestor    *)
(* has its id as index.  Each queue has a buffer for the commands of       *)
(* critical requestors and one for the others, and FCFS looks at the first *)
(* only.  It looks at no timer of CommandScheduler.cpp.                    *)
(*                                                                         *)
(* The command generator AMC.ini names is not built.  With OPEN, the only  *)
(* one that is, RR has every request close and open a row.                 *)
(***************************************************************************)
EXTENDS MemoryController, DDR3

\* The rank of all requests, where a requestor has its own bank.
OwnRank == 0

CONSTANTS
  timeSlot,  \* 42 in the code: "RCD + WL + Bus + WR + RP"
  Critical   \* requestorCriticalTable: ids 0 to 7 in main.cpp

ASSUME SlotAssumption ==
  /\ Requestors \subseteq Banks /\ OpenPage \subseteq Commands
  /\ tWL = Constraint.tWL /\ tRL = Constraint.tRL /\ tBus = Constraint.tBus
  /\ timeSlot \in Nat \ {0}
  /\ Critical \subseteq Requestors

VARIABLES
  slotCounter,          \* cycles until the next slot
  requestorOrder,       \* RequestQueue: requestors in the order they first came
  queueRequestorIndex,  \* RR: whose turn it is in requestorOrder
  dev                   \* the device

slotVars == <<slotCounter, requestorOrder, queueRequestorIndex, dev>>
slotSystemVars == <<vars, slotVars>>

-----------------------------------------------------------------------------
(* requestSchedule() of RequestScheduler_RR.h.                             *)

\* Mutant: the turn does not move on.
InTurnFixed(k) == requestorOrder[k + 1]

\* The requestor k places after the one whose turn it is.
InTurn(k) ==
  requestorOrder[((queueRequestorIndex + k) % Len(requestorOrder)) + 1]

\* Mutant: a requestor without a request keeps its turn.
PlacesHeld ==
  IF slotCounter # 0 \/ requestorOrder = <<>> THEN {}
  ELSE {k \in {0} : InTurn(k) \in Requesting}

\* The places of the requestors with a request, where a slot begins.
Places ==
  IF slotCounter # 0 THEN {}
  ELSE {k \in 0 .. Len(requestorOrder) - 1 : InTurn(k) \in Requesting}

Chosen == {InTurn(k) : k \in {i \in Places : \A j \in Places : i <= j}}

\* Mutant: the turn does not wrap around.
TurnAfterEnd ==
  IF Places = {} THEN queueRequestorIndex
  ELSE queueRequestorIndex + Min(Places) + 1

TurnAfter ==
  IF Places = {} THEN queueRequestorIndex
  ELSE (queueRequestorIndex + Min(Places) + 1) % Len(requestorOrder)

\* Mutant: a slot is one cycle shorter.
SlotCounterShort ==
  IF slotCounter # 0 THEN slotCounter - 1
  ELSE IF Places = {} THEN 0 ELSE timeSlot - 2

SlotCounterAfter ==
  IF slotCounter # 0 THEN slotCounter - 1
  ELSE IF Places = {} THEN 0 ELSE timeSlot - 1

-----------------------------------------------------------------------------
(* commandSchedule() of CommandScheduler_FCFS.h.                           *)

Buffer(id) == Generated(id, Chosen, {})

\* Mutant: the scheduler looks at no timing.
IssuableAny == {id \in Critical : Buffer(id) # <<>>}

\* Mutant: what the loop finds in the last queue with commands decides.
IssuableLast ==
  {id \in Critical : /\ Buffer(id) # <<>>
                     /\ CommandCheck(dev, Head(Buffer(id)).type, OwnRank, id)
                     /\ \A other \in Requestors : Buffer(other) # <<>> => other <= id}

\* A queue that is empty leaves the command of the queue before it to be
\* checked again, with the same outcome.
Issuable ==
  {id \in Critical : Buffer(id) # <<>> /\ CommandCheck(dev, Head(Buffer(id)).type, OwnRank, id)}

SlotStep ==
  /\ IF Issuable = {} THEN StepNoCommand(Chosen, {}) /\ UNCHANGED dev
     ELSE \E id \in Requestors :
            /\ id = Min(Issuable)
            /\ StepCommand(id, Chosen, {})
            /\ dev' = DeviceUpdate(dev, Head(Buffer(id)).type, OwnRank, id)
  /\ slotCounter' = SlotCounterAfter
  /\ queueRequestorIndex' = TurnAfter
  /\ UNCHANGED requestorOrder

\* Requestor::update, with the order RequestQueue::insertRequest keeps.
SlotUpdate(id) ==
  /\ Update(id)
  /\ requestorOrder' =
       IF requestQueue'[id] = <<>> \/ id \in ToSet(requestorOrder)
       THEN requestorOrder ELSE Append(requestorOrder, id)
  /\ UNCHANGED <<slotCounter, queueRequestorIndex, dev>>

SlotMemoryUpdate ==
  /\ MemoryUpdate
  /\ dev' = DeviceTick(dev)
  /\ UNCHANGED <<slotCounter, requestorOrder, queueRequestorIndex>>

SlotExit == Exit /\ UNCHANGED slotVars

SlotInit ==
  /\ Init
  /\ slotCounter = 0 /\ requestorOrder = <<>> /\ queueRequestorIndex = 0
  /\ dev = InitDevice({OwnRank}, Banks)

SlotNext == \/ \E id \in Requestors : SlotUpdate(id)
            \/ SlotStep
            \/ SlotMemoryUpdate
            \/ SlotExit

SlotSpec == SlotInit /\ [][SlotNext]_slotSystemVars

-----------------------------------------------------------------------------
(* Properties.                                                             *)

\* RR reads requestorOrder at its index with no test of the bounds, and gives
\* slots to nobody else: the index stays in the list while the list grows,
\* every requestor that waits is in it, and in it once.
TurnsInOrder ==
  /\ slotCounter \in 0 .. timeSlot - 1
  /\ requestorOrder \in Seq(Requestors)
  /\ queueRequestorIndex \in 0 .. Len(requestorOrder)
  /\ requestorOrder # <<>> => queueRequestorIndex < Len(requestorOrder)
  /\ \A i, j \in DOMAIN requestorOrder :
       requestorOrder[i] = requestorOrder[j] => i = j
  /\ \A id \in Requesting : \E i \in DOMAIN requestorOrder : requestorOrder[i] = id
=============================================================================

-------------------------- MODULE MemoryController --------------------------
(***************************************************************************)
(* The request and data path of one channel: the requestors of             *)
(* Requestor.cpp, the queues and data buffers of MemoryController.cpp with *)
(* the OPEN command generator, the read return buffer of MemorySystem.cpp, *)
(* driven by the loop of main.cpp.                                         *)
(*                                                                         *)
(* The two schedulers are virtual functions, and here a choice.  The       *)
(* request scheduler turns the oldest request of any requestors into       *)
(* commands, as row hits or misses; the command scheduler sends the first  *)
(* command of any requestor, or none.  Modules RoundSystem and SlotSystem  *)
(* resolve both the way the schedulers of a configuration do.              *)
(*                                                                         *)
(* One cycle of main.cpp is the sequence of steps                          *)
(*   Update(0) ... Update(NumRequestors-1), Step, MemoryUpdate             *)
(* and variable turn says which of them is next.                           *)
(***************************************************************************)
EXTENDS Integers, Sequences, FiniteSets

CONSTANTS
  NumRequestors,     \* option -n: requestors are 0 .. NumRequestors-1
  Addresses,         \* addresses a trace line may carry
  Delays,            \* computation delays a trace line may carry
  TraceLength,       \* lines in the trace file of each requestor (bound)
  RowOf,             \* RowOf[a]: the row AddressMapping gives address a
  AddressSpan,       \* addresses an unsigned int tells apart (2^32)
  BurstsPerRequest,  \* requestSize / dataBusWidth
  tWL, tRL, tBus,    \* write latency, read latency, burst length
  MaxUnsigned,       \* UINT_MAX, where a decremented 0 lands
  NoRequest          \* "no pending request"

Requestors   == 0 .. NumRequestors - 1
RequestTypes == {"DATA_READ", "DATA_WRITE"}
Rows         == {RowOf[a] : a \in Addresses}
TraceLines   == [type : RequestTypes, addr : Addresses, wait : Delays]
Requests     == [type : RequestTypes, addr : Addresses]

ASSUME ConstantsAssumption ==
  /\ NumRequestors \in Nat \ {0}
  /\ Addresses \subseteq Nat
  /\ Delays \subseteq Nat
  /\ TraceLength \in [Requestors -> Nat]
  /\ DOMAIN RowOf = Addresses
  /\ AddressSpan \in Nat \ {0}
  /\ BurstsPerRequest \in Nat \ {0}
  /\ tWL \in Nat /\ tRL \in Nat /\ tBus \in Nat \ {0}
  /\ MaxUnsigned \in Nat
  /\ tWL + tBus <= MaxUnsigned

ASSUME NullAssumption ==
  NoRequest \notin [type : RequestTypes, addr : Addresses, wait : Nat]

VARIABLES
  turn,                 \* the step of main's loop that is next
  simDone,              \* a requestor has reached the end of its trace
  traceLines,           \* lines left in each trace file
  pendingRequest,       \* Requestor: parsed, not yet sent
  corePendingData,      \* Requestor: sent, not yet answered
  requestQueue,         \* RequestQueue::requestorBuffer
  pendingReadRequest,   \* MemoryController, per requestor
  pendingWriteRequest,  \* MemoryController, per requestor
  commandQueue,         \* CommandQueue::requestorBuffer
  sendDataBuffer, sendDataCounter,  \* write bursts on their way to the device
  pendingReadData, dataCycles       \* read bursts on their way back

requestorVars == <<simDone, traceLines, pendingRequest>>
queueVars     == <<requestQueue, commandQueue>>
sendVars      == <<sendDataBuffer, sendDataCounter>>
returnVars    == <<pendingReadData, dataCycles>>
pendingVars   == <<corePendingData, pendingReadRequest, pendingWriteRequest>>
vars == <<turn, requestorVars, queueVars, sendVars, returnVars, pendingVars>>

-----------------------------------------------------------------------------
(* Packets (BusPacket.h).                                                  *)

IsRead(cmd)  == cmd.type \in {"RD", "RDA"}
IsWrite(cmd) == cmd.type \in {"WR", "WRA"}

PacketTypes == {"RD", "RDA", "WR", "WRA", "ACT_R", "ACT_W", "PRE"}
\* The address of a packet is an unsigned int, that of a request is not.
BusAddress(a) == a % AddressSpan
Packets == [type : PacketTypes, id : Requestors, addr : Nat, row : Rows]

\* Mutant: one column access, whatever the size of the request.
CommandGenerateSingle(id, req, open) ==
  LET packet(t) == [type |-> t, id |-> id,
                    addr |-> BusAddress(req.addr), row |-> RowOf[req.addr]]
      read == req.type = "DATA_READ"
      cas  == <<packet(IF read THEN "RD" ELSE "WR")>>
  IN IF open THEN cas
     ELSE <<packet("PRE"), packet(IF read THEN "ACT_R" ELSE "ACT_W")>> \o cas

\* CommandGenerator_OPEN::commandGenerate.
CommandGenerate(id, req, open) ==
  LET packet(t) == [type |-> t, id |-> id,
                    addr |-> BusAddress(req.addr), row |-> RowOf[req.addr]]
      read == req.type = "DATA_READ"
      cas  == [k \in 1 .. BurstsPerRequest |->
                 packet(IF read THEN "RD" ELSE "WR")]
  IN IF open THEN cas
     ELSE <<packet("PRE"), packet(IF read THEN "ACT_R" ELSE "ACT_W")>> \o cas

-----------------------------------------------------------------------------
(* Requestors (Requestor.cpp, in order as main.cpp creates them).  The     *)
(* abort of Requestor::update after an answer that took 1000 cycles is     *)
(* left out: see LatencyBounded of RoundHistory.                           *)

Blocked(id) == corePendingData[id] # <<>>

\* Mutant: an in-order requestor reads on without its answer.
MayReadOn(id) == pendingRequest[id] = NoRequest
MayRead(id) == pendingRequest[id] = NoRequest /\ ~ Blocked(id)

\* Requestor::readingTraceFile: what pendingRequest may hold afterwards.
ReadingTraceFile(id) ==
  IF MayRead(id) THEN IF traceLines[id] > 0 THEN TraceLines ELSE {}
                 ELSE {pendingRequest[id]} \ {NoRequest}

LinesAfterReading(id) ==
  IF MayRead(id) THEN [traceLines EXCEPT ![id] = @ - 1] ELSE traceLines

\* MemoryController::addRequest.  The request lists of the code are shared by
\* all requestors, but are only ever searched for one requestor's requests.
AddRequest(id, req) ==
  LET entry == [addr |-> req.addr, size |-> BurstsPerRequest]
  IN /\ requestQueue' = [requestQueue EXCEPT ![id] = Append(@, req)]
     /\ IF req.type = "DATA_READ"
        THEN /\ pendingReadRequest' =
                  [pendingReadRequest EXCEPT ![id] = Append(@, entry)]
             /\ UNCHANGED pendingWriteRequest
        ELSE /\ pendingWriteRequest' =
                  [pendingWriteRequest EXCEPT ![id] = Append(@, entry)]
             /\ UNCHANGED pendingReadRequest

\* Requestor::update when the request's arrival time has come: sendRequest.
UpdateSend(id) ==
  /\ turn = id
  /\ \E next \in ReadingTraceFile(id) :
       /\ next.wait = 0
       /\ AddRequest(id, [type |-> next.type, addr |-> next.addr])
       /\ corePendingData' =
            [corePendingData EXCEPT ![id] = Append(@, next.addr)]
  /\ pendingRequest' = [pendingRequest EXCEPT ![id] = NoRequest]
  /\ traceLines' = LinesAfterReading(id)
  /\ turn' = turn + 1
  /\ UNCHANGED <<simDone, commandQueue, sendVars, returnVars>>

\* Requestor::update while the request's arrival time is in the future.
UpdateWait(id) ==
  /\ turn = id
  /\ \E next \in ReadingTraceFile(id) :
       /\ next.wait > 0
       /\ pendingRequest' =
            [pendingRequest EXCEPT ![id] = [next EXCEPT !.wait = @ - 1]]
  /\ traceLines' = LinesAfterReading(id)
  /\ turn' = turn + 1
  /\ UNCHANGED <<simDone, queueVars, sendVars, returnVars, pendingVars>>

\* Requestor::update of an in-order requestor waiting for its answer.
UpdateBlocked(id) ==
  /\ turn = id
  /\ Blocked(id) /\ pendingRequest[id] = NoRequest
  /\ turn' = turn + 1
  /\ UNCHANGED <<requestorVars, queueVars, sendVars, returnVars, pendingVars>>

\* Requestor::update at a blank line of the trace.
UpdateBlank(id) ==
  /\ turn = id
  /\ MayRead(id)
  /\ traceLines[id] > 0
  /\ traceLines' = LinesAfterReading(id)
  /\ turn' = turn + 1
  /\ UNCHANGED <<simDone, pendingRequest, queueVars, sendVars, returnVars,
                 pendingVars>>

\* Requestor::update at the end of the trace, and main's test of sim_end.
UpdateEnd(id) ==
  /\ turn = id
  /\ MayRead(id)
  /\ simDone' = TRUE
  /\ traceLines' = [traceLines EXCEPT ![id] = 0]
  /\ turn' = turn + 1
  /\ UNCHANGED <<pendingRequest, queueVars, sendVars, returnVars, pendingVars>>

Update(id) == \/ UpdateSend(id) \/ UpdateWait(id) \/ UpdateBlocked(id)
              \/ UpdateBlank(id) \/ UpdateEnd(id)

-----------------------------------------------------------------------------
(* Answers: the match by requestor and address, and the callback.          *)

Without(list, i) == SubSeq(list, 1, i - 1) \o SubSeq(list, i + 1, Len(list))

\* Where the search loops stop: the first position, if any, holding addr.
Found(addrs, addr) == {i \in DOMAIN addrs :
  addrs[i] = addr /\ \A j \in 1 .. i - 1 : addrs[j] # addr}

\* Requestor::returnData: drop the first pending request with this address.
\* Where there is none the code may abort ("REQUEST NOT FOUND"), a case
\* BurstsAccounted excludes.
ReturnData(id, addr) ==
  LET found == Found(corePendingData[id], addr)
  IN IF found = {} THEN UNCHANGED corePendingData
     ELSE \E i \in found : corePendingData' =
            [corePendingData EXCEPT ![id] = Without(@, i)]

\* The loops of receiveData and sendData over the pending requests: the burst
\* belongs to the first request of its requestor with the burst's address.
\* It completes a request of the bus width, and shortens a longer one.
Owner(list, burst) == Found([i \in DOMAIN list |-> list[i].addr], burst.addr)
Completes(list, burst) == \E i \in Owner(list, burst) : list[i].size = 1

\* Mutant: a completed request is not erased.
AfterBurstKept(list, burst) ==
  [i \in DOMAIN list |-> IF i \in Owner(list, burst)
                         THEN [list[i] EXCEPT !.size = @ - 1] ELSE list[i]]

AfterBurst(list, burst) ==
  IF Owner(list, burst) = {} THEN list
  ELSE LET i == CHOOSE i \in Owner(list, burst) : TRUE
       IN IF list[i].size = 1 THEN Without(list, i)
          ELSE [list EXCEPT ![i].size = @ - 1]

\* Mutant: the callback comes with every burst of a request.
CallbackEachBurst(list, burst) == ReturnData(burst.id, burst.addr)

Callback(list, burst) ==
  IF Completes(list, burst) THEN ReturnData(burst.id, burst.addr)
                            ELSE UNCHANGED corePendingData

\* MemoryController::sendData.
SendData(burst) ==
  /\ pendingWriteRequest' =
       [pendingWriteRequest EXCEPT ![burst.id] = AfterBurst(@, burst)]
  /\ Callback(pendingWriteRequest[burst.id], burst)

\* MemoryController::receiveData.
ReceiveData(burst) ==
  /\ pendingReadRequest' =
       [pendingReadRequest EXCEPT ![burst.id] = AfterBurst(@, burst)]
  /\ Callback(pendingReadRequest[burst.id], burst)

-----------------------------------------------------------------------------
(* MemoryController::step.                                                 *)

\* Requestors with a request the request scheduler may choose.
Requesting == {id \in Requestors : requestQueue[id] # <<>>}

\* The commands of a requestor after requestSchedule() and the drain of the
\* command generator.
Generated(id, chosen, hits) ==
  IF id \notin chosen THEN commandQueue[id]
  ELSE commandQueue[id] \o
         CommandGenerate(id, Head(requestQueue[id]), id \in hits)

RequestSchedule(chosen) ==
  requestQueue' = [id \in Requestors |->
    IF id \in chosen THEN Tail(requestQueue[id]) ELSE requestQueue[id]]

\* sendDataCounter is a vector of unsigned int.
Decrement(n) == IF n = 0 THEN MaxUnsigned ELSE n - 1
DecrementAll(counters) == [i \in DOMAIN counters |-> Decrement(counters[i])]

\* Mutant: no counter is decremented in the cycle in which a burst leaves.
StepDataEither(buffer, counters) ==
  IF counters # <<>> /\ Head(counters) = 0
  THEN /\ sendDataBuffer'  = Tail(buffer)
       /\ sendDataCounter' = Tail(counters)
       /\ SendData(Head(buffer))
       /\ UNCHANGED pendingReadRequest
  ELSE /\ sendDataBuffer'  = buffer
       /\ sendDataCounter' = DecrementAll(counters)
       /\ UNCHANGED pendingVars

\* The data part of step(): the burst whose counter has run out leaves, then
\* every counter left is decremented.
StepData(buffer, counters) ==
  IF counters # <<>> /\ Head(counters) = 0
  THEN /\ sendDataBuffer'  = Tail(buffer)
       /\ sendDataCounter' = DecrementAll(Tail(counters))
       /\ SendData(Head(buffer))
       /\ UNCHANGED pendingReadRequest
  ELSE /\ sendDataBuffer'  = buffer
       /\ sendDataCounter' = DecrementAll(counters)
       /\ UNCHANGED pendingVars

\* MemorySystem::generateData, reached through receiveFromBus(cmd).
GenerateData(cmd) ==
  IF IsRead(cmd)
  THEN /\ pendingReadData' = Append(pendingReadData, cmd)
       /\ dataCycles' = Append(dataCycles, tRL + tBus)
  ELSE UNCHANGED returnVars

\* The command scheduler sends the first command of requestor id.
StepCommand(id, chosen, hits) ==
  LET cmd == Head(Generated(id, chosen, hits))
  IN /\ turn = NumRequestors
     /\ Generated(id, chosen, hits) # <<>>
     /\ RequestSchedule(chosen)
     /\ commandQueue' = [j \in Requestors |->
          IF j = id THEN Tail(Generated(j, chosen, hits))
                    ELSE Generated(j, chosen, hits)]
     /\ GenerateData(cmd)
     /\ IF IsWrite(cmd)
        THEN StepData(Append(sendDataBuffer, cmd),
                      Append(sendDataCounter, tWL + tBus))
        ELSE StepData(sendDataBuffer, sendDataCounter)
     /\ turn' = turn + 1
     /\ UNCHANGED requestorVars

\* The command scheduler returns NULL.
StepNoCommand(chosen, hits) ==
  /\ turn = NumRequestors
  /\ RequestSchedule(chosen)
  /\ commandQueue' = [j \in Requestors |-> Generated(j, chosen, hits)]
  /\ StepData(sendDataBuffer, sendDataCounter)
  /\ turn' = turn + 1
  /\ UNCHANGED <<requestorVars, returnVars>>

Step == \E chosen \in SUBSET Requesting : \E hits \in SUBSET chosen :
          \/ StepNoCommand(chosen, hits)
          \/ \E id \in Requestors : StepCommand(id, chosen, hits)

-----------------------------------------------------------------------------
(* MemorySystem::update, and main's test of simDone.                       *)

\* Mutant: only the burst at the front is counted down.
CountdownFront(counters) ==
  [i \in DOMAIN counters |->
     IF i = 1 /\ counters[i] > 0 THEN counters[i] - 1 ELSE counters[i]]

Countdown(counters) ==
  [i \in DOMAIN counters |-> IF counters[i] > 0 THEN counters[i] - 1 ELSE 0]

Ended == NumRequestors + 2

MemoryUpdate ==
  /\ turn = NumRequestors + 1
  /\ LET cycles == Countdown(dataCycles)
     IN IF pendingReadData # <<>> /\ Head(cycles) = 0
        THEN /\ dataCycles' = Tail(cycles)
             /\ pendingReadData' = Tail(pendingReadData)
             /\ ReceiveData(Head(pendingReadData))
             /\ UNCHANGED pendingWriteRequest
        ELSE /\ dataCycles' = cycles
             /\ UNCHANGED <<pendingReadData, pendingVars>>
  /\ turn' = IF simDone THEN Ended ELSE 0
  /\ UNCHANGED <<requestorVars, queueVars, sendVars>>

\* main has left its loop.
Exit == turn = Ended /\ UNCHANGED vars

-----------------------------------------------------------------------------

Init ==
  /\ turn = 0
  /\ simDone = FALSE
  /\ traceLines = TraceLength
  /\ pendingRequest = [id \in Requestors |-> NoRequest]
  /\ corePendingData = [id \in Requestors |-> <<>>]
  /\ requestQueue = [id \in Requestors |-> <<>>]
  /\ pendingReadRequest = [id \in Requestors |-> <<>>]
  /\ pendingWriteRequest = [id \in Requestors |-> <<>>]
  /\ commandQueue = [id \in Requestors |-> <<>>]
  /\ sendDataBuffer = <<>> /\ sendDataCounter = <<>>
  /\ pendingReadData = <<>> /\ dataCycles = <<>>

Next == \/ \E id \in Requestors : Update(id)
        \/ Step
        \/ MemoryUpdate
        \/ Exit

Spec == Init /\ [][Next]_vars

\* main's loop never waits: while it runs, it goes on to its next step.
LoopStep == turn # Ended /\ turn' \in 0 .. Ended

-----------------------------------------------------------------------------
(* Properties.                                                             *)

Entries == [addr : Addresses, size : 1 .. BurstsPerRequest]

\* Types, with the counters of the write bursts within an unsigned int: step()
\* decrements them without testing for 0.
TypeOK ==
  /\ turn \in 0 .. Ended
  /\ simDone \in BOOLEAN
  /\ traceLines \in [Requestors -> Nat]
  /\ pendingRequest \in [Requestors ->
        [type : RequestTypes, addr : Addresses, wait : Nat] \cup {NoRequest}]
  /\ corePendingData \in [Requestors -> Seq(Addresses)]
  /\ requestQueue \in [Requestors -> Seq(Requests)]
  /\ pendingReadRequest \in [Requestors -> Seq(Entries)]
  /\ pendingWriteRequest \in [Requestors -> Seq(Entries)]
  /\ commandQueue \in [Requestors -> Seq(Packets)]
  /\ sendDataBuffer \in Seq(Packets)
  /\ sendDataCounter \in Seq(0 .. MaxUnsigned)
  /\ pendingReadData \in Seq(Packets)
  /\ dataCycles \in Seq(Nat)

\* step() decrements the unsigned counters of ALL write bursts and looks only
\* at the front one, for 0.  A burst leaves on time, and no counter wraps to
\* UINT_MAX, only because the counters strictly increase towards the back
\* and each is below the latency a fresh one starts from.
WriteCountersOrdered ==
  /\ Len(sendDataCounter) = Len(sendDataBuffer)
  /\ \A i \in DOMAIN sendDataCounter : sendDataCounter[i] < tWL + tBus
  /\ \A i, j \in DOMAIN sendDataCounter :
       i < j => sendDataCounter[i] < sendDataCounter[j]

\* The same of the read bursts: update() pops at most one per cycle, so two
\* that ran out in the same cycle would delay every later answer.  No burst
\* is left with a counter that has run out.
ReadCountersOrdered ==
  /\ Len(dataCycles) = Len(pendingReadData)
  /\ \A i \in DOMAIN dataCycles :
       /\ dataCycles[i] > 0
       /\ \/ dataCycles[i] < tRL + tBus
          \/ dataCycles[i] = tRL + tBus /\ turn = NumRequestors + 1
  /\ \A i, j \in DOMAIN dataCycles : i < j => dataCycles[i] < dataCycles[j]

\* Bursts of requestor id: commanded but not sent, and on the data bus.
CommandedBursts(id) ==
  {k \in DOMAIN commandQueue[id] :
     IsRead(commandQueue[id][k]) \/ IsWrite(commandQueue[id][k])}
BurstsOf(id, buffer) == {k \in DOMAIN buffer : buffer[k].id = id}

NothingInFlight(id) ==
  /\ requestQueue[id] = <<>> /\ commandQueue[id] = <<>>
  /\ BurstsOf(id, sendDataBuffer) = {} /\ BurstsOf(id, pendingReadData) = {}

\* A request waiting for an answer is exactly where its bursts say it is:
\* not yet scheduled, or with one burst commanded or on the bus, in its own
\* direction and with its address, for each burst it still waits for.
BurstsAccounted ==
  \A id \in Requestors :
    LET reads  == pendingReadRequest[id]
        writes == pendingWriteRequest[id]
        buffer == IF reads # <<>> THEN pendingReadData ELSE sendDataBuffer
        other  == IF reads # <<>> THEN sendDataBuffer ELSE pendingReadData
        entry  == Head(reads \o writes)
    IN IF corePendingData[id] = <<>>
       THEN NothingInFlight(id) /\ reads = <<>> /\ writes = <<>>
       ELSE /\ Len(reads) + Len(writes) = 1
            /\ corePendingData[id] = <<entry.addr>>
            /\ \/ /\ requestQueue[id] # <<>>
                  /\ entry.size = BurstsPerRequest
                  /\ commandQueue[id] = <<>>
                  /\ BurstsOf(id, buffer) = {}
               \/ /\ requestQueue[id] = <<>>
                  /\ entry.size = Cardinality(CommandedBursts(id))
                                  + Cardinality(BurstsOf(id, buffer))
                  /\ \A k \in BurstsOf(id, buffer) :
                       buffer[k].addr = entry.addr
            /\ BurstsOf(id, other) = {}

\* main stops at the first trace that ends.  The requestor it belongs to has
\* every answer, and leaves nothing behind in the controller or on the bus.
EndedRequestorDrained ==
  turn = Ended =>
    \E id \in Requestors :
      /\ traceLines[id] = 0 /\ pendingRequest[id] = NoRequest
      /\ corePendingData[id] = <<>> /\ NothingInFlight(id)

-----------------------------------------------------------------------------
(* What the channel promises its requestors.                               *)

\* Where the request of a requestor stands, as RequestService sees it.
Stage(id) ==
  IF corePendingData[id] = <<>> THEN "idle"
  ELSE IF requestQueue[id] # <<>> \/ CommandedBursts(id) # {} THEN "queued"
  ELSE "accessed"

Service == INSTANCE RequestService WITH
             Clients <- Requestors,
             stage   <- [id \in Requestors |-> Stage(id)],
             running <- turn # Ended

\* Every step of the channel is a request, a column access or an answer of
\* RequestService, or invisible to the requestors.
ImplementsService == Service!SafeSpec

=============================================================================

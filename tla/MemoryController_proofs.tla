----------------------- MODULE MemoryController_proofs -----------------------
(***************************************************************************)
(* TLAPS proofs about MemoryController, for every number of requestors,    *)
(* every set of addresses, every latency, every size of a request and any  *)
(* schedulers: the type invariant, and the two invariants that make the    *)
(* data buffers' counters work; every unanswered request is where its      *)
(* bursts say it is; and the channel implements RequestService.            *)
(***************************************************************************)
EXTENDS MemoryController, FiniteSetTheorems, TLAPS

\* Counters in the order in which they run out.
Increasing(s) == \A i, j \in DOMAIN s : i < j => s[i] < s[j]

-----------------------------------------------------------------------------
(* Sequences.                                                              *)

\* Removing an element, as erase() does, leaves a sequence of the same type.
LEMMA WithoutType ==
  ASSUME NEW S, NEW s \in Seq(S), NEW i \in DOMAIN s
  PROVE  Without(s, i) \in Seq(S)
  BY DEF Without

\* The decrement of step() keeps the counters unsigned ints, and takes one off
\* each that is not 0.
LEMMA DecrementType ==
  ASSUME NEW s \in Seq(0 .. MaxUnsigned)
  PROVE  /\ DecrementAll(s) \in Seq(0 .. MaxUnsigned)
         /\ Len(DecrementAll(s)) = Len(s) /\ DOMAIN DecrementAll(s) = DOMAIN s
         /\ \A i \in DOMAIN s : s[i] > 0 => DecrementAll(s)[i] = s[i] - 1
  BY ConstantsAssumption DEF DecrementAll, Decrement

\* The decrement of MemorySystem::update takes one off each counter that is
\* not 0.
LEMMA CountdownType ==
  ASSUME NEW s \in Seq(Nat)
  PROVE  /\ Countdown(s) \in Seq(Nat)
         /\ Len(Countdown(s)) = Len(s) /\ DOMAIN Countdown(s) = DOMAIN s
         /\ \A i \in DOMAIN s : s[i] > 0 => Countdown(s)[i] = s[i] - 1
  BY DEF Countdown

\* The front is the least of an increasing sequence of numbers.
LEMMA FrontIsLeast ==
  ASSUME NEW s \in Seq(Nat), Increasing(s), NEW i \in 2 .. Len(s)
  PROVE  s[i] > s[1]
  BY DEF Increasing

\* Popping the front keeps the counters behind it, in order.
LEMMA TailIncreasing ==
  ASSUME NEW S, S \subseteq Nat, NEW s \in Seq(S), Increasing(s), s # <<>>
  PROVE  /\ Tail(s) \in Seq(S)
         /\ Len(Tail(s)) = Len(s) - 1
         /\ \A i \in DOMAIN Tail(s) : Tail(s)[i] = s[i + 1]
         /\ Increasing(Tail(s))
  BY DEF Increasing

\* A latency greater than every counter may join the sequence at the back.
LEMMA AppendIncreasing ==
  ASSUME NEW s \in Seq(Nat), Increasing(s), NEW d \in Nat,
         \A i \in DOMAIN s : s[i] < d
  PROVE  /\ Append(s, d) \in Seq(Nat)
         /\ Increasing(Append(s, d))
         /\ \A i \in DOMAIN Append(s, d) : Append(s, d)[i] <= d
  BY DEF Increasing

\* The counters of step(): if none has run out before its turn, each is
\* decremented without wrapping, and the order survives.
LEMMA SendCounters ==
  ASSUME NEW s \in Seq(0 .. MaxUnsigned), Increasing(s),
         NEW d \in Nat, d <= MaxUnsigned, \A i \in DOMAIN s : s[i] <= d, d > 0
  PROVE  LET ready == s # <<>> /\ Head(s) = 0
             left  == DecrementAll(IF ready THEN Tail(s) ELSE s)
         IN /\ left \in Seq(0 .. MaxUnsigned)
            /\ Len(left) = IF ready THEN Len(s) - 1 ELSE Len(s)
            /\ Increasing(left)
            /\ \A i \in DOMAIN left : left[i] < d
<1> DEFINE ready == s # <<>> /\ Head(s) = 0
           kept  == IF ready THEN Tail(s) ELSE s
<1>1. s \in Seq(Nat)
  BY ConstantsAssumption
<1>2. /\ kept \in Seq(0 .. MaxUnsigned)
      /\ Len(kept) = IF ready THEN Len(s) - 1 ELSE Len(s)
      /\ Increasing(kept)
      /\ \A i \in DOMAIN kept : kept[i] <= d
  <2>1. CASE ready
    <3>1. /\ Tail(s) \in Seq(0 .. MaxUnsigned)
          /\ Len(Tail(s)) = Len(s) - 1
          /\ \A i \in DOMAIN Tail(s) : Tail(s)[i] = s[i + 1]
          /\ Increasing(Tail(s))
      BY <2>1, ConstantsAssumption, TailIncreasing
    <3>. QED  BY <2>1, <3>1
  <2>2. CASE ~ ready
    BY <2>2
  <2>. QED  BY <2>1, <2>2
<1>3. \A i \in DOMAIN kept : kept[i] > 0
  <2>1. CASE ready
    <3>1. \A i \in DOMAIN Tail(s) : Tail(s)[i] = s[i + 1] /\ i + 1 \in 2 .. Len(s)
      BY <2>1, <1>1, TailIncreasing
    <3>2. \A i \in 2 .. Len(s) : s[i] > s[1]
      BY <1>1, FrontIsLeast
    <3>. QED  BY <2>1, <3>1, <3>2
  <2>2. CASE ~ ready
    <3>1. \A i \in 2 .. Len(s) : s[i] > s[1]
      BY <1>1, FrontIsLeast
    <3>. QED  BY <2>2, <3>1, <1>1
  <2>. QED  BY <2>1, <2>2
<1> HIDE DEF kept
<1>4. /\ DecrementAll(kept) \in Seq(0 .. MaxUnsigned)
      /\ Len(DecrementAll(kept)) = Len(kept)
      /\ DOMAIN DecrementAll(kept) = DOMAIN kept
      /\ \A i \in DOMAIN kept : DecrementAll(kept)[i] = kept[i] - 1
  BY <1>2, <1>3, DecrementType
<1>a. DOMAIN kept \subseteq Nat /\ \A i \in DOMAIN kept : kept[i] \in Nat
  BY <1>2, ConstantsAssumption
<1>5. /\ Increasing(DecrementAll(kept))
      /\ \A i \in DOMAIN DecrementAll(kept) : DecrementAll(kept)[i] < d
  BY <1>2, <1>4, <1>a DEF Increasing
<1>. QED  BY <1>2, <1>4, <1>5 DEF kept

\* The counters of MemorySystem::update, of which none has run out before.
LEMMA ReturnCounters ==
  ASSUME NEW s \in Seq(Nat), Increasing(s), NEW d \in Nat,
         \A i \in DOMAIN s : s[i] > 0 /\ s[i] <= d
  PROVE  LET cycles == Countdown(s)
             left   == IF cycles # <<>> /\ Head(cycles) = 0
                       THEN Tail(cycles) ELSE cycles
         IN /\ left \in Seq(Nat)
            /\ Increasing(left)
            /\ \A i \in DOMAIN left : left[i] > 0 /\ left[i] < d
<1> DEFINE cycles == Countdown(s)
           ready  == cycles # <<>> /\ Head(cycles) = 0
           left   == IF ready THEN Tail(cycles) ELSE cycles
<1>1. /\ cycles \in Seq(Nat)
      /\ Len(cycles) = Len(s) /\ DOMAIN cycles = DOMAIN s
      /\ \A i \in DOMAIN s : cycles[i] = s[i] - 1 /\ s[i] \in Nat
      /\ DOMAIN s = 1 .. Len(s) /\ Len(s) \in Nat
  BY CountdownType
<1> HIDE DEF cycles
<1>2. Increasing(cycles) /\ \A i \in DOMAIN cycles : cycles[i] < d
  BY <1>1 DEF Increasing
<1>3. \A i \in 2 .. Len(cycles) : cycles[i] > cycles[1]
  BY <1>1, <1>2, FrontIsLeast
<1>4. CASE ready
  <2>1. /\ Tail(cycles) \in Seq(Nat)
        /\ Len(Tail(cycles)) = Len(cycles) - 1
        /\ \A i \in DOMAIN Tail(cycles) : Tail(cycles)[i] = cycles[i + 1]
        /\ Increasing(Tail(cycles))
    BY <1>1, <1>2, <1>4, TailIncreasing
  <2>2. \A i \in DOMAIN Tail(cycles) : i + 1 \in 2 .. Len(cycles)
    BY <2>1, <1>1
  <2>. QED  BY <1>1, <1>2, <1>3, <1>4, <2>1, <2>2 DEF cycles
<1>5. CASE ~ ready
  <2>1. \A i \in DOMAIN cycles : cycles[i] > 0
    BY <1>1, <1>3, <1>5
  <2>. QED  BY <1>1, <1>2, <1>5, <2>1 DEF cycles
<1>. QED  BY <1>4, <1>5

-----------------------------------------------------------------------------
(* The parts of a step keep the types.                                     *)

\* A search for an address ends at a position of the list.
LEMMA FoundInDomain ==
  ASSUME NEW addrs, NEW addr
  PROVE  Found(addrs, addr) \subseteq DOMAIN addrs
  BY DEF Found

\* The request a burst belongs to is one of the pending requests.
LEMMA OwnerInDomain ==
  ASSUME NEW list, NEW burst
  PROVE  Owner(list, burst) \subseteq DOMAIN list
  BY FoundInDomain DEF Owner

\* returnData leaves a list of addresses, found or not.
LEMMA ReturnDataType ==
  ASSUME corePendingData \in [Requestors -> Seq(Addresses)],
         NEW id \in Requestors, NEW addr, ReturnData(id, addr)
  PROVE  corePendingData' \in [Requestors -> Seq(Addresses)]
<1>1. CASE Found(corePendingData[id], addr) = {}
  BY <1>1 DEF ReturnData
<1>2. CASE Found(corePendingData[id], addr) # {}
  <2>1. PICK i \in DOMAIN corePendingData[id] :
          corePendingData' =
            [corePendingData EXCEPT ![id] = Without(corePendingData[id], i)]
    BY <1>2, FoundInDomain DEF ReturnData
  <2>2. Without(corePendingData[id], i) \in Seq(Addresses)
    BY <2>1, WithoutType
  <2>. QED  BY <2>1, <2>2
<1>. QED  BY <1>1, <1>2

\* A burst leaves requests that still wait for at least one burst.
LEMMA AfterBurstType ==
  ASSUME NEW list \in Seq(Entries), NEW burst
  PROVE  AfterBurst(list, burst) \in Seq(Entries)
<1>1. CASE Owner(list, burst) = {}
  BY <1>1 DEF AfterBurst
<1>2. CASE Owner(list, burst) # {}
  <2> DEFINE i == CHOOSE i \in Owner(list, burst) : TRUE
  <2>1. i \in DOMAIN list
    BY <1>2, OwnerInDomain
  <2>2. AfterBurst(list, burst) = IF list[i].size = 1 THEN Without(list, i)
                                  ELSE [list EXCEPT ![i].size = @ - 1]
    BY <1>2 DEF AfterBurst
  <2> HIDE DEF i
  <2>3. list[i] \in Entries
    BY <2>1
  <2>a. list[i].size # 1 => list[i].size - 1 \in 1 .. BurstsPerRequest
    BY <2>3, ConstantsAssumption DEF Entries
  <2>4. list[i].size # 1 => [list[i] EXCEPT !.size = @ - 1] \in Entries
    BY <2>3, <2>a DEF Entries
  <2>5. list[i].size # 1 => [list EXCEPT ![i].size = @ - 1] \in Seq(Entries)
    BY <2>1, <2>4
  <2>. QED  BY <2>1, <2>2, <2>5, WithoutType
<1>. QED  BY <1>1, <1>2

\* The callback of a completed request touches one requestor's list.
LEMMA CallbackType ==
  ASSUME corePendingData \in [Requestors -> Seq(Addresses)],
         NEW list, NEW burst \in Packets, Callback(list, burst)
  PROVE  corePendingData' \in [Requestors -> Seq(Addresses)]
<1>1. burst.id \in Requestors
  BY DEF Packets
<1>. QED  BY <1>1, ReturnDataType DEF Callback

\* What the OPEN generator makes of a request are packets of its requestor.
LEMMA CommandGenerateType ==
  ASSUME NEW id \in Requestors, NEW req \in Requests, NEW open \in BOOLEAN
  PROVE  CommandGenerate(id, req, open) \in Seq(Packets)
<1> DEFINE packet(t) == [type |-> t, id |-> id,
                         addr |-> BusAddress(req.addr), row |-> RowOf[req.addr]]
           cas == [k \in 1 .. BurstsPerRequest |->
                     packet(IF req.type = "DATA_READ" THEN "RD" ELSE "WR")]
<1>1. BusAddress(req.addr) \in Nat
  <2>1. req.addr \in Nat
    <3>1. req.addr \in Addresses
      BY DEF Requests
    <3>. QED  BY <3>1, ConstantsAssumption
  <2>2. AddressSpan \in Nat /\ AddressSpan > 0
    BY ConstantsAssumption
  <2>. QED  BY <2>1, <2>2 DEF BusAddress
<1>2. RowOf[req.addr] \in Rows
  BY DEF Rows, Requests
<1>3. \A t \in PacketTypes : packet(t) \in Packets
  BY <1>1, <1>2 DEF Packets
<1>4. cas \in Seq(Packets)
  <2>1. {"RD", "WR", "PRE", "ACT_R", "ACT_W"} \subseteq PacketTypes
    BY DEF PacketTypes
  <2> HIDE DEF packet
  <2>2. \A k \in 1 .. BurstsPerRequest :
          packet(IF req.type = "DATA_READ" THEN "RD" ELSE "WR") \in Packets
    BY <1>3, <2>1
  <2>. QED  BY <2>2, ConstantsAssumption
<1>5. <<packet("PRE"),
        packet(IF req.type = "DATA_READ" THEN "ACT_R" ELSE "ACT_W")>> \in Seq(Packets)
  BY <1>3 DEF PacketTypes
<1>6. CommandGenerate(id, req, open) =
        IF open THEN cas
        ELSE <<packet("PRE"),
               packet(IF req.type = "DATA_READ" THEN "ACT_R" ELSE "ACT_W")>> \o cas
  BY DEF CommandGenerate
<1> HIDE DEF cas, packet
<1>. QED  BY <1>4, <1>5, <1>6

\* A command buffer holds packets before and after the request scheduler.
LEMMA GeneratedType ==
  ASSUME TypeOK, NEW chosen \in SUBSET Requesting, NEW hits,
         NEW id \in Requestors
  PROVE  Generated(id, chosen, hits) \in Seq(Packets)
<1>1. commandQueue[id] \in Seq(Packets)
  BY DEF TypeOK
<1>2. CASE id \notin chosen
  BY <1>1, <1>2 DEF Generated
<1>3. CASE id \in chosen
  <2>1. Head(requestQueue[id]) \in Requests
    BY <1>3 DEF TypeOK, Requesting
  <2>2. CommandGenerate(id, Head(requestQueue[id]), id \in hits) \in Seq(Packets)
    <3> DEFINE open == id \in hits
    <3>1. open \in BOOLEAN
      OBVIOUS
    <3> HIDE DEF open
    <3>2. CommandGenerate(id, Head(requestQueue[id]), open) \in Seq(Packets)
      BY <2>1, <3>1, CommandGenerateType
    <3>. QED  BY <3>2 DEF open
  <2>. QED  BY <1>1, <1>3, <2>2 DEF Generated
<1>. QED  BY <1>2, <1>3

-----------------------------------------------------------------------------
(* The inductive invariant.                                                *)

\* The inductive invariant.
IInv == TypeOK /\ WriteCountersOrdered /\ ReadCountersOrdered

\* The part of TypeOK about the data path, which Step and MemoryUpdate change.
PendingTypeOK ==
  /\ corePendingData \in [Requestors -> Seq(Addresses)]
  /\ pendingReadRequest \in [Requestors -> Seq(Entries)]
  /\ pendingWriteRequest \in [Requestors -> Seq(Entries)]

\* sendData keeps the types of the pending requests.
LEMMA SendDataType ==
  ASSUME TypeOK, NEW burst \in Packets, SendData(burst), UNCHANGED pendingReadRequest
  PROVE  PendingTypeOK'
<1>1. burst.id \in Requestors
  BY DEF Packets
<1>2. AfterBurst(pendingWriteRequest[burst.id], burst) \in Seq(Entries)
  BY <1>1, AfterBurstType DEF TypeOK
<1>3. corePendingData' \in [Requestors -> Seq(Addresses)]
  BY CallbackType DEF TypeOK, SendData
<1>. QED  BY <1>1, <1>2, <1>3 DEF TypeOK, SendData, PendingTypeOK

\* receiveData keeps the types of the pending requests.
LEMMA ReceiveDataType ==
  ASSUME TypeOK, NEW burst \in Packets, ReceiveData(burst), UNCHANGED pendingWriteRequest
  PROVE  PendingTypeOK'
<1>1. burst.id \in Requestors
  BY DEF Packets
<1>2. AfterBurst(pendingReadRequest[burst.id], burst) \in Seq(Entries)
  BY <1>1, AfterBurstType DEF TypeOK
<1>3. corePendingData' \in [Requestors -> Seq(Addresses)]
  BY CallbackType DEF TypeOK, ReceiveData
<1>. QED  BY <1>1, <1>2, <1>3 DEF TypeOK, ReceiveData, PendingTypeOK

\* The data part of step(), whether or not it starts from a new write burst.
LEMMA StepDataInv ==
  ASSUME TypeOK,
         NEW buffer \in Seq(Packets), NEW counters \in Seq(0 .. MaxUnsigned),
         Len(buffer) = Len(counters), Increasing(counters),
         \A i \in DOMAIN counters : counters[i] <= tWL + tBus,
         StepData(buffer, counters)
  PROVE  /\ PendingTypeOK'
         /\ sendDataBuffer' \in Seq(Packets)
         /\ sendDataCounter' \in Seq(0 .. MaxUnsigned)
         /\ WriteCountersOrdered'
<1> DEFINE ready == counters # <<>> /\ Head(counters) = 0
           left  == DecrementAll(IF ready THEN Tail(counters) ELSE counters)
<1>1. tWL + tBus \in Nat /\ tWL + tBus > 0 /\ tWL + tBus <= MaxUnsigned
  BY ConstantsAssumption
<1>2. /\ left \in Seq(0 .. MaxUnsigned)
      /\ Len(left) = IF ready THEN Len(counters) - 1 ELSE Len(counters)
      /\ Increasing(left)
      /\ \A i \in DOMAIN left : left[i] < tWL + tBus
  BY <1>1, SendCounters
<1>3. sendDataCounter' = left
  BY DEF StepData
<1>4. CASE ready
  <2>1. Head(buffer) \in Packets /\ Tail(buffer) \in Seq(Packets)
        /\ Len(Tail(buffer)) = Len(buffer) - 1
    BY <1>4
  <2>2. /\ sendDataBuffer' = Tail(buffer)
        /\ SendData(Head(buffer)) /\ UNCHANGED pendingReadRequest
    BY <1>4 DEF StepData
  <2>3. PendingTypeOK'
    BY <2>1, <2>2, SendDataType
  <2>4. Len(sendDataBuffer') = Len(left)
    BY <1>2, <1>4, <2>1, <2>2
  <2> HIDE DEF left
  <2>. QED  BY <1>2, <1>3, <2>1, <2>2, <2>3, <2>4 DEF WriteCountersOrdered, Increasing
<1>5. CASE ~ ready
  <2>1. sendDataBuffer' = buffer /\ UNCHANGED pendingVars
    BY <1>5 DEF StepData
  <2>2. PendingTypeOK'
    BY <2>1 DEF TypeOK, PendingTypeOK, pendingVars
  <2>3. Len(sendDataBuffer') = Len(left)
    BY <1>2, <1>5, <2>1
  <2> HIDE DEF left
  <2>. QED  BY <1>2, <1>3, <2>1, <2>2, <2>3 DEF WriteCountersOrdered, Increasing
<1>. QED  BY <1>4, <1>5

\* requestSchedule() keeps the type of the queues it drains.
LEMMA RequestScheduleType ==
  ASSUME TypeOK, NEW chosen \in SUBSET Requesting, RequestSchedule(chosen)
  PROVE  requestQueue' \in [Requestors -> Seq(Requests)]
<1>1. \A id \in Requestors :
        /\ requestQueue[id] \in Seq(Requests)
        /\ id \in chosen => requestQueue[id] # <<>>
  BY DEF TypeOK, Requesting
<1>2. \A id \in Requestors :
        id \in chosen => Tail(requestQueue[id]) \in Seq(Requests)
  BY <1>1
<1>. QED  BY <1>1, <1>2 DEF RequestSchedule

-----------------------------------------------------------------------------
(* One lemma per group of actions.                                         *)

\* No burst is added, moved or counted down.
Untouched == UNCHANGED <<sendVars, returnVars>>

\* A step that leaves the data buffers alone keeps their counters in order.
LEMMA CountersUntouched ==
  ASSUME IInv, Untouched, turn # NumRequestors + 1
  PROVE  WriteCountersOrdered' /\ ReadCountersOrdered'
<1>1. UNCHANGED <<sendDataBuffer, sendDataCounter, pendingReadData, dataCycles>>
  BY DEF Untouched, sendVars, returnVars
<1>2. WriteCountersOrdered'
  BY <1>1 DEF IInv, WriteCountersOrdered
<1>3. ReadCountersOrdered'
  BY <1>1 DEF IInv, ReadCountersOrdered
<1>. QED  BY <1>2, <1>3

\* readingTraceFile yields a request of the trace, and never reads beyond it.
LEMMA ReadingTraceFileType ==
  ASSUME TypeOK, NEW id \in Requestors, NEW next \in ReadingTraceFile(id)
  PROVE  /\ next \in [type : RequestTypes, addr : Addresses, wait : Nat]
         /\ LinesAfterReading(id) \in [Requestors -> Nat]
<1>1. next \in [type : RequestTypes, addr : Addresses, wait : Nat]
  <2>1. TraceLines \subseteq [type : RequestTypes, addr : Addresses, wait : Nat]
    BY ConstantsAssumption DEF TraceLines
  <2>. QED  BY <2>1 DEF ReadingTraceFile, TypeOK
<1>2. MayRead(id) => traceLines[id] > 0
  BY DEF ReadingTraceFile
<1>3. traceLines \in [Requestors -> Nat]
  BY DEF TypeOK
<1>4. MayRead(id) => traceLines[id] - 1 \in Nat
  BY <1>2, <1>3, ConstantsAssumption
<1>. QED  BY <1>1, <1>3, <1>4 DEF LinesAfterReading

\* A requestor's step is followed by the next requestor's or by step().
LEMMA TurnOfRequestor ==
  ASSUME NEW id \in Requestors, turn = id, turn' = turn + 1
  PROVE  turn' \in 0 .. Ended /\ turn # NumRequestors + 1 /\ turn' # NumRequestors + 1
  BY ConstantsAssumption DEF Requestors, Ended

\* Requestor::update keeps the invariant.
LEMMA UpdateInv ==
  ASSUME IInv, NEW id \in Requestors, Update(id)
  PROVE  IInv'
<1> USE DEF IInv
<1>1. CASE UpdateSend(id)
  <2>1. PICK next \in ReadingTraceFile(id) :
          /\ AddRequest(id, [type |-> next.type, addr |-> next.addr])
          /\ corePendingData' =
               [corePendingData EXCEPT ![id] = Append(@, next.addr)]
    BY <1>1 DEF UpdateSend
  <2> DEFINE req == [type |-> next.type, addr |-> next.addr]
  <2>2. next.type \in RequestTypes /\ next.addr \in Addresses
    BY ReadingTraceFileType
  <2>3. requestQueue' \in [Requestors -> Seq(Requests)]
    <3>1. req \in Requests
      BY <2>2 DEF Requests
    <3>2. requestQueue' = [requestQueue EXCEPT ![id] = Append(@, req)]
      BY <2>1 DEF AddRequest
    <3> HIDE DEF req
    <3>3. Append(requestQueue[id], req) \in Seq(Requests)
      BY <3>1 DEF TypeOK
    <3>. QED  BY <3>2, <3>3 DEF TypeOK
  <2>4. PendingTypeOK'
    <3> DEFINE entry == [addr |-> next.addr, size |-> BurstsPerRequest]
    <3>1. entry \in Entries
      BY <2>2, ConstantsAssumption DEF Entries
    <3> HIDE DEF entry
    <3>2. /\ Append(pendingReadRequest[id], entry) \in Seq(Entries)
          /\ Append(pendingWriteRequest[id], entry) \in Seq(Entries)
      BY <3>1 DEF TypeOK
    <3>3. Append(corePendingData[id], next.addr) \in Seq(Addresses)
      BY <2>2 DEF TypeOK
    <3>4. \/ /\ pendingReadRequest' =
                 [pendingReadRequest EXCEPT ![id] = Append(@, entry)]
             /\ UNCHANGED pendingWriteRequest
          \/ /\ pendingWriteRequest' =
                 [pendingWriteRequest EXCEPT ![id] = Append(@, entry)]
             /\ UNCHANGED pendingReadRequest
      BY <2>1 DEF AddRequest, entry
    <3>. QED  BY <2>1, <3>2, <3>3, <3>4 DEF TypeOK, PendingTypeOK
  <2>5. /\ pendingRequest' = [pendingRequest EXCEPT ![id] = NoRequest]
        /\ traceLines' = LinesAfterReading(id)
        /\ turn = id /\ turn' = turn + 1
        /\ UNCHANGED <<simDone, commandQueue>> /\ Untouched
    BY <1>1 DEF UpdateSend, Untouched
  <2>6. traceLines' \in [Requestors -> Nat]
    BY <2>5, ReadingTraceFileType
  <2>7. WriteCountersOrdered' /\ ReadCountersOrdered'
    BY <2>5, TurnOfRequestor, CountersUntouched
  <2>8. TypeOK'
    BY <2>3, <2>4, <2>5, <2>6, TurnOfRequestor
       DEF TypeOK, PendingTypeOK, Untouched, sendVars, returnVars
  <2>. QED  BY <2>7, <2>8
<1>2. CASE UpdateWait(id)
  <2>1. PICK next \in ReadingTraceFile(id) :
          /\ next.wait > 0
          /\ pendingRequest' =
               [pendingRequest EXCEPT ![id] = [next EXCEPT !.wait = @ - 1]]
    BY <1>2 DEF UpdateWait
  <2>2. [next EXCEPT !.wait = @ - 1]
          \in [type : RequestTypes, addr : Addresses, wait : Nat]
    <3>1. next \in [type : RequestTypes, addr : Addresses, wait : Nat]
      BY ReadingTraceFileType
    <3>2. next.wait - 1 \in Nat
      BY <2>1, <3>1
    <3>. QED  BY <3>1, <3>2
  <2>3. /\ traceLines' = LinesAfterReading(id)
        /\ turn = id /\ turn' = turn + 1
        /\ UNCHANGED <<simDone, queueVars, pendingVars>> /\ Untouched
    BY <1>2 DEF UpdateWait, Untouched
  <2>4. traceLines' \in [Requestors -> Nat]
    BY <2>3, ReadingTraceFileType
  <2>5. WriteCountersOrdered' /\ ReadCountersOrdered'
    BY <2>3, TurnOfRequestor, CountersUntouched
  <2>6. TypeOK'
    BY <2>1, <2>2, <2>3, <2>4, TurnOfRequestor
       DEF TypeOK, Untouched, sendVars, returnVars, queueVars, pendingVars
  <2>. QED  BY <2>5, <2>6
<1>3. CASE UpdateBlocked(id)
  <2>1. /\ turn = id /\ turn' = turn + 1 /\ Untouched
        /\ UNCHANGED <<requestorVars, queueVars, pendingVars>>
    BY <1>3 DEF UpdateBlocked, Untouched
  <2>2. WriteCountersOrdered' /\ ReadCountersOrdered'
    BY <2>1, TurnOfRequestor, CountersUntouched
  <2>3. TypeOK'
    BY <2>1, TurnOfRequestor DEF TypeOK, Untouched, sendVars, returnVars,
       queueVars, pendingVars, requestorVars
  <2>. QED  BY <2>2, <2>3
<1>4. CASE UpdateBlank(id)
  <2>1. /\ turn = id /\ turn' = turn + 1 /\ Untouched
        /\ MayRead(id) /\ traceLines[id] > 0
        /\ traceLines' = [traceLines EXCEPT ![id] = @ - 1]
        /\ UNCHANGED <<simDone, pendingRequest, queueVars, pendingVars>>
    BY <1>4 DEF UpdateBlank, Untouched, LinesAfterReading
  <2>2. traceLines[id] - 1 \in Nat
    BY <2>1, ConstantsAssumption DEF TypeOK
  <2>3. WriteCountersOrdered' /\ ReadCountersOrdered'
    BY <2>1, TurnOfRequestor, CountersUntouched
  <2>4. TypeOK'
    BY <2>1, <2>2, TurnOfRequestor DEF TypeOK, Untouched, sendVars, returnVars,
       queueVars, pendingVars
  <2>. QED  BY <2>3, <2>4
<1>5. CASE UpdateEnd(id)
  <2>1. /\ turn = id /\ turn' = turn + 1 /\ Untouched
        /\ simDone' = TRUE
        /\ traceLines' = [traceLines EXCEPT ![id] = 0]
        /\ UNCHANGED <<pendingRequest, queueVars, pendingVars>>
    BY <1>5 DEF UpdateEnd, Untouched
  <2>2. 0 \in Nat
    BY ConstantsAssumption
  <2>3. WriteCountersOrdered' /\ ReadCountersOrdered'
    BY <2>1, TurnOfRequestor, CountersUntouched
  <2>4. TypeOK'
    BY <2>1, <2>2, TurnOfRequestor DEF TypeOK, Untouched, sendVars, returnVars,
       queueVars, pendingVars
  <2>. QED  BY <2>3, <2>4
<1>. QED  BY <1>1, <1>2, <1>3, <1>4, <1>5 DEF Update

\* MemoryController::step keeps the invariant.
LEMMA StepInv ==
  ASSUME IInv, Step
  PROVE  IInv'
<1> USE DEF IInv
<1>0. PICK chosen \in SUBSET Requesting, hits \in SUBSET Requesting :
        \/ StepNoCommand(chosen, hits)
        \/ \E id \in Requestors : StepCommand(id, chosen, hits)
  BY DEF Step
<1>1. /\ turn = NumRequestors /\ turn' = turn + 1
      /\ RequestSchedule(chosen) /\ UNCHANGED requestorVars
  BY <1>0 DEF StepNoCommand, StepCommand
<1>2. turn' = NumRequestors + 1 /\ turn' \in 0 .. Ended
  BY <1>1, ConstantsAssumption DEF Ended
<1>3. UNCHANGED <<simDone, traceLines, pendingRequest>>
  BY <1>1 DEF requestorVars
<1>4. \A i \in DOMAIN dataCycles :
        dataCycles[i] \in Nat /\ dataCycles[i] > 0 /\ dataCycles[i] < tRL + tBus
  BY <1>1, ConstantsAssumption DEF ReadCountersOrdered, TypeOK
<1>5. /\ sendDataBuffer \in Seq(Packets)
      /\ sendDataCounter \in Seq(0 .. MaxUnsigned)
      /\ Len(sendDataBuffer) = Len(sendDataCounter)
      /\ Increasing(sendDataCounter)
      /\ \A i \in DOMAIN sendDataCounter :
           sendDataCounter[i] \in Nat /\ sendDataCounter[i] < tWL + tBus
  BY ConstantsAssumption DEF TypeOK, WriteCountersOrdered, Increasing
<1>6. tWL + tBus \in 0 .. MaxUnsigned /\ tWL + tBus \in Nat
      /\ tRL + tBus \in Nat /\ tRL + tBus > 0
  BY ConstantsAssumption
<1> DEFINE buffer(id) == Generated(id, chosen, hits)
<1>7. \A id \in Requestors : buffer(id) \in Seq(Packets)
  BY GeneratedType
<1>8. CASE StepNoCommand(chosen, hits)
  <2>1. commandQueue' \in [Requestors -> Seq(Packets)]
    BY <1>7, <1>8 DEF StepNoCommand
  <2>2. /\ PendingTypeOK'
        /\ sendDataBuffer' \in Seq(Packets)
        /\ sendDataCounter' \in Seq(0 .. MaxUnsigned)
        /\ WriteCountersOrdered'
    <3>1. StepData(sendDataBuffer, sendDataCounter)
      BY <1>8 DEF StepNoCommand
    <3>2. \A i \in DOMAIN sendDataCounter : sendDataCounter[i] <= tWL + tBus
      BY <1>5, <1>6
    <3>. QED  BY <3>1, <3>2, <1>5, StepDataInv
  <2>3. UNCHANGED <<pendingReadData, dataCycles>>
    BY <1>8 DEF StepNoCommand, returnVars
  <2>4. ReadCountersOrdered'
    BY <1>2, <1>4, <2>3 DEF ReadCountersOrdered
  <2>5. TypeOK'
    BY <1>1, <1>2, <1>3, <2>1, <2>2, <2>3, RequestScheduleType
       DEF TypeOK, PendingTypeOK
  <2>. QED  BY <2>2, <2>4, <2>5
<1>9. ASSUME NEW id \in Requestors, StepCommand(id, chosen, hits)
      PROVE  IInv'
  <2> DEFINE cmd == Head(buffer(id))
  <2>1. /\ buffer(id) # <<>> /\ GenerateData(cmd)
        /\ commandQueue' = [j \in Requestors |->
             IF j = id THEN Tail(buffer(j)) ELSE buffer(j)]
        /\ IF IsWrite(cmd)
           THEN StepData(Append(sendDataBuffer, cmd),
                         Append(sendDataCounter, tWL + tBus))
           ELSE StepData(sendDataBuffer, sendDataCounter)
    BY <1>9 DEF StepCommand
  <2>2. cmd \in Packets /\ Tail(buffer(id)) \in Seq(Packets)
    BY <2>1, <1>7
  <2> HIDE DEF cmd
  <2>3. commandQueue' \in [Requestors -> Seq(Packets)]
    BY <1>7, <2>1, <2>2
  <2>4. /\ PendingTypeOK'
        /\ sendDataBuffer' \in Seq(Packets)
        /\ sendDataCounter' \in Seq(0 .. MaxUnsigned)
        /\ WriteCountersOrdered'
    <3>1. CASE IsWrite(cmd)
      <4> DEFINE queue == Append(sendDataBuffer, cmd)
                 counters == Append(sendDataCounter, tWL + tBus)
      <4>1. StepData(queue, counters)
        BY <2>1, <3>1
      <4>2. queue \in Seq(Packets) /\ Len(queue) = Len(counters)
        BY <1>5, <2>2
      <4>3. counters \in Seq(0 .. MaxUnsigned)
        BY <1>5, <1>6
      <4>4. Increasing(counters)
            /\ \A i \in DOMAIN counters : counters[i] <= tWL + tBus
        <5>1. sendDataCounter \in Seq(Nat)
          BY <1>5
        <5>. QED  BY <1>5, <1>6, <5>1, AppendIncreasing
      <4> HIDE DEF queue, counters
      <4>. QED  BY <4>1, <4>2, <4>3, <4>4, StepDataInv
    <3>2. CASE ~ IsWrite(cmd)
      <4>1. StepData(sendDataBuffer, sendDataCounter)
        BY <2>1, <3>2
      <4>2. \A i \in DOMAIN sendDataCounter : sendDataCounter[i] <= tWL + tBus
        BY <1>5, <1>6
      <4>. QED  BY <4>1, <4>2, <1>5, StepDataInv
    <3>. QED  BY <3>1, <3>2
  <2>5. /\ pendingReadData' \in Seq(Packets) /\ dataCycles' \in Seq(Nat)
        /\ ReadCountersOrdered'
    <3>1. CASE IsRead(cmd)
      <4>1. /\ pendingReadData' = Append(pendingReadData, cmd)
            /\ dataCycles' = Append(dataCycles, tRL + tBus)
        BY <2>1, <3>1 DEF GenerateData
      <4>2. /\ pendingReadData \in Seq(Packets) /\ dataCycles \in Seq(Nat)
            /\ Len(dataCycles) = Len(pendingReadData) /\ Increasing(dataCycles)
        BY DEF TypeOK, ReadCountersOrdered, Increasing
      <4>3. /\ dataCycles' \in Seq(Nat) /\ Increasing(dataCycles')
            /\ Len(dataCycles') = Len(pendingReadData')
        BY <4>1, <4>2, <1>4, <1>6, AppendIncreasing
      <4>4. \A i \in DOMAIN dataCycles' :
              /\ dataCycles'[i] > 0
              /\ dataCycles'[i] < tRL + tBus \/ dataCycles'[i] = tRL + tBus
        BY <4>1, <4>2, <1>4, <1>6
      <4>5. pendingReadData' \in Seq(Packets)
        BY <4>1, <4>2, <2>2
      <4>. QED  BY <4>3, <4>4, <4>5, <1>2 DEF ReadCountersOrdered, Increasing
    <3>2. CASE ~ IsRead(cmd)
      <4>1. UNCHANGED <<pendingReadData, dataCycles>>
        BY <2>1, <3>2 DEF GenerateData, returnVars
      <4>. QED  BY <4>1, <1>2, <1>4 DEF TypeOK, ReadCountersOrdered
    <3>. QED  BY <3>1, <3>2
  <2>6. TypeOK'
    BY <1>1, <1>2, <1>3, <2>3, <2>4, <2>5, RequestScheduleType
       DEF TypeOK, PendingTypeOK
  <2>. QED  BY <2>4, <2>5, <2>6
<1>. QED  BY <1>0, <1>8, <1>9

\* MemorySystem::update keeps the invariant.
LEMMA MemoryUpdateInv ==
  ASSUME IInv, MemoryUpdate
  PROVE  IInv'
<1> USE DEF IInv
<1> DEFINE cycles == Countdown(dataCycles)
           ready  == cycles # <<>> /\ Head(cycles) = 0
           left   == IF ready THEN Tail(cycles) ELSE cycles
<1>1. /\ dataCycles \in Seq(Nat) /\ Increasing(dataCycles)
      /\ \A i \in DOMAIN dataCycles :
           dataCycles[i] > 0 /\ dataCycles[i] <= tRL + tBus
      /\ tRL + tBus \in Nat
  <2>1. tRL + tBus \in Nat
    BY ConstantsAssumption
  <2>2. dataCycles \in Seq(Nat) /\ Increasing(dataCycles)
    BY DEF TypeOK, ReadCountersOrdered, Increasing
  <2>3. \A i \in DOMAIN dataCycles :
          dataCycles[i] > 0 /\ dataCycles[i] <= tRL + tBus
    BY <2>1, <2>2 DEF ReadCountersOrdered
  <2>. QED  BY <2>1, <2>2, <2>3
<1>2. /\ left \in Seq(Nat) /\ Increasing(left)
      /\ \A i \in DOMAIN left : left[i] > 0 /\ left[i] < tRL + tBus
  BY <1>1, ReturnCounters
<1>3. /\ cycles \in Seq(Nat) /\ Len(cycles) = Len(pendingReadData)
      /\ pendingReadData \in Seq(Packets)
  BY <1>1, CountdownType DEF ReadCountersOrdered, TypeOK
<1>4. /\ turn' \in 0 .. Ended
      /\ UNCHANGED <<requestorVars, queueVars, sendVars>>
  BY ConstantsAssumption DEF MemoryUpdate, Ended
<1>5. /\ PendingTypeOK' /\ dataCycles' = left
      /\ pendingReadData' \in Seq(Packets) /\ Len(dataCycles') = Len(pendingReadData')
  <2>1. CASE ready
    <3>1. pendingReadData # <<>>
      BY <1>3, <2>1
    <3>2. Head(pendingReadData) \in Packets /\ Tail(pendingReadData) \in Seq(Packets)
          /\ Len(Tail(pendingReadData)) = Len(Tail(cycles))
      BY <1>3, <2>1, <3>1
    <3>3. /\ dataCycles' = Tail(cycles)
          /\ pendingReadData' = Tail(pendingReadData)
          /\ ReceiveData(Head(pendingReadData)) /\ UNCHANGED pendingWriteRequest
      BY <2>1, <3>1 DEF MemoryUpdate
    <3>4. PendingTypeOK'
      BY <3>2, <3>3, ReceiveDataType
    <3>. QED  BY <2>1, <3>2, <3>3, <3>4
  <2>2. CASE ~ ready
    <3>1. ~ (pendingReadData # <<>> /\ Head(cycles) = 0)
      BY <1>3, <2>2
    <3>2. dataCycles' = cycles /\ UNCHANGED <<pendingReadData, pendingVars>>
      BY <3>1 DEF MemoryUpdate
    <3>. QED  BY <1>3, <2>2, <3>2 DEF TypeOK, PendingTypeOK, pendingVars
  <2>. QED  BY <2>1, <2>2
<1> HIDE DEF left
<1>6. ReadCountersOrdered'
  BY <1>2, <1>5 DEF ReadCountersOrdered, Increasing
<1>7. WriteCountersOrdered'
  BY <1>4 DEF WriteCountersOrdered, sendVars
<1>8. TypeOK'
  BY <1>2, <1>4, <1>5
     DEF TypeOK, PendingTypeOK, requestorVars, queueVars, sendVars
<1>. QED  BY <1>6, <1>7, <1>8

-----------------------------------------------------------------------------
(* The theorems.                                                           *)

\* The channel main builds satisfies the invariant.
LEMMA InitInv ==
  ASSUME Init
  PROVE  IInv
<1>1. 0 \in 0 .. Ended /\ TraceLength \in [Requestors -> Nat]
  BY ConstantsAssumption DEF Ended
<1>2. TypeOK
  <2>1. /\ turn \in 0 .. Ended /\ simDone \in BOOLEAN
        /\ traceLines \in [Requestors -> Nat]
    BY <1>1 DEF Init
  <2>2. pendingRequest \in [Requestors ->
          [type : RequestTypes, addr : Addresses, wait : Nat] \cup {NoRequest}]
    BY DEF Init
  <2>3. \A S : <<>> \in Seq(S)
    OBVIOUS
  <2>4. /\ corePendingData \in [Requestors -> Seq(Addresses)]
        /\ requestQueue \in [Requestors -> Seq(Requests)]
        /\ pendingReadRequest \in [Requestors -> Seq(Entries)]
        /\ pendingWriteRequest \in [Requestors -> Seq(Entries)]
        /\ commandQueue \in [Requestors -> Seq(Packets)]
    BY <2>3 DEF Init
  <2>5. /\ sendDataBuffer \in Seq(Packets)
        /\ sendDataCounter \in Seq(0 .. MaxUnsigned)
        /\ pendingReadData \in Seq(Packets) /\ dataCycles \in Seq(Nat)
    BY <2>3 DEF Init
  <2>. QED  BY <2>1, <2>2, <2>4, <2>5 DEF TypeOK
<1>3. WriteCountersOrdered /\ ReadCountersOrdered
  BY DEF Init, WriteCountersOrdered, ReadCountersOrdered
<1>. QED  BY <1>2, <1>3 DEF IInv

\* Every step of the channel keeps the invariant.
LEMMA NextInv ==
  ASSUME IInv, [Next]_vars
  PROVE  IInv'
<1>1. CASE Next
  <2>1. CASE \E id \in Requestors : Update(id)
    BY <2>1, UpdateInv
  <2>2. CASE Step
    BY <2>2, StepInv
  <2>3. CASE MemoryUpdate
    BY <2>3, MemoryUpdateInv
  <2>4. CASE Exit
    BY <2>4 DEF Exit, vars, requestorVars, queueVars, sendVars, returnVars,
       pendingVars, IInv, TypeOK, WriteCountersOrdered, ReadCountersOrdered
  <2>. QED  BY <1>1, <2>1, <2>2, <2>3, <2>4 DEF Next
<1>2. CASE UNCHANGED vars
  BY <1>2 DEF vars, requestorVars, queueVars, sendVars, returnVars,
     pendingVars, IInv, TypeOK, WriteCountersOrdered, ReadCountersOrdered
<1>. QED  BY <1>1, <1>2

\* Whatever the scheduler issues, every queue of the channel holds what the
\* code's declarations say, and the two invariants below hold with it.
THEOREM Invariance == Spec => []IInv
  BY InitInv, NextInv, PTL DEF Spec

\* Every variable of the channel keeps its type: a burst that leaves a buffer
\* belongs to a requestor of the system, and no pending request waits for
\* fewer than one burst.
THEOREM TypeCorrect == Spec => []TypeOK
  BY Invariance, PTL DEF IInv

\* step() never decrements a send counter that is 0, in whatever cycles the
\* scheduler issues writes: no write burst is delayed by the one before it.
THEOREM WriteBurstsLeaveInTime == Spec => []WriteCountersOrdered
  BY Invariance, PTL DEF IInv

\* update() never leaves a read burst behind whose latency is over, in
\* whatever cycles the scheduler issues reads, though it returns at most
\* one burst per cycle.
THEOREM ReadBurstsReturnInTime == Spec => []ReadCountersOrdered
  BY Invariance, PTL DEF IInv

-----------------------------------------------------------------------------
(* Counting in sequences.                                                  *)

\* The positions of the elements of s that are in S.
Positions(s, S) == {k \in DOMAIN s : s[k] \in S}

\* A sequence has finitely many positions.
LEMMA PositionsFinite ==
  ASSUME NEW X, NEW s \in Seq(X), NEW S
  PROVE  /\ Positions(s, S) \subseteq 1 .. Len(s)
         /\ IsFiniteSet(Positions(s, S))
         /\ Cardinality(Positions(s, S)) \in Nat
<1>1. Positions(s, S) \subseteq 1 .. Len(s)
  BY DEF Positions
<1>2. IsFiniteSet(1 .. Len(s))
  BY FS_Interval
<1>. QED  BY <1>1, <1>2, FS_Subset, FS_CardinalityType

\* A new element at the back is counted if it is in S.
LEMMA PositionsAppend ==
  ASSUME NEW X, NEW s \in Seq(X), NEW x, NEW S
  PROVE  /\ x \in S => Cardinality(Positions(Append(s, x), S)) =
                       Cardinality(Positions(s, S)) + 1
         /\ x \notin S => Positions(Append(s, x), S) = Positions(s, S)
<1>1. /\ DOMAIN Append(s, x) = 1 .. Len(s) + 1
      /\ \A k \in 1 .. Len(s) : Append(s, x)[k] = s[k]
      /\ Append(s, x)[Len(s) + 1] = x
      /\ DOMAIN s = 1 .. Len(s) /\ Len(s) \in Nat
  OBVIOUS
<1>2. x \notin S => Positions(Append(s, x), S) = Positions(s, S)
  BY <1>1 DEF Positions
<1>3. ASSUME x \in S
      PROVE  Cardinality(Positions(Append(s, x), S)) = Cardinality(Positions(s, S)) + 1
  <2>1. Positions(Append(s, x), S) = Positions(s, S) \cup {Len(s) + 1}
    BY <1>1, <1>3 DEF Positions
  <2>2. Len(s) + 1 \notin Positions(s, S)
    BY <1>1 DEF Positions
  <2>. QED  BY <2>1, <2>2, PositionsFinite, FS_AddElement
<1>. QED  BY <1>2, <1>3

\* Without its front, one element less is counted if the front is in S.
LEMMA PositionsTail ==
  ASSUME NEW X, NEW s \in Seq(X), s # <<>>, NEW S
  PROVE  Cardinality(Positions(Tail(s), S)) =
           IF Head(s) \in S THEN Cardinality(Positions(s, S)) - 1
                            ELSE Cardinality(Positions(s, S))
<1> DEFINE K == Positions(Tail(s), S)
           J == Positions(s, S) \ {1}
           f == [k \in K |-> k + 1]
<1>1. /\ DOMAIN Tail(s) = 1 .. Len(s) - 1 /\ DOMAIN s = 1 .. Len(s)
      /\ \A k \in 1 .. Len(s) - 1 : Tail(s)[k] = s[k + 1]
      /\ Tail(s) \in Seq(X) /\ Len(s) \in Nat \ {0} /\ Head(s) = s[1]
  OBVIOUS
<1>2. \A k \in K : k \in 1 .. Len(s) - 1 /\ k + 1 \in J
  BY <1>1 DEF Positions
<1>3. \A j \in J : j - 1 \in K /\ j \in Int
  BY <1>1 DEF Positions
<1>4. f \in Bijection(K, J)
  <2>1. f \in [K -> J]
    BY <1>2
  <2>2. \A a, b \in K : f[a] = f[b] => a = b
    BY <1>2
  <2>3. \A j \in J : \E k \in K : f[k] = j
    <3>1. \A j \in J : f[j - 1] = j
      BY <1>3
    <3>. QED  BY <1>3, <3>1
  <2> HIDE DEF f, K, J
  <2>. QED  BY <2>1, <2>2, <2>3 DEF Bijection, Injection, IsInjective, Surjection
<1>5. IsFiniteSet(K) /\ IsFiniteSet(Positions(s, S))
  BY <1>1, PositionsFinite
<1>6. Cardinality(J) = Cardinality(K)
  BY <1>4, <1>5, FS_Bijection DEF ExistsBijection
<1>7. 1 \in Positions(s, S) <=> Head(s) \in S
  BY <1>1 DEF Positions
<1>. QED  BY <1>5, <1>6, <1>7, FS_RemoveElement

\* Without elements in S there is nothing to count.
LEMMA PositionsNone ==
  ASSUME NEW X, NEW s \in Seq(X), NEW S
  PROVE  Cardinality(Positions(s, S)) = 0 <=> Positions(s, S) = {}
  BY PositionsFinite, FS_EmptySet

\* The elements of two sequences, one after the other.
LEMMA Concatenation ==
  ASSUME NEW X, NEW p \in Seq(X), NEW q \in Seq(X)
  PROVE  /\ p \o q \in Seq(X) /\ Len(p \o q) = Len(p) + Len(q)
         /\ \A k \in 1 .. Len(p) : (p \o q)[k] = p[k]
         /\ \A k \in Len(p) + 1 .. Len(p) + Len(q) : (p \o q)[k] = q[k - Len(p)]
  OBVIOUS

-----------------------------------------------------------------------------
(* One requestor and what belongs to it.  A view is what the requestor has *)
(* asked for, by the direction of the data: `own' the pending requests,    *)
(* `data' the bursts on their way, `core' the unanswered addresses,        *)
(* `asked' its request queue, `cmds' its commands.                         *)

\* The column accesses of a request in direction t.
Carries(t, cmd) == IF t = "DATA_READ" THEN IsRead(cmd) ELSE IsWrite(cmd)

\* These, and the packets of requestor id.
Casts(t) == {p \in Packets : Carries(t, p)}
Mine(id) == {p \in Packets : p.id = id}

\* What the generator makes of a request in direction t of requestor id.
CommandsOf(id, t, a) ==
  {p \in Packets : /\ p.id = id /\ p.addr = a
                   /\ p.type \in {"PRE", "ACT_R", "ACT_W",
                                  IF t = "DATA_READ" THEN "RD" ELSE "WR"}}

\* Nothing is asked for and nothing is on its way.
Idle(id, v) ==
  /\ v.own = [t \in RequestTypes |-> <<>>]
  /\ v.core = <<>> /\ v.asked = <<>> /\ v.cmds = <<>>
  /\ \A t \in RequestTypes : Positions(v.data[t], Mine(id)) = {}

\* A request of address a in direction t, still waiting for n bursts.
Unanswered(id, t, a, n, v) ==
  /\ v.own = [u \in RequestTypes |-> IF u = t THEN <<[addr |-> a, size |-> n]>> ELSE <<>>]
  /\ v.core = <<a>>
  /\ \A u \in RequestTypes \ {t} : Positions(v.data[u], Mine(id)) = {}

\* It is not yet scheduled.
Queued(id, t, a, n, v) ==
  /\ v.asked = <<[type |-> t, addr |-> a]>> /\ v.cmds = <<>>
  /\ n = BurstsPerRequest
  /\ Positions(v.data[t], Mine(id)) = {}

\* A burst is commanded or on its way for each that it waits for.
Commanded(id, t, a, n, v) ==
  /\ v.asked = <<>> /\ v.cmds \in Seq(CommandsOf(id, t, a))
  /\ n = Cardinality(Positions(v.cmds, Casts(t)))
         + Cardinality(Positions(v.data[t], Mine(id)))
  /\ v.cmds # <<>> => Carries(t, v.cmds[Len(v.cmds)])
  /\ \A k \in Positions(v.data[t], Mine(id)) : v.data[t][k].addr = a

\* It is in one of the two places.
Placed(id, t, a, n, v) ==
  Unanswered(id, t, a, n, v) /\ (Queued(id, t, a, n, v) \/ Commanded(id, t, a, n, v))

\* The view of a requestor is one of these.
Accounted(id, v) ==
  \/ Idle(id, v)
  \/ \E t \in RequestTypes, a \in Addresses, n \in 1 .. BurstsPerRequest :
       Placed(id, t, a, n, v)

\* The data of every requestor.
DataOK(v) == v.data \in [RequestTypes -> Seq(Packets)]

\* No address of a trace is longer than that of a packet.
NoAddressCut == \A a \in Addresses : a < AddressSpan

-----------------------------------------------------------------------------
(* Scheduling a request.                                                   *)

\* The commands for a request: as many column accesses as it has bursts, the
\* last command among them.
LEMMA CommandGenerateCounts ==
  ASSUME NoAddressCut, NEW id \in Requestors, NEW t \in RequestTypes,
         NEW a \in Addresses, NEW open \in BOOLEAN
  PROVE  LET s == CommandGenerate(id, [type |-> t, addr |-> a], open)
         IN /\ s \in Seq(CommandsOf(id, t, a))
            /\ Cardinality(Positions(s, Casts(t))) = BurstsPerRequest
            /\ s # <<>> /\ Carries(t, s[Len(s)])
<1> DEFINE B == BurstsPerRequest
           packet(x) == [type |-> x, id |-> id, addr |-> a, row |-> RowOf[a]]
           cas == [k \in 1 .. B |-> packet(IF t = "DATA_READ" THEN "RD" ELSE "WR")]
           pre == <<packet("PRE"), packet(IF t = "DATA_READ" THEN "ACT_R" ELSE "ACT_W")>>
           s == CommandGenerate(id, [type |-> t, addr |-> a], open)
<1> SUFFICES /\ s \in Seq(CommandsOf(id, t, a))
             /\ Cardinality(Positions(s, Casts(t))) = B
             /\ s # <<>> /\ Carries(t, s[Len(s)])
  OBVIOUS
<1>1. BusAddress(a) = a /\ B \in Nat \ {0} /\ a \in Nat
  BY ConstantsAssumption DEF NoAddressCut, BusAddress
<1>2. s = IF open THEN cas ELSE pre \o cas
  BY <1>1 DEF CommandGenerate
<1>3. \A x \in PacketTypes : packet(x) \in Packets
  BY <1>1 DEF Packets, Rows
<1>4. /\ packet("RD") \in Packets /\ packet("WR") \in Packets /\ packet("PRE") \in Packets
      /\ packet("ACT_R") \in Packets /\ packet("ACT_W") \in Packets
  BY <1>3 DEF PacketTypes
<1>5. \A k \in 1 .. B : cas[k] \in CommandsOf(id, t, a) /\ cas[k] \in Casts(t)
  BY <1>4 DEF CommandsOf, Casts, Carries, IsRead, IsWrite, RequestTypes
<1>6. \A k \in 1 .. 2 : pre[k] \in CommandsOf(id, t, a) /\ pre[k] \notin Casts(t)
  BY <1>4 DEF CommandsOf, Casts, Carries, IsRead, IsWrite, RequestTypes
<1>7. Len(cas) = B /\ DOMAIN cas = 1 .. B /\ Len(pre) = 2
  BY <1>1
<1> HIDE DEF cas, pre, s
<1>10. cas \in Seq(CommandsOf(id, t, a)) /\ pre \in Seq(CommandsOf(id, t, a))
  BY <1>1, <1>5, <1>6, <1>7 DEF cas, pre
<1>8. CASE open
  <2>1. s = cas
    BY <1>2, <1>8
  <2>2. Positions(s, Casts(t)) = 1 .. B
    BY <2>1, <1>5, <1>7 DEF Positions
  <2>3. s \in Seq(CommandsOf(id, t, a)) /\ Len(s) = B /\ s # <<>>
    BY <2>1, <1>1, <1>5, <1>7, <1>10
  <2>4. Cardinality(1 .. B) = B
    BY <1>1, FS_Interval
  <2>. QED  BY <2>1, <2>2, <2>3, <2>4, <1>1, <1>5 DEF Casts
<1>9. CASE ~ open
  <2>1. s = pre \o cas
    BY <1>2, <1>9
  <2>2. /\ s \in Seq(CommandsOf(id, t, a)) /\ Len(s) = 2 + B
        /\ \A k \in 1 .. 2 : s[k] = pre[k]
        /\ \A k \in 3 .. 2 + B : s[k] = cas[k - 2]
    <3> DEFINE X == CommandsOf(id, t, a)
    <3>1. cas \in Seq(X) /\ pre \in Seq(X)
      BY <1>10
    <3> HIDE DEF X
    <3>2. /\ s \in Seq(X) /\ Len(s) = Len(pre) + Len(cas)
          /\ \A k \in 1 .. Len(pre) : s[k] = pre[k]
          /\ \A k \in Len(pre) + 1 .. Len(pre) + Len(cas) : s[k] = cas[k - Len(pre)]
      BY <3>1, <2>1, Concatenation
    <3>3. Len(pre) + 1 = 3 /\ Len(pre) + Len(cas) = 2 + B
      BY <1>1, <1>7
    <3>4. s \in Seq(X) /\ Len(s) = 2 + B
      BY <3>2, <3>3
    <3>5. \A k \in 1 .. 2 : s[k] = pre[k]
      BY <3>2, <1>7
    <3>6. \A k \in 3 .. 2 + B : s[k] = cas[k - 2]
      BY <3>2, <3>3, <1>7
    <3>. QED  BY <3>4, <3>5, <3>6 DEF X
  <2>3. Positions(s, Casts(t)) = 3 .. 2 + B
    <3>1. \A k \in 3 .. 2 + B : k - 2 \in 1 .. B
      BY <1>1
    <3>2. \A k \in 3 .. 2 + B : s[k] \in Casts(t)
      BY <2>2, <1>5, <3>1
    <3>3. \A k \in 1 .. 2 : s[k] \notin Casts(t)
      BY <2>2, <1>6
    <3>4. DOMAIN s = 1 .. 2 + B
      BY <2>2
    <3>5. \A k \in 1 .. 2 + B : k \in 1 .. 2 \/ k \in 3 .. 2 + B
      BY <1>1
    <3>. QED  BY <1>1, <3>2, <3>3, <3>4, <3>5 DEF Positions
  <2>4. Cardinality(3 .. 2 + B) = B
    BY <1>1, FS_Interval
  <2>5. Carries(t, s[Len(s)])
    <3>1. Len(s) \in 3 .. 2 + B /\ Len(s) - 2 \in 1 .. B
      BY <1>1, <2>2
    <3>. QED  BY <2>2, <3>1, <1>5 DEF Casts
  <2>. QED  BY <2>2, <2>3, <2>4, <2>5, <1>1
<1>. QED  BY <1>8, <1>9

\* The oldest request of a requestor becomes commands.
LEMMA ScheduleAccounted ==
  ASSUME NoAddressCut, NEW id \in Requestors, NEW open \in BOOLEAN,
         NEW v, DataOK(v), Accounted(id, v), v.asked # <<>>,
         NEW w, w.own = v.own, w.core = v.core, w.data = v.data,
         w.asked = Tail(v.asked),
         w.cmds = v.cmds \o CommandGenerate(id, Head(v.asked), open)
  PROVE  Accounted(id, w)
<1>1. PICK t \in RequestTypes, a \in Addresses, n \in 1 .. BurstsPerRequest :
        Unanswered(id, t, a, n, v) /\ Queued(id, t, a, n, v)
  BY DEF Accounted, Idle, Placed, Commanded
<1>2. /\ v.asked = <<[type |-> t, addr |-> a]>> /\ v.cmds = <<>>
      /\ n = BurstsPerRequest
      /\ Positions(v.data[t], Mine(id)) = {} /\ v.data[t] \in Seq(Packets)
  BY <1>1 DEF Queued, DataOK
<1> DEFINE s == CommandGenerate(id, [type |-> t, addr |-> a], open)
<1>3. /\ s \in Seq(CommandsOf(id, t, a))
      /\ Cardinality(Positions(s, Casts(t))) = n
      /\ s # <<>> /\ Carries(t, s[Len(s)])
  BY <1>2, CommandGenerateCounts
<1>4. w.asked = <<>> /\ w.cmds = s
  <2>1. Head(v.asked) = [type |-> t, addr |-> a] /\ Tail(v.asked) = <<>>
    BY <1>2
  <2> HIDE DEF s
  <2>2. <<>> \o s = s
    BY <1>3
  <2>. QED  BY <1>2, <2>1, <2>2 DEF s
<1> HIDE DEF s
<1>5. Cardinality(Positions(v.data[t], Mine(id))) = 0
  BY <1>2, PositionsNone
<1>6. Commanded(id, t, a, n, w)
  <2>1. n \in Nat
    BY ConstantsAssumption
  <2>. QED  BY <1>2, <1>3, <1>4, <1>5, <2>1 DEF Commanded
<1>7. Unanswered(id, t, a, n, w)
  BY <1>1 DEF Unanswered
<1>. QED  BY <1>6, <1>7 DEF Accounted, Placed

-----------------------------------------------------------------------------
(* Sending a command.                                                      *)

\* The data a column access puts on its way.
DataWith(data, cmd) ==
  [u \in RequestTypes |-> IF Carries(u, cmd) THEN Append(data[u], cmd) ELSE data[u]]

\* A command that is sent leaves lists of packets.
LEMMA SentType ==
  ASSUME NEW v, DataOK(v), NEW cmd \in Packets, NEW w, w.data = DataWith(v.data, cmd)
  PROVE  DataOK(w)
<1>1. \A u \in RequestTypes : v.data[u] \in Seq(Packets)
  BY DEF DataOK
<1>2. \A u \in RequestTypes : Append(v.data[u], cmd) \in Seq(Packets)
  BY <1>1
<1>. QED  BY <1>1, <1>2 DEF DataOK, DataWith

\* The first command of a requestor is sent.
LEMMA SendAccounted ==
  ASSUME NEW id \in Requestors, NEW v, DataOK(v), Accounted(id, v), v.cmds # <<>>,
         NEW w, w.own = v.own, w.core = v.core, w.asked = v.asked,
         w.cmds = Tail(v.cmds), w.data = DataWith(v.data, Head(v.cmds))
  PROVE  Accounted(id, w)
<1> DEFINE cmd == Head(v.cmds)
<1>1. PICK t \in RequestTypes, a \in Addresses, n \in 1 .. BurstsPerRequest :
        Unanswered(id, t, a, n, v) /\ Commanded(id, t, a, n, v)
  BY DEF Accounted, Idle, Placed, Queued
<1>2. /\ v.asked = <<>> /\ v.cmds \in Seq(CommandsOf(id, t, a))
      /\ n = Cardinality(Positions(v.cmds, Casts(t)))
             + Cardinality(Positions(v.data[t], Mine(id)))
      /\ Carries(t, v.cmds[Len(v.cmds)])
      /\ \A k \in Positions(v.data[t], Mine(id)) : v.data[t][k].addr = a
      /\ \A u \in RequestTypes : v.data[u] \in Seq(Packets)
  BY <1>1 DEF Commanded, DataOK
<1>3. cmd \in CommandsOf(id, t, a) /\ Tail(v.cmds) \in Seq(CommandsOf(id, t, a))
  BY <1>2
<1>4. cmd \in Packets /\ cmd.id = id /\ cmd.addr = a /\ cmd \in Mine(id)
      /\ (cmd \in Casts(t) <=> Carries(t, cmd))
      /\ \A u \in RequestTypes : Carries(u, cmd) => u = t
  <2> HIDE DEF cmd
  <2>1. cmd \in Packets /\ cmd.id = id /\ cmd.addr = a
    BY <1>3 DEF CommandsOf
  <2>2. \A u \in RequestTypes : Carries(u, cmd) => u = t
    BY <1>3 DEF CommandsOf, Carries, IsRead, IsWrite, RequestTypes
  <2>. QED  BY <2>1, <2>2 DEF Mine, Casts
<1>5. \A u \in RequestTypes \ {t} : w.data[u] = v.data[u]
  BY <1>4 DEF DataWith
<1>6. w.data[t] = IF Carries(t, cmd) THEN Append(v.data[t], cmd) ELSE v.data[t]
  BY DEF DataWith
<1> DEFINE c == Cardinality(Positions(v.cmds, Casts(t)))
           d == Cardinality(Positions(v.data[t], Mine(id)))
<1>7. c \in Nat /\ d \in Nat
  BY <1>2, PositionsFinite
<1>8. Cardinality(Positions(Tail(v.cmds), Casts(t))) =
        IF Carries(t, cmd) THEN c - 1 ELSE c
  BY <1>2, <1>4, PositionsTail
<1> HIDE DEF cmd
<1>9. Cardinality(Positions(w.data[t], Mine(id))) =
        IF Carries(t, cmd) THEN d + 1 ELSE d
  <2>1. Cardinality(Positions(Append(v.data[t], cmd), Mine(id))) = d + 1
    BY <1>2, <1>4, PositionsAppend
  <2>. QED  BY <1>6, <2>1
<1>10. \A k \in Positions(w.data[t], Mine(id)) : w.data[t][k].addr = a
  <2>1. CASE Carries(t, cmd)
    <3>1. /\ DOMAIN w.data[t] = 1 .. Len(v.data[t]) + 1
          /\ \A k \in 1 .. Len(v.data[t]) : w.data[t][k] = v.data[t][k]
          /\ w.data[t][Len(v.data[t]) + 1] = cmd
          /\ DOMAIN v.data[t] = 1 .. Len(v.data[t]) /\ Len(v.data[t]) \in Nat
      BY <1>2, <1>4, <1>6, <2>1
    <3>2. \A k \in 1 .. Len(v.data[t]) + 1 :
            k \in 1 .. Len(v.data[t]) \/ k = Len(v.data[t]) + 1
      BY <3>1
    <3>. QED  BY <1>2, <1>4, <3>1, <3>2 DEF Positions
  <2>2. CASE ~ Carries(t, cmd)
    BY <1>2, <1>6, <2>2
  <2>. QED  BY <2>1, <2>2
<1>11. w.cmds # <<>> => Carries(t, w.cmds[Len(w.cmds)])
  <2>1. ASSUME Tail(v.cmds) # <<>>
        PROVE  Tail(v.cmds)[Len(Tail(v.cmds))] = v.cmds[Len(v.cmds)]
    BY <1>2, <2>1
  <2>. QED  BY <1>2, <2>1
<1>12. Commanded(id, t, a, n, w)
  <2>1. n = Cardinality(Positions(w.cmds, Casts(t)))
            + Cardinality(Positions(w.data[t], Mine(id)))
    BY <1>2, <1>7, <1>8, <1>9
  <2>. QED  BY <1>2, <1>3, <1>10, <1>11, <2>1 DEF Commanded
<1>13. Unanswered(id, t, a, n, w)
  BY <1>1, <1>5 DEF Unanswered
<1>. QED  BY <1>12, <1>13 DEF Accounted, Placed

\* The data of a requestor stays where it is, by number and by address.
SameData(id, old, new) ==
  \A u \in RequestTypes :
    /\ Cardinality(Positions(new[u], Mine(id))) = Cardinality(Positions(old[u], Mine(id)))
    /\ \A k \in Positions(new[u], Mine(id)) :
         \E j \in Positions(old[u], Mine(id)) : new[u][k] = old[u][j]

\* What another requestor does leaves a requestor as it is.
LEMMA OtherAccounted ==
  ASSUME NEW id \in Requestors, NEW v, DataOK(v), Accounted(id, v),
         NEW w, w.own = v.own, w.core = v.core, w.asked = v.asked, w.cmds = v.cmds,
         DataOK(w), SameData(id, v.data, w.data)
  PROVE  Accounted(id, w)
<1>1. \A u \in RequestTypes : v.data[u] \in Seq(Packets) /\ w.data[u] \in Seq(Packets)
  BY DEF DataOK
<1>2. \A u \in RequestTypes :
        Positions(v.data[u], Mine(id)) = {} => Positions(w.data[u], Mine(id)) = {}
  BY <1>1, PositionsNone DEF SameData
<1>3. CASE Idle(id, v)
  BY <1>2, <1>3 DEF Idle, Accounted
<1>4. ASSUME NEW t \in RequestTypes, NEW a \in Addresses, NEW n \in 1 .. BurstsPerRequest,
             Placed(id, t, a, n, v)
      PROVE  Placed(id, t, a, n, w)
  <2>1. Unanswered(id, t, a, n, w)
    BY <1>2, <1>4 DEF Placed, Unanswered
  <2>2. Queued(id, t, a, n, v) => Queued(id, t, a, n, w)
    BY <1>2 DEF Queued
  <2>3. Commanded(id, t, a, n, v) => Commanded(id, t, a, n, w)
    BY DEF Commanded, SameData
  <2>. QED  BY <1>4, <2>1, <2>2, <2>3 DEF Placed
<1>. QED  BY <1>3, <1>4 DEF Accounted

\* Another requestor's command is sent.
LEMMA SentByOther ==
  ASSUME NEW id \in Requestors, NEW v, DataOK(v), NEW cmd \in Packets, cmd.id # id
  PROVE  SameData(id, v.data, DataWith(v.data, cmd))
<1> SUFFICES ASSUME NEW u \in RequestTypes, Carries(u, cmd)
             PROVE  LET new == Append(v.data[u], cmd)
                    IN /\ Positions(new, Mine(id)) = Positions(v.data[u], Mine(id))
                       /\ \A k \in Positions(v.data[u], Mine(id)) : new[k] = v.data[u][k]
  BY DEF SameData, DataWith
<1>1. v.data[u] \in Seq(Packets) /\ cmd \notin Mine(id)
  BY DEF DataOK, Mine
<1>2. Positions(Append(v.data[u], cmd), Mine(id)) = Positions(v.data[u], Mine(id))
  BY <1>1, PositionsAppend
<1>3. \A k \in 1 .. Len(v.data[u]) : Append(v.data[u], cmd)[k] = v.data[u][k]
  BY <1>1
<1>4. Positions(v.data[u], Mine(id)) \subseteq 1 .. Len(v.data[u])
  BY <1>1, PositionsFinite
<1>. QED  BY <1>2, <1>3, <1>4

-----------------------------------------------------------------------------
(* A burst leaves, and may answer a request.                               *)

\* The elements of a sequence without its front were in it.
LEMMA TailElements ==
  ASSUME NEW s \in Seq(Packets), s # <<>>, NEW S
  PROVE  \A k \in Positions(Tail(s), S) : k + 1 \in Positions(s, S) /\ Tail(s)[k] = s[k + 1]
  BY DEF Positions

\* They have an address in common if they had one before.
LEMMA TailAddresses ==
  ASSUME NEW s \in Seq(Packets), s # <<>>, NEW S, NEW a,
         \A k \in Positions(s, S) : s[k].addr = a
  PROVE  \A k \in Positions(Tail(s), S) : Tail(s)[k].addr = a
<1> TAKE k \in Positions(Tail(s), S)
<1>1. k + 1 \in Positions(s, S) /\ Tail(s)[k] = s[k + 1]
  BY TailElements
<1>2. s[k + 1].addr = a
  BY <1>1
<1>. QED  BY <1>1, <1>2

\* Another requestor's burst leaves.
LEMMA LeftByOther ==
  ASSUME NEW id \in Requestors, NEW v, DataOK(v), NEW t \in RequestTypes,
         v.data[t] # <<>>, Head(v.data[t]).id # id
  PROVE  SameData(id, v.data, [v.data EXCEPT ![t] = Tail(@)])
<1>1. v.data[t] \in Seq(Packets) /\ DOMAIN v.data = RequestTypes
      /\ Head(v.data[t]) \notin Mine(id)
  BY DEF DataOK, Mine
<1>2. Cardinality(Positions(Tail(v.data[t]), Mine(id))) =
        Cardinality(Positions(v.data[t], Mine(id)))
  BY <1>1, PositionsTail
<1>3. \A k \in Positions(Tail(v.data[t]), Mine(id)) :
        \E j \in Positions(v.data[t], Mine(id)) : Tail(v.data[t])[k] = v.data[t][j]
  BY <1>1, TailElements
<1>. QED  BY <1>1, <1>2, <1>3 DEF SameData

\* What the callback leaves of the unanswered addresses.
CalledBack(list, burst, old, new) ==
  IF Completes(list, burst) /\ Found(old, burst.addr) # {}
  THEN \E i \in Found(old, burst.addr) : new = Without(old, i)
  ELSE new = old

\* A burst in direction t leaves: v before, w after.
Leaves(t, burst, v, w) ==
  /\ v.data[t] # <<>> /\ burst = Head(v.data[t])
  /\ w.asked = v.asked /\ w.cmds = v.cmds
  /\ w.data = [v.data EXCEPT ![t] = Tail(@)]
  /\ w.own = [v.own EXCEPT ![t] = AfterBurst(@, burst)]
  /\ CalledBack(v.own[t], burst, v.core, w.core)

\* A burst of the requestor leaves.  The last burst of a request answers it,
\* and no other.
LEMMA LeaveAccounted ==
  ASSUME NEW id \in Requestors, NEW v, DataOK(v), Accounted(id, v), NEW w,
         NEW t \in RequestTypes, NEW burst, burst.id = id, Leaves(t, burst, v, w)
  PROVE  /\ Accounted(id, w)
         /\ \/ w.core = v.core
            \/ v.asked = <<>> /\ v.cmds = <<>> /\ w.core = <<>> /\ v.core # <<>>
<1> USE DEF Leaves
<1> DEFINE d == Cardinality(Positions(v.data[t], Mine(id)))
           e == Cardinality(Positions(Tail(v.data[t]), Mine(id)))
<1>1. /\ v.data[t] \in Seq(Packets) /\ DOMAIN v.data = RequestTypes
      /\ burst \in Mine(id) /\ 1 \in Positions(v.data[t], Mine(id))
      /\ v.data[t][1] = burst
  BY DEF DataOK, Mine, Positions
<1>2. PICK a \in Addresses, n \in 1 .. BurstsPerRequest :
        Unanswered(id, t, a, n, v) /\ Commanded(id, t, a, n, v)
  <2>1. ~ Idle(id, v)
    BY <1>1 DEF Idle
  <2>2. PICK u \in RequestTypes, a \in Addresses, n \in 1 .. BurstsPerRequest :
          Placed(id, u, a, n, v)
    BY <2>1 DEF Accounted
  <2>3. u = t
    BY <1>1, <2>2 DEF Placed, Unanswered
  <2>4. ~ Queued(id, t, a, n, v)
    BY <1>1 DEF Queued
  <2>. QED  BY <2>2, <2>3, <2>4 DEF Placed
<1> DEFINE c == Cardinality(Positions(v.cmds, Casts(t)))
<1>3. /\ v.asked = <<>> /\ v.cmds \in Seq(CommandsOf(id, t, a))
      /\ n = c + d
      /\ v.cmds # <<>> => Carries(t, v.cmds[Len(v.cmds)])
      /\ burst.addr = a
      /\ v.core = <<a>>
  BY <1>1, <1>2 DEF Commanded, Unanswered
<1>4. c \in Nat /\ d \in Nat /\ e \in Nat /\ e = d - 1 /\ n \in Nat
  <2>1. e = d - 1
    BY <1>1, PositionsTail
  <2>2. Tail(v.data[t]) \in Seq(Packets)
    BY <1>1
  <2>3. c \in Nat
    BY <1>3, PositionsFinite
  <2>4. d \in Nat /\ e \in Nat
    BY <1>1, <2>2, PositionsFinite
  <2>5. n \in Nat
    BY <1>2
  <2>. QED  BY <2>1, <2>3, <2>4, <2>5
<1>5. /\ \A u \in RequestTypes \ {t} : w.data[u] = v.data[u]
      /\ w.data[t] = Tail(v.data[t]) /\ Tail(v.data[t]) \in Seq(Packets)
  BY <1>1
<1>6. \A k \in Positions(w.data[t], Mine(id)) : w.data[t][k].addr = a
  <2>1. \A k \in Positions(v.data[t], Mine(id)) : v.data[t][k].addr = a
    BY <1>2 DEF Commanded
  <2>2. \A k \in Positions(Tail(v.data[t]), Mine(id)) : Tail(v.data[t])[k].addr = a
    BY <1>1, <2>1, TailAddresses
  <2>. QED  BY <1>5, <2>2
<1> HIDE DEF c, d, e
<1> DEFINE own == <<[addr |-> a, size |-> n]>>
<1>7. /\ v.own[t] = own /\ DOMAIN v.own = RequestTypes
      /\ \A u \in RequestTypes \ {t} : v.own[u] = <<>>
  BY <1>2 DEF Unanswered
<1>8. Owner(own, burst) = {1} /\ (Completes(own, burst) <=> n = 1)
  <2>1. Owner(own, burst) = {1}
    <3>1. [i \in DOMAIN own |-> own[i].addr] = <<a>>
      OBVIOUS
    <3> HIDE DEF own
    <3>2. Found(<<a>>, a) = {1}
      BY DEF Found
    <3>. QED  BY <1>3, <3>1, <3>2 DEF Owner
  <2>. QED  BY <2>1 DEF Completes
<1>9. AfterBurst(own, burst) = IF n = 1 THEN <<>> ELSE <<[addr |-> a, size |-> n - 1]>>
  <2>1. (CHOOSE i \in Owner(own, burst) : TRUE) = 1
    BY <1>8
  <2>2. AfterBurst(own, burst) = IF own[1].size = 1 THEN Without(own, 1)
                                 ELSE [own EXCEPT ![1].size = @ - 1]
    BY <1>8, <2>1 DEF AfterBurst
  <2>3. Without(own, 1) = <<>>
    BY DEF Without
  <2>4. [own EXCEPT ![1].size = @ - 1] = <<[addr |-> a, size |-> n - 1]>>
    OBVIOUS
  <2>5. own[1].size = n
    OBVIOUS
  <2> HIDE DEF own
  <2>. QED  BY <2>2, <2>3, <2>4, <2>5
<1> HIDE DEF own
<1>10. CASE n = 1
  <2>1. w.own = [u \in RequestTypes |-> <<>>]
    BY <1>7, <1>9, <1>10
  <2>2. w.core = <<>>
    <3>1. Found(<<a>>, a) = {1} /\ Without(<<a>>, 1) = <<>>
      BY DEF Found, Without
    <3>. QED  BY <1>3, <1>7, <1>8, <1>10, <3>1 DEF CalledBack
  <2>3. c = 0 /\ e = 0
    <3>1. d # 0
      BY <1>1, PositionsNone DEF d
    <3>. QED  BY <1>3, <1>4, <1>10, <3>1
  <2>4. v.cmds = <<>>
    <3>1. Positions(v.cmds, Casts(t)) = {}
      BY <1>3, <2>3, PositionsNone DEF c
    <3>2. ASSUME v.cmds # <<>>
          PROVE  Len(v.cmds) \in Positions(v.cmds, Casts(t))
      <4>1. Len(v.cmds) \in DOMAIN v.cmds /\ v.cmds[Len(v.cmds)] \in CommandsOf(id, t, a)
        BY <1>3, <3>2
      <4>. QED  BY <1>3, <3>2, <4>1 DEF Positions, Casts, CommandsOf
    <3>. QED  BY <3>1, <3>2
  <2>5. Positions(w.data[t], Mine(id)) = {}
    BY <1>5, <2>3, PositionsNone DEF e
  <2>6. \A u \in RequestTypes \ {t} : Positions(w.data[u], Mine(id)) = {}
    BY <1>2, <1>5 DEF Unanswered
  <2>7. Idle(id, w)
    BY <1>3, <2>1, <2>2, <2>4, <2>5, <2>6 DEF Idle
  <2>. QED  BY <1>3, <2>2, <2>4, <2>7 DEF Accounted
<1>11. CASE n # 1
  <2>1. w.own = [u \in RequestTypes |->
                   IF u = t THEN <<[addr |-> a, size |-> n - 1]>> ELSE <<>>]
    BY <1>7, <1>9, <1>11
  <2>2. w.core = v.core
    BY <1>7, <1>8, <1>11 DEF CalledBack
  <2>3. Unanswered(id, t, a, n - 1, w)
    BY <1>2, <1>3, <1>5, <2>1, <2>2 DEF Unanswered
  <2>4. Commanded(id, t, a, n - 1, w)
    <3>1. n - 1 = c + e
      BY <1>3, <1>4
    <3>. QED  BY <1>3, <1>5, <1>6, <3>1 DEF Commanded, c, e
  <2>5. n - 1 \in 1 .. BurstsPerRequest
    BY <1>11, ConstantsAssumption
  <2>. QED  BY <2>2, <2>3, <2>4, <2>5 DEF Accounted, Placed
<1>. QED  BY <1>10, <1>11

-----------------------------------------------------------------------------
(* The views of the channel's state.                                       *)

\* What View(id) is made of: all of the lists, and the data on their way.
ViewOf(id, queues, buffers, reads, writes) ==
  [own   |-> [t \in RequestTypes |-> IF t = "DATA_READ" THEN pendingReadRequest[id]
                                                        ELSE pendingWriteRequest[id]],
   core  |-> corePendingData[id],
   asked |-> queues[id], cmds |-> buffers[id],
   data  |-> [t \in RequestTypes |-> IF t = "DATA_READ" THEN reads ELSE writes]]

\* The view of a requestor in the present state.
View(id) == ViewOf(id, requestQueue, commandQueue, pendingReadData, sendDataBuffer)

\* All of them are accounted for.
AllAccounted == \A id \in Requestors : Accounted(id, View(id))

\* A requestor with a request that is not sent has no unanswered one.
PendingFree ==
  \A id \in Requestors : pendingRequest[id] # NoRequest => corePendingData[id] = <<>>

\* What is on its way are lists of packets.
LEMMA ViewTypes ==
  ASSUME TypeOK, NEW id, NEW queues, NEW buffers,
         NEW reads \in Seq(Packets), NEW writes \in Seq(Packets)
  PROVE  DataOK(ViewOf(id, queues, buffers, reads, writes))
  BY DEF DataOK, ViewOf

\* Who has no unanswered request has nothing anywhere.
LEMMA UnaskedIdle ==
  ASSUME NEW id \in Requestors, NEW v, Accounted(id, v), v.core = <<>>
  PROVE  Idle(id, v)
  BY DEF Accounted, Placed, Unanswered

\* At most one request is answered in a step: one that has no command left.
AtMostOneAnswer(queues, buffers) ==
  \/ corePendingData' = corePendingData
  \/ \E b \in Requestors :
       /\ queues[b] = <<>> /\ buffers[b] = <<>> /\ corePendingData[b] # <<>>
       /\ corePendingData' = [corePendingData EXCEPT ![b] = <<>>]

\* The callback, as returnData leaves the lists of all requestors.
LEMMA CallbackEffect ==
  ASSUME TypeOK, NEW list, NEW burst \in Packets, Callback(list, burst)
  PROVE  /\ CalledBack(list, burst, corePendingData[burst.id], corePendingData'[burst.id])
         /\ corePendingData' = [corePendingData EXCEPT ![burst.id] = corePendingData'[burst.id]]
<1>1. burst.id \in Requestors /\ corePendingData \in [Requestors -> Seq(Addresses)]
  BY DEF TypeOK, Packets
<1>2. CASE UNCHANGED corePendingData /\ (Completes(list, burst) => Found(corePendingData[burst.id], burst.addr) = {})
  BY <1>1, <1>2 DEF CalledBack
<1>3. CASE /\ Completes(list, burst) /\ Found(corePendingData[burst.id], burst.addr) # {}
           /\ \E i \in Found(corePendingData[burst.id], burst.addr) :
                corePendingData' = [corePendingData EXCEPT ![burst.id] = Without(@, i)]
  BY <1>1, <1>3 DEF CalledBack
<1>. QED  BY <1>2, <1>3 DEF Callback, ReturnData

\* A burst leaves: the requests of all requestors are accounted for with what
\* is left.
LEMMA BurstLeaves ==
  ASSUME TypeOK, NEW t \in RequestTypes,
         NEW queues, NEW buffers, NEW reads \in Seq(Packets), NEW writes \in Seq(Packets),
         \A id \in Requestors : Accounted(id, ViewOf(id, queues, buffers, reads, writes)),
         NEW data, data = IF t = "DATA_READ" THEN reads ELSE writes, data # <<>>,
         IF t = "DATA_READ" THEN ReceiveData(Head(data)) /\ UNCHANGED pendingWriteRequest
                            ELSE SendData(Head(data)) /\ UNCHANGED pendingReadRequest,
         requestQueue' = queues, commandQueue' = buffers,
         pendingReadData' = IF t = "DATA_READ" THEN Tail(reads) ELSE reads,
         sendDataBuffer' = IF t = "DATA_READ" THEN writes ELSE Tail(writes)
  PROVE  AllAccounted' /\ AtMostOneAnswer(queues, buffers)
<1> DEFINE burst == Head(data)
           v(id) == ViewOf(id, queues, buffers, reads, writes)
<1>1. burst \in Packets /\ burst.id \in Requestors
  <2>1. data \in Seq(Packets)
    OBVIOUS
  <2>2. burst \in Packets
    BY <2>1
  <2>. QED  BY <2>2 DEF Packets
<1>2. /\ CalledBack(v(burst.id).own[t], burst, corePendingData[burst.id], corePendingData'[burst.id])
      /\ corePendingData' = [corePendingData EXCEPT ![burst.id] = corePendingData'[burst.id]]
  BY <1>1, CallbackEffect DEF ReceiveData, SendData, ViewOf, RequestTypes
<1>3. \A id \in Requestors :
        /\ (View(id)').asked = v(id).asked /\ (View(id)').cmds = v(id).cmds
        /\ (View(id)').data = [v(id).data EXCEPT ![t] = Tail(@)]
        /\ (View(id)').core = corePendingData'[id] /\ v(id).core = corePendingData[id]
        /\ DataOK(v(id)) /\ DataOK(View(id)') /\ v(id).data[t] = data
  <2>1. \A id \in Requestors :
          (View(id)').data = [v(id).data EXCEPT ![t] = Tail(@)] /\ v(id).data[t] = data
    BY DEF View, ViewOf, RequestTypes
  <2>2. Tail(reads) \in Seq(Packets) \/ t # "DATA_READ"
    OBVIOUS
  <2>3. Tail(writes) \in Seq(Packets) \/ t = "DATA_READ"
    OBVIOUS
  <2>4. \A id \in Requestors : DataOK(v(id)) /\ DataOK(View(id)')
    BY <2>2, <2>3 DEF View, ViewOf, DataOK
  <2>. QED  BY <2>1, <2>4 DEF View, ViewOf
<1>4. /\ (View(burst.id)').own = [v(burst.id).own EXCEPT ![t] = AfterBurst(@, burst)]
      /\ \A id \in Requestors \ {burst.id} : (View(id)').own = v(id).own
  BY <1>1 DEF View, ViewOf, RequestTypes, ReceiveData, SendData, TypeOK
<1> HIDE DEF burst, v
<1>5. \A id \in Requestors \ {burst.id} : Accounted(id, View(id)')
  <2> SUFFICES ASSUME NEW id \in Requestors \ {burst.id}
               PROVE  Accounted(id, View(id)')
    OBVIOUS
  <2> DEFINE old == v(id)
             new == View(id)'
  <2>1. /\ new.asked = old.asked /\ new.cmds = old.cmds /\ new.own = old.own
        /\ new.data = [old.data EXCEPT ![t] = Tail(@)]
        /\ new.core = corePendingData'[id] /\ old.core = corePendingData[id]
        /\ DataOK(old) /\ DataOK(new) /\ old.data[t] = data
    BY <1>3, <1>4
  <2>2. corePendingData'[id] = corePendingData[id]
    BY <1>1, <1>2 DEF TypeOK
  <2>3. Accounted(id, old)
    BY DEF v
  <2>4. id \in Requestors /\ old.data[t] # <<>> /\ Head(old.data[t]).id # id
    BY <2>1 DEF burst
  <2> HIDE DEF old, new
  <2>5. SameData(id, old.data, [old.data EXCEPT ![t] = Tail(@)])
    BY <2>1, <2>4, LeftByOther
  <2>6. Accounted(id, new)
    BY <2>1, <2>2, <2>3, <2>4, <2>5, OtherAccounted
  <2>. QED  BY <2>6 DEF new
<1>6. /\ Accounted(burst.id, View(burst.id)')
      /\ \/ corePendingData'[burst.id] = corePendingData[burst.id]
         \/ /\ queues[burst.id] = <<>> /\ buffers[burst.id] = <<>>
            /\ corePendingData'[burst.id] = <<>> /\ corePendingData[burst.id] # <<>>
  <2> DEFINE id  == burst.id
             old == v(id)
             new == View(id)'
  <2>1. /\ new.asked = old.asked /\ new.cmds = old.cmds
        /\ new.data = [old.data EXCEPT ![t] = Tail(@)]
        /\ new.core = corePendingData'[id] /\ old.core = corePendingData[id]
        /\ DataOK(old) /\ old.data[t] = data
    BY <1>1, <1>3
  <2>2. /\ new.own = [old.own EXCEPT ![t] = AfterBurst(@, burst)]
        /\ CalledBack(old.own[t], burst, old.core, new.core)
    BY <1>2, <1>4, <2>1
  <2>3. Accounted(id, old) /\ id \in Requestors
    BY <1>1 DEF v
  <2>4. old.asked = queues[id] /\ old.cmds = buffers[id]
    BY DEF v, ViewOf
  <2>5. old.data[t] # <<>> /\ Head(old.data[t]) = burst /\ burst.id = id
    BY <2>1 DEF burst
  <2> HIDE DEF old, new, id, burst
  <2>6. /\ Accounted(id, new)
        /\ \/ new.core = old.core
           \/ old.asked = <<>> /\ old.cmds = <<>> /\ new.core = <<>> /\ old.core # <<>>
    <3>1. Leaves(t, burst, old, new)
      BY <2>1, <2>2, <2>5 DEF Leaves
    <3>. QED  BY <2>1, <2>3, <2>5, <3>1, LeaveAccounted
  <2>. QED  BY <2>1, <2>4, <2>6 DEF new, id
<1>7. AllAccounted'
  BY <1>5, <1>6 DEF AllAccounted
<1>8. AtMostOneAnswer(queues, buffers)
  <2>1. corePendingData \in [Requestors -> Seq(Addresses)]
    BY DEF TypeOK
  <2>. QED  BY <1>1, <1>2, <1>6, <2>1 DEF AtMostOneAnswer
<1>. QED  BY <1>7, <1>8

-----------------------------------------------------------------------------
(* One lemma per group of actions.                                         *)

\* Steps that leave the request and data path alone.
LEMMA PathUntouched ==
  ASSUME AllAccounted, UNCHANGED <<queueVars, pendingVars, sendDataBuffer, pendingReadData>>
  PROVE  AllAccounted'
<1>1. \A id \in Requestors : View(id)' = View(id)
  BY DEF View, ViewOf, queueVars, pendingVars
<1>. QED  BY <1>1 DEF AllAccounted

\* A requestor only reads on, waits or sends while it has no unanswered request.
LEMMA ReadsUnblocked ==
  ASSUME PendingFree, NEW id \in Requestors, ReadingTraceFile(id) # {}
  PROVE  corePendingData[id] = <<>>
  BY DEF PendingFree, ReadingTraceFile, MayRead, Blocked

\* addRequest: the new request is in its queue.
LEMMA SendRequestAccounted ==
  ASSUME TypeOK, AllAccounted, PendingFree, NEW id \in Requestors, UpdateSend(id)
  PROVE  AllAccounted'
<1>1. PICK next \in ReadingTraceFile(id) :
        /\ AddRequest(id, [type |-> next.type, addr |-> next.addr])
        /\ corePendingData' = [corePendingData EXCEPT ![id] = Append(@, next.addr)]
  BY DEF UpdateSend
<1>2. next.type \in RequestTypes /\ next.addr \in Addresses
  BY ReadingTraceFileType
<1>3. /\ corePendingData \in [Requestors -> Seq(Addresses)]
      /\ requestQueue \in [Requestors -> Seq(Requests)]
      /\ pendingReadRequest \in [Requestors -> Seq(Entries)]
      /\ pendingWriteRequest \in [Requestors -> Seq(Entries)]
  BY DEF TypeOK
<1>4. UNCHANGED <<commandQueue, sendDataBuffer, pendingReadData>>
  BY DEF UpdateSend, sendVars, returnVars
<1>5. Idle(id, View(id))
  <2>1. (View(id)).core = <<>>
    BY ReadsUnblocked DEF View, ViewOf
  <2>. QED  BY <2>1, UnaskedIdle DEF AllAccounted
<1>6. /\ pendingReadRequest[id] = <<>> /\ pendingWriteRequest[id] = <<>>
      /\ corePendingData[id] = <<>> /\ requestQueue[id] = <<>> /\ commandQueue[id] = <<>>
      /\ Positions(pendingReadData, Mine(id)) = {} /\ Positions(sendDataBuffer, Mine(id)) = {}
  <2>1. /\ [t \in RequestTypes |-> IF t = "DATA_READ" THEN pendingReadRequest[id]
                                                     ELSE pendingWriteRequest[id]]
             = [t \in RequestTypes |-> <<>>]
        /\ \A t \in RequestTypes :
             Positions(IF t = "DATA_READ" THEN pendingReadData ELSE sendDataBuffer, Mine(id)) = {}
    BY <1>5 DEF Idle, View, ViewOf
  <2>2. "DATA_READ" \in RequestTypes /\ "DATA_WRITE" \in RequestTypes
    BY DEF RequestTypes
  <2>. QED  BY <1>5, <2>1, <2>2 DEF Idle, View, ViewOf
<1> DEFINE req   == [type |-> next.type, addr |-> next.addr]
           entry == [addr |-> next.addr, size |-> BurstsPerRequest]
<1>7. /\ requestQueue' = [requestQueue EXCEPT ![id] = Append(@, req)]
      /\ IF next.type = "DATA_READ"
         THEN /\ pendingReadRequest' = [pendingReadRequest EXCEPT ![id] = Append(@, entry)]
              /\ UNCHANGED pendingWriteRequest
         ELSE /\ pendingWriteRequest' = [pendingWriteRequest EXCEPT ![id] = Append(@, entry)]
              /\ UNCHANGED pendingReadRequest
  BY <1>1 DEF AddRequest
<1> HIDE DEF req, entry
<1>8. /\ requestQueue'[id] = <<req>> /\ corePendingData'[id] = <<next.addr>>
      /\ pendingReadRequest'[id] = IF next.type = "DATA_READ" THEN <<entry>> ELSE <<>>
      /\ pendingWriteRequest'[id] = IF next.type = "DATA_READ" THEN <<>> ELSE <<entry>>
  BY <1>1, <1>3, <1>6, <1>7
<1>9. Accounted(id, View(id)')
  <2> DEFINE w == View(id)'
  <2>1. w.own = [u \in RequestTypes |-> IF u = next.type THEN <<entry>> ELSE <<>>]
    BY <1>2, <1>8 DEF View, ViewOf, RequestTypes
  <2>2. /\ w.core = <<next.addr>> /\ w.asked = <<req>> /\ w.cmds = <<>>
        /\ \A u \in RequestTypes : Positions(w.data[u], Mine(id)) = {}
    BY <1>4, <1>6, <1>8 DEF View, ViewOf
  <2> HIDE DEF w
  <2>3. Unanswered(id, next.type, next.addr, BurstsPerRequest, w)
    BY <2>1, <2>2 DEF Unanswered, entry
  <2>4. Queued(id, next.type, next.addr, BurstsPerRequest, w)
    BY <1>2, <2>2 DEF Queued, req
  <2>5. BurstsPerRequest \in 1 .. BurstsPerRequest
    BY ConstantsAssumption
  <2>6. Accounted(id, w)
    BY <1>2, <2>3, <2>4, <2>5 DEF Accounted, Placed
  <2>. QED  BY <2>6 DEF w
<1>10. ASSUME NEW j \in Requestors \ {id}
       PROVE  Accounted(j, View(j)')
  <2>1. View(j)' = View(j)
    BY <1>1, <1>3, <1>4, <1>7 DEF View, ViewOf
  <2>. QED  BY <2>1 DEF AllAccounted
<1>. QED  BY <1>9, <1>10 DEF AllAccounted

\* Requestor::update.
LEMMA UpdateAccounted ==
  ASSUME TypeOK, AllAccounted, PendingFree, NEW id \in Requestors, Update(id)
  PROVE  AllAccounted' /\ PendingFree'
<1>1. AllAccounted'
  <2>1. CASE UpdateSend(id)
    BY <2>1, SendRequestAccounted
  <2>2. CASE UpdateWait(id) \/ UpdateBlocked(id) \/ UpdateBlank(id) \/ UpdateEnd(id)
    <3>1. UNCHANGED <<queueVars, pendingVars, sendDataBuffer, pendingReadData>>
      BY <2>2 DEF UpdateWait, UpdateBlocked, UpdateBlank, UpdateEnd, sendVars, returnVars
    <3>. QED  BY <3>1, PathUntouched
  <2>. QED  BY <2>1, <2>2 DEF Update
<1>2. PendingFree'
  <2>1. pendingRequest \in [Requestors ->
          [type : RequestTypes, addr : Addresses, wait : Nat] \cup {NoRequest}]
        /\ corePendingData \in [Requestors -> Seq(Addresses)]
    BY DEF TypeOK
  <2>2. CASE UpdateSend(id)
    <3>1. /\ pendingRequest' = [pendingRequest EXCEPT ![id] = NoRequest]
          /\ \A j \in Requestors \ {id} : corePendingData'[j] = corePendingData[j]
      BY <2>1, <2>2 DEF UpdateSend
    <3>. QED  BY <2>1, <3>1 DEF PendingFree
  <2>3. CASE UpdateWait(id)
    <3>1. /\ \A j \in Requestors \ {id} : pendingRequest'[j] = pendingRequest[j]
          /\ UNCHANGED corePendingData /\ ReadingTraceFile(id) # {}
      BY <2>1, <2>3 DEF UpdateWait, pendingVars
    <3>. QED  BY <3>1, ReadsUnblocked DEF PendingFree
  <2>4. CASE UpdateBlocked(id) \/ UpdateBlank(id) \/ UpdateEnd(id)
    BY <2>4 DEF UpdateBlocked, UpdateBlank, UpdateEnd, requestorVars, pendingVars, PendingFree
  <2>. QED  BY <2>2, <2>3, <2>4 DEF Update
<1>. QED  BY <1>1, <1>2

\* The data part of step(): a write burst leaves or none does.
LEMMA StepDataAccounted ==
  ASSUME TypeOK, NEW queues, NEW buffers, NEW reads \in Seq(Packets),
         NEW writes \in Seq(Packets), NEW counters \in Seq(0 .. MaxUnsigned),
         Len(counters) = Len(writes),
         \A id \in Requestors : Accounted(id, ViewOf(id, queues, buffers, reads, writes)),
         StepData(writes, counters),
         requestQueue' = queues, commandQueue' = buffers, pendingReadData' = reads
  PROVE  AllAccounted' /\ AtMostOneAnswer(queues, buffers)
<1>1. CASE counters # <<>> /\ Head(counters) = 0
  <2>1. /\ writes # <<>> /\ sendDataBuffer' = Tail(writes)
        /\ SendData(Head(writes)) /\ UNCHANGED pendingReadRequest
    BY <1>1 DEF StepData
  <2> DEFINE t == "DATA_WRITE"
  <2>2. t \in RequestTypes /\ t # "DATA_READ"
    BY DEF RequestTypes
  <2> HIDE DEF t
  <2>. QED  BY <2>1, <2>2, BurstLeaves
<1>2. CASE ~ (counters # <<>> /\ Head(counters) = 0)
  <2>1. sendDataBuffer' = writes /\ UNCHANGED pendingVars
    BY <1>2 DEF StepData
  <2>2. \A id \in Requestors : View(id)' = ViewOf(id, queues, buffers, reads, writes)
    BY <2>1 DEF View, ViewOf, pendingVars
  <2>3. AtMostOneAnswer(queues, buffers)
    BY <2>1 DEF AtMostOneAnswer, pendingVars
  <2>. QED  BY <2>2, <2>3 DEF AllAccounted
<1>. QED  BY <1>1, <1>2

\* What requestSchedule leaves of the request queues, and the command buffers
\* after the generator has been drained.
LeftRequests(chosen) ==
  [id \in Requestors |->
     IF id \in chosen THEN Tail(requestQueue[id]) ELSE requestQueue[id]]
GeneratedAll(chosen, hits) == [id \in Requestors |-> Generated(id, chosen, hits)]

\* The schedulers' part of step(), before a command is sent.
LEMMA ScheduledAccounted ==
  ASSUME NoAddressCut, TypeOK, AllAccounted, NEW chosen \in SUBSET Requesting, NEW hits,
         NEW id \in Requestors
  PROVE  Accounted(id, ViewOf(id, LeftRequests(chosen), GeneratedAll(chosen, hits),
                              pendingReadData, sendDataBuffer))
<1> DEFINE v == View(id)
           w == ViewOf(id, LeftRequests(chosen), GeneratedAll(chosen, hits),
                       pendingReadData, sendDataBuffer)
           open == id \in hits
<1>1. Accounted(id, v) /\ DataOK(v)
  BY ViewTypes DEF AllAccounted, View, TypeOK
<1>2. CASE id \notin chosen
  <2>1. w = v
    BY <1>2 DEF View, ViewOf, LeftRequests, GeneratedAll, Generated
  <2>. QED  BY <1>1, <2>1
<1>3. CASE id \in chosen
  <2>1. /\ w.own = v.own /\ w.core = v.core /\ w.data = v.data
        /\ w.asked = Tail(v.asked) /\ v.asked # <<>>
        /\ w.cmds = v.cmds \o CommandGenerate(id, Head(v.asked), open)
    BY <1>3 DEF View, ViewOf, LeftRequests, GeneratedAll, Generated, Requesting
  <2>2. open \in BOOLEAN
    OBVIOUS
  <2> HIDE DEF v, w, open
  <2>3. Accounted(id, w)
    BY <1>1, <2>1, <2>2, ScheduleAccounted
  <2>. QED  BY <2>3 DEF w
<1>. QED  BY <1>2, <1>3

\* The command buffers after the first command of a requestor is sent.
SentFrom(buffers, c) ==
  [id \in Requestors |-> IF id = c THEN Tail(buffers[id]) ELSE buffers[id]]

\* A command is sent, before the data part of step().
LEMMA CommandAccounted ==
  ASSUME TypeOK, NEW queues, NEW buffers \in [Requestors -> Seq(Packets)],
         \A id \in Requestors :
           Accounted(id, ViewOf(id, queues, buffers, pendingReadData, sendDataBuffer)),
         NEW c \in Requestors, buffers[c] # <<>>,
         NEW cmd, cmd = Head(buffers[c]),
         NEW reads, reads = IF IsRead(cmd) THEN Append(pendingReadData, cmd) ELSE pendingReadData,
         NEW writes, writes = IF IsWrite(cmd) THEN Append(sendDataBuffer, cmd) ELSE sendDataBuffer,
         NEW id \in Requestors
  PROVE  Accounted(id, ViewOf(id, queues, SentFrom(buffers, c), reads, writes))
<1> DEFINE v(j) == ViewOf(j, queues, buffers, pendingReadData, sendDataBuffer)
           w(j) == ViewOf(j, queues, SentFrom(buffers, c), reads, writes)
<1>1. \A j \in Requestors :
        /\ Accounted(j, v(j)) /\ DataOK(v(j))
        /\ w(j).own = v(j).own /\ w(j).core = v(j).core /\ w(j).asked = v(j).asked
        /\ w(j).data = DataWith(v(j).data, cmd)
        /\ w(j).cmds = IF j = c THEN Tail(v(j).cmds) ELSE v(j).cmds
        /\ v(j).cmds = buffers[j]
  <2>1. \A j \in Requestors : w(j).data = DataWith(v(j).data, cmd)
    BY DEF ViewOf, DataWith, Carries
  <2>2. \A j \in Requestors : DataOK(v(j))
    BY ViewTypes DEF TypeOK
  <2>. QED  BY <2>1, <2>2 DEF ViewOf, SentFrom
<1>2. cmd \in Packets
  <2>1. buffers[c] \in Seq(Packets)
    OBVIOUS
  <2>. QED  BY <2>1
<1>3. cmd.id = c
  <2>1. \E t \in RequestTypes, a \in Addresses : buffers[c] \in Seq(CommandsOf(c, t, a))
    BY <1>1 DEF Accounted, Idle, Placed, Queued, Commanded
  <2>2. PICK t \in RequestTypes, a \in Addresses : cmd \in CommandsOf(c, t, a)
    BY <2>1
  <2>. QED  BY <2>2 DEF CommandsOf
<1> HIDE DEF v, w
<1>4. CASE id = c
  <2>1. w(c).data = DataWith(v(c).data, Head(v(c).cmds)) /\ v(c).cmds # <<>>
    BY <1>1
  <2>2. Accounted(c, w(c))
    BY <1>1, <2>1, SendAccounted
  <2>. QED  BY <1>4, <2>2 DEF w
<1>5. CASE id # c
  <2>1. SameData(id, v(id).data, w(id).data)
    BY <1>1, <1>2, <1>3, <1>5, SentByOther
  <2>2. DataOK(w(id))
    BY <1>1, <1>2, SentType
  <2>3. Accounted(id, w(id))
    BY <1>1, <1>5, <2>1, <2>2, OtherAccounted
  <2>. QED  BY <2>3 DEF w
<1>. QED  BY <1>4, <1>5

\* What step() does to the queues, whether or not a command is sent.
LEMMA StepAccounted ==
  ASSUME NoAddressCut, IInv, AllAccounted, NEW chosen \in SUBSET Requesting, NEW hits,
         StepNoCommand(chosen, hits) \/ \E c \in Requestors : StepCommand(c, chosen, hits)
  PROVE  AllAccounted' /\ AtMostOneAnswer(requestQueue', commandQueue')
<1> DEFINE all == GeneratedAll(chosen, hits)
           queues == LeftRequests(chosen)
<1>1. TypeOK /\ Len(sendDataCounter) = Len(sendDataBuffer)
  BY DEF IInv, WriteCountersOrdered
<1>2. /\ pendingReadData \in Seq(Packets) /\ sendDataBuffer \in Seq(Packets)
      /\ sendDataCounter \in Seq(0 .. MaxUnsigned)
  BY <1>1 DEF TypeOK
<1>3. all \in [Requestors -> Seq(Packets)]
  BY <1>1, GeneratedType DEF GeneratedAll
<1>4. \A id \in Requestors :
        Accounted(id, ViewOf(id, queues, all, pendingReadData, sendDataBuffer))
  BY <1>1, ScheduledAccounted
<1>5. requestQueue' = queues
  BY DEF StepNoCommand, StepCommand, RequestSchedule, LeftRequests
<1> HIDE DEF queues
<1>6. CASE StepNoCommand(chosen, hits)
  <2>1. /\ commandQueue' = all /\ StepData(sendDataBuffer, sendDataCounter)
        /\ pendingReadData' = pendingReadData
    BY <1>6 DEF StepNoCommand, GeneratedAll, returnVars
  <2> HIDE DEF all
  <2>. QED  BY <1>1, <1>2, <1>4, <1>5, <2>1, StepDataAccounted
<1>7. ASSUME NEW c \in Requestors, StepCommand(c, chosen, hits)
      PROVE  AllAccounted' /\ AtMostOneAnswer(requestQueue', commandQueue')
  <2> DEFINE cmd    == Head(all[c])
             left   == SentFrom(all, c)
             reads  == IF IsRead(cmd) THEN Append(pendingReadData, cmd) ELSE pendingReadData
             writes == IF IsWrite(cmd) THEN Append(sendDataBuffer, cmd) ELSE sendDataBuffer
             counters == IF IsWrite(cmd) THEN Append(sendDataCounter, tWL + tBus)
                                         ELSE sendDataCounter
  <2>1. all[c] # <<>> /\ cmd \in Packets
    <3>1. all[c] # <<>>
      BY <1>7 DEF StepCommand, GeneratedAll
    <3>. QED  BY <1>3, <3>1
  <2>2. /\ commandQueue' = left /\ pendingReadData' = reads
        /\ StepData(writes, counters)
    <3>1. cmd = Head(Generated(c, chosen, hits))
      BY DEF GeneratedAll
    <3>2. commandQueue' = left
      BY <1>7 DEF StepCommand, GeneratedAll, SentFrom
    <3> HIDE DEF all, cmd
    <3>3. GenerateData(cmd) /\ StepData(writes, counters)
      BY <1>7, <3>1 DEF StepCommand
    <3>. QED  BY <3>2, <3>3 DEF GenerateData, returnVars
  <2> HIDE DEF all
  <2>3. /\ reads \in Seq(Packets) /\ writes \in Seq(Packets)
        /\ counters \in Seq(0 .. MaxUnsigned) /\ Len(counters) = Len(writes)
    <3>1. tWL + tBus \in 0 .. MaxUnsigned
      BY ConstantsAssumption
    <3> HIDE DEF cmd
    <3>2. Append(pendingReadData, cmd) \in Seq(Packets)
      BY <1>2, <2>1
    <3>3. Append(sendDataBuffer, cmd) \in Seq(Packets)
      BY <1>2, <2>1
    <3>4. Append(sendDataCounter, tWL + tBus) \in Seq(0 .. MaxUnsigned)
      BY <1>2, <3>1
    <3>5. Len(Append(sendDataCounter, tWL + tBus)) = Len(Append(sendDataBuffer, cmd))
      BY <1>1, <1>2
    <3>. QED  BY <1>1, <1>2, <3>2, <3>3, <3>4, <3>5
  <2> HIDE DEF cmd
  <2>4. cmd = Head(all[c])
    BY DEF cmd
  <2>5. \A id \in Requestors : Accounted(id, ViewOf(id, queues, left, reads, writes))
    <3> SUFFICES ASSUME NEW id \in Requestors
                 PROVE  Accounted(id, ViewOf(id, queues, left, reads, writes))
      OBVIOUS
    <3>. QED  BY <1>1, <1>3, <1>4, <2>1, <2>4, CommandAccounted
  <2> HIDE DEF left, reads, writes, counters
  <2>. QED  BY <1>1, <1>5, <2>2, <2>3, <2>5, StepDataAccounted
<1>. QED  BY <1>6, <1>7

\* MemorySystem::update: a read burst returns or none does.
LEMMA MemoryUpdateAccounted ==
  ASSUME IInv, AllAccounted, MemoryUpdate
  PROVE  AllAccounted' /\ AtMostOneAnswer(requestQueue, commandQueue)
<1>1. TypeOK /\ pendingReadData \in Seq(Packets) /\ sendDataBuffer \in Seq(Packets)
  BY DEF IInv, TypeOK
<1>2. UNCHANGED <<requestQueue, commandQueue, sendDataBuffer>>
  BY DEF MemoryUpdate, queueVars, sendVars
<1>3. CASE pendingReadData # <<>> /\ Head(Countdown(dataCycles)) = 0
  <2>1. /\ pendingReadData' = Tail(pendingReadData)
        /\ ReceiveData(Head(pendingReadData)) /\ UNCHANGED pendingWriteRequest
    BY <1>3 DEF MemoryUpdate
  <2>2. "DATA_READ" \in RequestTypes
    BY DEF RequestTypes
  <2>3. \A id \in Requestors :
          Accounted(id, ViewOf(id, requestQueue, commandQueue, pendingReadData, sendDataBuffer))
    BY DEF AllAccounted, View
  <2>. QED  BY <1>1, <1>2, <1>3, <2>1, <2>2, <2>3, BurstLeaves
<1>4. CASE ~ (pendingReadData # <<>> /\ Head(Countdown(dataCycles)) = 0)
  <2>1. UNCHANGED <<pendingReadData, pendingVars>>
    BY <1>4 DEF MemoryUpdate
  <2>2. AllAccounted'
    BY <1>2, <2>1, PathUntouched DEF MemoryUpdate
  <2>3. AtMostOneAnswer(requestQueue, commandQueue)
    BY <2>1 DEF AtMostOneAnswer, pendingVars
  <2>. QED  BY <2>2, <2>3
<1>. QED  BY <1>3, <1>4

\* An answer blocks nobody.
LEMMA AnswerFrees ==
  ASSUME TypeOK, PendingFree, NEW queues, NEW buffers, AtMostOneAnswer(queues, buffers),
         UNCHANGED pendingRequest
  PROVE  PendingFree'
  BY DEF TypeOK, PendingFree, AtMostOneAnswer

-----------------------------------------------------------------------------
(* The theorems.                                                           *)

\* The inductive invariant.
BInv == IInv /\ AllAccounted /\ PendingFree

\* At the start nobody has asked for anything.
LEMMA InitAccounted ==
  ASSUME Init
  PROVE  BInv
<1>1. \A id \in Requestors : Idle(id, View(id))
  BY DEF Init, Idle, View, ViewOf, Positions
<1>2. PendingFree
  BY DEF Init, PendingFree
<1>. QED  BY <1>1, <1>2, InitInv DEF BInv, AllAccounted, Accounted

\* Every step keeps every request accounted for.
LEMMA NextAccounted ==
  ASSUME NoAddressCut, BInv, [Next]_vars
  PROVE  BInv'
<1>1. IInv' /\ IInv /\ TypeOK /\ AllAccounted /\ PendingFree
  BY NextInv DEF BInv, IInv
<1>2. CASE \E id \in Requestors : Update(id)
  BY <1>1, <1>2, UpdateAccounted DEF BInv
<1>3. CASE Step
  <2>1. PICK chosen \in SUBSET Requesting, hits \in SUBSET Requesting :
          StepNoCommand(chosen, hits) \/ \E c \in Requestors : StepCommand(c, chosen, hits)
    BY <1>3 DEF Step
  <2>2. UNCHANGED pendingRequest
    BY <2>1 DEF StepNoCommand, StepCommand, requestorVars
  <2>. QED  BY <1>1, <2>1, <2>2, StepAccounted, AnswerFrees DEF BInv
<1>4. CASE MemoryUpdate
  <2>1. UNCHANGED pendingRequest
    BY <1>4 DEF MemoryUpdate, requestorVars
  <2>. QED  BY <1>1, <1>4, <2>1, MemoryUpdateAccounted, AnswerFrees DEF BInv
<1>5. CASE UNCHANGED vars
  <2>1. UNCHANGED <<queueVars, pendingVars, sendDataBuffer, pendingReadData,
                    pendingRequest, corePendingData>>
    BY <1>5 DEF vars, requestorVars, queueVars, sendVars, returnVars, pendingVars
  <2>. QED  BY <1>1, <2>1, PathUntouched DEF BInv, PendingFree
<1>. QED  BY <1>2, <1>3, <1>4, <1>5 DEF Next, Exit

\* Positions are the bursts of BurstsAccounted.
LEMMA PositionsAreBursts ==
  ASSUME TypeOK, NEW id \in Requestors
  PROVE  /\ BurstsOf(id, sendDataBuffer) = Positions(sendDataBuffer, Mine(id))
         /\ BurstsOf(id, pendingReadData) = Positions(pendingReadData, Mine(id))
         /\ \A t \in RequestTypes, a \in Addresses :
              commandQueue[id] \in Seq(CommandsOf(id, t, a)) =>
                CommandedBursts(id) = Positions(commandQueue[id], Casts(t))
<1>1. \A s \in Seq(Packets) : BurstsOf(id, s) = Positions(s, Mine(id))
  BY DEF BurstsOf, Positions, Mine
<1>2. ASSUME NEW t \in RequestTypes, NEW a \in Addresses,
             commandQueue[id] \in Seq(CommandsOf(id, t, a))
      PROVE  CommandedBursts(id) = Positions(commandQueue[id], Casts(t))
  <2>1. \A p \in CommandsOf(id, t, a) : (IsRead(p) \/ IsWrite(p)) <=> p \in Casts(t)
    BY DEF CommandsOf, Casts, Carries, IsRead, IsWrite, RequestTypes
  <2>2. \A k \in DOMAIN commandQueue[id] : commandQueue[id][k] \in CommandsOf(id, t, a)
    BY <1>2
  <2>. QED  BY <2>1, <2>2 DEF CommandedBursts, Positions
<1>. QED  BY <1>1, <1>2 DEF TypeOK

\* What Accounted says, in the words of the state.
LEMMA IdleMeaning ==
  ASSUME TypeOK, NEW id \in Requestors, Idle(id, View(id))
  PROVE  /\ corePendingData[id] = <<>> /\ NothingInFlight(id)
         /\ pendingReadRequest[id] = <<>> /\ pendingWriteRequest[id] = <<>>
<1>1. "DATA_READ" \in RequestTypes /\ "DATA_WRITE" \in RequestTypes
  BY DEF RequestTypes
<1>2. /\ [t \in RequestTypes |-> IF t = "DATA_READ" THEN pendingReadRequest[id]
                                                   ELSE pendingWriteRequest[id]]
           = [t \in RequestTypes |-> <<>>]
      /\ \A t \in RequestTypes :
           Positions(IF t = "DATA_READ" THEN pendingReadData ELSE sendDataBuffer, Mine(id)) = {}
  BY DEF Idle, View, ViewOf
<1>3. pendingReadRequest[id] = <<>> /\ pendingWriteRequest[id] = <<>>
  BY <1>1, <1>2
<1>4. Positions(pendingReadData, Mine(id)) = {} /\ Positions(sendDataBuffer, Mine(id)) = {}
  BY <1>1, <1>2
<1>. QED  BY <1>3, <1>4, PositionsAreBursts DEF Idle, View, ViewOf, NothingInFlight

\* What Placed says, in the words of the state: the pending request, and its
\* bursts, in the direction of the request and in no other.
LEMMA PlacedMeaning ==
  ASSUME TypeOK, NEW id \in Requestors, NEW t \in RequestTypes, NEW a \in Addresses,
         NEW n \in 1 .. BurstsPerRequest, Placed(id, t, a, n, View(id)),
         NEW e, e = [addr |-> a, size |-> n],
         NEW data, data = IF t = "DATA_READ" THEN pendingReadData ELSE sendDataBuffer,
         NEW other, other = IF t = "DATA_READ" THEN sendDataBuffer ELSE pendingReadData
  PROVE  /\ corePendingData[id] = <<a>>
         /\ pendingReadRequest[id] =
              IF t = "DATA_READ" THEN <<e>> ELSE <<>>
         /\ pendingWriteRequest[id] =
              IF t = "DATA_READ" THEN <<>> ELSE <<e>>
         /\ BurstsOf(id, other) = {}
         /\ \/ /\ requestQueue[id] # <<>> /\ n = BurstsPerRequest
               /\ commandQueue[id] = <<>> /\ BurstsOf(id, data) = {}
            \/ /\ requestQueue[id] = <<>>
               /\ n = Cardinality(CommandedBursts(id)) + Cardinality(BurstsOf(id, data))
               /\ \A k \in BurstsOf(id, data) : data[k].addr = a
<1> DEFINE v == View(id)
<1>1. /\ v.core = corePendingData[id] /\ v.asked = requestQueue[id]
      /\ v.cmds = commandQueue[id] /\ v.data[t] = data
      /\ v.own["DATA_READ"] = pendingReadRequest[id]
      /\ v.own["DATA_WRITE"] = pendingWriteRequest[id]
      /\ \E u \in RequestTypes \ {t} : v.data[u] = other
      /\ "DATA_READ" \in RequestTypes /\ "DATA_WRITE" \in RequestTypes
      /\ t = "DATA_READ" \/ t = "DATA_WRITE"
  BY DEF View, ViewOf, RequestTypes
<1>2. Unanswered(id, t, a, n, v) /\ (Queued(id, t, a, n, v) \/ Commanded(id, t, a, n, v))
  BY DEF Placed
<1> HIDE DEF v
<1>3. /\ corePendingData[id] = <<a>>
      /\ pendingReadRequest[id] =
           IF t = "DATA_READ" THEN <<e>> ELSE <<>>
      /\ pendingWriteRequest[id] =
           IF t = "DATA_READ" THEN <<>> ELSE <<e>>
      /\ Positions(other, Mine(id)) = {}
  BY <1>1, <1>2 DEF Unanswered
<1>4. /\ BurstsOf(id, other) = Positions(other, Mine(id))
      /\ BurstsOf(id, data) = Positions(data, Mine(id))
  BY PositionsAreBursts
<1>5. CASE Queued(id, t, a, n, v)
  <2>1. requestQueue[id] # <<>>
    BY <1>1, <1>5 DEF Queued
  <2>2. n = BurstsPerRequest /\ commandQueue[id] = <<>> /\ BurstsOf(id, data) = {}
    BY <1>1, <1>4, <1>5 DEF Queued
  <2>. QED  BY <1>3, <1>4, <2>1, <2>2
<1>6. CASE Commanded(id, t, a, n, v)
  <2>1. /\ requestQueue[id] = <<>> /\ commandQueue[id] \in Seq(CommandsOf(id, t, a))
        /\ n = Cardinality(Positions(commandQueue[id], Casts(t)))
               + Cardinality(Positions(data, Mine(id)))
        /\ \A k \in Positions(data, Mine(id)) : data[k].addr = a
    BY <1>1, <1>6 DEF Commanded
  <2>2. CommandedBursts(id) = Positions(commandQueue[id], Casts(t))
    BY <2>1, PositionsAreBursts
  <2>. QED  BY <1>3, <1>4, <2>1, <2>2
<1>. QED  BY <1>2, <1>5, <1>6

\* With every request accounted for, its bursts are where BurstsAccounted says.
LEMMA AccountedMeaning ==
  ASSUME BInv
  PROVE  BurstsAccounted
<1> SUFFICES ASSUME NEW id \in Requestors
             PROVE  LET reads  == pendingReadRequest[id]
                        writes == pendingWriteRequest[id]
                        buffer == IF reads # <<>> THEN pendingReadData ELSE sendDataBuffer
                        other  == IF reads # <<>> THEN sendDataBuffer ELSE pendingReadData
                        entry  == Head(reads \o writes)
                    IN IF corePendingData[id] = <<>>
                       THEN NothingInFlight(id) /\ reads = <<>> /\ writes = <<>>
                       ELSE /\ Len(reads) + Len(writes) = 1
                            /\ corePendingData[id] = <<entry.addr>>
                            /\ \/ /\ requestQueue[id] # <<>>
                                  /\ entry.size = BurstsPerRequest
                                  /\ commandQueue[id] = <<>>
                                  /\ BurstsOf(id, buffer) = {}
                               \/ /\ requestQueue[id] = <<>>
                                  /\ entry.size = Cardinality(CommandedBursts(id))
                                                  + Cardinality(BurstsOf(id, buffer))
                                  /\ \A k \in BurstsOf(id, buffer) :
                                       buffer[k].addr = entry.addr
                            /\ BurstsOf(id, other) = {}
  BY DEF BurstsAccounted
<1>1. TypeOK /\ Accounted(id, View(id))
  BY DEF BInv, IInv, AllAccounted
<1>2. CASE Idle(id, View(id))
  BY <1>1, <1>2, IdleMeaning
<1>3. ASSUME NEW t \in RequestTypes, NEW a \in Addresses, NEW n \in 1 .. BurstsPerRequest,
             Placed(id, t, a, n, View(id))
      PROVE  LET reads  == pendingReadRequest[id]
                 writes == pendingWriteRequest[id]
                 buffer == IF reads # <<>> THEN pendingReadData ELSE sendDataBuffer
                 other  == IF reads # <<>> THEN sendDataBuffer ELSE pendingReadData
                 entry  == Head(reads \o writes)
             IN /\ corePendingData[id] # <<>>
                /\ Len(reads) + Len(writes) = 1
                /\ corePendingData[id] = <<entry.addr>>
                /\ \/ /\ requestQueue[id] # <<>>
                      /\ entry.size = BurstsPerRequest
                      /\ commandQueue[id] = <<>>
                      /\ BurstsOf(id, buffer) = {}
                   \/ /\ requestQueue[id] = <<>>
                      /\ entry.size = Cardinality(CommandedBursts(id))
                                      + Cardinality(BurstsOf(id, buffer))
                      /\ \A k \in BurstsOf(id, buffer) : buffer[k].addr = entry.addr
                /\ BurstsOf(id, other) = {}
  <2> DEFINE e == [addr |-> a, size |-> n]
             data  == IF t = "DATA_READ" THEN pendingReadData ELSE sendDataBuffer
             other == IF t = "DATA_READ" THEN sendDataBuffer ELSE pendingReadData
  <2>1. /\ corePendingData[id] = <<a>>
        /\ pendingReadRequest[id] = IF t = "DATA_READ" THEN <<e>> ELSE <<>>
        /\ pendingWriteRequest[id] = IF t = "DATA_READ" THEN <<>> ELSE <<e>>
        /\ BurstsOf(id, other) = {}
        /\ \/ /\ requestQueue[id] # <<>> /\ n = BurstsPerRequest
              /\ commandQueue[id] = <<>> /\ BurstsOf(id, data) = {}
           \/ /\ requestQueue[id] = <<>>
              /\ n = Cardinality(CommandedBursts(id)) + Cardinality(BurstsOf(id, data))
              /\ \A k \in BurstsOf(id, data) : data[k].addr = a
    <3>1. /\ data = IF t = "DATA_READ" THEN pendingReadData ELSE sendDataBuffer
          /\ other = IF t = "DATA_READ" THEN sendDataBuffer ELSE pendingReadData
          /\ e = [addr |-> a, size |-> n]
      OBVIOUS
    <3> HIDE DEF data, other, e
    <3>. QED  BY <1>1, <1>3, <3>1, PlacedMeaning, SMTT(60)
  <2>2. e.addr = a /\ e.size = n
    OBVIOUS
  <2> HIDE DEF e
  <2>3. Head(<<e>> \o <<>>) = e /\ Head(<<>> \o <<e>>) = e /\ Len(<<e>>) = 1 /\ <<e>> # <<>>
        /\ Len(<<>>) = 0 /\ <<a>> # <<>>
    OBVIOUS
  <2>4. CASE t = "DATA_READ"
    BY <2>1, <2>2, <2>3, <2>4
  <2>5. CASE t # "DATA_READ"
    BY <2>1, <2>2, <2>3, <2>5
  <2>. QED  BY <2>4, <2>5
<1>. QED  BY <1>1, <1>2, <1>3 DEF Accounted

\* The invariant holds.
LEMMA AlwaysAccounted ==
  ASSUME NoAddressCut
  PROVE  Spec => []BInv
<1>1. Init => BInv
  BY InitAccounted
<1>2. BInv /\ [Next]_vars => BInv'
  BY NextAccounted
<1>. QED  BY <1>1, <1>2, PTL DEF Spec

\* Every unanswered request is where its bursts say it is, whatever the
\* schedulers do, if no packet's address is cut.
THEOREM BurstsAreAccounted ==
  ASSUME NoAddressCut
  PROVE  Spec => []BurstsAccounted
<1>1. BInv => BurstsAccounted
  BY AccountedMeaning
<1>. QED  BY <1>1, AlwaysAccounted, PTL

-----------------------------------------------------------------------------
(* The end of the simulation.                                              *)

\* The requestor has its answers and leaves nothing behind.
Drained(id) ==
  traceLines[id] = 0 /\ pendingRequest[id] = NoRequest /\ corePendingData[id] = <<>>

\* Once a requestor has ended its trace, nothing makes it ask again.
DoneInv ==
  /\ turn = Ended => simDone
  /\ simDone => \E id \in Requestors : Drained(id)

\* Every step leaves a requestor that has ended its trace as it is: no list
\* of it grows again.
LEMMA NextDone ==
  ASSUME NoAddressCut, BInv, DoneInv, [Next]_vars
  PROVE  DoneInv'
<1>1. /\ TypeOK /\ IInv /\ AllAccounted /\ NumRequestors \in Nat
      /\ corePendingData \in [Requestors -> Seq(Addresses)]
      /\ traceLines \in [Requestors -> Nat] /\ DOMAIN pendingRequest = Requestors
  BY ConstantsAssumption DEF BInv, IInv, TypeOK
<1>2. ASSUME NEW id \in Requestors, Update(id)
      PROVE  DoneInv'
  <2>1. turn' # Ended
    BY <1>1, <1>2 DEF Update, UpdateSend, UpdateWait, UpdateBlocked, UpdateBlank,
       UpdateEnd, Requestors, Ended
  <2>2. CASE UpdateEnd(id)
    <3>1. Drained(id)'
      BY <1>1, <2>2 DEF UpdateEnd, MayRead, Blocked, Drained, pendingVars
    <3>. QED  BY <2>1, <3>1 DEF DoneInv
  <2>3. CASE UpdateBlocked(id)
    BY <2>1, <2>3 DEF UpdateBlocked, requestorVars, pendingVars, DoneInv, Drained
  <2>4. CASE UpdateSend(id) \/ UpdateWait(id) \/ UpdateBlank(id)
    <3>1. ~ Drained(id) /\ simDone' = simDone
      <4>1. simDone' = simDone
        BY <2>4 DEF UpdateSend, UpdateWait, UpdateBlank
      <4>2. ReadingTraceFile(id) # {} \/ traceLines[id] > 0
        BY <2>4 DEF UpdateSend, UpdateWait, UpdateBlank
      <4>3. Drained(id) => ReadingTraceFile(id) = {} /\ ~ (traceLines[id] > 0)
        BY DEF Drained, ReadingTraceFile, MayRead, Blocked
      <4>. QED  BY <4>1, <4>2, <4>3
    <3>2. ASSUME NEW j \in Requestors \ {id}, Drained(j)
          PROVE  Drained(j)'
      BY <1>1, <2>4, <3>2 DEF UpdateSend, UpdateWait, UpdateBlank, LinesAfterReading,
         Drained, pendingVars
    <3>. QED  BY <2>1, <3>1, <3>2 DEF DoneInv
  <2>. QED  BY <1>2, <2>2, <2>3, <2>4 DEF Update
<1>3. ASSUME NEW queues, NEW buffers, AtMostOneAnswer(queues, buffers),
             UNCHANGED requestorVars, turn' = Ended => simDone
      PROVE  DoneInv'
  <2>1. ASSUME NEW j \in Requestors, Drained(j)
        PROVE  Drained(j)'
    BY <1>1, <1>3, <2>1 DEF Drained, requestorVars, AtMostOneAnswer
  <2>. QED  BY <1>3, <2>1 DEF DoneInv, requestorVars
<1>4. CASE Step
  <2>1. PICK chosen \in SUBSET Requesting, hits \in SUBSET Requesting :
          StepNoCommand(chosen, hits) \/ \E c \in Requestors : StepCommand(c, chosen, hits)
    BY <1>4 DEF Step
  <2>2. UNCHANGED requestorVars /\ turn' # Ended
    BY <1>1, <2>1 DEF StepNoCommand, StepCommand, Ended
  <2>. QED  BY <1>1, <1>3, <2>1, <2>2, StepAccounted
<1>5. CASE MemoryUpdate
  <2>1. UNCHANGED requestorVars /\ (turn' = Ended => simDone)
    BY <1>1, <1>5 DEF MemoryUpdate, Ended
  <2>. QED  BY <1>1, <1>3, <1>5, <2>1, MemoryUpdateAccounted
<1>6. CASE UNCHANGED vars
  BY <1>6 DEF vars, requestorVars, pendingVars, DoneInv, Drained, Ended
<1>. QED  BY <1>2, <1>4, <1>5, <1>6 DEF Next, Exit

\* When the simulation stops, a requestor has all its answers and nothing of
\* it is left in the controller or on the bus.
THEOREM EndedRequestorsDrain ==
  ASSUME NoAddressCut
  PROVE  Spec => []EndedRequestorDrained
<1>1. Init => BInv /\ DoneInv
  <2>1. ASSUME Init
        PROVE  DoneInv
    BY <2>1, ConstantsAssumption DEF Init, DoneInv, Ended
  <2>. QED  BY <2>1, InitAccounted
<1>2. BInv /\ DoneInv /\ [Next]_vars => (BInv /\ DoneInv)'
  BY NextAccounted, NextDone
<1>3. BInv /\ DoneInv => EndedRequestorDrained
  <2> SUFFICES ASSUME BInv, DoneInv, turn = Ended
               PROVE  \E id \in Requestors :
                        /\ traceLines[id] = 0 /\ pendingRequest[id] = NoRequest
                        /\ corePendingData[id] = <<>> /\ NothingInFlight(id)
    BY DEF EndedRequestorDrained
  <2>1. PICK id \in Requestors : Drained(id)
    BY DEF DoneInv
  <2>2. Idle(id, View(id))
    <3>1. (View(id)).core = <<>>
      BY <2>1 DEF Drained, View, ViewOf
    <3>. QED  BY <3>1, UnaskedIdle DEF BInv, AllAccounted
  <2>. QED  BY <2>1, <2>2, IdleMeaning DEF Drained, BInv, IInv
<1>. QED  BY <1>1, <1>2, <1>3, PTL DEF Spec

-----------------------------------------------------------------------------
(* The service of RequestService.                                          *)

\* Where the requests stand, by the unanswered addresses and what is left in
\* the queues: with every request accounted for, one that has a command left
\* has a column access left.
Stands(core, queues, buffers) ==
  [id \in Requestors |->
     IF core[id] = <<>> THEN "idle"
     ELSE IF queues[id] # <<>> \/ buffers[id] # <<>> THEN "queued" ELSE "accessed"]

\* They are the stages of all requestors.
StagesStand == [id \in Requestors |-> Stage(id)]
                 = Stands(corePendingData, requestQueue, commandQueue)

\* The stages of RequestService are where the requests stand.
LEMMA StagesAreStands ==
  ASSUME BInv
  PROVE  StagesStand
<1> SUFFICES ASSUME NEW id \in Requestors, corePendingData[id] # <<>>,
                    requestQueue[id] = <<>>
             PROVE  CommandedBursts(id) # {} <=> commandQueue[id] # <<>>
  BY DEF StagesStand, Stands, Stage
<1>1. PICK t \in RequestTypes, a \in Addresses, n \in 1 .. BurstsPerRequest :
        Commanded(id, t, a, n, View(id))
  <2> DEFINE v == View(id)
  <2>1. Accounted(id, v) /\ v.core # <<>> /\ v.asked = <<>>
    BY DEF BInv, AllAccounted, View, ViewOf
  <2> HIDE DEF v
  <2>2. \E t \in RequestTypes, a \in Addresses, n \in 1 .. BurstsPerRequest :
          Commanded(id, t, a, n, v)
    BY <2>1 DEF Accounted, Idle, Placed, Queued
  <2>. QED  BY <2>2 DEF v
<1>2. /\ commandQueue[id] \in Seq(CommandsOf(id, t, a))
      /\ commandQueue[id] # <<>> => Carries(t, commandQueue[id][Len(commandQueue[id])])
  BY <1>1 DEF Commanded, View, ViewOf
<1>3. CommandedBursts(id) = Positions(commandQueue[id], Casts(t))
  BY <1>2, PositionsAreBursts DEF BInv, IInv
<1>4. ASSUME commandQueue[id] # <<>>
      PROVE  Len(commandQueue[id]) \in Positions(commandQueue[id], Casts(t))
  <2>1. /\ Len(commandQueue[id]) \in DOMAIN commandQueue[id]
        /\ commandQueue[id][Len(commandQueue[id])] \in CommandsOf(id, t, a)
    BY <1>2, <1>4
  <2>. QED  BY <1>2, <1>4, <2>1 DEF Positions, Casts, CommandsOf
<1>. QED  BY <1>3, <1>4 DEF Positions

\* An answer moves one request from accessed to idle.
LEMMA AnswerMoves ==
  ASSUME TypeOK, NEW queues, NEW buffers, AtMostOneAnswer(queues, buffers),
         NEW old, old = Stands(corePendingData, queues, buffers),
         NEW new, new = Stands(corePendingData', queues, buffers)
  PROVE  \/ new = old
         \/ \E b \in Requestors : /\ old[b] = "accessed" /\ corePendingData'[b] = <<>>
                                  /\ new = [old EXCEPT ![b] = "idle"]
<1>1. CASE corePendingData' = corePendingData
  BY <1>1
<1>2. ASSUME NEW b \in Requestors,
             queues[b] = <<>>, buffers[b] = <<>>, corePendingData[b] # <<>>,
             corePendingData' = [corePendingData EXCEPT ![b] = <<>>]
      PROVE  /\ old[b] = "accessed" /\ corePendingData'[b] = <<>>
             /\ new = [old EXCEPT ![b] = "idle"]
  BY <1>2 DEF Stands, TypeOK
<1>. QED  BY <1>1, <1>2 DEF AtMostOneAnswer

\* Scheduling a request leaves it queued: there are commands for it.
LEMMA ScheduleStands ==
  ASSUME TypeOK, NEW chosen \in SUBSET Requesting, NEW hits
  PROVE  Stands(corePendingData, LeftRequests(chosen), GeneratedAll(chosen, hits))
           = Stands(corePendingData, requestQueue, commandQueue)
<1> SUFFICES ASSUME NEW id \in Requestors, id \in chosen
             PROVE  GeneratedAll(chosen, hits)[id] # <<>> /\ requestQueue[id] # <<>>
  BY DEF Stands, LeftRequests, GeneratedAll, Generated
<1>1. requestQueue[id] # <<>>
  BY DEF Requesting
<1>2. commandQueue[id] \in Seq(Packets) /\ Head(requestQueue[id]) \in Requests
  BY <1>1 DEF TypeOK
<1> DEFINE s == CommandGenerate(id, Head(requestQueue[id]), id \in hits)
<1>3. s \in Seq(Packets) /\ s # <<>>
  <2>1. s \in Seq(Packets)
    <3>1. (id \in hits) \in BOOLEAN
      OBVIOUS
    <3>. QED  BY <1>2, <3>1, CommandGenerateType
  <2>2. Len(s) # 0
    BY ConstantsAssumption DEF CommandGenerate
  <2>. QED  BY <2>1, <2>2
<1> HIDE DEF s
<1>4. commandQueue[id] \o s # <<>>
  BY <1>2, <1>3
<1>. QED  BY <1>1, <1>4 DEF GeneratedAll, Generated, s

\* What was appended is still there when the front is dropped.
LEMMA LastStays ==
  ASSUME NEW X, NEW s \in Seq(X), NEW x \in X, s # <<>>
  PROVE  Len(s) \in DOMAIN Tail(Append(s, x)) /\ Tail(Append(s, x))[Len(s)] = x
  OBVIOUS

\* A sequence that is empty without its front has one element.
LEMMA OnlyFront ==
  ASSUME NEW X, NEW s \in Seq(X), s # <<>>, Tail(s) = <<>>
  PROVE  Len(s) = 1
<1>1. Tail(s) \in Seq(X) /\ Len(Tail(s)) = Len(s) - 1 /\ Len(s) \in Nat
  OBVIOUS
<1>2. Len(Tail(s)) = 0
  <2>1. Len(<<>>) = 0
    OBVIOUS
  <2>. QED  BY <2>1, Zenon
<1>. QED  BY <1>1, <1>2

\* The data part of step() never takes away the burst that was sent in the
\* same cycle: its counter has not run out, and it is last in the buffer.
LEMMA SentStays ==
  ASSUME IInv, NEW cmd \in Packets,
         StepData(Append(sendDataBuffer, cmd), Append(sendDataCounter, tWL + tBus))
  PROVE  \E k \in DOMAIN sendDataBuffer' : sendDataBuffer'[k] = cmd
<1> DEFINE buffer   == Append(sendDataBuffer, cmd)
           counters == Append(sendDataCounter, tWL + tBus)
<1>1. /\ sendDataBuffer \in Seq(Packets) /\ sendDataCounter \in Seq(0 .. MaxUnsigned)
      /\ Len(sendDataCounter) = Len(sendDataBuffer)
  BY DEF IInv, TypeOK, WriteCountersOrdered
<1>2. CASE sendDataBuffer' = buffer
  BY <1>1, <1>2
<1>3. CASE sendDataBuffer' = Tail(buffer) /\ Head(counters) = 0
  <2>1. sendDataBuffer # <<>>
    <3>1. sendDataBuffer = <<>> => sendDataCounter = <<>>
      BY <1>1
    <3>2. tWL + tBus # 0
      BY ConstantsAssumption
    <3>. QED  BY <1>1, <1>3, <3>1, <3>2
  <2>. QED  BY <1>1, <1>3, <2>1, LastStays
<1>. QED  BY <1>2, <1>3 DEF StepData

\* A requestor whose command is sent is not answered in the same cycle.
LEMMA SenderWaits ==
  ASSUME NoAddressCut, BInv, AllAccounted', NEW chosen \in SUBSET Requesting, NEW hits,
         NEW c \in Requestors, StepCommand(c, chosen, hits)
  PROVE  /\ corePendingData[c] # <<>> /\ corePendingData'[c] # <<>>
         /\ requestQueue'[c] = <<>> /\ GeneratedAll(chosen, hits)[c] # <<>>
<1> DEFINE v == ViewOf(c, LeftRequests(chosen), GeneratedAll(chosen, hits),
                       pendingReadData, sendDataBuffer)
           w == View(c)'
           cmd == Head(Generated(c, chosen, hits))
<1>1. Accounted(c, v) /\ v.cmds # <<>> /\ v.cmds = Generated(c, chosen, hits)
  BY ScheduledAccounted DEF BInv, IInv, ViewOf, StepCommand, GeneratedAll
<1>2. PICK t \in RequestTypes, a \in Addresses, n \in 1 .. BurstsPerRequest :
        Unanswered(c, t, a, n, v) /\ Commanded(c, t, a, n, v)
  <2> HIDE DEF v
  <2>. QED  BY <1>1 DEF Accounted, Idle, Placed, Queued
<1>3. /\ v.core # <<>> /\ v.asked = <<>> /\ v.cmds \in Seq(CommandsOf(c, t, a))
      /\ Carries(t, v.cmds[Len(v.cmds)])
  <2> HIDE DEF v
  <2>. QED  BY <1>1, <1>2 DEF Unanswered, Commanded
<1>4. requestQueue'[c] = <<>> /\ corePendingData[c] # <<>> /\ GeneratedAll(chosen, hits)[c] # <<>>
  BY <1>1, <1>3 DEF ViewOf, StepCommand, RequestSchedule, LeftRequests
<1>5. /\ Accounted(c, w) /\ w.core = corePendingData'[c]
      /\ w.cmds = Tail(v.cmds)
      /\ w.data["DATA_READ"] = pendingReadData' /\ w.data["DATA_WRITE"] = sendDataBuffer'
  BY <1>1 DEF AllAccounted, View, ViewOf, StepCommand, RequestTypes
<1>6. cmd \in CommandsOf(c, t, a) /\ cmd \in Packets /\ cmd \in Mine(c)
  <2>1. cmd \in CommandsOf(c, t, a)
    BY <1>1, <1>3
  <2>. QED  BY <2>1 DEF CommandsOf, Mine
<1>7. ASSUME corePendingData'[c] = <<>>
      PROVE  FALSE
  <2>1. w.cmds = <<>> /\ \A u \in RequestTypes : Positions(w.data[u], Mine(c)) = {}
    <3> HIDE DEF w
    <3>. QED  BY <1>5, <1>7, UnaskedIdle DEF Idle
  <2>2. Carries(t, cmd)
    <3> HIDE DEF w, v
    <3>1. Len(v.cmds) = 1
      BY <1>1, <1>3, <1>5, <2>1, OnlyFront
    <3>. QED  BY <1>1, <1>3, <3>1
  <2>3. IsRead(cmd) \/ IsWrite(cmd)
    BY <2>2 DEF Carries
  <2>4. CASE IsRead(cmd)
    <3>1. pendingReadData' = Append(pendingReadData, cmd)
      BY <2>4 DEF StepCommand, GenerateData
    <3>2. pendingReadData \in Seq(Packets)
      BY DEF BInv, IInv, TypeOK
    <3> HIDE DEF cmd
    <3>3. \E k \in DOMAIN pendingReadData' : pendingReadData'[k] = cmd
      BY <1>6, <3>1, <3>2
    <3>. QED  BY <1>5, <1>6, <2>1, <3>3 DEF Positions, RequestTypes
  <2>5. CASE IsWrite(cmd)
    <3>1. StepData(Append(sendDataBuffer, cmd), Append(sendDataCounter, tWL + tBus))
      BY <2>5 DEF StepCommand
    <3> HIDE DEF cmd
    <3>2. \E k \in DOMAIN sendDataBuffer' : sendDataBuffer'[k] = cmd
      BY <1>6, <3>1, SentStays DEF BInv
    <3>. QED  BY <1>5, <1>6, <2>1, <3>2 DEF Positions, RequestTypes
  <2>. QED  BY <2>3, <2>4, <2>5
<1>. QED  BY <1>4, <1>7

-----------------------------------------------------------------------------
(* Every step of the channel is one of the service, or a stutter.          *)

\* What a step does to the service, with `old' and `new' where the requests
\* stand before and after it.
ServiceStep(old, new) ==
  \/ new = old
  \/ \E c \in Requestors :
       \/ old[c] = "idle"     /\ new = [old EXCEPT ![c] = "queued"]
       \/ old[c] = "queued"   /\ new = [old EXCEPT ![c] = "accessed"]
       \/ old[c] = "accessed" /\ new = [old EXCEPT ![c] = "idle"]
  \/ \E c, d \in Requestors :
       /\ old[c] = "queued" /\ old[d] = "accessed"
       /\ new = [old EXCEPT ![c] = "accessed", ![d] = "idle"]

\* The same of the present state.
Standing == Stands(corePendingData, requestQueue, commandQueue)

\* Requestor::update sends a request or changes nothing for the service.
LEMMA UpdateServes ==
  ASSUME BInv, NEW id \in Requestors, Update(id)
  PROVE  ServiceStep(Standing, Standing')
<1>1. /\ corePendingData \in [Requestors -> Seq(Addresses)]
      /\ requestQueue \in [Requestors -> Seq(Requests)]
  BY DEF BInv, IInv, TypeOK
<1>2. CASE UpdateSend(id)
  <2>1. PICK next \in ReadingTraceFile(id) :
          /\ requestQueue' = [requestQueue EXCEPT ![id] =
                                Append(@, [type |-> next.type, addr |-> next.addr])]
          /\ corePendingData' = [corePendingData EXCEPT ![id] = Append(@, next.addr)]
    BY <1>2 DEF UpdateSend, AddRequest
  <2>2. corePendingData[id] = <<>> /\ UNCHANGED commandQueue
    BY <1>2, ReadsUnblocked DEF BInv, UpdateSend
  <2>3. Standing[id] = "idle" /\ Standing' = [Standing EXCEPT ![id] = "queued"]
    <3>1. Standing[id] = "idle"
      BY <2>2 DEF Standing, Stands
    <3>2. /\ corePendingData'[id] # <<>> /\ requestQueue'[id] # <<>>
          /\ \A j \in Requestors \ {id} :
               corePendingData'[j] = corePendingData[j] /\ requestQueue'[j] = requestQueue[j]
      BY <1>1, <2>1
    <3>3. Standing' = [Standing EXCEPT ![id] = "queued"]
      BY <2>2, <3>2 DEF Standing, Stands
    <3>. QED  BY <3>1, <3>3
  <2>. QED  BY <2>3 DEF ServiceStep
<1>3. CASE UpdateWait(id) \/ UpdateBlocked(id) \/ UpdateBlank(id) \/ UpdateEnd(id)
  <2>1. UNCHANGED <<corePendingData, requestQueue, commandQueue>>
    BY <1>3 DEF UpdateWait, UpdateBlocked, UpdateBlank, UpdateEnd, queueVars, pendingVars
  <2>. QED  BY <2>1 DEF Standing, ServiceStep
<1>. QED  BY <1>2, <1>3 DEF Update

\* step() sends at most one last column access and answers at most one
\* request, of another requestor.
LEMMA StepServes ==
  ASSUME NoAddressCut, BInv, NEW chosen \in SUBSET Requesting, NEW hits,
         StepNoCommand(chosen, hits) \/ \E c \in Requestors : StepCommand(c, chosen, hits)
  PROVE  ServiceStep(Standing, Standing')
<1> DEFINE old == Standing
           mid == Stands(corePendingData, requestQueue', commandQueue')
           new == Standing'
           all == GeneratedAll(chosen, hits)
<1>1. TypeOK /\ AllAccounted' /\ AtMostOneAnswer(requestQueue', commandQueue')
  BY StepAccounted DEF BInv, IInv
<1>2. \/ new = mid
      \/ \E b \in Requestors : /\ mid[b] = "accessed" /\ corePendingData'[b] = <<>>
                               /\ new = [mid EXCEPT ![b] = "idle"]
  BY <1>1, AnswerMoves DEF Standing
<1>3. /\ requestQueue' = LeftRequests(chosen)
      /\ old = Stands(corePendingData, requestQueue', all)
  BY <1>1, ScheduleStands DEF StepNoCommand, StepCommand, RequestSchedule, LeftRequests, Standing
<1>4. CASE StepNoCommand(chosen, hits)
  <2>1. mid = old
    BY <1>3, <1>4 DEF StepNoCommand, GeneratedAll
  <2>. QED  BY <1>2, <2>1 DEF ServiceStep
<1>5. ASSUME NEW c \in Requestors, StepCommand(c, chosen, hits)
      PROVE  ServiceStep(old, new)
  <2>1. /\ corePendingData[c] # <<>> /\ corePendingData'[c] # <<>>
        /\ requestQueue'[c] = <<>> /\ all[c] # <<>>
    BY <1>1, <1>5, SenderWaits
  <2>2. commandQueue' = SentFrom(all, c)
    BY <1>5 DEF StepCommand, GeneratedAll, SentFrom
  <2> HIDE DEF all
  <2>3. old[c] = "queued" /\ (mid = old \/ mid = [old EXCEPT ![c] = "accessed"])
    BY <1>3, <2>1, <2>2 DEF Stands, SentFrom
  <2>4. old = [id \in Requestors |-> old[id]]
    BY DEF Standing, Stands
  <2> HIDE DEF old, mid, new
  <2>5. CASE new = mid
    BY <2>3, <2>5 DEF ServiceStep
  <2>6. ASSUME NEW b \in Requestors, mid[b] = "accessed", corePendingData'[b] = <<>>,
               new = [mid EXCEPT ![b] = "idle"]
        PROVE  ServiceStep(old, new)
    <3>1. b # c
      BY <2>1, <2>6
    <3>2. old[b] = "accessed"
      BY <2>3, <2>4, <2>6, <3>1
    <3>3. CASE mid = old
      BY <2>6, <3>2, <3>3 DEF ServiceStep
    <3>4. CASE mid = [old EXCEPT ![c] = "accessed"]
      <4>1. new = [old EXCEPT ![c] = "accessed", ![b] = "idle"]
        BY <2>6, <3>4
      <4>. QED  BY <2>3, <3>2, <4>1 DEF ServiceStep
    <3>. QED  BY <2>3, <3>3, <3>4
  <2>. QED  BY <1>2, <2>5, <2>6
<1>. QED  BY <1>4, <1>5

\* MemorySystem::update answers at most one request.
LEMMA MemoryUpdateMoves ==
  ASSUME BInv, MemoryUpdate
  PROVE  \/ Standing' = Standing
         \/ \E b \in Requestors : /\ Standing[b] = "accessed"
                                  /\ Standing' = [Standing EXCEPT ![b] = "idle"]
<1>1. /\ AtMostOneAnswer(requestQueue, commandQueue) /\ TypeOK
      /\ UNCHANGED <<requestQueue, commandQueue>>
  BY MemoryUpdateAccounted DEF BInv, IInv, MemoryUpdate, queueVars
<1>2. Standing' = Stands(corePendingData', requestQueue, commandQueue)
  BY <1>1 DEF Standing
<1>3. \/ Standing' = Standing
      \/ \E b \in Requestors : /\ Standing[b] = "accessed" /\ corePendingData'[b] = <<>>
                               /\ Standing' = [Standing EXCEPT ![b] = "idle"]
  BY <1>1, <1>2, AnswerMoves DEF Standing
<1>. QED  BY <1>3

\* Whatever the schedulers do, a requestor has at most one request, is answered
\* only after the last column access of it, and once; an answer and a column
\* access that come in the same cycle belong to different requestors.
THEOREM ChannelImplementsService ==
  ASSUME NoAddressCut
  PROVE  Spec => ImplementsService
<1>1. Init => BInv /\ Service!Init
  <2> SUFFICES ASSUME Init
               PROVE  BInv /\ Service!Init
    OBVIOUS
  <2>1. \A id \in Requestors : Stage(id) = "idle"
    BY DEF Init, Stage
  <2>2. turn # Ended
    BY ConstantsAssumption DEF Init, Ended
  <2>. QED  BY <2>1, <2>2, InitAccounted DEF Service!Init
<1>2. BInv /\ [Next]_vars => BInv'
  BY NextAccounted
<1>3. BInv => StagesStand
  BY StagesAreStands
<1>4. BInv /\ StagesStand /\ StagesStand' /\ [Next]_vars => [Service!Next]_(Service!vars)
  <2> SUFFICES ASSUME BInv, StagesStand, StagesStand', [Next]_vars
               PROVE  [Service!Next]_(Service!vars)
    OBVIOUS
  <2>1. /\ [id \in Requestors |-> Stage(id)] = Standing
        /\ [id \in Requestors |-> Stage(id)]' = Standing'
    BY DEF StagesStand, Standing
  <2>2. NumRequestors \in Nat /\ Requestors = 0 .. NumRequestors - 1
    BY ConstantsAssumption DEF Requestors
  <2> DEFINE old == Standing
             new == Standing'
  <2>3. ASSUME ServiceStep(old, new), turn # Ended, turn' # Ended
        PROVE  [Service!Next]_(Service!vars)
    <3>1. CASE new = old
      BY <2>1, <2>3, <3>1 DEF Service!vars, Ended
    <3>2. ASSUME NEW c \in Requestors, old[c] = "idle", new = [old EXCEPT ![c] = "queued"]
          PROVE  Service!Request(c)
      BY <2>1, <2>3, <3>2 DEF Service!Request, Service!Moves, Ended
    <3>3. ASSUME NEW c \in Requestors, old[c] = "queued", new = [old EXCEPT ![c] = "accessed"]
          PROVE  Service!Access(c)
      BY <2>1, <2>3, <3>3 DEF Service!Access, Service!Moves, Ended
    <3>4. ASSUME NEW c \in Requestors, old[c] = "accessed", new = [old EXCEPT ![c] = "idle"]
          PROVE  Service!Answer(c)
      BY <2>1, <2>3, <3>4 DEF Service!Answer, Service!Moves, Ended
    <3>5. ASSUME NEW c \in Requestors, NEW d \in Requestors,
                 old[c] = "queued", old[d] = "accessed",
                 new = [old EXCEPT ![c] = "accessed", ![d] = "idle"]
          PROVE  Service!AccessAndAnswer(c, d)
      BY <2>1, <2>3, <3>5 DEF Service!AccessAndAnswer, Ended
    <3>. QED  BY <2>3, <3>1, <3>2, <3>3, <3>4, <3>5 DEF ServiceStep, Service!Next
  <2>4. ASSUME NEW id \in Requestors, Update(id)
        PROVE  [Service!Next]_(Service!vars)
    <3>1. turn # Ended /\ turn' # Ended
      BY <2>2, <2>4 DEF Update, UpdateSend, UpdateWait, UpdateBlocked, UpdateBlank,
         UpdateEnd, Ended
    <3>. QED  BY <2>3, <2>4, <3>1, UpdateServes
  <2>5. CASE Step
    <3>1. PICK chosen \in SUBSET Requesting, hits \in SUBSET Requesting :
            StepNoCommand(chosen, hits) \/ \E c \in Requestors : StepCommand(c, chosen, hits)
      BY <2>5 DEF Step
    <3>2. turn # Ended /\ turn' # Ended
      BY <2>2, <3>1 DEF StepNoCommand, StepCommand, Ended
    <3>. QED  BY <2>3, <3>1, <3>2, StepServes
  <2>6. CASE MemoryUpdate
    <3>1. turn # Ended
      BY <2>2, <2>6 DEF MemoryUpdate, Ended
    <3>2. \/ new = old
          \/ \E b \in Requestors : old[b] = "accessed" /\ new = [old EXCEPT ![b] = "idle"]
      BY <2>6, MemoryUpdateMoves
    <3>3. CASE new = old
      BY <2>1, <3>1, <3>3 DEF Service!Next, Service!Stop, Service!vars, Ended
    <3>4. ASSUME NEW b \in Requestors, old[b] = "accessed", new = [old EXCEPT ![b] = "idle"]
          PROVE  Service!Answer(b)
      BY <2>1, <3>1, <3>4 DEF Service!Answer, Service!Moves, Ended
    <3>. QED  BY <3>2, <3>3, <3>4 DEF Service!Next
  <2>7. CASE UNCHANGED vars
    <3>1. UNCHANGED <<turn, Standing>>
      BY <2>7 DEF vars, queueVars, pendingVars, Standing
    <3>. QED  BY <2>1, <3>1 DEF Service!vars, Ended
  <2>. QED  BY <2>4, <2>5, <2>6, <2>7 DEF Next, Exit
<1>. QED  BY <1>1, <1>2, <1>3, <1>4, PTL DEF Spec, ImplementsService, Service!SafeSpec
=============================================================================

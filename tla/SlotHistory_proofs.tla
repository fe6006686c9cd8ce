------------------------- MODULE SlotHistory_proofs --------------------------
(***************************************************************************)
(* Proofs about the channel under RR and FCFS.                             *)
(*                                                                         *)
(* The channel with slots implements the channel under any scheduler, so   *)
(* that what is proved of the second holds of the first.                   *)
(*                                                                         *)
(* Turns: TurnsInOrder is inductive.  That nobody is overtaken twice is    *)
(* not: who was served since another asked is behind the other in the      *)
(* turn from now on, counted around the list from the index (Distance).    *)
(* OvertakenOnce says so.  A slot takes from every distance what it moves  *)
(* the index, and only the one that is served goes to the end; a newcomer  *)
(* joins the list at its end.                                              *)
(*                                                                         *)
(* Slots: what the device may still refuse is bounded by the place of the  *)
(* cycle in its slot (SlotInv).  Between the slots' commands nobody has    *)
(* any; then the one requestor of the slot is about to open its row, or    *)
(* to access it, and the device is ready for that exactly when it is due   *)
(* (ReadyAt).  A command adds no more to the waits than is left, as a slot *)
(* is long enough; the rows have recovered when the next slot begins       *)
(* (RowsRecovered), of which the device knows nothing.                     *)
(*                                                                         *)
(* Latency: LatencyInv says how long a requestor has waited by the place   *)
(* of its request.  In the queue it has waited for those who overtook it,  *)
(* of whom there are as many as there are others at most (LineIsBounded).  *)
(* Its commands leave as SlotInv says, and the counters of its burst count *)
(* down by one in each cycle, as WriteCountersOrdered and                  *)
(* ReadCountersOrdered have it.  A request is in one of these places until *)
(* it is answered (RequestIsPlaced), so that there is no other wait.       *)
(***************************************************************************)
EXTENDS SlotHistory, MemoryController_proofs, DDR3_proofs, FiniteSetTheorems

(* The system implements the channel.                                      *)

\* The requestor that gets a slot and the command FCFS sends are choices Step
\* leaves open.
LEMMA SlotStepIsStep ==
  ASSUME SlotNext
  PROVE  Next
<1>1. CASE \E id \in Requestors : SlotUpdate(id)
  BY <1>1 DEF SlotUpdate, Next
<1>2. CASE SlotStep
  <2>1. Chosen \in SUBSET Requesting /\ {} \in SUBSET Chosen
    BY DEF Chosen, Places
  <2>. QED  BY <1>2, <2>1 DEF SlotStep, Step, Next
<1>3. CASE SlotMemoryUpdate
  BY <1>3 DEF SlotMemoryUpdate, Next
<1>4. CASE SlotExit
  BY <1>4 DEF SlotExit, Next
<1>. QED  BY <1>1, <1>2, <1>3, <1>4 DEF SlotNext

\* Every behaviour of the channel with RR, FCFS and the device is one of
\* MemoryController.
THEOREM SlotsImplementChannel == SlotSpec => Spec
<1>1. SlotInit => Init
  BY DEF SlotInit
<1>2. [SlotNext]_slotSystemVars => [Next]_vars
  <2>1. SlotNext => Next
    BY SlotStepIsStep
  <2>2. UNCHANGED slotSystemVars => UNCHANGED vars
    BY DEF slotSystemVars
  <2>. QED  BY <2>1, <2>2
<1>. QED  BY <1>1, <1>2, PTL DEF SlotSpec, Spec

\* No write burst of the system with slots waits behind another, and no
\* counter of one wraps.
THEOREM SlotWriteBurstsLeaveInTime == SlotSpec => []WriteCountersOrdered
  BY SlotsImplementChannel, WriteBurstsLeaveInTime

\* Nor is a read burst returned late.
THEOREM SlotReadBurstsReturnInTime == SlotSpec => []ReadCountersOrdered
  BY SlotsImplementChannel, ReadBurstsReturnInTime

\* Every unanswered request is where its bursts say it is, if no packet's
\* address is cut.
THEOREM SlotBurstsAreAccounted ==
  ASSUME NoAddressCut
  PROVE  SlotSpec => []BurstsAccounted
  BY SlotsImplementChannel, BurstsAreAccounted

\* The channel answers a request once, after its last column access, if no
\* packet's address is cut.
THEOREM SlotsImplementService ==
  ASSUME NoAddressCut
  PROVE  SlotSpec => ImplementsService
  BY SlotsImplementChannel, ChannelImplementsService

-----------------------------------------------------------------------------
(* Turns.                                                                  *)

\* A set of naturals that is not empty has a least element.
LEMMA LeastOf ==
  ASSUME NEW S \in SUBSET Nat, S # {}
  PROVE  Min(S) \in S /\ \A y \in S : Min(S) <= y
<1>1. PICK m \in S : \A y \in S : ~ (<<y, m>> \in OpToRel(<, Nat))
  BY NatLessThanWellFounded, WFMin
<1>2. OpToRel(<, Nat) = {p \in Nat \X Nat : p[1] < p[2]}
  BY DEF OpToRel
<1>3. ASSUME NEW y \in S
      PROVE  m <= y
  <2>1. <<y, m>> \in Nat \X Nat
    OBVIOUS
  <2>2. ~ (y < m)
    BY <1>1, <1>2, <2>1
  <2>. QED  BY <2>2
<1>. QED  BY <1>3 DEF Min

\* Nobody waits at first, and the list is empty.
LEMMA TurnsInit ==
  ASSUME SlotInit
  PROVE  TurnsInOrder
<1>1. \A id \in Requestors : requestQueue[id] = <<>>
  BY DEF SlotInit, Init
<1>2. slotCounter = 0 /\ requestorOrder = <<>> /\ queueRequestorIndex = 0
  BY DEF SlotInit
<1>3. Requesting = {}
  BY <1>1 DEF Requesting
<1>4. timeSlot \in Nat \ {0}
  BY SlotAssumption DEF SlotAssumption
<1>. QED  BY <1>2, <1>3, <1>4 DEF TurnsInOrder

\* A requestor that sends a request joins the list, at its end.
LEMMA TurnsUpdate ==
  ASSUME TypeOK, TurnsInOrder, NEW id \in Requestors, SlotUpdate(id)
  PROVE  TurnsInOrder'
<1>. DEFINE order == requestorOrder
<1>1. order \in Seq(Requestors) /\ queueRequestorIndex \in 0 .. Len(order)
  BY DEF TurnsInOrder
<1>2. \A other \in Requestors :
        other # id => requestQueue'[other] = requestQueue[other]
  <2>1. requestQueue \in [Requestors -> Seq(Requests)]
    BY DEF TypeOK
  <2>2. \/ requestQueue' = requestQueue
        \/ \E req : requestQueue' = [requestQueue EXCEPT ![id] = Append(@, req)]
    BY DEF SlotUpdate, Update, UpdateSend, UpdateWait, UpdateBlocked,
           UpdateBlank, UpdateEnd, AddRequest, queueVars
  <2>. QED  BY <2>1, <2>2
<1>3. ToSet(order) = {order[i] : i \in DOMAIN order}
  BY DEF ToSet
<1>4. CASE order' = order
  <2>1. requestQueue'[id] = <<>> \/ id \in ToSet(order)
    <3>1. Append(order, id) # order
      BY <1>1
    <3>. QED  BY <1>4, <3>1 DEF SlotUpdate
  <2>2. \A other \in Requesting' : \E i \in DOMAIN order : order[i] = other
    BY <1>2, <1>3, <2>1 DEF TurnsInOrder, Requesting
  <2>. QED  BY <1>4, <2>2 DEF TurnsInOrder, SlotUpdate
<1>5. CASE order' = Append(order, id) /\ id \notin ToSet(order)
  <2>1. /\ order' \in Seq(Requestors) /\ Len(order') = Len(order) + 1
        /\ DOMAIN order' = DOMAIN order \cup {Len(order) + 1}
        /\ order'[Len(order) + 1] = id
        /\ \A i \in DOMAIN order : order'[i] = order[i]
    BY <1>1, <1>5
  <2>2. queueRequestorIndex < Len(order')
    BY <1>1, <2>1 DEF TurnsInOrder
  <2>3. \A i, j \in DOMAIN order' : order'[i] = order'[j] => i = j
    BY <1>3, <1>5, <2>1 DEF TurnsInOrder
  <2>4. \A other \in Requesting' : \E i \in DOMAIN order' : order'[i] = other
    BY <1>2, <2>1 DEF TurnsInOrder, Requesting
  <2>. QED  BY <2>1, <2>2, <2>3, <2>4 DEF TurnsInOrder, SlotUpdate
<1>. QED  BY <1>4, <1>5 DEF SlotUpdate

\* A slot moves the turn on, around the list.
LEMMA TurnsStep ==
  ASSUME TypeOK, TurnsInOrder, SlotStep
  PROVE  TurnsInOrder'
<1>1. requestorOrder' = requestorOrder
  BY DEF SlotStep
<1>2. slotCounter' \in 0 .. timeSlot - 1
  BY SlotAssumption DEF SlotAssumption, SlotStep, SlotCounterAfter, TurnsInOrder
<1>3. /\ queueRequestorIndex' \in 0 .. Len(requestorOrder)
      /\ requestorOrder # <<>> => queueRequestorIndex' < Len(requestorOrder)
  <2>1. CASE Places = {}
    BY <2>1 DEF SlotStep, TurnAfter, TurnsInOrder
  <2>2. CASE Places # {}
    <3>1. Places \subseteq 0 .. Len(requestorOrder) - 1
      BY DEF Places
    <3>2. Len(requestorOrder) \in Nat \ {0}
      <4>1. Len(requestorOrder) \in Nat
        BY DEF TurnsInOrder
      <4>2. PICK k \in Places : k \in 0 .. Len(requestorOrder) - 1
        BY <2>2, <3>1
      <4>. QED  BY <4>1, <4>2
    <3>3. Min(Places) \in Nat
      <4>1. Places \subseteq Nat
        BY <3>1
      <4>2. Min(Places) \in Places
        BY <2>2, <4>1, LeastOf
      <4>. QED  BY <4>1, <4>2
    <3>4. queueRequestorIndex'
            = (queueRequestorIndex + Min(Places) + 1) % Len(requestorOrder)
      BY <2>2 DEF SlotStep, TurnAfter
    <3>5. queueRequestorIndex + Min(Places) + 1 \in Nat
      BY <3>3 DEF TurnsInOrder
    <3>6. \A a \in Nat, n \in Nat \ {0} : a % n \in 0 .. n - 1
      OBVIOUS
    <3>7. queueRequestorIndex' \in 0 .. Len(requestorOrder) - 1
      BY <3>2, <3>4, <3>5, <3>6, Zenon
    <3>. QED  BY <3>2, <3>7
  <2>. QED  BY <2>1, <2>2
<1>4. Requesting' \subseteq Requesting
  <2>1. RequestSchedule(Chosen)
    BY DEF SlotStep, StepNoCommand, StepCommand
  <2>2. \A id \in Requestors :
          requestQueue'[id] = IF id \in Chosen THEN Tail(requestQueue[id])
                                               ELSE requestQueue[id]
    BY <2>1 DEF RequestSchedule
  <2>3. Chosen \subseteq Requesting
    BY DEF Chosen, Places
  <2>. QED  BY <2>2, <2>3 DEF Requesting
<1>. QED  BY <1>1, <1>2, <1>3, <1>4 DEF TurnsInOrder

\* The index of RR never leaves its list, and nobody who waits is missing.
THEOREM TurnsStayInOrder == SlotSpec => []TurnsInOrder
<1>1. SlotInit => TurnsInOrder
  BY TurnsInit
<1>2. TypeOK /\ TurnsInOrder /\ [SlotNext]_slotSystemVars => TurnsInOrder'
  <2>. SUFFICES ASSUME TypeOK, TurnsInOrder, [SlotNext]_slotSystemVars
                PROVE  TurnsInOrder'
    OBVIOUS
  <2>1. CASE \E id \in Requestors : SlotUpdate(id)
    BY <2>1, TurnsUpdate
  <2>2. CASE SlotStep
    BY <2>2, TurnsStep
  <2>3. CASE UNCHANGED <<requestQueue, slotCounter, requestorOrder,
                         queueRequestorIndex>>
    BY <2>3 DEF TurnsInOrder, Requesting
  <2>4. CASE SlotMemoryUpdate
    BY <2>3, <2>4 DEF SlotMemoryUpdate, MemoryUpdate, queueVars
  <2>5. CASE SlotExit
    BY <2>3, <2>5 DEF SlotExit, Exit, slotVars, vars, queueVars
  <2>6. CASE UNCHANGED slotSystemVars
    BY <2>3, <2>6 DEF slotSystemVars, slotVars, vars, queueVars
  <2>. QED  BY <2>1, <2>2, <2>4, <2>5, <2>6 DEF SlotNext
<1>. QED  BY <1>1, <1>2, SlotsImplementChannel, TypeCorrect, PTL DEF SlotSpec

-----------------------------------------------------------------------------
(* Nobody is overtaken twice.                                              *)

\* The system with its history is the system without.
LEMMA ObservedIsSystem == ObservedSpec => SlotSpec
<1>1. ObservedInit => SlotInit
  BY DEF ObservedInit
<1>2. [ObservedNext]_observedVars => [SlotNext]_slotSystemVars
  BY DEF ObservedNext, observedVars, SlotNext
<1>. QED  BY <1>1, <1>2, PTL DEF ObservedSpec, SlotSpec

\* A place less than a turn past the end of the list, counted from its start.
Wrapped(a, n) == IF a < n THEN a ELSE a - n

\* The modulo of TurnAfter is one subtraction: an index is never two turns on.
LEMMA ModIsWrapped ==
  ASSUME NEW n \in Nat \ {0}, NEW a \in 0 .. 2 * n - 1
  PROVE  a % n = Wrapped(a, n)
<1>1. CASE a < n
  BY <1>1 DEF Wrapped
<1>2. CASE a >= n
  <2>1. a % n = (a - n) % n
    BY <1>2
  <2>2. (a - n) % n = a - n
    BY <1>2
  <2> QED
    BY <1>2, <2>1, <2>2 DEF Wrapped
<1> QED
  BY <1>1, <1>2

\* How many turns the requestor at place i of the list waits for.
Distance(i, index, n) == IF i > index THEN i - index - 1 ELSE i - index - 1 + n

\* id comes before other in the turn that starts at the index.
AheadIn(order, index, id, other) ==
  \E i, j \in 1 .. Len(order) :
    /\ order[i] = id /\ order[j] = other
    /\ Distance(i, index, Len(order)) < Distance(j, index, Len(order))

\* Whoever has had a slot since id asked for its own is behind id now.
OvertakenOnce ==
  /\ overtaken \in [Requestors \X Requestors -> {0, 1}]
  /\ \A id, other \in Requestors :
       overtaken[<<id, other>>] = 1 =>
         id \in Requesting /\ AheadIn(requestorOrder, queueRequestorIndex, id, other)

\* A requestor that joins the list joins it behind all others.
LEMMA AheadAppend ==
  ASSUME NEW order \in Seq(Requestors), NEW index \in 0 .. Len(order), NEW new \in Requestors,
         NEW id, NEW other, AheadIn(order, index, id, other)
  PROVE  AheadIn(Append(order, new), index, id, other)
<1>1. PICK i \in 1 .. Len(order), j \in 1 .. Len(order) :
        /\ order[i] = id /\ order[j] = other
        /\ Distance(i, index, Len(order)) < Distance(j, index, Len(order))
  BY DEF AheadIn
<1>2. /\ Len(Append(order, new)) = Len(order) + 1 /\ Len(order) \in Nat
      /\ Append(order, new)[i] = id /\ Append(order, new)[j] = other
  BY <1>1
<1>3. Distance(i, index, Len(order) + 1) < Distance(j, index, Len(order) + 1)
  BY <1>1, <1>2 DEF Distance
<1>. QED  BY <1>2, <1>3 DEF AheadIn

\* The one k turns from the index gets a slot, and goes to the end.
LEMMA DistanceAfter ==
  ASSUME NEW n \in Nat, NEW index \in 0 .. n - 1, NEW k \in 0 .. n - 1, NEW i \in 1 .. n,
         NEW after, after = (index + k + 1) % n
  PROVE  /\ Distance(i, index, n) \in 0 .. n - 1
         /\ i = ((index + Distance(i, index, n)) % n) + 1
         /\ Distance(i, index, n) > k => Distance(i, after, n) = Distance(i, index, n) - k - 1
         /\ Distance(i, index, n) = k => Distance(i, after, n) = n - 1
<1>1. n \in Nat \ {0} /\ index + k + 1 \in 0 .. 2 * n - 1
  OBVIOUS
<1>2. after = Wrapped(index + k + 1, n)
  BY <1>1, ModIsWrapped
<1>3. Distance(i, index, n) \in 0 .. n - 1
  BY DEF Distance
<1>4. index + Distance(i, index, n) \in 0 .. 2 * n - 1
  BY <1>3
<1>5. (index + Distance(i, index, n)) % n = Wrapped(index + Distance(i, index, n), n)
  BY <1>1, <1>4, ModIsWrapped
<1>6. Wrapped(index + Distance(i, index, n), n) = i - 1
  BY DEF Wrapped, Distance
<1>. QED  BY <1>2, <1>3, <1>5, <1>6 DEF Wrapped, Distance

\* The requestor k turns from the index waits for k turns.
LEMMA DistanceOfPlace ==
  ASSUME NEW n \in Nat \ {0}, NEW index \in 0 .. n - 1, NEW k \in 0 .. n - 1
  PROVE  /\ ((index + k) % n) + 1 \in 1 .. n
         /\ Distance(((index + k) % n) + 1, index, n) = k
<1>1. index + k \in 0 .. 2 * n - 1
  OBVIOUS
<1>2. (index + k) % n = Wrapped(index + k, n)
  BY <1>1, ModIsWrapped
<1>. QED  BY <1>2 DEF Wrapped, Distance

\* A request that is sent makes its requestor wait, behind all who do.
LEMMA OvertakenUpdate ==
  ASSUME TypeOK, TurnsInOrder, OvertakenOnce, NEW id \in Requestors, SlotUpdate(id),
         UNCHANGED historyVars
  PROVE  OvertakenOnce'
<1>1. Requesting \subseteq Requesting'
  <2>1. requestQueue \in [Requestors -> Seq(Requests)]
    BY DEF TypeOK
  <2>2. \/ requestQueue' = requestQueue
        \/ \E req : requestQueue' = [requestQueue EXCEPT ![id] = Append(@, req)]
    BY DEF SlotUpdate, Update, UpdateSend, UpdateWait, UpdateBlocked,
           UpdateBlank, UpdateEnd, AddRequest, queueVars
  <2>. QED  BY <2>1, <2>2 DEF Requesting
<1>2. /\ requestorOrder \in Seq(Requestors) /\ queueRequestorIndex \in 0 .. Len(requestorOrder)
      /\ requestorOrder' = requestorOrder \/ requestorOrder' = Append(requestorOrder, id)
      /\ queueRequestorIndex' = queueRequestorIndex /\ overtaken' = overtaken
  BY DEF TurnsInOrder, SlotUpdate, historyVars
<1>3. ASSUME NEW x \in Requestors, NEW y \in Requestors, overtaken[<<x, y>>] = 1
      PROVE  x \in Requesting' /\ AheadIn(requestorOrder', queueRequestorIndex, x, y)
  <2>1. x \in Requesting /\ AheadIn(requestorOrder, queueRequestorIndex, x, y)
    BY <1>3 DEF OvertakenOnce
  <2>. QED  BY <1>1, <1>2, <2>1, AheadAppend
<1>. QED  BY <1>2, <1>3 DEF OvertakenOnce

\* Whoever gets the slot goes behind all who wait; it was ahead of them, so
\* that none of them had been overtaken by it before.
LEMMA OvertakenStep ==
  ASSUME TypeOK, TurnsInOrder, OvertakenOnce, SlotStep, RecordStep
  PROVE  OvertakenOnce'
<1>. DEFINE order == requestorOrder
            index == queueRequestorIndex
            n == Len(requestorOrder)
<1>1. /\ order' = order /\ order \in Seq(Requestors) /\ n \in Nat
      /\ index \in 0 .. n /\ (order # <<>> => index < n)
      /\ \A i, j \in DOMAIN order : order[i] = order[j] => i = j
      /\ \A id \in Requesting : \E i \in 1 .. n : order[i] = id
  BY DEF SlotStep, TurnsInOrder
<1>2. /\ overtaken \in [Requestors \X Requestors -> {0, 1}]
      /\ \A id, other \in Requestors :
           /\ id \in Chosen \/ id \notin Requesting => overtaken'[<<id, other>>] = 0
           /\ id \notin Chosen /\ id \in Requesting =>
                overtaken'[<<id, other>>] = IF other \in Chosen THEN overtaken[<<id, other>>] + 1
                                            ELSE overtaken[<<id, other>>]
      /\ DOMAIN overtaken' = Requestors \X Requestors
      /\ overtaken' = [x \in Requestors \X Requestors |-> overtaken'[x]]
  BY DEF OvertakenOnce, RecordStep
<1>3. \A id \in Requesting : id \notin Chosen => id \in Requesting'
  <2>1. RequestSchedule(Chosen)
    BY DEF SlotStep, StepNoCommand, StepCommand
  <2>2. \A id \in Requestors :
          requestQueue'[id] = IF id \in Chosen THEN Tail(requestQueue[id])
                                               ELSE requestQueue[id]
    BY <2>1 DEF RequestSchedule
  <2>. QED  BY <2>2 DEF Requesting
<1>4. CASE Places = {}
  <2>1. Chosen = {} /\ index' = index
    BY <1>4 DEF Chosen, SlotStep, TurnAfter
  <2>2. \A id, other \in Requestors :
          overtaken'[<<id, other>>] = IF id \in Requesting THEN overtaken[<<id, other>>] ELSE 0
    BY <1>2, <2>1
  <2>3. overtaken' \in [Requestors \X Requestors -> {0, 1}]
    BY <1>2, <2>2
  <2>. QED  BY <1>1, <1>3, <2>1, <2>2, <2>3 DEF OvertakenOnce
<1>5. CASE Places # {}
  <2>. DEFINE k == Min(Places)
              chosen == InTurn(k)
  <2>1. Places \subseteq 0 .. n - 1 /\ Places \subseteq Nat /\ n \in Nat \ {0} /\ index \in 0 .. n - 1
    <3>1. Places \subseteq 0 .. n - 1
      BY DEF Places
    <3>2. PICK q \in Places : q \in 0 .. n - 1
      BY <1>5, <3>1
    <3>3. n # 0 /\ order # <<>>
      BY <1>1, <3>2
    <3>. QED  BY <1>1, <3>1, <3>3
  <2>2. k \in Places /\ \A q \in Places : k <= q
    BY <1>5, <2>1, LeastOf
  <2>3. Chosen = {chosen} /\ index' = (index + k + 1) % n /\ k \in 0 .. n - 1
    <3>1. ASSUME NEW q \in Places
          PROVE  (\A j \in Places : q <= j) <=> q = k
      <4>1. q \in Nat /\ k \in Nat /\ k \in Places /\ k <= q
        BY <2>1, <2>2
      <4>. QED  BY <2>2, <4>1
    <3>2. {q \in Places : \A j \in Places : q <= j} = {k}
      BY <2>2, <3>1
    <3>3. Chosen = {InTurn(q) : q \in {k}}
      BY <3>2 DEF Chosen
    <3>. QED  BY <1>5, <2>1, <2>2, <3>3 DEF SlotStep, TurnAfter
  <2>. HIDE DEF k, chosen
  <2>4. \A i \in 1 .. n :
          /\ Distance(i, index, n) \in 0 .. n - 1
          /\ InTurn(Distance(i, index, n)) = order[i]
          /\ Distance(i, index, n) > k => Distance(i, index', n) = Distance(i, index, n) - k - 1
          /\ Distance(i, index, n) = k => Distance(i, index', n) = n - 1 /\ order[i] = chosen
    <3>. SUFFICES ASSUME NEW i \in 1 .. n
                  PROVE  /\ Distance(i, index, n) \in 0 .. n - 1
                         /\ InTurn(Distance(i, index, n)) = order[i]
                         /\ Distance(i, index, n) > k => Distance(i, index', n) = Distance(i, index, n) - k - 1
                         /\ Distance(i, index, n) = k => Distance(i, index', n) = n - 1 /\ order[i] = chosen
      OBVIOUS
    <3>1. /\ Distance(i, index, n) \in 0 .. n - 1
          /\ i = ((index + Distance(i, index, n)) % n) + 1
          /\ Distance(i, index, n) > k => Distance(i, index', n) = Distance(i, index, n) - k - 1
          /\ Distance(i, index, n) = k => Distance(i, index', n) = n - 1
      <4>1. /\ n \in Nat /\ index \in 0 .. n - 1 /\ k \in 0 .. n - 1
            /\ index' = (index + k + 1) % n
        BY <2>1, <2>3
      <4>. HIDE DEF n, index
      <4>. QED  BY <4>1, DistanceAfter
    <3>2. InTurn(Distance(i, index, n)) = order[i]
      BY <3>1 DEF InTurn
    <3>. QED  BY <3>1, <3>2 DEF chosen
  <2>5. \A i \in 1 .. n : order[i] = chosen => Distance(i, index, n) = k
    <3>. DEFINE place == ((index + k) % n) + 1
    <3>1. place \in 1 .. n /\ Distance(place, index, n) = k
      BY <2>1, <2>3, DistanceOfPlace
    <3>2. order[place] = chosen
      BY DEF chosen, InTurn
    <3>3. \A i \in 1 .. n : order[i] = chosen => i = place
      BY <1>1, <3>1, <3>2
    <3>. QED  BY <3>1, <3>3
  <2>6. \A i \in 1 .. n : order[i] \in Requesting => Distance(i, index, n) >= k
    <3>. SUFFICES ASSUME NEW i \in 1 .. n, order[i] \in Requesting
                  PROVE  Distance(i, index, n) >= k
      OBVIOUS
    <3>1. Distance(i, index, n) \in Places
      BY <1>5, <2>4 DEF Places
    <3>. QED  BY <2>1, <2>2, <3>1
  <2>7. ASSUME NEW id \in Requestors, NEW other \in Requestors,
               id \in Requesting, id \notin Chosen
        PROVE  /\ overtaken'[<<id, other>>] \in {0, 1}
               /\ overtaken'[<<id, other>>] = 1 =>
                    id \in Requesting' /\ AheadIn(order', index', id, other)
    <3>1. PICK i \in 1 .. n : order[i] = id
      BY <1>1, <2>7
    <3>2. /\ Distance(i, index, n) > k /\ Distance(i, index, n) \in 0 .. n - 1
          /\ Distance(i, index', n) = Distance(i, index, n) - k - 1
      <4>1. Distance(i, index, n) # k
        BY <2>3, <2>4, <2>7, <3>1
      <4>. QED  BY <2>3, <2>4, <2>6, <2>7, <3>1, <4>1
    <3>3. CASE other = chosen
      <4>1. overtaken[<<id, other>>] = 0
        <5>1. ASSUME AheadIn(order, index, id, other)
              PROVE  FALSE
          <6>1. PICK a, b \in 1 .. n :
                  /\ order[a] = id /\ order[b] = other
                  /\ Distance(a, index, n) < Distance(b, index, n)
            BY <5>1 DEF AheadIn
          <6>2. a = i /\ Distance(b, index, n) = k
            BY <1>1, <2>5, <3>1, <3>3, <6>1
          <6>. QED  BY <2>3, <3>2, <6>1, <6>2
        <5>. QED  BY <5>1 DEF OvertakenOnce
      <4>2. overtaken'[<<id, other>>] = 1
        BY <1>2, <2>3, <2>7, <3>3, <4>1
      <4>3. PICK b \in 1 .. n : order[b] = chosen /\ Distance(b, index', n) = n - 1
        <5>. DEFINE place == ((index + k) % n) + 1
        <5>1. place \in 1 .. n /\ Distance(place, index, n) = k
          BY <2>1, <2>3, DistanceOfPlace
        <5>. HIDE DEF place
        <5>. QED  BY <2>4, <5>1
      <4>4. Distance(i, index', n) < Distance(b, index', n)
        BY <2>1, <2>3, <3>2, <4>3
      <4>. QED  BY <1>1, <1>3, <2>7, <3>1, <3>3, <4>2, <4>3, <4>4 DEF AheadIn
    <3>4. CASE other # chosen
      <4>1. overtaken'[<<id, other>>] = overtaken[<<id, other>>]
        BY <1>2, <2>3, <2>7, <3>4
      <4>2. ASSUME AheadIn(order, index, id, other)
            PROVE  AheadIn(order', index', id, other)
        <5>1. PICK a, b \in 1 .. n :
                /\ order[a] = id /\ order[b] = other
                /\ Distance(a, index, n) < Distance(b, index, n)
          BY <4>2 DEF AheadIn
        <5>2. a = i
          BY <1>1, <3>1, <5>1
        <5>3. /\ Distance(b, index, n) \in 0 .. n - 1 /\ Distance(b, index, n) > k
              /\ Distance(b, index', n) = Distance(b, index, n) - k - 1
          <6>1. Distance(b, index, n) \in 0 .. n - 1
            BY <2>4
          <6>2. Distance(b, index, n) > k
            BY <2>3, <3>2, <5>1, <5>2, <6>1
          <6>. QED  BY <2>4, <6>1, <6>2
        <5>4. Distance(a, index', n) < Distance(b, index', n)
          BY <2>3, <3>2, <5>1, <5>2, <5>3
        <5>. QED  BY <1>1, <5>1, <5>4 DEF AheadIn
      <4>3. <<id, other>> \in Requestors \X Requestors
        OBVIOUS
      <4>. QED  BY <1>2, <1>3, <2>7, <4>1, <4>2, <4>3 DEF OvertakenOnce
    <3>. QED  BY <3>3, <3>4
  <2>8. \A id, other \in Requestors :
          /\ overtaken'[<<id, other>>] \in {0, 1}
          /\ overtaken'[<<id, other>>] = 1 =>
               id \in Requesting' /\ AheadIn(order', index', id, other)
    <3>. SUFFICES ASSUME NEW id \in Requestors, NEW other \in Requestors,
                         id \in Chosen \/ id \notin Requesting
                  PROVE  /\ overtaken'[<<id, other>>] \in {0, 1}
                         /\ overtaken'[<<id, other>>] = 1 => FALSE
      BY <2>7
    <3>1. overtaken'[<<id, other>>] = 0
      BY <1>2
    <3>. QED  BY <3>1
  <2>9. overtaken' \in [Requestors \X Requestors -> {0, 1}]
    BY <1>2, <2>8
  <2>. QED  BY <2>8, <2>9 DEF OvertakenOnce
<1>. QED  BY <1>4, <1>5

\* Nobody has been overtaken at first.
LEMMA OvertakenInit ==
  ASSUME ObservedInit
  PROVE  OvertakenOnce
<1>1. overtaken = [x \in Requestors \X Requestors |-> 0]
  BY DEF ObservedInit
<1>. QED  BY <1>1 DEF OvertakenOnce

\* Whoever is overtaken is next, seen from who overtook it.
LEMMA OvertakenOnceAlways == ObservedSpec => []OvertakenOnce
<1>1. ObservedInit => OvertakenOnce
  BY OvertakenInit
<1>2. TypeOK /\ TurnsInOrder /\ OvertakenOnce /\ [ObservedNext]_observedVars
        => OvertakenOnce'
  <2>. SUFFICES ASSUME TypeOK, TurnsInOrder, OvertakenOnce, [ObservedNext]_observedVars
                PROVE  OvertakenOnce'
    OBVIOUS
  <2>1. CASE \E id \in Requestors : SlotUpdate(id) /\ UNCHANGED historyVars
    BY <2>1, OvertakenUpdate
  <2>2. CASE SlotStep /\ RecordStep
    BY <2>2, OvertakenStep
  <2>3. CASE UNCHANGED <<requestQueue, requestorOrder, queueRequestorIndex, overtaken>>
    BY <2>3 DEF OvertakenOnce, Requesting
  <2>4. CASE SlotMemoryUpdate /\ RecordCycle
    BY <2>3, <2>4 DEF SlotMemoryUpdate, MemoryUpdate, queueVars, RecordCycle
  <2>5. CASE SlotExit /\ UNCHANGED historyVars
    BY <2>3, <2>5 DEF SlotExit, Exit, slotVars, vars, queueVars, historyVars
  <2>6. CASE UNCHANGED observedVars
    BY <2>3, <2>6 DEF observedVars, historyVars, slotSystemVars, slotVars, vars, queueVars
  <2>. QED  BY <2>1, <2>2, <2>4, <2>5, <2>6 DEF ObservedNext
<1>. QED  BY <1>1, <1>2, ObservedIsSystem, SlotsImplementChannel, TypeCorrect,
             TurnsStayInOrder, PTL DEF ObservedSpec

\* While a requestor waits for a slot, no other gets two, whatever the number
\* of requestors, their traces and the order in which they first ask.
THEOREM ServedInTurnAlways == ObservedSpec => []ServedInTurn
<1>1. OvertakenOnce => ServedInTurn
  <2>. SUFFICES ASSUME OvertakenOnce, NEW id \in Requestors, NEW other \in Requestors
                PROVE  overtaken[<<id, other>>] <= 1
    BY DEF ServedInTurn
  <2>1. overtaken[<<id, other>>] \in {0, 1}
    BY DEF OvertakenOnce
  <2>. QED  BY <2>1
<1>. QED  BY <1>1, OvertakenOnceAlways, PTL
-----------------------------------------------------------------------------
(* The commands of a slot.                                                 *)

\* The part of the device the system uses.
OwnDevice == [ranks |-> {OwnRank}, banks |-> Banks]

\* The slot is ahead by a cycle between step and update.
Ahead == IF turn = NumRequestors + 1 THEN 1 ELSE 0

\* The cycles until the next slot may begin, and since this one began.
Left    == slotCounter + Ahead
Elapsed == timeSlot - Left

\* How long the device lets an activate and an access wait at most.  A PRE never waits.
DueAt(activate, access) ==
  [c \in OpenPage |-> IF c = "PRE" THEN 0 ELSE IF c \in Activates THEN activate ELSE access]

\* The device is ready for all commands of OpenPage in time.
ReadyAt(activate, access) == DeviceDue(dev, DueAt(activate, access), OwnRank, Requestors)

\* The distances before a PRE have passed when the next slot begins.
RowsRecovered ==
  \A id \in Requestors :
    /\ \A a \in Activates : since[<<a, id>>] + Left >= Speed.nRAS
    /\ since[<<"RD", id>>] + Left >= Speed.nRTP
    /\ since[<<"WR", id>>] + Left >= WriteRecovery

\* The others have no commands.
Alone(id) == \A other \in Critical : other # id => commandQueue[other] = <<>>

\* Nobody has commands, and the next slot finds the device ready.
Between ==
  /\ \A id \in Critical : commandQueue[id] = <<>>
  /\ ReadyAt(Left + Speed.nRP, Left + Speed.nRP + Speed.nRCD)

\* The PRE has left at the start of the slot.
Opening(id) ==
  /\ Alone(id)
  /\ Len(commandQueue[id]) = 2
  /\ commandQueue[id][1].type \in Activates /\ commandQueue[id][2].type \in {"RD", "WR"}
  /\ since[<<"PRE", id>>] <= Elapsed /\ Elapsed + Ahead <= Speed.nRP
  /\ ReadyAt(Speed.nRP - Elapsed, Speed.nRP + Speed.nRCD - Elapsed)

\* The activate has left nRP cycles after it.
Accessing(id) ==
  /\ Alone(id)
  /\ Len(commandQueue[id]) = 1
  /\ commandQueue[id][1].type \in {"RD", "WR"}
  /\ \E a \in Activates : since[<<a, id>>] + Speed.nRP <= Elapsed
  /\ Elapsed + Ahead <= Speed.nRP + Speed.nRCD
  /\ ReadyAt(Left + Speed.nRP, Speed.nRP + Speed.nRCD - Elapsed)

\* One of the three.
InSlot == Between \/ \E id \in Critical : Opening(id) \/ Accessing(id)

\* The inductive invariant, given types and TurnsInOrder.
SlotInv ==
  /\ since \in [OpenPage \X Requestors -> Nat]
  /\ DeviceType(dev, OwnDevice) /\ DeviceWaited(dev, since, OwnRank, Requestors)
  /\ RowsRecovered /\ InSlot

-----------------------------------------------------------------------------
(* Constants.                                                              *)

\* The constants of the system.
LEMMA SlotConstants ==
  /\ OpenPage \subseteq Commands /\ Requestors \subseteq Banks /\ Critical \subseteq Requestors
  /\ MaxAge \in Nat /\ OwnRank \in OwnDevice.ranks /\ Requestors \subseteq OwnDevice.banks
  /\ NumRequestors \in Nat \ {0} /\ timeSlot \in Nat \ {0}
  /\ OpenPage = {"ACT_R", "ACT_W", "PRE", "RD", "WR"} /\ Activates = {"ACT_R", "ACT_W"}
  /\ Kinds = OpenPage
BY SlotAssumption, HistoryAssumption, ConstantsAssumption DEF OwnDevice, OpenPage, Activates, Kinds

\* Where since stops counting, nothing waits any more.
AgeLimit == [c \in OpenPage |-> MaxAge]

\* No distance between the commands of the system is longer than MaxAge.
LEMMA AgeLimitIs ==
  /\ AgeLimit \in [OpenPage -> Nat]
  /\ \A c \in OpenPage : /\ LongEnough(AgeLimit, RankTiming, OpenPage, c)
                         /\ LongEnough(AgeLimit, BankTiming, OpenPage, c)
  /\ MaxAge >= Speed.nRAS /\ MaxAge >= Speed.nRTP /\ MaxAge >= WriteRecovery
<1>1. AgeLimit \in [OpenPage -> Nat]
  BY SlotConstants DEF AgeLimit
<1>2. \A c \in OpenPage : /\ LongEnough(AgeLimit, RankTiming, OpenPage, c)
                          /\ LongEnough(AgeLimit, BankTiming, OpenPage, c)
  BY HistoryAssumption DEF LongEnough, AgeLimit
<1>3. /\ <<"ACT_R", "PRE", Speed.nRAS>> \in BankTiming
      /\ <<"RD", "PRE", Speed.nRTP>> \in BankTiming
      /\ <<"WR", "PRE", WriteRecovery>> \in BankTiming
  BY DEF BankTiming, After, Activates
<1>4. \A e \in BankTiming : {e[1], e[2]} \subseteq OpenPage => e[3] <= MaxAge
  BY HistoryAssumption
<1>5. MaxAge >= Speed.nRAS /\ MaxAge >= Speed.nRTP /\ MaxAge >= WriteRecovery
  <2>1. /\ {"ACT_R", "PRE"} \subseteq OpenPage /\ {"RD", "PRE"} \subseteq OpenPage
        /\ {"WR", "PRE"} \subseteq OpenPage
    BY SlotConstants
  <2>2. WriteRecovery \in Nat
    BY SpeedInt DEF WriteRecovery
  <2> QED
    BY <1>3, <1>4, <2>1, <2>2, SlotConstants, SpeedInt
<1> QED
  BY <1>1, <1>2, <1>5

\* The distances of the commands of a bank.
LEMMA BankDistances ==
  ASSUME NEW e \in BankTiming, e[1] \in OpenPage, e[2] \in OpenPage
  PROVE  \/ e[1] \in Activates /\ e[2] \in {"RD", "WR"} /\ e[3] = Speed.nRCD
         \/ e[1] = "RD" /\ e[2] = "PRE" /\ e[3] = Speed.nRTP
         \/ e[1] = "WR" /\ e[2] = "PRE" /\ e[3] = WriteRecovery
         \/ e[1] \in Activates /\ e[2] \in Activates /\ e[3] = Speed.nRC
         \/ e[1] \in Activates /\ e[2] = "PRE" /\ e[3] = Speed.nRAS
         \/ e[1] = "PRE" /\ e[2] \in Activates /\ e[3] = Speed.nRP
<1>1. OpenPage = {"ACT_R", "ACT_W", "PRE", "RD", "WR"}
  BY SlotConstants
<1> QED
  BY <1>1 DEF BankTiming, After, Accesses, Reads, Writes, Activates

\* Those of the commands of a rank.
LEMMA RankDistances ==
  ASSUME NEW e \in RankTiming, e[1] \in OpenPage, e[2] \in OpenPage
  PROVE  \/ e[1] \in {"RD", "WR"} /\ e[2] \in {"RD", "WR"}
              /\ e[3] \in {Speed.nCCD, ReadToWrite, WriteToRead}
         \/ e[1] \in Activates /\ e[2] \in Activates /\ e[3] = Speed.nRRD
<1>1. OpenPage = {"ACT_R", "ACT_W", "PRE", "RD", "WR"}
  BY SlotConstants
<1>2. \/ e \in After(Reads, Reads, Speed.nCCD) \cup After(Writes, Writes, Speed.nCCD)
               \cup After(Reads, Writes, ReadToWrite) \cup After(Writes, Reads, WriteToRead)
      \/ e \in After(Activates, Activates, Speed.nRRD)
  <2>1. e[1] \notin {"PREA", "REF", "PDX", "SRX", "PDE", "SRE", "WRA"}
        /\ e[2] \notin {"PREA", "REF", "PDX", "SRX", "PDE", "SRE", "WRA"}
    BY <1>1
  <2>2. /\ e \notin After({"RD"}, {"PREA"}, Speed.nRTP)
        /\ e \notin After({"WR"}, {"PREA"}, WriteRecovery)
        /\ e \notin After(Reads, {"PDE"}, Speed.nCL + Speed.nBL + 1)
        /\ e \notin After({"WR"}, {"PDE"}, WriteRecovery)
        /\ e \notin After({"WRA"}, {"PDE"}, WriteRecovery + 1)
        /\ e \notin After(Activates, {"PREA"}, Speed.nRAS)
        /\ e \notin After({"PREA"}, Activates, Speed.nRP)
        /\ e \notin After({"PRE", "PREA"}, {"REF", "SRE"}, Speed.nRP)
        /\ e \notin After({"REF"}, Activates \cup {"REF"}, Speed.nRFC)
        /\ e \notin After(Activates \cup {"REF"}, {"PDE"}, 1)
        /\ e \notin After({"PDX"}, Accesses \cup Asleep \cup {"PRE", "PREA"}, Speed.nXP)
        /\ e \notin After({"SRX"}, Asleep, Speed.nXS)
        /\ e \notin After({"PDE"}, {"PDX"}, Speed.nPD)
        /\ e \notin After({"SRE"}, {"SRX"}, Speed.nCKESR)
    BY <2>1 DEF After
  <2> QED
    BY <2>2 DEF RankTiming
<1> QED
  BY <1>1, <1>2 DEF After, Reads, Writes, Activates

\* Those of the commands of a channel.
LEMMA ChannelDistances ==
  ASSUME NEW e \in ChannelTiming, e[1] \in OpenPage, e[2] \in OpenPage
  PROVE  e[1] \in {"RD", "WR"} /\ e[2] \in {"RD", "WR"} /\ e[3] = Speed.nBL
<1>1. OpenPage = {"ACT_R", "ACT_W", "PRE", "RD", "WR"}
  BY SlotConstants
<1> QED
  BY <1>1 DEF ChannelTiming, After, Reads, Writes

\* What the cycles of a slot come to.
LEMMA SlotLengths ==
  ASSUME SlotLongEnough
  PROVE  /\ timeSlot \in Nat /\ Speed.nRP \in Nat \ {0} /\ Speed.nRCD \in Nat \ {0}
         /\ Speed.nRAS \in Nat /\ Speed.nRTP \in Nat /\ WriteRecovery \in Nat
         /\ Speed.nRP + Speed.nRCD < timeSlot
         /\ Speed.nRP + Speed.nRCD + WriteRecovery <= timeSlot
         /\ Speed.nRP + Speed.nRCD + Speed.nRTP <= timeSlot
         /\ Speed.nRP + Speed.nRAS <= timeSlot
         /\ Speed.nBL <= timeSlot /\ Speed.nRC <= timeSlot /\ Speed.nFAW <= timeSlot
         /\ Speed.nRRD <= timeSlot /\ Speed.nCCD <= timeSlot
         /\ ReadToWrite <= timeSlot /\ WriteToRead <= timeSlot
<1>1. /\ Speed.nRP \in Nat \ {0} /\ Speed.nRCD \in Nat \ {0} /\ Speed.nWR \in Nat \ {0}
      /\ Speed.nCWL \in Nat \ {0}
  BY SpeedAssumption DEF SpeedFields
<1>2. WriteRecovery \in Nat /\ WriteRecovery > 0 /\ Speed.nBL <= WriteRecovery
  BY <1>1, SpeedInt DEF WriteRecovery
<1> QED
  BY <1>1, <1>2, SpeedInt, SlotConstants DEF SlotLongEnough

\* What a PRE adds to the waits.
LEMMA PrechargeAdds ==
  ASSUME NEW c \in OpenPage, NEW n \in Nat, c \in Activates => Speed.nRP <= n
  PROVE  AddsAtMost("PRE", c, n)
<1>1. "PRE" \in OpenPage /\ "PRE" \notin Activates
  BY SlotConstants
<1> QED
  BY <1>1, BankDistances, RankDistances, ChannelDistances DEF AddsAtMost, Within

\* What an activate adds.
LEMMA ActivateAdds ==
  ASSUME NEW a \in Activates, NEW c \in OpenPage, NEW n \in Nat,
         c \in Activates => Speed.nRRD <= n /\ Speed.nRC <= n /\ Speed.nFAW <= n,
         c \in {"RD", "WR"} => Speed.nRCD <= n
  PROVE  AddsAtMost(a, c, n)
<1>1. a \in OpenPage /\ a \notin {"PRE", "RD", "WR"}
  BY SlotConstants
<1>2. Within(ChannelTiming, a, c, n)
  BY <1>1, ChannelDistances DEF Within
<1>3. Within(RankTiming, a, c, n)
  BY <1>1, RankDistances DEF Within
<1>4. c # "PRE" => Within(BankTiming, a, c, n)
  BY <1>1, BankDistances DEF Within
<1> QED
  BY <1>2, <1>3, <1>4 DEF AddsAtMost

\* What an access adds.
LEMMA AccessAdds ==
  ASSUME NEW x \in {"RD", "WR"}, NEW c \in OpenPage, NEW n \in Nat,
         c \in {"RD", "WR"} => /\ Speed.nBL <= n /\ Speed.nCCD <= n
                               /\ ReadToWrite <= n /\ WriteToRead <= n
  PROVE  AddsAtMost(x, c, n)
<1>1. x \in OpenPage /\ x # "PRE" /\ x \notin Activates
  BY SlotConstants
<1>2. Within(ChannelTiming, x, c, n)
  BY <1>1, ChannelDistances DEF Within
<1>3. Within(RankTiming, x, c, n)
  BY <1>1, RankDistances DEF Within
<1>4. c # "PRE" => Within(BankTiming, x, c, n)
  BY <1>1, BankDistances DEF Within
<1> QED
  BY <1>1, <1>2, <1>3, <1>4 DEF AddsAtMost

\* DueAt and its values.
LEMMA DueAtIs ==
  ASSUME NEW m \in Nat, NEW n \in Nat
  PROVE  /\ DueAt(m, n) \in [OpenPage -> Nat]
         /\ \A c \in OpenPage :
              DueAt(m, n)[c] = IF c = "PRE" THEN 0 ELSE IF c \in Activates THEN m ELSE n
BY DEF DueAt

\* A device that is ready in time is ready later.
LEMMA ReadyLater ==
  ASSUME NEW d, DeviceType(d, OwnDevice), NEW m \in Nat, NEW n \in Nat,
         NEW later \in Nat, NEW latest \in Nat, m <= later, n <= latest,
         DeviceDue(d, DueAt(m, n), OwnRank, Requestors)
  PROVE  DeviceDue(d, DueAt(later, latest), OwnRank, Requestors)
<1>1. /\ \A c \in OpenPage : d.channel[c] \in Nat /\ d.rank[OwnRank][c] \in Nat
      /\ \A c \in OpenPage, p \in Requestors : d.bank[<<OwnRank, p>>][c] \in Nat
  BY SlotConstants DEF DeviceType
<1>2. ASSUME NEW c \in OpenPage
      PROVE  /\ DueAt(m, n)[c] \in Nat /\ DueAt(later, latest)[c] \in Nat
             /\ DueAt(m, n)[c] <= DueAt(later, latest)[c]
  <2>1. DueAt(m, n)[c] = IF c = "PRE" THEN 0 ELSE IF c \in Activates THEN m ELSE n
    BY DueAtIs
  <2>2. DueAt(later, latest)[c] = IF c = "PRE" THEN 0 ELSE IF c \in Activates THEN later ELSE latest
    BY DueAtIs
  <2> QED
    BY <2>1, <2>2
<1>3. ASSUME NEW c \in OpenPage, NEW x \in Nat, x <= DueAt(m, n)[c]
      PROVE  x <= DueAt(later, latest)[c]
  BY <1>2, <1>3
<1> QED
  BY <1>1, <1>3 DEF DeviceDue

-----------------------------------------------------------------------------
(* The step in which a command is chosen.                                  *)

\* One requestor gets the slot.
LEMMA ChosenIs ==
  ASSUME TurnsInOrder
  PROVE  /\ Chosen \in SUBSET Requesting
         /\ \A id, other \in Chosen : id = other
         /\ Places = {} <=> Chosen = {}
         /\ slotCounter # 0 => Chosen = {}
<1>1. Places \in SUBSET Nat
  <2>1. Len(requestorOrder) \in Nat
    BY DEF TurnsInOrder
  <2> QED
    BY <2>1 DEF Places
<1>2. CASE Places = {}
  BY <1>2 DEF Chosen
<1>3. CASE Places # {}
  <2> DEFINE k == Min(Places)
  <2>1. k \in Places /\ \A q \in Places : k <= q
    BY <1>1, <1>3, LeastOf
  <2> HIDE DEF k
  <2>2. \A q \in Places : (\A j \in Places : q <= j) <=> q = k
    <3> SUFFICES ASSUME NEW q \in Places
                 PROVE  (\A j \in Places : q <= j) <=> q = k
      OBVIOUS
    <3>1. q \in Nat /\ k \in Nat /\ k <= q
      BY <1>1, <2>1
    <3> QED
      BY <2>1, <3>1
  <2>3. {q \in Places : \A j \in Places : q <= j} = {k}
    BY <2>1, <2>2
  <2>4. Chosen = {InTurn(k)}
    BY <2>3 DEF Chosen
  <2>5. slotCounter = 0
    BY <1>3 DEF Places
  <2>6. InTurn(k) \in Requesting
    BY <2>1, <2>5 DEF Places
  <2> QED
    BY <1>3, <2>4, <2>5, <2>6
<1> QED
  BY <1>2, <1>3

\* The three commands RR has the generator make of a request.
LEMMA ThreeCommands ==
  ASSUME BurstsPerRequest = 1, NEW id \in Requestors, NEW req \in Requests, NEW open, ~ open,
         NEW commands, commands = CommandGenerate(id, req, open)
  PROVE  /\ Len(commands) = 3 /\ commands[1].type = "PRE"
         /\ commands[2].type \in Activates /\ commands[3].type \in {"RD", "WR"}
<1> DEFINE packet(t) == [type |-> t, id |-> id, addr |-> BusAddress(req.addr),
                         row |-> RowOf[req.addr]]
           read == req.type = "DATA_READ"
           cas == [k \in 1 .. BurstsPerRequest |-> packet(IF read THEN "RD" ELSE "WR")]
           opening == <<packet("PRE"), packet(IF read THEN "ACT_R" ELSE "ACT_W")>>
           some == {packet("PRE"), packet("ACT_R"), packet("ACT_W"), packet("RD"), packet("WR")}
<1>1. cas \in Seq(some) /\ Len(cas) = 1 /\ cas[1].type \in {"RD", "WR"}
  OBVIOUS
<1>2. /\ opening \in Seq(some) /\ Len(opening) = 2
      /\ opening[1].type = "PRE" /\ opening[2].type \in Activates
  BY DEF Activates
<1>3. commands = opening \o cas
  BY DEF CommandGenerate
<1> HIDE DEF cas, opening, some
<1>4. /\ Len(opening \o cas) = 3 /\ (opening \o cas)[1] = opening[1]
      /\ (opening \o cas)[2] = opening[2] /\ (opening \o cas)[3] = cas[1]
  <2>1. /\ Len(opening \o cas) = 2 + 1
        /\ \A k \in 1 .. 2 : (opening \o cas)[k] = opening[k]
        /\ \A k \in 2 + 1 .. 2 + 1 : (opening \o cas)[k] = cas[k - 2]
    <3>1. /\ Len(opening \o cas) = Len(opening) + Len(cas)
          /\ \A k \in 1 .. Len(opening) : (opening \o cas)[k] = opening[k]
          /\ \A k \in Len(opening) + 1 .. Len(opening) + Len(cas) :
               (opening \o cas)[k] = cas[k - Len(opening)]
      BY <1>1, <1>2, Concatenation
    <3> QED
      BY <1>1, <1>2, <3>1
  <2>2. 1 \in 1 .. 2 /\ 2 \in 1 .. 2 /\ 3 \in 2 + 1 .. 2 + 1 /\ 3 - 2 = 1
    OBVIOUS
  <2> QED
    BY <2>1, <2>2
<1> QED
  BY <1>1, <1>2, <1>3, <1>4

\* What the buffers hold when a command is chosen.
LEMMA SlotBuffers ==
  ASSUME TypeOK, TurnsInOrder, NEW id \in Requestors
  PROVE  /\ Buffer(id) \in Seq(Packets)
         /\ id \notin Chosen => Buffer(id) = commandQueue[id]
         /\ id \in Chosen /\ commandQueue[id] = <<>> /\ BurstsPerRequest = 1 =>
              /\ Len(Buffer(id)) = 3 /\ Buffer(id)[1].type = "PRE"
              /\ Buffer(id)[2].type \in Activates /\ Buffer(id)[3].type \in {"RD", "WR"}
<1>1. Chosen \in SUBSET Requesting
  BY ChosenIs
<1>2. Buffer(id) \in Seq(Packets)
  BY <1>1, GeneratedType DEF Buffer
<1>3. id \notin Chosen => Buffer(id) = commandQueue[id]
  BY DEF Buffer, Generated
<1>4. ASSUME id \in Chosen, commandQueue[id] = <<>>, BurstsPerRequest = 1
      PROVE  /\ Len(Buffer(id)) = 3 /\ Buffer(id)[1].type = "PRE"
             /\ Buffer(id)[2].type \in Activates /\ Buffer(id)[3].type \in {"RD", "WR"}
  <2> DEFINE req == Head(requestQueue[id])
             hit == id \in {}
  <2>1. req \in Requests /\ hit \in BOOLEAN /\ ~ hit
    BY <1>1, <1>4 DEF TypeOK, Requesting
  <2>2. Buffer(id) = <<>> \o CommandGenerate(id, req, hit)
    BY <1>4 DEF Buffer, Generated
  <2> HIDE DEF req, hit
  <2>3. CommandGenerate(id, req, hit) \in Seq(Packets)
    BY <2>1, CommandGenerateType
  <2>4. Buffer(id) = CommandGenerate(id, req, hit)
    BY <2>2, <2>3
  <2> QED
    BY <1>4, <2>1, <2>4, ThreeCommands
<1> QED
  BY <1>2, <1>3, <1>4

\* No command is sent.
NothingSent ==
  /\ \A id \in Requestors : ~ Sent(id) /\ commandQueue'[id] = Buffer(id)
  /\ \A id \in Critical :
       Buffer(id) # <<>> => ~ CommandCheck(dev, Head(Buffer(id)).type, OwnRank, id)
  /\ StepData(sendDataBuffer, sendDataCounter)
  /\ UNCHANGED <<since, dev, returnVars>>

\* The command of requestor id is sent.
OneSent(id) ==
  /\ id \in Critical /\ Buffer(id) # <<>>
  /\ CommandCheck(dev, Head(Buffer(id)).type, OwnRank, id)
  /\ \A j \in Requestors : Sent(j) <=> j = id
  /\ \A j \in Requestors : commandQueue'[j] = IF j = id THEN Tail(Buffer(j)) ELSE Buffer(j)
  /\ since' = SentTo(since, Head(Buffer(id)).type, {id})
  /\ dev' = DeviceUpdate(dev, Head(Buffer(id)).type, OwnRank, id)
  /\ GenerateData(Head(Buffer(id)))
  /\ IF IsWrite(Head(Buffer(id)))
     THEN StepData(Append(sendDataBuffer, Head(Buffer(id))), Append(sendDataCounter, tWL + tBus))
     ELSE StepData(sendDataBuffer, sendDataCounter)

\* One or the other.
LEMMA SlotStepCases ==
  ASSUME TypeOK, TurnsInOrder, since \in [OpenPage \X Requestors -> Nat], SlotStep, RecordStep
  PROVE  /\ turn = NumRequestors /\ turn' = NumRequestors + 1
         /\ NothingSent \/ \E id \in Requestors : OneSent(id)
<1>1. ASSUME NEW id \in Requestors, Buffer(id) # <<>>
      PROVE  Tail(Buffer(id)) # Buffer(id)
  <2>1. Buffer(id) \in Seq(Packets)
    BY SlotBuffers
  <2> QED
    BY <1>1, <2>1
<1>2. /\ DOMAIN since = OpenPage \X Requestors
      /\ since' = [x \in DOMAIN since |->
           IF Sent(x[2]) /\ Head(Buffer(x[2])).type = x[1] THEN 0 ELSE since[x]]
  BY DEF RecordStep
<1>3. CASE Issuable = {}
  <2>1. StepNoCommand(Chosen, {}) /\ UNCHANGED dev
    BY <1>3 DEF SlotStep
  <2>2. /\ turn = NumRequestors /\ turn' = turn + 1 /\ UNCHANGED returnVars
        /\ StepData(sendDataBuffer, sendDataCounter)
        /\ \A j \in Requestors : commandQueue'[j] = Buffer(j)
    BY <2>1 DEF StepNoCommand, Buffer
  <2>3. \A j \in Requestors : ~ Sent(j)
    BY <1>1, <2>2 DEF Sent
  <2>4. since' = since
    <3>1. \A x \in DOMAIN since : ~ Sent(x[2])
      BY <1>2, <2>3
    <3> QED
      BY <1>2, <3>1
  <2>5. \A id \in Critical :
          Buffer(id) # <<>> => ~ CommandCheck(dev, Head(Buffer(id)).type, OwnRank, id)
    BY <1>3 DEF Issuable
  <2>6. NothingSent
    BY <2>1, <2>2, <2>3, <2>4, <2>5 DEF NothingSent
  <2> QED
    BY <2>2, <2>6
<1>4. CASE Issuable # {}
  <2>1. PICK id \in Requestors : /\ id = Min(Issuable)
                                 /\ StepCommand(id, Chosen, {})
                                 /\ dev' = DeviceUpdate(dev, Head(Buffer(id)).type, OwnRank, id)
    BY <1>4 DEF SlotStep
  <2>2. id \in Issuable
    <3>1. Issuable \in SUBSET Nat
      <4>1. Requestors \subseteq Nat
        BY SlotConstants DEF Requestors
      <4> QED
        BY <4>1, SlotConstants DEF Issuable
    <3> QED
      BY <1>4, <2>1, <3>1, LeastOf
  <2>3. /\ id \in Critical /\ Buffer(id) # <<>>
        /\ CommandCheck(dev, Head(Buffer(id)).type, OwnRank, id)
    BY <2>2 DEF Issuable
  <2>4. /\ turn = NumRequestors /\ turn' = turn + 1 /\ GenerateData(Head(Buffer(id)))
        /\ IF IsWrite(Head(Buffer(id)))
           THEN StepData(Append(sendDataBuffer, Head(Buffer(id))), Append(sendDataCounter, tWL + tBus))
           ELSE StepData(sendDataBuffer, sendDataCounter)
        /\ \A j \in Requestors : commandQueue'[j] = IF j = id THEN Tail(Buffer(j)) ELSE Buffer(j)
    BY <2>1 DEF StepCommand, Buffer
  <2>5. \A j \in Requestors : Sent(j) <=> j = id
    BY <1>1, <2>3, <2>4 DEF Sent
  <2>6. since' = SentTo(since, Head(Buffer(id)).type, {id})
    <3>1. \A x \in DOMAIN since :
            Sent(x[2]) /\ Head(Buffer(x[2])).type = x[1]
              <=> x[1] = Head(Buffer(id)).type /\ x[2] \in {id}
      BY <1>2, <2>5
    <3> QED
      BY <1>2, <3>1 DEF SentTo
  <2>7. OneSent(id)
    BY <2>1, <2>3, <2>4, <2>5, <2>6 DEF OneSent
  <2> QED
    BY <2>4, <2>7
<1> QED
  BY <1>3, <1>4

\* Between the cycles only the start of a slot moves the clock of the slots.
LEMMA SlotClock ==
  ASSUME SlotLongEnough, TurnsInOrder, SlotStep, turn = NumRequestors, turn' = NumRequestors + 1
  PROVE  /\ Left = slotCounter /\ slotCounter \in 0 .. timeSlot - 1
         /\ Elapsed = timeSlot - slotCounter
         /\ Left' \in 1 .. timeSlot /\ Elapsed' = timeSlot - Left' /\ Ahead' = 1
         /\ slotCounter # 0 => Left' = Left /\ Chosen = {}
         /\ slotCounter = 0 => Left' = (IF Chosen = {} THEN 1 ELSE timeSlot)
<1>1. Ahead = 0 /\ Ahead' = 1
  BY SlotConstants DEF Ahead
<1>2. slotCounter \in 0 .. timeSlot - 1 /\ timeSlot \in Nat \ {0}
  BY SlotConstants DEF TurnsInOrder
<1>3. slotCounter' = SlotCounterAfter /\ (Places = {} <=> Chosen = {})
      /\ (slotCounter # 0 => Chosen = {})
  BY ChosenIs DEF SlotStep
<1>4. /\ slotCounter # 0 => slotCounter' = slotCounter - 1
      /\ slotCounter = 0 => slotCounter' = IF Chosen = {} THEN 0 ELSE timeSlot - 1
  BY <1>3 DEF SlotCounterAfter
<1> QED
  BY <1>1, <1>2, <1>3, <1>4 DEF Left, Elapsed

\* At the end of a slot all its commands have left.
LEMMA SlotsEndEmpty ==
  ASSUME SlotLongEnough, TurnsInOrder, SlotInv, turn = NumRequestors, slotCounter = 0
  PROVE  Between
<1>1. Ahead = 0
  BY SlotConstants DEF Ahead
<1>2. Elapsed = timeSlot
  BY <1>1, SlotConstants DEF Elapsed, Left
<1>3. ~ (Elapsed <= Speed.nRP + Speed.nRCD) /\ ~ (Elapsed <= Speed.nRP)
  BY <1>2, SlotLengths
<1>4. \A id \in Critical : ~ Opening(id) /\ ~ Accessing(id)
  <2>1. Elapsed + Ahead = Elapsed
    BY <1>1, <1>2, SlotConstants
  <2> QED
    BY <1>3, <2>1 DEF Opening, Accessing
<1> QED
  BY <1>4 DEF SlotInv, InSlot

\* The first commands of the buffers of a slot, where a requestor has some.
StartsSlot(id) ==
  /\ Between /\ slotCounter = 0 /\ id \in Chosen
  /\ Len(Buffer(id)) = 3 /\ Head(Buffer(id)).type = "PRE"
  /\ Buffer(id)[2].type \in Activates /\ Buffer(id)[3].type \in {"RD", "WR"}

\* Then the activate,
OpensRow(id) ==
  /\ Opening(id) /\ slotCounter # 0 /\ Buffer(id) = commandQueue[id]
  /\ Head(Buffer(id)).type \in Activates

\* and the access.
AccessesRow(id) ==
  /\ Accessing(id) /\ slotCounter # 0 /\ Buffer(id) = commandQueue[id]
  /\ Head(Buffer(id)).type \in {"RD", "WR"}

\* There are no other buffers with commands.
LEMMA SlotPhases ==
  ASSUME SlotLongEnough, TypeOK, TurnsInOrder, SlotInv, turn = NumRequestors,
         NEW id \in Critical, Buffer(id) # <<>>
  PROVE  /\ StartsSlot(id) \/ OpensRow(id) \/ AccessesRow(id)
         /\ \A j \in Critical : j # id => Buffer(j) = <<>>
<1>1. /\ id \in Requestors /\ Critical \subseteq Requestors
      /\ Buffer(id) \in Seq(Packets) /\ commandQueue[id] \in Seq(Packets)
      /\ \A j \in Requestors : j \notin Chosen => Buffer(j) = commandQueue[j]
      /\ \A j, other \in Chosen : j = other
      /\ (slotCounter # 0 => Chosen = {})
      /\ Head(Buffer(id)) = Buffer(id)[1]
  <2>1. id \in Requestors /\ Critical \subseteq Requestors
    BY SlotConstants
  <2>2. Buffer(id) \in Seq(Packets) /\ \A j \in Requestors : j \notin Chosen => Buffer(j) = commandQueue[j]
    BY <2>1, SlotBuffers
  <2>3. commandQueue[id] \in Seq(Packets)
    BY <2>1 DEF TypeOK
  <2>4. (\A j, other \in Chosen : j = other) /\ (slotCounter # 0 => Chosen = {})
    BY ChosenIs
  <2> QED
    BY <2>1, <2>2, <2>3, <2>4
<1>2. CASE slotCounter = 0
  <2>1. Between
    BY <1>2, SlotsEndEmpty
  <2>2. \A j \in Critical : commandQueue[j] = <<>>
    BY <2>1 DEF Between
  <2>3. id \in Chosen
    BY <1>1, <2>2
  <2>4. BurstsPerRequest = 1
    BY DEF SlotLongEnough
  <2>5. StartsSlot(id)
    BY <1>1, <1>2, <2>1, <2>2, <2>3, <2>4, SlotBuffers DEF StartsSlot
  <2> QED
    BY <1>1, <2>2, <2>3, <2>5
<1>3. CASE slotCounter # 0
  <2>1. \A j \in Critical : Buffer(j) = commandQueue[j]
    BY <1>1, <1>3
  <2>2. ~ Between
    BY <2>1 DEF Between
  <2>3. PICK j \in Critical : Opening(j) \/ Accessing(j)
    BY <2>2 DEF SlotInv, InSlot
  <2>4. j = id /\ \A other \in Critical : other # id => commandQueue[other] = <<>>
    BY <2>1, <2>3 DEF Opening, Accessing, Alone
  <2>5. CASE Opening(id)
    <3>1. Buffer(id)[1].type \in Activates
      BY <2>1, <2>5 DEF Opening
    <3> QED
      BY <1>1, <1>3, <2>1, <2>4, <2>5, <3>1 DEF OpensRow
  <2>6. CASE Accessing(id)
    <3>1. Buffer(id)[1].type \in {"RD", "WR"}
      BY <2>1, <2>6 DEF Accessing
    <3> QED
      BY <1>1, <1>3, <2>1, <2>4, <2>6, <3>1 DEF AccessesRow
  <2> QED
    BY <2>3, <2>4, <2>5, <2>6
<1> QED
  BY <1>2, <1>3

\* A command the device accepts keeps all distances, and is not early.
LEMMA AcceptedInTime ==
  ASSUME SlotLongEnough, TypeOK, TurnsInOrder, SlotInv, turn = NumRequestors,
         NEW id \in Critical, Buffer(id) # <<>>,
         CommandCheck(dev, Head(Buffer(id)).type, OwnRank, id)
  PROVE  /\ Kept(RankTiming, since, Head(Buffer(id)).type, Requestors)
         /\ Kept(BankTiming, since, Head(Buffer(id)).type, {id})
         /\ \/ StartsSlot(id)
            \/ OpensRow(id) /\ Elapsed = Speed.nRP
            \/ AccessesRow(id) /\ Elapsed = Speed.nRP + Speed.nRCD
<1> DEFINE cmd == Head(Buffer(id)).type
<1>1. StartsSlot(id) \/ OpensRow(id) \/ AccessesRow(id)
  BY SlotPhases
<1>2. /\ id \in Requestors /\ cmd \in OpenPage /\ Ahead = 0
      /\ since \in [OpenPage \X Requestors -> Nat]
      /\ \A c \in OpenPage : since[<<c, id>>] \in Nat
  BY <1>1, SlotConstants DEF StartsSlot, OpensRow, AccessesRow, SlotInv, Ahead
<1>3. Elapsed \in Int /\ Elapsed + Ahead = Elapsed
  BY <1>2, SlotConstants DEF TurnsInOrder, Elapsed, Left
<1>4. /\ Kept(RankTiming, since, cmd, Requestors)
      /\ cmd # "PRE" => Kept(BankTiming, since, cmd, {id})
  BY <1>2, DeviceWaitedKeeps DEF SlotInv
<1>5. CASE StartsSlot(id)
  <2>1. slotCounter = 0 /\ Left = 0 /\ cmd = "PRE"
    BY <1>2, <1>5 DEF StartsSlot, Left
  <2>2. /\ \A a \in Activates : since[<<a, id>>] + Left >= Speed.nRAS
        /\ since[<<"RD", id>>] + Left >= Speed.nRTP
        /\ since[<<"WR", id>>] + Left >= WriteRecovery
    BY <1>2 DEF SlotInv, RowsRecovered
  <2>3. ASSUME NEW e \in BankTiming, e[2] = "PRE", <<e[1], id>> \in DOMAIN since
        PROVE  since[<<e[1], id>>] >= e[3]
    <3>1. e[1] \in OpenPage /\ since[<<e[1], id>>] \in Nat
      BY <1>2, <2>3
    <3>2. \/ e[1] = "RD" /\ e[3] = Speed.nRTP
          \/ e[1] = "WR" /\ e[3] = WriteRecovery
          \/ e[1] \in Activates /\ e[3] = Speed.nRAS
      BY <2>3, <3>1, BankDistances, SlotConstants
    <3>3. since[<<e[1], id>>] + Left >= e[3]
      BY <2>2, <3>2
    <3> QED
      BY <2>1, <3>1, <3>3
  <2>4. Kept(BankTiming, since, cmd, {id})
    BY <2>1, <2>3 DEF Kept
  <2> QED
    BY <1>4, <1>5, <2>4
<1>6. CASE OpensRow(id)
  <2>1. cmd \in Activates /\ cmd # "PRE"
    BY <1>6, SlotConstants DEF OpensRow
  <2>2. <<"PRE", cmd, Speed.nRP>> \in BankTiming
    BY <2>1 DEF BankTiming, After
  <2>3. since[<<"PRE", id>>] >= Speed.nRP
    BY <1>2, <1>4, <2>1, <2>2, SlotConstants DEF Kept
  <2>4. since[<<"PRE", id>>] <= Elapsed /\ Elapsed <= Speed.nRP
    BY <1>3, <1>6 DEF OpensRow, Opening
  <2>5. since[<<"PRE", id>>] \in Int /\ Speed.nRP \in Int /\ Elapsed \in Int
    <3>1. "PRE" \in OpenPage
      BY SlotConstants
    <3>2. since[<<"PRE", id>>] \in Nat
      BY <1>2, <3>1
    <3>3. Speed.nRP \in Nat
      BY SpeedInt
    <3> QED
      BY <1>3, <3>2, <3>3
  <2>6. \A x, y, z \in Int : x >= z /\ x <= y /\ y <= z => y = z
    OBVIOUS
  <2>7. Elapsed = Speed.nRP
    BY <2>3, <2>4, <2>5, <2>6
  <2> QED
    BY <1>4, <1>6, <2>1, <2>7
<1>7. CASE AccessesRow(id)
  <2>1. cmd \in {"RD", "WR"} /\ cmd # "PRE"
    BY <1>7 DEF AccessesRow
  <2>2. \A a \in Activates : <<a, cmd, Speed.nRCD>> \in BankTiming
    BY <2>1 DEF BankTiming, After, Accesses, Reads, Writes
  <2>3. PICK a \in Activates : since[<<a, id>>] + Speed.nRP <= Elapsed
    BY <1>7 DEF AccessesRow, Accessing
  <2>4. a \in OpenPage /\ since[<<a, id>>] \in Nat
    BY <1>2, SlotConstants
  <2>5. since[<<a, id>>] >= Speed.nRCD
    BY <1>2, <1>4, <2>1, <2>2, <2>4 DEF Kept
  <2>6. Elapsed <= Speed.nRP + Speed.nRCD
    BY <1>3, <1>7 DEF AccessesRow, Accessing
  <2> DEFINE age == since[<<a, id>>]
  <2>7. /\ age \in Nat /\ Speed.nRP \in Nat /\ Speed.nRCD \in Nat /\ Elapsed \in Int
        /\ age + Speed.nRP <= Elapsed /\ age >= Speed.nRCD /\ Elapsed <= Speed.nRP + Speed.nRCD
    BY <1>3, <2>3, <2>4, <2>5, <2>6, SpeedInt
  <2> HIDE DEF age
  <2>8. Elapsed = Speed.nRP + Speed.nRCD
    BY <2>7
  <2> QED
    BY <1>4, <1>7, <2>1, <2>8
<1> QED
  BY <1>1, <1>5, <1>6, <1>7

\* And the device accepts it when it is due.
LEMMA RefusedEarly ==
  ASSUME SlotLongEnough, TypeOK, TurnsInOrder, SlotInv, turn = NumRequestors,
         NEW id \in Critical, Buffer(id) # <<>>,
         ~ CommandCheck(dev, Head(Buffer(id)).type, OwnRank, id)
  PROVE  \/ OpensRow(id) /\ Elapsed < Speed.nRP
         \/ AccessesRow(id) /\ Elapsed < Speed.nRP + Speed.nRCD
<1> DEFINE cmd == Head(Buffer(id)).type
<1>1. StartsSlot(id) \/ OpensRow(id) \/ AccessesRow(id)
  BY SlotPhases
<1>2. /\ id \in Requestors /\ cmd \in OpenPage /\ Ahead = 0
      /\ DeviceType(dev, OwnDevice) /\ OwnRank \in OwnDevice.ranks
      /\ Requestors \subseteq OwnDevice.banks /\ OpenPage \subseteq Commands
  BY <1>1, SlotConstants DEF StartsSlot, OpensRow, AccessesRow, SlotInv, Ahead
<1>3. /\ Elapsed \in Int /\ Elapsed + Ahead = Elapsed /\ Left \in Nat
      /\ Speed.nRP \in Nat /\ Speed.nRCD \in Nat
  BY <1>2, SlotConstants, SpeedInt DEF TurnsInOrder, Elapsed, Left
<1>4. ASSUME NEW m \in Nat, NEW n \in Nat, ReadyAt(m, n)
      PROVE  DueAt(m, n)[cmd] # 0
  <2>1. DueAt(m, n) \in [OpenPage -> Nat]
    BY DueAtIs
  <2>2. DeviceDue(dev, DueAt(m, n), OwnRank, Requestors)
    BY <1>4 DEF ReadyAt
  <2> HIDE DEF cmd
  <2>3. DueAt(m, n)[cmd] = 0 => CommandCheck(dev, cmd, OwnRank, id)
    BY <1>2, <2>1, <2>2, DeviceDueAccepts
  <2> QED
    BY <2>3 DEF cmd
<1>5. ~ StartsSlot(id)
  <2> SUFFICES ASSUME StartsSlot(id) PROVE FALSE
    OBVIOUS
  <2>1. cmd = "PRE" /\ ReadyAt(Left + Speed.nRP, Left + Speed.nRP + Speed.nRCD)
    BY DEF StartsSlot, Between
  <2>2. Left + Speed.nRP \in Nat /\ Left + Speed.nRP + Speed.nRCD \in Nat
    BY <1>3
  <2>3. DueAt(Left + Speed.nRP, Left + Speed.nRP + Speed.nRCD)[cmd] # 0
    BY <1>4, <2>1, <2>2
  <2> DEFINE m == Left + Speed.nRP
             n == Left + Speed.nRP + Speed.nRCD
  <2>4. m \in Nat /\ n \in Nat /\ DueAt(m, n)[cmd] # 0 /\ cmd \in OpenPage /\ cmd = "PRE"
    BY <1>2, <2>1, <2>2, <2>3
  <2> HIDE DEF cmd, m, n
  <2> QED
    BY <2>4, DueAtIs
<1>6. CASE OpensRow(id)
  <2>1. /\ cmd \in Activates /\ cmd # "PRE" /\ Elapsed <= Speed.nRP
        /\ ReadyAt(Speed.nRP - Elapsed, Speed.nRP + Speed.nRCD - Elapsed)
    BY <1>3, <1>6, SlotConstants DEF OpensRow, Opening
  <2>2. Speed.nRP - Elapsed \in Nat /\ Speed.nRP + Speed.nRCD - Elapsed \in Nat
    BY <1>3, <2>1
  <2>3. DueAt(Speed.nRP - Elapsed, Speed.nRP + Speed.nRCD - Elapsed)[cmd] # 0
    BY <1>4, <2>1, <2>2
  <2>4. DueAt(Speed.nRP - Elapsed, Speed.nRP + Speed.nRCD - Elapsed)[cmd] = Speed.nRP - Elapsed
    BY <1>2, <2>1, <2>2, DueAtIs
  <2>5. Elapsed < Speed.nRP
    BY <1>3, <2>1, <2>3, <2>4
  <2> QED
    BY <1>6, <2>5
<1>7. CASE AccessesRow(id)
  <2>1. /\ cmd \in {"RD", "WR"} /\ cmd \notin Activates /\ cmd # "PRE"
        /\ Elapsed <= Speed.nRP + Speed.nRCD
        /\ ReadyAt(Left + Speed.nRP, Speed.nRP + Speed.nRCD - Elapsed)
    BY <1>3, <1>7, SlotConstants DEF AccessesRow, Accessing
  <2>2. Left + Speed.nRP \in Nat /\ Speed.nRP + Speed.nRCD - Elapsed \in Nat
    BY <1>3, <2>1
  <2>3. DueAt(Left + Speed.nRP, Speed.nRP + Speed.nRCD - Elapsed)[cmd] # 0
    BY <1>4, <2>1, <2>2
  <2>4. DueAt(Left + Speed.nRP, Speed.nRP + Speed.nRCD - Elapsed)[cmd]
          = Speed.nRP + Speed.nRCD - Elapsed
    BY <1>2, <2>1, <2>2, DueAtIs
  <2>5. Elapsed < Speed.nRP + Speed.nRCD
    BY <1>3, <2>1, <2>3, <2>4
  <2> QED
    BY <1>7, <2>5
<1> QED
  BY <1>1, <1>5, <1>6, <1>7

\* A step in which nothing is sent keeps the invariant.
LEMMA SlotNothingKeeps ==
  ASSUME SlotLongEnough, TypeOK, TurnsInOrder, SlotInv, SlotStep, NothingSent,
         turn = NumRequestors, turn' = NumRequestors + 1
  PROVE  SlotInv'
<1>1. /\ Left = slotCounter /\ slotCounter \in 0 .. timeSlot - 1
      /\ Elapsed = timeSlot - slotCounter
      /\ Left' \in 1 .. timeSlot /\ Elapsed' = timeSlot - Left' /\ Ahead' = 1
      /\ slotCounter # 0 => Left' = Left /\ Chosen = {}
      /\ slotCounter = 0 => Left' = (IF Chosen = {} THEN 1 ELSE timeSlot)
  BY SlotClock
<1>2. Left \in Nat /\ Left' \in Nat /\ Left <= Left' /\ timeSlot \in Nat
  BY <1>1, SlotConstants
<1>3. /\ since' = since /\ dev' = dev
      /\ \A id \in Critical : commandQueue'[id] = Buffer(id)
      /\ \A id \in Critical :
           Buffer(id) # <<>> => ~ CommandCheck(dev, Head(Buffer(id)).type, OwnRank, id)
  BY SlotConstants DEF NothingSent
<1>4. /\ since \in [OpenPage \X Requestors -> Nat] /\ DeviceType(dev, OwnDevice)
      /\ Speed.nRP \in Nat /\ Speed.nRCD \in Nat
  BY SpeedInt DEF SlotInv
<1>5. RowsRecovered'
  <2> SUFFICES ASSUME NEW id \in Requestors
               PROVE  /\ \A a \in Activates : since[<<a, id>>] + Left' >= Speed.nRAS
                      /\ since[<<"RD", id>>] + Left' >= Speed.nRTP
                      /\ since[<<"WR", id>>] + Left' >= WriteRecovery
    BY <1>3 DEF RowsRecovered
  <2>1. \A c \in OpenPage : since[<<c, id>>] \in Nat
    BY <1>4
  <2>2. /\ \A a \in Activates : since[<<a, id>>] + Left >= Speed.nRAS
        /\ since[<<"RD", id>>] + Left >= Speed.nRTP
        /\ since[<<"WR", id>>] + Left >= WriteRecovery
    BY DEF SlotInv, RowsRecovered
  <2>3. \A c \in OpenPage, n \in Nat : since[<<c, id>>] + Left >= n => since[<<c, id>>] + Left' >= n
    BY <1>2, <2>1
  <2>4. Speed.nRAS \in Nat /\ Speed.nRTP \in Nat /\ WriteRecovery \in Nat
    BY SlotLengths
  <2> QED
    BY <2>2, <2>3, <2>4, SlotConstants
<1>6. InSlot'
  <2>1. CASE \A id \in Critical : Buffer(id) = <<>>
    <3>1. \A id \in Critical : commandQueue'[id] = <<>>
      BY <1>3, <2>1
    <3>2. \A id \in Critical : commandQueue[id] = <<>>
      <4>1. \A id \in Critical : id \notin Chosen => Buffer(id) = commandQueue[id]
        BY SlotBuffers, SlotConstants
      <4>2. CASE slotCounter = 0
        BY <4>2, SlotsEndEmpty DEF Between
      <4>3. CASE slotCounter # 0
        BY <1>1, <2>1, <4>1, <4>3
      <4> QED
        BY <4>2, <4>3
    <3>3. Between
      <4>1. \A id \in Critical : ~ Opening(id) /\ ~ Accessing(id)
        BY <3>2 DEF Opening, Accessing
      <4> QED
        BY <4>1 DEF SlotInv, InSlot
    <3>4. DeviceDue(dev, DueAt(Left' + Speed.nRP, Left' + Speed.nRP + Speed.nRCD), OwnRank, Requestors)
      <4> DEFINE m == Left + Speed.nRP
                 n == Left + Speed.nRP + Speed.nRCD
                 later == Left' + Speed.nRP
                 latest == Left' + Speed.nRP + Speed.nRCD
      <4>1. /\ m \in Nat /\ n \in Nat /\ later \in Nat /\ latest \in Nat
            /\ m <= later /\ n <= latest
        BY <1>2, <1>4
      <4>2. DeviceDue(dev, DueAt(m, n), OwnRank, Requestors)
        BY <3>3 DEF Between, ReadyAt
      <4> HIDE DEF m, n, later, latest
      <4>3. DeviceDue(dev, DueAt(later, latest), OwnRank, Requestors)
        BY <1>4, <4>1, <4>2, ReadyLater
      <4> QED
        BY <4>3 DEF later, latest
    <3> QED
      BY <1>3, <3>1, <3>4 DEF InSlot, Between, ReadyAt
  <2>2. CASE \E id \in Critical : Buffer(id) # <<>>
    <3>1. PICK id \in Critical : Buffer(id) # <<>>
      BY <2>2
    <3>2. /\ \A j \in Critical : j # id => commandQueue'[j] = <<>>
          /\ commandQueue'[id] = Buffer(id)
      BY <1>3, <3>1, SlotPhases
    <3>3. \/ OpensRow(id) /\ Elapsed < Speed.nRP
          \/ AccessesRow(id) /\ Elapsed < Speed.nRP + Speed.nRCD
      BY <1>3, <3>1, RefusedEarly
    <3>4. Left' = Left /\ Elapsed' = Elapsed /\ commandQueue'[id] = commandQueue[id]
      BY <1>1, <3>2, <3>3 DEF OpensRow, AccessesRow
    <3>5. Elapsed \in Int
      BY <1>1, <1>2
    <3>6. CASE OpensRow(id) /\ Elapsed < Speed.nRP
      <4>1. Elapsed' + Ahead' <= Speed.nRP
        BY <1>1, <1>4, <3>4, <3>5, <3>6
      <4>2. Opening(id)'
        BY <1>3, <3>2, <3>4, <3>6, <4>1 DEF OpensRow, Opening, Alone, ReadyAt
      <4> QED
        BY <4>2 DEF InSlot
    <3>7. CASE AccessesRow(id) /\ Elapsed < Speed.nRP + Speed.nRCD
      <4>1. Elapsed' + Ahead' <= Speed.nRP + Speed.nRCD
        BY <1>1, <1>4, <3>4, <3>5, <3>7
      <4>2. Accessing(id)'
        BY <1>3, <3>2, <3>4, <3>7, <4>1 DEF AccessesRow, Accessing, Alone, ReadyAt
      <4> QED
        BY <4>2 DEF InSlot
    <3> QED
      BY <3>3, <3>6, <3>7
  <2> QED
    BY <2>1, <2>2
<1> QED
  BY <1>3, <1>5, <1>6 DEF SlotInv, DeviceType, OwnDevice, DeviceWaited, Waited, Passed

\* A command that is sent changes no other command's age, and not its type.
AgesAfter(s, cmd, id, s2) ==
  /\ s2 \in [OpenPage \X Requestors -> Nat]
  /\ \A c \in OpenPage, j \in Requestors :
       s2[<<c, j>>] = IF c = cmd /\ j = id THEN 0 ELSE s[<<c, j>>]

\* SentTo does so.
LEMMA SentAges ==
  ASSUME NEW s \in [OpenPage \X Requestors -> Nat], NEW cmd \in OpenPage, NEW id \in Requestors
  PROVE  AgesAfter(s, cmd, id, SentTo(s, cmd, {id}))
<1>1. SentTo(s, cmd, {id})
        = [x \in OpenPage \X Requestors |-> IF x[1] = cmd /\ x[2] \in {id} THEN 0 ELSE s[x]]
  BY DEF SentTo
<1>2. \A x \in OpenPage \X Requestors :
        (IF x[1] = cmd /\ x[2] \in {id} THEN 0 ELSE s[x]) \in Nat
  OBVIOUS
<1> QED
  BY <1>1, <1>2 DEF AgesAfter

\* A step in which a command is sent keeps the invariant.
LEMMA SlotSentKeeps ==
  ASSUME SlotLongEnough, TypeOK, TurnsInOrder, SlotInv, SlotStep,
         NEW id \in Requestors, OneSent(id),
         turn = NumRequestors, turn' = NumRequestors + 1
  PROVE  SlotInv'
<1> DEFINE cmd == Head(Buffer(id)).type
<1>1. /\ Left = slotCounter /\ slotCounter \in 0 .. timeSlot - 1
      /\ Elapsed = timeSlot - slotCounter
      /\ Left' \in 1 .. timeSlot /\ Elapsed' = timeSlot - Left' /\ Ahead' = 1
      /\ slotCounter # 0 => Left' = Left /\ Chosen = {}
      /\ slotCounter = 0 => Left' = (IF Chosen = {} THEN 1 ELSE timeSlot)
  BY SlotClock
<1>2. Left \in Nat /\ Left' \in Nat /\ Left <= Left' /\ timeSlot \in Nat /\ Elapsed \in Int
  BY <1>1, SlotConstants
<1>3. /\ id \in Critical /\ Buffer(id) # <<>> /\ CommandCheck(dev, cmd, OwnRank, id)
      /\ \A j \in Critical : commandQueue'[j] = IF j = id THEN Tail(Buffer(j)) ELSE Buffer(j)
      /\ since' = SentTo(since, cmd, {id}) /\ dev' = DeviceUpdate(dev, cmd, OwnRank, id)
  BY SlotConstants DEF OneSent
<1>4. /\ since \in [OpenPage \X Requestors -> Nat] /\ DeviceType(dev, OwnDevice)
      /\ DeviceWaited(dev, since, OwnRank, Requestors)
  BY DEF SlotInv
<1>5. \/ StartsSlot(id)
      \/ OpensRow(id) /\ Elapsed = Speed.nRP
      \/ AccessesRow(id) /\ Elapsed = Speed.nRP + Speed.nRCD
  BY <1>3, AcceptedInTime
<1>6. /\ OpenPage \subseteq Commands /\ OwnRank \in OwnDevice.ranks
      /\ Requestors \subseteq OwnDevice.banks /\ cmd \in OpenPage /\ cmd \in Commands
      /\ OpenPage = {"ACT_R", "ACT_W", "PRE", "RD", "WR"} /\ Activates = {"ACT_R", "ACT_W"}
  BY <1>5, SlotConstants DEF StartsSlot, OpensRow, AccessesRow
<1>7. \A j \in Critical : j # id => commandQueue'[j] = <<>>
  BY <1>3, SlotPhases
<1>8. /\ Buffer(id) \in Seq(Packets) /\ commandQueue'[id] = Tail(Buffer(id))
      /\ Len(commandQueue'[id]) = Len(Buffer(id)) - 1
      /\ \A k \in 1 .. Len(Buffer(id)) - 1 : commandQueue'[id][k] = Buffer(id)[k + 1]
  <2>1. Buffer(id) \in Seq(Packets) /\ Buffer(id) # <<>> /\ commandQueue'[id] = Tail(Buffer(id))
    BY <1>3, SlotBuffers
  <2>2. \A s \in Seq(Packets) : s # <<>> =>
          /\ Len(Tail(s)) = Len(s) - 1
          /\ \A k \in 1 .. Len(s) - 1 : Tail(s)[k] = s[k + 1]
    OBVIOUS
  <2> QED
    BY <2>1, <2>2
<1>9. /\ timeSlot \in Nat /\ Speed.nRP \in Nat \ {0} /\ Speed.nRCD \in Nat \ {0}
      /\ Speed.nRP + Speed.nRCD < timeSlot
  BY SlotLengths
<1> HIDE DEF cmd
<1>10. /\ since' \in [OpenPage \X Requestors -> Nat]
       /\ \A c \in OpenPage, j \in Requestors :
            since'[<<c, j>>] = IF c = cmd /\ j = id THEN 0 ELSE since[<<c, j>>]
  <2>1. AgesAfter(since, cmd, id, SentTo(since, cmd, {id}))
    BY <1>4, <1>6, SentAges
  <2>2. AgesAfter(since, cmd, id, since')
    BY <1>3, <2>1
  <2> QED
    BY <2>2 DEF AgesAfter
<1>11. /\ DeviceType(dev', OwnDevice)
       /\ DeviceWaited(dev', since', OwnRank, Requestors)
  <2>1. id \in OwnDevice.banks
    BY <1>6
  <2>2. DeviceType(DeviceUpdate(dev, cmd, OwnRank, id), OwnDevice)
    BY <1>4, <1>6, <2>1, UpdateType
  <2>3. DeviceWaited(DeviceUpdate(dev, cmd, OwnRank, id), SentTo(since, cmd, {id}), OwnRank, Requestors)
    BY <1>4, <1>6, DeviceWaitedSend
  <2> QED
    BY <1>3, <2>2, <2>3
<1>12. ASSUME NEW m \in Nat, NEW n \in Nat, NEW later \in Nat, NEW latest \in Nat,
              m <= later, n <= latest, DeviceDue(dev, DueAt(m, n), OwnRank, Requestors),
              AddsAtMost(cmd, "PRE", 0), \A a \in Activates : AddsAtMost(cmd, a, later),
              \A x \in {"RD", "WR"} : AddsAtMost(cmd, x, latest)
       PROVE  DeviceDue(dev', DueAt(later, latest), OwnRank, Requestors)
  <2>1. DueAt(m, n) \in [OpenPage -> Nat] /\ DueAt(later, latest) \in [OpenPage -> Nat]
    BY DueAtIs
  <2>2. \A c \in OpenPage : /\ DueAt(m, n)[c] <= DueAt(later, latest)[c]
                            /\ AddsAtMost(cmd, c, DueAt(later, latest)[c])
    <3> SUFFICES ASSUME NEW c \in OpenPage
                 PROVE  /\ DueAt(m, n)[c] <= DueAt(later, latest)[c]
                        /\ AddsAtMost(cmd, c, DueAt(later, latest)[c])
      OBVIOUS
    <3>1. DueAt(m, n)[c] = IF c = "PRE" THEN 0 ELSE IF c \in Activates THEN m ELSE n
      BY DueAtIs
    <3>2. DueAt(later, latest)[c] = IF c = "PRE" THEN 0 ELSE IF c \in Activates THEN later ELSE latest
      BY DueAtIs
    <3>3. c = "PRE" \/ c \in Activates \/ c \in {"RD", "WR"}
      BY <1>6
    <3>4. "PRE" \notin Activates /\ {"RD", "WR"} \cap Activates = {} /\ "PRE" \notin {"RD", "WR"}
      BY <1>6
    <3> QED
      BY <1>12, <3>1, <3>2, <3>3, <3>4
  <2>3. DeviceDue(DeviceUpdate(dev, cmd, OwnRank, id), DueAt(later, latest), OwnRank, Requestors)
    BY <1>4, <1>6, <1>12, <2>1, <2>2, DeviceDueSend
  <2> QED
    BY <1>3, <2>3
<1>13. ASSUME \A a \in Activates : cmd = a => Left' >= Speed.nRAS,
              cmd = "RD" => Left' >= Speed.nRTP, cmd = "WR" => Left' >= WriteRecovery
       PROVE  RowsRecovered'
  <2> SUFFICES ASSUME NEW j \in Requestors
               PROVE  /\ \A a \in Activates : since'[<<a, j>>] + Left' >= Speed.nRAS
                      /\ since'[<<"RD", j>>] + Left' >= Speed.nRTP
                      /\ since'[<<"WR", j>>] + Left' >= WriteRecovery
    BY DEF RowsRecovered
  <2>1. ASSUME NEW c \in OpenPage, NEW n \in Nat, since[<<c, j>>] + Left >= n, cmd = c => Left' >= n
        PROVE  since'[<<c, j>>] + Left' >= n
    <3>1. since[<<c, j>>] \in Nat /\ since'[<<c, j>>] = IF c = cmd /\ j = id THEN 0 ELSE since[<<c, j>>]
      BY <1>4, <1>10
    <3> DEFINE age == since[<<c, j>>]
               later == since'[<<c, j>>]
    <3>2. /\ age \in Nat /\ (later = age \/ (later = 0 /\ Left' >= n)) /\ age + Left >= n
      BY <2>1, <3>1
    <3> HIDE DEF age, later
    <3>3. later + Left' >= n
      BY <1>2, <3>2
    <3> QED
      BY <3>3 DEF later
  <2>2. /\ \A a \in Activates : since[<<a, j>>] + Left >= Speed.nRAS
        /\ since[<<"RD", j>>] + Left >= Speed.nRTP
        /\ since[<<"WR", j>>] + Left >= WriteRecovery
    BY DEF SlotInv, RowsRecovered
  <2>3. Speed.nRAS \in Nat /\ Speed.nRTP \in Nat /\ WriteRecovery \in Nat
    BY SlotLengths
  <2>4. ASSUME NEW a \in Activates
        PROVE  since'[<<a, j>>] + Left' >= Speed.nRAS
    BY <1>6, <1>13, <2>1, <2>2, <2>3
  <2>5. since'[<<"RD", j>>] + Left' >= Speed.nRTP /\ since'[<<"WR", j>>] + Left' >= WriteRecovery
    BY <1>6, <1>13, <2>1, <2>2, <2>3
  <2> QED
    BY <2>4, <2>5
<1>14. CASE StartsSlot(id)
  <2>1. /\ Left' = timeSlot /\ Left = 0 /\ cmd = "PRE" /\ Elapsed' = 0
        /\ DeviceDue(dev, DueAt(Left + Speed.nRP, Left + Speed.nRP + Speed.nRCD), OwnRank, Requestors)
    BY <1>1, <1>2, <1>14 DEF StartsSlot, Between, ReadyAt, cmd
  <2>2. RowsRecovered'
    BY <1>6, <1>13, <2>1
  <2>3. DeviceDue(dev', DueAt(Speed.nRP - Elapsed', Speed.nRP + Speed.nRCD - Elapsed'), OwnRank, Requestors)
    <3> DEFINE m == Left + Speed.nRP
               n == Left + Speed.nRP + Speed.nRCD
    <3>1. /\ m \in Nat /\ n \in Nat /\ m = Speed.nRP - Elapsed' /\ n = Speed.nRP + Speed.nRCD - Elapsed'
          /\ Speed.nRP <= m
      BY <1>9, <2>1
    <3>2. DeviceDue(dev, DueAt(m, n), OwnRank, Requestors) /\ m <= m /\ n <= n
      BY <2>1, <3>1
    <3> HIDE DEF m, n
    <3>3. /\ AddsAtMost(cmd, "PRE", 0) /\ \A a \in Activates : AddsAtMost(cmd, a, m)
          /\ \A x \in {"RD", "WR"} : AddsAtMost(cmd, x, n)
      BY <1>6, <2>1, <3>1, PrechargeAdds
    <3>4. DeviceDue(dev', DueAt(m, n), OwnRank, Requestors)
      BY <1>12, <3>1, <3>2, <3>3
    <3> QED
      BY <3>1, <3>4
  <2>4. /\ Len(commandQueue'[id]) = 2
        /\ commandQueue'[id][1].type \in Activates /\ commandQueue'[id][2].type \in {"RD", "WR"}
    <3>1. Len(Buffer(id)) = 3 /\ Buffer(id)[2].type \in Activates /\ Buffer(id)[3].type \in {"RD", "WR"}
      BY <1>14 DEF StartsSlot
    <3>2. 1 \in 1 .. Len(Buffer(id)) - 1 /\ 2 \in 1 .. Len(Buffer(id)) - 1
      BY <3>1
    <3>3. commandQueue'[id][1] = Buffer(id)[2] /\ commandQueue'[id][2] = Buffer(id)[3]
      BY <1>8, <3>2
    <3>4. Len(commandQueue'[id]) = 2
      BY <1>8, <3>1
    <3> QED
      BY <3>1, <3>3, <3>4, Zenon
  <2>5. since'[<<"PRE", id>>] <= Elapsed' /\ Elapsed' + Ahead' <= Speed.nRP
    <3>1. since'[<<"PRE", id>>] = 0
      BY <1>6, <1>10, <2>1
    <3> QED
      BY <1>1, <1>9, <2>1, <3>1
  <2>6. Opening(id)'
    BY <1>7, <2>3, <2>4, <2>5 DEF Opening, Alone, ReadyAt
  <2> QED
    BY <1>3, <1>10, <1>11, <2>2, <2>6
       DEF SlotInv, InSlot, DeviceType, OwnDevice, DeviceWaited, Waited, Passed
<1>15. CASE OpensRow(id) /\ Elapsed = Speed.nRP
  <2>1. /\ Left' = Left /\ Elapsed' = Elapsed /\ cmd \in Activates
        /\ Left = timeSlot - Speed.nRP /\ Opening(id) /\ Buffer(id) = commandQueue[id]
    BY <1>1, <1>2, <1>9, <1>15 DEF OpensRow, cmd
  <2>2. RowsRecovered'
    <3>1. Left' >= Speed.nRAS
      BY <1>9, <2>1, SlotLengths
    <3> QED
      BY <1>6, <1>13, <2>1, <3>1
  <2>3. DeviceDue(dev', DueAt(Left' + Speed.nRP, Speed.nRP + Speed.nRCD - Elapsed'), OwnRank, Requestors)
    <3> DEFINE m == Speed.nRP - Elapsed
               n == Speed.nRP + Speed.nRCD - Elapsed
               later == Left' + Speed.nRP
    <3>1. /\ m \in Nat /\ n \in Nat /\ later \in Nat /\ m <= later /\ n <= n
          /\ later = timeSlot /\ n = Speed.nRCD
      BY <1>2, <1>9, <1>15, <2>1
    <3>2. DeviceDue(dev, DueAt(m, n), OwnRank, Requestors)
      BY <2>1 DEF Opening, ReadyAt
    <3>3. n = Speed.nRP + Speed.nRCD - Elapsed' /\ later = Left' + Speed.nRP
      BY <2>1
    <3> HIDE DEF m, n, later
    <3>4. /\ AddsAtMost(cmd, "PRE", 0) /\ \A a \in Activates : AddsAtMost(cmd, a, later)
          /\ \A x \in {"RD", "WR"} : AddsAtMost(cmd, x, n)
      <4>1. Speed.nRRD <= later /\ Speed.nRC <= later /\ Speed.nFAW <= later /\ Speed.nRCD <= n
        BY <3>1, SlotLengths, SpeedInt
      <4>2. \A c \in OpenPage : c \in Activates => c \notin {"PRE", "RD", "WR"}
        BY <1>6
      <4>3. "PRE" \in OpenPage /\ "RD" \in OpenPage /\ "WR" \in OpenPage /\ Activates \subseteq OpenPage
        BY <1>6
      <4>4. AddsAtMost(cmd, "PRE", 0)
        BY <2>1, <4>2, <4>3, ActivateAdds
      <4>5. ASSUME NEW a \in Activates PROVE AddsAtMost(cmd, a, later)
        BY <2>1, <3>1, <4>1, <4>2, <4>3, ActivateAdds
      <4>6. ASSUME NEW x \in {"RD", "WR"} PROVE AddsAtMost(cmd, x, n)
        BY <2>1, <3>1, <4>1, <4>2, <4>3, ActivateAdds
      <4> QED
        BY <4>4, <4>5, <4>6
    <3>5. DeviceDue(dev', DueAt(later, n), OwnRank, Requestors)
      BY <1>12, <3>1, <3>2, <3>4
    <3> QED
      BY <3>3, <3>5
  <2>4. Len(commandQueue'[id]) = 1 /\ commandQueue'[id][1].type \in {"RD", "WR"}
    <3>1. Len(Buffer(id)) = 2 /\ Buffer(id)[2].type \in {"RD", "WR"}
      BY <2>1 DEF Opening
    <3>2. 1 \in 1 .. Len(Buffer(id)) - 1
      BY <3>1
    <3>3. commandQueue'[id][1] = Buffer(id)[2]
      BY <1>8, <3>2
    <3>4. Len(commandQueue'[id]) = 1
      BY <1>8, <3>1
    <3> QED
      BY <3>1, <3>3, <3>4, Zenon
  <2>5. /\ \E a \in Activates : since'[<<a, id>>] + Speed.nRP <= Elapsed'
        /\ Elapsed' + Ahead' <= Speed.nRP + Speed.nRCD
    <3>1. since'[<<cmd, id>>] = 0
      BY <1>6, <1>10
    <3>2. since'[<<cmd, id>>] + Speed.nRP <= Elapsed'
      BY <1>9, <1>15, <2>1, <3>1
    <3>3. Elapsed' + Ahead' <= Speed.nRP + Speed.nRCD
      BY <1>1, <1>9, <1>15, <2>1
    <3> QED
      BY <2>1, <3>2, <3>3
  <2>6. Accessing(id)'
    BY <1>7, <2>3, <2>4, <2>5 DEF Accessing, Alone, ReadyAt
  <2> QED
    BY <1>3, <1>10, <1>11, <2>2, <2>6
       DEF SlotInv, InSlot, DeviceType, OwnDevice, DeviceWaited, Waited, Passed
<1>16. CASE AccessesRow(id) /\ Elapsed = Speed.nRP + Speed.nRCD
  <2>1. /\ Left' = Left /\ Elapsed' = Elapsed /\ cmd \in {"RD", "WR"}
        /\ Left = timeSlot - Speed.nRP - Speed.nRCD /\ Accessing(id) /\ Buffer(id) = commandQueue[id]
    BY <1>1, <1>2, <1>9, <1>16 DEF AccessesRow, cmd
  <2>2. RowsRecovered'
    <3>1. Left' >= Speed.nRTP /\ Left' >= WriteRecovery
      BY <1>9, <2>1, SlotLengths
    <3>2. \A a \in Activates : cmd # a
      BY <1>6, <2>1
    <3> QED
      BY <1>13, <3>1, <3>2
  <2>3. DeviceDue(dev', DueAt(Left' + Speed.nRP, Left' + Speed.nRP + Speed.nRCD), OwnRank, Requestors)
    <3> DEFINE m == Left + Speed.nRP
               n == Speed.nRP + Speed.nRCD - Elapsed
               latest == Left' + Speed.nRP + Speed.nRCD
    <3>1. /\ m \in Nat /\ n \in Nat /\ latest \in Nat /\ m <= m /\ n <= latest
          /\ latest = timeSlot
      BY <1>2, <1>9, <1>16, <2>1
    <3>2. DeviceDue(dev, DueAt(m, n), OwnRank, Requestors)
      BY <2>1 DEF Accessing, ReadyAt
    <3>3. m = Left' + Speed.nRP
      BY <2>1
    <3>4. latest = Left' + Speed.nRP + Speed.nRCD
      OBVIOUS
    <3> HIDE DEF m, n, latest
    <3>5. /\ AddsAtMost(cmd, "PRE", 0) /\ \A a \in Activates : AddsAtMost(cmd, a, m)
          /\ \A x \in {"RD", "WR"} : AddsAtMost(cmd, x, latest)
      <4>1. /\ Speed.nBL <= latest /\ Speed.nCCD <= latest
            /\ ReadToWrite <= latest /\ WriteToRead <= latest
        BY <3>1, SlotLengths
      <4>2. \A c \in OpenPage : c \in Activates \/ c = "PRE" => c \notin {"RD", "WR"}
        BY <1>6
      <4>3. "PRE" \in OpenPage /\ "RD" \in OpenPage /\ "WR" \in OpenPage /\ Activates \subseteq OpenPage
        BY <1>6
      <4>4. AddsAtMost(cmd, "PRE", 0)
        BY <2>1, <4>2, <4>3, AccessAdds
      <4>5. ASSUME NEW a \in Activates PROVE AddsAtMost(cmd, a, m)
        BY <2>1, <3>1, <4>2, <4>3, AccessAdds
      <4>6. ASSUME NEW x \in {"RD", "WR"} PROVE AddsAtMost(cmd, x, latest)
        BY <2>1, <3>1, <4>1, <4>3, AccessAdds
      <4> QED
        BY <4>4, <4>5, <4>6
    <3>6. DeviceDue(dev', DueAt(m, latest), OwnRank, Requestors)
      BY <1>12, <3>1, <3>2, <3>5
    <3> QED
      BY <3>3, <3>4, <3>6
  <2>4. \A j \in Critical : commandQueue'[j] = <<>>
    <3>1. Len(Buffer(id)) = 1
      BY <2>1 DEF Accessing
    <3>2. \A s \in Seq(Packets) : s # <<>> => Tail(s) \in Seq(Packets)
      OBVIOUS
    <3>3. commandQueue'[id] \in Seq(Packets) /\ Len(commandQueue'[id]) = 0
      BY <1>3, <1>8, <3>1, <3>2
    <3>4. commandQueue'[id] = <<>>
      BY <3>3
    <3> QED
      BY <1>7, <3>4
  <2>5. Between'
    BY <2>3, <2>4 DEF Between, ReadyAt
  <2> QED
    BY <1>10, <1>11, <2>2, <2>5
       DEF SlotInv, InSlot, DeviceType, OwnDevice, DeviceWaited, Waited, Passed
<1> QED
  BY <1>5, <1>14, <1>15, <1>16

\* A device that is ready in time is ready a cycle sooner after a cycle.
LEMMA ReadySooner ==
  ASSUME NEW d, DeviceType(d, OwnDevice), NEW m \in Nat, NEW n \in Nat,
         NEW sooner \in Nat, NEW soonest \in Nat, m <= sooner + 1, n <= soonest + 1,
         DeviceDue(d, DueAt(m, n), OwnRank, Requestors)
  PROVE  DeviceDue(DeviceTick(d), DueAt(sooner, soonest), OwnRank, Requestors)
<1>1. DueAt(m, n) \in [OpenPage -> Nat] /\ DueAt(sooner, soonest) \in [OpenPage -> Nat]
  BY DueAtIs
<1>2. ASSUME NEW c \in OpenPage
      PROVE  DueAt(m, n)[c] <= DueAt(sooner, soonest)[c] + 1
  <2>1. DueAt(m, n)[c] = IF c = "PRE" THEN 0 ELSE IF c \in Activates THEN m ELSE n
    BY DueAtIs
  <2>2. DueAt(sooner, soonest)[c]
          = IF c = "PRE" THEN 0 ELSE IF c \in Activates THEN sooner ELSE soonest
    BY DueAtIs
  <2> QED
    BY <2>1, <2>2
<1>3. /\ OpenPage \subseteq Commands /\ OwnRank \in OwnDevice.ranks
      /\ Requestors \subseteq OwnDevice.banks
  BY SlotConstants
<1> QED
  BY <1>1, <1>2, <1>3, DeviceDueTick

\* A clock cycle keeps the invariant.
LEMMA SlotCycleKeeps ==
  ASSUME SlotLongEnough, TurnsInOrder, SlotInv, SlotMemoryUpdate, RecordCycle
  PROVE  SlotInv'
<1>1. /\ turn = NumRequestors + 1 /\ turn' \in {NumRequestors + 2, 0}
      /\ dev' = DeviceTick(dev) /\ commandQueue' = commandQueue /\ slotCounter' = slotCounter
  BY DEF SlotMemoryUpdate, MemoryUpdate, queueVars, Ended
<1>2. Ahead = 1 /\ Ahead' = 0
  BY <1>1, SlotConstants DEF Ahead
<1>3. /\ Left' \in Nat /\ Left = Left' + 1 /\ Elapsed \in Int /\ Elapsed' = Elapsed + 1
      /\ Elapsed' + Ahead' = Elapsed + Ahead /\ Elapsed + Ahead = Elapsed + 1
  BY <1>1, <1>2, SlotConstants DEF TurnsInOrder, Left, Elapsed
<1>4. /\ since \in [OpenPage \X Requestors -> Nat] /\ DeviceType(dev, OwnDevice)
      /\ DeviceWaited(dev, since, OwnRank, Requestors)
      /\ Speed.nRP \in Nat /\ Speed.nRCD \in Nat
  BY SpeedInt DEF SlotInv
<1>5. since' = OneMoreCycle(since, AgeLimit)
  BY <1>4 DEF RecordCycle, OneMoreCycle, AgeLimit
<1>6. ASSUME NEW c \in OpenPage, NEW j \in Requestors
      PROVE  /\ since'[<<c, j>>] \in Nat /\ since[<<c, j>>] \in Nat
             /\ since'[<<c, j>>] = since[<<c, j>>] + 1 \/ since'[<<c, j>>] = MaxAge
             /\ since'[<<c, j>>] <= since[<<c, j>>] + 1
  <2>1. since[<<c, j>>] \in Nat
    BY <1>4
  <2>2. since'[<<c, j>>] = Min({MaxAge, since[<<c, j>>] + 1})
    BY <1>4, <1>5 DEF OneMoreCycle, AgeLimit
  <2>3. Min({MaxAge, since[<<c, j>>] + 1})
          = IF MaxAge <= since[<<c, j>>] + 1 THEN MaxAge ELSE since[<<c, j>>] + 1
    BY <2>1, SlotConstants, Smaller
  <2> QED
    BY <2>1, <2>2, <2>3, SlotConstants
<1>7. since' \in [OpenPage \X Requestors -> Nat]
  <2>1. DOMAIN since' = OpenPage \X Requestors /\ since' = [x \in DOMAIN since' |-> since'[x]]
    BY <1>4, <1>5 DEF OneMoreCycle
  <2> QED
    BY <1>6, <2>1
<1>8. DeviceType(dev', OwnDevice)
  <2>1. DeviceType(DeviceTick(dev), OwnDevice)
    BY <1>4, TickType
  <2> QED
    BY <1>1, <2>1
<1>9. DeviceWaited(dev', since', OwnRank, Requestors)
  <2>1. /\ OpenPage \subseteq Commands /\ OwnRank \in OwnDevice.ranks
        /\ Requestors \subseteq OwnDevice.banks
    BY SlotConstants
  <2>2. DeviceWaited(DeviceTick(dev), OneMoreCycle(since, AgeLimit), OwnRank, Requestors)
    BY <1>4, <2>1, AgeLimitIs, DeviceWaitedTick
  <2> QED
    BY <1>1, <1>5, <2>2
<1>10. RowsRecovered'
  <2> SUFFICES ASSUME NEW j \in Requestors
               PROVE  /\ \A a \in Activates : since'[<<a, j>>] + Left' >= Speed.nRAS
                      /\ since'[<<"RD", j>>] + Left' >= Speed.nRTP
                      /\ since'[<<"WR", j>>] + Left' >= WriteRecovery
    BY DEF RowsRecovered
  <2>1. ASSUME NEW c \in OpenPage, NEW n \in Nat, since[<<c, j>>] + Left >= n, MaxAge >= n
        PROVE  since'[<<c, j>>] + Left' >= n
    <3> DEFINE age == since[<<c, j>>]
               later == since'[<<c, j>>]
    <3>1. /\ age \in Nat /\ later \in Nat /\ (later = age + 1 \/ later = MaxAge)
          /\ age + Left >= n /\ MaxAge \in Nat /\ MaxAge >= n /\ n \in Nat
      BY <1>6, <2>1, SlotConstants
    <3> HIDE DEF age, later
    <3>2. Left' \in Nat /\ Left = Left' + 1
      BY <1>3
    <3>3. \A x, y, left \in Nat : (y = x + 1 /\ x + (left + 1) >= n) \/ y >= n => y + left >= n
      OBVIOUS
    <3>4. later >= n \/ later = age + 1
      BY <3>1
    <3>5. age + (Left' + 1) >= n
      BY <3>1, <3>2
    <3>6. later + Left' >= n
      BY <3>1, <3>2, <3>3, <3>4, <3>5
    <3> QED
      BY <3>6 DEF later
  <2>2. /\ \A a \in Activates : since[<<a, j>>] + Left >= Speed.nRAS
        /\ since[<<"RD", j>>] + Left >= Speed.nRTP
        /\ since[<<"WR", j>>] + Left >= WriteRecovery
    BY DEF SlotInv, RowsRecovered
  <2>3. /\ Speed.nRAS \in Nat /\ Speed.nRTP \in Nat /\ WriteRecovery \in Nat
        /\ Activates \subseteq OpenPage /\ "RD" \in OpenPage /\ "WR" \in OpenPage
    BY SlotLengths, SlotConstants
  <2> QED
    BY <2>1, <2>2, <2>3, AgeLimitIs
<1>11. InSlot'
  <2>1. CASE Between
    <3> DEFINE m == Left + Speed.nRP
               n == Left + Speed.nRP + Speed.nRCD
               sooner == Left' + Speed.nRP
               soonest == Left' + Speed.nRP + Speed.nRCD
    <3>1. /\ m \in Nat /\ n \in Nat /\ sooner \in Nat /\ soonest \in Nat
          /\ m <= sooner + 1 /\ n <= soonest + 1
      BY <1>3, <1>4
    <3>2. DeviceDue(dev, DueAt(m, n), OwnRank, Requestors)
      BY <2>1 DEF Between, ReadyAt
    <3> HIDE DEF m, n, sooner, soonest
    <3>3. DeviceDue(DeviceTick(dev), DueAt(sooner, soonest), OwnRank, Requestors)
      BY <1>4, <3>1, <3>2, ReadySooner
    <3>4. DeviceDue(dev', DueAt(Left' + Speed.nRP, Left' + Speed.nRP + Speed.nRCD), OwnRank, Requestors)
      BY <1>1, <3>3 DEF sooner, soonest
    <3>5. Between'
      BY <1>1, <2>1, <3>4 DEF Between, ReadyAt
    <3> QED
      BY <3>5 DEF InSlot
  <2>2. ASSUME NEW id \in Critical, Opening(id)
        PROVE  InSlot'
    <3> DEFINE m == Speed.nRP - Elapsed
               n == Speed.nRP + Speed.nRCD - Elapsed
               sooner == Speed.nRP - Elapsed'
               soonest == Speed.nRP + Speed.nRCD - Elapsed'
    <3>1. since[<<"PRE", id>>] <= Elapsed /\ Elapsed + Ahead <= Speed.nRP
      BY <2>2 DEF Opening
    <3>2. Elapsed + 1 <= Speed.nRP
      BY <1>3, <3>1
    <3>3. /\ m \in Nat /\ n \in Nat /\ sooner \in Nat /\ soonest \in Nat
          /\ m <= sooner + 1 /\ n <= soonest + 1
      BY <1>3, <1>4, <3>2
    <3>4. DeviceDue(dev, DueAt(m, n), OwnRank, Requestors)
      BY <2>2 DEF Opening, ReadyAt
    <3> HIDE DEF m, n, sooner, soonest
    <3>5. DeviceDue(DeviceTick(dev), DueAt(sooner, soonest), OwnRank, Requestors)
      BY <1>4, <3>3, <3>4, ReadySooner
    <3>6. DeviceDue(dev', DueAt(Speed.nRP - Elapsed', Speed.nRP + Speed.nRCD - Elapsed'), OwnRank, Requestors)
      BY <1>1, <3>5 DEF sooner, soonest
    <3>7. since'[<<"PRE", id>>] <= Elapsed'
      <4>1. id \in Requestors /\ "PRE" \in OpenPage
        BY SlotConstants
      <4>2. since'[<<"PRE", id>>] \in Nat /\ since[<<"PRE", id>>] \in Nat
            /\ since'[<<"PRE", id>>] <= since[<<"PRE", id>>] + 1
        BY <1>6, <4>1
      <4> QED
        BY <1>3, <3>1, <4>2
    <3>8. Elapsed' + Ahead' <= Speed.nRP
      BY <1>3, <3>1
    <3>9. Opening(id)'
      BY <1>1, <2>2, <3>6, <3>7, <3>8 DEF Opening, Alone, ReadyAt
    <3> QED
      BY <3>9 DEF InSlot
  <2>3. ASSUME NEW id \in Critical, Accessing(id)
        PROVE  InSlot'
    <3> DEFINE m == Left + Speed.nRP
               n == Speed.nRP + Speed.nRCD - Elapsed
               sooner == Left' + Speed.nRP
               soonest == Speed.nRP + Speed.nRCD - Elapsed'
    <3>1. Elapsed + Ahead <= Speed.nRP + Speed.nRCD
      BY <2>3 DEF Accessing
    <3>2. Elapsed + 1 <= Speed.nRP + Speed.nRCD
      BY <1>3, <3>1
    <3>3. /\ m \in Nat /\ n \in Nat /\ sooner \in Nat /\ soonest \in Nat
          /\ m <= sooner + 1 /\ n <= soonest + 1
      BY <1>3, <1>4, <3>2
    <3>4. DeviceDue(dev, DueAt(m, n), OwnRank, Requestors)
      BY <2>3 DEF Accessing, ReadyAt
    <3> HIDE DEF m, n, sooner, soonest
    <3>5. DeviceDue(DeviceTick(dev), DueAt(sooner, soonest), OwnRank, Requestors)
      BY <1>4, <3>3, <3>4, ReadySooner
    <3>6. DeviceDue(dev', DueAt(Left' + Speed.nRP, Speed.nRP + Speed.nRCD - Elapsed'), OwnRank, Requestors)
      BY <1>1, <3>5 DEF sooner, soonest
    <3>7. \E a \in Activates : since'[<<a, id>>] + Speed.nRP <= Elapsed'
      <4>1. PICK a \in Activates : since[<<a, id>>] + Speed.nRP <= Elapsed
        BY <2>3 DEF Accessing
      <4>2. id \in Requestors /\ a \in OpenPage
        BY SlotConstants
      <4>3. since'[<<a, id>>] \in Nat /\ since[<<a, id>>] \in Nat
            /\ since'[<<a, id>>] <= since[<<a, id>>] + 1
        BY <1>6, <4>2
      <4> DEFINE age == since[<<a, id>>]
                 later == since'[<<a, id>>]
      <4>4. age + Speed.nRP <= Elapsed /\ age \in Nat /\ later \in Nat /\ later <= age + 1
        BY <4>1, <4>3
      <4> HIDE DEF age, later
      <4>5. later + Speed.nRP <= Elapsed'
        BY <1>3, <1>4, <4>4
      <4> QED
        BY <4>5 DEF later
    <3>8. Elapsed' + Ahead' <= Speed.nRP + Speed.nRCD
      BY <1>3, <3>1
    <3>9. Accessing(id)'
      BY <1>1, <2>3, <3>6, <3>7, <3>8 DEF Accessing, Alone, ReadyAt
    <3> QED
      BY <3>9 DEF InSlot
  <2> QED
    BY <2>1, <2>2, <2>3 DEF SlotInv, InSlot
<1> QED
  BY <1>7, <1>8, <1>9, <1>10, <1>11
     DEF SlotInv, DeviceType, OwnDevice, DeviceWaited, Waited, Passed

\* Nor does a step that touches nothing of it.
LEMMA SlotUntouched ==
  ASSUME SlotInv, Ahead' = Ahead, UNCHANGED <<since, dev, commandQueue, slotCounter>>
  PROVE  SlotInv'
<1>1. Left' = Left /\ Elapsed' = Elapsed
  BY DEF Left, Elapsed
<1>2. RowsRecovered'
  BY <1>1 DEF SlotInv, RowsRecovered
<1>3. Between => Between'
  BY <1>1 DEF Between, ReadyAt
<1>4. ASSUME NEW id \in Critical
      PROVE  (Opening(id) => Opening(id)') /\ (Accessing(id) => Accessing(id)')
  BY <1>1 DEF Opening, Accessing, Alone, ReadyAt
<1>5. InSlot'
  BY <1>3, <1>4 DEF SlotInv, InSlot
<1> QED
  BY <1>2, <1>5 DEF SlotInv, DeviceType, OwnDevice, DeviceWaited, Waited, Passed

\* Initially nothing waits, nobody has commands and every command is long ago.
LEMMA SlotInvInit ==
  ASSUME SlotLongEnough, ObservedInit
  PROVE  SlotInv
<1>1. /\ since = [x \in Kinds \X Requestors |-> MaxAge] /\ Kinds = OpenPage
      /\ dev = InitDevice({OwnRank}, Banks) /\ slotCounter = 0
      /\ commandQueue = [id \in Requestors |-> <<>>] /\ turn = 0
  BY SlotConstants DEF ObservedInit, SlotInit, Init
<1>2. Ahead = 0 /\ Left = 0
  BY <1>1, SlotConstants DEF Ahead, Left
<1>3. since \in [OpenPage \X Requestors -> Nat]
  BY <1>1, SlotConstants
<1>4. DeviceType(dev, OwnDevice)
  <2>1. OwnDevice.ranks = {OwnRank} /\ OwnDevice.banks = Banks
    BY DEF OwnDevice
  <2> QED
    BY <1>1, <2>1, InitType
<1>5. /\ OwnRank \in {OwnRank} /\ Requestors \subseteq Banks /\ OpenPage \subseteq Commands
  BY SlotConstants, SlotAssumption
<1>6. DeviceWaited(dev, since, OwnRank, Requestors)
  <2>1. \A x \in OpenPage \X Requestors : since[x] = AgeLimit[x[1]]
    BY <1>1 DEF AgeLimit
  <2>2. DeviceWaited(InitDevice({OwnRank}, Banks), since, OwnRank, Requestors)
    BY <1>3, <1>5, <2>1, AgeLimitIs, DeviceWaitedInit
  <2> QED
    BY <1>1, <2>2
<1>7. RowsRecovered
  <2> SUFFICES ASSUME NEW id \in Requestors
               PROVE  /\ \A a \in Activates : since[<<a, id>>] + Left >= Speed.nRAS
                      /\ since[<<"RD", id>>] + Left >= Speed.nRTP
                      /\ since[<<"WR", id>>] + Left >= WriteRecovery
    BY DEF RowsRecovered
  <2>1. \A c \in OpenPage : since[<<c, id>>] = MaxAge
    BY <1>1
  <2>2. MaxAge + Left = MaxAge
    BY <1>2, SlotConstants
  <2> QED
    BY <2>1, <2>2, AgeLimitIs, SlotConstants
<1>8. Between
  <2> DEFINE m == Left + Speed.nRP
             n == Left + Speed.nRP + Speed.nRCD
  <2>1. m \in Nat /\ n \in Nat
    BY <1>2, SpeedInt
  <2> HIDE DEF m, n
  <2>2. DueAt(m, n) \in [OpenPage -> Nat]
    BY <2>1, DueAtIs
  <2>3. DeviceDue(InitDevice({OwnRank}, Banks), DueAt(m, n), OwnRank, Requestors)
    BY <1>5, <2>2, DeviceDueInit
  <2>4. ReadyAt(Left + Speed.nRP, Left + Speed.nRP + Speed.nRCD)
    BY <1>1, <2>3 DEF ReadyAt, m, n
  <2>5. \A id \in Critical : commandQueue[id] = <<>>
    BY <1>1, SlotConstants
  <2> QED
    BY <2>4, <2>5 DEF Between
<1> QED
  BY <1>3, <1>4, <1>6, <1>7, <1>8 DEF SlotInv, InSlot

\* Every step keeps the invariant.
LEMMA SlotInvNext ==
  ASSUME SlotLongEnough, TypeOK, TurnsInOrder, SlotInv, [ObservedNext]_observedVars
  PROVE  SlotInv'
<1>1. CASE \E id \in Requestors : SlotUpdate(id) /\ UNCHANGED historyVars
  <2>1. PICK id \in Requestors : SlotUpdate(id) /\ UNCHANGED historyVars
    BY <1>1
  <2>2. UNCHANGED <<since, dev, commandQueue, slotCounter>>
    BY <2>1 DEF SlotUpdate, Update, UpdateSend, UpdateWait, UpdateBlocked, UpdateBlank,
                UpdateEnd, queueVars, returnVars, historyVars
  <2>3. turn = id /\ turn' = turn + 1
    BY <2>1 DEF SlotUpdate, Update, UpdateSend, UpdateWait, UpdateBlocked, UpdateBlank, UpdateEnd
  <2>4. Ahead' = Ahead
    BY <2>3, SlotConstants DEF Ahead, Requestors
  <2> QED
    BY <2>2, <2>4, SlotUntouched
<1>2. CASE SlotStep /\ RecordStep
  <2>1. since \in [OpenPage \X Requestors -> Nat]
    BY DEF SlotInv
  <2>2. /\ turn = NumRequestors /\ turn' = NumRequestors + 1
        /\ NothingSent \/ \E id \in Requestors : OneSent(id)
    BY <1>2, <2>1, SlotStepCases
  <2> QED
    BY <1>2, <2>2, SlotNothingKeeps, SlotSentKeeps
<1>3. CASE SlotMemoryUpdate /\ RecordCycle
  BY <1>3, SlotCycleKeeps
<1>4. CASE SlotExit /\ UNCHANGED historyVars
  <2>1. UNCHANGED <<since, dev, commandQueue, slotCounter>> /\ turn' = turn
    BY <1>4 DEF SlotExit, Exit, slotVars, vars, queueVars, historyVars
  <2> QED
    BY <2>1, SlotUntouched DEF Ahead
<1>5. CASE UNCHANGED observedVars
  <2>1. UNCHANGED <<since, dev, commandQueue, slotCounter>> /\ turn' = turn
    BY <1>5 DEF observedVars, historyVars, slotSystemVars, slotVars, vars, queueVars
  <2> QED
    BY <2>1, SlotUntouched DEF Ahead
<1> QED
  BY <1>1, <1>2, <1>3, <1>4, <1>5 DEF ObservedNext

\* What holds of the command of a requestor when it is sent.
SentAsDue(id) ==
  LET cmd == Head(Buffer(id)).type
  IN /\ Kept(RankTiming, since, cmd, Requestors) /\ Kept(BankTiming, since, cmd, {id})
     /\ timeSlot - 1 - slotCounter' = CASE cmd = "PRE" -> 0
                                        [] cmd \in Activates -> Speed.nRP
                                        [] OTHER -> Speed.nRP + Speed.nRCD

\* The device accepts no command too early; its slot lets none be late.
LEMMA SlotSentAsDue ==
  ASSUME SlotLongEnough, TypeOK, TurnsInOrder, SlotInv, ObservedNext,
         NEW id \in Requestors, Sent(id)
  PROVE  SentAsDue(id)
<1> DEFINE cmd == Head(Buffer(id)).type
<1>1. turn = NumRequestors
  BY DEF Sent
<1>2. SlotStep /\ RecordStep
  <2>1. turn \notin Requestors /\ turn # NumRequestors + 1 /\ turn # Ended
    BY <1>1, SlotConstants DEF Requestors, Ended
  <2> QED
    BY <2>1 DEF ObservedNext, SlotUpdate, Update, UpdateSend, UpdateWait, UpdateBlocked,
                UpdateBlank, UpdateEnd, SlotMemoryUpdate, MemoryUpdate, SlotExit, Exit
<1>3. OneSent(id) /\ turn' = NumRequestors + 1
  <2>1. since \in [OpenPage \X Requestors -> Nat]
    BY DEF SlotInv
  <2>2. /\ turn' = NumRequestors + 1
        /\ NothingSent \/ \E j \in Requestors : OneSent(j)
    BY <1>2, <2>1, SlotStepCases
  <2> QED
    BY <2>2 DEF NothingSent, OneSent
<1>4. id \in Critical /\ Buffer(id) # <<>> /\ CommandCheck(dev, cmd, OwnRank, id)
  BY <1>3 DEF OneSent
<1>5. /\ Kept(RankTiming, since, cmd, Requestors) /\ Kept(BankTiming, since, cmd, {id})
      /\ \/ StartsSlot(id)
         \/ OpensRow(id) /\ Elapsed = Speed.nRP
         \/ AccessesRow(id) /\ Elapsed = Speed.nRP + Speed.nRCD
  BY <1>1, <1>4, AcceptedInTime
<1>6. /\ slotCounter \in 0 .. timeSlot - 1 /\ Elapsed = timeSlot - slotCounter
      /\ Chosen # {} => Places # {}
      /\ timeSlot \in Nat \ {0} /\ Activates = {"ACT_R", "ACT_W"}
  BY <1>1, <1>2, <1>3, SlotClock, ChosenIs, SlotConstants
<1>7. slotCounter' = IF slotCounter # 0 THEN slotCounter - 1
                     ELSE IF Places = {} THEN 0 ELSE timeSlot - 1
  BY <1>2 DEF SlotStep, SlotCounterAfter
<1> HIDE DEF cmd
<1>8. timeSlot - 1 - slotCounter' = CASE cmd = "PRE" -> 0
                                      [] cmd \in Activates -> Speed.nRP
                                      [] OTHER -> Speed.nRP + Speed.nRCD
  <2>1. CASE StartsSlot(id)
    <3>1. slotCounter = 0 /\ Places # {} /\ cmd = "PRE"
      BY <1>6, <2>1 DEF StartsSlot, cmd
    <3> QED
      BY <1>6, <1>7, <3>1
  <2>2. CASE OpensRow(id) /\ Elapsed = Speed.nRP
    <3>1. slotCounter # 0 /\ cmd \in Activates /\ cmd # "PRE"
      BY <1>6, <2>2 DEF OpensRow, cmd
    <3>2. timeSlot - 1 - slotCounter' = Elapsed
      BY <1>6, <1>7, <3>1
    <3> QED
      BY <2>2, <3>1, <3>2
  <2>3. CASE AccessesRow(id) /\ Elapsed = Speed.nRP + Speed.nRCD
    <3>1. slotCounter # 0 /\ cmd \notin Activates /\ cmd # "PRE"
      BY <1>6, <2>3 DEF AccessesRow, cmd
    <3>2. timeSlot - 1 - slotCounter' = Elapsed
      BY <1>6, <1>7, <3>1
    <3> QED
      BY <2>3, <3>1, <3>2
  <2> QED
    BY <1>5, <2>1, <2>2, <2>3
<1> QED
  BY <1>5, <1>8 DEF SentAsDue, cmd

\* The inductive invariant holds.
THEOREM SlotsKeepTheirTime ==
  ASSUME SlotLongEnough
  PROVE  ObservedSpec => [](TypeOK /\ TurnsInOrder /\ SlotInv)
<1>1. ObservedInit => SlotInv
  BY SlotInvInit
<1>2. TypeOK /\ TurnsInOrder /\ SlotInv /\ [ObservedNext]_observedVars => SlotInv'
  BY SlotInvNext
<1> QED
  BY <1>1, <1>2, ObservedIsSystem, SlotsImplementChannel, TypeCorrect, TurnsStayInOrder, PTL
     DEF ObservedSpec

\* Every distance of DDR3.cpp is kept at the chip, those before a PRE too that
\* the device does not check, if a slot is long enough for one access.
THEOREM SlotCommandsInTimeAlways ==
  ASSUME SlotLongEnough
  PROVE  ObservedSpec => SlotCommandsInTime
<1>1. TypeOK /\ TurnsInOrder /\ SlotInv /\ ObservedNext =>
        \A id \in Requestors :
          Sent(id) => LET cmd == Head(Buffer(id)).type
                      IN /\ Kept(RankTiming, since, cmd, Requestors)
                         /\ Kept(BankTiming, since, cmd, {id})
  BY SlotSentAsDue DEF SentAsDue
<1> QED
  BY <1>1, SlotsKeepTheirTime, PTL DEF ObservedSpec, SlotCommandsInTime

\* The commands of a requestor leave at the same distances from the start of
\* its slot, whatever the traces of the others, if a slot is long enough.
THEOREM SlotsIsolatedAlways ==
  ASSUME SlotLongEnough
  PROVE  ObservedSpec => SlotsIsolated
<1>1. TypeOK /\ TurnsInOrder /\ SlotInv /\ ObservedNext =>
        \A id \in Requestors :
          Sent(id) =>
            timeSlot - 1 - slotCounter' =
              LET cmd == Head(Buffer(id)).type
              IN CASE cmd = "PRE" -> 0
                   [] cmd \in Activates -> Speed.nRP
                   [] OTHER -> Speed.nRP + Speed.nRCD
  BY SlotSentAsDue DEF SentAsDue
<1> QED
  BY <1>1, SlotsKeepTheirTime, PTL DEF ObservedSpec, SlotsIsolated

-----------------------------------------------------------------------------
(* The latency of a request.                                               *)

\* Who has had a slot since id asked for its own.
Overtakers(id) == {other \in Requestors : overtaken[<<id, other>>] = 1}

\* The cycles in which everybody has a turn, and in which the commands of the
\* last have left and its data are through.
TurnsTime  == NumRequestors * timeSlot
CommandsBy == TurnsTime + Speed.nRP + Speed.nRCD
AnsweredBy == CommandsBy + Max({tRL, tWL}) + tBus

\* The cycles until all of those in line before requestor id have had a turn.
LineTime(id) == (Cardinality(Overtakers(id)) + 1) * timeSlot

\* A requestor without a request has not waited.
NotWaiting(id) ==
  corePendingData[id] = <<>> /\ turn # NumRequestors + 1 => latency[id] = 0

\* One whose request is not scheduled has waited for those who overtook it,
\* and for the slot that was begun before,
InLine(id) == requestQueue[id] # <<>> => latency[id] + Left < LineTime(id)

\* one with commands for a turn of everybody, and since its slot began,
OnTurn(id) == commandQueue[id] # <<>> => latency[id] < TurnsTime + Elapsed

\* and one with data on their way for the commands too, and the data.
Writing(id) ==
  \A k \in DOMAIN sendDataBuffer : sendDataBuffer[k].id = id =>
    latency[id] + sendDataCounter[k] + Ahead < CommandsBy + tWL + tBus
Reading(id) ==
  \A k \in DOMAIN pendingReadData : pendingReadData[k].id = id =>
    latency[id] + dataCycles[k] < CommandsBy + tRL + tBus

\* The inductive invariant, given the others.
LatencyInv ==
  /\ latency \in [Critical -> Nat]
  /\ \A id \in Critical :
       /\ NotWaiting(id) /\ InLine(id) /\ OnTurn(id) /\ Writing(id) /\ Reading(id)
       /\ latency[id] < AnsweredBy

\* Products of naturals.
LEMMA Products ==
  ASSUME NEW t \in Nat
  PROVE  /\ \A c \in Nat : c * t \in Nat /\ (c + 1) * t = c * t + t
         /\ \A c, n \in Nat : c <= n => c * t <= n * t
<1>1. \A c \in Nat : c * t \in Nat /\ (c + 1) * t = c * t + t
  OBVIOUS
<1>2. ASSUME NEW c \in Nat, NEW n \in Nat, c <= n
      PROVE  c * t <= n * t
  <2>1. n - c \in Nat /\ n = c + (n - c)
    BY <1>2
  <2>2. \A a, b \in Nat : (a + b) * t = a * t + b * t /\ b * t \in Nat /\ a * t \in Nat
    OBVIOUS
  <2>3. n * t = c * t + (n - c) * t /\ (n - c) * t \in Nat /\ c * t \in Nat
    BY <2>1, <2>2
  <2> QED
    BY <2>3
<1> QED
  BY <1>1, <1>2

\* The times.
LEMMA LatencyTimes ==
  ASSUME SlotLongEnough
  PROVE  /\ TurnsTime \in Nat /\ timeSlot \in Nat \ {0} /\ CommandsBy \in Nat
         /\ Speed.nRP \in Nat /\ Speed.nRCD \in Nat /\ CommandsBy = TurnsTime + (Speed.nRP + Speed.nRCD)
         /\ tWL \in Nat /\ tRL \in Nat /\ tBus \in Nat \ {0} /\ timeSlot <= TurnsTime
         /\ AnsweredBy \in Nat /\ CommandsBy < AnsweredBy
         /\ CommandsBy + tWL + tBus <= AnsweredBy /\ CommandsBy + tRL + tBus <= AnsweredBy
<1>1. NumRequestors \in Nat \ {0} /\ timeSlot \in Nat \ {0}
  BY SlotConstants
<1>2. TurnsTime \in Nat /\ 1 * timeSlot <= TurnsTime
  BY <1>1, Products DEF TurnsTime
<1>3. tWL \in Nat /\ tRL \in Nat /\ tBus \in Nat \ {0}
  BY ConstantsAssumption
<1>4. Max({tRL, tWL}) = IF tRL >= tWL THEN tRL ELSE tWL
  BY <1>3, Larger
<1>5. Speed.nRP \in Nat /\ Speed.nRCD \in Nat
  BY SlotLengths
<1> QED
  BY <1>1, <1>2, <1>3, <1>4, <1>5 DEF CommandsBy, AnsweredBy

\* A requestor is overtaken by others only, so that its line is not too long.
LEMMA LineIsBounded ==
  ASSUME TurnsInOrder, OvertakenOnce, NEW id \in Requestors
  PROVE  /\ IsFiniteSet(Overtakers(id)) /\ Cardinality(Overtakers(id)) \in Nat
         /\ LineTime(id) \in Nat /\ timeSlot <= LineTime(id) /\ LineTime(id) <= TurnsTime
<1>1. NumRequestors \in Nat \ {0} /\ timeSlot \in Nat \ {0}
  BY SlotConstants
<1>2. Overtakers(id) \subseteq Requestors \ {id}
  <2>1. ASSUME overtaken[<<id, id>>] = 1
        PROVE  FALSE
    <3>1. AheadIn(requestorOrder, queueRequestorIndex, id, id)
      BY <2>1 DEF OvertakenOnce
    <3>2. PICK i, j \in 1 .. Len(requestorOrder) :
            /\ requestorOrder[i] = id /\ requestorOrder[j] = id
            /\ Distance(i, queueRequestorIndex, Len(requestorOrder))
                 < Distance(j, queueRequestorIndex, Len(requestorOrder))
      BY <3>1 DEF AheadIn
    <3>3. i = j /\ Len(requestorOrder) \in Nat /\ queueRequestorIndex \in Nat
      BY <3>2 DEF TurnsInOrder
    <3>4. Distance(i, queueRequestorIndex, Len(requestorOrder)) \in Int
      BY <3>3 DEF Distance
    <3> QED
      BY <3>2, <3>3, <3>4
  <2> QED
    BY <2>1 DEF Overtakers
<1>3. IsFiniteSet(Requestors) /\ Cardinality(Requestors) = NumRequestors
  BY <1>1, FS_Interval DEF Requestors
<1>4. /\ IsFiniteSet(Requestors \ {id})
      /\ Cardinality(Requestors \ {id}) = NumRequestors - 1
  BY <1>3, FS_RemoveElement
<1>5. /\ IsFiniteSet(Overtakers(id)) /\ Cardinality(Overtakers(id)) \in Nat
      /\ Cardinality(Overtakers(id)) <= NumRequestors - 1
  BY <1>2, <1>4, FS_Subset, FS_CardinalityType
<1> DEFINE c == Cardinality(Overtakers(id))
<1>6. c + 1 \in Nat /\ c + 1 <= NumRequestors /\ 1 <= c + 1
  BY <1>1, <1>5
<1> HIDE DEF c
<1>7. (c + 1) * timeSlot \in Nat /\ 1 * timeSlot <= (c + 1) * timeSlot
      /\ (c + 1) * timeSlot <= NumRequestors * timeSlot
  BY <1>1, <1>6, Products
<1> QED
  BY <1>1, <1>5, <1>7 DEF LineTime, TurnsTime, c

\* A request that is not scheduled is the only one of its requestor; one that
\* is unanswered is in the queue, in the buffer or on the bus.
LEMMA RequestIsPlaced ==
  ASSUME NEW id \in Requestors, NEW v, Accounted(id, v), DataOK(v)
  PROVE  /\ v.asked # <<>> => Tail(v.asked) = <<>> /\ v.cmds = <<>>
         /\ v.core # <<>> =>
              \/ v.asked # <<>> \/ v.cmds # <<>>
              \/ \E t \in RequestTypes : \E k \in DOMAIN v.data[t] : v.data[t][k].id = id
         /\ \A k \in DOMAIN v.cmds : v.cmds[k].id = id
<1>1. CASE Idle(id, v)
  BY <1>1 DEF Idle
<1>2. ASSUME NEW t \in RequestTypes, NEW a \in Addresses, NEW n \in 1 .. BurstsPerRequest,
             Placed(id, t, a, n, v)
      PROVE  /\ v.asked # <<>> => Tail(v.asked) = <<>> /\ v.cmds = <<>>
             /\ v.core # <<>> =>
                  \/ v.asked # <<>> \/ v.cmds # <<>>
                  \/ \E u \in RequestTypes : \E k \in DOMAIN v.data[u] : v.data[u][k].id = id
             /\ \A k \in DOMAIN v.cmds : v.cmds[k].id = id
  <2>1. CASE Queued(id, t, a, n, v)
    <3>1. v.asked = <<[type |-> t, addr |-> a]>> /\ v.cmds = <<>>
      BY <2>1 DEF Queued
    <3> QED
      BY <3>1
  <2>2. CASE Commanded(id, t, a, n, v)
    <3>1. /\ v.asked = <<>> /\ v.cmds \in Seq(CommandsOf(id, t, a))
          /\ n = Cardinality(Positions(v.cmds, Casts(t)))
                   + Cardinality(Positions(v.data[t], Mine(id)))
      BY <2>2 DEF Commanded
    <3>2. \A k \in DOMAIN v.cmds : v.cmds[k].id = id
      <4>1. \A k \in DOMAIN v.cmds : v.cmds[k] \in CommandsOf(id, t, a)
        BY <3>1
      <4> QED
        BY <4>1 DEF CommandsOf
    <3>3. v.cmds # <<>> \/ \E k \in DOMAIN v.data[t] : v.data[t][k].id = id
      <4>1. ASSUME v.cmds = <<>>, Positions(v.data[t], Mine(id)) = {}
            PROVE  FALSE
        <5>1. Positions(v.cmds, Casts(t)) = {}
          BY <4>1 DEF Positions
        <5>2. n = 0 + 0
          BY <3>1, <4>1, <5>1, FS_EmptySet
        <5> QED
          BY <5>2
      <4> QED
        BY <4>1 DEF Positions, Mine
    <3> QED
      BY <3>1, <3>2, <3>3
  <2> QED
    BY <1>2, <2>1, <2>2 DEF Placed
<1> QED
  BY <1>1, <1>2 DEF Accounted

\* step() counts down what is left of the write bursts.
LEMMA WritesCountDown ==
  ASSUME NEW buffer \in Seq(Packets), NEW counters \in Seq(0 .. MaxUnsigned),
         Len(buffer) = Len(counters), Increasing(counters), StepData(buffer, counters),
         NEW k \in DOMAIN sendDataBuffer'
  PROVE  \E i \in DOMAIN buffer : /\ sendDataBuffer'[k] = buffer[i] /\ counters[i] \in Nat
                                  /\ sendDataCounter'[k] = counters[i] - 1
<1>1. /\ counters \in Seq(Nat) /\ DOMAIN buffer = DOMAIN counters
      /\ DOMAIN counters = 1 .. Len(counters) /\ Len(counters) \in Nat
  BY ConstantsAssumption
<1>2. CASE counters # <<>> /\ Head(counters) = 0
  <2>1. sendDataBuffer' = Tail(buffer) /\ sendDataCounter' = DecrementAll(Tail(counters))
    BY <1>2 DEF StepData
  <2>2. buffer # <<>> /\ counters # <<>>
    BY <1>1, <1>2
  <2>3. /\ DOMAIN Tail(buffer) = 1 .. Len(counters) - 1 /\ Tail(buffer)[k] = buffer[k + 1]
        /\ DOMAIN Tail(counters) = 1 .. Len(counters) - 1 /\ Tail(counters)[k] = counters[k + 1]
        /\ k \in 1 .. Len(counters) - 1 /\ k + 1 \in 2 .. Len(counters)
    BY <1>1, <2>1, <2>2
  <2>4. counters[k + 1] > 0 /\ counters[k + 1] \in Nat
    <3>1. counters[1] = 0
      BY <1>1, <1>2
    <3>2. counters[k + 1] > counters[1]
      BY <1>1, <2>3, FrontIsLeast
    <3>3. counters[k + 1] \in Nat
      BY <1>1, <2>3
    <3> QED
      BY <3>1, <3>2, <3>3
  <2>5. sendDataCounter'[k] = counters[k + 1] - 1
    BY <2>1, <2>3, <2>4 DEF DecrementAll, Decrement
  <2>6. k + 1 \in DOMAIN buffer
    BY <1>1, <2>3
  <2> QED
    BY <2>1, <2>3, <2>4, <2>5, <2>6
<1>3. CASE ~ (counters # <<>> /\ Head(counters) = 0)
  <2>1. sendDataBuffer' = buffer /\ sendDataCounter' = DecrementAll(counters)
    BY <1>3 DEF StepData
  <2>2. k \in 1 .. Len(counters) /\ counters # <<>> /\ counters[1] # 0
    BY <1>1, <1>3, <2>1
  <2>3. counters[k] > 0 /\ counters[k] \in Nat
    <3>1. counters[1] \in Nat /\ counters[k] \in Nat
      BY <1>1, <2>2
    <3>2. k = 1 \/ counters[k] > counters[1]
      <4>1. k = 1 \/ k \in 2 .. Len(counters)
        BY <2>2
      <4> QED
        BY <1>1, <4>1, FrontIsLeast
    <3> QED
      BY <2>2, <3>1, <3>2
  <2>4. sendDataCounter'[k] = counters[k] - 1
    BY <1>1, <2>1, <2>2, <2>3 DEF DecrementAll, Decrement
  <2>5. k \in DOMAIN buffer
    BY <1>1, <2>2
  <2> QED
    BY <2>1, <2>3, <2>4, <2>5
<1> QED
  BY <1>2, <1>3

\* update() counts down what is left of the read bursts.
LEMMA ReadsCountDown ==
  ASSUME TypeOK, ReadCountersOrdered, MemoryUpdate, NEW k \in DOMAIN pendingReadData'
  PROVE  \E i \in DOMAIN pendingReadData :
           /\ pendingReadData'[k] = pendingReadData[i] /\ dataCycles[i] \in Nat
           /\ dataCycles'[k] = dataCycles[i] - 1
<1> DEFINE cycles == Countdown(dataCycles)
<1>1. /\ dataCycles \in Seq(Nat) /\ pendingReadData \in Seq(Packets)
      /\ Len(dataCycles) = Len(pendingReadData)
      /\ DOMAIN pendingReadData = DOMAIN dataCycles
      /\ DOMAIN dataCycles = 1 .. Len(dataCycles) /\ Len(dataCycles) \in Nat
  BY DEF TypeOK, ReadCountersOrdered
<1>2. \A i \in DOMAIN dataCycles : dataCycles[i] > 0 /\ dataCycles[i] \in Nat
  BY <1>1 DEF ReadCountersOrdered
<1>3. /\ cycles \in Seq(Nat) /\ Len(cycles) = Len(dataCycles)
      /\ \A i \in DOMAIN dataCycles : cycles[i] = dataCycles[i] - 1
  BY <1>1, <1>2 DEF Countdown
<1>4. CASE pendingReadData # <<>> /\ Head(cycles) = 0
  <2>1. dataCycles' = Tail(cycles) /\ pendingReadData' = Tail(pendingReadData)
    BY <1>4 DEF MemoryUpdate
  <2> HIDE DEF cycles
  <2>2. cycles # <<>> /\ pendingReadData # <<>>
    BY <1>1, <1>3, <1>4
  <2>3. /\ k \in 1 .. Len(dataCycles) - 1 /\ k + 1 \in DOMAIN dataCycles
        /\ pendingReadData'[k] = pendingReadData[k + 1] /\ dataCycles'[k] = cycles[k + 1]
    BY <1>1, <1>3, <2>1, <2>2
  <2> QED
    BY <1>1, <1>2, <1>3, <2>3
<1>5. CASE ~ (pendingReadData # <<>> /\ Head(cycles) = 0)
  <2>1. dataCycles' = cycles /\ pendingReadData' = pendingReadData
    BY <1>5 DEF MemoryUpdate
  <2> HIDE DEF cycles
  <2> QED
    BY <1>1, <1>2, <1>3, <2>1
<1> QED
  BY <1>4, <1>5

\* Nobody has waited at first.
LEMMA LatencyInit ==
  ASSUME SlotLongEnough, ObservedInit
  PROVE  LatencyInv
<1>1. /\ \A id \in Requestors : requestQueue[id] = <<>> /\ commandQueue[id] = <<>>
      /\ sendDataBuffer = <<>> /\ pendingReadData = <<>>
      /\ latency = [id \in Critical |-> 0]
  BY DEF ObservedInit, SlotInit, Init
<1>2. 0 < AnsweredBy
  BY LatencyTimes
<1> QED
  BY <1>1, <1>2, SlotConstants
     DEF LatencyInv, NotWaiting, InLine, OnTurn, Writing, Reading

\* Steps that move neither the requests nor the clock.
LEMMA LatencyUntouched ==
  ASSUME LatencyInv, UNCHANGED <<turn, corePendingData, requestQueue, commandQueue, sendVars, returnVars,
                                 slotCounter, overtaken, latency>>
  PROVE  LatencyInv'
BY DEF LatencyInv, NotWaiting, InLine, OnTurn, Writing, Reading, Left, Elapsed, Ahead, LineTime,
       Overtakers, sendVars, returnVars

\* Who sends a request has not waited, and no slot is longer than its turn.
LEMMA LatencyUpdate ==
  ASSUME SlotLongEnough, TypeOK, PendingFree, TurnsInOrder, OvertakenOnce, LatencyInv,
         NEW j \in Requestors, SlotUpdate(j), UNCHANGED historyVars
  PROVE  LatencyInv'
<1>1. /\ UNCHANGED <<commandQueue, sendVars, returnVars, slotCounter, overtaken, latency>>
      /\ turn = j /\ turn' = turn + 1
  BY DEF SlotUpdate, Update, UpdateSend, UpdateWait, UpdateBlocked, UpdateBlank,
         UpdateEnd, queueVars, historyVars
<1>2. turn # NumRequestors + 1 /\ Ahead = 0 /\ Ahead' = 0
  BY <1>1, SlotConstants DEF Ahead, Requestors
<1>3. Left' = Left /\ Elapsed' = Elapsed /\ Left \in Nat /\ Left < timeSlot
  BY <1>1, <1>2, SlotConstants DEF Left, Elapsed, TurnsInOrder
<1>4. \A id \in Requestors : LineTime(id)' = LineTime(id)
  BY <1>1 DEF LineTime, Overtakers
<1>5. ASSUME NEW id \in Critical
      PROVE  \/ requestQueue'[id] = requestQueue[id] /\ corePendingData'[id] = corePendingData[id]
             \/ latency[id] = 0 /\ corePendingData'[id] # <<>>
  <2>1. CASE UpdateSend(j)
    <3>1. /\ corePendingData \in [Requestors -> Seq(Addresses)]
          /\ requestQueue \in [Requestors -> Seq(Requests)] /\ id \in Requestors
      BY SlotConstants DEF TypeOK
    <3>2. PICK next \in ReadingTraceFile(j) :
            /\ AddRequest(j, [type |-> next.type, addr |-> next.addr])
            /\ corePendingData' = [corePendingData EXCEPT ![j] = Append(@, next.addr)]
      BY <2>1 DEF UpdateSend
    <3>3. CASE id # j
      BY <3>1, <3>2, <3>3 DEF AddRequest
    <3>4. CASE id = j
      <4>1. corePendingData[id] = <<>>
        BY <3>2, <3>4, ReadsUnblocked
      <4>2. latency[id] = 0
        BY <1>2, <4>1 DEF LatencyInv, NotWaiting
      <4>3. corePendingData'[id] = Append(<<>>, next.addr)
        BY <3>1, <3>2, <3>4, <4>1
      <4> QED
        BY <4>2, <4>3
    <3> QED
      BY <3>3, <3>4
  <2>2. CASE UpdateWait(j) \/ UpdateBlocked(j) \/ UpdateBlank(j) \/ UpdateEnd(j)
    BY <2>2 DEF UpdateWait, UpdateBlocked, UpdateBlank, UpdateEnd, queueVars, pendingVars
  <2> QED
    BY <2>1, <2>2 DEF SlotUpdate, Update
<1>6. ASSUME NEW id \in Critical
      PROVE  NotWaiting(id)' /\ InLine(id)'
  <2>1. NotWaiting(id) /\ InLine(id)
    BY DEF LatencyInv
  <2>2. id \in Requestors /\ LineTime(id) \in Nat /\ timeSlot <= LineTime(id) /\ timeSlot \in Nat
    BY SlotConstants, LineIsBounded
  <2>3. CASE requestQueue'[id] = requestQueue[id] /\ corePendingData'[id] = corePendingData[id]
    BY <1>1, <1>2, <1>3, <1>4, <2>1, <2>2, <2>3 DEF NotWaiting, InLine
  <2>4. CASE latency[id] = 0 /\ corePendingData'[id] # <<>>
    <3>1. latency'[id] + Left' < LineTime(id)'
      BY <1>1, <1>3, <1>4, <2>2, <2>4
    <3> QED
      BY <2>4, <3>1 DEF NotWaiting, InLine
  <2> QED
    BY <1>5, <2>3, <2>4
<1>7. ASSUME NEW id \in Critical
      PROVE  OnTurn(id)' /\ Writing(id)' /\ Reading(id)'
  BY <1>1, <1>2, <1>3 DEF LatencyInv, OnTurn, Writing, Reading, sendVars, returnVars
<1> QED
  BY <1>1, <1>6, <1>7 DEF LatencyInv

\* The commands of a slot leave in their time.
LEMMA CommandsLeaveBy ==
  ASSUME SlotLongEnough, SlotInv, NEW id \in Critical, commandQueue[id] # <<>>,
         Elapsed \in Int, Ahead \in Nat
  PROVE  Elapsed + Ahead <= Speed.nRP + Speed.nRCD
<1>1. Opening(id) \/ Accessing(id)
  BY DEF SlotInv, InSlot, Between, Opening, Accessing, Alone
<1>2. Speed.nRP \in Nat /\ Speed.nRCD \in Nat
  BY SlotLengths
<1> QED
  BY <1>1, <1>2 DEF Opening, Accessing

\* Every cycle that is waited for an answer is one less to wait.
LEMMA LatencyCycle ==
  ASSUME SlotLongEnough, TypeOK, WriteCountersOrdered, ReadCountersOrdered, TypeOK', AllAccounted',
         TurnsInOrder, OvertakenOnce, SlotInv, LatencyInv, SlotMemoryUpdate, RecordCycle
  PROVE  LatencyInv'
<1>1. /\ UNCHANGED <<requestQueue, commandQueue, sendVars, slotCounter, overtaken>>
      /\ turn = NumRequestors + 1 /\ turn' \in {NumRequestors + 2, 0} /\ MemoryUpdate
  BY DEF SlotMemoryUpdate, MemoryUpdate, queueVars, RecordCycle, Ended
<1>2. Ahead = 1 /\ Ahead' = 0
  BY <1>1, SlotConstants DEF Ahead
<1>3. /\ Left' \in Nat /\ Left = Left' + 1 /\ Elapsed \in Int /\ Elapsed' = Elapsed + 1
  BY <1>1, <1>2, SlotConstants DEF Left, Elapsed, TurnsInOrder
<1>4. ASSUME NEW id \in Critical
      PROVE  /\ latency[id] \in Nat /\ latency'[id] \in Nat /\ latency'[id] <= latency[id] + 1
             /\ corePendingData'[id] = <<>> => latency'[id] = 0
  <2>1. latency[id] \in Nat /\ MaxLatency \in Nat
    BY HistoryAssumption DEF LatencyInv
  <2>2. latency'[id] = IF corePendingData'[id] = <<>> THEN 0 ELSE Min({MaxLatency, latency[id] + 1})
    BY DEF RecordCycle
  <2>3. Min({MaxLatency, latency[id] + 1})
          = IF MaxLatency <= latency[id] + 1 THEN MaxLatency ELSE latency[id] + 1
    BY <2>1, Smaller
  <2> QED
    BY <2>1, <2>2, <2>3
<1>5. latency' \in [Critical -> Nat]
  BY <1>4 DEF RecordCycle
<1>6. /\ TurnsTime \in Nat /\ CommandsBy \in Nat /\ CommandsBy = TurnsTime + (Speed.nRP + Speed.nRCD)
      /\ Speed.nRP \in Nat /\ Speed.nRCD \in Nat
      /\ tWL \in Nat /\ tRL \in Nat /\ tBus \in Nat /\ AnsweredBy \in Nat /\ CommandsBy < AnsweredBy
      /\ CommandsBy + tWL + tBus <= AnsweredBy /\ CommandsBy + tRL + tBus <= AnsweredBy
  BY LatencyTimes
<1> SUFFICES ASSUME NEW id \in Critical
             PROVE  /\ NotWaiting(id)' /\ InLine(id)' /\ OnTurn(id)' /\ Writing(id)' /\ Reading(id)'
                    /\ latency'[id] < AnsweredBy
  BY <1>5 DEF LatencyInv
<1>7. id \in Requestors /\ LineTime(id) \in Nat /\ LineTime(id) <= TurnsTime /\ LineTime(id)' = LineTime(id)
  <2>1. id \in Requestors
    BY SlotConstants
  <2>2. LineTime(id)' = LineTime(id)
    BY <1>1 DEF LineTime, Overtakers
  <2> QED
    BY <2>1, <2>2, LineIsBounded
<1> DEFINE past  == latency[id]
           later == latency'[id]
<1>8. past \in Nat /\ later \in Nat /\ later <= past + 1
  BY <1>4
<1>9. NotWaiting(id)'
  BY <1>4 DEF NotWaiting
<1>10. requestQueue'[id] # <<>> => latency'[id] + Left' < LineTime(id)
  <2>1. requestQueue'[id] # <<>> => latency[id] + Left < LineTime(id)
    BY <1>1 DEF LatencyInv, InLine
  <2> QED
    BY <1>3, <1>4, <1>7, <2>1
<1>11. commandQueue'[id] # <<>> => latency'[id] < TurnsTime + Elapsed' /\ latency'[id] < CommandsBy
  <2> SUFFICES ASSUME commandQueue[id] # <<>>
               PROVE  latency'[id] < TurnsTime + Elapsed' /\ latency'[id] < CommandsBy
    BY <1>1
  <2>1. latency[id] < TurnsTime + Elapsed
    BY DEF LatencyInv, OnTurn
  <2>2. Elapsed + Ahead <= Speed.nRP + Speed.nRCD
    BY <1>2, <1>3, CommandsLeaveBy
  <2>3. Elapsed + 1 <= Speed.nRP + Speed.nRCD
    BY <1>2, <2>2
  <2>4. past < TurnsTime + Elapsed
    BY <2>1
  <2> HIDE DEF past, later
  <2>5. \A p, l, e, t, n \in Int :
          l <= p + 1 /\ p < t + e /\ e + 1 <= n => l < t + (e + 1) /\ l < t + n
    OBVIOUS
  <2>6. later < TurnsTime + (Elapsed + 1) /\ later < TurnsTime + (Speed.nRP + Speed.nRCD)
    <3>1. past \in Int /\ later \in Int /\ Elapsed \in Int /\ TurnsTime \in Int
          /\ Speed.nRP + Speed.nRCD \in Int
      BY <1>3, <1>6, <1>8
    <3> QED
      BY <1>8, <2>3, <2>4, <2>5, <3>1
  <2> QED
    BY <1>3, <1>6, <2>6 DEF later
<1>12. ASSUME NEW k \in DOMAIN sendDataBuffer', sendDataBuffer'[k].id = id
       PROVE  /\ latency'[id] + sendDataCounter'[k] + Ahead' < CommandsBy + tWL + tBus
              /\ latency'[id] < CommandsBy + tWL + tBus
  <2>1. /\ k \in DOMAIN sendDataBuffer /\ sendDataBuffer[k].id = id
        /\ sendDataCounter'[k] = sendDataCounter[k]
    BY <1>1, <1>12 DEF sendVars
  <2>2. latency[id] + sendDataCounter[k] + Ahead < CommandsBy + tWL + tBus
    BY <2>1 DEF LatencyInv, Writing
  <2>3. sendDataCounter[k] \in Nat
    <3>1. k \in DOMAIN sendDataCounter
      BY <2>1 DEF TypeOK, WriteCountersOrdered
    <3>2. sendDataCounter \in Seq(0 .. MaxUnsigned) /\ MaxUnsigned \in Nat
      BY ConstantsAssumption DEF TypeOK
    <3> QED
      BY <3>1, <3>2
  <2> DEFINE counter == sendDataCounter[k]
  <2>4. past + counter + Ahead < CommandsBy + tWL + tBus /\ counter \in Nat
    BY <2>2, <2>3
  <2> HIDE DEF past, later, counter
  <2>5. later + counter + Ahead' < CommandsBy + tWL + tBus /\ later < CommandsBy + tWL + tBus
    BY <1>2, <1>6, <1>8, <2>4
  <2> QED
    BY <2>1, <2>5 DEF later, counter
<1>13. ASSUME NEW k \in DOMAIN pendingReadData', pendingReadData'[k].id = id
       PROVE  /\ latency'[id] + dataCycles'[k] < CommandsBy + tRL + tBus
              /\ latency'[id] < CommandsBy + tRL + tBus
  <2>1. PICK i \in DOMAIN pendingReadData :
          /\ pendingReadData'[k] = pendingReadData[i] /\ dataCycles[i] \in Nat
          /\ dataCycles'[k] = dataCycles[i] - 1
    BY <1>1, ReadsCountDown
  <2>2. latency[id] + dataCycles[i] < CommandsBy + tRL + tBus
    BY <1>13, <2>1 DEF LatencyInv, Reading
  <2>3. dataCycles[i] > 0
    <3>1. i \in DOMAIN dataCycles
      BY DEF TypeOK, ReadCountersOrdered
    <3> QED
      BY <3>1 DEF ReadCountersOrdered
  <2> DEFINE counter == dataCycles[i]
  <2>4. past + counter < CommandsBy + tRL + tBus /\ counter \in Nat /\ counter > 0
    BY <2>1, <2>2, <2>3
  <2> HIDE DEF past, later, counter
  <2>5. later + (counter - 1) < CommandsBy + tRL + tBus /\ later < CommandsBy + tRL + tBus
    BY <1>6, <1>8, <2>4
  <2> QED
    BY <2>1, <2>5 DEF later, counter
<1>14. latency'[id] < AnsweredBy
  <2>1. CASE corePendingData'[id] = <<>>
    <3>1. latency'[id] = 0
      BY <1>4, <2>1
    <3>2. 0 < AnsweredBy
      BY <1>6
    <3> QED
      BY <3>1, <3>2
  <2>2. CASE corePendingData'[id] # <<>>
    <3>1. \/ requestQueue'[id] # <<>> \/ commandQueue'[id] # <<>>
          \/ \E k \in DOMAIN pendingReadData' : pendingReadData'[k].id = id
          \/ \E k \in DOMAIN sendDataBuffer' : sendDataBuffer'[k].id = id
      <4> DEFINE v == View(id)'
      <4>1. Accounted(id, v) /\ DataOK(v)
        BY <1>7 DEF AllAccounted, DataOK, View, ViewOf, TypeOK
      <4>2. /\ v.core = corePendingData'[id] /\ v.asked = requestQueue'[id] /\ v.cmds = commandQueue'[id]
            /\ \A t \in RequestTypes : v.data[t] = IF t = "DATA_READ" THEN pendingReadData' ELSE sendDataBuffer'
        BY DEF View, ViewOf
      <4> HIDE DEF v
      <4>3. \/ v.asked # <<>> \/ v.cmds # <<>>
            \/ \E t \in RequestTypes : \E k \in DOMAIN v.data[t] : v.data[t][k].id = id
        BY <1>7, <2>2, <4>1, <4>2, RequestIsPlaced
      <4> QED
        BY <4>2, <4>3
    <3>2. CASE requestQueue'[id] # <<>>
      <4>1. latency'[id] + Left' < LineTime(id)
        BY <1>10, <3>2
      <4>2. later + Left' < LineTime(id)
        BY <4>1
      <4> HIDE DEF later
      <4>3. later < AnsweredBy
        BY <1>3, <1>6, <1>7, <1>8, <4>2
      <4> QED
        BY <4>3 DEF later
    <3>3. CASE commandQueue'[id] # <<>>
      <4>1. later < CommandsBy
        BY <1>11, <3>3
      <4> HIDE DEF later
      <4>2. later < AnsweredBy
        BY <1>6, <1>8, <4>1
      <4> QED
        BY <4>2 DEF later
    <3>4. CASE \E k \in DOMAIN pendingReadData' : pendingReadData'[k].id = id
      <4>1. later < CommandsBy + tRL + tBus
        BY <1>13, <3>4
      <4> HIDE DEF later
      <4>2. later < AnsweredBy
        BY <1>6, <1>8, <4>1
      <4> QED
        BY <4>2 DEF later
    <3>5. CASE \E k \in DOMAIN sendDataBuffer' : sendDataBuffer'[k].id = id
      <4>1. later < CommandsBy + tWL + tBus
        BY <1>12, <3>5
      <4> HIDE DEF later
      <4>2. later < AnsweredBy
        BY <1>6, <1>8, <4>1
      <4> QED
        BY <4>2 DEF later
    <3> QED
      BY <3>1, <3>2, <3>3, <3>4, <3>5
  <2> QED
    BY <2>1, <2>2
<1> QED
  BY <1>7, <1>9, <1>10, <1>11, <1>12, <1>13, <1>14 DEF InLine, OnTurn, Writing, Reading

\* The commands of a requestor carry its id.
LEMMA BufferIsOwn ==
  ASSUME NoAddressCut, TypeOK, AllAccounted, TurnsInOrder, NEW id \in Requestors
  PROVE  \A k \in DOMAIN Buffer(id) : Buffer(id)[k].id = id
<1> DEFINE v == ViewOf(id, LeftRequests(Chosen), GeneratedAll(Chosen, {}),
                       pendingReadData, sendDataBuffer)
<1>1. Chosen \in SUBSET Requesting
  BY ChosenIs
<1>2. Accounted(id, v)
  BY <1>1, ScheduledAccounted
<1>3. DataOK(v)
  BY ViewTypes DEF TypeOK
<1>4. v.cmds = Buffer(id)
  BY DEF ViewOf, GeneratedAll, Buffer
<1> HIDE DEF v
<1>5. \A k \in DOMAIN v.cmds : v.cmds[k].id = id
  BY <1>2, <1>3, RequestIsPlaced
<1> QED
  BY <1>4, <1>5

\* A slot that begins while somebody waits is given to somebody.
LEMMA SlotIsGiven ==
  ASSUME TurnsInOrder, slotCounter = 0, NEW id \in Requesting
  PROVE  Chosen # {}
<1> DEFINE n == Len(requestorOrder)
           index == queueRequestorIndex
<1>1. PICK i \in DOMAIN requestorOrder : requestorOrder[i] = id
  BY DEF TurnsInOrder
<1>2. n \in Nat /\ i \in 1 .. n /\ index \in 0 .. n - 1 /\ 0 \in 0 .. n - 1
  BY <1>1 DEF TurnsInOrder
<1> HIDE DEF n, index
<1>3. /\ Distance(i, index, n) \in 0 .. n - 1
      /\ i = ((index + Distance(i, index, n)) % n) + 1
  BY <1>2, DistanceAfter
<1>4. InTurn(Distance(i, index, n)) = id
  BY <1>1, <1>3 DEF InTurn, n, index
<1>5. Distance(i, index, n) \in Places
  BY <1>3, <1>4 DEF Places, n
<1> QED
  BY <1>5, ChosenIs

\* One slot more, one requestor more that has overtaken who still waits.
LEMMA LineStep ==
  ASSUME SlotLongEnough, TypeOK, AllAccounted, TurnsInOrder, OvertakenOnce, OvertakenOnce',
         LatencyInv, SlotStep, RecordStep, turn = NumRequestors, turn' = NumRequestors + 1,
         NEW id \in Critical, latency' = latency
  PROVE  InLine(id)'
<1>1. /\ Left = slotCounter /\ Left' \in 1 .. timeSlot
      /\ slotCounter # 0 => Left' = Left /\ Chosen = {}
      /\ slotCounter = 0 => Left' = (IF Chosen = {} THEN 1 ELSE timeSlot)
  BY SlotClock
<1>2. /\ id \in Requestors /\ timeSlot \in Nat /\ latency[id] \in Nat
      /\ Requesting \subseteq Requestors /\ Chosen \in SUBSET Requesting
      /\ \A j, other \in Chosen : j = other
  BY SlotConstants, ChosenIs DEF LatencyInv, Requesting
<1> SUFFICES ASSUME requestQueue'[id] # <<>>
             PROVE  latency[id] + Left' < LineTime(id)'
  BY DEF InLine
<1>3. requestQueue'[id] = IF id \in Chosen THEN Tail(requestQueue[id]) ELSE requestQueue[id]
  <2>1. RequestSchedule(Chosen)
    BY DEF SlotStep, StepNoCommand, StepCommand
  <2> QED
    BY <1>2, <2>1 DEF RequestSchedule
<1>4. id \notin Chosen
  <2>1. Accounted(id, View(id)) /\ DataOK(View(id))
    BY <1>2, ViewTypes DEF AllAccounted, View, TypeOK
  <2>2. View(id).asked = requestQueue[id]
    BY DEF View, ViewOf
  <2>3. requestQueue[id] # <<>> => Tail(requestQueue[id]) = <<>>
    BY <1>2, <2>1, <2>2, RequestIsPlaced
  <2>4. id \in Chosen => requestQueue[id] # <<>>
    BY <1>2 DEF Requesting
  <2> QED
    BY <1>3, <2>3, <2>4
<1>5. requestQueue[id] # <<>> /\ id \in Requesting
  BY <1>2, <1>3, <1>4 DEF Requesting
<1>6. latency[id] + Left < LineTime(id)
  BY <1>5 DEF LatencyInv, InLine
<1>7. \A other \in Requestors :
        /\ overtaken'[<<id, other>>]
             = IF other \in Chosen THEN overtaken[<<id, other>>] + 1 ELSE overtaken[<<id, other>>]
        /\ overtaken[<<id, other>>] \in {0, 1} /\ overtaken'[<<id, other>>] \in {0, 1}
  <2>1. overtaken \in [Requestors \X Requestors -> {0, 1}]
    BY DEF OvertakenOnce
  <2>2. overtaken' \in [Requestors \X Requestors -> {0, 1}]
    BY DEF OvertakenOnce
  <2>3. \A other \in Requestors : <<id, other>> \in Requestors \X Requestors
    BY <1>2
  <2> QED
    BY <1>4, <1>5, <2>1, <2>2, <2>3 DEF RecordStep
<1>8. CASE slotCounter # 0
  <2>1. Overtakers(id)' = Overtakers(id)
    BY <1>1, <1>7, <1>8 DEF Overtakers
  <2> QED
    BY <1>1, <1>6, <1>8, <2>1 DEF LineTime
<1>9. CASE slotCounter = 0
  <2>1. PICK x \in Chosen : TRUE
    BY <1>5, <1>9, SlotIsGiven
  <2>2. x \in Requestors /\ \A other \in Chosen : other = x
    BY <1>2, <2>1
  <2>3. x \notin Overtakers(id) /\ Overtakers(id)' = Overtakers(id) \cup {x}
    <3>1. overtaken[<<id, x>>] = 0 /\ overtaken'[<<id, x>>] = 1
      BY <1>7, <2>1, <2>2
    <3>2. \A other \in Requestors : other # x => overtaken'[<<id, other>>] = overtaken[<<id, other>>]
      BY <1>7, <2>2
    <3> QED
      BY <2>2, <3>1, <3>2 DEF Overtakers
  <2> DEFINE c == Cardinality(Overtakers(id))
  <2>4. c \in Nat /\ Cardinality(Overtakers(id)') = c + 1 /\ LineTime(id) = (c + 1) * timeSlot
    BY <1>2, <2>3, LineIsBounded, FS_AddElement DEF LineTime
  <2>5. LineTime(id)' = ((c + 1) + 1) * timeSlot
    BY <2>4 DEF LineTime
  <2> HIDE DEF c
  <2>6. LineTime(id)' = LineTime(id) + timeSlot /\ LineTime(id) \in Nat
    BY <1>2, <2>4, <2>5, Products
  <2>7. Left = 0 /\ Left' = timeSlot
    BY <1>1, <1>9, <2>1
  <2> QED
    BY <1>2, <1>6, <2>6, <2>7
<1> QED
  BY <1>8, <1>9

\* Who is given a slot has waited for a turn of everybody at most.
LEMMA TurnStep ==
  ASSUME SlotLongEnough, TypeOK, TurnsInOrder, OvertakenOnce, SlotInv, LatencyInv, SlotStep,
         turn = NumRequestors, turn' = NumRequestors + 1, latency' = latency,
         NEW id \in Critical,
         commandQueue'[id] = Buffer(id) \/ (Buffer(id) # <<>> /\ commandQueue'[id] = Tail(Buffer(id)))
  PROVE  OnTurn(id)'
<1>1. /\ Left = slotCounter /\ Elapsed = timeSlot - slotCounter
      /\ Elapsed' = timeSlot - Left' /\ slotCounter \in Nat
      /\ slotCounter # 0 => Left' = Left /\ Chosen = {}
      /\ slotCounter = 0 => Left' = (IF Chosen = {} THEN 1 ELSE timeSlot)
  BY SlotClock
<1>2. /\ id \in Requestors /\ timeSlot \in Nat /\ latency[id] \in Nat /\ Chosen \in SUBSET Requesting
  BY SlotConstants, ChosenIs DEF LatencyInv
<1> SUFFICES ASSUME commandQueue'[id] # <<>>
             PROVE  latency[id] < TurnsTime + Elapsed'
  BY DEF OnTurn
<1>3. Buffer(id) # <<>>
  OBVIOUS
<1>4. CASE id \in Chosen
  <2>1. slotCounter = 0 /\ Left' = timeSlot /\ Elapsed' = 0 /\ requestQueue[id] # <<>>
    BY <1>1, <1>2, <1>4 DEF Requesting
  <2>2. latency[id] + Left < LineTime(id)
    BY <2>1 DEF LatencyInv, InLine
  <2>3. LineTime(id) \in Nat /\ LineTime(id) <= TurnsTime /\ TurnsTime \in Nat
    BY <1>2, LineIsBounded, LatencyTimes
  <2> QED
    BY <1>1, <1>2, <2>1, <2>2, <2>3
<1>5. CASE id \notin Chosen
  <2>1. commandQueue[id] # <<>>
    BY <1>2, <1>3, <1>5, SlotBuffers
  <2>2. slotCounter # 0
    BY <2>1, SlotsEndEmpty DEF Between
  <2>3. latency[id] < TurnsTime + Elapsed
    BY <2>1 DEF LatencyInv, OnTurn
  <2> QED
    BY <1>1, <2>2, <2>3
<1> QED
  BY <1>4, <1>5

\* An access that is sent is the last command of its slot, and in time.
LEMMA AccessIsInTime ==
  ASSUME SlotLongEnough, NoAddressCut, TypeOK, AllAccounted, TurnsInOrder, SlotInv, LatencyInv,
         turn = NumRequestors, NEW id \in Requestors, OneSent(id),
         Head(Buffer(id)).type \in {"RD", "RDA", "WR", "WRA"}
  PROVE  /\ id \in Critical /\ Head(Buffer(id)) \in Packets /\ Head(Buffer(id)).id = id
         /\ latency[id] < CommandsBy
<1>1. id \in Critical /\ Buffer(id) # <<>> /\ CommandCheck(dev, Head(Buffer(id)).type, OwnRank, id)
  BY DEF OneSent
<1>2. Buffer(id) \in Seq(Packets)
  BY SlotBuffers
<1>3. /\ 1 \in DOMAIN Buffer(id) /\ Head(Buffer(id)) = Buffer(id)[1]
      /\ Head(Buffer(id)) \in Packets
  <2>1. \A s \in Seq(Packets) : s # <<>> => 1 \in DOMAIN s /\ Head(s) = s[1] /\ s[1] \in Packets
    OBVIOUS
  <2> QED
    BY <1>1, <1>2, <2>1
<1>4. Head(Buffer(id)).id = id
  BY <1>3, BufferIsOwn
<1>5. AccessesRow(id) /\ Elapsed = Speed.nRP + Speed.nRCD
  <2>1. ~ StartsSlot(id) /\ ~ OpensRow(id)
    BY SlotConstants DEF StartsSlot, OpensRow
  <2> QED
    BY <1>1, <2>1, AcceptedInTime
<1>6. commandQueue[id] # <<>>
  BY <1>1, <1>5 DEF AccessesRow
<1>7. latency[id] < TurnsTime + Elapsed
  BY <1>1, <1>6 DEF LatencyInv, OnTurn
<1>8. latency[id] < CommandsBy
  <2>1. TurnsTime + (Speed.nRP + Speed.nRCD) = CommandsBy
    BY LatencyTimes
  <2> QED
    BY <1>5, <1>7, <2>1
<1> QED
  BY <1>1, <1>3, <1>4, <1>8

\* The data of a burst start a cycle after the step at the latest.
LEMMA WritingStep ==
  ASSUME SlotLongEnough, NEW buffer \in Seq(Packets), NEW counters \in Seq(0 .. MaxUnsigned),
         Len(buffer) = Len(counters), Increasing(counters), StepData(buffer, counters),
         turn' = NumRequestors + 1, NEW id \in Critical, latency' = latency, latency[id] \in Nat,
         \A i \in DOMAIN buffer : buffer[i].id = id =>
           latency[id] + counters[i] < CommandsBy + tWL + tBus
  PROVE  Writing(id)'
<1>1. Ahead' = 1
  BY DEF Ahead
<1> SUFFICES ASSUME NEW k \in DOMAIN sendDataBuffer', sendDataBuffer'[k].id = id
             PROVE  latency[id] + sendDataCounter'[k] + Ahead' < CommandsBy + tWL + tBus
  BY DEF Writing
<1>2. PICK i \in DOMAIN buffer : /\ sendDataBuffer'[k] = buffer[i] /\ counters[i] \in Nat
                                 /\ sendDataCounter'[k] = counters[i] - 1
  BY WritesCountDown
<1>3. latency[id] + counters[i] < CommandsBy + tWL + tBus
  BY <1>2
<1> DEFINE past == latency[id]
           counter == counters[i]
<1>4. past \in Nat /\ counter \in Nat /\ past + counter < CommandsBy + tWL + tBus
  BY <1>2, <1>3
<1> HIDE DEF past, counter
<1>5. past + (counter - 1) + 1 < CommandsBy + tWL + tBus
  <2>1. past + (counter - 1) + 1 = past + counter
    BY <1>4
  <2> QED
    BY <1>4, <2>1
<1> QED
  BY <1>1, <1>2, <1>5 DEF past, counter

\* A step of the controller brings no request nearer its bound.
LEMMA LatencyStep ==
  ASSUME SlotLongEnough, NoAddressCut, TypeOK, WriteCountersOrdered, ReadCountersOrdered,
         AllAccounted, TurnsInOrder, OvertakenOnce, OvertakenOnce', SlotInv, LatencyInv,
         SlotStep, RecordStep
  PROVE  LatencyInv'
<1>1. /\ turn = NumRequestors /\ turn' = NumRequestors + 1 /\ Ahead = 0
      /\ NothingSent \/ \E id \in Requestors : OneSent(id)
  <2>1. since \in [OpenPage \X Requestors -> Nat]
    BY DEF SlotInv
  <2> QED
    BY <2>1, SlotStepCases, SlotConstants DEF Ahead
<1>2. latency' = latency
  BY DEF RecordStep
<1>3. /\ sendDataBuffer \in Seq(Packets) /\ sendDataCounter \in Seq(0 .. MaxUnsigned)
      /\ Len(sendDataBuffer) = Len(sendDataCounter) /\ Increasing(sendDataCounter)
      /\ \A i \in DOMAIN sendDataCounter : sendDataCounter[i] < tWL + tBus
      /\ pendingReadData \in Seq(Packets) /\ dataCycles \in Seq(Nat)
      /\ Len(dataCycles) = Len(pendingReadData)
  BY DEF TypeOK, WriteCountersOrdered, ReadCountersOrdered, Increasing
<1>4. /\ tWL \in Nat /\ tRL \in Nat /\ tBus \in Nat \ {0} /\ CommandsBy \in Nat
      /\ MaxUnsigned \in Nat /\ tWL + tBus <= MaxUnsigned
  BY LatencyTimes, ConstantsAssumption
<1> SUFFICES ASSUME NEW id \in Critical
             PROVE  NotWaiting(id)' /\ InLine(id)' /\ OnTurn(id)' /\ Writing(id)' /\ Reading(id)'
  BY <1>2 DEF LatencyInv
<1>5. id \in Requestors /\ latency[id] \in Nat
  BY SlotConstants DEF LatencyInv
<1>6. NotWaiting(id)' /\ InLine(id)'
  BY <1>1, <1>2, LineStep DEF NotWaiting
<1>7. OnTurn(id)'
  <2>1. commandQueue'[id] = Buffer(id) \/ (Buffer(id) # <<>> /\ commandQueue'[id] = Tail(Buffer(id)))
    BY <1>1, <1>5 DEF NothingSent, OneSent
  <2> QED
    BY <1>1, <1>2, <2>1, TurnStep
<1>8. \A i \in DOMAIN sendDataBuffer : sendDataBuffer[i].id = id =>
        latency[id] + sendDataCounter[i] < CommandsBy + tWL + tBus
  <2> SUFFICES ASSUME NEW i \in DOMAIN sendDataBuffer, sendDataBuffer[i].id = id
               PROVE  latency[id] + sendDataCounter[i] < CommandsBy + tWL + tBus
    OBVIOUS
  <2>1. latency[id] + sendDataCounter[i] + Ahead < CommandsBy + tWL + tBus
    BY DEF LatencyInv, Writing
  <2>2. sendDataCounter[i] \in Nat
    BY <1>3, <1>4
  <2> QED
    BY <1>1, <1>5, <2>1, <2>2
<1>9. StepData(sendDataBuffer, sendDataCounter) => Writing(id)'
  BY <1>1, <1>2, <1>3, <1>5, <1>8, WritingStep
<1>10. CASE NothingSent
  <2>1. Reading(id)'
    BY <1>2, <1>10 DEF NothingSent, LatencyInv, Reading, returnVars
  <2> QED
    BY <1>6, <1>7, <1>9, <1>10, <2>1 DEF NothingSent
<1>11. ASSUME NEW j \in Requestors, OneSent(j)
       PROVE  Writing(id)' /\ Reading(id)'
  <2> DEFINE cmd == Head(Buffer(j))
  <2>1. GenerateData(cmd)
    BY <1>11 DEF OneSent
  <2>2. ASSUME cmd.type \in {"RD", "RDA", "WR", "WRA"}
        PROVE  cmd \in Packets /\ cmd.id = j /\ (cmd.id = id => latency[id] < CommandsBy)
    BY <1>1, <1>11, <2>2, AccessIsInTime
  <2> HIDE DEF cmd
  <2>3. Writing(id)'
    <3>1. CASE IsWrite(cmd)
      <4> DEFINE buffer == Append(sendDataBuffer, cmd)
                 counters == Append(sendDataCounter, tWL + tBus)
      <4>1. cmd \in Packets /\ (cmd.id = id => latency[id] < CommandsBy)
        BY <2>2, <3>1 DEF IsWrite
      <4>2. StepData(buffer, counters)
        BY <1>11, <3>1 DEF OneSent, cmd
      <4>3. /\ buffer \in Seq(Packets) /\ counters \in Seq(0 .. MaxUnsigned)
            /\ Len(buffer) = Len(counters)
        BY <1>3, <1>4, <4>1
      <4>4. Increasing(counters)
        <5>1. sendDataCounter \in Seq(Nat) /\ tWL + tBus \in Nat
          BY <1>3, <1>4
        <5> QED
          BY <1>3, <5>1, AppendIncreasing
      <4>5. \A i \in DOMAIN buffer : buffer[i].id = id =>
              latency[id] + counters[i] < CommandsBy + tWL + tBus
        <5> SUFFICES ASSUME NEW i \in DOMAIN buffer, buffer[i].id = id
                     PROVE  latency[id] + counters[i] < CommandsBy + tWL + tBus
          OBVIOUS
        <5>1. \/ /\ i \in DOMAIN sendDataBuffer /\ buffer[i] = sendDataBuffer[i]
                 /\ counters[i] = sendDataCounter[i]
              \/ buffer[i] = cmd /\ counters[i] = tWL + tBus
          BY <1>3, <4>1
        <5>2. CASE buffer[i] = cmd /\ counters[i] = tWL + tBus
          <6>1. latency[id] < CommandsBy
            BY <4>1, <5>2
          <6> HIDE DEF counters
          <6>2. latency[id] + (tWL + tBus) < CommandsBy + tWL + tBus
            BY <1>4, <1>5, <6>1
          <6> QED
            BY <5>2, <6>2
        <5> QED
          BY <1>8, <5>1, <5>2
      <4> HIDE DEF buffer, counters
      <4> QED
        BY <1>1, <1>2, <1>5, <4>2, <4>3, <4>4, <4>5, WritingStep
    <3>2. CASE ~ IsWrite(cmd)
      BY <1>9, <1>11, <3>2 DEF OneSent, cmd
    <3> QED
      BY <3>1, <3>2
  <2>4. Reading(id)'
    <3>1. CASE IsRead(cmd)
      <4>1. cmd \in Packets /\ (cmd.id = id => latency[id] < CommandsBy)
        BY <2>2, <3>1 DEF IsRead
      <4>2. pendingReadData' = Append(pendingReadData, cmd) /\ dataCycles' = Append(dataCycles, tRL + tBus)
        BY <2>1, <3>1 DEF GenerateData
      <4> SUFFICES ASSUME NEW i \in DOMAIN pendingReadData', pendingReadData'[i].id = id
                   PROVE  latency[id] + dataCycles'[i] < CommandsBy + tRL + tBus
        BY <1>2 DEF Reading
      <4>3. \/ /\ i \in DOMAIN pendingReadData /\ pendingReadData'[i] = pendingReadData[i]
               /\ dataCycles'[i] = dataCycles[i]
            \/ pendingReadData'[i] = cmd /\ dataCycles'[i] = tRL + tBus
        BY <1>3, <4>1, <4>2
      <4> QED
        BY <1>4, <1>5, <4>1, <4>3 DEF LatencyInv, Reading
    <3>2. CASE ~ IsRead(cmd)
      <4>1. UNCHANGED returnVars
        BY <2>1, <3>2 DEF GenerateData
      <4> QED
        BY <1>2, <4>1 DEF LatencyInv, Reading, returnVars
    <3> QED
      BY <3>1, <3>2
  <2> QED
    BY <2>3, <2>4
<1> QED
  BY <1>1, <1>6, <1>7, <1>10, <1>11

\* The invariant is inductive, given the others.
LEMMA LatencyNext ==
  ASSUME SlotLongEnough, NoAddressCut, BInv, BInv', TurnsInOrder, OvertakenOnce, OvertakenOnce',
         SlotInv, LatencyInv, [ObservedNext]_observedVars
  PROVE  LatencyInv'
<1>1. /\ TypeOK /\ WriteCountersOrdered /\ ReadCountersOrdered /\ AllAccounted /\ PendingFree
      /\ TypeOK' /\ AllAccounted'
  BY DEF BInv, IInv
<1>2. CASE \E id \in Requestors : SlotUpdate(id) /\ UNCHANGED historyVars
  BY <1>1, <1>2, LatencyUpdate
<1>3. CASE SlotStep /\ RecordStep
  BY <1>1, <1>3, LatencyStep
<1>4. CASE SlotMemoryUpdate /\ RecordCycle
  BY <1>1, <1>4, LatencyCycle
<1>5. CASE SlotExit /\ UNCHANGED historyVars
  <2>1. UNCHANGED <<turn, corePendingData, requestQueue, commandQueue, sendVars, returnVars,
                    slotCounter, overtaken, latency>>
    BY <1>5 DEF SlotExit, Exit, slotVars, vars, queueVars, pendingVars, historyVars
  <2> QED
    BY <2>1, LatencyUntouched
<1>6. CASE UNCHANGED observedVars
  <2>1. UNCHANGED <<turn, corePendingData, requestQueue, commandQueue, sendVars, returnVars,
                    slotCounter, overtaken, latency>>
    BY <1>6 DEF observedVars, historyVars, slotSystemVars, slotVars, vars, queueVars, pendingVars
  <2> QED
    BY <2>1, LatencyUntouched
<1> QED
  BY <1>2, <1>3, <1>4, <1>5, <1>6 DEF ObservedNext

\* A critical requestor is answered within a turn of everybody and the time of
\* its own commands and data, whatever the number of requestors and their
\* traces, if a slot is long enough and no packet's address is cut.
THEOREM SlotLatencyAlways ==
  ASSUME SlotLongEnough, NoAddressCut
  PROVE  ObservedSpec => []SlotLatency
<1>1. ObservedInit => LatencyInv
  BY LatencyInit
<1>2. BInv /\ BInv' /\ TurnsInOrder /\ OvertakenOnce /\ OvertakenOnce' /\ SlotInv /\ LatencyInv
        /\ [ObservedNext]_observedVars => LatencyInv'
  BY LatencyNext
<1>3. LatencyInv => SlotLatency
  BY DEF LatencyInv, SlotLatency, AnsweredBy, CommandsBy, TurnsTime
<1>4. Spec => []BInv
  BY AlwaysAccounted
<1>5. ObservedSpec => [](TypeOK /\ TurnsInOrder /\ SlotInv)
  BY SlotsKeepTheirTime
<1> QED
  BY <1>1, <1>2, <1>3, <1>4, <1>5, ObservedIsSystem, SlotsImplementChannel, OvertakenOnceAlways,
     PTL DEF ObservedSpec
=============================================================================

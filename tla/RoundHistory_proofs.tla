------------------------- MODULE RoundHistory_proofs -------------------------
(***************************************************************************)
(* Proofs about the channel under the Round scheduler, and about the       *)
(* commands it sends.                                                      *)
(*                                                                         *)
(* The channel under Round implements the channel under any scheduler, so  *)
(* that what is proved of the second holds of the first.                   *)
(*                                                                         *)
(* The row table holds what the bank WILL hold when all commands in the    *)
(* requestor's buffer are sent.  The inductive invariant RowsFollow says   *)
(* so, and that every command in the buffer suits the row that those in    *)
(* front of it leave open: its first command is the one that is sent.      *)
(***************************************************************************)
EXTENDS RoundHistory, MemoryController_proofs

(* The system implements the channel.                                     *)

\* What DIRECT schedules and Round sends are choices Step leaves open, and the
\* other steps are those of the channel.
LEMMA RoundStepIsStep ==
  ASSUME RoundNext
  PROVE  Next
<1>1. CASE \E id \in Requestors : RoundUpdate(id)
  BY <1>1 DEF RoundUpdate, Next
<1>2. CASE RoundStep
  <2>. DEFINE result == CommandSchedule(scheduler, Ready, Heads, Issuable)
  <2>1. Requesting \in SUBSET Requesting /\ Hits \in SUBSET Requesting
    BY DEF Hits
  <2>2. CASE result.sent = {}
    <3>1. StepNoCommand(Requesting, Hits)
      BY <1>2, <2>2 DEF RoundStep, StepWith
    <3>. QED  BY <2>1, <3>1 DEF Step, Next
  <2>3. CASE result.sent # {}
    <3>1. PICK id \in Requestors : StepCommand(id, Requesting, Hits)
      BY <1>2, <2>3 DEF RoundStep, StepWith
    <3>. QED  BY <2>1, <3>1 DEF Step, Next
  <2>. QED  BY <2>2, <2>3
<1>3. CASE RoundMemoryUpdate
  BY <1>3 DEF RoundMemoryUpdate, Next
<1>4. CASE RoundExit
  BY <1>4 DEF RoundExit, Next
<1>. QED  BY <1>1, <1>2, <1>3, <1>4 DEF RoundNext

\* Every behaviour of the channel with the Round scheduler, its timers and the
\* device is one of MemoryController: the scheduler only chooses commands.
THEOREM RoundImplementsChannel == RoundSafeSpec => Spec
<1>1. RoundInit => Init
  BY DEF RoundInit
<1>2. [RoundNext]_roundVars => [Next]_vars
  <2>1. RoundNext => Next
    BY RoundStepIsStep
  <2>2. UNCHANGED roundVars => UNCHANGED vars
    BY DEF roundVars
  <2>. QED  BY <2>1, <2>2
<1>. QED  BY <1>1, <1>2, PTL DEF RoundSafeSpec, Spec

\* No write burst of the system with the Round scheduler waits behind another.
THEOREM RoundWriteBurstsLeaveInTime == RoundSafeSpec => []WriteCountersOrdered
  BY RoundImplementsChannel, WriteBurstsLeaveInTime

\* Nor does a read burst, though one is returned per cycle.
THEOREM RoundReadBurstsReturnInTime == RoundSafeSpec => []ReadCountersOrdered
  BY RoundImplementsChannel, ReadBurstsReturnInTime

\* Under Round every unanswered request is where its bursts say it is, if no
\* packet's address is cut.
THEOREM RoundBurstsAreAccounted ==
  ASSUME NoAddressCut
  PROVE  RoundSafeSpec => []BurstsAccounted
  BY RoundImplementsChannel, BurstsAreAccounted

\* The channel under Round answers a request once, after its last column
\* access, if no packet's address is cut.
THEOREM RoundImplementsService ==
  ASSUME NoAddressCut
  PROVE  RoundSafeSpec => ImplementsService
  BY RoundImplementsChannel, ChannelImplementsService

-----------------------------------------------------------------------------
(* Rows.                                                                   *)

\* The row left open by the first i commands of a buffer.
RowAfter(open, buffer, i) ==
  IF i = 0 THEN open ELSE IF buffer[i].type = "PRE" THEN NoRow ELSE buffer[i].row

\* What RowsOpened asks of a command that finds this row open.
Suits(cmd, row) ==
  /\ cmd.type \in Accesses  => row = cmd.row
  /\ cmd.type \in Activates => row = NoRow
  /\ cmd.type = "PRE"       => row # cmd.row

\* Every command of the buffer suits its bank, which is left with row last.
Follow(open, buffer, last) ==
  /\ \A i \in 1 .. Len(buffer) : /\ buffer[i].type \in OpenPage
                                 /\ Suits(buffer[i], RowAfter(open, buffer, i - 1))
  /\ RowAfter(open, buffer, Len(buffer)) = last

\* The open rows, the buffers and the row table fit together.
RowsFollow ==
  /\ openRow \in [Requestors -> Rows \cup {NoRow}]
  /\ \A id \in Requestors : Follow(openRow[id], commandQueue[id], rowTable[id])

\* The system with its history is the system without.
LEMMA ObservedIsSystem == ObservedSpec => RoundSafeSpec
<1>1. ObservedInit => RoundInit
  BY DEF ObservedInit
<1>2. [ObservedNext]_observedVars => [RoundNext]_roundVars
  BY DEF ObservedNext, ObservedStep, observedVars, RoundNext
<1>. QED  BY <1>1, <1>2, PTL DEF ObservedSpec, RoundSafeSpec

\* Commands that suit the row the buffer leaves may join it at its end.
LEMMA FollowConcat ==
  ASSUME NEW buffer \in Seq(Packets), NEW more \in Seq(Packets), NEW open, NEW row, NEW last,
         Follow(open, buffer, row), Follow(row, more, last)
  PROVE  Follow(open, buffer \o more, last)
<1>. DEFINE all == buffer \o more
            n == Len(buffer)
<1>1. /\ all \in Seq(Packets) /\ n \in Nat /\ Len(more) \in Nat /\ Len(all) = n + Len(more)
      /\ \A i \in 1 .. n : all[i] = buffer[i]
      /\ \A i \in n + 1 .. Len(all) : all[i] = more[i - n]
  OBVIOUS
<1>2. \A i \in 0 .. n : RowAfter(open, all, i) = RowAfter(open, buffer, i)
  BY <1>1 DEF RowAfter
<1>3. \A i \in n .. Len(all) : RowAfter(open, all, i) = RowAfter(row, more, i - n)
  <2>1. RowAfter(open, all, n) = RowAfter(row, more, 0)
    BY <1>1, <1>2 DEF Follow, RowAfter
  <2>2. \A i \in n + 1 .. Len(all) : RowAfter(open, all, i) = RowAfter(row, more, i - n)
    BY <1>1 DEF RowAfter
  <2>. QED  BY <1>1, <2>1, <2>2
<1>4. ASSUME NEW i \in 1 .. Len(all)
      PROVE  /\ all[i].type \in OpenPage
             /\ Suits(all[i], RowAfter(open, all, i - 1))
  <2>1. CASE i <= n
    <3>1. i \in 1 .. n /\ i - 1 \in 0 .. n
      BY <1>1, <2>1
    <3>2. all[i] = buffer[i] /\ RowAfter(open, all, i - 1) = RowAfter(open, buffer, i - 1)
      BY <1>1, <1>2, <3>1
    <3>3. /\ buffer[i].type \in OpenPage
          /\ Suits(buffer[i], RowAfter(open, buffer, i - 1))
      BY <3>1 DEF Follow
    <3>. HIDE DEF all
    <3>. QED  BY <3>2, <3>3
  <2>2. CASE i > n
    <3>1. /\ i - n \in 1 .. Len(more) /\ i - 1 \in n .. Len(all) /\ i \in n + 1 .. Len(all)
          /\ (i - 1) - n = (i - n) - 1
      BY <1>1, <2>2
    <3>2. all[i] = more[i - n]
          /\ RowAfter(open, all, i - 1) = RowAfter(row, more, (i - n) - 1)
      BY <1>1, <1>3, <3>1
    <3>3. /\ more[i - n].type \in OpenPage
          /\ Suits(more[i - n], RowAfter(row, more, (i - n) - 1))
      BY <3>1 DEF Follow
    <3>. HIDE DEF all
    <3>. QED  BY <3>2, <3>3
  <2>. QED  BY <1>1, <2>1, <2>2
<1>5. RowAfter(open, all, Len(all)) = last
  BY <1>1, <1>3 DEF Follow
<1>. QED  BY <1>4, <1>5 DEF Follow

\* The buffer still follows when its first command has left.
LEMMA FollowTail ==
  ASSUME NEW buffer \in Seq(Packets), NEW open, NEW last, buffer # <<>>, Follow(open, buffer, last)
  PROVE  Follow(RowAfter(open, buffer, 1), Tail(buffer), last)
<1>. DEFINE rest == Tail(buffer)
            n == Len(buffer)
            row == RowAfter(open, buffer, 1)
<1>1. /\ n \in Nat \ {0} /\ rest \in Seq(Packets) /\ Len(rest) = n - 1
      /\ \A i \in 1 .. n - 1 : rest[i] = buffer[i + 1]
  OBVIOUS
<1>2. \A i \in 0 .. n - 1 : RowAfter(row, rest, i) = RowAfter(open, buffer, i + 1)
  BY <1>1 DEF RowAfter
<1>3. ASSUME NEW i \in 1 .. n - 1
      PROVE  /\ rest[i].type \in OpenPage
             /\ Suits(rest[i], RowAfter(row, rest, i - 1))
  <2>1. /\ i + 1 \in 1 .. n /\ rest[i] = buffer[i + 1] /\ i - 1 \in 0 .. n - 1
        /\ (i - 1) + 1 = (i + 1) - 1
    BY <1>1
  <2>2. RowAfter(row, rest, i - 1) = RowAfter(open, buffer, (i + 1) - 1)
    BY <1>2, <2>1
  <2>. QED  BY <2>1, <2>2 DEF Follow
<1>4. RowAfter(row, rest, n - 1) = last
  <2>1. n - 1 \in 0 .. n - 1 /\ (n - 1) + 1 = n
    BY <1>1
  <2>. QED  BY <1>2, <2>1 DEF Follow
<1>. HIDE DEF rest, row, n
<1>. QED  BY <1>1, <1>3, <1>4 DEF Follow, rest, row

\* The commands of a request suit the row the row table names, if a request
\* for that row, and no other, counts as a hit.
LEMMA FollowGenerate ==
  ASSUME NEW id \in Requestors, NEW req \in Requests, NEW row, NEW open \in BOOLEAN,
         open <=> row = RowOf[req.addr]
  PROVE  Follow(row, CommandGenerate(id, req, open), RowOf[req.addr])
<1>. DEFINE packet(t) == [type |-> t, id |-> id, addr |-> BusAddress(req.addr),
                          row |-> RowOf[req.addr]]
            read == req.type = "DATA_READ"
            cas == [k \in 1 .. BurstsPerRequest |-> packet(IF read THEN "RD" ELSE "WR")]
            act == packet(IF read THEN "ACT_R" ELSE "ACT_W")
            opening == <<packet("PRE"), act>>
<1>1. BurstsPerRequest \in Nat \ {0}
  BY ConstantsAssumption
<1>2. /\ {"RD", "WR"} \subseteq Accesses /\ Activates = {"ACT_R", "ACT_W"}
      /\ \A type \in Accesses : type # "PRE" /\ type \notin Activates
  BY DEF Accesses, Reads, Writes, Activates
<1>3. /\ Len(cas) = BurstsPerRequest
      /\ \A i \in 1 .. BurstsPerRequest :
           cas[i].type \in Accesses /\ cas[i].row = RowOf[req.addr]
  BY <1>1, <1>2
<1>4. /\ \A i \in 1 .. BurstsPerRequest : cas[i].type \in OpenPage
      /\ Activates \cup {"PRE"} \subseteq OpenPage
  BY <1>1 DEF OpenPage
<1>5. \A i \in 0 .. BurstsPerRequest : RowAfter(RowOf[req.addr], cas, i) = RowOf[req.addr]
  BY <1>2, <1>3 DEF RowAfter
<1>6. Follow(RowOf[req.addr], cas, RowOf[req.addr])
  BY <1>1, <1>2, <1>3, <1>5, <1>4 DEF Follow, Suits
<1>7. CASE open
  BY <1>6, <1>7 DEF CommandGenerate
<1>8. CASE ~ open
  <2>1. CommandGenerate(id, req, open) = opening \o cas
    BY <1>8 DEF CommandGenerate
  <2>2. Follow(row, opening, RowOf[req.addr])
    <3>1. /\ Len(opening) = 2
          /\ opening[1].type = "PRE" /\ opening[1].row = RowOf[req.addr]
          /\ opening[2].type \in Activates /\ opening[2].row = RowOf[req.addr]
      BY DEF Activates
    <3>. HIDE DEF opening
    <3>2. /\ RowAfter(row, opening, 0) = row /\ RowAfter(row, opening, 1) = NoRow
          /\ RowAfter(row, opening, 2) = RowOf[req.addr]
      BY <1>2, <3>1 DEF RowAfter
    <3>3. \A i \in 1 .. 2 : /\ opening[i].type \in OpenPage
                            /\ Suits(opening[i], RowAfter(row, opening, i - 1))
      BY <1>2, <1>8, <1>4, <3>1, <3>2 DEF Suits
    <3>. QED  BY <3>1, <3>2, <3>3 DEF Follow
  <2>3. opening \in Seq(Packets) /\ cas \in Seq(Packets)
    <3>1. BusAddress(req.addr) \in Nat /\ RowOf[req.addr] \in Rows
      <4>1. req.addr \in Addresses /\ req.addr \in Nat /\ AddressSpan \in Nat \ {0}
        BY ConstantsAssumption DEF Requests
      <4>. QED  BY <4>1 DEF BusAddress, Rows
    <3>2. \A t \in PacketTypes : packet(t) \in Packets
      BY <3>1 DEF Packets
    <3>3. {"RD", "WR", "PRE", "ACT_R", "ACT_W"} \subseteq PacketTypes
      BY DEF PacketTypes
    <3>. HIDE DEF packet
    <3>4. cas \in Seq(Packets)
      <4>1. \A k \in 1 .. BurstsPerRequest : packet(IF read THEN "RD" ELSE "WR") \in Packets
        BY <3>2, <3>3
      <4>. QED  BY <1>1, <4>1
    <3>. QED  BY <3>2, <3>3, <3>4
  <2>. HIDE DEF opening, cas
  <2>. QED  BY <1>6, <2>1, <2>2, <2>3, FollowConcat
<1>. QED  BY <1>7, <1>8

\* What the request scheduler adds to a buffer suits the row table it leaves.
LEMMA BufferFollows ==
  ASSUME TypeOK, RowsFollow, NEW id \in Requestors
  PROVE  /\ Buffer(id) \in Seq(Packets)
         /\ Follow(openRow[id], Buffer(id), RowTableAfter[id])
<1>1. commandQueue[id] \in Seq(Packets) /\ Follow(openRow[id], commandQueue[id], rowTable[id])
  BY DEF TypeOK, RowsFollow
<1>2. CASE id \notin Requesting
  BY <1>1, <1>2 DEF Buffer, Generated, RowTableAfter
<1>3. CASE id \in Requesting
  <2>. DEFINE req == Head(requestQueue[id])
              hit == id \in Hits
  <2>1. req \in Requests
    BY <1>3 DEF TypeOK, Requesting
  <2>2. hit \in BOOLEAN /\ (hit <=> rowTable[id] = RowOf[req.addr])
    BY <1>3 DEF Hits, RowHit, NextRow
  <2>3. RowTableAfter[id] = RowOf[req.addr]
    BY <1>3 DEF RowTableAfter, NextRow
  <2>4. Buffer(id) = commandQueue[id] \o CommandGenerate(id, req, hit)
    BY <1>3 DEF Buffer, Generated
  <2>. HIDE DEF req, hit
  <2>5. CommandGenerate(id, req, hit) \in Seq(Packets)
    BY <2>1, <2>2, CommandGenerateType
  <2>6. Follow(rowTable[id], CommandGenerate(id, req, hit), RowOf[req.addr])
    BY <2>1, <2>2, FollowGenerate
  <2>7. commandQueue[id] \o CommandGenerate(id, req, hit) \in Seq(Packets)
    BY <1>1, <2>5
  <2>8. Follow(openRow[id], commandQueue[id] \o CommandGenerate(id, req, hit), RowOf[req.addr])
    BY <1>1, <2>5, <2>6, FollowConcat
  <2>. QED  BY <2>3, <2>4, <2>7, <2>8
<1>. QED  BY <1>2, <1>3

\* The buffers after a cycle: one has lost its first command, or none has.
LEMMA BuffersAfter ==
  ASSUME TypeOK, ObservedStep
  PROVE  /\ rowTable' = RowTableAfter
         /\ \/ \E id \in Requestors :
                 /\ RecordCommand(id) /\ Buffer(id) # <<>>
                 /\ \A j \in Requestors :
                      commandQueue'[j] = IF j = id THEN Tail(Buffer(j)) ELSE Buffer(j)
            \/ /\ openRow' = openRow
               /\ \A j \in Requestors : commandQueue'[j] = Buffer(j)
<1>. DEFINE result == CommandSchedule(scheduler, Ready, Heads, Issuable)
<1>1. RoundStep /\ turn = NumRequestors /\ StepWith(result)
  BY DEF ObservedStep, RoundStep
<1>. HIDE DEF result
<1>2. rowTable' = RowTableAfter
  BY <1>1 DEF StepWith
<1>3. ASSUME NEW id \in Requestors, Buffer(id) # <<>>
      PROVE  Tail(Buffer(id)) # Buffer(id)
  <2>1. Buffer(id) \in Seq(Packets)
    BY GeneratedType DEF Buffer
  <2>. QED  BY <1>3, <2>1
<1>4. \A id \in Requestors : Sent(id) <=> /\ Buffer(id) # <<>>
                                          /\ commandQueue'[id] = Tail(Buffer(id))
  BY <1>1 DEF Sent, Heads
<1>5. \/ \E id \in Requestors : Sent(id) /\ RecordCommand(id)
      \/ (\A id \in Requestors : ~ Sent(id)) /\ openRow' = openRow
  BY DEF ObservedStep, historyVars
<1>6. CASE result.sent = {}
  <2>1. \A j \in Requestors : commandQueue'[j] = Buffer(j)
    BY <1>1, <1>6 DEF StepWith, StepNoCommand, Buffer
  <2>. QED  BY <1>2, <1>3, <1>4, <1>5, <2>1
<1>7. CASE result.sent # {}
  <2>1. PICK id \in Requestors : StepCommand(id, Requesting, Hits)
    BY <1>1, <1>7 DEF StepWith
  <2>2. /\ Buffer(id) # <<>>
        /\ \A j \in Requestors :
             commandQueue'[j] = IF j = id THEN Tail(Buffer(j)) ELSE Buffer(j)
    BY <2>1 DEF StepCommand, Buffer
  <2>3. \A j \in Requestors : Sent(j) => j = id
    BY <1>3, <1>4, <2>2
  <2>4. RecordCommand(id)
    BY <1>4, <1>5, <2>2, <2>3
  <2>. QED  BY <1>2, <2>2, <2>4
<1>. QED  BY <1>6, <1>7

\* The head of a buffer leaves the row open that the history records.
LEMMA RowsStep ==
  ASSUME TypeOK, RowsFollow, ObservedStep
  PROVE  RowsFollow'
<1>1. rowTable' = RowTableAfter
  BY BuffersAfter
<1>2. CASE /\ openRow' = openRow
           /\ \A j \in Requestors : commandQueue'[j] = Buffer(j)
  BY <1>1, <1>2, BufferFollows DEF RowsFollow
<1>3. ASSUME NEW id \in Requestors, RecordCommand(id), Buffer(id) # <<>>,
             \A j \in Requestors :
               commandQueue'[j] = IF j = id THEN Tail(Buffer(j)) ELSE Buffer(j)
      PROVE  RowsFollow'
  <2>. DEFINE cmd == Head(Buffer(id))
  <2>1. /\ Buffer(id) \in Seq(Packets) /\ cmd = Buffer(id)[1] /\ cmd \in Packets
        /\ Follow(openRow[id], Buffer(id), RowTableAfter[id])
    BY <1>3, BufferFollows
  <2>2. /\ cmd.type \in OpenPage
        /\ Suits(cmd, openRow[id])
    <3>1. 1 \in 1 .. Len(Buffer(id)) /\ RowAfter(openRow[id], Buffer(id), 1 - 1) = openRow[id]
      BY <1>3, <2>1 DEF RowAfter
    <3>. QED  BY <2>1, <3>1 DEF Follow
  <2>3. openRow' = [openRow EXCEPT ![id] = RowAfter(openRow[id], Buffer(id), 1)]
    <3>1. openRow' = [openRow EXCEPT ![id] =
            CASE cmd.type = "PRE" -> NoRow
              [] cmd.type \in Activates -> cmd.row
              [] OTHER -> @]
      BY <1>3 DEF RecordCommand
    <3>2. \A type \in Accesses : type # "PRE" /\ type \notin Activates
      BY DEF Accesses, Reads, Writes, Activates
    <3>3. "PRE" \notin Activates
      BY DEF Activates
    <3>4. RowAfter(openRow[id], Buffer(id), 1) =
            IF cmd.type = "PRE" THEN NoRow ELSE cmd.row
      BY <2>1 DEF RowAfter
    <3>. HIDE DEF cmd
    <3>5. CASE cmd.type = "PRE"
      BY <3>1, <3>3, <3>4, <3>5
    <3>6. CASE cmd.type \in Activates
      BY <3>1, <3>3, <3>4, <3>6
    <3>7. CASE cmd.type \in Accesses
      <4>1. cmd.type # "PRE" /\ cmd.type \notin Activates /\ openRow[id] = cmd.row
        BY <2>2, <3>2, <3>7 DEF Suits
      <4>2. openRow' = [openRow EXCEPT ![id] = openRow[id]]
        BY <3>1, <4>1
      <4>. QED  BY <3>4, <4>1, <4>2
    <3>8. OpenPage \subseteq {"PRE"} \cup Activates \cup Accesses
      BY DEF OpenPage, Accesses, Reads, Writes
    <3>. QED  BY <2>2, <3>5, <3>6, <3>7, <3>8
  <2>4. RowAfter(openRow[id], Buffer(id), 1) \in Rows \cup {NoRow}
    BY <2>1 DEF RowAfter, Packets
  <2>5. openRow' \in [Requestors -> Rows \cup {NoRow}]
    BY <2>3, <2>4 DEF RowsFollow
  <2>6. ASSUME NEW j \in Requestors
        PROVE  Follow(openRow'[j], commandQueue'[j], rowTable'[j])
    <3>1. CASE j = id
      <4>1. openRow'[id] = RowAfter(openRow[id], Buffer(id), 1)
        BY <2>3 DEF RowsFollow
      <4>2. Follow(RowAfter(openRow[id], Buffer(id), 1), Tail(Buffer(id)), RowTableAfter[id])
        BY <1>3, <2>1, FollowTail
      <4>. QED  BY <1>1, <1>3, <3>1, <4>1, <4>2
    <3>2. CASE j # id
      <4>1. openRow'[j] = openRow[j]
        BY <2>3, <3>2 DEF RowsFollow
      <4>. QED  BY <1>1, <1>3, <3>2, <4>1, BufferFollows
    <3>. QED  BY <3>1, <3>2
  <2>. QED  BY <2>5, <2>6 DEF RowsFollow
<1>. QED  BY <1>2, <1>3, BuffersAfter

\* No requestor has a command yet, and no bank a row.
LEMMA RowsInit ==
  ASSUME ObservedInit
  PROVE  RowsFollow
<1>1. /\ openRow = [id \in Requestors |-> NoRow] /\ rowTable = [id \in Requestors |-> NoRow]
      /\ commandQueue = [id \in Requestors |-> <<>>]
  BY DEF ObservedInit, RoundInit, Init
<1>2. Len(<<>>) = 0
  OBVIOUS
<1>. QED  BY <1>1, <1>2 DEF RowsFollow, Follow, RowAfter

\* The open rows, the buffers and the row table always fit together.
LEMMA RowsFollowAlways == ObservedSpec => []RowsFollow
<1>1. ObservedInit => RowsFollow
  BY RowsInit
<1>2. TypeOK /\ RowsFollow /\ [ObservedNext]_observedVars => RowsFollow'
  <2>. SUFFICES ASSUME TypeOK, RowsFollow, [ObservedNext]_observedVars
                PROVE  RowsFollow'
    OBVIOUS
  <2>1. CASE UNCHANGED <<commandQueue, rowTable, openRow>>
    BY <2>1 DEF RowsFollow
  <2>2. CASE \E id \in Requestors : RoundUpdate(id) /\ UNCHANGED historyVars
    BY <2>1, <2>2 DEF RoundUpdate, Update, UpdateSend, UpdateWait, UpdateBlocked,
                      UpdateBlank, UpdateEnd, queueVars, schedulerVars, historyVars
  <2>3. CASE ObservedStep
    BY <2>3, RowsStep
  <2>4. CASE RoundMemoryUpdate /\ RecordCycle
    BY <2>1, <2>4 DEF RoundMemoryUpdate, MemoryUpdate, RecordCycle, queueVars
  <2>5. CASE RoundExit /\ UNCHANGED historyVars
    BY <2>1, <2>5 DEF RoundExit, Exit, vars, queueVars, schedulerVars, historyVars
  <2>6. CASE UNCHANGED observedVars
    BY <2>1, <2>6 DEF observedVars, roundVars, vars, queueVars, schedulerVars, historyVars
  <2>. QED  BY <2>2, <2>3, <2>4, <2>5, <2>6 DEF ObservedNext
<1>. QED  BY <1>1, <1>2, ObservedIsSystem, RoundImplementsChannel, TypeCorrect,
             PTL DEF ObservedSpec

\* Whatever the order in which commands are sent, and however long they wait,
\* an access finds its row open, an activate its bank precharged, and a
\* precharge closes no row that is wanted.
THEOREM RowsOpenedAlways == ObservedSpec => RowsOpened
<1>1. ASSUME TypeOK, RowsFollow, NEW id \in Requestors, Sent(id)
      PROVE  LET cmd == Head(Buffer(id))
             IN CASE cmd.type \in Accesses  -> openRow[id] = cmd.row
                  [] cmd.type \in Activates -> openRow[id] = NoRow
                  [] cmd.type = "PRE"       -> openRow[id] # cmd.row
  <2>. DEFINE cmd == Head(Buffer(id))
  <2>1. /\ Buffer(id) # <<>> /\ Buffer(id) \in Seq(Packets) /\ cmd = Buffer(id)[1]
        /\ Follow(openRow[id], Buffer(id), RowTableAfter[id])
    BY <1>1, BufferFollows DEF Sent, Heads
  <2>2. /\ cmd.type \in OpenPage
        /\ Suits(cmd, openRow[id])
    <3>1. 1 \in 1 .. Len(Buffer(id)) /\ RowAfter(openRow[id], Buffer(id), 1 - 1) = openRow[id]
      BY <2>1 DEF RowAfter
    <3>. QED  BY <2>1, <3>1 DEF Follow
  <2>3. \A type \in Accesses : type # "PRE" /\ type \notin Activates
    BY DEF Accesses, Reads, Writes, Activates
  <2>4. "PRE" \notin Activates /\ OpenPage \subseteq {"PRE"} \cup Activates \cup Accesses
    BY DEF Activates, OpenPage, Accesses, Reads, Writes
  <2>. HIDE DEF cmd
  <2>5. TRUE = CASE cmd.type \in Accesses -> openRow[id] = cmd.row
                 [] cmd.type \in Activates -> openRow[id] = NoRow
                 [] cmd.type = "PRE" -> openRow[id] # cmd.row
    BY <2>2, <2>3, <2>4 DEF Suits
  <2>. QED  BY <2>5 DEF cmd
<1>2. TypeOK /\ RowsFollow =>
        \A id \in Requestors :
          Sent(id) => LET cmd == Head(Buffer(id))
                      IN CASE cmd.type \in Accesses  -> openRow[id] = cmd.row
                           [] cmd.type \in Activates -> openRow[id] = NoRow
                           [] cmd.type = "PRE"       -> openRow[id] # cmd.row
  BY <1>1
<1>. QED  BY <1>2, RowsFollowAlways, ObservedIsSystem, RoundImplementsChannel, TypeCorrect,
             PTL DEF ObservedSpec, RowsOpened
=============================================================================

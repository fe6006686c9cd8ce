------------------------------ MODULE FrontEnd ------------------------------
(***************************************************************************)
(* The way of a request from MemoryController::addRequest to the command   *)
(* bus under any configuration file: the queues a file asks for, the       *)
(* location of a request and the queues it and its commands go to, the     *)
(* request schedulers DIRECT and RR over any number of queues, shared or   *)
(* with a buffer per requestor, and the OPEN command generator.            *)
(*                                                                         *)
(* MemoryController, RoundSystem and SlotSystem model the rest of the      *)
(* channel for the queues of Round.ini and AMC.ini.  Here the device, the  *)
(* timing of the command schedulers and the data path are a choice: any    *)
(* command a scheduler looks at may be sent in a cycle, or none, and a     *)
(* requestor may go on Turnaround cycles after its last column access.     *)
(***************************************************************************)
EXTENDS Addressing, Configuration

CONSTANTS
  NumRequestors,     \* option -n
  Configurations,    \* what main, the files and the build may say (see config)
  BurstsPerRequest,  \* requestSize / dataBusWidth
  timeSlot,          \* RR: cycles of a slot, 42 in the code
  Turnaround,        \* cycles from a column access to its answer, at least
  NoRequest

Requestors   == 0 .. NumRequestors - 1
RequestTypes == {"DATA_READ", "DATA_WRITE"}
Undefined    == NumRequestors + 1
NoRow        == -1

\* FCFS looks into the buffers for critical commands, Round into those of the
\* requestors; neither sends anything with the other kind of queue.
ASSUME FrontEndAssumption ==
  /\ NumRequestors \in Nat \ {0}
  /\ BurstsPerRequest \in Nat \ {0} /\ timeSlot \in Nat \ {0}
  /\ Turnaround \in Nat /\ NumRequestors - 1 <= Turnaround
  /\ NoRequest \notin [id : Requestors, type : RequestTypes, at : [ToSet(Levels) -> Nat]]
  /\ \A c \in Configurations :
       /\ Starts(c.file)
       /\ (c.file.configTable["CommandScheduler"] = "Round") = c.file.perRequestorCommands
       /\ c.placement \in Placements /\ c.critical \subseteq Requestors
       /\ c.lines \subseteq [id : Requestors, type : RequestTypes, addr : Nat]

VARIABLES
  config,          \* never changes:
                   \*   file       the configuration file (Configuration)
                   \*   lines      the traces: who may ask for what
                   \*   critical   requestorCriticalTable
                   \*   memTable   the memory organisation
                   \*   placement  (Addressing)
  turn,            \* the requestor that is next, or NumRequestors: the controller;
                   \* Undefined when the program has erased from an empty vector:
                   \* what it does then is not defined, and the model ends
  pending,         \* MemoryController: the unanswered request of a requestor
  resting,         \* cycles until a requestor may go on
  requestQueue,    \* MemoryController, by index
  commandQueue,    \* MemoryController, by index
  bankTable,       \* RequestScheduler: the row a bank will have open
  slotCounter, queueIndex, queueRequestorIndex,  \* RR
  opened,          \* the row a bank has open, after the commands sent
  overtaken        \* requests scheduled before an older one in their queue

rrVars == <<slotCounter, queueIndex, queueRequestorIndex>>
vars == <<config, turn, pending, resting, requestQueue, commandQueue,
          bankTable, rrVars, opened, overtaken>>

Q == INSTANCE Queues WITH QueueUsers <- Requestors

-----------------------------------------------------------------------------
(* MemoryController::addRequest and enqueueCommand.                        *)

memTable == config.memTable

LocationOf(id, addr) ==
  Location(memTable, Format(config.file.configTable["AddressMapping"]), config.placement, id, addr)

Place(location) == <<location.Rank, location.Bank>>

\* Requestor::update: a request is sent, or the requestor computes.
AddRequest(id, line) ==
  LET at  == LocationOf(id, line.addr)
      req == [id |-> id, type |-> line.type, at |-> at]
  IN /\ turn = id /\ line.id = id
     /\ pending[id] = NoRequest /\ resting[id] = 0
     /\ pending' = [pending EXCEPT ![id] = req]
     /\ requestQueue' =
          [requestQueue EXCEPT ![DecodeQueue(memTable, config.file.reqMap, at)] =
             Q!InsertRequest(@, config.file, req)]
     /\ turn' = turn + 1
     /\ UNCHANGED <<config, resting, commandQueue, bankTable, rrVars,
                    opened, overtaken>>

Compute(id) ==
  /\ turn = id
  /\ turn' = turn + 1
  /\ UNCHANGED <<config, pending, resting, requestQueue, commandQueue,
                 bankTable, rrVars, opened, overtaken>>

\* CommandGenerator_OPEN::commandGenerate.
CommandGenerate(req, open) ==
  LET packet(t) == [type |-> t, id |-> req.id, at |-> req.at]
      read == req.type = "DATA_READ"
      cas  == [k \in 1 .. BurstsPerRequest |-> packet(IF read THEN "RD" ELSE "WR")]
  IN IF open THEN cas
     ELSE <<packet("PRE"), packet(IF read THEN "ACT_R" ELSE "ACT_W")>> \o cas

\* The bank group and sub-array of a command are always 0.
EnqueueCommand(queues, cmd) ==
  LET at == [cmd.at EXCEPT !.BankGroup = 0, !.SubArray = 0]
  IN [queues EXCEPT ![DecodeQueue(memTable, config.file.cmdMap, at)] =
        Q!InsertCommand(@, config.file.perRequestorCommands, cmd.id \in config.critical, cmd)]

-----------------------------------------------------------------------------
(* requestSchedule().  `work' is what it changes: the queues, the row      *)
(* table and the commands generated.                                       *)

\* Mutant: a hit is a row that is open in any bank.
IsRowHitAnywhere(table, req) == \E place \in DOMAIN table : table[place] = req.at.Row

IsRowHit(table, req) == table[Place(req.at)] = req.at.Row

\* isSchedulable(request, isRowHit(request)) and updateRowTable.
Translate(work, req) ==
  [work EXCEPT
     !.commands = @ \o CommandGenerate(req, IsRowHit(work.table, req)),
     !.table[Place(req.at)] = req.at.Row]

\* scheduleFR: the first request that hits, or the first.
ScheduleFR(table, list) ==
  LET hits == {i \in DOMAIN list : IsRowHit(table, list[i])}
  IN IF hits = {} THEN 1 ELSE Min(hits)

\* DIRECT on one queue: a request of each requestor, or one of all.
TakeOwn(work, q, id) ==
  LET own == work.queues[q].own[id]
  IN IF own = <<>> THEN work
     ELSE [Translate(work, Head(own)) EXCEPT
             !.queues[q] = Q!RemoveRequest(Q!AccessOwn(@, id))]

DirectOwn(work, q) ==
  FoldLeft(LAMBDA w, id : TakeOwn(w, q, id), work, work.queues[q].order)

DirectGeneral(work, q) ==
  LET queue == work.queues[q]
      i     == ScheduleFR(work.table, queue.general)
  IN IF queue.general = <<>> THEN work
     ELSE [Translate(work, queue.general[i]) EXCEPT
             !.queues[q] = Q!RemoveRequest(Q!AccessGeneral(queue, i)),
             !.passed = @ \cup {queue.general[k].id : k \in 1 .. i - 1}]

DirectQueue(work, q) ==
  IF config.file.perRequestor THEN DirectOwn(work, q) ELSE DirectGeneral(work, q)

NumQueues == Cardinality(DOMAIN requestQueue)

Direct(work) == FoldLeft(DirectQueue, work, [i \in 1 .. NumQueues |-> i - 1])

\* RR: in pass `index' of its loop, the queue it looks at.
Inspected(index) == (queueIndex + index) % NumQueues

Requesting(queue) ==
  IF config.file.perRequestor THEN Q!Waiting(queue) # {} ELSE queue.general # <<>>

\* Mutant: always the first requestor that has a request.
InTurnFixed(queue, from) ==
  Min({k \in 0 .. Len(queue.order) - 1 : queue.own[queue.order[k + 1]] # <<>>})

\* The place in `order' of the first requestor with a request, from the one
\* whose turn it is.
InTurn(queue, from) ==
  (from + Min({k \in 0 .. Len(queue.order) - 1 :
     queue.own[queue.order[((from + k) % Len(queue.order)) + 1]] # <<>>})) % Len(queue.order)

\* RR serves one queue.  It has accessed queue q, and removes from queue
\* `index': two names of one queue only where there is no other, or by chance.
Serve(work, index, q, place) ==
  LET queue == work.queues[q]
      req   == IF config.file.perRequestor THEN Head(queue.own[queue.order[place + 1]])
                                      ELSE Head(queue.general)
      seen  == [work.queues EXCEPT ![q] =
                  IF config.file.perRequestor THEN Q!AccessOwn(@, req.id)
                                         ELSE Q!AccessGeneral(@, 1)]
  IN [work EXCEPT
        !.commands = CommandGenerate(req, FALSE),
        !.queues = [seen EXCEPT ![index] = Q!RemoveRequest(@)],
        !.slot = timeSlot - 1,
        !.queue = (q + 1) % NumQueues,
        !.places[q] = IF config.file.perRequestor THEN (place + 1) % Len(queue.order) ELSE @]

RoundRobin(work) ==
  LET passes == {k \in 0 .. NumQueues - 1 : Requesting(work.queues[Inspected(k)])}
      q      == Inspected(Min(passes))
  IN IF slotCounter > 0 THEN [work EXCEPT !.slot = @ - 1]
     ELSE IF passes = {} THEN work
     ELSE Serve(work, Min(passes), q,
                IF config.file.perRequestor
                THEN InTurn(work.queues[q], queueRequestorIndex[q]) ELSE 0)

NothingDone ==
  [queues |-> requestQueue, table |-> bankTable, commands |-> <<>>, passed |-> {},
   slot |-> slotCounter, queue |-> queueIndex, places |-> queueRequestorIndex]

RequestSchedule ==
  IF config.file.configTable["RequestScheduler"] = "DIRECT" THEN Direct(NothingDone)
                                        ELSE RoundRobin(NothingDone)

-----------------------------------------------------------------------------
(* MemoryController::step.                                                 *)

IsAccess(cmd) == cmd.type \in {"RD", "WR"}

\* The requestors whose commands have been generated.
Served(work) == {cmd.id : cmd \in ToSet(work.commands)}

\* The rest of a cycle, when requestSchedule has done `work'.
Scheduled(work) ==
  /\ requestQueue' = work.queues /\ bankTable' = work.table
  /\ slotCounter' = work.slot /\ queueIndex' = work.queue
  /\ queueRequestorIndex' = work.places
  /\ overtaken' = [id \in Requestors |->
       IF id \in Served(work) THEN 0
       ELSE IF id \in work.passed THEN overtaken[id] + 1 ELSE overtaken[id]]
  /\ UNCHANGED config

Rested == [id \in Requestors |-> IF resting[id] > 0 THEN resting[id] - 1 ELSE 0]

\* The command scheduler returns NULL.
StepNoCommand(work, queues) ==
  /\ Scheduled(work)
  /\ turn' = 0
  /\ commandQueue' = queues
  /\ resting' = Rested
  /\ UNCHANGED <<pending, opened>>

\* Mutant: the last column access is answered before its data has moved.
SendCommandAtOnce(work, queues, cmd) ==
  /\ Scheduled(work)
  /\ turn' = 0
  /\ commandQueue' = queues
  /\ opened' = IF IsAccess(cmd) THEN opened
               ELSE [opened EXCEPT ![Place(cmd.at)] =
                       IF cmd.type = "PRE" THEN NoRow ELSE cmd.at.Row]
  /\ resting' = Rested
  /\ pending' = IF IsAccess(cmd) /\ \A q \in DOMAIN queues : Q!CommandsOf(queues[q], cmd.id) = {}
                THEN [pending EXCEPT ![cmd.id] = NoRequest] ELSE pending

\* A command leaves, and `queues' is what stays.
SendCommand(work, queues, cmd) ==
  /\ Scheduled(work)
  /\ turn' = 0
  /\ commandQueue' = queues
  /\ opened' = IF IsAccess(cmd) THEN opened
               ELSE [opened EXCEPT ![Place(cmd.at)] =
                       IF cmd.type = "PRE" THEN NoRow ELSE cmd.at.Row]
  /\ IF IsAccess(cmd) /\ \A q \in DOMAIN queues : Q!CommandsOf(queues[q], cmd.id) = {}
     THEN /\ pending' = [pending EXCEPT ![cmd.id] = NoRequest]
          /\ resting' = [Rested EXCEPT ![cmd.id] = Turnaround]
     ELSE resting' = Rested /\ UNCHANGED pending

\* CommandScheduler_FCFS.h: the first command of some queue for critical ones.
FCFS(work, queues) ==
  /\ config.file.configTable["CommandScheduler"] = "FCFS"
  /\ \E q \in DOMAIN queues :
       /\ queues[q].hrt # <<>>
       /\ SendCommand(work, [queues EXCEPT ![q] = Q!RemoveCritical(@)], Head(queues[q].hrt))

\* What Round collects: of every queue, the first command of every requestor.
Collected(queues) ==
  {first \in (DOMAIN queues) \X Requestors : queues[first[1]].own[first[2]] # <<>>}

\* sendCommand(cmd, 0) erases the front of an empty buffer of queue 0.
EraseNothing(work, queues) ==
  /\ Scheduled(work)
  /\ turn' = Undefined
  /\ commandQueue' = queues
  /\ UNCHANGED <<pending, resting, opened>>

\* CommandScheduler_Round.h: a command that was collected is sent.  From whatever
\* queue it is, every sendCommand of Round removes from queue 0.
Round(work, queues) ==
  /\ config.file.configTable["CommandScheduler"] = "Round"
  /\ \E first \in Collected(queues) :
       LET id == first[2]
       IN IF queues[0].own[id] = <<>> THEN EraseNothing(work, queues)
          ELSE SendCommand(work, [queues EXCEPT ![0] = Q!RemoveOwn(@, id)],
                           Head(queues[first[1]].own[id]))

Step ==
  /\ turn = NumRequestors
  /\ \E work \in {RequestSchedule} :
     \E queues \in {FoldLeft(EnqueueCommand, commandQueue, work.commands)} :
       \/ StepNoCommand(work, queues)
       \/ FCFS(work, queues)
       \/ Round(work, queues)

-----------------------------------------------------------------------------

Places == (0 .. memTable.Rank - 1) \X (0 .. memTable.Bank - 1)

\* MemoryController::connectMemorySystem makes the queues.
Init ==
  /\ config \in Configurations
  /\ turn = 0
  /\ pending = [id \in Requestors |-> NoRequest]
  /\ resting = [id \in Requestors |-> 0]
  /\ requestQueue = [q \in 0 .. QueueNumber(memTable, config.file.reqMap) - 1 |-> Q!EmptyRequestQueue]
  /\ commandQueue = [q \in 0 .. QueueNumber(memTable, config.file.cmdMap) - 1 |-> Q!EmptyCommandQueue]
  /\ bankTable = [p \in Places |-> NoRow]
  /\ slotCounter = 0 /\ queueIndex = 0
  /\ queueRequestorIndex = [q \in DOMAIN requestQueue |-> 0]
  /\ opened = [p \in Places |-> NoRow]
  /\ overtaken = [id \in Requestors |-> 0]

Next == \/ \E id \in Requestors :
             \/ Compute(id)
             \/ \E line \in config.lines : AddRequest(id, line)
        \/ Step

\* The loop of main goes on.  A step is possible in every state in which turn is
\* not Undefined, so that this is WF_vars(Next).
Spec == Init /\ [][Next]_vars /\ ([]<>(turn = Undefined) \/ []<><<Next>>_vars)

-----------------------------------------------------------------------------
(* What the code takes for granted of a configuration.                     *)

\* Every request lies inside the memory organisation: otherwise decodeQueue
\* indexes a queue that is not there.
Fits(c) ==
  /\ \A level \in ToSet(Levels) : c.memTable[level] \in Nat \ {0}
  /\ c.file.reqMap \in Seq({0, 1}) /\ Marked(c.file.reqMap) \subseteq 1 .. 4
  /\ c.file.cmdMap \in Seq({0, 1}) /\ Marked(c.file.cmdMap) \subseteq 1 .. 4
  /\ \A line \in c.lines :
       LET at == Location(c.memTable, Format(c.file.configTable["AddressMapping"]),
                          c.placement, line.id, line.addr)
       IN /\ at \in [ToSet(Levels) -> Nat]
          /\ \A level \in ToSet(QueueLevels) : at[level] < c.memTable[level]

\* RR removes a request from another queue than it has served, unless there is
\* only one.
OneQueueForRR(c) ==
  \/ c.file.configTable["RequestScheduler"] = "DIRECT"
  \/ QueueNumber(c.memTable, c.file.reqMap) = 1

\* Round removes a command from another queue than it has collected it from,
\* unless there is only one.
OneQueueForRound(c) ==
  \/ c.file.configTable["CommandScheduler"] = "FCFS"
  \/ QueueNumber(c.memTable, c.file.cmdMap) = 1

\* The commands for a bank are in one buffer: the requestors that share it share
\* a buffer too.  With a buffer per requestor none are shared; otherwise a bank
\* is for critical requestors or for the others.
SharedBanks(c) ==
  LET place(line) == Place(Location(c.memTable, Format(c.file.configTable["AddressMapping"]),
                                    c.placement, line.id, line.addr))
  IN \A l1, l2 \in c.lines : place(l1) = place(l2) =>
       IF c.file.perRequestorCommands THEN l1.id = l2.id
       ELSE l1.id \in c.critical <=> l2.id \in c.critical

-----------------------------------------------------------------------------
(* Properties.                                                             *)

Commands(id) == UNION {Q!CommandsOf(commandQueue[q], id) : q \in DOMAIN commandQueue}

\* The places of requestor id's requests, over all queues.
WaitingIn(id) ==
  UNION {{<<q, x>> : x \in {y \in Q!RequestsIn(requestQueue[q]) : y.req.id = id}} :
           q \in DOMAIN requestQueue}

\* "Once a request is buffered to another location, remove from the request
\* queue" (RequestQueue.cpp): whatever the queues of a configuration, a request
\* that is not answered is in one request queue, once, and as it was sent, or
\* its commands are in the command queues; no other request is anywhere.
OnePlace ==
  \A id \in Requestors :
    \/ /\ pending[id] = NoRequest
       /\ WaitingIn(id) = {} /\ Commands(id) = {}
    \/ /\ pending[id] # NoRequest
       /\ Cardinality(WaitingIn(id)) = 1 /\ Commands(id) = {}
       /\ \A x \in WaitingIn(id) : x[2].req = pending[id]
    \/ /\ pending[id] # NoRequest
       /\ WaitingIn(id) = {} /\ Commands(id) # {}
       /\ \A cmd \in Commands(id) : cmd.at = pending[id].at

\* "remove most recently accessed command (from requestor queue or general fifo)"
\* (CommandQueue.h): a command that Round sends is in the buffer that sendCommand
\* removes it from, so that it never erases from an empty one.
CommandRemoved == turn # Undefined

\* The row the command at position i of a buffer finds open in its bank.
RowFound(buffer, i) ==
  LET before == {j \in 1 .. i - 1 : /\ ~ IsAccess(buffer[j])
                                    /\ Place(buffer[j].at) = Place(buffer[i].at)}
  IN IF before = {} THEN opened[Place(buffer[i].at)]
     ELSE IF buffer[Max(before)].type = "PRE" THEN NoRow
     ELSE buffer[Max(before)].at.Row

\* Whether a request hits is decided when its commands are generated, from a
\* table that says what will be open.  Every column access that is sent finds
\* its row open all the same: whatever the queues, the commands to one bank
\* leave in the order they were generated in.
AccessesFindRow ==
  \A q \in DOMAIN commandQueue :
    \A buffer \in {commandQueue[q].hrt} \cup {commandQueue[q].own[id] : id \in Requestors} :
      \A i \in DOMAIN buffer :
        IsAccess(buffer[i]) => RowFound(buffer, i) = buffer[i].at.Row

\* scheduleFR lets a hit pass older requests, and sets no limit.  The limit is
\* that a requestor waits for its answer: until it has one, all others have
\* had a turn.
OvertakenOnceByEach == \A id \in Requestors : overtaken[id] <= NumRequestors - 1

\* Where the command queues are for banks, no two banks share one, although
\* decodeQueue does not number the banks one by one.
OneBankPerQueue ==
  config.file.cmdMap = <<0, 0, 1, 0>> =>
    \A q \in DOMAIN commandQueue, id1, id2 \in Requestors :
      \A c1 \in Q!CommandsOf(commandQueue[q], id1), c2 \in Q!CommandsOf(commandQueue[q], id2) :
        Place(c1.at) = Place(c2.at)

\* No request waits for ever to be turned into commands, in any queue the
\* request schedulers look into: not behind hits, not behind the other queues,
\* nor behind the writes in a write queue.
InWriteQueue(id) == \E q \in DOMAIN requestQueue :
  \E i \in DOMAIN requestQueue[q].writes : requestQueue[q].writes[i].id = id
RequestsScheduled ==
  \A id \in Requestors :
    WaitingIn(id) # {} /\ ~ InWriteQueue(id) ~> WaitingIn(id) = {}
=============================================================================

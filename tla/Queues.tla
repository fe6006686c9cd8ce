------------------------------- MODULE Queues -------------------------------
(***************************************************************************)
(* The two kinds of queue of the controller, as records: RequestQueue.cpp, *)
(* with one buffer for all requestors or one for each, and CommandQueue.cpp,*)
(* with a buffer for critical and one for other commands, or one for each  *)
(* requestor.  A position that is 0 in the code is 1 here.                 *)
(***************************************************************************)
EXTENDS Integers, SequencesExt

CONSTANT QueueUsers  \* the requestors

-----------------------------------------------------------------------------
(* RequestQueue.                                                           *)

EmptyRequestQueue ==
  [general   |-> <<>>,                           \* generalBuffer
   own       |-> [id \in QueueUsers |-> <<>>],   \* requestorBuffer
   order     |-> <<>>,                           \* requestorOrder
   writes    |-> <<>>,                           \* WriteQueue::writeQueue
   scheduled |-> [first |-> FALSE, id |-> 0, index |-> 1]]  \* the last access

\* insertRequest.
InsertRequest(queue, layout, req) ==
  IF layout.writeQueue /\ req.type = "DATA_WRITE"
  THEN [queue EXCEPT !.writes = Append(@, req)]
  ELSE IF ~ layout.perRequestor THEN [queue EXCEPT !.general = Append(@, req)]
  ELSE [queue EXCEPT !.own[req.id] = Append(@, req),
                     !.order = IF req.id \in ToSet(@) THEN @ ELSE Append(@, req.id)]

\* The requestors in the queue's order with a request in their own buffer.
Waiting(queue) == {id \in ToSet(queue.order) : queue.own[id] # <<>>}

\* getRequest(index) on the shared buffer, and getRequest(reqIndex, 0) on the
\* buffer of a requestor: both leave a note of what they returned.
AccessGeneral(queue, i) ==
  [queue EXCEPT !.scheduled = [first |-> FALSE, id |-> 0, index |-> i]]
AccessOwn(queue, id) ==
  [queue EXCEPT !.scheduled = [first |-> TRUE, id |-> id, index |-> 1]]

\* Erasing from an empty vector is undefined; here it leaves it empty.
Erase(list, i) == IF i \in DOMAIN list THEN RemoveAt(list, i) ELSE list

\* Mutant: what is removed is the request at the front.
RemoveRequestFront(queue) ==
  IF queue.scheduled.first
  THEN [queue EXCEPT !.own[queue.scheduled.id] = Erase(@, 1)]
  ELSE [queue EXCEPT !.general = Erase(@, 1)]

\* removeRequest: what was accessed last goes.
RemoveRequest(queue) ==
  IF queue.scheduled.first
  THEN [queue EXCEPT !.own[queue.scheduled.id] = Erase(@, queue.scheduled.index)]
  ELSE [queue EXCEPT !.general = Erase(@, queue.scheduled.index)]

\* Everything in the queue that a scheduler can find, and where it is.
RequestsIn(queue) ==
  LET In(buffer, owner, list) ==
        {[buffer |-> buffer, owner |-> owner, index |-> i, req |-> list[i]] : i \in DOMAIN list}
  IN In("general", 0, queue.general) \cup In("writes", 0, queue.writes)
     \cup UNION {In("own", id, queue.own[id]) : id \in ToSet(queue.order)}

-----------------------------------------------------------------------------
(* CommandQueue.                                                           *)

EmptyCommandQueue ==
  [hrt |-> <<>>, srt |-> <<>>, own |-> [id \in QueueUsers |-> <<>>]]

\* insertCommand.
InsertCommand(queue, perRequestor, critical, cmd) ==
  CASE perRequestor -> [queue EXCEPT !.own[cmd.id] = Append(@, cmd)]
    [] ~ perRequestor /\ critical -> [queue EXCEPT !.hrt = Append(@, cmd)]
    [] OTHER -> [queue EXCEPT !.srt = Append(@, cmd)]

\* removeCommand(requestorID), and removeCommand() after getCommand(true).
RemoveOwn(queue, id)  == [queue EXCEPT !.own[id] = Tail(@)]
RemoveCritical(queue) == [queue EXCEPT !.hrt = Tail(@)]

\* The commands of a requestor in the queue.
CommandsOf(queue, id) ==
  {cmd \in ToSet(queue.hrt) \cup ToSet(queue.srt) : cmd.id = id} \cup ToSet(queue.own[id])
=============================================================================

--------------------------- MODULE RequestService ---------------------------
(***************************************************************************)
(* What a memory channel promises the in-order requestors connected to it, *)
(* with no queue, bus or clock: a requestor has at most one request, the   *)
(* device serves it, and only then is it answered, once.  The command bus  *)
(* serves one request at a time, and an answer may come back in the same   *)
(* step.  When one requestor has finished, everything stops.               *)
(***************************************************************************)
CONSTANT Clients

VARIABLES stage, running

vars == <<stage, running>>

Stages == {"idle", "queued", "accessed"}
TypeOK == stage \in [Clients -> Stages] /\ running \in BOOLEAN

Init == stage = [c \in Clients |-> "idle"] /\ running = TRUE

Moves(c, from, to) == stage[c] = from /\ stage' = [stage EXCEPT ![c] = to]

Request(c) == running /\ Moves(c, "idle", "queued") /\ UNCHANGED running

\* The last column access of a request.
Access(c) == running /\ Moves(c, "queued", "accessed") /\ UNCHANGED running

\* The last burst of a request, after which main may stop.
Answer(c) == running /\ Moves(c, "accessed", "idle") /\ running' \in BOOLEAN

AccessAndAnswer(c, d) ==
  /\ running
  /\ stage[c] = "queued" /\ stage[d] = "accessed"
  /\ stage' = [stage EXCEPT ![c] = "accessed", ![d] = "idle"]
  /\ UNCHANGED running

Stop == running /\ running' = FALSE /\ UNCHANGED stage

Next == \/ \E c \in Clients : Request(c) \/ Access(c) \/ Answer(c)
        \/ \E c, d \in Clients : AccessAndAnswer(c, d)
        \/ Stop

SafeSpec == Init /\ [][Next]_vars

\* While the channel runs, no requestor is starved: a request is answered.
Answered(c) == stage[c] # "idle" ~> (stage[c] = "idle" \/ ~ running)

Spec == SafeSpec /\ \A c \in Clients : Answered(c)

=============================================================================

------------------------------ MODULE Refresh ------------------------------
(***************************************************************************)
(* RefreshMachine.h in the cycle of MemoryController::step: the branch of  *)
(* step() that refreshes, and CommandScheduler::tick, which steps the      *)
(* machine.  The rest of the controller is a choice: what is at the front  *)
(* of the command queues, whether a write is sent, and whether the device  *)
(* takes the refresh command.                                              *)
(***************************************************************************)
EXTENDS Integers, SequencesExt

CONSTANTS
  NumRanks, NumQueues,  \* at least one of each
  tREFI, tRFC,          \* get_constraints; tREFI > 0
  MaxPending            \* write bursts waiting to leave at once (bound)

\* The front of a command queue's buffer for critical requestors.
Fronts == {"RD", "RDA", "WR", "WRA", "ACT_R", "ACT_W", "PRE", "nothing"}

VARIABLES
  running,   \* the program has not ended or aborted
  pending,   \* sendDataBuffer: write bursts that have not left
  machine,   \* RefreshMachine
  clockCycle \* modulo 2: every step of the loop changes something

vars == <<running, pending, machine, clockCycle>>

-----------------------------------------------------------------------------
(* RefreshMachine.                                                         *)

NewMachine == [countdown |-> tREFI, counting |-> 0, isRefreshing |-> FALSE,
               commandBuffer |-> <<>>]

\* commandGenerate: close and refresh every rank, then open again the banks
\* that wait for a column access.
CommandGenerate(fronts) ==
  FlattenSeq([r \in 1 .. NumRanks |-> <<"PREA", "REF">>])
  \o SelectSeq([q \in 1 .. NumQueues |->
                  CASE fronts[q] \in {"RD", "RDA"} -> "ACT_R"
                    [] fronts[q] \in {"WR", "WRA"} -> "ACT_W"
                    [] OTHER -> "nothing"], LAMBDA cmd : cmd # "nothing")

\* getCommand(true) aborts on an empty buffer before the other one is tried.
Aborts(fronts) == machine.countdown = 0 /\ \E q \in DOMAIN fronts : fronts[q] = "nothing"

\* step.  "globeRefreshCountdown--" is commented out.
AfterStep(m, fronts) ==
  LET due == IF m.countdown > 0 THEN m
             ELSE [m EXCEPT !.isRefreshing = TRUE, !.countdown = tREFI,
                            !.commandBuffer = @ \o CommandGenerate(fronts)]
  IN [due EXCEPT !.counting = IF @ > 0 THEN @ - 1 ELSE 0]

\* refresh, when it has no command left, and popCommand.
RefreshedAll(m) == [m EXCEPT !.isRefreshing = @ /\ m.counting > 0]
PopCommand(m) ==
  [m EXCEPT !.commandBuffer = Tail(@),
            !.counting = IF Head(m.commandBuffer) = "REF" THEN tRFC ELSE @]

\* CommandScheduler::refresh; the device takes the command or does not.
AfterRefresh(m, taken) ==
  IF m.commandBuffer = <<>> THEN RefreshedAll(m)
  ELSE IF taken THEN PopCommand(m) ELSE m

-----------------------------------------------------------------------------
(* MemoryController::step.                                                 *)

\* tick, at the end of step.
Tick == \E fronts \in [1 .. NumQueues -> Fronts] :
          /\ machine' = AfterStep(machine, fronts)
          /\ running' = ~ Aborts(fronts)
          /\ clockCycle' = (clockCycle + 1) % 2

\* No refresh: a write may be sent, and a burst of one may leave.
Schedule ==
  /\ ~ machine.isRefreshing
  /\ \E sent, left \in 0 .. 1 :
       /\ pending' = pending + sent - left
       /\ pending' \in 0 .. MaxPending
  /\ Tick

\* A refresh waits until all write bursts have left ...
WaitForData ==
  /\ machine.isRefreshing /\ pending > 0
  /\ \E left \in 0 .. 1 : pending' = pending - left
  /\ Tick

\* ... and then ends the program, whether its first command was taken or not.
RefreshAndExit ==
  /\ machine.isRefreshing /\ pending = 0
  /\ \E taken \in BOOLEAN : machine' = AfterRefresh(machine, taken)
  /\ running' = FALSE
  /\ UNCHANGED <<pending, clockCycle>>

Step == running /\ (Schedule \/ WaitForData \/ RefreshAndExit)

Init == running = TRUE /\ pending = 0 /\ machine = NewMachine /\ clockCycle = 0

Next == Step

\* main calls step() in every cycle, as long as no trace ends: for ever, with
\* traces that are long enough.
Spec == Init /\ [][Next]_vars /\ WF_vars(Step)

-----------------------------------------------------------------------------
(* Properties.                                                             *)

\* "Indicator of reaching refresh interval" (CommandScheduler.h): a program
\* that goes on for long enough reaches it.
RefreshDue == <>(machine.isRefreshing)
=============================================================================

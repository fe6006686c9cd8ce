# A verification development for the DRAM controller

The repository is a cycle-accurate simulator of a DRAM controller for real-time
systems: requestors (cores) read traces of memory requests, a memory controller turns
them into DRAM commands under a pluggable set of schedulers, and a model of a DDR3
device accepts the commands and returns data. This directory holds TLA+ modules that
model it, TLC configurations that check them on small instances, and proofs that the
TLA+ proof system checks for every value of the constants.

Contents: [the system](#the-system), [modules](#the-modules-and-the-code),
[runs](#what-the-runs-show), [bounds](#bounds), [fairness](#fairness),
[proofs](#what-is-proved), [findings](#disagreements-found), [not modelled](#what-is-not-modelled),
[plan](#plan).

## The system

What is described is the program the `Makefile` builds: `DRAM/*.cpp *.cpp` without
`main_ERAsim.cpp`, with `-DSINGLE_RANK_BANK_PRIVATIZATION`. That option sets rank 0 and
gives requestor *i* bank *i* (`AddressMapping.cpp:78-81`). `SchedulerRegister.h:76-104`
registers the request schedulers DIRECT and RR, the command generator OPEN and the
command schedulers FCFS and Round; all others are commented out. `src/README:17` runs
`system/Round/Round.ini`: one queue with a buffer per requestor, DIRECT, OPEN and Round.
`system/AMC/AMC.ini` names the other two: RR, FCFS and a command queue per bank.

One iteration of the loop in `main.cpp` is a clock cycle:

    for each requestor: Requestor::update      read the trace, send a request
    for each channel:   MemoryController::step  schedule requests, generate commands,
                                                send one command, move write data
                        MemorySystem::update    move read data, tick the device
    stop when a trace has ended

Nothing runs in parallel, yet the behaviours are those of a concurrent system: several
requestors, a command in flight for each, data bursts that travel in both directions with
counters of their own, and timers of the controller next to those of the device.

| Component (source) | State | Operations | Interacts with | Hard part | What makes it correct |
|---|---|---|---|---|---|
| Simulation loop (`main.cpp`) | clock, end flag | the cycle above, `callBack` | all | the first trace that ends stops everybody | nothing of the requestor that ended is in flight |
| Requestor (`Requestor.cpp`) | pending request, unanswered addresses, trace position | `update`, `readingTraceFile`, `sendRequest`, `returnData` | controller (`addRequest`), main (`callBack`) | answers are matched by address alone; no match aborts; 1000 cycles abort | each request answered once, by its own bursts, within 1000 cycles |
| Memory controller (`MemoryController.cpp`) | pending reads and writes, `sendDataBuffer`, unsigned `sendDataCounter` | `addRequest`, `step`, `enqueueCommand`, `sendData`, `receiveData` | all below | all counters are decremented, the front one is compared with 0 | no counter wraps, a burst leaves on time |
| Request queues, command queues (`RequestQueue.cpp`, `CommandQueue.cpp`) | buffers per requestor and shared, write queue, note of the last access | insert, look at, remove | schedulers | what is removed is what was looked at last | a request is in one place, and where its bursts say it is |
| Request scheduler DIRECT (`RequestScheduler.cpp`, `CommonScheduler/`) | row table | `requestSchedule`, `isRowHit` | queues, generator | the row table runs ahead of the bank | an access finds its row open |
| Command generator OPEN | buffer of packets | `commandGenerate` | command queues | packet addresses have 32 bits | as many bursts as the request needs |
| Command scheduler base (`CommandScheduler.cpp`) | a timer per requestor and command type | `isReady`, `isIssuable`, `sendCommand`, `tick` | command queue, device | timers of the controller and of the device disagree | no command reaches the chip too early |
| Round (`system/Round/CommandScheduler_Round.h`) | order, round, counters and flags, about 30 members | `commandSchedule` (1700 lines) | base | a round ends when two moving counters are equal | rounds end, nobody is starved or overtaken more than twice, four activates in tFAW |
| DDR3 device (`DRAM/`) | `next` cycle per node and command, history of activates, open rows and power states | `check`, `update`, `decode`, row queries | base, through `Ramulator.h` | one number per command stands for all earlier commands; a scope table that ends updates too early | accepts exactly what the tables allow; the data bus is never shared; an open bank is never told to activate |
| Memory system (`MemorySystem.cpp`) | read bursts and their counters | `receiveFromBus`, `generateData`, `update` | controller (`receiveData`) | one burst at most returns per cycle | no burst is held back |
| Address mapping, `decodeQueue` | none | bit slicing | queues, generator | three builds; levels combined by product, zeros left out; a level whose size is never set | no two banks share a queue |
| RR | slot counter, next requestor per queue | `requestSchedule` | queues, generator | the list of turns grows meanwhile; queue looked at and queue changed differ | everyone gets a slot in turn, no request is served twice |
| FCFS | none | `commandSchedule` | command queues, device | no timer of the controller, commands of critical requestors only; 42 cycles must be enough | slots do not disturb each other, critical requests are answered |
| Refresh machine (`RefreshMachine.h`) | countdown, state | `step`, `commandGenerate` | controller | its countdown is commented out | refreshed every tREFI |
| Configuration and registry (`MemoryController.cpp`, `SchedulerRegister.h`) | keys, queue maps, three flags | `readConfigFile`, `connectMemorySystem` | all | a flag no line sets holds anything | what holds of the queues holds for whatever a file leaves out |
| Statistics, stubs | | printing | | | |

`PROJECT.json` lists the hazards of this code line by line, with the properties that
watch them.

## The modules and the code

    RequestService          what a channel promises its requestors
         ^ implements (ImplementsService, proved: ChannelImplementsService; Answered)
    MemoryController        requestors, queues, data path; any schedulers
         ^ implements (proved: RoundImplementsChannel, SlotsImplementChannel)
    RoundSystem             = MemoryController + DIRECT + RoundScheduler + DDR3
    SlotSystem              = MemoryController + RR + FCFS + DDR3
    RoundHistory            RoundSystem with history variables, and its properties
    SlotHistory             SlotSystem with history variables, and its properties
    RoundScheduler          the Round scheduler, operators on a record of its members
    DDR3                    timing tables, device tree, rows and power, on records
    DDR3Device              DDR3 under any controller that asks it before it sends
    DDR3Speeds              speed grades, organisations, DDR3::init_speed
    FrontEnd                = Configuration + Addressing + Queues + DIRECT, RR, OPEN
                              and the order of FCFS and Round, for any file
    Configuration           readConfigFile, the registry
    Addressing              location of an address, queue of a location
    Queues                  the two kinds of queue, operators on records
    Refresh                 RefreshMachine in the cycle of the controller

**MemoryController** has a variable for each container of the code, with the code's name:
`pendingRequest` and `corePendingData` of a requestor, `requestQueue`, `commandQueue`,
`pendingReadRequest`, `pendingWriteRequest`, `sendDataBuffer` with `sendDataCounter`,
`pendingReadData` with `dataCycles`. `turn` says which call of main's loop is next, so an action is one call:
`UpdateSend`, `UpdateWait`, `UpdateBlocked`, `UpdateBlank` and `UpdateEnd` are the ways
through `Requestor::update`; `StepCommand` and `StepNoCommand` are
`MemoryController::step` when the scheduler returns a command and when it returns NULL;
`MemoryUpdate` is `MemorySystem::update` with main's test for the end. What the trace
says is chosen line by line among `TraceLines` and blank lines; a trace of any length up
to `TraceLength[id]` may end after any line. The two schedulers, virtual functions in the
code, are left open: in a `Step` the request scheduler turns the oldest request of *any*
requestors into commands, as row hits or misses, and the command scheduler sends the head
of *any* buffer, or nothing. What holds of this module holds under every pair of
schedulers that keep to that, DIRECT with Round and RR with FCFS among them.

Abstractions of data: an address is a number, with the row `RowOf` gives it; the arrival
time of a request is kept as the cycles left until it, since the code computes it from
the previous answer; the request lists of the controller, which all requestors share
but which are only searched for one requestor's entries, are one list per requestor.
The unsigned counters wrap (`Decrement`), and a packet's address is cut to `AddressSpan`.

**DDR3** keeps the cycles *left* until a command is allowed where the code keeps the clock
cycle `next` from which it is: `DeviceTick` is the clock. The tables are sets of
`<<from, to, cycles>>`, entered as in `DDR3::init_timing`, for all 13 commands and for the levels
channel, rank, sibling rank and bank; `Scope` has the values the
12 initialisers give 13 commands, and `ReachesRank` and `ReachesBank` say where `check` and
`update` therefore end. `RankPrereq`, `BankPrereq` and `Decode` are the prerequisites of `DDR3.cpp` as
`DRAM::decode` walks them, `UpdateState` the transitions of open rows and power states as far as the
scope lets them reach. Of the queue `prev` of a rank the model keeps the ages of the last three activates of a kind: when the
next is pushed, the third of them is the oldest and opens the window. `CommandTiming` has the cases of
`Ramulator::command_timing`, fall-throughs included. **DDR3Device** adds what a chip would
see on its pins, and the row it would have open, as history variables: `since` per command, and sets of records for
the activates of the window and the bursts of the bus. **DDR3Speeds** has the speed
and organisation tables of `DDR3.h` and what `init_speed` adds; the assumption `DefaultSpeed` says that
the numbers the other modules use for the default device, DDR3-1600H of 2 Gbit and width 8, are its.

**RoundScheduler** is `CommandScheduler_Round::commandSchedule`. The code is written twice,
for reads and for writes, and repeats its searches with flags `jump_1` ... `jump_7` to leave
nested loops; here each rule appears once, `roundType` says for which type, and a search is
a set or a fold over `Order`. Where the two copies differ (the absolute value in one
branch, `blockACT` in another, precharges in write rounds), the difference is kept.
`FreshScheduler` is a set of initial values, because several members are set by no
constructor: `FreshInts` and `FreshBools` are what they may hold.

**RoundSystem** composes: it has the row table of the request scheduler
(`rowTable`, the code's `bankTable`) and the timers of `CommandScheduler.cpp`. `Hits` and
`RowTableAfter` are DIRECT, which schedules every request at once; `RoundStep` is `MemoryController!StepCommand` for the requestor the
scheduler names, with the device's answer, the scheduler's new members and the timers.
**RoundHistory** adds variables that only properties read: commands and rows at the chip,
how often a waiting requestor was overtaken, how long it has waited.

**SlotSystem** is the channel with RR and FCFS. `Places` are the turns of `requestorOrder`
RR looks at when a slot begins, `Chosen` the requestor that gets it, `TurnAfter` and
`SlotCounterAfter` what RR keeps for the next; `Issuable` are the queues whose command the
device accepts, of which FCFS takes the one with the lowest index. `SlotUpdate` is
`Requestor::update` with the order `RequestQueue::insertRequest` keeps. AMC.ini also names
the command generator CLOSE, which is not built; the module uses OPEN, which is.
**SlotHistory** is to it as RoundHistory is to RoundSystem.

**FrontEnd** is the way of a request from `addRequest` to the command bus for any configuration
file, where MemoryController fixes a buffer per requestor. `config` is what main, the file and
the build say; `Init` makes the queues as `connectMemorySystem` does. `Location` is
`AddressMapping::addressMapping` in the Makefile's three builds, `DecodeQueue` and `QueueNumber`
are the controller's. `Direct` and `RoundRobin` are the two `requestSchedule` with both of
their branches: buffers per requestor, or one for all, with `scheduleFR`; `work` is what such a call
changes. `Serve` keeps the two indices of RR apart, since the code does. The data path is a
choice: any command the command scheduler looks at may leave, and the
requestor may go on `Turnaround` cycles after its last access. `Round` collects from all command queues and, as the
code does, removes from queue 0; if the buffer there is empty, what the program does is undefined, and the model ends in the
value `Undefined` of `turn`. **Queues** keeps the note of the last access
that `removeRequest` relies on. In **Configuration** a file is a sequence of lines; `ReadConfigFile`
is a set, because the constructor leaves three flags unset and a file may leave their lines
out (`MEDUSA.ini` does).

**Refresh** is `RefreshMachine` with the branch of `MemoryController::step` that asks it. The countdown
does not move, as in the code, where its decrement is commented out.

**RequestService** is the abstract specification: a requestor is idle, queued or accessed; the
mapping is `Stage`.

Modules `MC...` hold constants for TLC, modules `..._proofs` theorems.
`Lists_proofs` has what the others need about numbers, sequences and folds. `MemoryController_proofs` is about the channel,
`RoundHistory_proofs` and `SlotHistory_proofs` build on it for the two systems; `DDR3_proofs` has the lemmas about the
operators of the device, used by `DDR3Device_proofs` and, together with `RoundHistory_proofs`, by `RoundTiming_proofs`.
`FrontEnd_proofs` is about the queues of every configuration.
Definitions marked `Mutant` are the code with a plausible bug; `PROJECT.json` names the
property that notices each of them. They are used nowhere else.

## What the runs show

| Run | Question | Outcome |
|---|---|---|
| `channel` (MCMemoryController) | Two requestors, three lines each, requests of two bursts, two addresses, any schedulers: do the counters work, is every unanswered request where its bursts say, does the channel implement RequestService, is nothing left behind by the requestor that ended? | holds |
| `device` (MCDDR3Device) | Six workloads: open-page commands to two banks, the same with auto-precharge, activates of three banks that fill the four-activate window, two ranks, refreshes, power-down. Does the device accept exactly what the tables allow, do bursts keep apart, does its picture of the open rows never let an open bank be activated? | holds |
| `round` (MCRoundHistory) | The whole system, DDR3-1600H, two requestors, three lines, two rows: rounds end, nobody is overtaken more than twice, no answer takes 1000 cycles, commands keep all distances but one at the chip, accesses find their rows open | holds |
| `round_many` (MCRoundHistory, MCRoundMany.cfg) | Five requestors, two of them with a second line: is every request answered while the program runs, and are activates of *both* kinds kept to four in tFAW, though the device counts the kinds apart? | holds |
| `slots` (MCSlotHistory) | RR and FCFS with DDR3-1600H, two critical requestors and one that is not: does RR stay within its list and serve everyone in turn, is a slot of 42 cycles long enough for *all* distances at the chip, do commands leave at the same place of each slot whatever the others do, are critical requests answered, and within a bound? | holds |
| `frontend` (MCFrontEnd) | Six kinds of file in the three builds, three requestors: is a request in one place at a time, does every access find its row open, has a bank its own queue, is a requestor overtaken at most once by each other, is every request turned into commands? | holds |
| `round_recovery` (MCRoundHistory, MCRoundRecovery.cfg) | Is a written row closed only after the write recovery time? | violated |
| `round_order` (MCRoundHistory, MCRoundOrder.cfg) | Is every requestor served, those whose id is not in `Order` too? | violated |
| `round_fresh` (MCRoundHistory, MCRoundFresh.cfg) | Is the first request answered in time whatever the unset members hold? | violated |
| `frontend_rr` (MCFrontEnd, MCFrontEndRR.cfg) | Is a request in one place at a time under RR with a request queue per bank? | violated |
| `frontend_round` (MCFrontEnd, MCFrontEndRound.cfg) | Does Round, with a command queue per bank, remove the command it sends? | violated |
| `refresh` (MCRefresh) | Is a refresh ever due? | violated |

The properties, with the code they are about, are stated above their definitions.

Six positive results are less obvious than they look. `CommandsInTime`: the device ignores the
bank of a PRE and the controller's timer does not know the PRE after an access, yet all
other distances are kept, because an open page is only closed for a later request, and the
answer to the one before takes longer than tRTP and tRAS together with the timer after the
activate. `FourActivatesInWindow`: neither the device nor the timers count activates of both
kinds; only the turn of the bus between two rounds keeps them apart. `SlotCommandsInTime`: FCFS asks
no timer of the controller and the device does not check a PRE, so that only the length of the slot
keeps a PRE from its bank; one cycle less and tWR is broken (mutant `SlotCounterShort`).
`OneBankPerQueue`: `decodeQueue` multiplies levels and leaves out zeros, yet no two banks share a
queue, because the product of the levels above is a rank alone (bank group and sub-array of
a command are 0) and is then scaled by the number of banks; the queue of a *location* whose bank group is not
0 would not have this. `OpenNeverActivated`: PRE and WRA never close a bank
in the device's picture and SRX never wakes a rank, since their scope ends the update too early, and the picture
drifts from the chip; but it errs on one side only, taking for open what is closed.
`OvertakenOnceByEach`: `scheduleFR` lets a hit pass older requests without a limit; the limit is that a
requestor waits for its answer, and that the cycles until it may go on again are at least as many as there
are others.

`SlotLatency` is nearly tight: with a third critical requestor and three lines each a request takes
155 cycles of the 156 it allows (checked once, too slow to keep). A requestor that is not critical
never gets an answer, since FCFS never asks for its commands; `CriticalAnswered` says that it
does not hold up the others.

## Bounds

- `TraceLength` bounds the trace of each requestor. The controller keeps no history beyond its queues, the
  row table and the scheduler, so two lines suffice for a hit or a miss after any
  request, and three for a requestor to be overtaken in two rounds. It must be a bound:
  while nobody asks for anything, the scheduler's `counter` grows with every cycle
  (`BypassReset`), so the state space of an endless run is infinite.
- `Delays`: `{0, 1}` for the channel puts requests a cycle apart, and with them
  bursts of reads and writes of two requestors in every relative position that one command per
  cycle allows. `{0}` for `round` and `round_many`: after the first request the arrivals differ
  anyway, because answers do, and a requestor may compute over blank lines.
  `{0, 1}` for `slots`: requestors join the list of turns before and after a slot
  has begun.
- `tWL`, `tRL`, `tBus` are 1, 2, 1 for the channel: enough for four bursts under way. The proofs
  cover all others. The device run uses a speed grade in miniature that keeps the order of
  its parameters (the largest state space TLC finishes), and a workload per group of commands rather than all
  13 at once: each table entry relates two commands, and the workloads that have both have as many banks and
  ranks as the entry needs. The runs of the whole system use DDR3-1600H itself.
- `frontend`: four banks, two rows and two columns stand for the organisation; one rank, or two or
  four where ranks matter. The number of sub-arrays is 1 or 3, as `memTable` may happen to hold. One
  address is beyond `AddressSpan` and is cut. `timeSlot` is 6: a slot is longer than the turnaround, and a
  requestor can join the list before, in and after one. `Turnaround = 2` is the least the assumption allows with three
  requestors; the code's is above 8 cycles for every grade.
- `tREFI = 3` for `refresh`: the counterexample does not depend on it.
- `BurstsPerRequest` is 2 in `channel` (a request of two bus widths) and 1 in the others,
  as in the configurations (64 bytes on a bus of 64).
- `timeSlot = 42` as in the code, `Critical = {0, 1}` with three requestors stands for the
  ids 0 to 7 of main.
- `MaxLatency` stops the count of cycles a request has waited, above the limit the
  properties compare it with.
- `MaxAge` stops `since` at a value no distance exceeds, which an assumption states.
- `FreshInts = {0}`, `FreshBools = {FALSE}` in the passing runs of the whole system: the
  members no constructor sets happen to be zero. `round_fresh` shows what happens when they are not.
- `NumOrder = 8` as in the code; `round_order` uses 1 with two requestors, which stands for
  8 with nine.

## Fairness

Only main's loop is fair: it goes on to its next call while it runs. That is what a sequential
program does. In `RoundHistory` and `SlotHistory` this is `WF_turn(LoopStep)`; the action only names the
step of the loop that is next, because in every state in which the loop runs some step is possible:
the runs check deadlock throughout. `FrontEnd` says `[]<>(turn = Undefined) \/ []<><<Next>>_vars`, which is weak fairness of `Next`, since a step is possible
in every state but those where what the program does is undefined; `Refresh` has `WF_vars(Step)`. Requests are not
fair, a requestor may end its trace at any line or compute for ever, and nothing is assumed of the scheduler or the device:
`EveryRequestAnswered` and `CriticalAnswered` follow from their counters. `RequestsScheduled` is about the
request schedulers alone and does not ask that any command leaves.

## What is proved

The proofs hold for every number of requestors, every latency and every trace, from the assumptions on the constants:
`ConstantsAssumption`, `NullAssumption`, `RoundAssumption`, `SlotAssumption` and `DeviceAssumption` say of what kind
they are and how the modules share them; `HistoryAssumption` is that `since` counts as far as the distances it is compared with.
`SpeedAssumption` is the only one about numbers: three inequalities between latencies of the device
(nCWL <= nCL + nBL, nBL <= nCCD + 2, nRTP <= nCL + nBL). They hold for every speed grade of `DDR3.h`, which `GradesAssumption` of
`DDR3Speeds` has TLC evaluate over the whole table. Some conditions are hypotheses of the theorems that need them and not assumptions; those of `FrontEnd_proofs` are named there. `NoAddressCut`: no address of a trace exceeds
an unsigned int. `SlotLongEnough`: a slot of RR holds one access of one burst, nRP + nRCD + nCWL + nBL + nWR and so on; it is what the comment
at `CommonScheduler/RequestScheduler_RR.h:34-35` asks of the number in the code. The 42 cycles of the code are this sum exactly for DDR3-1600H, for which TLC
evaluates it (`SlotFits`), while 1600J would need 44.

`MemoryController_proofs`: `TypeCorrect`, `WriteBurstsLeaveInTime` and `ReadBurstsReturnInTime`. The
inductive invariant is `TypeOK /\ WriteCountersOrdered /\ ReadCountersOrdered`. The parts
need each other: `TypeOK` asks the send counters to stay within an unsigned int, so that no
0 is ever decremented, and this holds because at most the front counter is 0, which
is to say that they strictly increase; the counters strictly increase because each new burst
starts from tWL + tBus, which none behind it in time has kept, and that needs every counter to be
below it at the start of a step. Reads are the same with one difference: their
counters are set in `step` and counted down in `update`, so a fresh one may stand at
tRL + tBus in between, and the invariant says when. There is one lemma per action and
lemmas about the operators on sequences (`DecrementAll`, `Countdown`, `AfterBurst`,
`Without`, `CommandGenerate`).

In the same module, `BurstsAreAccounted` and `EndedRequestorsDrain`. `BurstsAccounted` is not inductive: it says
how many bursts are left of a request, not that the commands still queued are its own, that the last of them is
a column access, or that a burst carries the address the answer is looked for by. The strengthening
`Accounted(id, View(id))` is stated per requestor, on a `View` of what the lists hold of it: it is idle and has nothing anywhere, or it has
one request, which is `Queued`, all of it, or `Commanded`, with one column access or burst of its id, direction
and address for each burst it waits for, and a column access as the last command. A step touches a view in
four ways, each with a lemma: the request becomes commands, its first command is sent, one of its bursts leaves, or another
requestor does one of these (`OtherAccounted`: only the positions of one's own bursts may move). Lemmas on `Positions`
count the elements of a sequence that are in a set. `PendingFree` says that a requestor with an unsent
request has no unanswered one, and `DoneInv` that who has ended its trace asks for nothing again. The theorems assume `NoAddressCut`, that no
address of a trace exceeds an unsigned int: with one that does, a burst would look for a request
of another address, and its requestor would wait for ever.

Its third part is `ChannelImplementsService`: every step of the channel is a request, a last column access, an answer, the
last two together, the end, or a stutter of `RequestService`. The stages are those of `Stands` (with every request
accounted for, a requestor with a command left has a column access left); at most one request is answered in a step
(`AtMostOneAnswer`), and not that of the requestor whose command is sent in it (`SenderWaits`: the burst just sent is
still on its way). `RoundImplementsService`, `SlotsImplementService`, `RoundBurstsAreAccounted` and `SlotBurstsAreAccounted` say
the same of the two systems.

`RoundHistory_proofs`: `RoundImplementsChannel`, every behaviour of the channel with the Round
scheduler is one of `MemoryController` (a step of the composition is a step of the channel or leaves
its variables alone), with the two counter theorems as corollaries, and `RowsOpenedAlways`. `RowsOpened` is about the command that
leaves; what is inductive is `RowsFollow`, about all that wait: each command of a buffer suits the row its
predecessors leave open, and the last leaves the row that the row table holds, since that is where the next request of the
requestor will be told to begin.

`SlotHistory_proofs`: `SlotsImplementChannel` in the same way, with the counter theorems, and
`TurnsStayInOrder`, for which `TurnsInOrder` is inductive together with the channel's `TypeOK`: a
requestor joins the list in the step in which its first request joins its queue, a list that grows at its
end leaves the index below its length, and the turn is taken modulo the length. That the search
of RR ends at a place of the list is the least number principle, from the library's `WFMin`.
`ServedInTurnAlways` needs `OvertakenOnce`: whoever has had a slot since *id* asked for its own is behind *id* in the turn that
starts at the index (`Distance`, the number of turns until a place of the list comes). A requestor that joins the list is behind all,
a slot moves the index just past the one who gets it, which puts it behind everybody, and whoever is nearer than the one chosen
was not waiting. `SlotCommandsInTimeAlways` and `SlotsIsolatedAlways` follow from one invariant, `SlotInv`, which says what the device may
still refuse at each cycle of a slot. From above: a PRE is accepted at once, an activate nRP and an access nRP + nRCD cycles after the start of
the slot at the latest, or of the next slot where nobody has commands (`ReadyAt`), since no command adds more to the device's numbers than the slot has
left (`ActivateAdds`, `AccessAdds`). From below: the distance of its own PRE and activate, which `DeviceWaited` shows the device to keep. So
each command leaves in exactly one cycle, the buffers are empty when the slot ends, and `RowsRecovered`, of which the device knows nothing,
lets the PRE of the next slot come in time. Every part of `SlotLongEnough` is used.
`SlotLatencyAlways`, the bound on the time of a critical request, puts these together. `LatencyInv` says how long a
requestor may have waited by where its request stands. In the queue (`InLine`) it has waited for the rest of one slot and a slot of each other that has
overtaken it; `OvertakenOnce` keeps these apart from the requestor itself, so that there are fewer than requestors (`LineIsBounded`). With commands in its buffer
(`OnTurn`) the slot is its own and `SlotInv` gives the cycles they leave in. After that, what is left of the counter of its burst
(`Writing`, `Reading`) plus the time already waited stays within the bound, for the counters lose one in each cycle and a burst leaves when its counter
is at its end, which the channel's `WriteCountersOrdered` and `ReadCountersOrdered` say. A request is nowhere else until it is answered (`RequestIsPlaced`, from
`BurstsAccounted`, hence `NoAddressCut`). The history variable `latency` stops counting at `MaxLatency`; the theorem holds for every value of it,
those above the bound included, so that the bound does not come from there.

`DDR3Device_proofs`, about the device alone, for every grade, any ranks and banks and every sequence of commands:

- `AcceptsExactlyAlways`, with the inductive invariant `Exact`. The device keeps one number per node and command where the tables speak of pairs of commands. `Exact` says
  what that number is: it is at most *n* exactly when, *n* cycles from now, all distances to the commands already sent will have passed,
  the one to siblings of a rank and the window of four activates included. The three ages of activates the model
  keeps for `prev` are tied to the activates of the window by counting them (`Linked`, `WindowEnds`, with the
  library's facts on cardinality).
- `OpenNeverActivatedAlways`, with `PictureSafe`: a bank that is open in the chip is open, with that row, in the device's picture.
- `BusNeverSharedAlways`, with `BusSpaced`: while a burst that is still to come, or on the bus, could meet that of an access sent now,
  the number of the channel or of the rank holds this access back. It is here that two of the three inequalities are needed.

`RoundTiming_proofs`: `CommandsInTimeAlways`, the composition of the two: under Round every command keeps the distances of `DDR3.cpp` at the
chip, those of a PRE included that the device does not check. `TimingInv` has a part for each reason why this is so. `DeviceKeeps`: the
numbers of the device cover the distances to what was sent. `WaitersReady`: who waits in `tempqueue` has a command there whose timer has run out, which is all the
proof needs to know of the 1700 lines of `commandSchedule` (lemma by lemma: whatever they plan, they move no
requestor into `tempqueue` but those that `isReady` names). For a PRE, `RowsKeptOpen`: the timer started by an activate covers nRAS, a step of the loop ahead of
the device's clock or not (`Ahead`). `ReadsReturn` and `PrechargesWait`: a PRE is the first command of a
request, the requestor is in order, so that the data of its last read have come back, and a burst of which `dataCycles` cycles are left was
read so long ago that nRTP will have passed when it returns. The invariant is inductive given the channel's (`TypeOK`,
`ReadCountersOrdered`, `BurstsAccounted`, which is why `NoAddressCut` is needed) and `RowsFollow`. WR to PRE is left out of the property, since it is not kept (finding 1).

`RoundWillEndAlways` is about the scheduler alone. A round ends in the one cycle in which `counter` is `swCAS`, and everything that moves either of them, the
passes over `Order` that consider commands, the extra cycles for a command that is late, the next round and what is sent, must not let
`counter` go past. The inductive invariant `RoundOK` is `counter <= swCAS` with the types of the members; within a call the stronger `counter < swCAS`
holds when the cycle is counted (`PlannedAhead`), since what was considered makes the round longer (`Planning`), a round that was chosen for a command in `tempqueue` will
find that command in its pass over `Order` (`Wanted`, `PassPlans`), and one chosen for none is given a cycle (`BypassReset`). The passes are folds, of which the
installed provers know only the definition, a CHOOSE of a recursive function on sets of positions: that there is one (`FoldRuns`) and that it goes
through the list step by step (`FoldSteps`) is shown in `Lists_proofs` by the least number principle, once, for any fold that stays within a set. The hypotheses of the theorem are
what findings 2 and 3 say may go wrong: members that the constructor leaves unset hold no negative number and no flag that is set, and `Order` has a
place for every requestor. An `Order` that is too short, for instance, lets a round be chosen for a command that its pass does not find.

`FrontEnd_proofs`: four invariants of `FrontEnd`, for any number of requestors and with queues that are shared or have a buffer per requestor: any number of request queues
under DIRECT and one under RR, any number of command queues under FCFS and one under Round. What a configuration has to satisfy is said by four predicates of
`FrontEnd`, hypotheses of the theorems that need them; TLC evaluates all four for the configurations of the run `frontend` (`MCFits`). `Fits`: the locations of the requests
lie inside the memory organisation, since otherwise `decodeQueue` indexes a queue that is not there. `OneQueueForRR`: RR has one request queue
(finding 4). `OneQueueForRound`: Round has one command queue (finding 6), from which it removes what it sends (`RoundSends`). `SharedBanks`: the commands for a bank have one buffer. `FrontEndAssumption` asks that `Turnaround` is at least the number of
other requestors.

- `FrontEndInvariant` and `OnePlaceAlways`. All request buffers and all command buffers are seen as lists; the inductive `OnTheWay` says that every pending request
  is in one request list, once and as it was sent, or has commands in the lists their locations ask for, none without a column access of the same requestor behind it in its list,
  and that RR's turn is a place of its queue's order. `Types` goes with it. A request that is scheduled is the same change of the lists (`MoveTo`) wherever it happens:
  in DIRECT's loop over the queues and over the order of a queue, by `scheduleFR`, or in RR, whose modulo search is a minimum of
  distances. So one lemma (`RequestMoved`) serves them all, and whatever is `Closed` under it is kept by a whole call of `requestSchedule`. That `removeRequest`, which goes by
  the note of the last access, takes out the request that was served and not its neighbour, is `GeneralTaken` and `OwnTaken`.
- `OneBankPerQueueAlways`. The products of `decodeQueue` are a fold over the digits of the queue map; with a queue per bank it is rank times the number of banks plus
  the bank, and these are digits (`Digits`), because bank group and sub-array of a command are 0.
- `OvertakenOnceByEachAlways`. Nothing in `scheduleFR` counts, so the invariant has to find what bounds it: a requestor that was overtaken waits in a shared buffer (`Late`), and
  for each cycle in which it was overtaken some other requestor was served, and *that one* has commands in the queues still, or has been resting for too short a time to be back (`Recent`). These are different
  requestors, as long as a requestor rests for as many cycles as there are others, which is where the assumption on `Turnaround` is used.
- `AccessesFindRowAlways`. The invariant `Rowed` is about all commands that wait: each column access finds its row after what is before it in its buffer, and the row table of
  DIRECT says of each bank what *all* the commands that wait leave open. RR keeps no table and generates a PRE and an activate every time. `SharedBanks` is what makes the order in one buffer the order of a bank
  (`HomeByPlace`, for which `decodeQueue` must not depend on row and column); without it the property is false, see "What is not modelled".

What stays with TLC:

- `OvertakenTwice`, `LatencyBounded` and `FourActivatesInWindow`: how many accesses and activates fit in the cycles of a round depends on the numbers of the speed grade and
  of requestors; they are checked for the ones the runs name, and for an id that `Order` has no place for (finding 2) neither the first nor the second bound holds.
- the liveness properties `EveryRequestAnswered`, `CriticalAnswered` and `RequestsScheduled`: the proof system handles neither liveness under
  fairness nor ENABLED.

No module uses a RECURSIVE operator.

## Disagreements found

1. `DRAM/DDR3.h:54` and `Ramulator.h:204-208`: the scope table is an entry short, so that a PRE is checked at rank level
   only and the device keeps neither tRAS nor tRTP nor the write recovery time; and two cases of `command_timing` lack a `break` and fall
   through to 1. Together they let a written row be precharged before tWR is over (`round_recovery`); the other distances before
   a PRE are kept by what surrounds the device (`CommandsInTime`).
2. `CommandScheduler_Round.h:84`: `Order` holds the ids 0 to 7, while `src/README:17` runs 16
   requestors; the others are never served (`round_order`).
3. `CommandScheduler_Round.h:74`: `swCAS` is set from `tCCD` before that is set; the first round may last as long
   as it says (`round_fresh`).
4. `CommonScheduler/RequestScheduler_RR.h:74`: RR looks at queue `queueIndex` and removes from queue
   `index`, the number of its pass. With a request queue per bank the request it has served stays in its queue and is
   served again (`frontend_rr`). With one queue, as in AMC.ini, the two are the same.
5. `RefreshMachine.h:86`: the countdown is commented out, so that no refresh is ever due (`refresh`), while
   `CommandScheduler.h:31` and `MemoryController.cpp:221` speak of reaching the interval.
6. `system/Round/CommandScheduler_Round.h:1281` and every later send: Round looks into all command queues and removes from
   queue 0. With a command queue per bank the command of a requestor of another bank is erased from an empty vector, which is
   undefined, and stays where it is, though `MemoryController::step` deletes it (`frontend_round`). With one queue, as in
   `Round.ini`, which `src/README:17` runs, it is the right one.

## What is not modelled

- Main's cycle limit (`-c`; the README uses 0, no limit) and several channels, which share nothing
  but the requestors.
- Out-of-order requestors: main creates in-order ones.
- What follows a refresh that is due: `Refresh` has the branch, but as built nothing reaches it, and what its
  last step does is to end the program. No property is about it: what could be said would hold of nothing.
- Round with several command queues, beyond its first command: what the program does after finding 6 is undefined.
- A buffer shared by critical and other requestors under DIRECT: FCFS never sends the commands of the
  others, though the row table already counts on them, so that `AccessesFindRow` would not hold for critical requests after
  them (`SharedBanks` excludes it). Main makes the ids 0 to 7 critical; the layouts with a shared buffer keep to those.
- Schedulers that are not built. `SchedulerRegister.h` has them commented out, and they are written against
  an activate packet type that the code no longer has. A file that names one aborts when it is read, which `Starts`
  says.
- DDR4: main's construction of it is commented out, so that `-G DDR4` leaves no memory system, and `Ramulator.h` does
  not compile for its speed entries.
- Posted column accesses of `Ramulator.h` and `MemorySystem.cpp`: only PipeCAS, not built, asks for them.
- Contents of memory (the data array is never written), statistics, printing, option parsing.

## Plan

Done: the channel with its abstract service, the device with all its commands, the Round and the RR/FCFS systems with
histories, the queues, mapping and files of every configuration, the refresh machine, and the theorems above.

What would come next:

1. FrontEnd composed with the device, to replace `Turnaround` by the latency of an access.
2. The refresh branch with its countdown in place, once the code has one: does the controller answer
   the reads that are under way, are the banks it opens again those the commands expect.

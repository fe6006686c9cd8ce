----------------------------- MODULE DDR3Device -----------------------------
(***************************************************************************)
(* The device of module DDR3 under any controller that asks it before it   *)
(* sends: in every cycle, at most one command that passes CommandCheck.    *)
(* The history variables since, window, bus and chip record what a DDR3    *)
(* chip would see on its pins, and which row it would have open.           *)
(***************************************************************************)
EXTENDS DDR3

CONSTANTS
  Workloads,  \* what a controller may use: commands, ranks, banks and rows
  NoRow

ASSUME DeviceAssumption ==
  \A w \in Workloads : /\ w.commands \subseteq Commands
                       /\ w.ranks \subseteq Ranks /\ w.banks \subseteq Banks
                       /\ NoRow \notin w.rows

VARIABLES
  workload,  \* one of them; never changes
  dev,       \* the device: its waits
  state,     \* the device: what it knows to be open
  sent,      \* a command has been sent in this cycle
  since,     \* since[c, p]: cycles since command c was last sent to place p
  window,    \* the activates of the last nFAW cycles, with their ranks and ages
  bus,       \* the accesses whose bursts are not over on the data bus, with their ages
  chip       \* the row a bank of the chip has open

vars == <<workload, dev, state, sent, since, window, bus, chip>>

Latency(cmd) == IF cmd \in Reads THEN Speed.nCL ELSE Speed.nCWL

Tables == ChannelTiming \cup RankTiming \cup SiblingTiming \cup BankTiming

\* After this many cycles no table asks for a command any more, and since
\* stops counting.
Forgotten == [c \in Commands |-> Max({0} \cup {e[3] : e \in {x \in Tables : x[1] = c}})]

\* The first cycle of an access's burst, relative to now.
Start(access) == Latency(access.cmd) - access.age

\* The records of a history one cycle later.
Aged(history) == {[x EXCEPT !.age = @ + 1] : x \in history}

Places == workload.ranks \X workload.banks
InRank(r) == {p \in Places : p[1] = r}

\* The banks a command is for: one, or all of the rank.
For(cmd, r, b) ==
  IF cmd \in OpenPage \cup Accesses THEN {<<r, b>>} ELSE InRank(r)

Init ==
  /\ workload \in Workloads
  /\ dev = InitDevice(workload.ranks, workload.banks)
  /\ state = InitState(workload.ranks, workload.banks)
  /\ sent = FALSE
  /\ since = [x \in workload.commands \X Places |-> Forgotten[x[1]]]
  /\ window = {}
  /\ bus = {}
  /\ chip = [p \in Places |-> NoRow]

\* A controller sends a command the device accepts: receiveFromBus.
Send(cmd, r, b, row) ==
  /\ ~ sent /\ CommandCheck(dev, cmd, r, b)
  /\ dev' = DeviceUpdate(dev, cmd, r, b)
  /\ state' = UpdateState(state, cmd, r, b, row)
  /\ sent' = TRUE
  /\ since' = [x \in DOMAIN since |->
                 IF x[1] = cmd /\ x[2] \in For(cmd, r, b) THEN 0 ELSE since[x]]
  /\ window' = IF cmd \in Activates
               THEN window \cup {[kind |-> cmd, rank |-> r, age |-> 0]} ELSE window
  /\ bus' = IF cmd \in Accesses THEN bus \cup {[cmd |-> cmd, age |-> 0]} ELSE bus
  /\ chip' = [p \in Places |->
                CASE cmd \in Activates /\ p \in For(cmd, r, b) -> row
                  [] cmd \in {"PRE", "PREA", "RDA", "WRA"} /\ p \in For(cmd, r, b) -> NoRow
                  [] OTHER -> chip[p]]
  /\ UNCHANGED workload

\* The next clock cycle.
Clock ==
  /\ dev' = DeviceTick(dev)
  /\ sent' = FALSE
  /\ since' = [x \in DOMAIN since |-> Min({Forgotten[x[1]], since[x] + 1})]
  /\ window' = {act \in Aged(window) : act.age < Speed.nFAW}
  /\ bus' = {access \in Aged(bus) : Start(access) > -Speed.nBL}
  /\ UNCHANGED <<workload, state, chip>>

Next == \/ Clock
        \/ \E cmd \in workload.commands, p \in Places, row \in workload.rows :
             Send(cmd, p[1], p[2], row)

Spec == Init /\ [][Next]_vars

-----------------------------------------------------------------------------
(* Properties.                                                             *)

\* At most four activates of one kind in nFAW cycles, in a rank.
WindowOpen(r) ==
  \A a \in Activates :
    Cardinality({x \in window : x.kind = a /\ x.rank = r}) < 4

\* check() gets to every level that has something to say about cmd.
FullyChecked(cmd) ==
  /\ ReachesRank(cmd) \/ \A e \in RankTiming \cup SiblingTiming : e[2] # cmd
  /\ ReachesBank(cmd) \/ \A e \in BankTiming : e[2] # cmd

\* The device keeps one number per node and command, raised as commands come.
\* With it, it accepts a command that is fully checked exactly when every
\* distance the tables ask for, to every earlier command of its bank, its rank
\* and the other ranks, has passed, and no kind of activate has filled the nFAW
\* window of its rank: nothing is accepted too early, and nothing is held up
\* that need not be.
AcceptsExactly ==
  \A cmd \in {c \in workload.commands : FullyChecked(c)}, p \in Places :
    CommandCheck(dev, cmd, p[1], p[2]) <=>
      /\ Kept(ChannelTiming, since, cmd, Places)
      /\ Kept(RankTiming, since, cmd, InRank(p[1]))
      /\ Kept(SiblingTiming, since, cmd, Places \ InRank(p[1]))
      /\ Kept(BankTiming, since, cmd, {p})
      /\ cmd \in Activates => WindowOpen(p[1])

\* No two bursts are ever on the data bus at once, although the device only
\* spaces commands, reads and writes have different latencies, and the ranks
\* share the bus.
BusNeverShared ==
  \A x, y \in bus : x # y => \/ Start(x) >= Start(y) + Speed.nBL
                             \/ Start(y) >= Start(x) + Speed.nBL

\* A DDR3 chip must not be told to activate a bank that has a row open.  PRE,
\* WRA and SRX end before they reach what they change, and the device's picture
\* of the chip drifts from it; but it only ever takes too much for open, and
\* decode() never asks for such an activate.
OpenNeverActivated ==
  \A p \in Places, row \in workload.rows :
    chip[p] # NoRow =>
      /\ CheckRowHit(state, "RD", p, chip[p])
      /\ \A cmd \in {"RD", "WR"} : Decode(state, cmd, p[1], p[2], row) \notin Activates
=============================================================================

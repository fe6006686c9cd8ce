-------------------------------- MODULE DDR3 --------------------------------
(***************************************************************************)
(* The DDR3 device of DRAM/: the timing tables of DDR3.cpp, the tree of    *)
(* DRAM.h that applies them to the commands of a channel's ranks and       *)
(* banks, the open rows and the power state it keeps, and the timing the   *)
(* controller asks of it through Ramulator.h.                              *)
(*                                                                         *)
(* The code keeps, per node of the tree and command, the clock cycle       *)
(* `next' from which the command is allowed.  Here a node keeps how many   *)
(* cycles are left until then, and DeviceTick takes one off: no clock is needed. *)
(***************************************************************************)
EXTENDS Integers, SequencesExt

CONSTANTS
  Speed,     \* speed_entry: the cycles nBL, nCCD, nCL, ... of a speed grade
  Ranks,     \* ranks of the channel (option -R)
  Banks,     \* banks of a rank
  Commands   \* the commands that are used

SpeedFields == {"nBL", "nCCD", "nRTRS", "nCL", "nRCD", "nRP", "nCWL", "nRAS",
                "nRC", "nRTP", "nWTR", "nWR", "nRRD", "nFAW", "nRFC", "nPD",
                "nXP", "nCKESR", "nXS"}

\* DDR3::Command, in its order.
AllCommands == <<"ACT_R", "ACT_W", "PRE", "PREA", "RD", "WR", "RDA", "WRA",
                 "REF", "PDE", "PDX", "SRE", "SRX">>

ASSUME SpeedAssumption ==
  /\ Speed \in [SpeedFields -> Nat \ {0}]
  /\ Speed.nCWL <= Speed.nCL + Speed.nBL
  /\ Speed.nBL <= Speed.nCCD + 2
  /\ Speed.nRTP <= Speed.nCL + Speed.nBL
  /\ Commands \subseteq ToSet(AllCommands)

Activates == {"ACT_R", "ACT_W"}
Reads     == {"RD", "RDA"}
Writes    == {"WR", "WRA"}
Accesses  == Reads \cup Writes

\* What the command generator OPEN makes.
OpenPage  == Activates \cup {"PRE", "RD", "WR"}

-----------------------------------------------------------------------------
(* The timing tables (DDR3::init_timing).                                  *)

\* After any command of `from', every command of `to' waits `val' cycles.
After(from, to, val) == from \X to \X {val}

\* Mutant: a write follows a read as another read does.
ReadToWriteShort == Speed.nCCD
ReadToWrite == Speed.nCL + Speed.nCCD + 2 - Speed.nCWL
WriteToRead == Speed.nCWL + Speed.nBL + Speed.nWTR
WriteRecovery == Speed.nCWL + Speed.nBL + Speed.nWR

ChannelTiming == After(Reads, Reads, Speed.nBL)
                 \cup After(Writes, Writes, Speed.nBL)

\* The commands a rank cannot take while it wakes up from power-down, and
\* from self-refresh.
Asleep == Activates \cup {"REF", "PDE", "SRE"}

\* Within a rank; the entries of distance 4 are FourActivates below.
RankTiming == After(Reads, Reads, Speed.nCCD)
              \cup After(Writes, Writes, Speed.nCCD)
              \cup After(Reads, Writes, ReadToWrite)
              \cup After(Writes, Reads, WriteToRead)
              \cup After({"RD"}, {"PREA"}, Speed.nRTP)
              \cup After({"WR"}, {"PREA"}, WriteRecovery)
              \cup After(Reads, {"PDE"}, Speed.nCL + Speed.nBL + 1)
              \cup After({"WR"}, {"PDE"}, WriteRecovery)
              \cup After({"WRA"}, {"PDE"}, WriteRecovery + 1)
              \cup After(Activates, Activates, Speed.nRRD)
              \cup After(Activates, {"PREA"}, Speed.nRAS)
              \cup After({"PREA"}, Activates, Speed.nRP)
              \cup After({"PRE", "PREA"}, {"REF", "SRE"}, Speed.nRP)
              \cup After({"REF"}, Activates \cup {"REF"}, Speed.nRFC)
              \cup After(Activates \cup {"REF"}, {"PDE"}, 1)
              \cup After({"PDX"}, Accesses \cup Asleep \cup {"PRE", "PREA"}, Speed.nXP)
              \cup After({"SRX"}, Asleep, Speed.nXS)
              \cup After({"PDE"}, {"PDX"}, Speed.nPD)
              \cup After({"SRE"}, {"SRX"}, Speed.nCKESR)

\* Between ranks (sibling).
SiblingTiming == After(Reads, Reads, Speed.nBL + Speed.nRTRS)
                 \cup After(Reads, Writes, Speed.nBL + Speed.nRTRS)
                 \cup After(Reads, Writes, Speed.nCL + Speed.nBL + Speed.nRTRS - Speed.nCWL)
                 \cup After(Writes, Reads, Speed.nCWL + Speed.nBL + Speed.nRTRS - Speed.nCL)

BankTiming == After(Activates, Accesses, Speed.nRCD)
              \cup After({"RD"}, {"PRE"}, Speed.nRTP)
              \cup After({"WR"}, {"PRE"}, WriteRecovery)
              \cup After({"RDA"}, Activates, Speed.nRTP + Speed.nRP)
              \cup After({"WRA"}, Activates, WriteRecovery + Speed.nRP)
              \cup After(Activates, Activates, Speed.nRC)
              \cup After(Activates, {"PRE"}, Speed.nRAS)
              \cup After({"PRE"}, Activates, Speed.nRP)

\* The longest wait a table makes of `to' after `from'.
Gaps(timing) == [from \in Commands |-> [to \in Commands |->
                  Max({0} \cup {e[3] : e \in {x \in timing : x[1] = from /\ x[2] = to}})]]

ChannelGap == Gaps(ChannelTiming)
RankGap    == Gaps(RankTiming)
SiblingGap == Gaps(SiblingTiming)
BankGap    == Gaps(BankTiming)

\* The level at which check() and update_state() stop descending.  The
\* initialiser in DDR3.h gives 12 levels to 13 commands, so that from PRE on
\* every command has the level meant for the command after it, and the last
\* one the level 0.
ScopeTable == <<"Row", "Bank", "Rank", "Column", "Column", "Column", "Column",
                "Rank", "Rank", "Rank", "Rank", "Rank">>
Scope == [c \in ToSet(AllCommands) |->
            IF c = Last(AllCommands) THEN "Channel"
            ELSE ScopeTable[CHOOSE i \in DOMAIN ScopeTable : AllCommands[i] = c]]

ReachesRank(cmd) == Scope[cmd] # "Channel"
ReachesBank(cmd) == Scope[cmd] \notin {"Channel", "Rank"}

-----------------------------------------------------------------------------
(* The tree: the channel, its ranks, and their banks.                      *)

NoWait == [c \in Commands |-> 0]

\* The ages of the three activates of one kind before the next: an age of
\* nFAW stands for all from there on, and for the -1 of an activate that never was.
NoHistory == [k \in 1 .. 3 |-> Speed.nFAW]

InitDevice(ranks, banks) ==
  [channel |-> NoWait,                                   \* cycles left, per command
   rank    |-> [r \in ranks |-> NoWait],
   bank    |-> [p \in ranks \X banks |-> NoWait],
   acts    |-> [r \in ranks |-> [a \in Activates |-> NoHistory]]]  \* prev, of the activates

\* DRAM::check, reached through Ramulator::command_check.
CommandCheck(dev, cmd, r, b) ==
  /\ dev.channel[cmd] = 0
  /\ ReachesRank(cmd) => dev.rank[r][cmd] = 0
  /\ ReachesBank(cmd) => dev.bank[<<r, b>>][cmd] = 0

\* Mutant: the last command decides, not the longest wait.
WaitsForLast(left, gap) == [c \in Commands |-> IF gap[c] > 0 THEN gap[c] ELSE left[c]]
Waits(left, gap) == [c \in Commands |-> Max({left[c], gap[c]})]

\* Mutants: the window starts at a later activate, and it is not kept.
FourActivatesLate(acts, cmd) ==
  [c \in Commands |->
     IF cmd \in Activates /\ c \in Activates /\ acts[cmd][3] < Speed.nFAW
     THEN Speed.nFAW - acts[cmd][2] ELSE 0]
FourActivatesNever(acts, cmd) == NoWait

\* The rank's entries of distance 4: with this activate the history of its
\* own kind holds four, and the oldest of them starts the nFAW window.
FourActivates(acts, cmd) ==
  [c \in Commands |->
     IF cmd \in Activates /\ c \in Activates THEN Speed.nFAW - acts[cmd][3] ELSE 0]

History(acts, cmd) ==
  IF cmd \in Activates
  THEN [acts EXCEPT ![cmd] = [k \in 1 .. 3 |-> IF k = 1 THEN 0 ELSE @[k - 1]]]
  ELSE acts

\* DRAM::update_timing, over the whole tree: of all ranks but the commanded
\* one, the entries for siblings; then down to the bank.
DeviceUpdate(dev, cmd, r, b) ==
  [channel |-> Waits(dev.channel, ChannelGap[cmd]),
   rank    |-> [s \in DOMAIN dev.rank |->
                  IF s = r THEN Waits(Waits(dev.rank[s], RankGap[cmd]),
                                      FourActivates(dev.acts[s], cmd))
                           ELSE Waits(dev.rank[s], SiblingGap[cmd])],
   bank    |-> [dev.bank EXCEPT ![<<r, b>>] = Waits(@, BankGap[cmd])],
   acts    |-> [dev.acts EXCEPT ![r] = History(@, cmd)]]

\* One clock cycle.
OneLess(left) == [c \in Commands |-> IF left[c] > 0 THEN left[c] - 1 ELSE 0]

DeviceTick(dev) ==
  [channel |-> OneLess(dev.channel),
   rank    |-> [r \in DOMAIN dev.rank |-> OneLess(dev.rank[r])],
   bank    |-> [p \in DOMAIN dev.bank |-> OneLess(dev.bank[p])],
   acts    |-> [r \in DOMAIN dev.acts |-> [a \in Activates |->
                 [k \in 1 .. 3 |-> Min({Speed.nFAW, dev.acts[r][a][k] + 1})]]]]

-----------------------------------------------------------------------------
(* What is open, and who sleeps: DRAM::update_state, decode, check_row_hit *)
(* and check_row_open with the functions of DDR3.cpp.  The controllers do  *)
(* not ask for any of it.                                                  *)

\* A bank that is Closed has no row_state.
InitState(ranks, banks) ==
  [power |-> [r \in ranks |-> "PowerUp"],
   open  |-> [p \in ranks \X banks |-> FALSE],
   rows  |-> [p \in ranks \X banks |-> {}]]

AnyOpen(state, r) == \E p \in DOMAIN state.open : p[1] = r /\ state.open[p]

\* The lambda functions of a rank; SRX never gets that far.
RankState(state, cmd, r) ==
  CASE cmd = "PREA" -> [state EXCEPT
                          !.open = [p \in DOMAIN @ |-> p[1] # r /\ @[p]],
                          !.rows = [p \in DOMAIN @ |-> IF p[1] = r THEN {} ELSE @[p]]]
    [] cmd = "PDE" -> [state EXCEPT !.power[r] =
                         IF AnyOpen(state, r) THEN "ActPowerDown" ELSE "PrePowerDown"]
    [] cmd \in {"PDX", "SRX"} -> [state EXCEPT !.power[r] = "PowerUp"]
    [] cmd = "SRE" -> [state EXCEPT !.power[r] = "SelfRefresh"]
    [] OTHER -> state

\* Mutant: an ACT_W leaves the bank as it was.
BankStateReadsOnly(state, cmd, p, row) ==
  CASE cmd = "ACT_R" -> [state EXCEPT !.open[p] = TRUE, !.rows[p] = @ \cup {row}]
    [] cmd \in {"PRE", "RDA", "WRA"} -> [state EXCEPT !.open[p] = FALSE, !.rows[p] = {}]
    [] OTHER -> state

\* Those of a bank; PRE and WRA never get that far.
BankState(state, cmd, p, row) ==
  CASE cmd \in Activates -> [state EXCEPT !.open[p] = TRUE, !.rows[p] = @ \cup {row}]
    [] cmd \in {"PRE", "RDA", "WRA"} -> [state EXCEPT !.open[p] = FALSE, !.rows[p] = {}]
    [] OTHER -> state

UpdateState(state, cmd, r, b, row) ==
  LET atRank == IF ReachesRank(cmd) THEN RankState(state, cmd, r) ELSE state
  IN IF ReachesBank(cmd) THEN BankState(atRank, cmd, <<r, b>>, row) ELSE atRank

\* rowopen and rowhit, which RD and WR have, of a bank; check_row_open and
\* check_row_hit of the tree.
BankRowOpen(state, p)     == state.open[p]
BankRowHit(state, p, row) == state.open[p] /\ row \in state.rows[p]

CheckRowOpen(state, cmd, p)     == cmd \in {"RD", "WR"} /\ BankRowOpen(state, p)
CheckRowHit(state, cmd, p, row) == cmd \in {"RD", "WR"} /\ BankRowHit(state, p, row)

\* prereq: the command a rank, or a bank, needs first; MAX if it needs none.
RankPrereq(state, cmd, r) ==
  LET power == state.power[r]
      down  == power \in {"ActPowerDown", "PrePowerDown"}
  IN CASE cmd \in {"RD", "WR"} -> IF down THEN "PDX" ELSE IF power = "SelfRefresh" THEN "SRX" ELSE "MAX"
       [] cmd = "REF" -> IF AnyOpen(state, r) THEN "PREA" ELSE "REF"
       [] cmd = "PDE" -> IF power = "SelfRefresh" THEN "SRX" ELSE "PDE"
       [] cmd = "SRE" -> IF down THEN "PDX" ELSE "SRE"
       [] OTHER -> "MAX"

BankPrereq(state, cmd, p, row) ==
  CASE cmd \notin {"RD", "WR"} -> "MAX"
    [] BankRowHit(state, p, row)   -> cmd
    [] BankRowOpen(state, p) /\ ~ BankRowHit(state, p, row) -> "PRE"
    [] OTHER -> IF cmd = "RD" THEN "ACT_R" ELSE "ACT_W"

\* decode: the command that has to come first, or the command itself.
Decode(state, cmd, r, b, row) ==
  LET rank == RankPrereq(state, cmd, r)
      bank == BankPrereq(state, cmd, <<r, b>>, row)
  IN IF rank # "MAX" THEN rank ELSE IF bank # "MAX" THEN bank ELSE cmd

-----------------------------------------------------------------------------
(* What the controller asks of the device (Ramulator.h).                   *)

\* get_constraints.
Constraint ==
  [tCCD |-> Speed.nCCD, tRCD |-> Speed.nRCD, tWL |-> Speed.nCWL,
   tRL |-> Speed.nCL, tWTR |-> Speed.nWTR, tBus |-> Speed.nBL,
   tRTW |-> Speed.nCL + Speed.nBL + 2 - Speed.nCWL,
   tRRD |-> Speed.nRRD, tFAW |-> Speed.nFAW]

\* Mutant: the PRE after an activate falls through like those after accesses.
CommandTimingNoRAS(cmd, type) ==
  CASE cmd = "PRE" -> IF type \in Activates THEN Speed.nRP ELSE 0
    [] cmd \in Activates -> IF type \in Activates THEN Speed.nRC
                            ELSE IF type = "PRE" THEN 1 ELSE Speed.nRCD
    [] cmd \in Reads -> IF type \in Writes THEN Constraint.tRTW ELSE 4
    [] cmd \in Writes -> IF type \in Reads THEN Speed.nCWL + 4 + 6 ELSE 4

\* command_timing(command, type): how long the requestor that sent `command'
\* waits before its next command of type `type'.  The two cases of a PRE after
\* a column access fall through to the default.
CommandTiming(cmd, type) ==
  CASE cmd = "PRE" -> IF type \in Activates THEN Speed.nRP ELSE 0
    [] cmd \in Activates -> CASE type \in Activates -> Speed.nRC
                              [] type = "PRE" -> Speed.nRAS
                              [] OTHER -> Speed.nRCD
    [] cmd = "RD" -> CASE type \in Reads -> 4
                       [] type \in Writes -> Constraint.tRTW
                       [] OTHER -> 1
    [] cmd = "WR" -> CASE type \in Reads -> Speed.nCWL + 4 + 6
                       [] type \in Writes -> 4
                       [] OTHER -> 1
    [] cmd = "RDA" -> IF type \in Activates THEN Speed.nRTP + Speed.nRP ELSE 1
    [] cmd = "WRA" -> IF type \in Activates
                      THEN Speed.nCWL + 4 + Speed.nWR + Speed.nRP ELSE 1

-----------------------------------------------------------------------------
(* For properties.                                                         *)

\* When cmd is sent, the distances that `timing' asks for to the commands
\* sent before it have passed.  since[c, p] says how many cycles ago command
\* c was last sent to place p, for the commands and places that matter.
Kept(timing, since, cmd, places) ==
  \A e \in timing, p \in places :
    e[2] = cmd /\ <<e[1], p>> \in DOMAIN since => since[<<e[1], p>>] >= e[3]
=============================================================================

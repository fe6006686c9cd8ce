------------------------------ MODULE DDR3_proofs ------------------------------
(***************************************************************************)
(* Facts about the operators of module DDR3: what its tables, gaps and     *)
(* waits are, and how they bound the ages of the commands sent.            *)
(***************************************************************************)
EXTENDS DDR3, Lists_proofs

\* A timing table: entries of two commands and a distance, the distances bounded.
IsTable(timing) ==
  /\ timing \subseteq ToSet(AllCommands) \X ToSet(AllCommands) \X Int
  /\ \E bound \in Int : \A e \in timing : e[3] <= bound

\* The cycles of a speed grade are naturals.
LEMMA SpeedInt ==
  /\ Speed.nBL \in Nat /\ Speed.nCCD \in Nat /\ Speed.nRTRS \in Nat /\ Speed.nCL \in Nat
  /\ Speed.nRCD \in Nat /\ Speed.nRP \in Nat /\ Speed.nCWL \in Nat /\ Speed.nRAS \in Nat
  /\ Speed.nRC \in Nat /\ Speed.nRTP \in Nat /\ Speed.nWTR \in Nat /\ Speed.nWR \in Nat
  /\ Speed.nRRD \in Nat /\ Speed.nFAW \in Nat \ {0} /\ Speed.nRFC \in Nat /\ Speed.nPD \in Nat
  /\ Speed.nXP \in Nat /\ Speed.nCKESR \in Nat /\ Speed.nXS \in Nat
BY SpeedAssumption DEF SpeedFields

\* The commands of DDR3::Command.
LEMMA CommandNames ==
  ToSet(AllCommands) = {"ACT_R", "ACT_W", "PRE", "PREA", "RD", "WR", "RDA", "WRA",
                        "REF", "PDE", "PDX", "SRE", "SRX"}
BY DEF ToSet, AllCommands

\* One line of a table is a table.
LEMMA LineIsTable ==
  ASSUME NEW from, NEW to, NEW val,
         from \subseteq ToSet(AllCommands), to \subseteq ToSet(AllCommands), val \in Int
  PROVE  IsTable(After(from, to, val))
BY DEF After, IsTable

\* Two tables are a table.
LEMMA BothAreTables ==
  ASSUME NEW S, NEW T, IsTable(S), IsTable(T)
  PROVE  IsTable(S \cup T)
<1>1. PICK a \in Int : \A e \in S : e[3] <= a
  BY DEF IsTable
<1>2. PICK b \in Int : \A e \in T : e[3] <= b
  BY DEF IsTable
<1>3. \A e \in S \cup T : e[3] <= (IF a <= b THEN b ELSE a)
  <2> SUFFICES ASSUME NEW e \in S \cup T PROVE e[3] <= (IF a <= b THEN b ELSE a)
    OBVIOUS
  <2>1. e[3] \in Int
    BY DEF IsTable
  <2> QED
    BY <1>1, <1>2, <2>1
<1> QED
  BY <1>3 DEF IsTable

\* The sets of commands the tables are made of hold commands only.
LEMMA CommandSets ==
  /\ Reads \subseteq ToSet(AllCommands) /\ Writes \subseteq ToSet(AllCommands)
  /\ Activates \subseteq ToSet(AllCommands) /\ Accesses \subseteq ToSet(AllCommands)
  /\ Asleep \subseteq ToSet(AllCommands)
  /\ {"RD"} \subseteq ToSet(AllCommands) /\ {"WR"} \subseteq ToSet(AllCommands)
  /\ {"RDA"} \subseteq ToSet(AllCommands) /\ {"WRA"} \subseteq ToSet(AllCommands)
  /\ {"PRE"} \subseteq ToSet(AllCommands) /\ {"PREA"} \subseteq ToSet(AllCommands)
  /\ {"REF"} \subseteq ToSet(AllCommands) /\ {"PDE"} \subseteq ToSet(AllCommands)
  /\ {"PDX"} \subseteq ToSet(AllCommands) /\ {"SRE"} \subseteq ToSet(AllCommands)
  /\ {"SRX"} \subseteq ToSet(AllCommands) /\ {"PRE", "PREA"} \subseteq ToSet(AllCommands)
  /\ {"REF", "SRE"} \subseteq ToSet(AllCommands)
  /\ Activates \cup {"REF"} \subseteq ToSet(AllCommands)
  /\ Accesses \cup Asleep \cup {"PRE", "PREA"} \subseteq ToSet(AllCommands)
BY CommandNames DEF Reads, Writes, Activates, Accesses, Asleep

\* The four tables of DDR3.cpp are tables, whatever the speed grade.
LEMMA TablesAreTables ==
  /\ IsTable(ChannelTiming) /\ IsTable(RankTiming)
  /\ IsTable(SiblingTiming) /\ IsTable(BankTiming)
<1>1. /\ ReadToWrite \in Int /\ WriteToRead \in Int /\ WriteRecovery \in Int
      /\ WriteRecovery + 1 \in Int /\ WriteRecovery + Speed.nRP \in Int
      /\ Speed.nCL + Speed.nBL + 1 \in Int /\ Speed.nBL + Speed.nRTRS \in Int
      /\ Speed.nCL + Speed.nBL + Speed.nRTRS - Speed.nCWL \in Int
      /\ Speed.nCWL + Speed.nBL + Speed.nRTRS - Speed.nCL \in Int
      /\ Speed.nRTP + Speed.nRP \in Int /\ 1 \in Int
  BY SpeedInt DEF ReadToWrite, WriteToRead, WriteRecovery
<1>2. /\ Speed.nBL \in Int /\ Speed.nCCD \in Int /\ Speed.nRTP \in Int /\ Speed.nRRD \in Int
      /\ Speed.nRAS \in Int /\ Speed.nRP \in Int /\ Speed.nRFC \in Int /\ Speed.nXP \in Int
      /\ Speed.nXS \in Int /\ Speed.nPD \in Int /\ Speed.nCKESR \in Int
      /\ Speed.nRCD \in Int /\ Speed.nRC \in Int
  BY SpeedInt
<1>3. IsTable(ChannelTiming)
  BY <1>2, CommandSets, LineIsTable, BothAreTables DEF ChannelTiming
<1>4. IsTable(RankTiming)
  <2>1. /\ IsTable(After(Reads, Reads, Speed.nCCD))
        /\ IsTable(After(Writes, Writes, Speed.nCCD))
        /\ IsTable(After(Reads, Writes, ReadToWrite))
        /\ IsTable(After(Writes, Reads, WriteToRead))
        /\ IsTable(After({"RD"}, {"PREA"}, Speed.nRTP))
        /\ IsTable(After({"WR"}, {"PREA"}, WriteRecovery))
        /\ IsTable(After(Reads, {"PDE"}, Speed.nCL + Speed.nBL + 1))
        /\ IsTable(After({"WR"}, {"PDE"}, WriteRecovery))
        /\ IsTable(After({"WRA"}, {"PDE"}, WriteRecovery + 1))
        /\ IsTable(After(Activates, Activates, Speed.nRRD))
    BY <1>1, <1>2, CommandSets, LineIsTable
  <2>2. /\ IsTable(After(Activates, {"PREA"}, Speed.nRAS))
        /\ IsTable(After({"PREA"}, Activates, Speed.nRP))
        /\ IsTable(After({"PRE", "PREA"}, {"REF", "SRE"}, Speed.nRP))
        /\ IsTable(After({"REF"}, Activates \cup {"REF"}, Speed.nRFC))
        /\ IsTable(After(Activates \cup {"REF"}, {"PDE"}, 1))
        /\ IsTable(After({"PDX"}, Accesses \cup Asleep \cup {"PRE", "PREA"}, Speed.nXP))
        /\ IsTable(After({"SRX"}, Asleep, Speed.nXS))
        /\ IsTable(After({"PDE"}, {"PDX"}, Speed.nPD))
        /\ IsTable(After({"SRE"}, {"SRX"}, Speed.nCKESR))
    BY <1>1, <1>2, CommandSets, LineIsTable
  <2>. DEFINE first  == After(Reads, Reads, Speed.nCCD)
                       \cup After(Writes, Writes, Speed.nCCD)
                       \cup After(Reads, Writes, ReadToWrite)
                       \cup After(Writes, Reads, WriteToRead)
                       \cup After({"RD"}, {"PREA"}, Speed.nRTP)
                       \cup After({"WR"}, {"PREA"}, WriteRecovery)
                       \cup After(Reads, {"PDE"}, Speed.nCL + Speed.nBL + 1)
                       \cup After({"WR"}, {"PDE"}, WriteRecovery)
                       \cup After({"WRA"}, {"PDE"}, WriteRecovery + 1)
                       \cup After(Activates, Activates, Speed.nRRD)
              second == After(Activates, {"PREA"}, Speed.nRAS)
                       \cup After({"PREA"}, Activates, Speed.nRP)
                       \cup After({"PRE", "PREA"}, {"REF", "SRE"}, Speed.nRP)
                       \cup After({"REF"}, Activates \cup {"REF"}, Speed.nRFC)
                       \cup After(Activates \cup {"REF"}, {"PDE"}, 1)
                       \cup After({"PDX"}, Accesses \cup Asleep \cup {"PRE", "PREA"}, Speed.nXP)
                       \cup After({"SRX"}, Asleep, Speed.nXS)
                       \cup After({"PDE"}, {"PDX"}, Speed.nPD)
                       \cup After({"SRE"}, {"SRX"}, Speed.nCKESR)
  <2>3. IsTable(first)
    BY <2>1, BothAreTables
  <2>4. IsTable(second)
    BY <2>2, BothAreTables
  <2>5. RankTiming = first \cup second
    BY DEF RankTiming
  <2>. HIDE DEF first, second
  <2> QED
    BY <2>3, <2>4, <2>5, BothAreTables
<1>5. IsTable(SiblingTiming)
  BY <1>1, <1>2, CommandSets, LineIsTable, BothAreTables DEF SiblingTiming
<1>6. IsTable(BankTiming)
  BY <1>1, <1>2, CommandSets, LineIsTable, BothAreTables DEF BankTiming
<1> QED
  BY <1>3, <1>4, <1>5, <1>6

\* The levels the shifted initialiser of DDR3.h gives the commands.
LEMMA Scopes ==
  /\ Scope["ACT_R"] = "Row" /\ Scope["ACT_W"] = "Bank" /\ Scope["PRE"] = "Rank"
  /\ Scope["PREA"] = "Column" /\ Scope["RD"] = "Column" /\ Scope["WR"] = "Column"
  /\ Scope["RDA"] = "Column" /\ Scope["WRA"] = "Rank" /\ Scope["REF"] = "Rank"
  /\ Scope["PDE"] = "Rank" /\ Scope["PDX"] = "Rank" /\ Scope["SRE"] = "Rank"
  /\ Scope["SRX"] = "Channel"
<1>1. ToSet(AllCommands) = {"ACT_R", "ACT_W", "PRE", "PREA", "RD", "WR", "RDA", "WRA",
                 "REF", "PDE", "PDX", "SRE", "SRX"}
  BY DEF ToSet, AllCommands
<1>2. Last(AllCommands) = "SRX"
  BY DEF Last, AllCommands
<1>3. DOMAIN ScopeTable = 1 .. 12
  BY DEF ScopeTable
<1>4. (CHOOSE i \in DOMAIN ScopeTable : AllCommands[i] = "RD") = 5
  BY <1>3 DEF AllCommands
<1> QED
  BY <1>1, <1>2, <1>3, <1>4 DEF Scope, AllCommands, ScopeTable

\* The longest distance of a table, or 0.
LEMMA LongestIs ==
  ASSUME NEW timing, IsTable(timing)
  PROVE  /\ Max({0} \cup {e[3] : e \in timing}) \in Nat
         /\ \A e \in timing : e[3] <= Max({0} \cup {x[3] : x \in timing})
         /\ \A n \in Nat : (\A e \in timing : e[3] <= n)
                           => Max({0} \cup {e[3] : e \in timing}) <= n
<1> DEFINE S == {0} \cup {e[3] : e \in timing}
<1>1. \A e \in timing : e[3] \in Int
  BY DEF IsTable
<1>2. S \in SUBSET Int /\ S # {}
  BY <1>1
<1>3. PICK bound \in Int : \A e \in timing : e[3] <= bound
  BY DEF IsTable
<1>4. \A y \in S : y <= (IF bound >= 0 THEN bound ELSE 0)
  BY <1>1, <1>3
<1>5. 0 \in S /\ \A e \in timing : e[3] \in S
  OBVIOUS
<1>6. \A y \in S : y = 0 \/ \E e \in timing : y = e[3]
  OBVIOUS
<1> HIDE DEF S
<1>7. Max(S) \in S /\ \A y \in S : Max(S) >= y
  <2>1. (IF bound >= 0 THEN bound ELSE 0) \in Int
    OBVIOUS
  <2> QED
    BY <1>2, <1>4, <2>1, Maximum
<1>8. Max(S) \in Nat
  <2>1. Max(S) \in Int
    BY <1>2, <1>7
  <2>2. Max(S) >= 0
    BY <1>5, <1>7
  <2> QED
    BY <2>1, <2>2
<1>9. \A e \in timing : e[3] <= Max(S)
  BY <1>1, <1>5, <1>7, <1>8
<1>10. \A n \in Nat : (\A e \in timing : e[3] <= n) => Max(S) <= n
  BY <1>6, <1>7
<1> QED
  BY <1>8, <1>9, <1>10 DEF S

\* The wait a table makes of a command after another is its longest distance.
LEMMA GapIs ==
  ASSUME NEW timing, IsTable(timing), NEW from \in Commands, NEW to \in Commands
  PROVE  /\ Gaps(timing)[from][to] \in Nat
         /\ \A e \in timing : e[1] = from /\ e[2] = to => e[3] <= Gaps(timing)[from][to]
         /\ \A n \in Nat : (\A e \in timing : e[1] = from /\ e[2] = to => e[3] <= n)
                           => Gaps(timing)[from][to] <= n
<1> DEFINE T == {x \in timing : x[1] = from /\ x[2] = to}
<1>1. Gaps(timing)[from][to] = Max({0} \cup {e[3] : e \in T})
  BY DEF Gaps
<1>2. IsTable(T)
  BY DEF IsTable
<1>3. \A e \in timing : e \in T <=> e[1] = from /\ e[2] = to
  OBVIOUS
<1>4. T \subseteq timing
  OBVIOUS
<1> HIDE DEF T
<1> QED
  BY <1>1, <1>2, <1>3, <1>4, LongestIs

\* A node waits after a command for what it waited for, and for what the table says.
LEMMA WaitsIs ==
  ASSUME NEW left \in [Commands -> Nat], NEW gap \in [Commands -> Nat]
  PROVE  /\ Waits(left, gap) \in [Commands -> Nat]
         /\ \A c \in Commands : Waits(left, gap)[c] >= left[c] /\ Waits(left, gap)[c] >= gap[c]
         /\ \A c \in Commands, n \in Nat :
              Waits(left, gap)[c] <= n <=> left[c] <= n /\ gap[c] <= n
<1>1. \A c \in Commands : left[c] \in Nat /\ gap[c] \in Nat
  OBVIOUS
<1>2. \A c \in Commands : Max({left[c], gap[c]}) = IF left[c] >= gap[c] THEN left[c] ELSE gap[c]
  BY <1>1, Larger
<1> QED
  BY <1>1, <1>2 DEF Waits

\* A cycle takes one off the waits that are not over.
LEMMA OneLessIs ==
  ASSUME NEW left \in [Commands -> Nat]
  PROVE  /\ OneLess(left) \in [Commands -> Nat]
         /\ \A c \in Commands, n \in Nat : OneLess(left)[c] <= n <=> left[c] <= n + 1
         /\ \A c \in Commands : OneLess(left)[c] >= left[c] - 1
BY DEF OneLess

\* After a command, a table has every command wait a natural number of cycles.
LEMMA GapRow ==
  ASSUME NEW timing, IsTable(timing), NEW from \in Commands
  PROVE  Gaps(timing)[from] \in [Commands -> Nat]
<1>1. Gaps(timing)[from] = [to \in Commands |->
                  Max({0} \cup {e[3] : e \in {x \in timing : x[1] = from /\ x[2] = to}})]
  BY DEF Gaps
<1>2. \A to \in Commands : Gaps(timing)[from][to] \in Nat
  BY GapIs
<1> QED
  BY <1>1, <1>2

\* So do the four tables.
LEMMA GapRows ==
  ASSUME NEW cmd \in Commands
  PROVE  /\ ChannelGap[cmd] \in [Commands -> Nat] /\ RankGap[cmd] \in [Commands -> Nat]
         /\ SiblingGap[cmd] \in [Commands -> Nat] /\ BankGap[cmd] \in [Commands -> Nat]
BY GapRow, TablesAreTables DEF ChannelGap, RankGap, SiblingGap, BankGap

\* The ages the device keeps of the activates of a rank.
Histories == [Activates -> [1 .. 3 -> 0 .. Speed.nFAW]]

\* The wait of the four-activate window starts at the oldest of the three ages kept.
LEMMA FourActivatesIs ==
  ASSUME NEW acts \in Histories, NEW cmd \in Commands
  PROVE  /\ FourActivates(acts, cmd) \in [Commands -> Nat]
         /\ \A c \in Commands :
              FourActivates(acts, cmd)[c] = IF cmd \in Activates /\ c \in Activates
                                            THEN Speed.nFAW - acts[cmd][3] ELSE 0
BY SpeedInt DEF FourActivates, Histories

\* An activate pushes the ages of its kind one place on.
LEMMA HistoryIs ==
  ASSUME NEW acts \in Histories, NEW cmd \in Commands
  PROVE  /\ History(acts, cmd) \in Histories
         /\ \A a \in Activates, k \in 1 .. 3 :
              History(acts, cmd)[a][k] = IF a # cmd THEN acts[a][k]
                                         ELSE IF k = 1 THEN 0 ELSE acts[a][k - 1]
<1>1. CASE cmd \in Activates
  <2>1. [k \in 1 .. 3 |-> IF k = 1 THEN 0 ELSE acts[cmd][k - 1]] \in [1 .. 3 -> 0 .. Speed.nFAW]
    BY <1>1, SpeedInt DEF Histories
  <2> QED
    BY <1>1, <2>1 DEF History, Histories
<1>2. CASE cmd \notin Activates
  BY <1>2 DEF History
<1> QED
  BY <1>1, <1>2

\* The device of the ranks and banks of w.
DeviceType(d, w) ==
  d \in [channel : [Commands -> Nat],
         rank : [w.ranks -> [Commands -> Nat]],
         bank : [w.ranks \X w.banks -> [Commands -> Nat]],
         acts : [w.ranks -> Histories]]

\* At first it is one.
LEMMA InitType ==
  ASSUME NEW w
  PROVE  DeviceType(InitDevice(w.ranks, w.banks), w)
<1>1. NoWait \in [Commands -> Nat]
  BY DEF NoWait
<1>2. [a \in Activates |-> NoHistory] \in Histories
  BY SpeedInt DEF NoHistory, Histories
<1> QED
  BY <1>1, <1>2 DEF InitDevice, DeviceType

\* A command leaves a device.
LEMMA UpdateType ==
  ASSUME NEW d, NEW w, DeviceType(d, w), NEW cmd \in Commands,
         NEW r \in w.ranks, NEW b \in w.banks
  PROVE  DeviceType(DeviceUpdate(d, cmd, r, b), w)
<1>1. Waits(d.channel, ChannelGap[cmd]) \in [Commands -> Nat]
  BY GapRows, WaitsIs DEF DeviceType
<1>2. ASSUME NEW s \in w.ranks
      PROVE  /\ Waits(d.rank[s], SiblingGap[cmd]) \in [Commands -> Nat]
             /\ Waits(Waits(d.rank[s], RankGap[cmd]), FourActivates(d.acts[s], cmd))
                  \in [Commands -> Nat]
             /\ History(d.acts[s], cmd) \in Histories
  <2>1. d.rank[s] \in [Commands -> Nat] /\ d.acts[s] \in Histories
    BY <1>2 DEF DeviceType
  <2>2. Waits(d.rank[s], SiblingGap[cmd]) \in [Commands -> Nat]
    BY <2>1, GapRows, WaitsIs
  <2>3. Waits(d.rank[s], RankGap[cmd]) \in [Commands -> Nat]
    BY <2>1, GapRows, WaitsIs
  <2>4. FourActivates(d.acts[s], cmd) \in [Commands -> Nat]
    BY <2>1, FourActivatesIs
  <2> QED
    BY <2>1, <2>2, <2>3, <2>4, WaitsIs, HistoryIs
<1>3. Waits(d.bank[<<r, b>>], BankGap[cmd]) \in [Commands -> Nat]
  <2>1. d.bank[<<r, b>>] \in [Commands -> Nat]
    BY DEF DeviceType
  <2> QED
    BY <2>1, GapRows, WaitsIs
<1> QED
  BY <1>1, <1>2, <1>3 DEF DeviceType, DeviceUpdate

\* So does a clock cycle.
LEMMA TickType ==
  ASSUME NEW d, NEW w, DeviceType(d, w)
  PROVE  DeviceType(DeviceTick(d), w)
<1>1. ASSUME NEW s \in w.ranks, NEW a \in Activates, NEW k \in 1 .. 3
      PROVE  Min({Speed.nFAW, d.acts[s][a][k] + 1}) \in 0 .. Speed.nFAW
  <2>1. d.acts[s][a][k] \in 0 .. Speed.nFAW
    BY DEF DeviceType, Histories
  <2>2. d.acts[s][a][k] + 1 \in Int /\ Speed.nFAW \in Int
    BY <2>1, SpeedInt
  <2>3. Min({Speed.nFAW, d.acts[s][a][k] + 1})
          = IF Speed.nFAW <= d.acts[s][a][k] + 1 THEN Speed.nFAW ELSE d.acts[s][a][k] + 1
    BY <2>2, Smaller
  <2> QED
    BY <2>1, <2>3, SpeedInt
<1>2. OneLess(d.channel) \in [Commands -> Nat]
  BY OneLessIs DEF DeviceType
<1>3. \A s \in w.ranks : OneLess(d.rank[s]) \in [Commands -> Nat]
  BY OneLessIs DEF DeviceType
<1>4. \A p \in w.ranks \X w.banks : OneLess(d.bank[p]) \in [Commands -> Nat]
  BY OneLessIs DEF DeviceType
<1> QED
  BY <1>1, <1>2, <1>3, <1>4 DEF DeviceType, DeviceTick, Histories

-----------------------------------------------------------------------------
\* In n cycles from now the distances to command c will have passed.
Passed(timing, s, c, places, n) ==
  \A e \in timing, p \in places :
    e[2] = c /\ <<e[1], p>> \in DOMAIN s => s[<<e[1], p>>] + n >= e[3]

\* Kept asks for the distances to have passed now.
LEMMA KeptIsPassed ==
  ASSUME NEW timing, NEW C, NEW P, NEW s \in [C \X P -> Nat], NEW c, NEW places
  PROVE  Kept(timing, s, c, places) <=> Passed(timing, s, c, places, 0)
BY DEF Kept, Passed

\* The ages of the commands when cmd has been sent to the places in `for'.
SentTo(s, cmd, for) == [x \in DOMAIN s |-> IF x[1] = cmd /\ x[2] \in for THEN 0 ELSE s[x]]

\* The ages a cycle later, where nothing is counted past what longest gives.
OneMoreCycle(s, longest) == [x \in DOMAIN s |-> Min({longest[x[1]], s[x] + 1})]

\* No entry of the table keeps c away from cmd for longer than n cycles.
Within(timing, cmd, c, n) == \A e \in timing : e[1] = cmd /\ e[2] = c => e[3] <= n

\* A command sent to one of the places adds its own distances to the condition.
LEMMA PassedSend ==
  ASSUME NEW timing, IsTable(timing), NEW C, NEW P, NEW s \in [C \X P -> Nat],
         NEW cmd \in C, NEW for \in SUBSET P, NEW places \in SUBSET P,
         for \cap places # {}, NEW c, NEW n \in Nat
  PROVE  Passed(timing, SentTo(s, cmd, for), c, places, n)
         <=> Passed(timing, s, c, places, n) /\ Within(timing, cmd, c, n)
<1> DEFINE s2 == SentTo(s, cmd, for)
<1>1. /\ DOMAIN s = C \X P /\ DOMAIN s2 = C \X P
      /\ \A d \in C, p \in P : /\ s[<<d, p>>] \in Nat
                               /\ s2[<<d, p>>] = IF d = cmd /\ p \in for THEN 0 ELSE s[<<d, p>>]
  BY DEF SentTo
<1>2. \A e \in timing : e[3] \in Int
  BY DEF IsTable
<1>3. PICK q \in places : q \in for
  OBVIOUS
<1> HIDE DEF s2
<1>4. ASSUME Passed(timing, s2, c, places, n), NEW e \in timing, e[1] = cmd, e[2] = c
      PROVE  e[3] <= n
  <2>1. <<cmd, q>> \in DOMAIN s2 /\ s2[<<cmd, q>>] = 0
    BY <1>1, <1>3
  <2>2. s2[<<cmd, q>>] + n >= e[3]
    BY <1>3, <1>4, <2>1 DEF Passed
  <2> QED
    BY <1>2, <2>1, <2>2
<1>5. ASSUME Passed(timing, s2, c, places, n)
      PROVE  Passed(timing, s, c, places, n)
  <2> SUFFICES ASSUME NEW e \in timing, NEW p \in places, e[2] = c, <<e[1], p>> \in DOMAIN s
               PROVE  s[<<e[1], p>>] + n >= e[3]
    BY DEF Passed
  <2>1. s2[<<e[1], p>>] + n >= e[3]
    BY <1>1, <1>5 DEF Passed
  <2> QED
    BY <1>1, <1>2, <1>4, <1>5, <2>1
<1>6. ASSUME Passed(timing, s, c, places, n),
             \A e \in timing : e[1] = cmd /\ e[2] = c => e[3] <= n
      PROVE  Passed(timing, s2, c, places, n)
  <2> SUFFICES ASSUME NEW e \in timing, NEW p \in places, e[2] = c, <<e[1], p>> \in DOMAIN s2
               PROVE  s2[<<e[1], p>>] + n >= e[3]
    BY DEF Passed
  <2>1. s[<<e[1], p>>] + n >= e[3]
    BY <1>1, <1>6 DEF Passed
  <2> QED
    BY <1>1, <1>2, <1>6, <2>1
<1> QED
  BY <1>4, <1>5, <1>6 DEF s2, Within

\* A command the table does not know, or sent elsewhere, changes nothing.
LEMMA PassedElsewhere ==
  ASSUME NEW timing, NEW C, NEW P, NEW s \in [C \X P -> Nat],
         NEW cmd, NEW for, NEW places \in SUBSET P,
         for \cap places = {} \/ \A e \in timing : e[1] # cmd,
         NEW c, NEW n \in Nat
  PROVE  Passed(timing, SentTo(s, cmd, for), c, places, n)
         <=> Passed(timing, s, c, places, n)
<1> DEFINE s2 == SentTo(s, cmd, for)
<1>1. /\ DOMAIN s = C \X P /\ DOMAIN s2 = C \X P
      /\ \A d \in C, p \in P : s2[<<d, p>>] = IF d = cmd /\ p \in for THEN 0 ELSE s[<<d, p>>]
  BY DEF SentTo
<1> HIDE DEF s2
<1>2. \A e \in timing, p \in places : <<e[1], p>> \in DOMAIN s => s2[<<e[1], p>>] = s[<<e[1], p>>]
  BY <1>1
<1>3. Passed(timing, s2, c, places, n) <=> Passed(timing, s, c, places, n)
  BY <1>1, <1>2 DEF Passed
<1> QED
  BY <1>3 DEF s2

\* No entry of the table keeps c waiting longer for a command of C.
LongEnough(longest, timing, C, c) ==
  \A e \in timing : e[1] \in C /\ e[2] = c => e[3] <= longest[e[1]]

\* A cycle later there is one cycle less to wait for.
LEMMA PassedTick ==
  ASSUME NEW timing, IsTable(timing), NEW C, NEW P, NEW s \in [C \X P -> Nat],
         NEW longest \in [C -> Nat],
         NEW places \in SUBSET P, NEW c, NEW n \in Nat,
         LongEnough(longest, timing, C, c)
  PROVE  Passed(timing, OneMoreCycle(s, longest), c, places, n)
         <=> Passed(timing, s, c, places, n + 1)
<1> DEFINE s2 == OneMoreCycle(s, longest)
<1>1. /\ DOMAIN s = C \X P /\ DOMAIN s2 = C \X P
      /\ \A d \in C, p \in P : /\ s[<<d, p>>] \in Nat /\ longest[d] \in Nat
                               /\ s2[<<d, p>>] = Min({longest[d], s[<<d, p>>] + 1})
  BY DEF OneMoreCycle
<1>2. \A e \in timing : e[3] \in Int
  BY DEF IsTable
<1> HIDE DEF s2
<1>3. \A d \in C, p \in P :
        s2[<<d, p>>] = IF longest[d] <= s[<<d, p>>] + 1 THEN longest[d] ELSE s[<<d, p>>] + 1
  <2> SUFFICES ASSUME NEW d \in C, NEW p \in P
               PROVE  s2[<<d, p>>] = IF longest[d] <= s[<<d, p>>] + 1 THEN longest[d] ELSE s[<<d, p>>] + 1
    OBVIOUS
  <2>1. longest[d] \in Int /\ s[<<d, p>>] + 1 \in Int
    BY <1>1
  <2>2. Min({longest[d], s[<<d, p>>] + 1})
          = IF longest[d] <= s[<<d, p>>] + 1 THEN longest[d] ELSE s[<<d, p>>] + 1
    BY <2>1, Smaller
  <2> QED
    BY <1>1, <2>2
<1>4. \A e \in timing, p \in places :
        e[2] = c /\ <<e[1], p>> \in C \X P => (s2[<<e[1], p>>] + n >= e[3] <=> s[<<e[1], p>>] + (n + 1) >= e[3])
  BY <1>1, <1>2, <1>3 DEF LongEnough
<1>5. Passed(timing, s2, c, places, n) <=> Passed(timing, s, c, places, n + 1)
  BY <1>1, <1>4 DEF Passed
<1> QED
  BY <1>5 DEF s2

\* What a gap adds to a node's wait is what the table adds to the condition.
GapMeans(gap, timing, cmd) ==
  \A c \in Commands, n \in Nat : gap[c] <= n <=> Within(timing, cmd, c, n)

\* The four gaps mean what their tables say.
LEMMA GapsMean ==
  ASSUME NEW cmd \in Commands
  PROVE  /\ GapMeans(ChannelGap[cmd], ChannelTiming, cmd) /\ GapMeans(RankGap[cmd], RankTiming, cmd)
         /\ GapMeans(SiblingGap[cmd], SiblingTiming, cmd) /\ GapMeans(BankGap[cmd], BankTiming, cmd)
<1>1. ASSUME NEW timing, IsTable(timing)
      PROVE  GapMeans(Gaps(timing)[cmd], timing, cmd)
  <2> SUFFICES ASSUME NEW c \in Commands, NEW n \in Nat
               PROVE  Gaps(timing)[cmd][c] <= n
                        <=> \A e \in timing : e[1] = cmd /\ e[2] = c => e[3] <= n
    BY DEF GapMeans, Within
  <2>1. Gaps(timing)[cmd][c] \in Nat /\ \A e \in timing : e[3] \in Int
    BY <1>1, GapIs DEF IsTable
  <2>2. \A e \in timing : e[1] = cmd /\ e[2] = c => e[3] <= Gaps(timing)[cmd][c]
    BY <1>1, GapIs
  <2>3. (\A e \in timing : e[1] = cmd /\ e[2] = c => e[3] <= n) => Gaps(timing)[cmd][c] <= n
    BY <1>1, GapIs
  <2> QED
    BY <2>1, <2>2, <2>3
<1> QED
  BY <1>1, TablesAreTables DEF ChannelGap, RankGap, SiblingGap, BankGap

\* How deep check() and update_state() get with a command.
LEMMA Levels ==
  ASSUME NEW cmd \in Commands
  PROVE  /\ cmd \in Activates \cup {"RDA"} => ReachesBank(cmd)
         /\ cmd \in {"PRE", "WRA"} => ~ ReachesBank(cmd)
         /\ cmd \in Accesses => ReachesRank(cmd)
BY Scopes DEF Activates, Accesses, Reads, Writes, ReachesBank, ReachesRank

-----------------------------------------------------------------------------
(* The open-page commands sent to the banks P of a rank, of which s says   *)
(* how long ago.  Not all need be known to the device: these facts bound   *)
(* what it accepts from one side.                                          *)

\* The cycles left at a node cover the distances of the table to its places.
Waited(timing, s, places, left) ==
  \A c \in OpenPage : Passed(timing, s, c, places, left[c])

\* The cycles left in rank r and in its banks do.
DeviceWaited(d, s, r, P) ==
  /\ Waited(RankTiming, s, P, d.rank[r])
  /\ \A p \in P : Waited(BankTiming, s, {p}, d.bank[<<r, p>>])

\* What has passed in n cycles has passed in more.
LEMMA PassedLater ==
  ASSUME NEW timing, IsTable(timing), NEW C, NEW P, NEW s \in [C \X P -> Nat],
         NEW places \in SUBSET P, NEW c, NEW n \in Nat, NEW m \in Nat, n <= m,
         Passed(timing, s, c, places, n)
  PROVE  Passed(timing, s, c, places, m)
<1>1. \A e \in timing : e[3] \in Int
  BY DEF IsTable
<1>2. \A x \in DOMAIN s : s[x] \in Nat
  OBVIOUS
<1> QED
  BY <1>1, <1>2 DEF Passed

\* A node that waits for what it waited for, and for the gap after a command
\* to one of its places, covers the distances to that command too.
LEMMA WaitedSend ==
  ASSUME NEW timing, IsTable(timing), OpenPage \subseteq Commands,
         NEW P, NEW s \in [OpenPage \X P -> Nat],
         NEW cmd \in OpenPage, NEW places \in SUBSET P, NEW q \in places,
         NEW left \in [Commands -> Nat], NEW after \in [Commands -> Nat], NEW gap,
         GapMeans(gap, timing, cmd),
         \A c \in Commands : left[c] <= after[c] /\ gap[c] <= after[c],
         Waited(timing, s, places, left)
  PROVE  Waited(timing, SentTo(s, cmd, {q}), places, after)
<1> SUFFICES ASSUME NEW c \in OpenPage
             PROVE  Passed(timing, SentTo(s, cmd, {q}), c, places, after[c])
  BY DEF Waited
<1>1. c \in Commands /\ left[c] \in Nat /\ after[c] \in Nat /\ left[c] <= after[c]
  OBVIOUS
<1>2. Passed(timing, s, c, places, after[c])
  <2>1. Passed(timing, s, c, places, left[c])
    BY DEF Waited
  <2> QED
    BY <1>1, <2>1, PassedLater
<1>3. Within(timing, cmd, c, after[c])
  BY <1>1 DEF GapMeans
<1>4. {q} \in SUBSET P /\ {q} \cap places # {}
  OBVIOUS
<1> QED
  BY <1>1, <1>2, <1>3, <1>4, PassedSend

\* A command sent elsewhere changes nothing for a node.
LEMMA WaitedElsewhere ==
  ASSUME NEW timing, NEW P, NEW s \in [OpenPage \X P -> Nat], OpenPage \subseteq Commands,
         NEW cmd, NEW places \in SUBSET P, NEW q, q \notin places,
         NEW left \in [Commands -> Nat], Waited(timing, s, places, left)
  PROVE  Waited(timing, SentTo(s, cmd, {q}), places, left)
<1> SUFFICES ASSUME NEW c \in OpenPage
             PROVE  Passed(timing, SentTo(s, cmd, {q}), c, places, left[c])
  BY DEF Waited
<1>1. left[c] \in Nat /\ {q} \cap places = {} /\ Passed(timing, s, c, places, left[c])
  BY DEF Waited
<1> QED
  BY <1>1, PassedElsewhere

\* A cycle takes one off what is left, and adds one to what has passed.
LEMMA WaitedTick ==
  ASSUME NEW timing, IsTable(timing), NEW P, NEW s \in [OpenPage \X P -> Nat],
         OpenPage \subseteq Commands,
         NEW longest \in [OpenPage -> Nat],
         \A c \in OpenPage : LongEnough(longest, timing, OpenPage, c),
         NEW places \in SUBSET P,
         NEW left \in [Commands -> Nat], Waited(timing, s, places, left)
  PROVE  Waited(timing, OneMoreCycle(s, longest), places, OneLess(left))
<1> SUFFICES ASSUME NEW c \in OpenPage
             PROVE  Passed(timing, OneMoreCycle(s, longest), c, places, OneLess(left)[c])
  BY DEF Waited
<1>1. /\ c \in Commands /\ left[c] \in Nat
      /\ OneLess(left)[c] \in Nat /\ OneLess(left)[c] + 1 \in Nat
      /\ left[c] <= OneLess(left)[c] + 1
  BY OneLessIs
<1>2. Passed(timing, s, c, places, OneLess(left)[c] + 1)
  <2>1. Passed(timing, s, c, places, left[c])
    BY DEF Waited
  <2> QED
    BY <1>1, <2>1, PassedLater
<1> QED
  BY <1>1, <1>2, PassedTick

\* The rank and the bank of a command that is sent wait for what it asks for.
LEMMA DeviceWaitedSend ==
  ASSUME NEW d, NEW w, DeviceType(d, w), NEW P, NEW s \in [OpenPage \X P -> Nat],
         OpenPage \subseteq Commands, NEW r \in w.ranks, P \subseteq w.banks,
         NEW cmd \in OpenPage, NEW b \in P, DeviceWaited(d, s, r, P)
  PROVE  DeviceWaited(DeviceUpdate(d, cmd, r, b), SentTo(s, cmd, {b}), r, P)
<1>1. /\ d.rank[r] \in [Commands -> Nat] /\ d.acts[r] \in Histories
      /\ \A p \in P : d.bank[<<r, p>>] \in [Commands -> Nat]
      /\ DOMAIN d.rank = w.ranks /\ DOMAIN d.bank = w.ranks \X w.banks
      /\ <<r, b>> \in w.ranks \X w.banks /\ cmd \in Commands
  BY DEF DeviceType
<1>2. Waited(RankTiming, SentTo(s, cmd, {b}), P, DeviceUpdate(d, cmd, r, b).rank[r])
  <2> DEFINE first == Waits(d.rank[r], RankGap[cmd])
             after == Waits(first, FourActivates(d.acts[r], cmd))
  <2>1. RankGap[cmd] \in [Commands -> Nat]
    BY <1>1, GapRows
  <2>2. /\ first \in [Commands -> Nat]
        /\ \A c \in Commands : first[c] >= d.rank[r][c] /\ first[c] >= RankGap[cmd][c]
    BY <1>1, <2>1, WaitsIs
  <2> HIDE DEF first
  <2>3. FourActivates(d.acts[r], cmd) \in [Commands -> Nat]
    BY <1>1, FourActivatesIs
  <2>4. after \in [Commands -> Nat] /\ \A c \in Commands : after[c] >= first[c]
    BY <2>2, <2>3, WaitsIs
  <2>5. DeviceUpdate(d, cmd, r, b).rank[r] = after
    BY <1>1 DEF DeviceUpdate, first
  <2> HIDE DEF after
  <2>6. \A c \in Commands : d.rank[r][c] <= after[c] /\ RankGap[cmd][c] <= after[c]
    <3> TAKE c \in Commands
    <3>1. d.rank[r][c] \in Nat /\ RankGap[cmd][c] \in Nat /\ first[c] \in Nat /\ after[c] \in Nat
      BY <1>1, <2>1, <2>2, <2>4
    <3> QED
      BY <2>2, <2>4, <3>1
  <2>7. GapMeans(RankGap[cmd], RankTiming, cmd) /\ IsTable(RankTiming)
    BY <1>1, GapsMean, TablesAreTables
  <2>8. P \in SUBSET P /\ Waited(RankTiming, s, P, d.rank[r])
    BY DEF DeviceWaited
  <2> QED
    BY <1>1, <2>4, <2>5, <2>6, <2>7, <2>8, WaitedSend
<1>3. ASSUME NEW p \in P
      PROVE  Waited(BankTiming, SentTo(s, cmd, {b}), {p}, DeviceUpdate(d, cmd, r, b).bank[<<r, p>>])
  <2>1. Waited(BankTiming, s, {p}, d.bank[<<r, p>>]) /\ {p} \in SUBSET P
    BY DEF DeviceWaited
  <2>2. CASE p = b
    <3> DEFINE after == Waits(d.bank[<<r, b>>], BankGap[cmd])
    <3>1. BankGap[cmd] \in [Commands -> Nat]
      BY <1>1, GapRows
    <3>2. /\ after \in [Commands -> Nat]
          /\ \A c \in Commands : after[c] >= d.bank[<<r, b>>][c] /\ after[c] >= BankGap[cmd][c]
      BY <1>1, <3>1, WaitsIs
    <3>3. DeviceUpdate(d, cmd, r, b).bank[<<r, b>>] = after
      BY <1>1 DEF DeviceUpdate
    <3> HIDE DEF after
    <3>4. \A c \in Commands : d.bank[<<r, b>>][c] <= after[c] /\ BankGap[cmd][c] <= after[c]
      BY <1>1, <3>1, <3>2
    <3>5. GapMeans(BankGap[cmd], BankTiming, cmd) /\ IsTable(BankTiming)
      BY <1>1, GapsMean, TablesAreTables
    <3>6. b \in {b} /\ {b} \in SUBSET P /\ Waited(BankTiming, s, {b}, d.bank[<<r, b>>])
      BY <2>1, <2>2
    <3>7. Waited(BankTiming, SentTo(s, cmd, {b}), {b}, after)
      BY <1>1, <3>2, <3>4, <3>5, <3>6, WaitedSend
    <3> QED
      BY <2>2, <3>3, <3>7
  <2>3. CASE p # b
    <3>1. DeviceUpdate(d, cmd, r, b).bank[<<r, p>>] = d.bank[<<r, p>>]
      <4>1. <<r, p>> \in w.ranks \X w.banks /\ <<r, p>> # <<r, b>>
        BY <2>3
      <4> QED
        BY <1>1, <4>1 DEF DeviceUpdate
    <3>2. b \notin {p} /\ d.bank[<<r, p>>] \in [Commands -> Nat]
      BY <1>1, <2>3
    <3> QED
      BY <2>1, <3>1, <3>2, WaitedElsewhere
  <2> QED
    BY <2>2, <2>3
<1> QED
  BY <1>2, <1>3 DEF DeviceWaited

\* And so they do a cycle later.
LEMMA DeviceWaitedTick ==
  ASSUME NEW d, NEW w, DeviceType(d, w), NEW P, NEW s \in [OpenPage \X P -> Nat],
         OpenPage \subseteq Commands, NEW r \in w.ranks, P \subseteq w.banks,
         NEW longest \in [OpenPage -> Nat],
         \A c \in OpenPage : /\ LongEnough(longest, RankTiming, OpenPage, c)
                             /\ LongEnough(longest, BankTiming, OpenPage, c),
         DeviceWaited(d, s, r, P)
  PROVE  DeviceWaited(DeviceTick(d), OneMoreCycle(s, longest), r, P)
<1>1. /\ d.rank[r] \in [Commands -> Nat]
      /\ \A p \in P : d.bank[<<r, p>>] \in [Commands -> Nat]
      /\ DOMAIN d.rank = w.ranks /\ DOMAIN d.bank = w.ranks \X w.banks
  BY DEF DeviceType
<1>2. /\ DeviceTick(d).rank[r] = OneLess(d.rank[r])
      /\ \A p \in P : DeviceTick(d).bank[<<r, p>>] = OneLess(d.bank[<<r, p>>])
  <2>1. \A p \in P : <<r, p>> \in w.ranks \X w.banks
    OBVIOUS
  <2> QED
    BY <1>1, <2>1 DEF DeviceTick
<1>3. P \in SUBSET P /\ \A p \in P : {p} \in SUBSET P
  OBVIOUS
<1>4. IsTable(RankTiming) /\ IsTable(BankTiming)
  BY TablesAreTables
<1>5. Waited(RankTiming, OneMoreCycle(s, longest), P, OneLess(d.rank[r]))
  BY <1>1, <1>3, <1>4, WaitedTick DEF DeviceWaited
<1>6. \A p \in P : Waited(BankTiming, OneMoreCycle(s, longest), {p}, OneLess(d.bank[<<r, p>>]))
  BY <1>1, <1>3, <1>4, WaitedTick DEF DeviceWaited
<1> QED
  BY <1>2, <1>5, <1>6 DEF DeviceWaited

\* So a command the device accepts keeps the distances within its rank and,
\* unless it is a PRE, within its bank.
LEMMA DeviceWaitedKeeps ==
  ASSUME NEW d, NEW P, NEW s \in [OpenPage \X P -> Nat], NEW r, NEW b \in P,
         NEW cmd \in OpenPage, DeviceWaited(d, s, r, P), CommandCheck(d, cmd, r, b)
  PROVE  /\ Kept(RankTiming, s, cmd, P)
         /\ cmd # "PRE" => Kept(BankTiming, s, cmd, {b})
<1>1. ReachesRank(cmd) /\ (cmd # "PRE" => ReachesBank(cmd))
  BY Scopes DEF OpenPage, Activates, ReachesRank, ReachesBank
<1>2. d.rank[r][cmd] = 0 /\ (cmd # "PRE" => d.bank[<<r, b>>][cmd] = 0)
  BY <1>1 DEF CommandCheck
<1>3. Passed(RankTiming, s, cmd, P, d.rank[r][cmd])
      /\ Passed(BankTiming, s, cmd, {b}, d.bank[<<r, b>>][cmd])
  BY DEF DeviceWaited, Waited
<1> QED
  BY <1>2, <1>3, KeptIsPassed

\* At first nothing is left, and everything is long ago.
LEMMA DeviceWaitedInit ==
  ASSUME NEW P, NEW s \in [OpenPage \X P -> Nat], OpenPage \subseteq Commands,
         NEW ranks, NEW banks, NEW r \in ranks, P \subseteq banks,
         NEW longest \in [OpenPage -> Nat],
         \A c \in OpenPage : /\ LongEnough(longest, RankTiming, OpenPage, c)
                             /\ LongEnough(longest, BankTiming, OpenPage, c),
         \A x \in OpenPage \X P : s[x] = longest[x[1]]
  PROVE  DeviceWaited(InitDevice(ranks, banks), s, r, P)
<1>1. /\ InitDevice(ranks, banks).rank[r] = NoWait
      /\ \A p \in P : InitDevice(ranks, banks).bank[<<r, p>>] = NoWait
  BY DEF InitDevice
<1>2. ASSUME NEW timing, IsTable(timing), NEW places \in SUBSET P,
             \A c \in OpenPage : LongEnough(longest, timing, OpenPage, c)
      PROVE  Waited(timing, s, places, NoWait)
  <2> SUFFICES ASSUME NEW c \in OpenPage
               PROVE  Passed(timing, s, c, places, NoWait[c])
    BY DEF Waited
  <2>1. NoWait[c] = 0
    BY DEF NoWait
  <2>2. \A e \in timing, p \in places :
          e[2] = c /\ <<e[1], p>> \in OpenPage \X P => s[<<e[1], p>>] + 0 >= e[3]
    <3> SUFFICES ASSUME NEW e \in timing, NEW p \in places,
                        e[2] = c, <<e[1], p>> \in OpenPage \X P
                 PROVE  s[<<e[1], p>>] + 0 >= e[3]
      OBVIOUS
    <3>1. e[1] \in OpenPage /\ s[<<e[1], p>>] = longest[e[1]] /\ longest[e[1]] \in Nat
      OBVIOUS
    <3>2. e[3] <= longest[e[1]] /\ e[3] \in Int
      BY <1>2, <3>1 DEF LongEnough, IsTable
    <3> QED
      BY <3>1, <3>2
  <2> QED
    BY <2>1, <2>2 DEF Passed
<1>3. IsTable(RankTiming) /\ IsTable(BankTiming) /\ P \in SUBSET P /\ \A p \in P : {p} \in SUBSET P
  BY TablesAreTables
<1> QED
  BY <1>1, <1>2, <1>3 DEF DeviceWaited
-----------------------------------------------------------------------------
(* The same from the other side: nobody else sends commands of this rank,  *)
(* and it waits no longer than it has to.                                  *)

\* Rank r and the banks P let a command c wait for due[c] cycles at most.  For a
\* PRE the bank is not asked.
DeviceDue(d, due, r, P) ==
  \A c \in OpenPage :
    /\ d.channel[c] <= due[c] /\ d.rank[r][c] <= due[c]
    /\ c # "PRE" => \A p \in P : d.bank[<<r, p>>][c] <= due[c]

\* After cmd nothing waits for c longer than n cycles that did not before.
AddsAtMost(cmd, c, n) ==
  /\ Within(ChannelTiming, cmd, c, n) /\ Within(RankTiming, cmd, c, n)
  /\ c # "PRE" => Within(BankTiming, cmd, c, n)
  /\ cmd \in Activates /\ c \in Activates => Speed.nFAW <= n

\* What a command that is sent makes of the waits.
LEMMA DeviceDueSend ==
  ASSUME NEW d, NEW w, DeviceType(d, w), NEW P, OpenPage \subseteq Commands,
         NEW r \in w.ranks, P \subseteq w.banks, NEW cmd \in OpenPage, NEW b \in P,
         NEW due \in [OpenPage -> Nat], NEW after \in [OpenPage -> Nat],
         DeviceDue(d, due, r, P),
         \A c \in OpenPage : due[c] <= after[c] /\ AddsAtMost(cmd, c, after[c])
  PROVE  DeviceDue(DeviceUpdate(d, cmd, r, b), after, r, P)
<1>1. /\ d.channel \in [Commands -> Nat] /\ d.rank[r] \in [Commands -> Nat]
      /\ d.acts[r] \in Histories
      /\ \A p \in P : d.bank[<<r, p>>] \in [Commands -> Nat]
      /\ DOMAIN d.rank = w.ranks /\ DOMAIN d.bank = w.ranks \X w.banks
      /\ <<r, b>> \in w.ranks \X w.banks /\ cmd \in Commands
  BY DEF DeviceType
<1>2. /\ ChannelGap[cmd] \in [Commands -> Nat] /\ RankGap[cmd] \in [Commands -> Nat]
      /\ BankGap[cmd] \in [Commands -> Nat]
      /\ GapMeans(ChannelGap[cmd], ChannelTiming, cmd) /\ GapMeans(RankGap[cmd], RankTiming, cmd)
      /\ GapMeans(BankGap[cmd], BankTiming, cmd)
  BY <1>1, GapRows, GapsMean
<1> SUFFICES ASSUME NEW c \in OpenPage
             PROVE  /\ DeviceUpdate(d, cmd, r, b).channel[c] <= after[c]
                    /\ DeviceUpdate(d, cmd, r, b).rank[r][c] <= after[c]
                    /\ c # "PRE" => \A p \in P :
                         DeviceUpdate(d, cmd, r, b).bank[<<r, p>>][c] <= after[c]
  BY DEF DeviceDue
<1>3. /\ c \in Commands /\ due[c] \in Nat /\ after[c] \in Nat /\ due[c] <= after[c]
      /\ AddsAtMost(cmd, c, after[c])
  OBVIOUS
<1>4. /\ d.channel[c] \in Nat /\ d.channel[c] <= due[c]
      /\ d.rank[r][c] \in Nat /\ d.rank[r][c] <= due[c]
      /\ c # "PRE" => \A p \in P : d.bank[<<r, p>>][c] \in Nat /\ d.bank[<<r, p>>][c] <= due[c]
  BY <1>1, <1>3 DEF DeviceDue
<1>5. DeviceUpdate(d, cmd, r, b).channel[c] <= after[c]
  <2>1. ChannelGap[cmd][c] <= after[c]
    BY <1>2, <1>3 DEF GapMeans, AddsAtMost
  <2>2. DeviceUpdate(d, cmd, r, b).channel = Waits(d.channel, ChannelGap[cmd])
    BY DEF DeviceUpdate
  <2>3. d.channel[c] <= after[c]
    BY <1>3, <1>4
  <2> QED
    BY <1>1, <1>2, <1>3, <2>1, <2>2, <2>3, WaitsIs
<1>6. DeviceUpdate(d, cmd, r, b).rank[r][c] <= after[c]
  <2> DEFINE first == Waits(d.rank[r], RankGap[cmd])
             four == FourActivates(d.acts[r], cmd)
  <2>1. RankGap[cmd][c] <= after[c]
    BY <1>2, <1>3 DEF GapMeans, AddsAtMost
  <2>2. first \in [Commands -> Nat] /\ first[c] <= after[c]
    <3>1. d.rank[r][c] <= after[c]
      BY <1>3, <1>4
    <3> QED
      BY <1>1, <1>2, <1>3, <2>1, <3>1, WaitsIs
  <2>3. four \in [Commands -> Nat] /\ four[c] <= after[c]
    <3>1. d.acts[r] \in Histories /\ four \in [Commands -> Nat]
          /\ four[c] = IF cmd \in Activates /\ c \in Activates
                       THEN Speed.nFAW - d.acts[r][cmd][3] ELSE 0
      BY <1>1, <1>3, FourActivatesIs
    <3>2. CASE cmd \in Activates /\ c \in Activates
      <4>1. d.acts[r][cmd][3] \in 0 .. Speed.nFAW
        BY <3>1, <3>2 DEF Histories
      <4>2. Speed.nFAW <= after[c] /\ Speed.nFAW \in Nat
        BY <1>3, <3>2, SpeedInt DEF AddsAtMost
      <4>3. four[c] = Speed.nFAW - d.acts[r][cmd][3]
        BY <3>1, <3>2
      <4> HIDE DEF four
      <4> QED
        BY <1>3, <3>1, <4>1, <4>2, <4>3
    <3>3. CASE ~ (cmd \in Activates /\ c \in Activates)
      <4> HIDE DEF four
      <4> QED
        BY <1>3, <3>1, <3>3
    <3> QED
      BY <3>2, <3>3
  <2>4. DeviceUpdate(d, cmd, r, b).rank[r] = Waits(first, four)
    BY <1>1 DEF DeviceUpdate
  <2> HIDE DEF first, four
  <2> QED
    BY <1>3, <2>2, <2>3, <2>4, WaitsIs
<1>7. ASSUME c # "PRE", NEW p \in P
      PROVE  DeviceUpdate(d, cmd, r, b).bank[<<r, p>>][c] <= after[c]
  <2>1. d.bank[<<r, p>>][c] \in Nat /\ d.bank[<<r, p>>][c] <= after[c]
    BY <1>3, <1>4, <1>7
  <2>2. CASE p = b
    <3>1. BankGap[cmd][c] <= after[c]
      BY <1>2, <1>3, <1>7 DEF GapMeans, AddsAtMost
    <3>2. DeviceUpdate(d, cmd, r, b).bank[<<r, b>>] = Waits(d.bank[<<r, b>>], BankGap[cmd])
      BY <1>1 DEF DeviceUpdate
    <3>3. d.bank[<<r, b>>] \in [Commands -> Nat] /\ d.bank[<<r, b>>][c] <= after[c]
      BY <1>1, <2>1, <2>2
    <3>4. Waits(d.bank[<<r, b>>], BankGap[cmd])[c] <= after[c]
      BY <1>2, <1>3, <3>1, <3>3, WaitsIs
    <3> QED
      BY <2>2, <3>2, <3>4
  <2>3. CASE p # b
    <3>1. <<r, p>> \in w.ranks \X w.banks /\ <<r, p>> # <<r, b>>
      BY <2>3
    <3>2. DeviceUpdate(d, cmd, r, b).bank[<<r, p>>] = d.bank[<<r, p>>]
      BY <1>1, <3>1 DEF DeviceUpdate
    <3> QED
      BY <2>1, <3>2
  <2> QED
    BY <2>2, <2>3
<1> QED
  BY <1>5, <1>6, <1>7

\* A cycle later they wait a cycle less.
LEMMA DeviceDueTick ==
  ASSUME NEW d, NEW w, DeviceType(d, w), NEW P, OpenPage \subseteq Commands,
         NEW r \in w.ranks, P \subseteq w.banks,
         NEW due \in [OpenPage -> Nat], NEW after \in [OpenPage -> Nat],
         DeviceDue(d, due, r, P), \A c \in OpenPage : due[c] <= after[c] + 1
  PROVE  DeviceDue(DeviceTick(d), after, r, P)
<1>1. /\ d.channel \in [Commands -> Nat] /\ d.rank[r] \in [Commands -> Nat]
      /\ \A p \in P : d.bank[<<r, p>>] \in [Commands -> Nat]
      /\ DOMAIN d.rank = w.ranks /\ DOMAIN d.bank = w.ranks \X w.banks
      /\ \A p \in P : <<r, p>> \in w.ranks \X w.banks
  BY DEF DeviceType
<1>2. /\ DeviceTick(d).channel = OneLess(d.channel)
      /\ DeviceTick(d).rank[r] = OneLess(d.rank[r])
      /\ \A p \in P : DeviceTick(d).bank[<<r, p>>] = OneLess(d.bank[<<r, p>>])
  BY <1>1 DEF DeviceTick
<1>3. ASSUME NEW left \in [Commands -> Nat], NEW c \in OpenPage, left[c] <= due[c]
      PROVE  OneLess(left)[c] <= after[c]
  <2>1. left[c] \in Nat /\ due[c] \in Nat /\ after[c] \in Nat /\ due[c] <= after[c] + 1
        /\ c \in Commands
    OBVIOUS
  <2>2. left[c] <= after[c] + 1
    BY <1>3, <2>1
  <2> QED
    BY <2>1, <2>2, OneLessIs
<1> QED
  BY <1>1, <1>2, <1>3 DEF DeviceDue

\* When a command is due, the device accepts it.
LEMMA DeviceDueAccepts ==
  ASSUME NEW d, NEW w, DeviceType(d, w), NEW P, OpenPage \subseteq Commands,
         NEW r \in w.ranks, P \subseteq w.banks, NEW cmd \in OpenPage, NEW b \in P,
         NEW due \in [OpenPage -> Nat], due[cmd] = 0, DeviceDue(d, due, r, P)
  PROVE  CommandCheck(d, cmd, r, b)
<1>1. /\ d.channel[cmd] \in Nat /\ d.rank[r][cmd] \in Nat /\ d.bank[<<r, b>>][cmd] \in Nat
      /\ cmd \in Commands
  BY DEF DeviceType
<1>2. /\ d.channel[cmd] <= 0 /\ d.rank[r][cmd] <= 0
      /\ cmd # "PRE" => d.bank[<<r, b>>][cmd] <= 0
  BY DEF DeviceDue
<1>3. ReachesBank(cmd) => cmd # "PRE"
  BY <1>1, Levels
<1> QED
  BY <1>1, <1>2, <1>3 DEF CommandCheck

\* At first nothing waits.
LEMMA DeviceDueInit ==
  ASSUME NEW ranks, NEW banks, NEW r \in ranks, NEW P, P \subseteq banks,
         OpenPage \subseteq Commands, NEW due \in [OpenPage -> Nat]
  PROVE  DeviceDue(InitDevice(ranks, banks), due, r, P)
<1>1. \A c \in OpenPage : NoWait[c] = 0 /\ due[c] \in Nat
  BY DEF NoWait
<1>2. /\ InitDevice(ranks, banks).channel = NoWait
      /\ InitDevice(ranks, banks).rank[r] = NoWait
      /\ \A p \in P : InitDevice(ranks, banks).bank[<<r, p>>] = NoWait
  BY DEF InitDevice
<1>3. \A c \in OpenPage : NoWait[c] <= due[c]
  BY <1>1
<1> QED
  BY <1>2, <1>3 DEF DeviceDue
=============================================================================

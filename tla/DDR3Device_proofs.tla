-------------------------- MODULE DDR3Device_proofs --------------------------
(***************************************************************************)
(* Proofs about DDR3Device, for every speed grade, every number of ranks   *)
(* and banks, and every workload:                                          *)
(*                                                                         *)
(* AcceptsExactly, from the inductive invariant Exact: the number a node   *)
(* keeps for a command is exactly the longest wait its tables ask for, in  *)
(* terms of the ages since records, and the ages kept of the last three    *)
(* activates of a kind are those of the window.  "The number is at most n" *)
(* stands for the number: it says of every n when the waiting is over.     *)
(*                                                                         *)
(* OpenNeverActivated, from PictureSafe: a bank that is open in the chip   *)
(* is open, with that row, in the device's picture.                        *)
(*                                                                         *)
(* BusNeverShared, from BusSpaced: an access waits, at the channel or at   *)
(* the rank, until its burst comes after those that are on their way.      *)
(***************************************************************************)
EXTENDS DDR3Device, DDR3_proofs, FiniteSetTheorems

-----------------------------------------------------------------------------
(* The window of four activates.                                           *)

\* The activates of the last nFAW cycles in ranks R.
Window(R) == [kind : Activates, rank : R, age : 0 .. Speed.nFAW - 1]

\* Those of a kind and a rank that will still be in the window n cycles from now.
Recent(w, r, a, n) == {x \in w : x.kind = a /\ x.rank = r /\ x.age + n < Speed.nFAW}

\* Growing older, activates stay as many as they were.
LEMMA AgedCount ==
  ASSUME NEW R, NEW w \in SUBSET Window(R), IsFiniteSet(w)
  PROVE  IsFiniteSet(Aged(w)) /\ Cardinality(Aged(w)) = Cardinality(w)
<1> DEFINE f == [x \in w |-> [x EXCEPT !.age = @ + 1]]
<1>1. \A x \in w : x \in Window(R)
  OBVIOUS
<1>2. \A x \in w : f[x] = [kind |-> x.kind, rank |-> x.rank, age |-> x.age + 1]
  BY <1>1 DEF Window
<1>3. \A x \in w, y \in w : f[x] = f[y] => x = y
  <2> SUFFICES ASSUME NEW x \in w, NEW y \in w, f[x] = f[y]
               PROVE  x = y
    OBVIOUS
  <2>1. x.kind = y.kind /\ x.rank = y.rank /\ x.age + 1 = y.age + 1
    BY <1>2
  <2> QED
    BY <1>1, <2>1, SpeedInt DEF Window
<1>4. f \in [w -> Aged(w)] /\ \A z \in Aged(w) : \E x \in w : f[x] = z
  BY DEF Aged
<1> HIDE DEF f
<1>5. f \in Bijection(w, Aged(w))
  BY <1>3, <1>4 DEF Bijection, Injection, Surjection, IsInjective
<1> QED
  BY <1>5, FS_Bijection DEF ExistsBijection

\* Window v is window w a cycle later.
OneLater(w, v) ==
  \A r, a : \A n \in Nat :
    Cardinality(Recent(v, r, a, n)) = Cardinality(Recent(w, r, a, n + 1))

\* A cycle takes the activates out of the window that are nFAW cycles old.
LEMMA WindowTick ==
  ASSUME NEW R, NEW w \in SUBSET Window(R), IsFiniteSet(w), NEW v,
         v = {x \in Aged(w) : x.age < Speed.nFAW}
  PROVE  /\ v \in SUBSET Window(R) /\ IsFiniteSet(v)
         /\ \A x \in v : x.age # 0
         /\ OneLater(w, v)
<1>1. \A x \in w : /\ x \in Window(R) /\ x.age \in Nat
                   /\ [x EXCEPT !.age = @ + 1]
                        = [kind |-> x.kind, rank |-> x.rank, age |-> x.age + 1]
  BY DEF Window
<1>2. \A z \in Aged(w) : \E x \in w : z = [kind |-> x.kind, rank |-> x.rank, age |-> x.age + 1]
  BY <1>1 DEF Aged
<1>3. \A x \in w : [kind |-> x.kind, rank |-> x.rank, age |-> x.age + 1] \in Aged(w)
  BY <1>1 DEF Aged
<1>4. v \in SUBSET Window(R) /\ \A x \in v : x.age # 0
  <2> SUFFICES ASSUME NEW z \in v PROVE z \in Window(R) /\ z.age # 0
    OBVIOUS
  <2>1. PICK x \in w : z = [kind |-> x.kind, rank |-> x.rank, age |-> x.age + 1]
    BY <1>2
  <2> QED
    BY <1>1, <2>1, SpeedInt DEF Window
<1>5. IsFiniteSet(v)
  BY AgedCount, FS_Subset
<1>6. ASSUME NEW r, NEW a, NEW n \in Nat
      PROVE  Cardinality(Recent(v, r, a, n)) = Cardinality(Recent(w, r, a, n + 1))
  <2>1. Recent(w, r, a, n + 1) \in SUBSET w /\ IsFiniteSet(Recent(w, r, a, n + 1))
    BY FS_Subset DEF Recent
  <2>2. Recent(v, r, a, n) = Aged(Recent(w, r, a, n + 1))
    <3>1. ASSUME NEW z \in Recent(v, r, a, n)
          PROVE  z \in Aged(Recent(w, r, a, n + 1))
      <4>1. PICK x \in w : z = [x EXCEPT !.age = @ + 1]
        BY DEF Recent, Aged
      <4>2. z.kind = a /\ z.rank = r /\ z.age + n < Speed.nFAW
        BY <3>1 DEF Recent
      <4>3. x.kind = a /\ x.rank = r /\ z.age = x.age + 1 /\ x.age \in Nat
        BY <1>1, <4>1, <4>2
      <4>4. x.age + (n + 1) < Speed.nFAW
        BY <4>2, <4>3, SpeedInt
      <4> QED
        BY <4>1, <4>3, <4>4 DEF Aged, Recent
    <3>2. ASSUME NEW z \in Aged(Recent(w, r, a, n + 1))
          PROVE  z \in Recent(v, r, a, n)
      <4>1. PICK x \in Recent(w, r, a, n + 1) : z = [x EXCEPT !.age = @ + 1]
        BY DEF Aged
      <4>2. /\ x \in w /\ x.kind = a /\ x.rank = r /\ x.age + (n + 1) < Speed.nFAW
        BY <4>1 DEF Recent
      <4>3. z \in Aged(w) /\ z.kind = a /\ z.rank = r /\ z.age = x.age + 1
        BY <1>1, <4>1, <4>2 DEF Aged
      <4>4. x.age \in Nat
        BY <1>1, <4>2
      <4>5. z.age < Speed.nFAW /\ z.age + n < Speed.nFAW
        BY <4>2, <4>3, <4>4, SpeedInt
      <4> QED
        BY <4>3, <4>5 DEF Recent
    <3> QED
      BY <3>1, <3>2
  <2>3. Recent(w, r, a, n + 1) \in SUBSET Window(R)
    BY <2>1
  <2> QED
    BY <2>1, <2>2, <2>3, AgedCount
<1> QED
  BY <1>4, <1>5, <1>6 DEF OneLater

\* Window v is window w with one activate more, of this kind and rank.
OneMore(w, v, kind, rank) ==
  \A r, a : \A n \in Nat :
    /\ r = rank /\ a = kind /\ n < Speed.nFAW =>
         Cardinality(Recent(v, r, a, n)) = Cardinality(Recent(w, r, a, n)) + 1
    /\ r # rank \/ a # kind \/ n >= Speed.nFAW =>
         Cardinality(Recent(v, r, a, n)) = Cardinality(Recent(w, r, a, n))

\* An activate joins the window, where none has its age.
LEMMA WindowSend ==
  ASSUME NEW R, NEW w \in SUBSET Window(R), IsFiniteSet(w), \A x \in w : x.age # 0,
         NEW kind \in Activates, NEW rank \in R, NEW v,
         v = w \cup {[kind |-> kind, rank |-> rank, age |-> 0]}
  PROVE  /\ v \in SUBSET Window(R) /\ IsFiniteSet(v)
         /\ OneMore(w, v, kind, rank)
<1> DEFINE new == [kind |-> kind, rank |-> rank, age |-> 0]
<1>1. new \in Window(R)
  BY SpeedInt DEF Window
<1>2. IsFiniteSet(v)
  BY FS_AddElement
<1>3. ASSUME NEW r, NEW a, NEW n \in Nat
      PROVE  /\ r = rank /\ a = kind /\ n < Speed.nFAW =>
                   Cardinality(Recent(v, r, a, n)) = Cardinality(Recent(w, r, a, n)) + 1
             /\ r # rank \/ a # kind \/ n >= Speed.nFAW =>
                   Cardinality(Recent(v, r, a, n)) = Cardinality(Recent(w, r, a, n))
  <2> DEFINE S == Recent(w, r, a, n)
  <2>1. IsFiniteSet(S)
    BY FS_Subset DEF Recent
  <2>2. new.kind = kind /\ new.rank = rank /\ new.age = 0 /\ 0 + n = n
    OBVIOUS
  <2>3. new \notin S
    BY <2>2 DEF Recent
  <2>4. ASSUME r = rank, a = kind, n < Speed.nFAW
        PROVE  Recent(v, r, a, n) = S \cup {new}
    BY <2>2, <2>4 DEF Recent
  <2>5. ASSUME r # rank \/ a # kind \/ n >= Speed.nFAW
        PROVE  Recent(v, r, a, n) = S
    BY <2>2, <2>5, SpeedInt DEF Recent
  <2> HIDE DEF S, new
  <2>6. Cardinality(S \cup {new}) = Cardinality(S) + 1
    BY <2>1, <2>3, FS_AddElement
  <2> QED
    BY <2>4, <2>5, <2>6 DEF S
<1> QED
  BY <1>1, <1>2, <1>3 DEF OneMore

\* The k-th age the device keeps is that of the k-th last activate in the window.
Linked(acts, w, r) ==
  \A a \in Activates, k \in 1 .. 3, n \in Nat :
    acts[a][k] + n < Speed.nFAW <=> Cardinality(Recent(w, r, a, n)) >= k

\* The activates of a window can be counted.
LEMMA CountIsNat ==
  ASSUME NEW w, IsFiniteSet(w), NEW r, NEW a, NEW n
  PROVE  Cardinality(Recent(w, r, a, n)) \in Nat
<1>1. IsFiniteSet(Recent(w, r, a, n))
  BY FS_Subset DEF Recent
<1> QED
  BY <1>1, FS_CardinalityType

\* The window holds fewer than four activates of a kind from this wait on.
WindowEnds(acts, w, r, kind) ==
  \A n \in Nat : Cardinality(Recent(w, r, kind, n)) < 4 <=> Speed.nFAW - acts[kind][3] <= n

\* An activate of the rank: the history and the window grow together, and its
\* nFAW window is over when there are fewer than four in it.
LEMMA LinkedSend ==
  ASSUME NEW R, NEW w \in SUBSET Window(R), IsFiniteSet(w), \A x \in w : x.age # 0,
         NEW cmd \in Activates, cmd \in Commands, NEW r \in R, NEW acts \in Histories,
         NEW v, v = w \cup {[kind |-> cmd, rank |-> r, age |-> 0]},
         Linked(acts, w, r)
  PROVE  /\ Linked(History(acts, cmd), v, r)
         /\ WindowEnds(acts, v, r, cmd)
<1>1. /\ \A a \in Activates, n \in Nat : Cardinality(Recent(w, r, a, n)) \in Nat
      /\ \A a \in Activates, n \in Nat :
           /\ a = cmd /\ n < Speed.nFAW =>
                   Cardinality(Recent(v, r, a, n)) = Cardinality(Recent(w, r, a, n)) + 1
           /\ a # cmd \/ n >= Speed.nFAW =>
                   Cardinality(Recent(v, r, a, n)) = Cardinality(Recent(w, r, a, n))
  <2>1. OneMore(w, v, cmd, r)
    BY WindowSend
  <2> QED
    BY <2>1, CountIsNat DEF OneMore
<1>2. \A a \in Activates, k \in 1 .. 3 :
        /\ acts[a][k] \in 0 .. Speed.nFAW
        /\ History(acts, cmd)[a][k] = IF a # cmd THEN acts[a][k]
                                      ELSE IF k = 1 THEN 0 ELSE acts[a][k - 1]
  BY HistoryIs DEF Histories
<1>3. \A a \in Activates, k \in 1 .. 3, n \in Nat :
        acts[a][k] + n < Speed.nFAW <=> Cardinality(Recent(w, r, a, n)) >= k
  BY DEF Linked
<1>4. ASSUME NEW a \in Activates, NEW k \in 1 .. 3, NEW n \in Nat
      PROVE  History(acts, cmd)[a][k] + n < Speed.nFAW <=> Cardinality(Recent(v, r, a, n)) >= k
  <2>1. CASE a # cmd
    BY <1>1, <1>2, <1>3, <2>1
  <2>2. CASE a = cmd /\ n >= Speed.nFAW
    <3>1. ~ Cardinality(Recent(w, r, a, n)) >= 1
      <4>1. 1 \in 1 .. 3 /\ ~ acts[a][1] + n < Speed.nFAW
        BY <1>2, <2>2, SpeedInt
      <4> QED
        BY <1>3, <4>1
    <3>2. Cardinality(Recent(v, r, a, n)) = Cardinality(Recent(w, r, a, n))
      BY <1>1, <2>2, SpeedInt
    <3>3. ~ Cardinality(Recent(v, r, a, n)) >= k
      BY <1>1, <3>1, <3>2
    <3>4. History(acts, cmd)[a][k] \in Nat
      <4>1. k # 1 => k - 1 \in 1 .. 3
        OBVIOUS
      <4> QED
        BY <1>2, <4>1, SpeedInt
    <3> QED
      BY <2>2, <3>3, <3>4, SpeedInt
  <2>3. CASE a = cmd /\ n < Speed.nFAW
    <3>1. Cardinality(Recent(v, r, a, n)) = Cardinality(Recent(w, r, a, n)) + 1
      BY <1>1, <2>3
    <3>2. CASE k = 1
      BY <1>1, <1>2, <2>3, <3>1, <3>2
    <3>3. CASE k # 1
      <4>1. k - 1 \in 1 .. 3 /\ History(acts, cmd)[a][k] = acts[a][k - 1]
        BY <1>2, <2>3, <3>3
      <4>2. acts[a][k - 1] + n < Speed.nFAW <=> Cardinality(Recent(w, r, a, n)) >= k - 1
        BY <1>3, <4>1
      <4> QED
        BY <1>1, <3>1, <4>1, <4>2
    <3> QED
      BY <3>2, <3>3
  <2> QED
    BY <2>1, <2>2, <2>3, SpeedInt
<1>5. ASSUME NEW n \in Nat
      PROVE  Cardinality(Recent(v, r, cmd, n)) < 4 <=> Speed.nFAW - acts[cmd][3] <= n
  <2>1. 3 \in 1 .. 3 /\ 1 \in 1 .. 3
    OBVIOUS
  <2>2. acts[cmd][3] + n < Speed.nFAW <=> Cardinality(Recent(w, r, cmd, n)) >= 3
    BY <1>3, <2>1
  <2>3. acts[cmd][3] \in 0 .. Speed.nFAW
    BY <1>2, <2>1
  <2>4. CASE n < Speed.nFAW
    <3>1. Cardinality(Recent(v, r, cmd, n)) = Cardinality(Recent(w, r, cmd, n)) + 1
      BY <1>1, <2>4
    <3>2. Cardinality(Recent(w, r, cmd, n)) \in Nat
      BY <1>1
    <3> QED
      BY <2>2, <2>3, <3>1, <3>2, SpeedInt
  <2>5. CASE n >= Speed.nFAW
    <3>1. Cardinality(Recent(v, r, cmd, n)) = Cardinality(Recent(w, r, cmd, n))
      BY <1>1, <2>5, SpeedInt
    <3>2. Cardinality(Recent(w, r, cmd, n)) \in Nat
      BY <1>1
    <3> QED
      BY <2>2, <2>3, <2>5, <3>1, <3>2, SpeedInt
  <2> QED
    BY <2>4, <2>5, SpeedInt
<1> QED
  BY <1>4, <1>5 DEF Linked, WindowEnds

\* The ages and the window grow old together.
LEMMA LinkedTick ==
  ASSUME NEW R, NEW w \in SUBSET Window(R), IsFiniteSet(w), NEW v,
         v = {x \in Aged(w) : x.age < Speed.nFAW},
         NEW r \in R, NEW acts \in Histories, Linked(acts, w, r)
  PROVE  Linked([a \in Activates |-> [k \in 1 .. 3 |-> Min({Speed.nFAW, acts[a][k] + 1})]], v, r)
<1> SUFFICES ASSUME NEW a \in Activates, NEW k \in 1 .. 3, NEW n \in Nat
             PROVE  Min({Speed.nFAW, acts[a][k] + 1}) + n < Speed.nFAW
                      <=> Cardinality(Recent(v, r, a, n)) >= k
  BY DEF Linked
<1>1. Cardinality(Recent(v, r, a, n)) = Cardinality(Recent(w, r, a, n + 1))
  <2>1. OneLater(w, v)
    BY WindowTick
  <2> QED
    BY <2>1 DEF OneLater
<1>2. acts[a][k] + (n + 1) < Speed.nFAW <=> Cardinality(Recent(w, r, a, n + 1)) >= k
  BY DEF Linked
<1>3. acts[a][k] \in 0 .. Speed.nFAW
  BY DEF Histories
<1>4. acts[a][k] + 1 \in Int /\ Speed.nFAW \in Int
  BY <1>3, SpeedInt
<1>5. Min({Speed.nFAW, acts[a][k] + 1})
        = IF Speed.nFAW <= acts[a][k] + 1 THEN Speed.nFAW ELSE acts[a][k] + 1
  BY <1>4, Smaller
<1>6. Min({Speed.nFAW, acts[a][k] + 1}) + n < Speed.nFAW <=> acts[a][k] + (n + 1) < Speed.nFAW
  BY <1>3, <1>5, SpeedInt
<1> QED
  BY <1>1, <1>2, <1>6

-----------------------------------------------------------------------------
(* The numbers of the device.                                              *)

\* The types of the variables the first invariant is about: the activate of
\* this cycle, if any, is the only one of age 0.
TypeOK ==
  /\ workload \in Workloads
  /\ DeviceType(dev, workload)
  /\ since \in [workload.commands \X Places -> Nat]
  /\ window \in SUBSET Window(workload.ranks) /\ IsFiniteSet(window)
  /\ ~ sent => \A x \in window : x.age # 0

\* Each node's number is exactly the longest wait its tables ask for.
ChannelExact ==
  \A c \in workload.commands, n \in Nat :
    dev.channel[c] <= n <=> Passed(ChannelTiming, since, c, Places, n)

\* Of a rank, with what its siblings' commands and the four activates ask for.
RankExact ==
  \A r \in workload.ranks, c \in workload.commands, n \in Nat :
    dev.rank[r][c] <= n <=>
      /\ Passed(RankTiming, since, c, InRank(r), n)
      /\ Passed(SiblingTiming, since, c, Places \ InRank(r), n)
      /\ c \in Activates => \A a \in Activates : Cardinality(Recent(window, r, a, n)) < 4

\* Of a bank.
BankExact ==
  \A p \in Places, c \in workload.commands, n \in Nat :
    dev.bank[p][c] <= n <=> Passed(BankTiming, since, c, {p}, n)

\* The device's ages of activates are those of the window.
HistoryLinked == \A r \in workload.ranks : Linked(dev.acts[r], window, r)

\* The inductive invariant for AcceptsExactly.
Exact == TypeOK /\ ChannelExact /\ RankExact /\ BankExact /\ HistoryLinked

\* A workload uses commands of the device.
LEMMA CommandsOf ==
  ASSUME TypeOK
  PROVE  workload.commands \subseteq Commands
BY DeviceAssumption DEF TypeOK

\* The banks a command is for are in its rank, and its own is among them.
LEMMA ForIs ==
  ASSUME NEW cmd, NEW r, NEW b, <<r, b>> \in Places
  PROVE  /\ For(cmd, r, b) \in SUBSET Places /\ For(cmd, r, b) \subseteq InRank(r)
         /\ <<r, b>> \in For(cmd, r, b)
         /\ cmd \in OpenPage \cup Accesses => For(cmd, r, b) = {<<r, b>>}
BY DEF For, InRank

\* The commands the banks' table knows are for one bank.
LEMMA BankSenders == \A e \in BankTiming : e[1] \in OpenPage \cup Accesses
BY DEF BankTiming, After, OpenPage, Accesses, Activates, Reads, Writes

\* since counts until no table asks for the command any more.
LEMMA ForgottenIs ==
  /\ Forgotten \in [Commands -> Nat]
  /\ \A e \in Tables : e[1] \in Commands => e[3] <= Forgotten[e[1]]
<1> SUFFICES ASSUME NEW c \in Commands
             PROVE  /\ Forgotten[c] \in Nat
                    /\ \A e \in Tables : e[1] = c => e[3] <= Forgotten[c]
  BY DEF Forgotten
<1> DEFINE T == {x \in Tables : x[1] = c}
<1>1. Forgotten[c] = Max({0} \cup {e[3] : e \in T})
  BY DEF Forgotten
<1>2. IsTable(Tables)
  BY TablesAreTables, BothAreTables DEF Tables
<1>3. IsTable(T)
  BY <1>2 DEF IsTable
<1>4. \A e \in Tables : e[1] = c => e \in T
  OBVIOUS
<1> HIDE DEF T
<1> QED
  BY <1>1, <1>3, <1>4, LongestIs

\* No activate is in an empty window.
LEMMA EmptyWindow ==
  \A r, a : \A n : Cardinality(Recent({}, r, a, n)) = 0
<1>1. \A r, a, n : Recent({}, r, a, n) = {}
  BY DEF Recent
<1> QED
  BY <1>1, FS_EmptySet

\* Nothing has been sent, and nothing waits.
LEMMA ExactInit == Init => Exact
<1> SUFFICES ASSUME Init PROVE Exact
  OBVIOUS
<1>1. workload.commands \subseteq Commands
  BY DeviceAssumption DEF Init
<1>2. NoWait \in [Commands -> Nat] /\ NoHistory \in [1 .. 3 -> 0 .. Speed.nFAW]
  BY SpeedInt DEF NoWait, NoHistory
<1>3. since \in [workload.commands \X Places -> Nat]
  BY <1>1, ForgottenIs DEF Init
<1>4. TypeOK
  BY <1>2, <1>3, FS_EmptySet DEF Init, TypeOK, DeviceType, InitDevice, Histories, Places
<1>5. ASSUME NEW timing, timing \subseteq Tables, IsTable(timing), NEW c, NEW places, NEW n \in Nat
      PROVE  Passed(timing, since, c, places, n)
  <2> SUFFICES ASSUME NEW e \in timing, NEW p \in places, <<e[1], p>> \in DOMAIN since
               PROVE  since[<<e[1], p>>] + n >= e[3]
    BY DEF Passed
  <2>1. e[3] \in Int
    BY <1>5 DEF IsTable
  <2>2. since[<<e[1], p>>] = Forgotten[e[1]] /\ e[1] \in Commands
    BY <1>1 DEF Init
  <2>3. Forgotten[e[1]] \in Nat /\ e[3] <= Forgotten[e[1]]
    BY <1>5, <2>2, ForgottenIs
  <2> QED
    BY <2>1, <2>2, <2>3
<1>6. /\ \A c \in Commands : dev.channel[c] = 0
      /\ \A r \in workload.ranks, c \in Commands : dev.rank[r][c] = 0
      /\ \A p \in Places, c \in Commands : dev.bank[p][c] = 0
  BY DEF Init, InitDevice, NoWait, Places
<1>7. ChannelTiming \subseteq Tables /\ RankTiming \subseteq Tables
      /\ SiblingTiming \subseteq Tables /\ BankTiming \subseteq Tables
  BY DEF Tables
<1>8. ChannelExact
  BY <1>1, <1>5, <1>6, <1>7, TablesAreTables DEF ChannelExact
<1>9. RankExact
  <2>1. \A r, a : \A n : Cardinality(Recent(window, r, a, n)) = 0
    BY EmptyWindow DEF Init
  <2>2. \A r, a : \A n : Cardinality(Recent(window, r, a, n)) < 4
    BY <2>1
  <2> QED
    BY <1>1, <1>5, <1>6, <1>7, <2>2, TablesAreTables DEF RankExact
<1>10. BankExact
  BY <1>1, <1>5, <1>6, <1>7, TablesAreTables DEF BankExact
<1>11. HistoryLinked
  <2> SUFFICES ASSUME NEW r \in workload.ranks, NEW a \in Activates, NEW k \in 1 .. 3, NEW n \in Nat
               PROVE  dev.acts[r][a][k] + n < Speed.nFAW
                        <=> Cardinality(Recent(window, r, a, n)) >= k
    BY DEF HistoryLinked, Linked
  <2>1. dev.acts[r][a][k] = Speed.nFAW
    BY DEF Init, InitDevice, NoHistory
  <2>2. Cardinality(Recent(window, r, a, n)) = 0
    BY EmptyWindow DEF Init
  <2> QED
    BY <2>1, <2>2, SpeedInt
<1> QED
  BY <1>4, <1>8, <1>9, <1>10, <1>11 DEF Exact

\* Send keeps the types, and records whom the command was for.
LEMMA TypeSend ==
  ASSUME TypeOK, NEW cmd \in workload.commands, NEW p \in Places, NEW row \in workload.rows,
         Send(cmd, p[1], p[2], row)
  PROVE  /\ TypeOK' /\ workload' = workload
         /\ since' = SentTo(since, cmd, For(cmd, p[1], p[2]))
         /\ cmd \in Commands /\ p[1] \in workload.ranks /\ p[2] \in workload.banks
         /\ p = <<p[1], p[2]>>
<1>1. cmd \in Commands /\ p[1] \in workload.ranks /\ p[2] \in workload.banks /\ p = <<p[1], p[2]>>
  BY CommandsOf DEF Places
<1>2. workload' = workload /\ since' = SentTo(since, cmd, For(cmd, p[1], p[2]))
  BY DEF Send, SentTo
<1>3. DeviceType(dev', workload)
  BY <1>1, UpdateType DEF TypeOK, Send
<1>4. since' \in [workload.commands \X Places -> Nat]
  BY DEF TypeOK, Send
<1>5. window' \in SUBSET Window(workload.ranks) /\ IsFiniteSet(window')
  <2>1. CASE cmd \in Activates
    <3>1. window' = window \cup {[kind |-> cmd, rank |-> p[1], age |-> 0]}
      BY <2>1 DEF Send
    <3>2. \A x \in window : x.age # 0
      BY DEF TypeOK, Send
    <3>3. window \in SUBSET Window(workload.ranks) /\ IsFiniteSet(window)
      BY DEF TypeOK
    <3> DEFINE R == workload.ranks
               v == window'
               rank == p[1]
    <3>4. rank \in R /\ v = window \cup {[kind |-> cmd, rank |-> rank, age |-> 0]}
      BY <1>1, <3>1
    <3> HIDE DEF R, v, rank
    <3>5. window \in SUBSET Window(R)
      BY <3>3 DEF R
    <3>6. v \in SUBSET Window(R) /\ IsFiniteSet(v)
      BY <2>1, <3>2, <3>3, <3>4, <3>5, WindowSend
    <3> QED
      BY <3>6 DEF R, v
  <2>2. CASE cmd \notin Activates
    BY <2>2 DEF Send, TypeOK
  <2> QED
    BY <2>1, <2>2
<1>6. Places' = Places
  BY <1>2 DEF Places
<1> QED
  BY <1>1, <1>2, <1>3, <1>4, <1>5, <1>6 DEF TypeOK, Send

\* Clock keeps the types, and lets all ages grow.
LEMMA TypeClock ==
  ASSUME TypeOK, Clock
  PROVE  TypeOK' /\ since' = OneMoreCycle(since, Forgotten)
<1>1. workload' = workload /\ Places' = Places
  BY DEF Clock, Places
<1>2. since' = OneMoreCycle(since, Forgotten)
  BY DEF Clock, OneMoreCycle
<1>3. DeviceType(dev', workload)
  BY TickType DEF TypeOK, Clock
<1>4. ASSUME NEW x \in workload.commands \X Places
      PROVE  Min({Forgotten[x[1]], since[x] + 1}) \in Nat
  <2>1. Forgotten[x[1]] \in Nat /\ since[x] + 1 \in Nat
    BY CommandsOf, ForgottenIs DEF TypeOK
  <2>2. Min({Forgotten[x[1]], since[x] + 1})
          = IF Forgotten[x[1]] <= since[x] + 1 THEN Forgotten[x[1]] ELSE since[x] + 1
    BY <2>1, Smaller
  <2> QED
    BY <2>1, <2>2
<1>5. since' \in [workload.commands \X Places -> Nat]
  BY <1>4 DEF TypeOK, Clock
<1>6. /\ window' \in SUBSET Window(workload.ranks) /\ IsFiniteSet(window')
      /\ \A x \in window' : x.age # 0
  <2>1. window \in SUBSET Window(workload.ranks) /\ IsFiniteSet(window)
    BY DEF TypeOK
  <2>2. window' = {x \in Aged(window) : x.age < Speed.nFAW}
    BY DEF Clock
  <2> QED
    BY <2>1, <2>2, WindowTick
<1> QED
  BY <1>1, <1>2, <1>3, <1>5, <1>6 DEF TypeOK, Clock

\* A command keeps the channel exact.
LEMMA ChannelSend ==
  ASSUME Exact, NEW cmd \in workload.commands, NEW p \in Places, NEW row \in workload.rows,
         Send(cmd, p[1], p[2], row)
  PROVE  ChannelExact'
<1> DEFINE for == For(cmd, p[1], p[2])
<1>0. TypeOK
  BY DEF Exact
<1>1. /\ workload' = workload /\ since' = SentTo(since, cmd, for)
      /\ cmd \in Commands /\ p = <<p[1], p[2]>>
  BY <1>0, TypeSend
<1>2. Places' = Places
  BY <1>1 DEF Places
<1>3. for \in SUBSET Places /\ for \cap Places # {}
  BY <1>1, ForIs
<1>4. dev'.channel = Waits(dev.channel, ChannelGap[cmd])
  BY DEF Send, DeviceUpdate
<1> SUFFICES ASSUME NEW c \in workload.commands, NEW n \in Nat
             PROVE  Waits(dev.channel, ChannelGap[cmd])[c] <= n
                      <=> Passed(ChannelTiming, SentTo(since, cmd, for), c, Places, n)
  BY <1>1, <1>2, <1>4 DEF ChannelExact
<1>5. dev.channel[c] <= n <=> Passed(ChannelTiming, since, c, Places, n)
  BY DEF Exact, ChannelExact
<1>6. /\ dev.channel \in [Commands -> Nat] /\ ChannelGap[cmd] \in [Commands -> Nat]
      /\ since \in [workload.commands \X Places -> Nat] /\ c \in Commands
  BY <1>0, <1>1, GapRows, CommandsOf DEF TypeOK, DeviceType
<1>7. ChannelGap[cmd][c] <= n <=> Within(ChannelTiming, cmd, c, n)
  BY <1>1, <1>6, GapsMean DEF GapMeans
<1>8. Waits(dev.channel, ChannelGap[cmd])[c] <= n <=> dev.channel[c] <= n /\ ChannelGap[cmd][c] <= n
  BY <1>6, WaitsIs
<1> HIDE DEF for
<1>9. Passed(ChannelTiming, SentTo(since, cmd, for), c, Places, n)
        <=> Passed(ChannelTiming, since, c, Places, n) /\ Within(ChannelTiming, cmd, c, n)
  BY <1>3, <1>6, TablesAreTables, PassedSend
<1> QED
  BY <1>5, <1>7, <1>8, <1>9

\* It keeps every bank exact, its own and the others.
LEMMA BankSend ==
  ASSUME Exact, NEW cmd \in workload.commands, NEW p \in Places, NEW row \in workload.rows,
         Send(cmd, p[1], p[2], row)
  PROVE  BankExact'
<1> DEFINE for == For(cmd, p[1], p[2])
<1>0. TypeOK
  BY DEF Exact
<1>1. /\ workload' = workload /\ since' = SentTo(since, cmd, for)
      /\ cmd \in Commands /\ p = <<p[1], p[2]>>
  BY <1>0, TypeSend
<1>2. Places' = Places
  BY <1>1 DEF Places
<1>3. for \in SUBSET Places /\ p \in for /\ (cmd \in OpenPage \cup Accesses => for = {p})
  BY <1>1, ForIs
<1>4. \A q \in Places : dev'.bank[q] = IF q = p THEN Waits(dev.bank[q], BankGap[cmd]) ELSE dev.bank[q]
  BY <1>0, <1>1 DEF Send, DeviceUpdate, TypeOK, DeviceType, Places
<1> SUFFICES ASSUME NEW q \in Places, NEW c \in workload.commands, NEW n \in Nat
             PROVE  dev'.bank[q][c] <= n
                      <=> Passed(BankTiming, SentTo(since, cmd, for), c, {q}, n)
  BY <1>1, <1>2 DEF BankExact
<1>5. dev.bank[q][c] <= n <=> Passed(BankTiming, since, c, {q}, n)
  BY DEF Exact, BankExact
<1>6. /\ dev.bank[q] \in [Commands -> Nat] /\ BankGap[cmd] \in [Commands -> Nat]
      /\ since \in [workload.commands \X Places -> Nat] /\ c \in Commands
  BY <1>0, <1>1, GapRows, CommandsOf DEF TypeOK, DeviceType, Places
<1> HIDE DEF for
<1>7. CASE q = p
  <2>1. BankGap[cmd][c] <= n <=> Within(BankTiming, cmd, c, n)
    BY <1>1, <1>6, GapsMean DEF GapMeans
  <2>2. Waits(dev.bank[q], BankGap[cmd])[c] <= n <=> dev.bank[q][c] <= n /\ BankGap[cmd][c] <= n
    BY <1>6, WaitsIs
  <2>3. Passed(BankTiming, SentTo(since, cmd, for), c, {q}, n)
          <=> Passed(BankTiming, since, c, {q}, n) /\ Within(BankTiming, cmd, c, n)
    <3> DEFINE places == {q}
    <3>1. for \cap places # {} /\ places \in SUBSET Places /\ for \in SUBSET Places
      BY <1>3, <1>7
    <3>2. since \in [workload.commands \X Places -> Nat]
      BY <1>6
    <3> HIDE DEF places
    <3>3. Passed(BankTiming, SentTo(since, cmd, for), c, places, n)
            <=> Passed(BankTiming, since, c, places, n) /\ Within(BankTiming, cmd, c, n)
      BY <3>1, <3>2, TablesAreTables, PassedSend
    <3> QED
      BY <3>3 DEF places
  <2> QED
    BY <1>4, <1>5, <1>7, <2>1, <2>2, <2>3
<1>8. CASE q # p
  <2>1. for \cap {q} = {} \/ \A e \in BankTiming : e[1] # cmd
    BY <1>3, <1>8, BankSenders
  <2>2. {q} \in SUBSET Places
    OBVIOUS
  <2>3. Passed(BankTiming, SentTo(since, cmd, for), c, {q}, n)
          <=> Passed(BankTiming, since, c, {q}, n)
    BY <1>6, <2>1, <2>2, PassedElsewhere
  <2> QED
    BY <1>4, <1>5, <1>8, <2>3
<1> QED
  BY <1>7, <1>8

\* It keeps every rank exact, its own by the tables of a rank and the four
\* activates, the others by that of siblings, and the ages linked to the window.
LEMMA RankSend ==
  ASSUME Exact, NEW cmd \in workload.commands, NEW p \in Places, NEW row \in workload.rows,
         Send(cmd, p[1], p[2], row)
  PROVE  RankExact' /\ HistoryLinked'
<1> DEFINE for == For(cmd, p[1], p[2])
           R == workload.ranks
           v == window'
           rank == p[1]
<1>0. TypeOK
  BY DEF Exact
<1>1. /\ workload' = workload /\ since' = SentTo(since, cmd, for)
      /\ cmd \in Commands /\ p = <<p[1], p[2]>> /\ rank \in R
  BY <1>0, TypeSend
<1>2. Places' = Places
  BY <1>1 DEF Places
<1>3. /\ for \in SUBSET Places /\ p \in for /\ for \subseteq InRank(rank)
      /\ \A r : InRank(r) \in SUBSET Places
      /\ \A r \in R : r # rank => for \cap InRank(r) = {} /\ for \cap (Places \ InRank(r)) # {}
      /\ for \cap InRank(rank) # {} /\ for \cap (Places \ InRank(rank)) = {}
  <2>1. for \in SUBSET Places /\ p \in for /\ for \subseteq InRank(rank)
    BY <1>1, ForIs
  <2> HIDE DEF for
  <2> QED
    BY <2>1 DEF InRank
<1>4. \A r \in R :
        /\ dev'.rank[r] = IF r = rank THEN Waits(Waits(dev.rank[r], RankGap[cmd]),
                                                 FourActivates(dev.acts[r], cmd))
                                      ELSE Waits(dev.rank[r], SiblingGap[cmd])
        /\ dev'.acts[r] = IF r = rank THEN History(dev.acts[r], cmd) ELSE dev.acts[r]
  BY <1>0 DEF Send, DeviceUpdate, TypeOK, DeviceType
<1>5. /\ window \in SUBSET Window(R) /\ IsFiniteSet(window) /\ \A x \in window : x.age # 0
      /\ cmd \in Activates => v = window \cup {[kind |-> cmd, rank |-> rank, age |-> 0]}
      /\ cmd \notin Activates => v = window
      /\ \A r \in R : dev.acts[r] \in Histories /\ dev.rank[r] \in [Commands -> Nat]
      /\ \A r \in R : Linked(dev.acts[r], window, r)
      /\ since \in [workload.commands \X Places -> Nat]
  BY <1>0 DEF TypeOK, DeviceType, Send, Exact, HistoryLinked
<1>6. cmd \in Activates => OneMore(window, v, cmd, rank)
  <2> HIDE DEF R, v, rank
  <2> QED
    BY <1>1, <1>5, WindowSend
<1>7. HistoryLinked'
  <2> SUFFICES ASSUME NEW r \in R
               PROVE  Linked(dev'.acts[r], v, r)
    BY <1>1 DEF HistoryLinked
  <2>1. CASE cmd \in Activates /\ r = rank
    <3> HIDE DEF R, v, rank
    <3> QED
      BY <1>1, <1>4, <1>5, <2>1, LinkedSend
  <2>2. CASE r # rank
    <3>1. dev'.acts[r] = dev.acts[r]
      BY <1>4, <2>2
    <3>2. \A a : \A n \in Nat : Cardinality(Recent(v, r, a, n)) = Cardinality(Recent(window, r, a, n))
      BY <1>5, <1>6, <2>2 DEF OneMore
    <3> QED
      BY <1>5, <3>1, <3>2 DEF Linked
  <2>3. CASE cmd \notin Activates
    <3>1. dev'.acts[r] = dev.acts[r]
      BY <1>4, <2>3 DEF History
    <3> QED
      BY <1>5, <2>3, <3>1
  <2> QED
    BY <2>1, <2>2, <2>3
<1>8. ASSUME NEW r \in R, NEW c \in workload.commands, NEW n \in Nat
      PROVE  dev'.rank[r][c] <= n <=>
               /\ Passed(RankTiming, SentTo(since, cmd, for), c, InRank(r), n)
               /\ Passed(SiblingTiming, SentTo(since, cmd, for), c, Places \ InRank(r), n)
               /\ c \in Activates => \A a \in Activates : Cardinality(Recent(v, r, a, n)) < 4
  <2> DEFINE held == c \in Activates => \A a \in Activates : Cardinality(Recent(window, r, a, n)) < 4
             holds == c \in Activates => \A a \in Activates : Cardinality(Recent(v, r, a, n)) < 4
  <2>1. dev.rank[r][c] <= n <=>
               /\ Passed(RankTiming, since, c, InRank(r), n)
               /\ Passed(SiblingTiming, since, c, Places \ InRank(r), n)
               /\ held
    BY DEF Exact, RankExact
  <2>2. c \in Commands
    BY <1>0, CommandsOf
  <2>3. /\ RankGap[cmd] \in [Commands -> Nat] /\ SiblingGap[cmd] \in [Commands -> Nat]
        /\ RankGap[cmd][c] <= n <=> Within(RankTiming, cmd, c, n)
        /\ SiblingGap[cmd][c] <= n <=> Within(SiblingTiming, cmd, c, n)
    BY <1>1, <2>2, GapRows, GapsMean DEF GapMeans
  <2> HIDE DEF for
  <2>4. CASE r = rank
    <3>1. FourActivates(dev.acts[r], cmd)[c] <= n /\ held <=> holds
      <4>1. CASE cmd \in Activates /\ c \in Activates
        <5>1. FourActivates(dev.acts[r], cmd)[c] = Speed.nFAW - dev.acts[r][cmd][3]
          BY <1>1, <1>5, <2>2, <4>1, FourActivatesIs
        <5>2. Cardinality(Recent(v, r, cmd, n)) < 4 <=> Speed.nFAW - dev.acts[r][cmd][3] <= n
          <6> DEFINE acts == dev.acts[r]
          <6>1. acts \in Histories /\ Linked(acts, window, r)
            BY <1>5
          <6>2. v = window \cup {[kind |-> cmd, rank |-> r, age |-> 0]}
            BY <1>5, <2>4, <4>1
          <6>3. window \in SUBSET Window(R) /\ IsFiniteSet(window) /\ \A x \in window : x.age # 0
            BY <1>5
          <6> HIDE DEF R, v, rank, acts
          <6>4. WindowEnds(acts, v, r, cmd)
            BY <1>1, <4>1, <6>1, <6>2, <6>3, LinkedSend
          <6> QED
            BY <6>4 DEF acts, WindowEnds
        <5>3. \A a \in Activates : a # cmd =>
                Cardinality(Recent(v, r, a, n)) = Cardinality(Recent(window, r, a, n))
          BY <1>6, <4>1 DEF OneMore
        <5>4. Cardinality(Recent(v, r, cmd, n)) < 4 => Cardinality(Recent(window, r, cmd, n)) < 4
          <6>1. Cardinality(Recent(window, r, cmd, n)) \in Nat
            BY <1>5, CountIsNat
          <6>2. \/ Cardinality(Recent(v, r, cmd, n)) = Cardinality(Recent(window, r, cmd, n)) + 1
                \/ Cardinality(Recent(v, r, cmd, n)) = Cardinality(Recent(window, r, cmd, n))
            BY <1>6, <2>4, <4>1, SpeedInt DEF OneMore
          <6> QED
            BY <6>1, <6>2
        <5> QED
          BY <4>1, <5>1, <5>2, <5>3, <5>4
      <4>2. CASE cmd \notin Activates \/ c \notin Activates
        <5>1. FourActivates(dev.acts[r], cmd)[c] = 0
          BY <1>1, <1>5, <2>2, <4>2, FourActivatesIs
        <5>2. cmd \notin Activates => v = window
          BY <1>5
        <5> QED
          BY <4>2, <5>1, <5>2
      <4> QED
        BY <4>1, <4>2
    <3>2. Waits(Waits(dev.rank[r], RankGap[cmd]), FourActivates(dev.acts[r], cmd))[c] <= n
            <=> dev.rank[r][c] <= n /\ RankGap[cmd][c] <= n /\ FourActivates(dev.acts[r], cmd)[c] <= n
      <4>1. FourActivates(dev.acts[r], cmd) \in [Commands -> Nat]
        BY <1>1, <1>5, FourActivatesIs
      <4>2. Waits(dev.rank[r], RankGap[cmd]) \in [Commands -> Nat]
        BY <1>5, <2>3, WaitsIs
      <4>3. Waits(dev.rank[r], RankGap[cmd])[c] <= n <=> dev.rank[r][c] <= n /\ RankGap[cmd][c] <= n
        BY <1>5, <2>2, <2>3, WaitsIs
      <4> QED
        BY <2>2, <4>1, <4>2, <4>3, WaitsIs
    <3>3. Passed(RankTiming, SentTo(since, cmd, for), c, InRank(r), n)
            <=> Passed(RankTiming, since, c, InRank(r), n) /\ Within(RankTiming, cmd, c, n)
      <4> DEFINE places == InRank(r)
      <4>1. for \cap places # {} /\ places \in SUBSET Places /\ for \in SUBSET Places
        BY <1>3, <2>4
      <4>2. since \in [workload.commands \X Places -> Nat]
        BY <1>5
      <4> HIDE DEF places
      <4>3. Passed(RankTiming, SentTo(since, cmd, for), c, places, n)
              <=> Passed(RankTiming, since, c, places, n) /\ Within(RankTiming, cmd, c, n)
        BY <4>1, <4>2, TablesAreTables, PassedSend
      <4> QED
        BY <4>3 DEF places
    <3>4. Passed(SiblingTiming, SentTo(since, cmd, for), c, Places \ InRank(r), n)
            <=> Passed(SiblingTiming, since, c, Places \ InRank(r), n)
      BY <1>3, <1>5, <2>4, PassedElsewhere
    <3> HIDE DEF held, holds
    <3>5. dev'.rank[r] = Waits(Waits(dev.rank[r], RankGap[cmd]), FourActivates(dev.acts[r], cmd))
      BY <1>4, <2>4
    <3>6. dev'.rank[r][c] <= n <=>
               /\ Passed(RankTiming, SentTo(since, cmd, for), c, InRank(r), n)
               /\ Passed(SiblingTiming, SentTo(since, cmd, for), c, Places \ InRank(r), n)
               /\ holds
      BY <2>1, <2>3, <3>1, <3>2, <3>3, <3>4, <3>5
    <3> QED
      BY <3>6 DEF holds
  <2>5. CASE r # rank
    <3>1. held <=> holds
      <4>1. \A a : Cardinality(Recent(v, r, a, n)) = Cardinality(Recent(window, r, a, n))
        BY <1>5, <1>6, <2>5 DEF OneMore
      <4> QED
        BY <4>1
    <3>2. Waits(dev.rank[r], SiblingGap[cmd])[c] <= n <=> dev.rank[r][c] <= n /\ SiblingGap[cmd][c] <= n
      BY <1>5, <2>2, <2>3, WaitsIs
    <3>3. Passed(RankTiming, SentTo(since, cmd, for), c, InRank(r), n)
            <=> Passed(RankTiming, since, c, InRank(r), n)
      BY <1>3, <1>5, <2>5, PassedElsewhere
    <3>4. Passed(SiblingTiming, SentTo(since, cmd, for), c, Places \ InRank(r), n)
            <=> Passed(SiblingTiming, since, c, Places \ InRank(r), n) /\ Within(SiblingTiming, cmd, c, n)
      BY <1>3, <1>5, <2>5, TablesAreTables, PassedSend
    <3>5. dev'.rank[r] = Waits(dev.rank[r], SiblingGap[cmd])
      BY <1>4, <2>5
    <3> HIDE DEF held, holds
    <3>6. dev'.rank[r][c] <= n <=>
               /\ Passed(RankTiming, SentTo(since, cmd, for), c, InRank(r), n)
               /\ Passed(SiblingTiming, SentTo(since, cmd, for), c, Places \ InRank(r), n)
               /\ holds
      BY <2>1, <2>3, <3>1, <3>2, <3>3, <3>4, <3>5
    <3> QED
      BY <3>6 DEF holds
  <2> QED
    BY <2>4, <2>5
<1>9. \A r \in R : InRank(r)' = InRank(r)
  BY <1>2 DEF InRank
<1>10. RankExact'
  BY <1>1, <1>2, <1>8, <1>9 DEF RankExact
<1> QED
  BY <1>7, <1>10

\* Send preserves the invariant.
LEMMA ExactSend ==
  ASSUME Exact, NEW cmd \in workload.commands, NEW p \in Places, NEW row \in workload.rows,
         Send(cmd, p[1], p[2], row)
  PROVE  Exact'
<1>1. TypeOK'
  BY TypeSend DEF Exact
<1> QED
  BY <1>1, ChannelSend, BankSend, RankSend DEF Exact

\* Clock preserves the invariant: every wait, and every rest of a distance,
\* is one cycle shorter.
LEMMA ExactClock ==
  ASSUME Exact, Clock
  PROVE  Exact'
<1>0. TypeOK /\ TypeOK' /\ since' = OneMoreCycle(since, Forgotten)
  BY TypeClock DEF Exact
<1>1. workload' = workload /\ Places' = Places /\ \A r : InRank(r)' = InRank(r)
  BY DEF Clock, Places, InRank
<1>2. /\ since \in [workload.commands \X Places -> Nat]
      /\ window \in SUBSET Window(workload.ranks) /\ IsFiniteSet(window)
      /\ dev.channel \in [Commands -> Nat]
      /\ \A r \in workload.ranks : dev.rank[r] \in [Commands -> Nat] /\ dev.acts[r] \in Histories
      /\ \A p \in Places : dev.bank[p] \in [Commands -> Nat]
  BY <1>0 DEF TypeOK, DeviceType, Places
<1>3. /\ dev'.channel = OneLess(dev.channel)
      /\ \A r \in workload.ranks :
           /\ dev'.rank[r] = OneLess(dev.rank[r])
           /\ dev'.acts[r] = [a \in Activates |->
                                [k \in 1 .. 3 |-> Min({Speed.nFAW, dev.acts[r][a][k] + 1})]]
      /\ \A p \in Places : dev'.bank[p] = OneLess(dev.bank[p])
  BY <1>0 DEF Clock, DeviceTick, TypeOK, DeviceType, Places
<1>4. \A e \in Tables : e[1] \in workload.commands =>
        Forgotten[e[1]] \in Nat /\ e[3] <= Forgotten[e[1]]
  BY <1>0, CommandsOf, ForgottenIs
<1>5. ASSUME NEW timing, timing \subseteq Tables, IsTable(timing),
             NEW places \in SUBSET Places, NEW c, NEW n \in Nat
      PROVE  Passed(timing, OneMoreCycle(since, Forgotten), c, places, n)
               <=> Passed(timing, since, c, places, n + 1)
  <2> DEFINE longest == [c2 \in workload.commands |-> Forgotten[c2]]
  <2>1. longest \in [workload.commands -> Nat]
    BY <1>0, CommandsOf, ForgottenIs
  <2>2. LongEnough(longest, timing, workload.commands, c)
    BY <1>4, <1>5 DEF LongEnough
  <2>3. OneMoreCycle(since, Forgotten) = OneMoreCycle(since, longest)
    BY <1>2 DEF OneMoreCycle
  <2> HIDE DEF longest
  <2> QED
    BY <1>2, <1>5, <2>1, <2>2, <2>3, PassedTick
<1>6. ChannelTiming \subseteq Tables /\ RankTiming \subseteq Tables
      /\ SiblingTiming \subseteq Tables /\ BankTiming \subseteq Tables
  BY DEF Tables
<1>7. ChannelExact'
  <2> SUFFICES ASSUME NEW c \in workload.commands, NEW n \in Nat
               PROVE  OneLess(dev.channel)[c] <= n
                        <=> Passed(ChannelTiming, OneMoreCycle(since, Forgotten), c, Places, n)
    BY <1>0, <1>1, <1>3 DEF ChannelExact
  <2>1. OneLess(dev.channel)[c] <= n <=> dev.channel[c] <= n + 1
    BY <1>0, <1>2, CommandsOf, OneLessIs
  <2>2. n + 1 \in Nat
    OBVIOUS
  <2>3. dev.channel[c] <= n + 1 <=> Passed(ChannelTiming, since, c, Places, n + 1)
    BY <2>2 DEF Exact, ChannelExact
  <2> QED
    BY <1>5, <1>6, <2>1, <2>3, TablesAreTables
<1>8. BankExact'
  <2> SUFFICES ASSUME NEW p \in Places, NEW c \in workload.commands, NEW n \in Nat
               PROVE  OneLess(dev.bank[p])[c] <= n
                        <=> Passed(BankTiming, OneMoreCycle(since, Forgotten), c, {p}, n)
    BY <1>0, <1>1, <1>3 DEF BankExact
  <2>1. OneLess(dev.bank[p])[c] <= n <=> dev.bank[p][c] <= n + 1
    BY <1>0, <1>2, CommandsOf, OneLessIs
  <2>2. n + 1 \in Nat /\ {p} \in SUBSET Places
    OBVIOUS
  <2>3. dev.bank[p][c] <= n + 1 <=> Passed(BankTiming, since, c, {p}, n + 1)
    BY <2>2 DEF Exact, BankExact
  <2> QED
    BY <1>5, <1>6, <2>1, <2>2, <2>3, TablesAreTables
<1>9. RankExact'
  <2> SUFFICES ASSUME NEW r \in workload.ranks, NEW c \in workload.commands, NEW n \in Nat
               PROVE  OneLess(dev.rank[r])[c] <= n <=>
                        /\ Passed(RankTiming, OneMoreCycle(since, Forgotten), c, InRank(r), n)
                        /\ Passed(SiblingTiming, OneMoreCycle(since, Forgotten), c,
                                  Places \ InRank(r), n)
                        /\ c \in Activates =>
                             \A a \in Activates : Cardinality(Recent(window', r, a, n)) < 4
    BY <1>0, <1>1, <1>3 DEF RankExact
  <2>1. OneLess(dev.rank[r])[c] <= n <=> dev.rank[r][c] <= n + 1
    BY <1>0, <1>2, CommandsOf, OneLessIs
  <2>2. n + 1 \in Nat /\ InRank(r) \in SUBSET Places /\ Places \ InRank(r) \in SUBSET Places
    BY DEF InRank
  <2>3. dev.rank[r][c] <= n + 1 <=>
          /\ Passed(RankTiming, since, c, InRank(r), n + 1)
          /\ Passed(SiblingTiming, since, c, Places \ InRank(r), n + 1)
          /\ c \in Activates => \A a \in Activates : Cardinality(Recent(window, r, a, n + 1)) < 4
    BY <2>2 DEF Exact, RankExact
  <2>4. \A a : Cardinality(Recent(window', r, a, n)) = Cardinality(Recent(window, r, a, n + 1))
    <3>1. OneLater(window, window')
      BY <1>2, WindowTick DEF Clock
    <3> QED
      BY <3>1 DEF OneLater
  <2>5. Passed(RankTiming, OneMoreCycle(since, Forgotten), c, InRank(r), n)
          <=> Passed(RankTiming, since, c, InRank(r), n + 1)
    BY <1>5, <1>6, <2>2, TablesAreTables
  <2>6. Passed(SiblingTiming, OneMoreCycle(since, Forgotten), c, Places \ InRank(r), n)
          <=> Passed(SiblingTiming, since, c, Places \ InRank(r), n + 1)
    BY <1>5, <1>6, <2>2, TablesAreTables
  <2> QED
    BY <2>1, <2>3, <2>4, <2>5, <2>6
<1>10. HistoryLinked'
  <2> SUFFICES ASSUME NEW r \in workload.ranks
               PROVE  Linked([a \in Activates |->
                                [k \in 1 .. 3 |-> Min({Speed.nFAW, dev.acts[r][a][k] + 1})]],
                             window', r)
    BY <1>1, <1>3 DEF HistoryLinked
  <2> DEFINE acts == dev.acts[r]
             R == workload.ranks
             v == window'
  <2>1. /\ acts \in Histories /\ Linked(acts, window, r) /\ r \in R
        /\ window \in SUBSET Window(R) /\ IsFiniteSet(window)
        /\ v = {x \in Aged(window) : x.age < Speed.nFAW}
    BY <1>2 DEF Exact, HistoryLinked, Clock
  <2> HIDE DEF acts, R, v
  <2>2. Linked([a \in Activates |-> [k \in 1 .. 3 |-> Min({Speed.nFAW, acts[a][k] + 1})]], v, r)
    BY <2>1, LinkedTick
  <2> QED
    BY <2>2 DEF acts, v
<1> QED
  BY <1>0, <1>7, <1>8, <1>9, <1>10 DEF Exact

\* A step that changes nothing preserves the invariant.
LEMMA ExactStutter ==
  ASSUME Exact, UNCHANGED vars
  PROVE  Exact'
<1>1. /\ workload' = workload /\ dev' = dev /\ sent' = sent
      /\ since' = since /\ window' = window /\ Places' = Places
  BY DEF vars, Places
<1>2. \A r : InRank(r)' = InRank(r)
  BY <1>1 DEF InRank
<1>3. TypeOK'
  BY <1>1 DEF Exact, TypeOK
<1>4. ChannelExact' /\ BankExact' /\ HistoryLinked'
  BY <1>1 DEF Exact, ChannelExact, BankExact, HistoryLinked
<1>5. RankExact'
  BY <1>1, <1>2 DEF Exact, RankExact
<1> QED
  BY <1>3, <1>4, <1>5 DEF Exact

\* The device's numbers are exact in every behaviour.
LEMMA ExactAlways == Spec => []Exact
<1>1. Init => Exact
  BY ExactInit
<1>2. Exact /\ [Next]_vars => Exact'
  BY ExactSend, ExactClock, ExactStutter DEF Next
<1> QED
  BY <1>1, <1>2, PTL DEF Spec

\* Activates are checked against the rank.
LEMMA ActivatesChecked ==
  ASSUME NEW cmd \in Activates
  PROVE  ReachesRank(cmd)
BY Scopes DEF Activates, ReachesRank

\* With exact numbers, the device accepts exactly what the tables allow.
LEMMA ExactAccepts == Exact => AcceptsExactly
<1> SUFFICES ASSUME Exact, NEW cmd \in workload.commands, FullyChecked(cmd), NEW p \in Places
             PROVE  CommandCheck(dev, cmd, p[1], p[2]) <=>
                      /\ Kept(ChannelTiming, since, cmd, Places)
                      /\ Kept(RankTiming, since, cmd, InRank(p[1]))
                      /\ Kept(SiblingTiming, since, cmd, Places \ InRank(p[1]))
                      /\ Kept(BankTiming, since, cmd, {p})
                      /\ cmd \in Activates => WindowOpen(p[1])
  BY DEF AcceptsExactly
<1> DEFINE r == p[1]
<1>0. TypeOK
  BY DEF Exact
<1>1. r \in workload.ranks /\ <<p[1], p[2]>> = p /\ 0 \in Nat
  BY DEF Places
<1>2. cmd \in Commands
  BY <1>0, CommandsOf
<1>3. /\ dev.channel[cmd] \in Nat /\ dev.rank[r][cmd] \in Nat /\ dev.bank[p][cmd] \in Nat
  BY <1>0, <1>1, <1>2 DEF TypeOK, DeviceType, Places
<1>4. since \in [workload.commands \X Places -> Nat]
  BY <1>0 DEF TypeOK
<1>5. \A timing, places :
         Kept(timing, since, cmd, places) <=> Passed(timing, since, cmd, places, 0)
  BY <1>4, KeptIsPassed
<1>6. \A x \in Nat : x = 0 <=> x <= 0
  OBVIOUS
<1>7. dev.channel[cmd] = 0 <=> Kept(ChannelTiming, since, cmd, Places)
  BY <1>1, <1>3, <1>5, <1>6 DEF Exact, ChannelExact
<1>8. dev.bank[p][cmd] = 0 <=> Kept(BankTiming, since, cmd, {p})
  BY <1>1, <1>3, <1>5, <1>6 DEF Exact, BankExact
<1>9. WindowOpen(r) <=> \A a \in Activates : Cardinality(Recent(window, r, a, 0)) < 4
  <2>1. \A a : Recent(window, r, a, 0) = {x \in window : x.kind = a /\ x.rank = r}
    BY <1>0, SpeedInt DEF Recent, TypeOK, Window
  <2> QED
    BY <2>1 DEF WindowOpen
<1>10. dev.rank[r][cmd] = 0 <=>
        /\ Kept(RankTiming, since, cmd, InRank(r))
        /\ Kept(SiblingTiming, since, cmd, Places \ InRank(r))
        /\ cmd \in Activates => WindowOpen(r)
  BY <1>1, <1>3, <1>9, <1>5, <1>6 DEF Exact, RankExact
<1>11. ASSUME ~ ReachesRank(cmd)
      PROVE  /\ Kept(RankTiming, since, cmd, InRank(r))
             /\ Kept(SiblingTiming, since, cmd, Places \ InRank(r))
             /\ cmd \notin Activates
  BY <1>11, ActivatesChecked DEF FullyChecked, Kept
<1>12. ASSUME ~ ReachesBank(cmd)
       PROVE  Kept(BankTiming, since, cmd, {p})
  BY <1>12 DEF FullyChecked, Kept
<1>13. CommandCheck(dev, cmd, p[1], p[2]) <=>
         /\ dev.channel[cmd] = 0
         /\ ReachesRank(cmd) => dev.rank[r][cmd] = 0
         /\ ReachesBank(cmd) => dev.bank[p][cmd] = 0
  BY <1>1 DEF CommandCheck
<1> QED
  BY <1>7, <1>8, <1>10, <1>11, <1>12, <1>13

\* The device of DRAM.h accepts a fully checked command exactly when every
\* distance of DDR3.cpp has passed and the four-activate window is open, for every
\* speed grade, number of ranks and banks, and workload.
THEOREM AcceptsExactlyAlways == Spec => []AcceptsExactly
<1>1. Exact => AcceptsExactly
  BY ExactAccepts
<1> QED
  BY <1>1, ExactAlways, PTL

-----------------------------------------------------------------------------
(* What is open.                                                           *)

\* The state update_state keeps, of the ranks, banks and rows of w.
StateType(s, w) ==
  s \in [power : [w.ranks -> {"PowerUp", "ActPowerDown", "PrePowerDown", "SelfRefresh"}],
         open : [w.ranks \X w.banks -> BOOLEAN],
         rows : [w.ranks \X w.banks -> SUBSET w.rows]]

\* The device's picture of a bank that has a row open in the chip.
PictureSafe ==
  /\ TypeOK /\ StateType(state, workload)
  /\ \A p \in Places : chip[p] # NoRow => state.open[p] /\ chip[p] \in state.rows[p]

\* update_state keeps its type.
LEMMA StateTypeUpdate ==
  ASSUME NEW s, NEW w, StateType(s, w), NEW cmd, NEW r \in w.ranks, NEW b \in w.banks,
         NEW row \in w.rows
  PROVE  StateType(UpdateState(s, cmd, r, b, row), w)
<1>1. StateType(RankState(s, cmd, r), w)
  BY DEF StateType, RankState
<1>2. ASSUME NEW t, StateType(t, w)
      PROVE  StateType(BankState(t, cmd, <<r, b>>, row), w)
  BY <1>2 DEF StateType, BankState
<1> QED
  BY <1>1, <1>2 DEF UpdateState

\* A command leaves no bank open in the chip that the device has closed.
LEMMA PictureSend ==
  ASSUME PictureSafe, NEW cmd \in workload.commands, NEW p \in Places, NEW row \in workload.rows,
         Send(cmd, p[1], p[2], row)
  PROVE  PictureSafe'
<1> DEFINE atRank == IF ReachesRank(cmd) THEN RankState(state, cmd, p[1]) ELSE state
<1>1. /\ TypeOK' /\ workload' = workload /\ cmd \in Commands
      /\ p[1] \in workload.ranks /\ p[2] \in workload.banks /\ p = <<p[1], p[2]>>
  BY TypeSend DEF PictureSafe
<1>2. Places' = Places
  BY <1>1 DEF Places
<1>3. StateType(state', workload)
  BY <1>1, StateTypeUpdate DEF PictureSafe, Send
<1>4. state' = IF ReachesBank(cmd) THEN BankState(atRank, cmd, p, row) ELSE atRank
  BY <1>1 DEF Send, UpdateState
<1>5. ASSUME NEW q \in Places, chip'[q] # NoRow
      PROVE  state'.open[q] /\ chip'[q] \in state'.rows[q]
  <2>1. \/ cmd \in Activates /\ q = p /\ chip'[q] = row
        \/ cmd \in Activates /\ q # p /\ chip'[q] = chip[q]
        \/ cmd = "PREA" /\ q[1] # p[1] /\ chip'[q] = chip[q]
        \/ cmd \in {"PRE", "RDA", "WRA"} /\ q # p /\ chip'[q] = chip[q]
        \/ cmd \notin Activates \cup {"PRE", "PREA", "RDA", "WRA"} /\ chip'[q] = chip[q]
    BY <1>1, <1>5 DEF Send, For, InRank, OpenPage, Accesses, Reads, Writes, Activates
  <2>2. chip'[q] = chip[q] => state.open[q] /\ chip'[q] \in state.rows[q]
    BY <1>5 DEF PictureSafe
  <2>3. StateType(state, workload)
    BY DEF PictureSafe
  <2>4. /\ cmd # "PREA" \/ q[1] # p[1] => atRank.open[q] = state.open[q] /\ atRank.rows[q] = state.rows[q]
        /\ StateType(atRank, workload)
    BY <1>1, <2>3 DEF RankState, StateType, Places
  <2> HIDE DEF atRank
  <2>5. cmd \in Activates /\ q = p => state'.open[q] /\ row \in state'.rows[q]
    <3> SUFFICES ASSUME cmd \in Activates, q = p
                 PROVE  state'.open[q] /\ row \in state'.rows[q]
      OBVIOUS
    <3>1. state' = [atRank EXCEPT !.open[p] = TRUE, !.rows[p] = @ \cup {row}]
      <4>1. ReachesBank(cmd)
        BY <1>1, Levels
      <4>2. state' = BankState(atRank, cmd, p, row)
        BY <1>4, <4>1
      <4>3. BankState(atRank, cmd, p, row) = [atRank EXCEPT !.open[p] = TRUE, !.rows[p] = @ \cup {row}]
        BY DEF BankState, Activates
      <4> QED
        BY <4>2, <4>3
    <3>2. p \in DOMAIN atRank.open /\ p \in DOMAIN atRank.rows
      BY <2>4 DEF StateType, Places
    <3>3. state'.open[p] = TRUE /\ state'.rows[p] = atRank.rows[p] \cup {row}
      BY <2>4, <3>1, <3>2 DEF StateType
    <3> QED
      BY <3>3
  <2>6. \/ q # p
        \/ cmd \notin Activates \cup {"PRE", "RDA", "WRA"}
        => state'.open[q] = atRank.open[q] /\ state'.rows[q] = atRank.rows[q]
    BY <1>1, <1>4, <2>4 DEF BankState, StateType, Places
  <2> QED
    BY <2>1, <2>2, <2>4, <2>5, <2>6 DEF Activates
<1> QED
  BY <1>1, <1>2, <1>3, <1>5 DEF PictureSafe

\* The device's picture never misses an open bank.
LEMMA PictureAlways == Spec => []PictureSafe
<1>1. Init => PictureSafe
  BY ExactInit DEF Exact, Init, PictureSafe, StateType, InitState, Places
<1>2. PictureSafe /\ [Next]_vars => PictureSafe'
  <2> SUFFICES ASSUME PictureSafe, [Next]_vars
               PROVE  PictureSafe'
    OBVIOUS
  <2>1. CASE Clock
    <3>1. workload' = workload /\ state' = state /\ chip' = chip /\ Places' = Places /\ TypeOK'
      BY <2>1, TypeClock DEF Clock, Places, PictureSafe
    <3> QED
      BY <3>1 DEF PictureSafe
  <2>2. ASSUME NEW cmd \in workload.commands, NEW p \in Places, NEW row \in workload.rows,
               Send(cmd, p[1], p[2], row)
        PROVE  PictureSafe'
    BY <2>2, PictureSend
  <2>3. CASE UNCHANGED vars
    BY <2>3 DEF PictureSafe, TypeOK, Places, vars
  <2> QED
    BY <2>1, <2>2, <2>3 DEF Next
<1> QED
  BY <1>1, <1>2, PTL DEF Spec

\* With such a picture decode() asks for no activate of an open bank.
LEMMA SafePicture == PictureSafe => OpenNeverActivated
<1> SUFFICES ASSUME PictureSafe, NEW p \in Places, NEW row \in workload.rows, chip[p] # NoRow
             PROVE  /\ CheckRowHit(state, "RD", p, chip[p])
                    /\ \A cmd \in {"RD", "WR"} :
                         Decode(state, cmd, p[1], p[2], row) \notin Activates
  BY DEF OpenNeverActivated
<1>1. state.open[p] /\ chip[p] \in state.rows[p] /\ p = <<p[1], p[2]>>
  BY DEF PictureSafe, Places
<1>2. ASSUME NEW cmd \in {"RD", "WR"}
      PROVE  Decode(state, cmd, p[1], p[2], row) \notin Activates
  <2>1. RankPrereq(state, cmd, p[1]) \in {"PDX", "SRX", "MAX"}
    BY DEF RankPrereq
  <2>2. BankPrereq(state, cmd, <<p[1], p[2]>>, row) \in {cmd, "PRE"}
    BY <1>1 DEF BankPrereq, BankRowHit, BankRowOpen
  <2> QED
    BY <2>1, <2>2 DEF Decode, Activates
<1> QED
  BY <1>1, <1>2 DEF CheckRowHit, BankRowHit

\* decode() never asks for an activate of a bank with a row open, though the
\* device's picture of the chip drifts from it.
THEOREM OpenNeverActivatedAlways == Spec => []OpenNeverActivated
<1>1. PictureSafe => OpenNeverActivated
  BY SafePicture
<1> QED
  BY <1>1, PictureAlways, PTL

-----------------------------------------------------------------------------
(* The data bus.                                                           *)

\* What keeps an access c away from the burst of x: as long as x's burst
\* could meet that of c, sent now, the channel or the rank has c wait.
Spaced(x, c, r) ==
  \/ Start(x) + Speed.nBL <= Latency(c) + dev.channel[c]
  \/ Start(x) + Speed.nBL <= Latency(c) + dev.rank[r][c]

\* The inductive invariant for BusNeverShared.
BusSpaced ==
  /\ TypeOK
  /\ bus \in SUBSET [cmd : Accesses, age : Nat]
  /\ \A x \in bus, c \in Accesses \cap workload.commands, r \in workload.ranks : Spaced(x, c, r)
  /\ BusNeverShared

\* The latency of an access is a natural.
LEMMA LatencyIs ==
  /\ \A c \in Reads : Latency(c) = Speed.nCL
  /\ \A c \in Writes : Latency(c) = Speed.nCWL
  /\ \A c : Latency(c) \in Nat
  /\ Accesses = Reads \cup Writes
BY SpeedInt DEF Latency, Reads, Writes, Accesses

\* Two accesses, one after the other: the channel, or the rank of the second,
\* has it wait until its burst comes after the first one's.
LEMMA BurstsSpaced ==
  ASSUME NEW cmd \in Accesses, NEW c \in Accesses, cmd \in Commands, c \in Commands
  PROVE  /\ \/ Latency(cmd) + Speed.nBL <= Latency(c) + ChannelGap[cmd][c]
            \/ Latency(cmd) + Speed.nBL <= Latency(c) + RankGap[cmd][c]
         /\ \/ Latency(cmd) + Speed.nBL <= Latency(c) + ChannelGap[cmd][c]
            \/ Latency(cmd) + Speed.nBL <= Latency(c) + SiblingGap[cmd][c]
<1>1. /\ \A e \in ChannelTiming : e[1] = cmd /\ e[2] = c => e[3] <= ChannelGap[cmd][c]
      /\ \A e \in RankTiming : e[1] = cmd /\ e[2] = c => e[3] <= RankGap[cmd][c]
      /\ \A e \in SiblingTiming : e[1] = cmd /\ e[2] = c => e[3] <= SiblingGap[cmd][c]
      /\ ChannelGap[cmd][c] \in Nat /\ RankGap[cmd][c] \in Nat /\ SiblingGap[cmd][c] \in Nat
  BY GapIs, TablesAreTables DEF ChannelGap, RankGap, SiblingGap
<1>2. CASE cmd \in Reads /\ c \in Reads
  <2>1. <<cmd, c, Speed.nBL>> \in ChannelTiming
    BY <1>2 DEF ChannelTiming, After
  <2>2. Speed.nBL <= ChannelGap[cmd][c]
    BY <1>1, <2>1
  <2> QED
    BY <1>1, <1>2, <2>2, LatencyIs, SpeedInt
<1>3. CASE cmd \in Writes /\ c \in Writes
  <2>1. <<cmd, c, Speed.nBL>> \in ChannelTiming
    BY <1>3 DEF ChannelTiming, After
  <2>2. Speed.nBL <= ChannelGap[cmd][c]
    BY <1>1, <2>1
  <2> QED
    BY <1>1, <1>3, <2>2, LatencyIs, SpeedInt
<1>4. CASE cmd \in Reads /\ c \in Writes
  <2>1. <<cmd, c, ReadToWrite>> \in RankTiming
    BY <1>4 DEF RankTiming, After
  <2>2. <<cmd, c, Speed.nCL + Speed.nBL + Speed.nRTRS - Speed.nCWL>> \in SiblingTiming
    BY <1>4 DEF SiblingTiming, After
  <2>3. /\ ReadToWrite <= RankGap[cmd][c]
        /\ Speed.nCL + Speed.nBL + Speed.nRTRS - Speed.nCWL <= SiblingGap[cmd][c]
    BY <1>1, <2>1, <2>2
  <2>4. Latency(cmd) = Speed.nCL /\ Latency(c) = Speed.nCWL
    BY <1>4, LatencyIs
  <2>5. Speed.nBL <= Speed.nCCD + 2
    BY SpeedAssumption
  <2> QED
    BY <1>1, <2>3, <2>4, <2>5, SpeedInt DEF ReadToWrite
<1>5. CASE cmd \in Writes /\ c \in Reads
  <2>1. <<cmd, c, WriteToRead>> \in RankTiming
    BY <1>5 DEF RankTiming, After
  <2>2. <<cmd, c, Speed.nCWL + Speed.nBL + Speed.nRTRS - Speed.nCL>> \in SiblingTiming
    BY <1>5 DEF SiblingTiming, After
  <2>3. /\ WriteToRead <= RankGap[cmd][c]
        /\ Speed.nCWL + Speed.nBL + Speed.nRTRS - Speed.nCL <= SiblingGap[cmd][c]
    BY <1>1, <2>1, <2>2
  <2>4. Latency(cmd) = Speed.nCWL /\ Latency(c) = Speed.nCL
    BY <1>5, LatencyIs
  <2> QED
    BY <1>1, <2>3, <2>4, SpeedInt DEF WriteToRead
<1> QED
  BY <1>2, <1>3, <1>4, <1>5, LatencyIs

\* The waits of the channel and of a rank after a command: no shorter than
\* before, and no shorter than its gaps.
LEMMA WaitsGrow ==
  ASSUME TypeOK, NEW cmd \in workload.commands, NEW p \in Places, NEW row \in workload.rows,
         Send(cmd, p[1], p[2], row), NEW c \in Commands, NEW r \in workload.ranks
  PROVE  /\ dev.channel[c] \in Nat /\ dev.rank[r][c] \in Nat
         /\ dev'.channel[c] \in Nat /\ dev'.rank[r][c] \in Nat
         /\ dev'.channel[c] >= dev.channel[c] /\ dev'.channel[c] >= ChannelGap[cmd][c]
         /\ dev'.rank[r][c] >= dev.rank[r][c]
         /\ r = p[1] => dev'.rank[r][c] >= RankGap[cmd][c]
         /\ r # p[1] => dev'.rank[r][c] >= SiblingGap[cmd][c]
<1>1. cmd \in Commands /\ p[1] \in workload.ranks
  BY TypeSend
<1>2. /\ dev.channel \in [Commands -> Nat] /\ dev.rank[r] \in [Commands -> Nat]
      /\ dev.acts[r] \in Histories
  BY DEF TypeOK, DeviceType
<1>3. /\ ChannelGap[cmd] \in [Commands -> Nat] /\ RankGap[cmd] \in [Commands -> Nat]
      /\ SiblingGap[cmd] \in [Commands -> Nat]
  BY <1>1, GapRows
<1>4. /\ dev'.channel = Waits(dev.channel, ChannelGap[cmd])
      /\ r = p[1] => dev'.rank[r] = Waits(Waits(dev.rank[r], RankGap[cmd]),
                                          FourActivates(dev.acts[r], cmd))
      /\ r # p[1] => dev'.rank[r] = Waits(dev.rank[r], SiblingGap[cmd])
  BY DEF Send, DeviceUpdate, TypeOK, DeviceType
<1>5. /\ dev'.channel \in [Commands -> Nat]
      /\ dev'.channel[c] >= dev.channel[c] /\ dev'.channel[c] >= ChannelGap[cmd][c]
  <2>1. /\ Waits(dev.channel, ChannelGap[cmd]) \in [Commands -> Nat]
        /\ Waits(dev.channel, ChannelGap[cmd])[c] >= dev.channel[c]
        /\ Waits(dev.channel, ChannelGap[cmd])[c] >= ChannelGap[cmd][c]
    BY <1>2, <1>3, WaitsIs
  <2> QED
    BY <1>4, <2>1
<1>6. CASE r # p[1]
  <2>1. /\ Waits(dev.rank[r], SiblingGap[cmd]) \in [Commands -> Nat]
        /\ Waits(dev.rank[r], SiblingGap[cmd])[c] >= dev.rank[r][c]
        /\ Waits(dev.rank[r], SiblingGap[cmd])[c] >= SiblingGap[cmd][c]
    BY <1>2, <1>3, WaitsIs
  <2>2. dev'.rank[r] = Waits(dev.rank[r], SiblingGap[cmd])
    BY <1>4, <1>6
  <2> QED
    BY <1>2, <1>5, <1>6, <2>1, <2>2
<1>7. CASE r = p[1]
  <2>1. FourActivates(dev.acts[r], cmd) \in [Commands -> Nat]
    BY <1>1, <1>2, FourActivatesIs
  <2>2. /\ Waits(dev.rank[r], RankGap[cmd]) \in [Commands -> Nat]
        /\ Waits(dev.rank[r], RankGap[cmd])[c] >= dev.rank[r][c]
        /\ Waits(dev.rank[r], RankGap[cmd])[c] >= RankGap[cmd][c]
    BY <1>2, <1>3, WaitsIs
  <2>3. /\ dev'.rank[r] \in [Commands -> Nat]
        /\ dev'.rank[r][c] >= Waits(dev.rank[r], RankGap[cmd])[c]
    BY <1>4, <1>7, <2>1, <2>2, WaitsIs
  <2> QED
    BY <1>2, <1>3, <1>5, <1>7, <2>2, <2>3
<1> QED
  BY <1>6, <1>7

\* A burst joins the bus behind all others.
LEMMA BusSend ==
  ASSUME BusSpaced, NEW cmd \in workload.commands, NEW p \in Places, NEW row \in workload.rows,
         Send(cmd, p[1], p[2], row)
  PROVE  BusSpaced'
<1> DEFINE new == [cmd |-> cmd, age |-> 0]
<1>0. TypeOK
  BY DEF BusSpaced
<1>1. /\ TypeOK' /\ workload' = workload /\ cmd \in Commands /\ p[1] \in workload.ranks
      /\ workload.commands \subseteq Commands
  BY <1>0, TypeSend, CommandsOf
<1>2. \A x \in bus : Start(x) \in Int
  <2>1. \A x \in bus : x.age \in Nat
    BY DEF BusSpaced
  <2> QED
    BY <2>1, LatencyIs DEF Start
<1>3. \A x \in bus, c \in Accesses \cap workload.commands, r \in workload.ranks : Spaced(x, c, r)'
  <2> SUFFICES ASSUME NEW x \in bus, NEW c \in Accesses \cap workload.commands,
                      NEW r \in workload.ranks
               PROVE  Spaced(x, c, r)'
    OBVIOUS
  <2>1. c \in Commands
    BY <1>1
  <2>2. Spaced(x, c, r)
    BY DEF BusSpaced
  <2>3. /\ dev.channel[c] \in Nat /\ dev.rank[r][c] \in Nat
        /\ dev'.channel[c] \in Nat /\ dev'.rank[r][c] \in Nat
        /\ dev'.channel[c] >= dev.channel[c] /\ dev'.rank[r][c] >= dev.rank[r][c]
    BY <1>0, <2>1, WaitsGrow
  <2> QED
    BY <1>2, <2>2, <2>3, SpeedInt, LatencyIs DEF Spaced, Start
<1>4. CASE cmd \notin Accesses
  <2>1. bus' = bus
    BY <1>4 DEF Send
  <2> QED
    BY <1>1, <1>3, <2>1 DEF BusSpaced, BusNeverShared, Start
<1>5. CASE cmd \in Accesses
  <2>1. bus' = bus \cup {new} /\ Start(new) = Latency(cmd)
    BY <1>5, LatencyIs DEF Send, Start
  <2>2. bus' \in SUBSET [cmd : Accesses, age : Nat]
    BY <1>5, <2>1 DEF BusSpaced
  <2>3. \A c \in Accesses \cap workload.commands, r \in workload.ranks : Spaced(new, c, r)'
    <3> SUFFICES ASSUME NEW c \in Accesses \cap workload.commands, NEW r \in workload.ranks
                 PROVE  Spaced(new, c, r)'
      OBVIOUS
    <3>1. c \in Commands
      BY <1>1
    <3>2. /\ dev'.channel[c] \in Nat /\ dev'.rank[r][c] \in Nat
          /\ dev'.channel[c] >= ChannelGap[cmd][c]
          /\ r = p[1] => dev'.rank[r][c] >= RankGap[cmd][c]
          /\ r # p[1] => dev'.rank[r][c] >= SiblingGap[cmd][c]
      BY <1>0, <3>1, WaitsGrow
    <3>3. /\ ChannelGap[cmd][c] \in Nat /\ RankGap[cmd][c] \in Nat /\ SiblingGap[cmd][c] \in Nat
      BY <1>1, <3>1, GapRows
    <3>4. /\ \/ Latency(cmd) + Speed.nBL <= Latency(c) + ChannelGap[cmd][c]
             \/ Latency(cmd) + Speed.nBL <= Latency(c) + RankGap[cmd][c]
          /\ \/ Latency(cmd) + Speed.nBL <= Latency(c) + ChannelGap[cmd][c]
             \/ Latency(cmd) + Speed.nBL <= Latency(c) + SiblingGap[cmd][c]
      BY <1>1, <1>5, <3>1, BurstsSpaced
    <3>5. \/ Latency(cmd) + Speed.nBL <= Latency(c) + dev'.channel[c]
          \/ Latency(cmd) + Speed.nBL <= Latency(c) + dev'.rank[r][c]
      BY <3>2, <3>3, <3>4, SpeedInt, LatencyIs
    <3> QED
      BY <2>1, <3>5 DEF Spaced, Start
  <2>4. \A x \in bus : Start(x) + Speed.nBL <= Start(new)
    <3> SUFFICES ASSUME NEW x \in bus PROVE Start(x) + Speed.nBL <= Start(new)
      OBVIOUS
    <3>1. Spaced(x, cmd, p[1])
      BY <1>1, <1>5 DEF BusSpaced
    <3>2. dev.channel[cmd] = 0 /\ dev.rank[p[1]][cmd] = 0
      BY <1>1, <1>5, Levels DEF Send, CommandCheck
    <3> QED
      BY <1>2, <2>1, <3>1, <3>2, SpeedInt, LatencyIs DEF Spaced
  <2>5. BusNeverShared'
    <3> SUFFICES ASSUME NEW x \in bus', NEW y \in bus', x # y
                 PROVE  Start(x) >= Start(y) + Speed.nBL \/ Start(y) >= Start(x) + Speed.nBL
      BY DEF BusNeverShared, Start
    <3>1. CASE x \in bus /\ y \in bus
      BY <3>1 DEF BusSpaced, BusNeverShared
    <3>2. CASE x = new
      <4>1. y \in bus
        BY <2>1, <3>2
      <4>2. Start(y) + Speed.nBL <= Start(x)
        BY <2>4, <3>2, <4>1
      <4>3. Start(y) \in Int /\ Start(x) \in Int
        BY <1>2, <2>1, <3>2, <4>1, LatencyIs
      <4> QED
        BY <4>2, <4>3, SpeedInt
    <3>3. CASE y = new
      <4>1. x \in bus
        BY <2>1, <3>3
      <4>2. Start(x) + Speed.nBL <= Start(y)
        BY <2>4, <3>3, <4>1
      <4>3. Start(y) \in Int /\ Start(x) \in Int
        BY <1>2, <2>1, <3>3, <4>1, LatencyIs
      <4> QED
        BY <4>2, <4>3, SpeedInt
    <3> QED
      BY <2>1, <3>1, <3>2, <3>3
  <2> QED
    BY <1>1, <1>3, <2>1, <2>2, <2>3, <2>5 DEF BusSpaced
<1> QED
  BY <1>4, <1>5

\* A cycle moves all bursts alike.
LEMMA BusClock ==
  ASSUME BusSpaced, Clock
  PROVE  BusSpaced'
<1>0. TypeOK /\ workload.commands \subseteq Commands
  BY CommandsOf DEF BusSpaced
<1>1. TypeOK' /\ workload' = workload
  BY <1>0, TypeClock DEF Clock
<1>2. \A z \in bus' : \E x \in bus : z = [cmd |-> x.cmd, age |-> x.age + 1]
  BY DEF Clock, Aged, BusSpaced
<1>3. \A x \in bus : /\ x \in [cmd : Accesses, age : Nat] /\ Start(x) \in Int
                     /\ Start([cmd |-> x.cmd, age |-> x.age + 1]) = Start(x) - 1
  <2> SUFFICES ASSUME NEW x \in bus
               PROVE  /\ x \in [cmd : Accesses, age : Nat] /\ Start(x) \in Int
                      /\ Start([cmd |-> x.cmd, age |-> x.age + 1]) = Start(x) - 1
    OBVIOUS
  <2>1. x \in [cmd : Accesses, age : Nat] /\ x.age \in Nat
    BY DEF BusSpaced
  <2>2. Latency(x.cmd) \in Nat
    BY LatencyIs
  <2> QED
    BY <2>1, <2>2 DEF Start
<1>4. bus' \in SUBSET [cmd : Accesses, age : Nat]
  BY <1>2, <1>3
<1>5. ASSUME NEW z \in bus', NEW c \in Accesses \cap workload.commands, NEW r \in workload.ranks
      PROVE  Spaced(z, c, r)'
  <2>1. PICK x \in bus : z = [cmd |-> x.cmd, age |-> x.age + 1]
    BY <1>2
  <2>2. Spaced(x, c, r) /\ Start(z) = Start(x) - 1 /\ Start(x) \in Int
    BY <1>3, <2>1 DEF BusSpaced
  <2>3. /\ dev.channel \in [Commands -> Nat] /\ dev.rank[r] \in [Commands -> Nat]
        /\ dev'.channel = OneLess(dev.channel) /\ dev'.rank[r] = OneLess(dev.rank[r])
    BY <1>0 DEF Clock, DeviceTick, TypeOK, DeviceType
  <2>4. /\ dev.channel[c] \in Nat /\ dev.rank[r][c] \in Nat
        /\ dev'.channel[c] \in Nat /\ dev'.rank[r][c] \in Nat
        /\ dev'.channel[c] >= dev.channel[c] - 1 /\ dev'.rank[r][c] >= dev.rank[r][c] - 1
    BY <1>0, <2>3, OneLessIs
  <2>5. \/ Start(z) + Speed.nBL <= Latency(c) + dev'.channel[c]
        \/ Start(z) + Speed.nBL <= Latency(c) + dev'.rank[r][c]
    BY <2>2, <2>4, SpeedInt, LatencyIs DEF Spaced
  <2> QED
    BY <2>5 DEF Spaced, Start
<1>6. BusNeverShared'
  <2> SUFFICES ASSUME NEW z \in bus', NEW u \in bus', z # u
               PROVE  Start(z) >= Start(u) + Speed.nBL \/ Start(u) >= Start(z) + Speed.nBL
    BY DEF BusNeverShared, Start
  <2>1. PICK x \in bus : z = [cmd |-> x.cmd, age |-> x.age + 1]
    BY <1>2
  <2>2. PICK y \in bus : u = [cmd |-> y.cmd, age |-> y.age + 1]
    BY <1>2
  <2>3. x # y
    BY <2>1, <2>2
  <2>4. Start(x) >= Start(y) + Speed.nBL \/ Start(y) >= Start(x) + Speed.nBL
    BY <2>3 DEF BusSpaced, BusNeverShared
  <2>5. /\ Start(z) = Start(x) - 1 /\ Start(x) \in Int
        /\ Start(u) = Start(y) - 1 /\ Start(y) \in Int
    BY <1>3, <2>1, <2>2
  <2> QED
    BY <2>4, <2>5, SpeedInt
<1> QED
  BY <1>1, <1>4, <1>5, <1>6 DEF BusSpaced

\* No two bursts share the data bus, for every speed grade and workload.
THEOREM BusNeverSharedAlways == Spec => []BusNeverShared
<1>1. Init => BusSpaced
  BY ExactInit DEF Exact, Init, BusSpaced, BusNeverShared
<1>2. BusSpaced /\ [Next]_vars => BusSpaced'
  <2> SUFFICES ASSUME BusSpaced, [Next]_vars
               PROVE  BusSpaced'
    OBVIOUS
  <2>1. CASE Clock
    BY <2>1, BusClock
  <2>2. ASSUME NEW cmd \in workload.commands, NEW p \in Places, NEW row \in workload.rows,
               Send(cmd, p[1], p[2], row)
        PROVE  BusSpaced'
    BY <2>2, BusSend
  <2>3. CASE UNCHANGED vars
    BY <2>3 DEF BusSpaced, TypeOK, Places, BusNeverShared, Spaced, Start, vars
  <2> QED
    BY <2>1, <2>2, <2>3 DEF Next
<1>3. BusSpaced => BusNeverShared
  BY DEF BusSpaced
<1> QED
  BY <1>1, <1>2, <1>3, PTL DEF Spec

=============================================================================

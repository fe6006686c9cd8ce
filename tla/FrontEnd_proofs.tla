---------------------------- MODULE FrontEnd_proofs ----------------------------
(***************************************************************************)
(* Proofs about FrontEnd, for any number of requestors, any traces and any *)
(* configuration that satisfies what a theorem asks of it: Fits, that the  *)
(* locations lie inside the memory organisation; OneQueueForRR and         *)
(* OneQueueForRound, without which RR removes another request than it has  *)
(* served, and Round another command than it has sent; SharedBanks, that   *)
(* the commands for a bank have one buffer.                                *)
(*                                                                         *)
(* The queues are seen as lists: the buffers of all request queues         *)
(* (RequestLists, numbered by Stacks) and of all command queues            *)
(* (CommandLists, numbered by Lists).  The folds of decodeQueue, of DIRECT *)
(* over the queues and of the commands that are enqueued are unfolded by   *)
(* FoldSteps (Lists_proofs), once each: DecodeCombines, DirectSteps,       *)
(* EnqueueSteps.  What a translated request does to the lists is MoveTo,   *)
(* and any set of states of the work that is Closed under it is closed     *)
(* under requestSchedule.                                                  *)
(*                                                                         *)
(*   Types /\ OnTheWay  each request is in its buffer, or its commands in  *)
(*                      theirs: OnePlace and OneBankPerQueue               *)
(*   Late /\ Idle       a requestor whose request was passed waits, and in *)
(*                      each cycle it waited another requestor was served, *)
(*                      none of them twice: OvertakenOnceByEach            *)
(*   Rowed              the row table says what the commands that wait     *)
(*                      leave open: AccessesFindRow                        *)
(***************************************************************************)
EXTENDS FrontEnd, Lists_proofs, FiniteSetTheorems

-----------------------------------------------------------------------------
(* Queues of the right number.                                             *)

\* The levels a queue map has an entry for.
LEMMA LevelNames ==
  /\ Len(QueueLevels) = 4 /\ QueueLevels[1] = "Rank" /\ QueueLevels[2] = "BankGroup"
  /\ QueueLevels[3] = "Bank" /\ QueueLevels[4] = "SubArray"
  /\ ToSet(QueueLevels) = {"Rank", "BankGroup", "Bank", "SubArray"}
  /\ ToSet(Levels) = {"Rank", "BankGroup", "Bank", "SubArray", "Row", "Column"}
<1>1. /\ Len(QueueLevels) = 4 /\ QueueLevels[1] = "Rank" /\ QueueLevels[2] = "BankGroup"
      /\ QueueLevels[3] = "Bank" /\ QueueLevels[4] = "SubArray" /\ DOMAIN QueueLevels = 1 .. 4
  BY DEF QueueLevels, Levels
<1>2. ToSet(QueueLevels) = {QueueLevels[1], QueueLevels[2], QueueLevels[3], QueueLevels[4]}
  BY <1>1 DEF ToSet
<1>3. DOMAIN Levels = 1 .. 6 /\ ToSet(Levels) = {Levels[1], Levels[2], Levels[3], Levels[4], Levels[5], Levels[6]}
  BY DEF ToSet, Levels
<1> QED
  BY <1>1, <1>2, <1>3 DEF Levels

\* How many of the first k levels there are together: g[k].
Counting(memTable_, g, m) ==
  /\ g \in [0 .. m -> Nat \ {0}] /\ g[0] = 1
  /\ \A k \in 1 .. m : g[k] = g[k - 1] * memTable_[QueueLevels[k]]

\* queueNumber multiplies the levels up to the one that is marked.
LEMMA QueueNumberCounts ==
  ASSUME NEW mt, \A level \in ToSet(QueueLevels) : mt[level] \in Nat \ {0},
         NEW map, Marked(map) # {}, NEW m \in 1 .. 4, m = Min(Marked(map))
  PROVE  \E g : Counting(mt, g, m) /\ QueueNumber(mt, map) = g[m]
<1> DEFINE seq == SubSeq(QueueLevels, 1, m)
           next(count, level) == count * mt[level]
           W == Nat \ {0}
           op == [p \in W \X (1 .. m) |-> next(p[1], seq[p[2]])]
           Run(h) == h = [d \in SUBSET DOMAIN seq |->
                            IF d = {} THEN 1 ELSE next(h[d \ {Max(d)}], seq[Max(d)])]
           iter == CHOOSE h : Run(h)
<1>1. m \in Nat /\ DOMAIN seq = 1 .. m /\ \A k \in 1 .. m : seq[k] = QueueLevels[k]
  BY LevelNames DEF QueueLevels, Levels
<1>2. \A k \in 1 .. m : mt[seq[k]] \in Nat \ {0}
  <2>1. \A k \in 1 .. m : k = 1 \/ k = 2 \/ k = 3 \/ k = 4
    OBVIOUS
  <2>2. \A k \in 1 .. m : seq[k] \in ToSet(QueueLevels)
    BY <1>1, <2>1, LevelNames
  <2> QED
    BY <2>2
<1>3. QueueNumber(mt, map) = iter[DOMAIN seq]
  BY DEF QueueNumber, FoldLeft, MapThenFoldSet
<1>4. op \in [W \X (1 .. m) -> W] /\ 1 \in W
  BY <1>2
<1>5. \A w \in W, k \in 1 .. m : op[<<w, k>>] = next(w, seq[k]) /\ op[<<w, k>>] = w * mt[QueueLevels[k]]
  BY <1>1
<1> HIDE DEF seq, op, next
<1>6. PICK h : Folding(W, m, 1, op, h)
  BY <1>1, <1>4, FoldRuns
<1>7. Run(h)
  <2>1. ASSUME NEW d \in SUBSET (1 .. m), d # {}
        PROVE  h[d] = next(h[d \ {Max(d)}], seq[Max(d)])
    <3>1. Max(d) \in 1 .. m /\ d \ {Max(d)} \in SUBSET (1 .. m)
      BY <1>1, <2>1, LastPlace
    <3>2. h[d \ {Max(d)}] \in W
      BY <1>6, <3>1 DEF Folding
    <3> QED
      BY <1>5, <1>6, <2>1, <3>1, <3>2 DEF Folding
  <2> QED
    BY <1>1, <1>6, <2>1 DEF Folding
<1>8. Run(iter)
  BY <1>7
<1> HIDE DEF iter
<1>9. GoesOn(W, m, 1, op, iter)
  <2>1. ASSUME NEW d \in SUBSET (1 .. m), d # {}, iter[d \ {Max(d)}] \in W
        PROVE  iter[d] = op[<<iter[d \ {Max(d)}], Max(d)>>]
    <3>1. Max(d) \in 1 .. m
      BY <1>1, <2>1, LastPlace
    <3> QED
      BY <1>1, <1>5, <1>8, <2>1, <3>1
  <2>2. iter[{}] = 1
    BY <1>8
  <2> QED
    BY <2>1, <2>2 DEF GoesOn
<1>10. PICK g : Steps(W, m, 1, op, g, iter[1 .. m])
  BY <1>1, <1>4, <1>9, FoldSteps
<1>11. Counting(mt, g, m)
  <2>1. ASSUME NEW k \in 1 .. m
        PROVE  g[k] = g[k - 1] * mt[QueueLevels[k]]
    <3>1. k - 1 \in 0 .. m
      BY <1>1
    <3>2. g[k - 1] \in W
      BY <1>10, <3>1 DEF Steps
    <3> QED
      BY <1>5, <1>10, <3>2 DEF Steps
  <2> QED
    BY <1>10, <2>1 DEF Steps, Counting
<1> QED
  BY <1>1, <1>3, <1>10, <1>11 DEF Steps

\* How decodeQueue combines the numbers of two levels.
Combined(product, n) ==
  IF n = 0 THEN product ELSE IF product = 0 THEN n ELSE product * n

\* What decodeQueue has made of the first k levels: g[k].
Combining(at, g, m) ==
  /\ g \in [0 .. m -> Nat] /\ g[0] = 0
  /\ \A k \in 1 .. m : g[k] = Combined(g[k - 1], at[QueueLevels[k]])

\* decodeQueue combines the levels above the one that is marked.
LEMMA DecodeCombines ==
  ASSUME NEW mt, NEW at, \A level \in ToSet(QueueLevels) : at[level] \in Nat,
         NEW map, Marked(map) # {}, NEW m \in 0 .. 3, m = Min(Marked(map)) - 1
  PROVE  \E g : /\ Combining(at, g, m)
                /\ DecodeQueue(mt, map, at) =
                     at[QueueLevels[Min(Marked(map))]] + g[m] * mt[QueueLevels[Min(Marked(map))]]
<1> DEFINE seq == [i \in 1 .. Min(Marked(map)) - 1 |-> at[QueueLevels[i]]]
           next(product, n) == IF n = 0 THEN product
                               ELSE IF product = 0 THEN n ELSE product * n
           op == [p \in Nat \X (1 .. m) |-> next(p[1], seq[p[2]])]
           Run(h) == h = [d \in SUBSET DOMAIN seq |->
                            IF d = {} THEN 0 ELSE next(h[d \ {Max(d)}], seq[Max(d)])]
           iter == CHOOSE h : Run(h)
<1>1. m \in Nat /\ DOMAIN seq = 1 .. m /\ \A k \in 1 .. m : seq[k] = at[QueueLevels[k]]
  OBVIOUS
<1>2. \A k \in 1 .. m : at[QueueLevels[k]] \in Nat
  <2>1. \A k \in 1 .. m : k = 1 \/ k = 2 \/ k = 3
    OBVIOUS
  <2>2. \A k \in 1 .. m : QueueLevels[k] \in ToSet(QueueLevels)
    BY <1>1, <2>1, LevelNames
  <2> QED
    BY <2>2
<1>3. DecodeQueue(mt, map, at) =
        at[QueueLevels[Min(Marked(map))]]
        + iter[DOMAIN seq] * mt[QueueLevels[Min(Marked(map))]]
  BY DEF DecodeQueue, FoldLeft, MapThenFoldSet
<1>4. op \in [Nat \X (1 .. m) -> Nat] /\ 0 \in Nat
  BY <1>1, <1>2
<1>5. \A w \in Nat, k \in 1 .. m : /\ op[<<w, k>>] = next(w, seq[k])
                                   /\ op[<<w, k>>] = Combined(w, at[QueueLevels[k]])
  BY <1>1 DEF Combined
<1> HIDE DEF seq, op, next
<1>6. PICK h : Folding(Nat, m, 0, op, h)
  BY <1>1, <1>4, FoldRuns
<1>7. Run(h)
  <2>1. ASSUME NEW d \in SUBSET (1 .. m), d # {}
        PROVE  h[d] = next(h[d \ {Max(d)}], seq[Max(d)])
    <3>1. Max(d) \in 1 .. m /\ d \ {Max(d)} \in SUBSET (1 .. m)
      BY <1>1, <2>1, LastPlace
    <3>2. h[d \ {Max(d)}] \in Nat
      BY <1>6, <3>1 DEF Folding
    <3> QED
      BY <1>5, <1>6, <2>1, <3>1, <3>2 DEF Folding
  <2> QED
    BY <1>1, <1>6, <2>1 DEF Folding
<1>8. Run(iter)
  BY <1>7
<1> HIDE DEF iter
<1>9. GoesOn(Nat, m, 0, op, iter)
  <2>1. ASSUME NEW d \in SUBSET (1 .. m), d # {}, iter[d \ {Max(d)}] \in Nat
        PROVE  iter[d] = op[<<iter[d \ {Max(d)}], Max(d)>>]
    <3>1. Max(d) \in 1 .. m
      BY <1>1, <2>1, LastPlace
    <3> QED
      BY <1>1, <1>5, <1>8, <2>1, <3>1
  <2>2. iter[{}] = 0
    BY <1>8
  <2> QED
    BY <2>1, <2>2 DEF GoesOn
<1>10. PICK g : Steps(Nat, m, 0, op, g, iter[1 .. m])
  BY <1>1, <1>4, <1>9, FoldSteps
<1>11. Combining(at, g, m)
  <2>1. ASSUME NEW k \in 1 .. m
        PROVE  g[k] = Combined(g[k - 1], at[QueueLevels[k]])
    <3>1. k - 1 \in 0 .. m
      BY <1>1
    <3>2. g[k - 1] \in Nat
      BY <1>10, <3>1 DEF Steps
    <3> QED
      BY <1>5, <1>10, <3>2 DEF Steps
  <2> QED
    BY <1>10, <2>1 DEF Steps, Combining
<1>12. DecodeQueue(mt, map, at) =
        at[QueueLevels[Min(Marked(map))]] + g[m] * mt[QueueLevels[Min(Marked(map))]]
  BY <1>1, <1>3, <1>10 DEF Steps
<1> QED
  BY <1>11, <1>12

\* A number below a * b.
LEMMA BelowProduct ==
  ASSUME NEW a \in Nat \ {0}, NEW b \in Nat \ {0}, NEW x \in 0 .. a - 1, NEW y \in 0 .. b - 1
  PROVE  y + x * b \in 0 .. a * b - 1 /\ x * y \in 0 .. a * b - 1
         /\ a * b \in Nat \ {0} /\ x <= a * b - 1 /\ y <= a * b - 1
<1>1. x * b + b <= a * b
  <2>1. (x + 1) * b <= a * b
    OBVIOUS
  <2> QED
    BY <2>1
<1>2. x * y <= x * b /\ x * b \in Nat /\ x * y \in Nat /\ a * b \in Nat
  OBVIOUS
<1>3. x <= x * b
  OBVIOUS
<1>4. a * b >= b
  OBVIOUS
<1> QED
  BY <1>1, <1>2, <1>3, <1>4

\* The marked level of a queue map.
LEMMA MarkedLevel ==
  ASSUME NEW map, Marked(map) # {}, Marked(map) \subseteq 1 .. 4
  PROVE  Min(Marked(map)) \in Marked(map) /\ Min(Marked(map)) \in 1 .. 4
<1>1. Marked(map) \in SUBSET Nat
  OBVIOUS
<1>2. PICK m \in Marked(map) : \A n \in Marked(map) : m <= n
  BY <1>1, LeastNat
<1>3. Min(Marked(map)) \in Marked(map)
  BY <1>2 DEF Min
<1> QED
  BY <1>3

\* decodeQueue numbers a queue that queueNumber has counted, for every location
\* inside the organisation.
LEMMA DecodeInside ==
  ASSUME NEW mt, \A level \in ToSet(QueueLevels) : mt[level] \in Nat \ {0},
         NEW map, Marked(map) \subseteq 1 .. 4,
         NEW at, \A level \in ToSet(QueueLevels) : at[level] \in Nat /\ at[level] < mt[level]
  PROVE  /\ QueueNumber(mt, map) \in Nat \ {0}
         /\ DecodeQueue(mt, map, at) \in 0 .. QueueNumber(mt, map) - 1
<1>1. CASE Marked(map) = {}
  <2>1. QueueNumber(mt, map) = 1
    BY <1>1, Zenon DEF QueueNumber
  <2>2. DecodeQueue(mt, map, at) = 0
    BY <1>1, Zenon DEF DecodeQueue
  <2> QED
    BY <2>1, <2>2
<1>2. CASE Marked(map) # {}
  <2> DEFINE m == Min(Marked(map))
  <2>1. m \in 1 .. 4 /\ m - 1 \in 0 .. 3
    BY <1>2, MarkedLevel
  <2>2. PICK g : Counting(mt, g, m) /\ QueueNumber(mt, map) = g[m]
    BY <1>2, <2>1, QueueNumberCounts
  <2>3. PICK f : /\ Combining(at, f, m - 1)
                 /\ DecodeQueue(mt, map, at) = at[QueueLevels[m]] + f[m - 1] * mt[QueueLevels[m]]
    BY <1>2, <2>1, DecodeCombines
  <2>4. \A k \in 1 .. 4 : QueueLevels[k] \in ToSet(QueueLevels)
    <3>1. \A k \in 1 .. 4 : k = 1 \/ k = 2 \/ k = 3 \/ k = 4
      OBVIOUS
    <3> QED
      BY <3>1, LevelNames
  <2> HIDE DEF m
  <2>5. \A k \in 1 .. 4 : /\ mt[QueueLevels[k]] \in Nat \ {0}
                          /\ at[QueueLevels[k]] \in 0 .. mt[QueueLevels[k]] - 1
    BY <2>4
  <2> DEFINE S == {k \in 0 .. m - 1 : f[k] \in 0 .. g[k] - 1}
  <2>6. 0 \in S
    BY <2>1, <2>2, <2>3 DEF Counting, Combining
  <2>7. ASSUME NEW k \in 1 .. m - 1, k - 1 \in S
        PROVE  k \in S
    <3> DEFINE n == at[QueueLevels[k]]
               b == mt[QueueLevels[k]]
               x == f[k - 1]
               a == g[k - 1]
    <3>1. k \in 1 .. 4 /\ k \in 1 .. m /\ k - 1 \in 0 .. m
      BY <2>1
    <3>2. n \in 0 .. b - 1 /\ b \in Nat \ {0} /\ x \in 0 .. a - 1 /\ a \in Nat \ {0}
      BY <2>2, <2>5, <2>7, <3>1 DEF Counting
    <3>3. f[k] = Combined(x, n) /\ g[k] = a * b
      BY <2>2, <2>3, <3>1 DEF Counting, Combining
    <3> HIDE DEF n, b, x, a
    <3>4. x * n \in 0 .. a * b - 1 /\ x <= a * b - 1 /\ n <= a * b - 1
      BY <3>2, BelowProduct
    <3>5. Combined(x, n) \in 0 .. a * b - 1
      BY <3>2, <3>4 DEF Combined
    <3> QED
      BY <3>3, <3>5
  <2> HIDE DEF S
  <2>8. m - 1 \in S
    <3>1. m - 1 \in Nat
      BY <2>1
    <3>2. 0 .. m - 1 \subseteq S
      BY <2>6, <2>7, <3>1, UpTo
    <3> QED
      BY <3>1, <3>2
  <2>9. f[m - 1] \in 0 .. g[m - 1] - 1 /\ g[m - 1] \in Nat \ {0} /\ g[m] = g[m - 1] * mt[QueueLevels[m]]
    BY <2>1, <2>2, <2>8 DEF S, Counting
  <2>10. at[QueueLevels[m]] + f[m - 1] * mt[QueueLevels[m]] \in 0 .. g[m - 1] * mt[QueueLevels[m]] - 1
         /\ g[m - 1] * mt[QueueLevels[m]] \in Nat \ {0}
    BY <2>1, <2>5, <2>9, BelowProduct
  <2> QED
    BY <2>2, <2>3, <2>9, <2>10 DEF m
<1> QED
  BY <1>1, <1>2

-----------------------------------------------------------------------------
(* The values there are.                                                   *)

\* Where a line of a trace asks for.
At(c, line) ==
  Location(c.memTable, Format(c.file.configTable["AddressMapping"]), c.placement,
           line.id, line.addr)

\* The requests that the lines of a configuration become, and their commands.
Requests(c) == {[id |-> line.id, type |-> line.type, at |-> At(c, line)] : line \in c.lines}
CommandTypes == {"PRE", "ACT_R", "ACT_W", "RD", "WR"}
Packets(c) == [type : CommandTypes, id : Requestors, at : {At(c, line) : line \in c.lines}]

\* The numbers of the queues.
RequestQueueNumbers(c) == 0 .. QueueNumber(c.memTable, c.file.reqMap) - 1
CommandQueueNumbers(c) == 0 .. QueueNumber(c.memTable, c.file.cmdMap) - 1

\* A queue has requests of its own for the requestors in its order.
Orderly(queue) ==
  \A id \in Requestors :
    /\ queue.own[id] # <<>> => id \in ToSet(queue.order)
    /\ \A i \in DOMAIN queue.own[id] : queue.own[id][i].id = id

\* A request queue, whose fields belong together.
RequestFields(c) ==
  [general : Seq(Requests(c)), own : [Requestors -> Seq(Requests(c))],
   order : Seq(Requestors), writes : Seq(Requests(c)),
   scheduled : [first : BOOLEAN, id : Nat, index : Nat]]
RequestQueues(c) == {queue \in RequestFields(c) : Orderly(queue)}

\* A command queue.
CommandQueues(c) ==
  [hrt : Seq(Packets(c)), srt : Seq(Packets(c)), own : [Requestors -> Seq(Packets(c))]]

\* The queue a request goes to, and the one a command goes to.
RequestHome(c, req) == DecodeQueue(c.memTable, c.file.reqMap, req.at)
CommandHome(c, cmd) ==
  DecodeQueue(c.memTable, c.file.cmdMap, [cmd.at EXCEPT !.BankGroup = 0, !.SubArray = 0])

\* A request and a location inside the organisation.
Inside(c, at) ==
  /\ at \in [ToSet(Levels) -> Nat]
  /\ \A level \in ToSet(QueueLevels) : at[level] \in Nat /\ at[level] < c.memTable[level]

\* What the lines of a configuration that fits ask for lies inside.
LEMMA LinesInside ==
  ASSUME NEW c \in Configurations, Fits(c)
  PROVE  /\ \A line \in c.lines : Inside(c, At(c, line))
         /\ \A r \in Requests(c) : /\ r.id \in Requestors /\ r.type \in RequestTypes
                                   /\ Inside(c, r.at) /\ r # NoRequest
                                   /\ r.at \in {At(c, line) : line \in c.lines}
         /\ \A k \in Packets(c) : k.id \in Requestors /\ Inside(c, k.at)
<1>1. ToSet(QueueLevels) \subseteq ToSet(Levels)
  BY LevelNames
<1>2. \A line \in c.lines : At(c, line) \in [ToSet(Levels) -> Nat]
        /\ \A level \in ToSet(QueueLevels) : At(c, line)[level] < c.memTable[level]
  BY DEF Fits, At
<1>3. \A line \in c.lines : Inside(c, At(c, line))
  BY <1>1, <1>2 DEF Inside
<1>4. \A line \in c.lines : line.id \in Requestors /\ line.type \in RequestTypes
  BY FrontEndAssumption
<1>5. ASSUME NEW r \in Requests(c)
      PROVE  /\ r.id \in Requestors /\ r.type \in RequestTypes
             /\ Inside(c, r.at) /\ r # NoRequest
             /\ r.at \in {At(c, line) : line \in c.lines}
  <2>1. PICK line \in c.lines : r = [id |-> line.id, type |-> line.type, at |-> At(c, line)]
    BY DEF Requests
  <2>2. r \in [id : Requestors, type : RequestTypes, at : [ToSet(Levels) -> Nat]]
    BY <1>2, <1>4, <2>1
  <2>3. r # NoRequest
    BY <2>2, FrontEndAssumption
  <2>4. r.id = line.id /\ r.type = line.type /\ r.at = At(c, line)
    BY <2>1
  <2> QED
    BY <1>3, <1>4, <2>3, <2>4
<1>6. \A k \in Packets(c) : k.id \in Requestors /\ Inside(c, k.at)
  BY <1>3 DEF Packets
<1> QED
  BY <1>3, <1>5, <1>6

\* Requests and commands go to queues that are there.
LEMMA HomesThere ==
  ASSUME NEW c \in Configurations, Fits(c)
  PROVE  /\ \A r \in Requests(c) : RequestHome(c, r) \in RequestQueueNumbers(c)
         /\ \A k \in Packets(c) : CommandHome(c, k) \in CommandQueueNumbers(c)
<1>1. /\ \A level \in ToSet(QueueLevels) : c.memTable[level] \in Nat \ {0}
      /\ Marked(c.file.reqMap) \subseteq 1 .. 4 /\ Marked(c.file.cmdMap) \subseteq 1 .. 4
  BY LevelNames DEF Fits
<1>2. ASSUME NEW r \in Requests(c)
      PROVE  RequestHome(c, r) \in RequestQueueNumbers(c)
  <2>1. \A level \in ToSet(QueueLevels) : r.at[level] \in Nat /\ r.at[level] < c.memTable[level]
    BY LinesInside DEF Inside
  <2> QED
    BY <1>1, <2>1, DecodeInside DEF RequestHome, RequestQueueNumbers
<1>3. ASSUME NEW k \in Packets(c)
      PROVE  CommandHome(c, k) \in CommandQueueNumbers(c)
  <2> DEFINE at == [k.at EXCEPT !.BankGroup = 0, !.SubArray = 0]
  <2>1. Inside(c, k.at)
    BY LinesInside
  <2>2. \A level \in ToSet(QueueLevels) : at[level] \in Nat /\ at[level] < c.memTable[level]
    <3> DEFINE names == ToSet(Levels)
    <3>1. names = {"Rank", "BankGroup", "Bank", "SubArray", "Row", "Column"}
          /\ ToSet(QueueLevels) = {"Rank", "BankGroup", "Bank", "SubArray"}
      BY LevelNames
    <3>2. k.at \in [names -> Nat]
      BY <2>1 DEF Inside
    <3> HIDE DEF names
    <3>3. \A level \in names : at[level] = IF level \in {"BankGroup", "SubArray"} THEN 0
                                         ELSE k.at[level]
      BY <3>1, <3>2
    <3>4. \A level \in ToSet(QueueLevels) : k.at[level] \in Nat /\ k.at[level] < c.memTable[level]
      BY <2>1 DEF Inside
    <3> HIDE DEF at
    <3>5. \A level \in ToSet(QueueLevels) : c.memTable[level] \in Nat /\ 0 < c.memTable[level]
      BY <1>1
    <3> QED
      BY <3>1, <3>3, <3>4, <3>5
  <2> HIDE DEF at
  <2>3. DecodeQueue(c.memTable, c.file.cmdMap, at) \in 0 .. QueueNumber(c.memTable, c.file.cmdMap) - 1
    BY <1>1, <2>2, DecodeInside
  <2> QED
    BY <2>3 DEF CommandHome, CommandQueueNumbers, at
<1> QED
  BY <1>2, <1>3

-----------------------------------------------------------------------------
(* The command queues as lists.                                            *)

\* The buffers of a command queue, and what is in one.
Racks == {<<"hrt", 0>>, <<"srt", 0>>} \cup {<<"own", id>> : id \in Requestors}
OnRack(queue, b) ==
  IF b[1] = "hrt" THEN queue.hrt ELSE IF b[1] = "srt" THEN queue.srt ELSE queue.own[b[2]]

\* The buffers of all queues.
Lists(c) == CommandQueueNumbers(c) \X Racks
CommandLists(c, cq) == [h \in Lists(c) |-> OnRack(cq[h[1]], h[2])]

\* The buffer a command goes to.
HomeOf(c, cmd) ==
  <<CommandHome(c, cmd),
    IF c.file.perRequestorCommands THEN <<"own", cmd.id>>
    ELSE IF cmd.id \in c.critical THEN <<"hrt", 0>> ELSE <<"srt", 0>>>>

\* Its buffer is there.
LEMMA HomeListed ==
  ASSUME NEW c \in Configurations, Fits(c), NEW cmd \in Packets(c)
  PROVE  HomeOf(c, cmd) \in Lists(c)
BY HomesThere, LinesInside DEF HomeOf, Lists, Racks

\* enqueueCommand appends a command to its buffer.
LEMMA EnqueueOne ==
  ASSUME config \in Configurations, Fits(config),
         NEW cq \in [CommandQueueNumbers(config) -> CommandQueues(config)],
         NEW cmd \in Packets(config)
  PROVE  /\ EnqueueCommand(cq, cmd) \in [CommandQueueNumbers(config) -> CommandQueues(config)]
         /\ \A g \in Lists(config) :
              CommandLists(config, EnqueueCommand(cq, cmd))[g] =
                IF g = HomeOf(config, cmd) THEN Append(CommandLists(config, cq)[g], cmd)
                ELSE CommandLists(config, cq)[g]
<1> DEFINE h == CommandHome(config, cmd)
           per == config.file.perRequestorCommands
           crit == cmd.id \in config.critical
           new == Q!InsertCommand(cq[h], per, crit, cmd)
<1>1. h \in CommandQueueNumbers(config) /\ cmd.id \in Requestors
  BY HomesThere, LinesInside
<1>2. EnqueueCommand(cq, cmd) = [cq EXCEPT ![h] = new]
  BY DEF EnqueueCommand, CommandHome, memTable
<1>3. per \in BOOLEAN
  BY FrontEndAssumption
<1>4. cq[h] \in CommandQueues(config)
  BY <1>1
<1> HIDE DEF h, per, crit
<1>5. new = IF per THEN [cq[h] EXCEPT !.own[cmd.id] = Append(@, cmd)]
            ELSE IF crit THEN [cq[h] EXCEPT !.hrt = Append(@, cmd)]
            ELSE [cq[h] EXCEPT !.srt = Append(@, cmd)]
  BY <1>3 DEF Q!InsertCommand, crit
<1> HIDE DEF new
<1>6. new \in CommandQueues(config)
  <2>1. cq[h].hrt \in Seq(Packets(config)) /\ cq[h].srt \in Seq(Packets(config))
        /\ cq[h].own \in [Requestors -> Seq(Packets(config))]
    BY <1>4 DEF CommandQueues
  <2>2. /\ Append(cq[h].hrt, cmd) \in Seq(Packets(config))
        /\ Append(cq[h].srt, cmd) \in Seq(Packets(config))
        /\ [cq[h].own EXCEPT ![cmd.id] = Append(@, cmd)] \in [Requestors -> Seq(Packets(config))]
    BY <1>1, <2>1
  <2>3. new = IF per THEN [cq[h] EXCEPT !.own = [cq[h].own EXCEPT ![cmd.id] = Append(@, cmd)]]
              ELSE IF crit THEN [cq[h] EXCEPT !.hrt = Append(cq[h].hrt, cmd)]
              ELSE [cq[h] EXCEPT !.srt = Append(cq[h].srt, cmd)]
    BY <1>5
  <2> QED
    BY <1>4, <2>2, <2>3 DEF CommandQueues
<1>7. \A b \in Racks : OnRack(new, b) =
        IF b = HomeOf(config, cmd)[2] THEN Append(OnRack(cq[h], b), cmd) ELSE OnRack(cq[h], b)
  BY <1>1, <1>4, <1>5 DEF CommandQueues, OnRack, Racks, HomeOf, per, crit
<1>8. HomeOf(config, cmd)[1] = h /\ HomeOf(config, cmd) \in Lists(config)
  BY HomeListed DEF HomeOf, h
<1>9. ASSUME NEW g \in Lists(config)
      PROVE  CommandLists(config, [cq EXCEPT ![h] = new])[g] =
               IF g = HomeOf(config, cmd) THEN Append(CommandLists(config, cq)[g], cmd)
               ELSE CommandLists(config, cq)[g]
  <2> DEFINE u == [cq EXCEPT ![h] = new]
  <2>1. /\ g = <<g[1], g[2]>> /\ g[1] \in CommandQueueNumbers(config) /\ g[2] \in Racks
        /\ HomeOf(config, cmd) = <<h, HomeOf(config, cmd)[2]>>
    BY <1>8 DEF Lists, HomeOf
  <2>2. u[g[1]] = IF g[1] = h THEN new ELSE cq[g[1]]
    BY <1>1, <2>1
  <2> HIDE DEF u
  <2>3. CommandLists(config, u)[g] = OnRack(u[g[1]], g[2])
        /\ CommandLists(config, cq)[g] = OnRack(cq[g[1]], g[2])
    BY DEF CommandLists
  <2>4. CASE g[1] = h
    <3>1. g = HomeOf(config, cmd) <=> g[2] = HomeOf(config, cmd)[2]
      BY <2>1, <2>4
    <3> QED
      BY <1>7, <2>1, <2>2, <2>3, <2>4, <3>1 DEF u
  <2>5. CASE g[1] # h
    <3>1. g # HomeOf(config, cmd)
      BY <1>8, <2>5
    <3> QED
      BY <2>2, <2>3, <2>5, <3>1 DEF u
  <2> QED
    BY <2>4, <2>5
<1> QED
  BY <1>1, <1>2, <1>6, <1>9

\* The states of the command queues.
CommandStores(c) == [CommandQueueNumbers(c) -> CommandQueues(c)]

\* A command in a buffer is one of the configuration's.
LEMMA ListsHold ==
  ASSUME NEW c, NEW cq \in CommandStores(c), NEW h \in Lists(c)
  PROVE  CommandLists(c, cq)[h] \in Seq(Packets(c))
<1>1. h[1] \in CommandQueueNumbers(c) /\ h[2] \in Racks
  BY DEF Lists
<1>2. cq[h[1]] \in CommandQueues(c)
  BY <1>1 DEF CommandStores
<1>3. OnRack(cq[h[1]], h[2]) \in Seq(Packets(c))
  BY <1>1, <1>2 DEF CommandQueues, OnRack, Racks
<1> QED
  BY <1>3 DEF CommandLists

\* The queues when the commands of a cycle are enqueued.
Enqueued(cq, list) == FoldLeft(EnqueueCommand, cq, list)

\* The commands of a list are enqueued one after the other: g[k] is what k of
\* them leave.
LEMMA EnqueueSteps ==
  ASSUME config \in Configurations, Fits(config),
         NEW cq \in CommandStores(config), NEW list \in Seq(Packets(config))
  PROVE  \E g : /\ g \in [0 .. Len(list) -> CommandStores(config)] /\ g[0] = cq
                /\ g[Len(list)] = Enqueued(cq, list)
                /\ \A k \in 1 .. Len(list) : g[k] = EnqueueCommand(g[k - 1], list[k])
<1> DEFINE n == Len(list)
           W == CommandStores(config)
           next(t, cmd) == EnqueueCommand(t, cmd)
           op == [p \in W \X (1 .. n) |-> next(p[1], list[p[2]])]
           Run(h) == h = [d \in SUBSET DOMAIN list |->
                            IF d = {} THEN cq ELSE next(h[d \ {Max(d)}], list[Max(d)])]
           iter == CHOOSE h : Run(h)
<1>1. n \in Nat /\ DOMAIN list = 1 .. n /\ \A k \in 1 .. n : list[k] \in Packets(config)
  OBVIOUS
<1>2. ASSUME NEW t \in W, NEW k \in 1 .. n
      PROVE  next(t, list[k]) \in W
  BY <1>1, EnqueueOne DEF CommandStores
<1>3. Enqueued(cq, list) = iter[DOMAIN list]
  BY DEF Enqueued, FoldLeft, MapThenFoldSet
<1> HIDE DEF next
<1>4. op \in [W \X (1 .. n) -> W]
  BY <1>2
<1>5. \A t \in W, k \in 1 .. n : op[<<t, k>>] = next(t, list[k])
  BY DEF op
<1> HIDE DEF n, op, W
<1>6. PICK h : Folding(W, n, cq, op, h)
  BY <1>1, <1>4, FoldRuns DEF W
<1>7. Run(h)
  <2>1. ASSUME NEW d \in SUBSET (1 .. n), d # {}
        PROVE  h[d] = next(h[d \ {Max(d)}], list[Max(d)])
    <3>1. Max(d) \in 1 .. n /\ d \ {Max(d)} \in SUBSET (1 .. n)
      BY <1>1, <2>1, LastPlace
    <3>2. h[d \ {Max(d)}] \in W
      BY <1>6, <3>1 DEF Folding
    <3> QED
      BY <1>5, <1>6, <2>1, <3>1, <3>2 DEF Folding
  <2> QED
    BY <1>1, <1>6, <2>1 DEF Folding
<1>8. Run(iter)
  BY <1>7
<1> HIDE DEF iter
<1>9. GoesOn(W, n, cq, op, iter)
  <2>1. ASSUME NEW d \in SUBSET (1 .. n), d # {}, iter[d \ {Max(d)}] \in W
        PROVE  iter[d] = op[<<iter[d \ {Max(d)}], Max(d)>>]
    <3>1. Max(d) \in 1 .. n
      BY <1>1, <2>1, LastPlace
    <3> QED
      BY <1>1, <1>5, <1>8, <2>1, <3>1
  <2>2. iter[{}] = cq
    BY <1>8
  <2> QED
    BY <2>1, <2>2 DEF GoesOn
<1>10. PICK g : Steps(W, n, cq, op, g, iter[1 .. n])
  BY <1>1, <1>4, <1>9, FoldSteps DEF W
<1>11. ASSUME NEW k \in 1 .. n
       PROVE  g[k] = EnqueueCommand(g[k - 1], list[k])
  <2>1. k - 1 \in 0 .. n
    BY <1>1
  <2>2. g[k - 1] \in W
    BY <1>10, <2>1 DEF Steps
  <2> QED
    BY <1>5, <1>10, <2>2 DEF Steps, next
<1> QED
  BY <1>1, <1>3, <1>10, <1>11 DEF Steps, n, W

\* Buffers v have become w: the first k commands of a list stand at the places
\* pos behind what was there, in the order of the list, and nothing else does.
Placing(c, v, list, k, w, pos) ==
  /\ \A h \in Lists(c) : /\ Len(v[h]) <= Len(w[h])
                         /\ \A i \in 1 .. Len(v[h]) : w[h][i] = v[h][i]
  /\ \A j \in 1 .. k : /\ pos[j] \in Len(v[HomeOf(c, list[j])]) + 1 .. Len(w[HomeOf(c, list[j])])
                       /\ w[HomeOf(c, list[j])][pos[j]] = list[j]
  /\ \A j1, j2 \in 1 .. k :
       j1 < j2 /\ HomeOf(c, list[j1]) = HomeOf(c, list[j2]) => pos[j1] < pos[j2]
  /\ \A h \in Lists(c) : \A i \in Len(v[h]) + 1 .. Len(w[h]) :
       \E j \in 1 .. k : HomeOf(c, list[j]) = h /\ pos[j] = i

\* One more command is placed.
LEMMA PlaceOne ==
  ASSUME NEW c \in Configurations, Fits(c), NEW list \in Seq(Packets(c)),
         NEW v, \A h \in Lists(c) : v[h] \in Seq(Packets(c)),
         NEW w, \A h \in Lists(c) : w[h] \in Seq(Packets(c)),
         NEW u, NEW pos, NEW k \in 1 .. Len(list), Placing(c, v, list, k - 1, w, pos),
         \A h \in Lists(c) : u[h] = IF h = HomeOf(c, list[k]) THEN Append(w[h], list[k]) ELSE w[h],
         pos[k] = Len(u[HomeOf(c, list[k])])
  PROVE  Placing(c, v, list, k, u, pos)
<1>1. list[k] \in Packets(c) /\ HomeOf(c, list[k]) \in Lists(c) /\ k \in Nat
  BY HomeListed
<1> DEFINE e == HomeOf(c, list[k])
<1>2. /\ Len(u[e]) = Len(w[e]) + 1 /\ u[e][Len(u[e])] = list[k]
      /\ \A i \in 1 .. Len(w[e]) : u[e][i] = w[e][i]
  <2>1. u[e] = Append(w[e], list[k]) /\ w[e] \in Seq(Packets(c)) /\ list[k] \in Packets(c)
    BY <1>1
  <2> HIDE DEF e
  <2> QED
    BY <2>1
<1>3. \A h \in Lists(c) : h # e => u[h] = w[h]
  OBVIOUS
<1>4. \A h \in Lists(c) : /\ Len(v[h]) \in Nat /\ Len(w[h]) \in Nat /\ Len(v[h]) <= Len(w[h])
                          /\ Len(w[h]) <= Len(u[h]) /\ Len(u[h]) \in Nat
                          /\ \A i \in 1 .. Len(w[h]) : u[h][i] = w[h][i]
  BY <1>2, <1>3, SMTT(20) DEF Placing
<1>5. \A j \in 1 .. k - 1 : HomeOf(c, list[j]) \in Lists(c) /\ j \in 1 .. Len(list)
  BY HomeListed
<1> DEFINE home(j) == HomeOf(c, list[j])
<1>6. e = home(k)
  OBVIOUS
<1> HIDE DEF e, home
<1>7. \A j \in 1 .. k - 1 : /\ pos[j] \in Len(v[home(j)]) + 1 .. Len(w[home(j)])
                            /\ w[home(j)][pos[j]] = list[j]
  BY DEF Placing, home
<1>8. \A h \in Lists(c) : /\ Len(v[h]) <= Len(u[h])
                          /\ \A i \in 1 .. Len(v[h]) : u[h][i] = v[h][i]
  <2>1. \A h \in Lists(c) : \A i \in 1 .. Len(v[h]) : w[h][i] = v[h][i]
    BY DEF Placing
  <2> TAKE h \in Lists(c)
  <2>2. \A i \in 1 .. Len(v[h]) : i \in 1 .. Len(w[h])
    BY <1>4
  <2>3. Len(v[h]) <= Len(u[h])
    BY <1>4
  <2> QED
    BY <1>4, <2>1, <2>2, <2>3
<1>9. \A j \in 1 .. k : /\ pos[j] \in Len(v[home(j)]) + 1 .. Len(u[home(j)])
                        /\ u[home(j)][pos[j]] = list[j]
  <2> TAKE j \in 1 .. k
  <2>1. CASE j = k
    <3>1. home(j) = e /\ pos[j] = Len(u[e]) /\ e \in Lists(c)
      BY <1>1, <1>6, <2>1 DEF e
    <3>2. Len(v[e]) \in Nat /\ Len(w[e]) \in Nat /\ Len(v[e]) <= Len(w[e])
      BY <1>4, <3>1
    <3> QED
      BY <1>2, <2>1, <3>1, <3>2
  <2>2. CASE j \in 1 .. k - 1
    <3>1. home(j) \in Lists(c)
      BY <1>5, <2>2 DEF home
    <3>2. pos[j] \in Len(v[home(j)]) + 1 .. Len(w[home(j)]) /\ w[home(j)][pos[j]] = list[j]
      BY <1>7, <2>2
    <3>3. pos[j] \in 1 .. Len(w[home(j)]) /\ pos[j] \in Len(v[home(j)]) + 1 .. Len(u[home(j)])
      BY SMTT(20), <1>4, <3>1, <3>2
    <3> QED
      BY <1>4, <3>1, <3>2, <3>3
  <2> QED
    BY <2>1, <2>2
<1>10. \A j1, j2 \in 1 .. k : j1 < j2 /\ home(j1) = home(j2) => pos[j1] < pos[j2]
  <2> TAKE j1, j2 \in 1 .. k
  <2> HAVE j1 < j2 /\ home(j1) = home(j2)
  <2>1. j1 \in 1 .. k - 1
    OBVIOUS
  <2>2. CASE j2 = k
    <3>1. pos[j1] <= Len(w[home(j1)]) /\ pos[j1] \in Int
      BY <1>4, <1>5, <1>7, <2>1 DEF home
    <3>2. pos[j2] = Len(w[e]) + 1 /\ home(j1) = e
      BY <1>2, <1>6, <2>2 DEF e
    <3>3. Len(w[e]) \in Nat
      BY <1>1, <1>4 DEF e
    <3> QED
      BY <3>1, <3>2, <3>3
  <2>3. CASE j2 \in 1 .. k - 1
    BY <2>1, <2>3 DEF Placing, home
  <2> QED
    BY <2>2, <2>3
<1>11. \A h \in Lists(c) : \A i \in Len(v[h]) + 1 .. Len(u[h]) :
         \E j \in 1 .. k : home(j) = h /\ pos[j] = i
  <2> TAKE h \in Lists(c)
  <2> TAKE i \in Len(v[h]) + 1 .. Len(u[h])
  <2>1. CASE i <= Len(w[h])
    <3>1. i \in Len(v[h]) + 1 .. Len(w[h])
      BY <1>4, <2>1
    <3>2. PICK j \in 1 .. k - 1 : home(j) = h /\ pos[j] = i
      BY <3>1 DEF Placing, home
    <3>3. j \in 1 .. k
      BY <1>1
    <3> QED
      BY <3>2, <3>3
  <2>2. CASE ~ i <= Len(w[h])
    <3>1. h = e /\ i = Len(w[h]) + 1
      BY SMTT(20), <1>2, <1>3, <1>4, <2>2
    <3>2. home(k) = h /\ pos[k] = i /\ k \in 1 .. k
      BY <1>1, <1>2, <1>6, <3>1 DEF e
    <3> QED
      BY <3>2
  <2> QED
    BY <2>1, <2>2
<1> QED
  BY <1>8, <1>9, <1>10, <1>11 DEF Placing, home

\* The commands of a cycle are placed behind those that wait.
LEMMA EnqueuePlaces ==
  ASSUME config \in Configurations, Fits(config),
         NEW cq \in CommandStores(config), NEW list \in Seq(Packets(config))
  PROVE  /\ Enqueued(cq, list) \in CommandStores(config)
         /\ \E pos : Placing(config, CommandLists(config, cq), list, Len(list),
                             CommandLists(config, Enqueued(cq, list)), pos)
<1> DEFINE n == Len(list)
           last == Enqueued(cq, list)
<1>1. PICK g : /\ g \in [0 .. n -> CommandStores(config)] /\ g[0] = cq /\ g[n] = last
               /\ \A k \in 1 .. n : g[k] = EnqueueCommand(g[k - 1], list[k])
  BY EnqueueSteps
<1> HIDE DEF last
<1>2. n \in Nat
  OBVIOUS
<1> DEFINE view(k) == CommandLists(config, g[k])
           pos == [k \in 1 .. n |-> Len(view(k)[HomeOf(config, list[k])])]
           S == {k \in 0 .. n : Placing(config, view(0), list, k, view(k), pos)}
<1>3. 0 \in S
  <2>1. \A h \in Lists(config) : Len(view(0)[h]) \in Nat
    BY <1>1, <1>2, ListsHold
  <2> HIDE DEF view, pos
  <2> QED
    BY <2>1 DEF Placing
<1>4. ASSUME NEW k \in 1 .. n, k - 1 \in S
      PROVE  k \in S
  <2>1. \A h \in Lists(config) : view(0)[h] \in Seq(Packets(config))
                                 /\ view(k - 1)[h] \in Seq(Packets(config))
    <3>1. g[0] \in CommandStores(config) /\ g[k - 1] \in CommandStores(config)
      BY <1>1, <1>2, <1>4
    <3> QED
      BY <3>1, ListsHold
  <2>2. \A h \in Lists(config) :
          view(k)[h] = IF h = HomeOf(config, list[k]) THEN Append(view(k - 1)[h], list[k])
                       ELSE view(k - 1)[h]
    <3>1. g[k - 1] \in [CommandQueueNumbers(config) -> CommandQueues(config)]
          /\ list[k] \in Packets(config) /\ g[k] = EnqueueCommand(g[k - 1], list[k])
      BY SMTT(20), <1>1, <1>2, <1>4 DEF CommandStores
    <3> QED
      BY <3>1, EnqueueOne
  <2>3. pos[k] = Len(view(k)[HomeOf(config, list[k])])
    OBVIOUS
  <2>4. Placing(config, view(0), list, k - 1, view(k - 1), pos)
    BY <1>4
  <2> HIDE DEF view, pos
  <2>5. Placing(config, view(0), list, k, view(k), pos)
    BY <2>1, <2>2, <2>3, <2>4, PlaceOne
  <2> QED
    BY <2>5
<1> HIDE DEF S
<1>5. n \in S
  <2> HIDE DEF n
  <2>1. 0 .. n \subseteq S
    BY <1>2, <1>3, <1>4, UpTo
  <2> QED
    BY <1>2, <2>1
<1>6. Placing(config, CommandLists(config, cq), list, n, CommandLists(config, last), pos)
  BY <1>1, <1>5 DEF S
<1> HIDE DEF pos
<1>7. last \in CommandStores(config)
  BY <1>1, <1>2
<1> QED
  BY <1>6, <1>7 DEF last

\* Buffers v have become w: a command at the front of buffer h is gone.
Sent(c, v, w, h, cmd) ==
  /\ h \in Lists(c) /\ v[h] # <<>> /\ cmd = Head(v[h])
  /\ \A g \in Lists(c) : w[g] = IF g = h THEN Tail(v[g]) ELSE v[g]

\* What a command scheduler sends is at the front of a buffer.
LEMMA CriticalSent ==
  ASSUME NEW c, NEW cq \in CommandStores(c), NEW q \in CommandQueueNumbers(c), cq[q].hrt # <<>>,
         NEW new, new = [cq EXCEPT ![q] = Q!RemoveCritical(@)]
  PROVE  /\ new \in CommandStores(c)
         /\ Sent(c, CommandLists(c, cq), CommandLists(c, new), <<q, <<"hrt", 0>>>>, Head(cq[q].hrt))
<1> DEFINE h == <<q, <<"hrt", 0>>>>
<1>1. cq[q] \in CommandQueues(c)
  BY DEF CommandStores
<1>2. cq[q].hrt \in Seq(Packets(c)) /\ Tail(cq[q].hrt) \in Seq(Packets(c))
  BY <1>1 DEF CommandQueues
<1>3. new \in CommandStores(c) /\ \A r \in CommandQueueNumbers(c) :
        new[r] = IF r = q THEN [cq[q] EXCEPT !.hrt = Tail(cq[q].hrt)] ELSE cq[r]
  BY <1>1, <1>2 DEF CommandStores, CommandQueues, Q!RemoveCritical
<1>4. h \in Lists(c) /\ OnRack(cq[q], <<"hrt", 0>>) = cq[q].hrt
  BY DEF Lists, Racks, OnRack
<1>5. CommandLists(c, cq)[h] = cq[q].hrt
  BY <1>4 DEF CommandLists
<1>6. ASSUME NEW g \in Lists(c)
      PROVE  CommandLists(c, new)[g] = IF g = h THEN Tail(CommandLists(c, cq)[g])
                                       ELSE CommandLists(c, cq)[g]
  <2>1. g = <<g[1], g[2]>> /\ g[1] \in CommandQueueNumbers(c) /\ g[2] \in Racks
    BY DEF Lists
  <2>2. CommandLists(c, cq)[g] = OnRack(cq[g[1]], g[2])
        /\ CommandLists(c, new)[g] = OnRack(new[g[1]], g[2])
    BY DEF CommandLists
  <2>3. CASE g[1] = q
    <3>1. new[g[1]] = [cq[q] EXCEPT !.hrt = Tail(cq[q].hrt)]
      BY <1>3, <2>1, <2>3
    <3>2. g = h <=> g[2] = <<"hrt", 0>>
      BY <2>1, <2>3
    <3>3. g[2][1] = "hrt" <=> g[2] = <<"hrt", 0>>
      BY <2>1 DEF Racks
    <3>4. new[g[1]].hrt = Tail(cq[q].hrt) /\ new[g[1]].srt = cq[q].srt /\ new[g[1]].own = cq[q].own
      BY <1>1, <3>1 DEF CommandQueues
    <3> QED
      BY <1>5, <2>2, <2>3, <3>2, <3>3, <3>4 DEF OnRack
  <2>4. CASE g[1] # q
    <3>1. new[g[1]] = cq[g[1]] /\ g # h
      BY <1>3, <2>1, <2>4
    <3> QED
      BY <2>2, <3>1
  <2> QED
    BY <2>3, <2>4
<1> QED
  BY <1>3, <1>4, <1>5, <1>6 DEF Sent

\* The same for the buffer of a requestor.
LEMMA OwnSent ==
  ASSUME NEW c, NEW cq \in CommandStores(c), NEW q \in CommandQueueNumbers(c), NEW id \in Requestors,
         cq[q].own[id] # <<>>, NEW new, new = [cq EXCEPT ![q] = Q!RemoveOwn(@, id)]
  PROVE  /\ new \in CommandStores(c)
         /\ Sent(c, CommandLists(c, cq), CommandLists(c, new), <<q, <<"own", id>>>>,
                 Head(cq[q].own[id]))
<1> DEFINE h == <<q, <<"own", id>>>>
<1>1. cq[q] \in CommandQueues(c)
  BY DEF CommandStores
<1>2. /\ cq[q].own \in [Requestors -> Seq(Packets(c))]
      /\ [cq[q].own EXCEPT ![id] = Tail(@)] \in [Requestors -> Seq(Packets(c))]
  BY <1>1 DEF CommandQueues
<1>3. new \in CommandStores(c) /\ \A r \in CommandQueueNumbers(c) :
        new[r] = IF r = q THEN [cq[q] EXCEPT !.own = [cq[q].own EXCEPT ![id] = Tail(@)]] ELSE cq[r]
  BY <1>1, <1>2 DEF CommandStores, CommandQueues, Q!RemoveOwn
<1>4. h \in Lists(c) /\ OnRack(cq[q], <<"own", id>>) = cq[q].own[id]
  BY DEF Lists, Racks, OnRack
<1>5. CommandLists(c, cq)[h] = cq[q].own[id]
  BY <1>4 DEF CommandLists
<1>6. ASSUME NEW g \in Lists(c)
      PROVE  CommandLists(c, new)[g] = IF g = h THEN Tail(CommandLists(c, cq)[g])
                                       ELSE CommandLists(c, cq)[g]
  <2>1. g = <<g[1], g[2]>> /\ g[1] \in CommandQueueNumbers(c) /\ g[2] \in Racks
    BY DEF Lists
  <2>2. CommandLists(c, cq)[g] = OnRack(cq[g[1]], g[2])
        /\ CommandLists(c, new)[g] = OnRack(new[g[1]], g[2])
    BY DEF CommandLists
  <2>3. CASE g[1] = q
    <3>1. new[g[1]] = [cq[q] EXCEPT !.own = [cq[q].own EXCEPT ![id] = Tail(@)]]
      BY <1>3, <2>1, <2>3
    <3>2. g = h <=> g[2] = <<"own", id>>
      BY <2>1, <2>3
    <3>3. /\ new[g[1]].hrt = cq[q].hrt /\ new[g[1]].srt = cq[q].srt
          /\ \A k \in Requestors : new[g[1]].own[k] = IF k = id THEN Tail(cq[q].own[id])
                                                      ELSE cq[q].own[k]
      <4>1. /\ new[g[1]].hrt = cq[q].hrt /\ new[g[1]].srt = cq[q].srt
            /\ new[g[1]].own = [cq[q].own EXCEPT ![id] = Tail(@)]
        BY <1>1, <3>1 DEF CommandQueues
      <4> QED
        BY <1>2, <4>1
    <3>4. CASE g[2] \in {<<"hrt", 0>>, <<"srt", 0>>}
      <4>1. g[2] # <<"own", id>>
        BY <3>4
      <4> QED
        BY <2>2, <2>3, <3>2, <3>3, <3>4, <4>1 DEF OnRack
    <3>5. ASSUME NEW k \in Requestors, g[2] = <<"own", k>>
          PROVE  CommandLists(c, new)[g] = IF g = h THEN Tail(CommandLists(c, cq)[g])
                                           ELSE CommandLists(c, cq)[g]
      <4>1. g = h <=> k = id
        BY <3>2, <3>5
      <4>2. OnRack(new[g[1]], g[2]) = new[g[1]].own[k] /\ OnRack(cq[g[1]], g[2]) = cq[q].own[k]
        BY <2>3, <3>5 DEF OnRack
      <4> QED
        BY <2>2, <3>3, <4>1, <4>2
    <3> QED
      BY <2>1, <3>4, <3>5 DEF Racks
  <2>4. CASE g[1] # q
    <3>1. new[g[1]] = cq[g[1]] /\ g # h
      BY <1>3, <2>1, <2>4
    <3> QED
      BY <2>2, <3>1
  <2> QED
    BY <2>3, <2>4
<1> QED
  BY <1>3, <1>4, <1>5, <1>6 DEF Sent

-----------------------------------------------------------------------------
(* The request queues as lists.                                            *)

\* The buffers of a request queue, and what is in one.
Shelves == {<<"general", 0>>, <<"writes", 0>>} \cup {<<"own", id>> : id \in Requestors}
OnShelf(queue, b) ==
  IF b[1] = "general" THEN queue.general
  ELSE IF b[1] = "writes" THEN queue.writes ELSE queue.own[b[2]]

\* The buffers of all queues.
Stacks(c) == RequestQueueNumbers(c) \X Shelves
RequestLists(c, rq) == [n \in Stacks(c) |-> OnShelf(rq[n[1]], n[2])]

\* The states of the request queues.
RequestStores(c) == [RequestQueueNumbers(c) -> RequestQueues(c)]

\* A request in a buffer is one of the configuration's.
LEMMA StacksHold ==
  ASSUME NEW c, NEW rq \in RequestStores(c), NEW n \in Stacks(c)
  PROVE  RequestLists(c, rq)[n] \in Seq(Requests(c))
<1>1. n[1] \in RequestQueueNumbers(c) /\ n[2] \in Shelves
  BY DEF Stacks
<1>2. rq[n[1]] \in RequestFields(c)
  BY <1>1 DEF RequestStores, RequestQueues
<1>3. OnShelf(rq[n[1]], n[2]) \in Seq(Requests(c))
  BY SMTT(20), <1>1, <1>2 DEF RequestFields, OnShelf, Shelves
<1> QED
  BY <1>3 DEF RequestLists

\* A list without the element at i.
LEMMA Without ==
  ASSUME NEW S, NEW list \in Seq(S), NEW i \in 1 .. Len(list)
  PROVE  /\ Q!Erase(list, i) = RemoveAt(list, i) /\ RemoveAt(list, i) \in Seq(S)
         /\ Len(RemoveAt(list, i)) = Len(list) - 1
         /\ \A j \in 1 .. Len(list) - 1 :
              RemoveAt(list, i)[j] = IF j < i THEN list[j] ELSE list[j + 1]
<1>1. Q!Erase(list, i) = RemoveAt(list, i)
  <2>1. i \in DOMAIN list
    OBVIOUS
  <2>2. Q!Erase(list, i) = Q!RemoveAt(list, i)
    BY <2>1 DEF Q!Erase
  <2> QED
    BY <2>2 DEF Q!RemoveAt, RemoveAt
<1>2. SubSeq(list, 1, i - 1) \in Seq(S) /\ SubSeq(list, i + 1, Len(list)) \in Seq(S)
  OBVIOUS
<1>3. Len(SubSeq(list, 1, i - 1)) = i - 1 /\ Len(SubSeq(list, i + 1, Len(list))) = Len(list) - i
  OBVIOUS
<1>4. \A j \in 1 .. i - 1 : SubSeq(list, 1, i - 1)[j] = list[j]
  OBVIOUS
<1>5. \A j \in 1 .. Len(list) - i : SubSeq(list, i + 1, Len(list))[j] = list[i + j]
  OBVIOUS
<1> DEFINE a == SubSeq(list, 1, i - 1)
           b == SubSeq(list, i + 1, Len(list))
<1>6. RemoveAt(list, i) = a \o b
  BY DEF RemoveAt
<1>10. a \in Seq(S) /\ b \in Seq(S) /\ Len(a) = i - 1 /\ Len(b) = Len(list) - i
  BY <1>2, <1>3
<1> HIDE DEF a, b
<1>7. a \o b \in Seq(S) /\ Len(a \o b) = Len(list) - 1
  BY <1>10
<1>8. \A j \in 1 .. Len(list) - 1 : (a \o b)[j] = IF j < i THEN a[j] ELSE b[j - (i - 1)]
  BY <1>10
<1>9. \A j \in 1 .. Len(list) - 1 : (a \o b)[j] = IF j < i THEN list[j] ELSE list[j + 1]
  <2> TAKE j \in 1 .. Len(list) - 1
  <2>1. CASE j < i
    BY <1>4, <1>8, <2>1 DEF a
  <2>2. CASE ~ j < i
    <3>1. j - (i - 1) \in 1 .. Len(list) - i /\ i + (j - (i - 1)) = j + 1
      BY <2>2
    <3>2. b[j - (i - 1)] = list[i + (j - (i - 1))]
      BY <1>5, <3>1 DEF b
    <3> QED
      BY <1>8, <2>2, <3>1, <3>2
  <2> QED
    BY <2>1, <2>2
<1> QED
  BY <1>1, <1>6, <1>7, <1>9

\* Queue q of rq has become the one given.
Replaced(c, rq, q, queue, new) ==
  \A r \in RequestQueueNumbers(c) : new[r] = IF r = q THEN queue ELSE rq[r]

\* One queue is replaced.
LEMMA QueueReplaced ==
  ASSUME NEW c, NEW rq, NEW q, NEW queue, NEW new, Replaced(c, rq, q, queue, new)
  PROVE  \A n \in Stacks(c) :
           RequestLists(c, new)[n] =
             IF n[1] = q THEN OnShelf(queue, n[2]) ELSE RequestLists(c, rq)[n]
<1>1. ASSUME NEW n \in Stacks(c)
      PROVE  RequestLists(c, new)[n] = IF n[1] = q THEN OnShelf(queue, n[2])
                                       ELSE RequestLists(c, rq)[n]
  <2>1. n[1] \in RequestQueueNumbers(c)
    BY DEF Stacks
  <2> QED
    BY <2>1 DEF RequestLists, Replaced
<1> QED
  BY <1>1

\* Buffers v have become w: the request at i of buffer n is gone.
Taken(c, v, w, n, i) ==
  /\ n \in Stacks(c) /\ i \in 1 .. Len(v[n])
  /\ \A g \in Stacks(c) : w[g] = IF g = n THEN RemoveAt(v[g], i) ELSE v[g]

\* What is accessed in the shared buffer is removed.
LEMMA GeneralTaken ==
  ASSUME NEW c, NEW rq \in RequestStores(c), NEW q \in RequestQueueNumbers(c),
         NEW i \in 1 .. Len(rq[q].general),
         NEW new, new = [rq EXCEPT ![q] = Q!RemoveRequest(Q!AccessGeneral(rq[q], i))]
  PROVE  /\ new \in RequestStores(c) /\ rq[q].general[i] \in Requests(c)
         /\ Taken(c, RequestLists(c, rq), RequestLists(c, new), <<q, <<"general", 0>>>>, i)
         /\ RequestLists(c, rq)[<<q, <<"general", 0>>>>][i] = rq[q].general[i]
         /\ \A r \in RequestQueueNumbers(c) : /\ new[r].order = rq[r].order
                                              /\ r # q => new[r] = rq[r]
<1> DEFINE old == rq[q]
           queue == Q!RemoveRequest(Q!AccessGeneral(old, i))
           n == <<q, <<"general", 0>>>>
           note == [first |-> FALSE, id |-> 0, index |-> i]
<1>1. old \in RequestFields(c) /\ Orderly(old) /\ i \in Nat /\ i \in 1 .. Len(old.general)
  BY DEF RequestStores, RequestQueues, RequestFields
<1> HIDE DEF old
<1>2. /\ old.general \in Seq(Requests(c))
      /\ Q!Erase(old.general, i) = RemoveAt(old.general, i)
      /\ RemoveAt(old.general, i) \in Seq(Requests(c))
      /\ old.general[i] \in Requests(c)
  <2>1. old.general \in Seq(Requests(c))
    BY <1>1 DEF RequestFields
  <2> QED
    BY <1>1, <2>1, Without
<1>3. Q!AccessGeneral(old, i) = [old EXCEPT !.scheduled = note]
  BY DEF Q!AccessGeneral
<1> DEFINE noted == [old EXCEPT !.scheduled = note]
<1>4. /\ noted \in RequestFields(c) /\ noted.general = old.general /\ noted.scheduled = note
      /\ noted.own = old.own /\ noted.order = old.order /\ noted.writes = old.writes
  BY <1>1 DEF RequestFields
<1> HIDE DEF noted
<1>5. queue = [noted EXCEPT !.general = RemoveAt(old.general, i)]
  <2>1. noted.scheduled.first = FALSE /\ noted.scheduled.index = i
    BY <1>4
  <2>2. Q!RemoveRequest(noted) = [noted EXCEPT !.general = Q!Erase(noted.general, i)]
    BY <2>1 DEF Q!RemoveRequest
  <2>3. queue = Q!RemoveRequest(noted)
    BY <1>3 DEF noted
  <2> QED
    BY <1>2, <1>4, <2>2, <2>3
<1> HIDE DEF queue
<1>6. /\ queue \in RequestFields(c) /\ queue.general = RemoveAt(old.general, i)
      /\ queue.own = old.own /\ queue.order = old.order /\ queue.writes = old.writes
  BY <1>2, <1>4, <1>5 DEF RequestFields
<1>7. queue \in RequestQueues(c)
  BY <1>1, <1>6 DEF RequestQueues, Orderly
<1>8. new = [rq EXCEPT ![q] = queue]
  BY DEF queue, old
<1>9. \A b \in Shelves : OnShelf(queue, b) = IF b = <<"general", 0>> THEN RemoveAt(OnShelf(old, b), i)
                                             ELSE OnShelf(old, b)
  BY <1>6 DEF Shelves, OnShelf
<1>10. \A g \in Stacks(c) : /\ g = <<g[1], g[2]>> /\ g[2] \in Shelves
                            /\ RequestLists(c, rq)[g] = OnShelf(rq[g[1]], g[2])
  BY DEF Stacks, RequestLists
<1>11. n \in Stacks(c) /\ OnShelf(old, <<"general", 0>>) = old.general
  BY DEF Stacks, Shelves, OnShelf
<1>12. RequestLists(c, rq)[n] = old.general
  BY <1>10, <1>11 DEF old
<1>13. \A g \in Stacks(c) : RequestLists(c, new)[g] =
          IF g[1] = q THEN OnShelf(queue, g[2]) ELSE RequestLists(c, rq)[g]
  <2>1. Replaced(c, rq, q, queue, new)
    BY <1>7, <1>8 DEF RequestStores, Replaced
  <2> QED
    BY <2>1, QueueReplaced
<1>14. \A g \in Stacks(c) : RequestLists(c, new)[g] =
          IF g = n THEN RemoveAt(RequestLists(c, rq)[g], i) ELSE RequestLists(c, rq)[g]
  <2> TAKE g \in Stacks(c)
  <2>1. CASE g[1] = q
    <3>1. (g = n <=> g[2] = <<"general", 0>>) /\ g[2] \in Shelves
          /\ RequestLists(c, rq)[g] = OnShelf(old, g[2])
      BY <1>10, <2>1 DEF old
    <3> QED
      BY <1>9, <1>13, <2>1, <3>1
  <2>2. CASE g[1] # q
    <3>1. g # n
      BY <2>2
    <3> QED
      BY <1>13, <2>2, <3>1
  <2> QED
    BY <2>1, <2>2
<1>15. new \in RequestStores(c) /\ \A r \in RequestQueueNumbers(c) :
         new[r].order = rq[r].order /\ (r # q => new[r] = rq[r])
  BY <1>6, <1>7, <1>8 DEF RequestStores, old
<1> QED
  BY <1>1, <1>2, <1>11, <1>12, <1>14, <1>15 DEF Taken, old

\* What is accessed in the buffer of a requestor is removed.
LEMMA OwnTaken ==
  ASSUME NEW c, NEW rq \in RequestStores(c), NEW q \in RequestQueueNumbers(c),
         NEW id \in Requestors, rq[q].own[id] # <<>>,
         NEW new, new = [rq EXCEPT ![q] = Q!RemoveRequest(Q!AccessOwn(rq[q], id))]
  PROVE  /\ new \in RequestStores(c) /\ Head(rq[q].own[id]) \in Requests(c)
         /\ Head(rq[q].own[id]).id = id
         /\ Taken(c, RequestLists(c, rq), RequestLists(c, new), <<q, <<"own", id>>>>, 1)
         /\ RequestLists(c, rq)[<<q, <<"own", id>>>>][1] = Head(rq[q].own[id])
         /\ \A r \in RequestQueueNumbers(c) : /\ new[r].order = rq[r].order
                                              /\ r # q => new[r] = rq[r]
<1> DEFINE old == rq[q]
           queue == Q!RemoveRequest(Q!AccessOwn(old, id))
           n == <<q, <<"own", id>>>>
           note == [first |-> TRUE, id |-> id, index |-> 1]
<1>1. old \in RequestFields(c) /\ Orderly(old) /\ id \in Nat /\ old.own[id] # <<>>
  BY DEF RequestStores, RequestQueues, Requestors
<1> HIDE DEF old
<1>2. /\ old.own \in [Requestors -> Seq(Requests(c))]
      /\ old.own[id] \in Seq(Requests(c)) /\ 1 \in 1 .. Len(old.own[id])
      /\ Head(old.own[id]) = old.own[id][1] /\ 1 \in DOMAIN old.own[id]
      /\ old.own[id][1] \in Requests(c)
  BY <1>1 DEF RequestFields
<1>3. /\ Q!Erase(old.own[id], 1) = RemoveAt(old.own[id], 1)
      /\ RemoveAt(old.own[id], 1) \in Seq(Requests(c))
      /\ Len(RemoveAt(old.own[id], 1)) = Len(old.own[id]) - 1
      /\ \A j \in 1 .. Len(old.own[id]) - 1 :
           RemoveAt(old.own[id], 1)[j] = old.own[id][j + 1]
  <2>1. /\ Q!Erase(old.own[id], 1) = RemoveAt(old.own[id], 1)
        /\ RemoveAt(old.own[id], 1) \in Seq(Requests(c))
        /\ Len(RemoveAt(old.own[id], 1)) = Len(old.own[id]) - 1
        /\ \A j \in 1 .. Len(old.own[id]) - 1 :
           RemoveAt(old.own[id], 1)[j] = IF j < 1 THEN old.own[id][j] ELSE old.own[id][j + 1]
    BY <1>2, Without
  <2> QED
    BY <2>1
<1>4. Q!AccessOwn(old, id) = [old EXCEPT !.scheduled = note]
  BY DEF Q!AccessOwn
<1> DEFINE noted == [old EXCEPT !.scheduled = note]
<1>5. /\ noted \in RequestFields(c) /\ noted.general = old.general /\ noted.scheduled = note
      /\ noted.own = old.own /\ noted.order = old.order /\ noted.writes = old.writes
  BY <1>1 DEF RequestFields
<1> HIDE DEF noted
<1> DEFINE left == [old.own EXCEPT ![id] = RemoveAt(old.own[id], 1)]
<1>6. queue = [noted EXCEPT !.own = left]
  <2>1. noted.scheduled.first = TRUE /\ noted.scheduled.id = id /\ noted.scheduled.index = 1
    BY <1>5
  <2>2. Q!RemoveRequest(noted) = [noted EXCEPT !.own[id] = Q!Erase(noted.own[id], 1)]
    BY <2>1 DEF Q!RemoveRequest
  <2>3. queue = Q!RemoveRequest(noted)
    BY <1>4 DEF noted
  <2> QED
    BY <1>3, <1>5, <2>2, <2>3
<1>7. left \in [Requestors -> Seq(Requests(c))]
      /\ \A k \in Requestors : left[k] = IF k = id THEN RemoveAt(old.own[id], 1) ELSE old.own[k]
  BY <1>2, <1>3
<1> HIDE DEF queue, left
<1>8. /\ queue \in RequestFields(c) /\ queue.general = old.general
      /\ queue.own = left /\ queue.order = old.order /\ queue.writes = old.writes
  BY <1>5, <1>6, <1>7 DEF RequestFields
<1>9. queue \in RequestQueues(c)
  <2>1. ASSUME NEW k \in Requestors
        PROVE  /\ left[k] # <<>> => k \in ToSet(old.order)
               /\ \A j \in DOMAIN left[k] : left[k][j].id = k
    <3>1. CASE k # id
      BY <1>1, <1>7, <3>1 DEF Orderly
    <3>2. CASE k = id
      <4>1. k \in ToSet(old.order) /\ \A j \in DOMAIN old.own[id] : old.own[id][j].id = id
        BY <1>1, <3>2 DEF Orderly
      <4> DEFINE list == old.own[id]
                 rest == RemoveAt(list, 1)
      <4>2. /\ list \in Seq(Requests(c)) /\ rest \in Seq(Requests(c)) /\ Len(rest) = Len(list) - 1
            /\ left[k] = rest /\ \A j \in 1 .. Len(list) - 1 : rest[j] = list[j + 1]
            /\ \A j \in DOMAIN list : list[j].id = id
        BY <1>2, <1>3, <1>7, <3>2, <4>1
      <4> HIDE DEF list, rest
      <4>3. \A j \in DOMAIN rest : rest[j].id = id
        BY <4>2
      <4> QED
        BY <3>2, <4>1, <4>2, <4>3
    <3> QED
      BY <3>1, <3>2
  <2> QED
    BY <1>8, <2>1 DEF RequestQueues, Orderly
<1>10. new = [rq EXCEPT ![q] = queue]
  BY DEF queue, old
<1>11. \A b \in Shelves : OnShelf(queue, b) = IF b = <<"own", id>> THEN RemoveAt(OnShelf(old, b), 1)
                                              ELSE OnShelf(old, b)
  <2> TAKE b \in Shelves
  <2>1. CASE b \in {<<"general", 0>>, <<"writes", 0>>}
    BY <1>8, <2>1 DEF OnShelf
  <2>2. ASSUME NEW k \in Requestors, b = <<"own", k>>
        PROVE  OnShelf(queue, b) = IF b = <<"own", id>> THEN RemoveAt(OnShelf(old, b), 1)
                                   ELSE OnShelf(old, b)
    <3>1. OnShelf(queue, b) = left[k] /\ OnShelf(old, b) = old.own[k] /\ (b = <<"own", id>> <=> k = id)
      BY <1>8, <2>2 DEF OnShelf
    <3> QED
      BY <1>7, <3>1
  <2> QED
    BY <2>1, <2>2 DEF Shelves
<1>12. \A g \in Stacks(c) : /\ g = <<g[1], g[2]>> /\ g[2] \in Shelves
                            /\ RequestLists(c, rq)[g] = OnShelf(rq[g[1]], g[2])
  BY DEF Stacks, RequestLists
<1>13. n \in Stacks(c) /\ OnShelf(old, <<"own", id>>) = old.own[id]
  BY DEF Stacks, Shelves, OnShelf
<1>14. RequestLists(c, rq)[n] = old.own[id]
  BY <1>12, <1>13 DEF old
<1>15. \A g \in Stacks(c) : RequestLists(c, new)[g] =
          IF g[1] = q THEN OnShelf(queue, g[2]) ELSE RequestLists(c, rq)[g]
  <2>1. Replaced(c, rq, q, queue, new)
    BY <1>9, <1>10 DEF RequestStores, Replaced
  <2> QED
    BY <2>1, QueueReplaced
<1>16. \A g \in Stacks(c) : RequestLists(c, new)[g] =
          IF g = n THEN RemoveAt(RequestLists(c, rq)[g], 1) ELSE RequestLists(c, rq)[g]
  <2> TAKE g \in Stacks(c)
  <2>1. CASE g[1] = q
    <3>1. (g = n <=> g[2] = <<"own", id>>) /\ g[2] \in Shelves
          /\ RequestLists(c, rq)[g] = OnShelf(old, g[2])
      BY <1>12, <2>1 DEF old
    <3> QED
      BY <1>11, <1>15, <2>1, <3>1
  <2>2. CASE g[1] # q
    <3>1. g # n
      BY <2>2
    <3> QED
      BY <1>15, <2>2, <3>1
  <2> QED
    BY <2>1, <2>2
<1>17. new \in RequestStores(c) /\ \A r \in RequestQueueNumbers(c) :
         new[r].order = rq[r].order /\ (r # q => new[r] = rq[r])
  BY <1>8, <1>9, <1>10 DEF RequestStores, old
<1>18. Head(old.own[id]) \in Requests(c) /\ Head(old.own[id]).id = id
  BY <1>1, <1>2 DEF Orderly
<1>19. Taken(c, RequestLists(c, rq), RequestLists(c, new), n, 1)
  BY <1>2, <1>13, <1>14, <1>16 DEF Taken
<1>20. RequestLists(c, rq)[n][1] = Head(old.own[id])
  BY <1>2, <1>14
<1> QED
  BY <1>17, <1>18, <1>19, <1>20 DEF old

\* Buffers v have become w: a request is at the end of buffer n.
Given(c, v, w, n, req) ==
  /\ n \in Stacks(c)
  /\ \A g \in Stacks(c) : w[g] = IF g = n THEN Append(v[g], req) ELSE v[g]

\* insertRequest appends a request to a buffer of its queue.
LEMMA RequestGiven ==
  ASSUME NEW c \in Configurations, Fits(c), NEW rq \in RequestStores(c), NEW req \in Requests(c),
         NEW q, q = RequestHome(c, req),
         NEW new, new = [rq EXCEPT ![q] = Q!InsertRequest(rq[q], c.file, req)]
  PROVE  /\ new \in RequestStores(c)
         /\ \E n : Given(c, RequestLists(c, rq), RequestLists(c, new), n, req)
         /\ \A r \in RequestQueueNumbers(c) : Len(rq[r].order) <= Len(new[r].order)
<1> DEFINE old == rq[q]
           queue == Q!InsertRequest(old, c.file, req)
           late == c.file.writeQueue /\ req.type = "DATA_WRITE"
           shared == ~ c.file.perRequestor
           id == req.id
           order == IF id \in ToSet(old.order) THEN old.order ELSE Append(old.order, id)
           b == IF late THEN <<"writes", 0>> ELSE IF shared THEN <<"general", 0>> ELSE <<"own", id>>
<1>1. q \in RequestQueueNumbers(c) /\ id \in Requestors
  BY HomesThere, LinesInside
<1>2. old \in RequestFields(c) /\ Orderly(old)
  BY <1>1 DEF RequestStores, RequestQueues
<1> HIDE DEF old
<1>3. queue = IF late THEN [old EXCEPT !.writes = Append(@, req)]
              ELSE IF shared THEN [old EXCEPT !.general = Append(@, req)]
              ELSE [old EXCEPT !.own[id] = Append(@, req), !.order = order]
  BY DEF Q!InsertRequest, Q!ToSet, ToSet
<1> HIDE DEF queue, late, shared
<1>4. /\ old.general \in Seq(Requests(c)) /\ old.writes \in Seq(Requests(c))
      /\ old.own \in [Requestors -> Seq(Requests(c))] /\ old.order \in Seq(Requestors)
  BY <1>2 DEF RequestFields
<1>5. /\ order \in Seq(Requestors) /\ id \in ToSet(order) /\ ToSet(old.order) \subseteq ToSet(order)
      /\ Len(old.order) <= Len(order)
  <2>1. CASE id \in ToSet(old.order)
    BY <1>4, <2>1
  <2>2. CASE id \notin ToSet(old.order)
    <3> DEFINE s == old.order
               t == Append(s, id)
    <3>1. s \in Seq(Requestors) /\ id \in Requestors /\ order = t
      BY <1>1, <1>4, <2>2
    <3> HIDE DEF s, order
    <3>2. t \in Seq(Requestors) /\ Len(t) = Len(s) + 1 /\ Len(s) \in Nat /\ t[Len(s) + 1] = id
          /\ \A i \in 1 .. Len(s) : t[i] = s[i]
      BY <3>1
    <3> HIDE DEF t
    <3>3. DOMAIN s = 1 .. Len(s) /\ DOMAIN t = 1 .. Len(t)
      BY <3>1, <3>2
    <3>4. ToSet(s) \subseteq ToSet(t) /\ id \in ToSet(t)
      BY <3>2, <3>3 DEF ToSet
    <3> QED
      BY <3>1, <3>2, <3>4 DEF s
  <2> QED
    BY <2>1, <2>2
<1> HIDE DEF order
<1> DEFINE longer == [old.own EXCEPT ![id] = Append(@, req)]
<1>6. /\ Append(old.general, req) \in Seq(Requests(c)) /\ Append(old.writes, req) \in Seq(Requests(c))
      /\ longer \in [Requestors -> Seq(Requests(c))]
      /\ \A k \in Requestors : longer[k] = IF k = id THEN Append(old.own[id], req) ELSE old.own[k]
  BY <1>1, <1>4
<1>7. queue = IF late THEN [old EXCEPT !.writes = Append(old.writes, req)]
              ELSE IF shared THEN [old EXCEPT !.general = Append(old.general, req)]
              ELSE [[old EXCEPT !.own = longer] EXCEPT !.order = order]
  BY <1>2, <1>3 DEF RequestFields
<1> HIDE DEF longer
<1>8. /\ queue \in RequestFields(c)
      /\ queue.writes = IF late THEN Append(old.writes, req) ELSE old.writes
      /\ queue.general = IF ~ late /\ shared THEN Append(old.general, req) ELSE old.general
      /\ queue.own = IF ~ late /\ ~ shared THEN longer ELSE old.own
      /\ queue.order = IF ~ late /\ ~ shared THEN order ELSE old.order
  <2>1. CASE late
    BY <1>2, <1>6, <1>7, <2>1 DEF RequestFields
  <2>2. CASE ~ late /\ shared
    BY <1>2, <1>6, <1>7, <2>2 DEF RequestFields
  <2>3. CASE ~ late /\ ~ shared
    <3> DEFINE half == [old EXCEPT !.own = longer]
    <3>1. /\ half \in RequestFields(c) /\ half.writes = old.writes /\ half.general = old.general
          /\ half.own = longer
      BY <1>2, <1>6 DEF RequestFields
    <3>2. queue = [half EXCEPT !.order = order]
      BY <1>7, <2>3
    <3> HIDE DEF half
    <3> QED
      BY <1>5, <2>3, <3>1, <3>2 DEF RequestFields
  <2> QED
    BY <2>1, <2>2, <2>3
<1>9. Orderly(queue)
  <2>1. CASE late \/ shared
    BY <1>2, <1>8, <2>1 DEF Orderly
  <2>2. CASE ~ late /\ ~ shared
    <3>1. ASSUME NEW k \in Requestors
          PROVE  /\ longer[k] # <<>> => k \in ToSet(order)
                 /\ \A i \in DOMAIN longer[k] : longer[k][i].id = k
      <4>1. CASE k # id
        BY <1>2, <1>5, <1>6, <4>1 DEF Orderly
      <4>2. CASE k = id
        <5> DEFINE s == old.own[id]
        <5>1. s \in Seq(Requests(c)) /\ longer[k] = Append(s, req) /\ req.id = k
          BY <1>1, <1>4, <1>6, <4>2
        <5>2. \A i \in DOMAIN s : s[i].id = k
          BY <1>1, <1>2, <4>2 DEF Orderly
        <5> HIDE DEF s
        <5>3. \A i \in DOMAIN Append(s, req) : i = Len(s) + 1 \/ i \in DOMAIN s
          BY <5>1
        <5>4. \A i \in DOMAIN Append(s, req) : Append(s, req)[i].id = k
          BY <5>1, <5>2, <5>3
        <5> QED
          BY <1>5, <4>2, <5>1, <5>4
      <4> QED
        BY <4>1, <4>2
    <3> QED
      BY <1>8, <2>2, <3>1 DEF Orderly
  <2> QED
    BY <2>1, <2>2
<1>10. queue \in RequestQueues(c)
  BY <1>8, <1>9 DEF RequestQueues
<1>11. new = [rq EXCEPT ![q] = queue]
  BY DEF queue, old
<1>12. new \in RequestStores(c) /\ Replaced(c, rq, q, queue, new)
  BY <1>10, <1>11 DEF RequestStores, Replaced
<1>13. ASSUME NEW r \in RequestQueueNumbers(c)
       PROVE  Len(rq[r].order) <= Len(new[r].order)
  <2>1. rq[r].order \in Seq(Requestors)
    BY DEF RequestStores, RequestQueues, RequestFields
  <2>2. Len(rq[r].order) \in Nat
    BY <2>1
  <2>3. new[r] = IF r = q THEN queue ELSE rq[r]
    BY <1>12 DEF Replaced
  <2> QED
    BY <1>5, <1>8, <2>2, <2>3 DEF old
<1>14. b \in Shelves
  BY <1>1 DEF Shelves
<1>15. \A d \in Shelves : OnShelf(queue, d) = IF d = b THEN Append(OnShelf(old, d), req) ELSE OnShelf(old, d)
  <2> TAKE d \in Shelves
  <2>1. CASE d \in {<<"general", 0>>, <<"writes", 0>>}
    BY <1>8, <2>1 DEF OnShelf
  <2>2. ASSUME NEW k \in Requestors, d = <<"own", k>>
        PROVE  OnShelf(queue, d) = IF d = b THEN Append(OnShelf(old, d), req) ELSE OnShelf(old, d)
    <3>1. OnShelf(queue, d) = queue.own[k] /\ OnShelf(old, d) = old.own[k]
          /\ (d = b <=> k = id /\ ~ late /\ ~ shared)
      BY <2>2 DEF OnShelf
    <3> QED
      BY <1>6, <1>8, <3>1
  <2> QED
    BY <2>1, <2>2 DEF Shelves
<1> HIDE DEF b
<1>16. \A g \in Stacks(c) : /\ g = <<g[1], g[2]>> /\ g[2] \in Shelves
                            /\ RequestLists(c, rq)[g] = OnShelf(rq[g[1]], g[2])
  BY DEF Stacks, RequestLists
<1>17. \A g \in Stacks(c) : RequestLists(c, new)[g] =
          IF g[1] = q THEN OnShelf(queue, g[2]) ELSE RequestLists(c, rq)[g]
  BY <1>12, QueueReplaced
<1> DEFINE n == <<q, b>>
<1>18. \A g \in Stacks(c) : RequestLists(c, new)[g] =
          IF g = n THEN Append(RequestLists(c, rq)[g], req) ELSE RequestLists(c, rq)[g]
  <2> TAKE g \in Stacks(c)
  <2>1. CASE g[1] = q
    <3>1. (g = n <=> g[2] = b) /\ g[2] \in Shelves
          /\ RequestLists(c, rq)[g] = OnShelf(old, g[2])
      BY <1>16, <2>1 DEF old
    <3> QED
      BY <1>15, <1>17, <2>1, <3>1
  <2>2. CASE g[1] # q
    <3>1. g # n
      BY <2>2
    <3> QED
      BY <1>17, <2>2, <3>1
  <2> QED
    BY <2>1, <2>2
<1>19. n \in Stacks(c)
  BY <1>1, <1>14 DEF Stacks
<1> HIDE DEF n
<1>20. Given(c, RequestLists(c, rq), RequestLists(c, new), n, req)
  BY <1>18, <1>19 DEF Given
<1> QED
  BY <1>12, <1>13, <1>20

\* Where a request is found.
Spot(b, i, req) == [buffer |-> b[1], owner |-> b[2], index |-> i, req |-> req]

\* What a scheduler can find in a queue is what is in its buffers.
LEMMA FoundInBuffers ==
  ASSUME NEW c, NEW queue \in RequestQueues(c)
  PROVE  /\ \A x \in Q!RequestsIn(queue) :
              \E b \in Shelves : \E i \in DOMAIN OnShelf(queue, b) : x = Spot(b, i, OnShelf(queue, b)[i])
         /\ \A b \in Shelves : \A i \in DOMAIN OnShelf(queue, b) :
              Spot(b, i, OnShelf(queue, b)[i]) \in Q!RequestsIn(queue)
<1> DEFINE In(buffer, owner, list) ==
             {[buffer |-> buffer, owner |-> owner, index |-> i, req |-> list[i]] : i \in DOMAIN list}
           Held(b) == In(b[1], b[2], OnShelf(queue, b))
           g == <<"general", 0>>
           w == <<"writes", 0>>
<1>1. queue \in RequestFields(c) /\ Orderly(queue)
  BY DEF RequestQueues
<1>2. ToSet(queue.order) \subseteq Requestors
  BY <1>1 DEF RequestFields, ToSet
<1>3. Q!RequestsIn(queue) = In("general", 0, queue.general) \cup In("writes", 0, queue.writes)
        \cup UNION {In("own", id, queue.own[id]) : id \in ToSet(queue.order)}
  BY DEF Q!RequestsIn, Q!ToSet, ToSet
<1>4. /\ Held(g) = In("general", 0, queue.general) /\ Held(w) = In("writes", 0, queue.writes)
      /\ \A id \in Requestors : Held(<<"own", id>>) = In("own", id, queue.own[id])
  BY DEF OnShelf
<1>5. \A id \in Requestors : id \notin ToSet(queue.order) => In("own", id, queue.own[id]) = {}
  <2> TAKE id \in Requestors
  <2> HAVE id \notin ToSet(queue.order)
  <2>1. queue.own[id] = <<>>
    BY <1>1 DEF Orderly
  <2>2. DOMAIN queue.own[id] = {}
    BY <2>1
  <2> QED
    BY <2>2
<1> HIDE DEF In, Held
<1>6. Q!RequestsIn(queue) = UNION {Held(b) : b \in Shelves}
  <2>1. g \in Shelves /\ w \in Shelves /\ \A id \in Requestors : <<"own", id>> \in Shelves
    BY DEF Shelves
  <2>2. \A b \in Shelves : b = g \/ b = w \/ \E id \in Requestors : b = <<"own", id>>
    BY DEF Shelves
  <2>3. \A x \in Q!RequestsIn(queue) : \E b \in Shelves : x \in Held(b)
    BY <1>2, <1>3, <1>4, <2>1
  <2>4. \A b \in Shelves : \A x : x \in Held(b) => x \in Q!RequestsIn(queue)
    <3> SUFFICES ASSUME NEW b \in Shelves, NEW x \in Held(b)
                 PROVE  x \in Q!RequestsIn(queue)
      OBVIOUS
    <3>1. CASE b = g \/ b = w
      BY <1>3, <1>4, <3>1
    <3>2. ASSUME NEW id \in Requestors, b = <<"own", id>>
          PROVE  x \in Q!RequestsIn(queue)
      <4>1. x \in In("own", id, queue.own[id])
        BY <1>4, <3>2
      <4>2. id \in ToSet(queue.order)
        BY <1>5, <3>2, <4>1
      <4> QED
        BY <1>3, <4>1, <4>2
    <3> QED
      BY <2>2, <3>1, <3>2
  <2> HIDE DEF g, w
  <2> QED
    BY <2>3, <2>4
<1>7. \A b \in Shelves : \A x : x \in Held(b) <=>
        \E i \in DOMAIN OnShelf(queue, b) : x = Spot(b, i, OnShelf(queue, b)[i])
  BY DEF Held, In, Spot
<1> QED
  BY <1>6, <1>7

\* The places of a requestor's requests.
LEMMA WaitingListed ==
  ASSUME config \in Configurations, NEW v, v = RequestLists(config, requestQueue),
         requestQueue \in RequestStores(config), NEW id \in Requestors
  PROVE  /\ \A e \in WaitingIn(id) : \E n \in Stacks(config) : \E i \in DOMAIN v[n] :
              v[n][i].id = id /\ e = <<n[1], Spot(n[2], i, v[n][i])>>
         /\ \A n \in Stacks(config) : \A i \in DOMAIN v[n] :
              v[n][i].id = id => <<n[1], Spot(n[2], i, v[n][i])>> \in WaitingIn(id)
<1>1. DOMAIN requestQueue = RequestQueueNumbers(config)
      /\ \A q \in RequestQueueNumbers(config) : requestQueue[q] \in RequestQueues(config)
  BY DEF RequestStores
<1>2. \A n \in Stacks(config) : v[n] = OnShelf(requestQueue[n[1]], n[2])
  BY DEF RequestLists
<1>3. \A e : e \in WaitingIn(id) <=> \E q \in RequestQueueNumbers(config) :
        \E x \in Q!RequestsIn(requestQueue[q]) : x.req.id = id /\ e = <<q, x>>
  BY <1>1 DEF WaitingIn
<1>4. \A b, i, req : Spot(b, i, req).req = req
  BY DEF Spot
<1>5. ASSUME NEW e \in WaitingIn(id)
      PROVE  \E n \in Stacks(config) : \E i \in DOMAIN v[n] :
               v[n][i].id = id /\ e = <<n[1], Spot(n[2], i, v[n][i])>>
  <2>5. PICK q \in RequestQueueNumbers(config) :
          \E x \in Q!RequestsIn(requestQueue[q]) : x.req.id = id /\ e = <<q, x>>
    BY <1>3
  <2>1. PICK x \in Q!RequestsIn(requestQueue[q]) : x.req.id = id /\ e = <<q, x>>
    BY <2>5
  <2>6. PICK b \in Shelves : \E i \in DOMAIN OnShelf(requestQueue[q], b) :
          x = Spot(b, i, OnShelf(requestQueue[q], b)[i])
    BY <1>1, FoundInBuffers
  <2>2. PICK i \in DOMAIN OnShelf(requestQueue[q], b) :
          x = Spot(b, i, OnShelf(requestQueue[q], b)[i])
    BY <2>6
  <2>3. <<q, b>> \in Stacks(config) /\ v[<<q, b>>] = OnShelf(requestQueue[q], b)
    BY <1>2 DEF Stacks
  <2>4. v[<<q, b>>][i].id = id /\ e = <<q, Spot(b, i, v[<<q, b>>][i])>>
    BY <1>4, <2>1, <2>2, <2>3
  <2> QED
    BY <2>2, <2>3, <2>4
<1>6. ASSUME NEW n \in Stacks(config), NEW i \in DOMAIN v[n], v[n][i].id = id
      PROVE  <<n[1], Spot(n[2], i, v[n][i])>> \in WaitingIn(id)
  <2>1. n[1] \in RequestQueueNumbers(config) /\ n[2] \in Shelves
    BY DEF Stacks
  <2>2. Spot(n[2], i, v[n][i]) \in Q!RequestsIn(requestQueue[n[1]])
    BY <1>1, <1>2, <2>1, FoundInBuffers
  <2> QED
    BY <1>3, <1>4, <1>6, <2>1, <2>2
<1> QED
  BY <1>5, <1>6

\* Each command is in its buffer.  A command of a requestor is in queue q.
AtHome(c, v) == \A h \in Lists(c) : \A i \in DOMAIN v[h] : HomeOf(c, v[h][i]) = h
Lying(c, v, q, id, cmd) ==
  \E h \in Lists(c) : h[1] = q /\ \E i \in DOMAIN v[h] : v[h][i] = cmd /\ cmd.id = id

\* The commands of a requestor, if the buffers of the requestors hold theirs.
LEMMA CommandsListed ==
  ASSUME config \in Configurations, NEW cq \in CommandStores(config),
         AtHome(config, CommandLists(config, cq)),
         NEW q \in CommandQueueNumbers(config), NEW id \in Requestors, NEW cmd
  PROVE  cmd \in Q!CommandsOf(cq[q], id) <=> Lying(config, CommandLists(config, cq), q, id, cmd)
<1> DEFINE queue == cq[q]
           v == CommandLists(config, cq)
<1>0. \A h \in Lists(config) : \A i \in DOMAIN v[h] : HomeOf(config, v[h][i]) = h
  BY DEF AtHome
<1>1. Q!CommandsOf(queue, id) =
        {k \in ToSet(queue.hrt) \cup ToSet(queue.srt) : k.id = id} \cup ToSet(queue.own[id])
  BY DEF Q!CommandsOf, Q!ToSet, ToSet
<1>2. \A h \in Lists(config) : h[1] = q => v[h] = OnRack(queue, h[2]) /\ h[2] \in Racks
  BY DEF CommandLists, Lists
<1>3. \A b \in Racks : <<q, b>> \in Lists(config) /\ v[<<q, b>>] = OnRack(queue, b)
  BY <1>2 DEF Lists
<1> HIDE DEF v
<1>4. \A k \in ToSet(queue.own[id]) : k.id = id
  <2> TAKE k \in ToSet(queue.own[id])
  <2>1. <<"own", id>> \in Racks /\ OnRack(queue, <<"own", id>>) = queue.own[id]
    BY DEF Racks, OnRack
  <2>2. PICK i \in DOMAIN queue.own[id] : queue.own[id][i] = k
    BY DEF ToSet
  <2>3. HomeOf(config, k) = <<q, <<"own", id>>>>
    <3> DEFINE h == <<q, <<"own", id>>>>
    <3>1. h \in Lists(config) /\ v[h] = queue.own[id]
      BY <1>3, <2>1
    <3> HIDE DEF h, queue
    <3>2. HomeOf(config, v[h][i]) = h
      BY <1>0, <2>2, <3>1
    <3> QED
      BY <2>2, <3>1, <3>2 DEF h
  <2>4. HomeOf(config, k)[2] = <<"own", id>>
    BY <2>3
  <2> QED
    BY <2>4 DEF HomeOf
<1> HIDE DEF queue
<1>5. ASSUME cmd \in Q!CommandsOf(queue, id)
      PROVE  \E b \in Racks : \E i \in DOMAIN OnRack(queue, b) : OnRack(queue, b)[i] = cmd /\ cmd.id = id
  <2>1. /\ <<"hrt", 0>> \in Racks /\ OnRack(queue, <<"hrt", 0>>) = queue.hrt
        /\ <<"srt", 0>> \in Racks /\ OnRack(queue, <<"srt", 0>>) = queue.srt
        /\ <<"own", id>> \in Racks /\ OnRack(queue, <<"own", id>>) = queue.own[id]
    BY DEF Racks, OnRack
  <2>2. cmd.id = id
    BY <1>1, <1>4, <1>5
  <2>3. cmd \in ToSet(queue.hrt) \/ cmd \in ToSet(queue.srt) \/ cmd \in ToSet(queue.own[id])
    BY <1>1, <1>5
  <2> QED
    BY <2>1, <2>2, <2>3 DEF ToSet
<1>6. ASSUME NEW b \in Racks, NEW i \in DOMAIN OnRack(queue, b), OnRack(queue, b)[i] = cmd, cmd.id = id
      PROVE  cmd \in Q!CommandsOf(queue, id)
  <2>1. cmd \in ToSet(OnRack(queue, b))
    BY <1>6 DEF ToSet
  <2>2. CASE b \in {<<"hrt", 0>>, <<"srt", 0>>}
    BY <1>1, <1>6, <2>1, <2>2 DEF OnRack
  <2>3. ASSUME NEW k \in Requestors, b = <<"own", k>>
        PROVE  cmd \in Q!CommandsOf(queue, id)
    <3>1. HomeOf(config, cmd) = <<q, <<"own", k>>>>
      BY <1>0, <1>3, <1>6, <2>3
    <3>2. HomeOf(config, cmd)[2] = <<"own", k>>
      BY <3>1
    <3>3. k = id
      BY <1>6, <3>2 DEF HomeOf
    <3>4. OnRack(queue, b) = queue.own[id]
      BY <2>3, <3>3 DEF OnRack
    <3> QED
      BY <1>1, <2>1, <3>4
  <2> QED
    BY <2>2, <2>3 DEF Racks
<1>7. (\E h \in Lists(config) : h[1] = q /\ \E i \in DOMAIN v[h] : v[h][i] = cmd /\ cmd.id = id)
      <=> \E b \in Racks : \E i \in DOMAIN OnRack(queue, b) : OnRack(queue, b)[i] = cmd /\ cmd.id = id
  <2>1. ASSUME NEW h \in Lists(config), h[1] = q, NEW i \in DOMAIN v[h], v[h][i] = cmd, cmd.id = id
        PROVE  \E b \in Racks : \E j \in DOMAIN OnRack(queue, b) : OnRack(queue, b)[j] = cmd /\ cmd.id = id
    BY <1>2, <2>1
  <2>2. ASSUME NEW b \in Racks, NEW i \in DOMAIN OnRack(queue, b), OnRack(queue, b)[i] = cmd, cmd.id = id
        PROVE  \E h \in Lists(config) : h[1] = q /\ \E j \in DOMAIN v[h] : v[h][j] = cmd /\ cmd.id = id
    <3>1. <<q, b>>[1] = q
      OBVIOUS
    <3> QED
      BY <1>3, <2>2, <3>1
  <2> QED
    BY <2>1, <2>2
<1> QED
  BY <1>5, <1>6, <1>7 DEF queue, v, Lying

-----------------------------------------------------------------------------
(* Where a request is on its way.                                          *)

\* Two lists, one behind the other.
LEMMA Joined ==
  ASSUME NEW S, NEW a \in Seq(S), NEW b \in Seq(S)
  PROVE  /\ a \o b \in Seq(S) /\ Len(a \o b) = Len(a) + Len(b)
         /\ \A k \in 1 .. Len(a) + Len(b) :
              (a \o b)[k] = IF k <= Len(a) THEN a[k] ELSE b[k - Len(a)]
OBVIOUS

\* The commands of a request: for its requestor and its location, and if its row
\* is not open a PRE and an ACT before the accesses.
Generated(list, req, open) ==
  /\ \A k \in DOMAIN list : list[k].id = req.id /\ list[k].at = req.at
  /\ Len(list) = (IF open THEN 0 ELSE 2) + BurstsPerRequest
  /\ ~ open => list[1].type = "PRE" /\ list[2].type \in {"ACT_R", "ACT_W"}
  /\ \A k \in DOMAIN list : (open \/ k > 2) <=> IsAccess(list[k])

\* commandGenerate makes such a list of commands.
LEMMA GenerateCommands ==
  ASSUME NEW c \in Configurations, NEW req \in Requests(c), req.id \in Requestors,
         req.at \in {At(c, line) : line \in c.lines}, NEW open \in BOOLEAN
  PROVE  /\ CommandGenerate(req, open) \in Seq(Packets(c))
         /\ Generated(CommandGenerate(req, open), req, open)
<1> DEFINE packet(t) == [type |-> t, id |-> req.id, at |-> req.at]
           read == req.type = "DATA_READ"
           cas == [k \in 1 .. BurstsPerRequest |-> packet(IF read THEN "RD" ELSE "WR")]
           first == <<packet("PRE"), packet(IF read THEN "ACT_R" ELSE "ACT_W")>>
<1>1. CommandGenerate(req, open) = IF open THEN cas ELSE first \o cas
  BY DEF CommandGenerate
<1>2. \A t \in CommandTypes : packet(t) \in Packets(c)
  BY DEF Packets
<1>3. BurstsPerRequest \in Nat \ {0}
  BY FrontEndAssumption
<1>4. /\ cas \in Seq(Packets(c)) /\ Len(cas) = BurstsPerRequest
      /\ \A k \in 1 .. BurstsPerRequest : /\ cas[k].id = req.id /\ cas[k].at = req.at
                                          /\ cas[k].type \in {"RD", "WR"}
  <2>1. \A k \in 1 .. BurstsPerRequest : cas[k] \in Packets(c)
    BY <1>2 DEF CommandTypes
  <2> QED
    BY <1>3, <2>1
<1>5. /\ first \in Seq(Packets(c)) /\ Len(first) = 2
      /\ first[1] = packet("PRE") /\ first[2] = packet(IF read THEN "ACT_R" ELSE "ACT_W")
  <2>1. packet("PRE") \in Packets(c) /\ packet(IF read THEN "ACT_R" ELSE "ACT_W") \in Packets(c)
    BY <1>2 DEF CommandTypes
  <2> HIDE DEF packet
  <2> QED
    BY <2>1
<1>6. /\ first[1].id = req.id /\ first[1].at = req.at /\ first[1].type = "PRE"
      /\ first[2].id = req.id /\ first[2].at = req.at /\ first[2].type \in {"ACT_R", "ACT_W"}
  BY <1>5
<1> HIDE DEF cas, first
<1>7. CASE open
  <2>1. DOMAIN cas = 1 .. BurstsPerRequest
    BY <1>4
  <2> QED
    BY <1>1, <1>3, <1>4, <1>7, <2>1 DEF Generated, IsAccess
<1>8. CASE ~ open
  <2> DEFINE all == first \o cas
  <2>1. /\ all \in Seq(Packets(c)) /\ Len(all) = 2 + BurstsPerRequest
        /\ DOMAIN all = 1 .. 2 + BurstsPerRequest
        /\ \A k \in 1 .. 2 + BurstsPerRequest : all[k] = IF k <= 2 THEN first[k] ELSE cas[k - 2]
    <3>1. Len(first) = 2 /\ Len(cas) = BurstsPerRequest /\ BurstsPerRequest \in Nat
      BY <1>3, <1>4, <1>5
    <3>2. /\ all \in Seq(Packets(c)) /\ Len(all) = Len(first) + Len(cas)
          /\ \A k \in 1 .. Len(first) + Len(cas) :
               all[k] = IF k <= Len(first) THEN first[k] ELSE cas[k - Len(first)]
      BY ZenonT(30), <1>4, <1>5, Joined
    <3> HIDE DEF all
    <3> QED
      BY <3>1, <3>2
  <2> HIDE DEF all
  <2>2. \A k \in 1 .. 2 + BurstsPerRequest :
          k = 1 \/ k = 2 \/ (k > 2 /\ k - 2 \in 1 .. BurstsPerRequest)
    BY <1>3
  <2>3. all[1] = first[1] /\ all[2] = first[2]
        /\ \A k \in 1 .. 2 + BurstsPerRequest : k > 2 => all[k] = cas[k - 2]
    BY <1>3, <2>1
  <2>4. \A k \in 1 .. 2 + BurstsPerRequest :
          /\ all[k].id = req.id /\ all[k].at = req.at
          /\ k > 2 <=> all[k].type \in {"RD", "WR"}
    <3> TAKE k \in 1 .. 2 + BurstsPerRequest
    <3>1. CASE k = 1
      BY <1>6, <2>3, <3>1
    <3>2. CASE k = 2
      BY <1>6, <2>3, <3>2
    <3>3. CASE k > 2
      BY <1>4, <2>2, <2>3, <3>3
    <3> QED
      BY <2>2, <3>1, <3>2, <3>3
  <2> QED
    BY ZenonT(30), <1>1, <1>6, <1>8, <2>1, <2>3, <2>4 DEF Generated, IsAccess, all
<1> QED
  BY <1>7, <1>8

\* A requestor has a command in a buffer, a request in a buffer, or a command in
\* a list that is not enqueued yet.
Has(c, cv, id) == \E h \in Lists(c) : \E i \in DOMAIN cv[h] : cv[h][i].id = id
Waits(c, rv, id) == \E n \in Stacks(c) : \E i \in DOMAIN rv[n] : rv[n][i].id = id
InList(list, id) == \E j \in DOMAIN list : list[j].id = id

\* The requests in the buffers are the ones that are pending, each once.
RequestsPlaced(c, pd, rv) ==
  /\ \A n \in Stacks(c) : \A i \in DOMAIN rv[n] : pd[rv[n][i].id] = rv[n][i]
  /\ \A m, n \in Stacks(c) : \A i \in DOMAIN rv[m] : \A j \in DOMAIN rv[n] :
       rv[m][i].id = rv[n][j].id => m = n /\ i = j

\* The commands in a list are those of pending requests, with an access last.
ListPlaced(pd, list) ==
  \A j \in DOMAIN list :
    /\ pd[list[j].id] # NoRequest /\ list[j].at = pd[list[j].id].at
    /\ IsAccess(list[j]) \/ \E k \in DOMAIN list : k > j /\ IsAccess(list[k]) /\ list[k].id = list[j].id

\* So are the commands in the buffers, and each is in its buffer.
CommandsPlaced(c, pd, cv) ==
  \A h \in Lists(c) : ListPlaced(pd, cv[h]) /\ \A i \in DOMAIN cv[h] : HomeOf(c, cv[h][i]) = h

\* A requestor has a request or commands if one is pending, and not both.
OneOf(c, pd, rv, cv, list, id) ==
  \/ pd[id] = NoRequest /\ ~ Waits(c, rv, id) /\ ~ Has(c, cv, id) /\ ~ InList(list, id)
  \/ pd[id] # NoRequest /\ Waits(c, rv, id) /\ ~ Has(c, cv, id) /\ ~ InList(list, id)
  \/ pd[id] # NoRequest /\ ~ Waits(c, rv, id) /\ Has(c, cv, id) /\ ~ InList(list, id)
  \/ pd[id] # NoRequest /\ ~ Waits(c, rv, id) /\ ~ Has(c, cv, id) /\ InList(list, id)

\* Every request is in its buffer, or its commands are in theirs or in the list.
Placed(c, pd, rv, cv, list) ==
  /\ RequestsPlaced(c, pd, rv) /\ CommandsPlaced(c, pd, cv) /\ ListPlaced(pd, list)
  /\ \A id \in Requestors : OneOf(c, pd, rv, cv, list, id)

\* A list of commands followed by those of one request.
LEMMA ListLonger ==
  ASSUME NEW c \in Configurations, NEW list \in Seq(Packets(c)), NEW req \in Requests(c),
         NEW more \in Seq(Packets(c)), NEW open \in BOOLEAN, Generated(more, req, open),
         NEW pd, ListPlaced(pd, list), pd[req.id] = req, req # NoRequest
  PROVE  /\ list \o more \in Seq(Packets(c)) /\ ListPlaced(pd, list \o more)
         /\ \A id : InList(list \o more, id) <=> InList(list, id) \/ id = req.id
<1> DEFINE all == list \o more
           n == Len(list)
           b == Len(more)
<1>1. BurstsPerRequest \in Nat \ {0} /\ n \in Nat /\ b \in Nat /\ b >= 1
  BY FrontEndAssumption DEF Generated
<1>2. /\ all \in Seq(Packets(c)) /\ Len(all) = n + b /\ DOMAIN all = 1 .. n + b
      /\ DOMAIN list = 1 .. n /\ DOMAIN more = 1 .. b
      /\ \A j \in 1 .. n : all[j] = list[j]
      /\ \A k \in 1 .. b : all[n + k] = more[k]
  OBVIOUS
<1> HIDE DEF all
<1>3. IsAccess(more[b])
  <2>1. b = (IF open THEN 0 ELSE 2) + BurstsPerRequest
    BY DEF Generated
  <2>2. (open \/ b > 2) /\ b \in DOMAIN more
    BY <1>1, <1>2, <2>1
  <2> HIDE DEF b
  <2> QED
    BY <2>2 DEF Generated
<1> HIDE DEF n, b
<1>4. \A k \in 1 .. b : more[k].id = req.id /\ more[k].at = req.at
  BY <1>2 DEF Generated
<1>5. \A j \in 1 .. n + b : j \in 1 .. n \/ \E k \in 1 .. b : j = n + k
  <2> TAKE j \in 1 .. n + b
  <2>1. CASE j > n
    <3>1. j - n \in 1 .. b /\ j = n + (j - n)
      BY <1>1, <2>1
    <3> QED
      BY <3>1
  <2>2. CASE ~ j > n
    BY <1>1, <2>2
  <2> QED
    BY <2>1, <2>2
<1>6. ASSUME NEW j \in 1 .. n + b
      PROVE  /\ pd[all[j].id] # NoRequest /\ all[j].at = pd[all[j].id].at
             /\ IsAccess(all[j]) \/ \E k \in DOMAIN all : k > j /\ IsAccess(all[k]) /\ all[k].id = all[j].id
  <2>1. CASE j \in 1 .. n
    <3>1. \A k \in 1 .. n : k \in DOMAIN all /\ all[k] = list[k]
      BY <1>1, <1>2
    <3> QED
      BY <1>2, <2>1, <3>1 DEF ListPlaced
  <2>2. ASSUME NEW k \in 1 .. b, j = n + k
        PROVE  /\ pd[all[j].id] # NoRequest /\ all[j].at = pd[all[j].id].at
               /\ IsAccess(all[j]) \/ \E m \in DOMAIN all : m > j /\ IsAccess(all[m]) /\ all[m].id = all[j].id
    <3>1. all[j].id = req.id /\ all[j].at = req.at
      BY <1>2, <1>4, <2>2
    <3>2. b \in 1 .. b /\ n + b \in DOMAIN all /\ all[n + b] = more[b] /\ all[n + b].id = req.id
      BY <1>1, <1>2, <1>4
    <3>3. k = b \/ n + b > j
      BY <1>1, <2>2
    <3> QED
      BY <1>3, <2>2, <3>1, <3>2, <3>3
  <2> QED
    BY <1>5, <2>1, <2>2
<1>7. ListPlaced(pd, all)
  BY <1>2, <1>6 DEF ListPlaced
<1>8. ASSUME NEW id
      PROVE  InList(all, id) <=> InList(list, id) \/ id = req.id
  <2>1. ASSUME InList(all, id)
        PROVE  InList(list, id) \/ id = req.id
    <3>1. PICK j \in 1 .. n + b : all[j].id = id
      BY <1>2, <2>1 DEF InList
    <3>2. CASE j \in 1 .. n
      BY <1>2, <3>1, <3>2 DEF InList
    <3>3. ASSUME NEW k \in 1 .. b, j = n + k
          PROVE  id = req.id
      BY <1>2, <1>4, <3>1, <3>3
    <3> QED
      BY <1>5, <3>2, <3>3
  <2>2. ASSUME InList(list, id)
        PROVE  InList(all, id)
    <3>1. PICK j \in 1 .. n : list[j].id = id
      BY <1>2, <2>2 DEF InList
    <3>2. j \in DOMAIN all
      BY <1>1, <1>2
    <3> QED
      BY <1>2, <3>1, <3>2 DEF InList
  <2>3. InList(all, req.id)
    <3>1. b \in 1 .. b /\ n + b \in DOMAIN all /\ all[n + b].id = req.id
      BY <1>1, <1>2, <1>4
    <3> QED
      BY <3>1 DEF InList
  <2> QED
    BY <2>1, <2>2, <2>3
<1> QED
  BY <1>2, <1>7, <1>8 DEF all

\* Where the request at j of buffer g was before the one at i of n was taken.
Before(g, n, i, j) == IF g = n /\ j >= i THEN j + 1 ELSE j

\* What is left in the buffers was there, and what was there is left.
LEMMA Shifted ==
  ASSUME NEW c, NEW v, \A g \in Stacks(c) : v[g] \in Seq(Requests(c)),
         NEW w, NEW n, NEW i, Taken(c, v, w, n, i)
  PROVE  /\ \A g \in Stacks(c) : w[g] \in Seq(Requests(c))
         /\ \A g \in Stacks(c) : \A j \in DOMAIN w[g] :
              /\ j \in Nat /\ Before(g, n, i, j) \in DOMAIN v[g] /\ v[g][Before(g, n, i, j)] = w[g][j]
              /\ ~ (g = n /\ Before(g, n, i, j) = i)
         /\ \A g \in Stacks(c) : \A k \in DOMAIN v[g] :
              \/ g = n /\ k = i
              \/ \E j \in DOMAIN w[g] : w[g][j] = v[g][k]
<1> DEFINE s == v[n]
           t == RemoveAt(s, i)
<1>1. n \in Stacks(c) /\ i \in 1 .. Len(s) /\ s \in Seq(Requests(c)) /\ w[n] = t
      /\ \A g \in Stacks(c) : g # n => w[g] = v[g]
  BY DEF Taken
<1>2. /\ t \in Seq(Requests(c)) /\ Len(t) = Len(s) - 1
      /\ \A j \in 1 .. Len(s) - 1 : t[j] = IF j < i THEN s[j] ELSE s[j + 1]
  BY <1>1, Without
<1> HIDE DEF t
<1>3. DOMAIN t = 1 .. Len(s) - 1 /\ DOMAIN s = 1 .. Len(s) /\ Len(s) \in Nat /\ i \in Nat
  BY <1>1, <1>2
<1>4. \A g \in Stacks(c) : w[g] \in Seq(Requests(c))
  BY <1>1, <1>2
<1>5. ASSUME NEW g \in Stacks(c), NEW j \in DOMAIN w[g]
      PROVE  /\ j \in Nat /\ Before(g, n, i, j) \in DOMAIN v[g] /\ v[g][Before(g, n, i, j)] = w[g][j]
             /\ ~ (g = n /\ Before(g, n, i, j) = i)
  <2>1. CASE g # n
    <3>1. w[g] = v[g] /\ v[g] \in Seq(Requests(c)) /\ Before(g, n, i, j) = j
      BY <1>1, <2>1 DEF Before
    <3>2. j \in Nat
      BY <3>1
    <3> QED
      BY <2>1, <3>1, <3>2
  <2>2. CASE g = n
    <3>1. j \in 1 .. Len(s) - 1 /\ w[g] = t
      BY <1>1, <1>3, <2>2
    <3> HIDE DEF s
    <3>2. CASE j < i
      <4>1. Before(g, n, i, j) = j
        BY <1>3, <3>1, <3>2 DEF Before
      <4> QED
        BY <1>2, <1>3, <2>2, <3>1, <3>2, <4>1 DEF s
    <3>3. CASE ~ j < i
      <4>1. Before(g, n, i, j) = j + 1
        BY <1>3, <2>2, <3>1, <3>3 DEF Before
      <4>2. j + 1 \in DOMAIN s /\ t[j] = s[j + 1] /\ j + 1 # i
        BY <1>2, <1>3, <3>1, <3>3
      <4> QED
        BY <2>2, <3>1, <4>1, <4>2 DEF s
    <3> QED
      BY <3>2, <3>3
  <2> QED
    BY <2>1, <2>2
<1>6. ASSUME NEW g \in Stacks(c), NEW k \in DOMAIN v[g], ~ (g = n /\ k = i)
      PROVE  \E j \in DOMAIN w[g] : w[g][j] = v[g][k]
  <2>1. CASE g # n
    BY <1>1, <2>1
  <2>2. CASE g = n
    <3>1. k \in 1 .. Len(s) /\ w[g] = t /\ k # i /\ v[g] = s
      BY <1>1, <1>3, <1>6, <2>2
    <3> HIDE DEF s
    <3>2. CASE k < i
      <4>1. k \in DOMAIN t /\ t[k] = s[k]
        BY <1>1, <1>2, <1>3, <3>1, <3>2
      <4> QED
        BY <3>1, <4>1
    <3>3. CASE ~ k < i
      <4>1. k - 1 \in DOMAIN t /\ ~ k - 1 < i /\ (k - 1) + 1 = k
        BY <1>1, <1>3, <3>1, <3>3
      <4>2. t[k - 1] = s[(k - 1) + 1]
        BY <1>2, <1>3, <4>1
      <4> QED
        BY <3>1, <4>1, <4>2
    <3> QED
      BY <3>2, <3>3
  <2> QED
    BY <2>1, <2>2
<1> QED
  BY <1>4, <1>5, <1>6

\* A request that is taken out of its buffer has commands instead.
LEMMA RequestMoved ==
  ASSUME NEW c \in Configurations, Fits(c), NEW v, \A g \in Stacks(c) : v[g] \in Seq(Requests(c)),
         NEW w, NEW n, NEW i, Taken(c, v, w, n, i),
         NEW pd, NEW cv, NEW list \in Seq(Packets(c)), Placed(c, pd, v, cv, list),
         NEW more \in Seq(Packets(c)), NEW open \in BOOLEAN, Generated(more, v[n][i], open)
  PROVE  Placed(c, pd, w, cv, list \o more)
<1> DEFINE req == v[n][i]
           all == list \o more
<1>1. n \in Stacks(c) /\ i \in DOMAIN v[n] /\ req \in Requests(c)
  BY DEF Taken
<1>2. pd[req.id] = req /\ req # NoRequest /\ req.id \in Requestors
  BY <1>1, LinesInside DEF Placed, RequestsPlaced
<1>3. /\ all \in Seq(Packets(c)) /\ ListPlaced(pd, all)
      /\ \A id : InList(all, id) <=> InList(list, id) \/ id = req.id
  BY <1>1, <1>2, ListLonger DEF Placed
<1> HIDE DEF all
<1>4. RequestsPlaced(c, pd, w)
  <2>1. ASSUME NEW g \in Stacks(c), NEW j \in DOMAIN w[g]
        PROVE  pd[w[g][j].id] = w[g][j]
    BY Shifted DEF Placed, RequestsPlaced
  <2>2. ASSUME NEW f \in Stacks(c), NEW g \in Stacks(c), NEW j \in DOMAIN w[f], NEW k \in DOMAIN w[g],
               w[f][j].id = w[g][k].id
        PROVE  f = g /\ j = k
    <3> DEFINE x == Before(f, n, i, j)
               y == Before(g, n, i, k)
    <3>3. x \in DOMAIN v[f] /\ v[f][x] = w[f][j] /\ j \in Nat
      BY SMTT(20), Shifted
    <3>4. y \in DOMAIN v[g] /\ v[g][y] = w[g][k] /\ k \in Nat
      BY SMTT(20), Shifted
    <3>1. x \in DOMAIN v[f] /\ y \in DOMAIN v[g] /\ v[f][x].id = v[g][y].id /\ j \in Nat /\ k \in Nat
      BY <2>2, <3>3, <3>4, Zenon
    <3> HIDE DEF x, y
    <3>2. f = g /\ x = y
      BY <3>1 DEF Placed, RequestsPlaced
    <3> QED
      BY <3>1, <3>2 DEF x, y, Before, Taken
  <2> QED
    BY <2>1, <2>2 DEF RequestsPlaced
<1>5. ASSUME NEW id \in Requestors
      PROVE  OneOf(c, pd, w, cv, all, id)
  <2>0. OneOf(c, pd, v, cv, list, id)
    BY DEF Placed
  <2>1. CASE id = req.id
    <3>1. Waits(c, v, id)
      BY <1>1, <2>1 DEF Waits
    <3>2. pd[id] # NoRequest /\ ~ Has(c, cv, id) /\ ~ InList(list, id)
      BY <1>2, <2>0, <2>1, <3>1 DEF OneOf
    <3>3. ~ Waits(c, w, id)
      <4> SUFFICES ASSUME NEW g \in Stacks(c), NEW j \in DOMAIN w[g], w[g][j].id = id
                   PROVE  FALSE
        BY DEF Waits
      <4>1. /\ Before(g, n, i, j) \in DOMAIN v[g] /\ v[g][Before(g, n, i, j)].id = v[n][i].id
            /\ ~ (g = n /\ Before(g, n, i, j) = i)
        BY <2>1, Shifted
      <4> QED
        BY <1>1, <4>1 DEF Placed, RequestsPlaced
    <3>4. InList(all, id)
      BY <1>3, <2>1
    <3> QED
      BY <3>2, <3>3, <3>4 DEF OneOf
  <2>2. CASE id # req.id
    <3>1. Waits(c, w, id) <=> Waits(c, v, id)
      <4>1. ASSUME NEW g \in Stacks(c), NEW j \in DOMAIN w[g], w[g][j].id = id
            PROVE  Waits(c, v, id)
        <5>1. Before(g, n, i, j) \in DOMAIN v[g] /\ v[g][Before(g, n, i, j)].id = id
          BY <4>1, Shifted
        <5> QED
          BY <5>1 DEF Waits
      <4>2. ASSUME NEW g \in Stacks(c), NEW k \in DOMAIN v[g], v[g][k].id = id
            PROVE  Waits(c, w, id)
        <5>1. ~ (g = n /\ k = i)
          BY <2>2, <4>2
        <5>2. PICK j \in DOMAIN w[g] : w[g][j] = v[g][k]
          BY <5>1, Shifted
        <5> QED
          BY <4>2, <5>2 DEF Waits
      <4> QED
        BY <4>1, <4>2 DEF Waits
    <3>2. InList(all, id) <=> InList(list, id)
      BY <1>3, <2>2
    <3> QED
      BY <2>0, <3>1, <3>2 DEF OneOf
  <2> QED
    BY <2>1, <2>2
<1>6. CommandsPlaced(c, pd, cv)
  BY DEF Placed
<1> QED
  BY <1>3, <1>4, <1>5, <1>6 DEF Placed, all

\* A request that is new is in one place.
LEMMA RequestAdded ==
  ASSUME NEW c \in Configurations, Fits(c), NEW v, \A g \in Stacks(c) : v[g] \in Seq(Requests(c)),
         NEW w, NEW n, NEW req \in Requests(c), Given(c, v, w, n, req),
         NEW pd, DOMAIN pd = Requestors, pd[req.id] = NoRequest,
         NEW cv, Placed(c, pd, v, cv, <<>>)
  PROVE  Placed(c, [pd EXCEPT ![req.id] = req], w, cv, <<>>)
<1> DEFINE new == [pd EXCEPT ![req.id] = req]
<1>1. req.id \in Requestors /\ req # NoRequest /\ n \in Stacks(c)
      /\ \A r \in Requests(c) : r # NoRequest /\ r.id \in Requestors
  BY LinesInside DEF Given
<1>2. new[req.id] = req /\ \A id \in Requestors : id # req.id => new[id] = pd[id]
  BY <1>1
<1> HIDE DEF new
<1>3. OneOf(c, pd, v, cv, <<>>, req.id)
  BY <1>1 DEF Placed
<1>4. ~ Waits(c, v, req.id) /\ ~ Has(c, cv, req.id)
  BY <1>3 DEF OneOf
<1> DEFINE m == Len(v[n]) + 1
<1>5. /\ m \in DOMAIN w[n] /\ w[n][m] = req /\ DOMAIN w[n] = 1 .. m /\ DOMAIN v[n] = 1 .. m - 1
      /\ m \in Nat
      /\ \A j \in DOMAIN w[n] : j = m \/ (j \in DOMAIN v[n] /\ w[n][j] = v[n][j])
      /\ \A j \in DOMAIN v[n] : j \in DOMAIN w[n] /\ w[n][j] = v[n][j]
  <2>1. w[n] = Append(v[n], req) /\ v[n] \in Seq(Requests(c))
    BY <1>1 DEF Given
  <2> QED
    BY <2>1
<1> HIDE DEF m
<1>6. \A g \in Stacks(c) : g # n => w[g] = v[g]
  BY DEF Given
<1>7. \A g \in Stacks(c) : \A j \in DOMAIN v[g] : v[g][j].id # req.id /\ v[g][j].id \in Requestors
  <2> TAKE g \in Stacks(c)
  <2> TAKE j \in DOMAIN v[g]
  <2>1. v[g][j] \in Requests(c)
    OBVIOUS
  <2> QED
    BY <1>1, <1>4, <2>1 DEF Waits
<1>8. \A g \in Stacks(c) : \A j \in DOMAIN w[g] :
         (g = n /\ j = m /\ w[g][j] = req) \/ (j \in DOMAIN v[g] /\ w[g][j] = v[g][j])
  BY <1>5, <1>6
<1>9. RequestsPlaced(c, new, w)
  <2>1. \A g \in Stacks(c) : \A j \in DOMAIN w[g] : new[w[g][j].id] = w[g][j]
    <3> TAKE g \in Stacks(c)
    <3> TAKE j \in DOMAIN w[g]
    <3>1. CASE j \in DOMAIN v[g] /\ w[g][j] = v[g][j]
      <4>1. pd[v[g][j].id] = v[g][j]
        BY <3>1 DEF Placed, RequestsPlaced
      <4> QED
        BY <1>2, <1>7, <3>1, <4>1
    <3> QED
      BY <1>2, <1>8, <3>1
  <2>2. \A f, g \in Stacks(c) : \A j \in DOMAIN w[f] : \A k \in DOMAIN w[g] :
          w[f][j].id = w[g][k].id => f = g /\ j = k
    <3> TAKE f, g \in Stacks(c)
    <3> TAKE j \in DOMAIN w[f]
    <3> TAKE k \in DOMAIN w[g]
    <3> HAVE w[f][j].id = w[g][k].id
    <3>1. CASE j \in DOMAIN v[f] /\ w[f][j] = v[f][j] /\ k \in DOMAIN v[g] /\ w[g][k] = v[g][k]
      BY <3>1 DEF Placed, RequestsPlaced
    <3> QED
      BY <1>7, <1>8, <3>1
  <2> QED
    BY <2>1, <2>2 DEF RequestsPlaced
<1>10. \A h \in Lists(c) : \A j \in DOMAIN cv[h] : cv[h][j].id # req.id
  BY <1>4 DEF Has
<1>11. CommandsPlaced(c, new, cv)
  <2>1. ASSUME NEW h \in Lists(c)
        PROVE  ListPlaced(new, cv[h])
    <3>1. ListPlaced(pd, cv[h])
      BY DEF Placed, CommandsPlaced
    <3>2. \A j \in DOMAIN cv[h] : new[cv[h][j].id] = pd[cv[h][j].id]
      BY <1>10 DEF new
    <3> QED
      BY <3>1, <3>2 DEF ListPlaced
  <2> QED
    BY <2>1 DEF Placed, CommandsPlaced
<1>12. ListPlaced(new, <<>>)
  BY DEF ListPlaced
<1>13. ASSUME NEW id \in Requestors
       PROVE  OneOf(c, new, w, cv, <<>>, id)
  <2>1. OneOf(c, pd, v, cv, <<>>, id)
    BY DEF Placed
  <2>2. CASE id = req.id
    <3>1. Waits(c, w, id)
      BY <1>1, <1>5, <2>2 DEF Waits
    <3> QED
      BY <1>1, <1>2, <1>3, <1>4, <2>2, <3>1 DEF OneOf
  <2>3. CASE id # req.id
    <3>1. Waits(c, w, id) => Waits(c, v, id)
      BY <1>8, <2>3 DEF Waits
    <3>2. Waits(c, v, id) => Waits(c, w, id)
      BY <1>5, <1>6 DEF Waits
    <3> QED
      BY <1>2, <2>1, <2>3, <3>1, <3>2 DEF OneOf
  <2> QED
    BY <2>2, <2>3
<1> QED
  BY <1>9, <1>11, <1>12, <1>13 DEF Placed, new

\* Commands that are enqueued stay what they are.
LEMMA CommandsEnqueued ==
  ASSUME NEW c \in Configurations, Fits(c), NEW list \in Seq(Packets(c)),
         NEW v, \A h \in Lists(c) : v[h] \in Seq(Packets(c)),
         NEW w, \A h \in Lists(c) : w[h] \in Seq(Packets(c)),
         NEW pos, Placing(c, v, list, Len(list), w, pos),
         NEW pd, NEW rv, Placed(c, pd, rv, v, list)
  PROVE  Placed(c, pd, rv, w, <<>>)
<1> DEFINE n == Len(list)
<1>1. n \in Nat /\ DOMAIN list = 1 .. n /\ \A j \in 1 .. n : HomeOf(c, list[j]) \in Lists(c)
  BY HomeListed
<1> HIDE DEF n
<1>2. \A h \in Lists(c) : /\ DOMAIN v[h] = 1 .. Len(v[h]) /\ DOMAIN w[h] = 1 .. Len(w[h])
                          /\ Len(v[h]) \in Nat /\ Len(w[h]) \in Nat
  OBVIOUS
<1>3. \A h \in Lists(c) : Len(v[h]) <= Len(w[h]) /\ \A i \in 1 .. Len(v[h]) : w[h][i] = v[h][i]
  BY DEF Placing
<1>4. \A j \in 1 .. n : /\ pos[j] \in Len(v[HomeOf(c, list[j])]) + 1 .. Len(w[HomeOf(c, list[j])])
                        /\ w[HomeOf(c, list[j])][pos[j]] = list[j]
  BY DEF Placing, n
<1>5. \A j, k \in 1 .. n : j < k /\ HomeOf(c, list[j]) = HomeOf(c, list[k]) => pos[j] < pos[k]
  BY DEF Placing, n
<1>6. \A h \in Lists(c) : \A i \in Len(v[h]) + 1 .. Len(w[h]) :
        \E j \in 1 .. n : HomeOf(c, list[j]) = h /\ pos[j] = i
  BY DEF Placing, n
<1>7. \A h \in Lists(c) : \A i \in DOMAIN v[h] : i \in DOMAIN w[h] /\ w[h][i] = v[h][i]
  BY <1>2, <1>3
<1>8. \A j \in 1 .. n : /\ pos[j] \in DOMAIN w[HomeOf(c, list[j])]
                        /\ w[HomeOf(c, list[j])][pos[j]] = list[j]
  <2> TAKE j \in 1 .. n
  <2> DEFINE h == HomeOf(c, list[j])
  <2>1. h \in Lists(c)
    BY <1>1
  <2>2. pos[j] \in Len(v[h]) + 1 .. Len(w[h]) /\ w[h][pos[j]] = list[j]
    BY <1>4
  <2> HIDE DEF h
  <2>3. pos[j] \in DOMAIN w[h]
    BY <1>2, <2>1, <2>2
  <2> QED
    BY <2>2, <2>3 DEF h
<1>9. \A h \in Lists(c) : \A i \in DOMAIN w[h] :
        \/ i \in DOMAIN v[h] /\ w[h][i] = v[h][i]
        \/ \E j \in 1 .. n : HomeOf(c, list[j]) = h /\ pos[j] = i /\ w[h][i] = list[j]
  <2> TAKE h \in Lists(c)
  <2> TAKE i \in DOMAIN w[h]
  <2>1. CASE i <= Len(v[h])
    BY <1>2, <1>3, <2>1
  <2>2. CASE ~ i <= Len(v[h])
    <3>1. i \in Len(v[h]) + 1 .. Len(w[h])
      BY <1>2, <2>2
    <3>2. PICK j \in 1 .. n : HomeOf(c, list[j]) = h /\ pos[j] = i
      BY <1>6, <3>1
    <3> QED
      BY <1>8, <3>2
  <2> QED
    BY <2>1, <2>2
<1>10. ListPlaced(pd, list) /\ \A h \in Lists(c) : ListPlaced(pd, v[h])
  BY DEF Placed, CommandsPlaced
<1>11. ASSUME NEW h \in Lists(c), NEW i \in DOMAIN w[h]
       PROVE  /\ pd[w[h][i].id] # NoRequest /\ w[h][i].at = pd[w[h][i].id].at
              /\ \/ IsAccess(w[h][i])
                 \/ \E k \in DOMAIN w[h] : k > i /\ IsAccess(w[h][k]) /\ w[h][k].id = w[h][i].id
              /\ HomeOf(c, w[h][i]) = h
  <2>1. CASE i \in DOMAIN v[h] /\ w[h][i] = v[h][i]
    <3>1. HomeOf(c, v[h][i]) = h
      BY <2>1 DEF Placed, CommandsPlaced
    <3>2. /\ pd[v[h][i].id] # NoRequest /\ v[h][i].at = pd[v[h][i].id].at
          /\ \/ IsAccess(v[h][i])
             \/ \E k \in DOMAIN v[h] : k > i /\ IsAccess(v[h][k]) /\ v[h][k].id = v[h][i].id
      BY <1>10, <2>1 DEF ListPlaced
    <3> QED
      BY <1>7, <2>1, <3>1, <3>2
  <2>2. ASSUME NEW j \in 1 .. n, HomeOf(c, list[j]) = h, pos[j] = i, w[h][i] = list[j]
        PROVE  /\ pd[w[h][i].id] # NoRequest /\ w[h][i].at = pd[w[h][i].id].at
               /\ \/ IsAccess(w[h][i])
                  \/ \E k \in DOMAIN w[h] : k > i /\ IsAccess(w[h][k]) /\ w[h][k].id = w[h][i].id
               /\ HomeOf(c, w[h][i]) = h
    <3>1. /\ pd[list[j].id] # NoRequest /\ list[j].at = pd[list[j].id].at
          /\ \/ IsAccess(list[j])
             \/ \E k \in 1 .. n : k > j /\ IsAccess(list[k]) /\ list[k].id = list[j].id
      BY <1>1, <1>10 DEF ListPlaced
    <3>2. ASSUME NEW k \in 1 .. n, k > j, IsAccess(list[k]), list[k].id = list[j].id
          PROVE  \E m \in DOMAIN w[h] : m > i /\ IsAccess(w[h][m]) /\ w[h][m].id = w[h][i].id
      <4>1. list[k].at = list[j].at
        BY SMTT(20), <1>1, <1>10, <3>1, <3>2 DEF ListPlaced
      <4>2. HomeOf(c, list[k]) = h
        BY <2>2, <3>2, <4>1 DEF HomeOf, CommandHome
      <4>3. pos[k] \in DOMAIN w[h] /\ w[h][pos[k]] = list[k]
        BY <1>8, <4>2
      <4>4. pos[j] < pos[k]
        BY <1>5, <2>2, <3>2, <4>2
      <4>5. pos[k] > i
        <5>1. pos[j] \in Nat /\ pos[k] \in Nat
          BY <1>2, <1>8, <2>2, <4>3
        <5> QED
          BY <2>2, <4>4, <5>1
      <4> QED
        BY <2>2, <3>2, <4>3, <4>5
    <3> QED
      BY <2>2, <3>1, <3>2
  <2> QED
    BY <1>9, <2>1, <2>2
<1>12. CommandsPlaced(c, pd, w)
  BY <1>11 DEF CommandsPlaced, ListPlaced
<1>13. ASSUME NEW id \in Requestors
       PROVE  OneOf(c, pd, rv, w, <<>>, id)
  <2>1. OneOf(c, pd, rv, v, list, id)
    BY DEF Placed
  <2>2. Has(c, w, id) <=> Has(c, v, id) \/ InList(list, id)
    <3>1. ASSUME NEW h \in Lists(c), NEW i \in DOMAIN w[h], w[h][i].id = id
          PROVE  Has(c, v, id) \/ InList(list, id)
      <4>1. CASE i \in DOMAIN v[h] /\ w[h][i] = v[h][i]
        BY <3>1, <4>1 DEF Has
      <4>2. ASSUME NEW j \in 1 .. n, w[h][i] = list[j]
            PROVE  InList(list, id)
        BY <1>1, <3>1, <4>2 DEF InList
      <4> QED
        BY <1>9, <4>1, <4>2
    <3>2. ASSUME NEW h \in Lists(c), NEW i \in DOMAIN v[h], v[h][i].id = id
          PROVE  Has(c, w, id)
      BY <1>7, <3>2 DEF Has
    <3>3. ASSUME NEW j \in 1 .. n, list[j].id = id
          PROVE  Has(c, w, id)
      BY <1>1, <1>8, <3>3 DEF Has
    <3> QED
      BY <1>1, <3>1, <3>2, <3>3 DEF Has, InList
  <2>3. ~ InList(<<>>, id)
    BY DEF InList
  <2> QED
    BY <2>1, <2>2, <2>3 DEF OneOf
<1>14. ListPlaced(pd, <<>>)
  BY DEF ListPlaced
<1> QED
  BY <1>12, <1>13, <1>14 DEF Placed

\* The pending requests when a command has been sent and w is left.
After(c, pd, w, cmd) ==
  IF IsAccess(cmd) /\ ~ Has(c, w, cmd.id) THEN [pd EXCEPT ![cmd.id] = NoRequest] ELSE pd

\* When a command is sent, its request is still pending, unless it was the last.
LEMMA CommandGone ==
  ASSUME NEW c \in Configurations, Fits(c),
         NEW v, \A h \in Lists(c) : v[h] \in Seq(Packets(c)),
         NEW w, NEW h, NEW cmd, Sent(c, v, w, h, cmd),
         NEW pd, DOMAIN pd = Requestors, NEW rv, Placed(c, pd, rv, v, <<>>)
  PROVE  /\ Placed(c, After(c, pd, w, cmd), rv, w, <<>>)
         /\ pd[cmd.id] # NoRequest
         /\ \A id \in Requestors : Has(c, v, id) =>
              Has(c, w, id) \/ (id = cmd.id /\ IsAccess(cmd) /\ ~ Has(c, w, cmd.id))
<1> DEFINE s == v[h]
           t == w[h]
           last == IsAccess(cmd) /\ ~ Has(c, w, cmd.id)
           new == After(c, pd, w, cmd)
<1>1. /\ h \in Lists(c) /\ s \in Seq(Packets(c)) /\ t = Tail(s) /\ s # <<>> /\ cmd = s[1]
      /\ \A g \in Lists(c) : g # h => w[g] = v[g]
  BY DEF Sent
<1>2. /\ DOMAIN t = 1 .. Len(s) - 1 /\ DOMAIN s = 1 .. Len(s) /\ Len(s) \in Nat /\ 1 \in DOMAIN s
      /\ \A i \in DOMAIN t : i + 1 \in DOMAIN s /\ t[i] = s[i + 1]
      /\ \A i \in DOMAIN s : i = 1 \/ (i - 1 \in DOMAIN t /\ t[i - 1] = s[i] /\ i > 1)
  <2> HIDE DEF s, t
  <2> QED
    BY <1>1
<1>3. cmd \in Packets(c) /\ cmd.id \in Requestors
  BY <1>1, LinesInside
<1>4. \A g \in Lists(c) : \A i \in DOMAIN w[g] : \E k \in DOMAIN v[g] : v[g][k] = w[g][i]
  <2> TAKE g \in Lists(c)
  <2> TAKE i \in DOMAIN w[g]
  <2>1. CASE g # h
    BY <1>1, <2>1
  <2>2. CASE g = h
    <3>1. i + 1 \in DOMAIN s /\ t[i] = s[i + 1]
      BY <1>2, <2>2
    <3> QED
      BY <2>2, <3>1
  <2> QED
    BY <2>1, <2>2
<1>5. \A g \in Lists(c) : \A k \in DOMAIN v[g] :
        v[g][k].id # cmd.id => \E i \in DOMAIN w[g] : w[g][i] = v[g][k]
  <2> TAKE g \in Lists(c)
  <2> TAKE k \in DOMAIN v[g]
  <2> HAVE v[g][k].id # cmd.id
  <2>1. CASE g # h
    BY <1>1, <2>1
  <2>2. CASE g = h
    <3>1. k # 1
      BY <1>1, <2>2
    <3>2. k - 1 \in DOMAIN t /\ t[k - 1] = s[k]
      BY <1>2, <2>2, <3>1
    <3> QED
      BY <2>2, <3>2
  <2> QED
    BY <2>1, <2>2
<1>6. \A id \in Requestors : Has(c, w, id) => Has(c, v, id)
  BY <1>4 DEF Has
<1>7. \A id \in Requestors : id # cmd.id => (Has(c, v, id) => Has(c, w, id))
  BY <1>5 DEF Has
<1>8. Has(c, v, cmd.id)
  BY <1>1, <1>2 DEF Has
<1>9. pd[cmd.id] # NoRequest /\ ~ Waits(c, rv, cmd.id)
  <2>1. OneOf(c, pd, rv, v, <<>>, cmd.id)
    BY <1>3 DEF Placed
  <2> QED
    BY <1>8, <2>1 DEF OneOf
<1>10. ~ IsAccess(cmd) => Has(c, w, cmd.id)
  <2> HAVE ~ IsAccess(cmd)
  <2>1. ListPlaced(pd, s)
    BY <1>1 DEF Placed, CommandsPlaced
  <2>2. PICK k \in DOMAIN s : k > 1 /\ s[k].id = cmd.id
    BY <1>1, <1>2, <2>1 DEF ListPlaced
  <2>3. k - 1 \in DOMAIN t /\ t[k - 1] = s[k]
    BY <1>2, <2>2
  <2> QED
    BY <1>1, <2>2, <2>3 DEF Has
<1>11. /\ \A id \in Requestors : id # cmd.id => new[id] = pd[id]
       /\ last => new[cmd.id] = NoRequest /\ ~ Has(c, w, cmd.id)
       /\ ~ last => new[cmd.id] = pd[cmd.id] /\ Has(c, w, cmd.id)
  BY <1>3, <1>10 DEF After
<1> HIDE DEF last
<1>12. RequestsPlaced(c, new, rv)
  <2>1. \A n \in Stacks(c) : \A i \in DOMAIN rv[n] : rv[n][i].id # cmd.id
    BY <1>9 DEF Waits
  <2>2. \A n \in Stacks(c) : \A i \in DOMAIN rv[n] : new[rv[n][i].id] = pd[rv[n][i].id]
    BY <2>1, <1>3 DEF After
  <2> QED
    BY <2>2 DEF Placed, RequestsPlaced
<1>13. ASSUME NEW g \in Lists(c), NEW i \in DOMAIN w[g]
       PROVE  /\ new[w[g][i].id] # NoRequest /\ w[g][i].at = new[w[g][i].id].at
              /\ \/ IsAccess(w[g][i])
                 \/ \E k \in DOMAIN w[g] : k > i /\ IsAccess(w[g][k]) /\ w[g][k].id = w[g][i].id
              /\ HomeOf(c, w[g][i]) = g
  <2>1. ListPlaced(pd, v[g]) /\ \A k \in DOMAIN v[g] : HomeOf(c, v[g][k]) = g
    BY DEF Placed, CommandsPlaced
  <2>2. PICK k \in DOMAIN v[g] : v[g][k] = w[g][i]
    BY <1>4
  <2>3. w[g][i].id \in Requestors
    <3>1. v[g][k] \in Packets(c)
      OBVIOUS
    <3> QED
      BY <2>2, <3>1, LinesInside
  <2>4. new[w[g][i].id] = pd[w[g][i].id]
    <3>1. Has(c, w, w[g][i].id)
      BY DEF Has
    <3> QED
      BY <1>11, <2>3, <3>1
  <2>5. pd[w[g][i].id] # NoRequest /\ w[g][i].at = pd[w[g][i].id].at
    BY <2>1, <2>2 DEF ListPlaced
  <2>6. \/ IsAccess(w[g][i])
        \/ \E m \in DOMAIN w[g] : m > i /\ IsAccess(w[g][m]) /\ w[g][m].id = w[g][i].id
    <3>1. CASE g # h
      BY SMTT(20), <1>1, <2>1, <3>1 DEF ListPlaced
    <3>2. CASE g = h
      <4>1. i \in DOMAIN t /\ i + 1 \in DOMAIN s /\ t[i] = s[i + 1]
        BY <1>2, <3>2
      <4>2. \/ IsAccess(s[i + 1])
            \/ \E m \in DOMAIN s : m > i + 1 /\ IsAccess(s[m]) /\ s[m].id = s[i + 1].id
        BY <2>1, <3>2, <4>1 DEF ListPlaced
      <4>3. ASSUME NEW m \in DOMAIN s, m > i + 1, IsAccess(s[m]), s[m].id = s[i + 1].id
            PROVE  \E k1 \in DOMAIN t : k1 > i /\ IsAccess(t[k1]) /\ t[k1].id = t[i].id
        <5>1. m # 1 /\ m - 1 > i
          BY <1>2, <4>1, <4>3
        <5>2. m - 1 \in DOMAIN t /\ t[m - 1] = s[m]
          BY <1>2, <5>1
        <5> QED
          BY <4>1, <4>3, <5>1, <5>2
      <4> QED
        BY <3>2, <4>1, <4>2, <4>3
    <3> QED
      BY <3>1, <3>2
  <2> QED
    BY <2>1, <2>2, <2>4, <2>5, <2>6
<1>14. CommandsPlaced(c, new, w)
  BY <1>13 DEF CommandsPlaced, ListPlaced
<1>15. ASSUME NEW id \in Requestors
       PROVE  OneOf(c, new, rv, w, <<>>, id)
  <2>1. OneOf(c, pd, rv, v, <<>>, id)
    BY DEF Placed
  <2>2. CASE id = cmd.id
    BY <1>8, <1>9, <1>11, <2>1, <2>2 DEF OneOf
  <2>3. CASE id # cmd.id
    BY <1>6, <1>7, <1>11, <2>1, <2>3 DEF OneOf
  <2> QED
    BY <2>2, <2>3
<1>16. ListPlaced(new, <<>>)
  BY DEF ListPlaced
<1>17. \A id \in Requestors : Has(c, v, id) => Has(c, w, id) \/ (id = cmd.id /\ last)
  BY <1>7, <1>10 DEF last
<1> QED
  BY <1>9, <1>12, <1>14, <1>15, <1>16, <1>17 DEF Placed, last

-----------------------------------------------------------------------------
(* A cycle of the request schedulers.                                      *)

\* The places and the rows of a configuration.
PlacesOf(c) == (0 .. c.memTable.Rank - 1) \X (0 .. c.memTable.Bank - 1)
Rows(c) == {NoRow} \cup {At(c, line).Row : line \in c.lines}

\* What requestSchedule works on.
Works(c) ==
  [queues : RequestStores(c), table : [PlacesOf(c) -> Rows(c)], commands : Seq(Packets(c)),
   passed : SUBSET Requestors, slot : Nat, queue : Nat, places : [RequestQueueNumbers(c) -> Nat]]

\* The request at i of buffer n is translated, and has passed those of `by'.
MoveTo(c, w, u, n, i, by) ==
  /\ u.queues \in RequestStores(c)
  /\ Taken(c, RequestLists(c, w.queues), RequestLists(c, u.queues), n, i)
  /\ \A r \in RequestQueueNumbers(c) : /\ u.queues[r].order = w.queues[r].order
                                       /\ r # n[1] => u.queues[r] = w.queues[r]
  /\ LET req == RequestLists(c, w.queues)[n][i]
     IN /\ u.commands = w.commands \o CommandGenerate(req, IsRowHit(w.table, req))
        /\ u.table = [w.table EXCEPT ![Place(req.at)] = req.at.Row]
  /\ u.passed = w.passed \cup by
  /\ \A id \in by : /\ n[2] = <<"general", 0>>
                    /\ \E k \in 1 .. i - 1 : RequestLists(c, w.queues)[n][k].id = id
  /\ u.slot = w.slot /\ u.queue = w.queue /\ u.places = w.places

\* What Translate leaves.
Translation(c, w, req, u) ==
  /\ u \in Works(c) /\ u.queues = w.queues /\ u.passed = w.passed
  /\ u.slot = w.slot /\ u.queue = w.queue /\ u.places = w.places
  /\ u.commands = w.commands \o CommandGenerate(req, IsRowHit(w.table, req))
  /\ u.table = [w.table EXCEPT ![Place(req.at)] = req.at.Row]

\* A request's commands are added, and its row is noted.
LEMMA Translated ==
  ASSUME NEW c \in Configurations, Fits(c), NEW w \in Works(c), NEW req \in Requests(c)
  PROVE  Translation(c, w, req, Translate(w, req))
<1> DEFINE u == Translate(w, req)
           cmds == CommandGenerate(req, IsRowHit(w.table, req))
           table == [w.table EXCEPT ![Place(req.at)] = req.at.Row]
<1>1. req.id \in Requestors /\ req.at \in {At(c, line) : line \in c.lines}
  BY LinesInside
<1>2. IsRowHit(w.table, req) \in BOOLEAN
  BY DEF IsRowHit
<1>3. cmds \in Seq(Packets(c))
  BY <1>1, <1>2, GenerateCommands
<1>4. req.at.Row \in Rows(c)
  BY <1>1 DEF Rows
<1>5. table \in [PlacesOf(c) -> Rows(c)]
  BY <1>4 DEF Works
<1> HIDE DEF cmds, table
<1>6. w.commands \o cmds \in Seq(Packets(c))
  BY <1>3 DEF Works
<1>7. u = [[w EXCEPT !.commands = @ \o cmds] EXCEPT !.table = table]
  BY DEF Translate, cmds, table, Works
<1> HIDE DEF u
<1> DEFINE half == [w EXCEPT !.commands = @ \o cmds]
<1>8. /\ half \in Works(c) /\ half.queues = w.queues /\ half.passed = w.passed /\ half.slot = w.slot
      /\ half.queue = w.queue /\ half.places = w.places /\ half.commands = w.commands \o cmds
  BY <1>6 DEF Works
<1> HIDE DEF half
<1>9. u = [half EXCEPT !.table = table]
  BY <1>7 DEF half
<1>10. /\ u \in Works(c) /\ u.queues = half.queues /\ u.passed = half.passed /\ u.slot = half.slot
       /\ u.queue = half.queue /\ u.places = half.places /\ u.commands = half.commands
       /\ u.table = table
  BY <1>5, <1>8, <1>9 DEF Works
<1> QED
  BY <1>8, <1>10 DEF cmds, table, u, Translation

\* A requestor's own request is translated, if there is one.
LEMMA TakeOwnMoves ==
  ASSUME NEW c \in Configurations, Fits(c), NEW w \in Works(c), NEW q \in RequestQueueNumbers(c),
         NEW id \in Requestors, NEW u, u = TakeOwn(w, q, id)
  PROVE  /\ u \in Works(c)
         /\ u = w \/ MoveTo(c, w, u, <<q, <<"own", id>>>>, 1, {})
<1> DEFINE own == w.queues[q].own[id]
           t == Translate(w, Head(own))
           rq == w.queues
           new == [rq EXCEPT ![q] = Q!RemoveRequest(Q!AccessOwn(rq[q], id))]
<1>1. CASE own = <<>>
  BY <1>1 DEF TakeOwn
<1>2. CASE own # <<>>
  <2>1. rq \in RequestStores(c)
    BY DEF Works
  <2>2. /\ new \in RequestStores(c) /\ Head(own) \in Requests(c)
        /\ Taken(c, RequestLists(c, rq), RequestLists(c, new), <<q, <<"own", id>>>>, 1)
        /\ RequestLists(c, rq)[<<q, <<"own", id>>>>][1] = Head(own)
        /\ \A r \in RequestQueueNumbers(c) : new[r].order = rq[r].order /\ (r # q => new[r] = rq[r])
    BY <1>2, <2>1, OwnTaken
  <2>3. /\ t \in Works(c) /\ t.queues = w.queues /\ t.passed = w.passed
        /\ t.slot = w.slot /\ t.queue = w.queue /\ t.places = w.places
        /\ t.commands = w.commands \o CommandGenerate(Head(own), IsRowHit(w.table, Head(own)))
        /\ t.table = [w.table EXCEPT ![Place(Head(own).at)] = Head(own).at.Row]
    <3>1. Translation(c, w, Head(own), t)
      BY <2>2, Translated
    <3> HIDE DEF t
    <3> QED
      BY <3>1 DEF Translation
  <2>4. u = [t EXCEPT !.queues[q] = Q!RemoveRequest(Q!AccessOwn(@, id))]
    BY <1>2 DEF TakeOwn
  <2> HIDE DEF t
  <2>5. u = [t EXCEPT !.queues = new]
    BY <2>3, <2>4 DEF Works
  <2> HIDE DEF new
  <2>6. /\ u \in Works(c) /\ u.queues = new /\ u.passed = t.passed /\ u.slot = t.slot
        /\ u.queue = t.queue /\ u.places = t.places /\ u.commands = t.commands /\ u.table = t.table
    BY <2>2, <2>3, <2>5 DEF Works
  <2>7. MoveTo(c, w, u, <<q, <<"own", id>>>>, 1, {})
    <3> DEFINE n == <<q, <<"own", id>>>>
    <3>1. n[1] = q
      OBVIOUS
    <3> HIDE DEF n, own
    <3>2. RequestLists(c, w.queues)[n][1] = Head(own)
      BY <2>2 DEF n
    <3> QED
      BY <2>2, <2>3, <2>6, <3>1, <3>2 DEF MoveTo, n
  <2> QED
    BY <2>6, <2>7
<1> QED
  BY <1>1, <1>2

\* The request that scheduleFR finds is in the buffer.
LEMMA FirstHit ==
  ASSUME NEW S, NEW list \in Seq(S), list # <<>>, NEW table
  PROVE  ScheduleFR(table, list) \in 1 .. Len(list)
<1> DEFINE hits == {i \in DOMAIN list : IsRowHit(table, list[i])}
<1>1. hits \in SUBSET Nat /\ hits \subseteq 1 .. Len(list) /\ 1 \in 1 .. Len(list)
  OBVIOUS
<1> HIDE DEF hits
<1>2. hits # {} => Min(hits) \in hits
  <2> HAVE hits # {}
  <2>1. PICK m \in hits : \A n \in hits : m <= n
    BY <1>1, LeastNat
  <2> QED
    BY <2>1 DEF Min
<1>3. ScheduleFR(table, list) = IF hits = {} THEN 1 ELSE Min(hits)
  BY DEF ScheduleFR, hits
<1> QED
  BY <1>1, <1>2, <1>3

\* A request of the shared buffer is translated, if there is one.
LEMMA DirectGeneralMoves ==
  ASSUME NEW c \in Configurations, Fits(c), NEW w \in Works(c), NEW q \in RequestQueueNumbers(c),
         NEW u, u = DirectGeneral(w, q)
  PROVE  /\ u \in Works(c)
         /\ w.queues[q].general = <<>> => u = w
         /\ w.queues[q].general # <<>> =>
              \E i \in DOMAIN w.queues[q].general :
                MoveTo(c, w, u, <<q, <<"general", 0>>>>, i,
                       {w.queues[q].general[k].id : k \in 1 .. i - 1})
<1> DEFINE list == w.queues[q].general
           i == ScheduleFR(w.table, list)
           t == Translate(w, list[i])
           rq == w.queues
           new == [rq EXCEPT ![q] = Q!RemoveRequest(Q!AccessGeneral(rq[q], i))]
           by == {list[k].id : k \in 1 .. i - 1}
<1>1. CASE list = <<>>
  BY <1>1 DEF DirectGeneral
<1>2. CASE list # <<>>
  <2>1. rq \in RequestStores(c)
    BY DEF Works
  <2>2. list \in Seq(Requests(c)) /\ DOMAIN list = 1 .. Len(list)
    <3>1. rq[q] \in RequestFields(c)
      BY <2>1 DEF RequestStores, RequestQueues
    <3>2. rq[q].general \in Seq(Requests(c))
      BY <3>1 DEF RequestFields
    <3> QED
      BY <3>2
  <2>3. i \in 1 .. Len(list)
    BY <1>2, <2>2, FirstHit
  <2>4. by \in SUBSET Requestors
    <3>1. \A k \in 1 .. i - 1 : list[k] \in Requests(c)
      <4> HIDE DEF i, list
      <4> QED
        BY <2>2, <2>3
    <3> QED
      BY <3>1, LinesInside
  <2>5. u = [t EXCEPT !.queues[q] = Q!RemoveRequest(Q!AccessGeneral(rq[q], i)), !.passed = @ \cup by]
    BY <1>2 DEF DirectGeneral
  <2> HIDE DEF i, by
  <2>6. /\ new \in RequestStores(c) /\ list[i] \in Requests(c)
        /\ Taken(c, RequestLists(c, rq), RequestLists(c, new), <<q, <<"general", 0>>>>, i)
        /\ RequestLists(c, rq)[<<q, <<"general", 0>>>>][i] = list[i]
        /\ \A r \in RequestQueueNumbers(c) : new[r].order = rq[r].order /\ (r # q => new[r] = rq[r])
    BY <2>1, <2>3, GeneralTaken
  <2>7. /\ t \in Works(c) /\ t.queues = w.queues /\ t.passed = w.passed
        /\ t.slot = w.slot /\ t.queue = w.queue /\ t.places = w.places
        /\ t.commands = w.commands \o CommandGenerate(list[i], IsRowHit(w.table, list[i]))
        /\ t.table = [w.table EXCEPT ![Place(list[i].at)] = list[i].at.Row]
    <3>1. Translation(c, w, list[i], t)
      BY <2>6, Translated
    <3> HIDE DEF t
    <3> QED
      BY <3>1 DEF Translation
  <2> HIDE DEF t
  <2> DEFINE half == [t EXCEPT !.queues = new]
  <2>8. u = [half EXCEPT !.passed = t.passed \cup by]
    BY <2>5, <2>7 DEF Works
  <2> HIDE DEF new
  <2>9. /\ half \in Works(c) /\ half.queues = new /\ half.passed = t.passed /\ half.slot = t.slot
        /\ half.queue = t.queue /\ half.places = t.places /\ half.commands = t.commands
        /\ half.table = t.table
    BY <2>6, <2>7 DEF Works
  <2> HIDE DEF half
  <2>10. /\ u \in Works(c) /\ u.queues = new /\ u.passed = t.passed \cup by /\ u.slot = t.slot
         /\ u.queue = t.queue /\ u.places = t.places /\ u.commands = t.commands /\ u.table = t.table
    <3>1. t.passed \cup by \in SUBSET Requestors
      BY <2>4, <2>7 DEF Works
    <3> QED
      BY <2>8, <2>9, <3>1 DEF Works
  <2>11. MoveTo(c, w, u, <<q, <<"general", 0>>>>, i, by)
    <3> DEFINE n == <<q, <<"general", 0>>>>
    <3>1. n[1] = q
      OBVIOUS
    <3>2. RequestLists(c, w.queues)[n][i] = list[i]
      BY <2>6
    <3>3. RequestLists(c, w.queues)[n] = list /\ n[2] = <<"general", 0>>
      BY <2>6 DEF RequestLists, Taken, OnShelf
    <3> HIDE DEF n, list
    <3>4. \A id \in by : \E k \in 1 .. i - 1 : RequestLists(c, w.queues)[n][k].id = id
      BY <3>3 DEF by
    <3> QED
      BY <2>6, <2>7, <2>10, <3>1, <3>2, <3>3, <3>4 DEF MoveTo, n
  <2> QED
    BY <1>2, <2>2, <2>3, <2>10, <2>11 DEF by
<1> QED
  BY <1>1, <1>2

\* A set of states of the work that translating a request never leaves.
Closed(c, W) ==
  /\ W \subseteq Works(c)
  /\ \A w \in W, u \in Works(c), n \in Stacks(c) :
       \A i \in 1 .. Len(RequestLists(c, w.queues)[n]) :
         \A by : MoveTo(c, w, u, n, i, by) /\ (c.file.perRequestor => by = {}) => u \in W

\* DIRECT stays in such a set when each requestor of a queue has its turn.
LEMMA DirectOwnStays ==
  ASSUME NEW c \in Configurations, Fits(c), NEW W, Closed(c, W), NEW w \in W,
         NEW q \in RequestQueueNumbers(c)
  PROVE  DirectOwn(w, q) \in W
<1> DEFINE list == w.queues[q].order
           n == Len(list)
           next(t, id) == TakeOwn(t, q, id)
           op == [p \in W \X (1 .. n) |-> next(p[1], list[p[2]])]
           Run(h) == h = [d \in SUBSET DOMAIN list |->
                            IF d = {} THEN w ELSE next(h[d \ {Max(d)}], list[Max(d)])]
           iter == CHOOSE h : Run(h)
<1>1. n \in Nat /\ DOMAIN list = 1 .. n /\ \A k \in 1 .. n : list[k] \in Requestors
  <2>1. w.queues \in RequestStores(c)
    BY DEF Closed, Works
  <2>2. w.queues[q] \in RequestFields(c)
    BY <2>1 DEF RequestStores, RequestQueues
  <2>3. list \in Seq(Requestors)
    BY <2>2 DEF RequestFields
  <2> HIDE DEF list
  <2> QED
    BY <2>3
<1>2. ASSUME NEW t \in W, NEW k \in 1 .. n
      PROVE  next(t, list[k]) \in W
  <2> DEFINE id == list[k]
             u == TakeOwn(t, q, id)
             m == <<q, <<"own", id>>>>
  <2>1. id \in Requestors /\ t \in Works(c)
    BY <1>1 DEF Closed
  <2> HIDE DEF id
  <2>2. u \in Works(c) /\ (u = t \/ MoveTo(c, t, u, m, 1, {}))
    BY <2>1, TakeOwnMoves
  <2> HIDE DEF u, m
  <2>3. CASE MoveTo(c, t, u, m, 1, {})
    <3>1. m \in Stacks(c) /\ 1 \in 1 .. Len(RequestLists(c, t.queues)[m])
      BY <2>3 DEF MoveTo, Taken
    <3> QED
      BY <2>2, <2>3, <3>1 DEF Closed, u, id
  <2> QED
    BY <2>2, <2>3 DEF u, id
<1>3. DirectOwn(w, q) = iter[DOMAIN list]
  BY DEF DirectOwn, FoldLeft, MapThenFoldSet
<1> HIDE DEF next
<1>4. op \in [W \X (1 .. n) -> W]
  BY <1>2
<1>5. \A t \in W, k \in 1 .. n : op[<<t, k>>] = next(t, list[k])
  BY DEF op
<1> HIDE DEF n, op, list
<1>6. PICK h : Folding(W, n, w, op, h)
  BY <1>1, <1>4, FoldRuns
<1>7. Run(h)
  <2>1. ASSUME NEW d \in SUBSET (1 .. n), d # {}
        PROVE  h[d] = next(h[d \ {Max(d)}], list[Max(d)])
    <3>1. Max(d) \in 1 .. n /\ d \ {Max(d)} \in SUBSET (1 .. n)
      BY <1>1, <2>1, LastPlace
    <3>2. h[d \ {Max(d)}] \in W
      BY <1>6, <3>1 DEF Folding
    <3> QED
      BY <1>5, <1>6, <2>1, <3>1, <3>2 DEF Folding
  <2> QED
    BY <1>1, <1>6, <2>1 DEF Folding
<1>8. Run(iter)
  BY <1>7
<1> HIDE DEF iter
<1>9. GoesOn(W, n, w, op, iter)
  <2>1. ASSUME NEW d \in SUBSET (1 .. n), d # {}, iter[d \ {Max(d)}] \in W
        PROVE  iter[d] = op[<<iter[d \ {Max(d)}], Max(d)>>]
    <3>1. Max(d) \in 1 .. n
      BY <1>1, <2>1, LastPlace
    <3> QED
      BY <1>1, <1>5, <1>8, <2>1, <3>1
  <2>2. iter[{}] = w
    BY <1>8
  <2> QED
    BY <2>1, <2>2 DEF GoesOn
<1>10. PICK g : Steps(W, n, w, op, g, iter[1 .. n])
  BY <1>1, <1>4, <1>9, FoldSteps
<1>11. g[n] \in W
  BY <1>1, <1>10 DEF Steps
<1> QED
  BY <1>1, <1>3, <1>10, <1>11 DEF Steps

\* So it does on one queue, of either kind.
LEMMA DirectQueueStays ==
  ASSUME config \in Configurations, Fits(config), NEW W, Closed(config, W), NEW w \in W,
         NEW q \in RequestQueueNumbers(config)
  PROVE  DirectQueue(w, q) \in W
<1> DEFINE u == DirectGeneral(w, q)
           m == <<q, <<"general", 0>>>>
<1>1. CASE config.file.perRequestor
  BY <1>1, DirectOwnStays DEF DirectQueue
<1>2. CASE ~ config.file.perRequestor
  <2>1. w \in Works(config)
    BY DEF Closed
  <2>2. u \in Works(config) /\ (u = w \/ \E i, by : MoveTo(config, w, u, m, i, by))
    BY <2>1, DirectGeneralMoves
  <2> HIDE DEF u
  <2>3. u \in W
    <3>1. CASE u = w
      BY <3>1
    <3>2. ASSUME NEW i, NEW by, MoveTo(config, w, u, m, i, by)
          PROVE  u \in W
      <4> HIDE DEF m
      <4>1. m \in Stacks(config) /\ i \in 1 .. Len(RequestLists(config, w.queues)[m])
        BY <3>2 DEF MoveTo, Taken
      <4> QED
        BY <1>2, <2>2, <3>2, <4>1 DEF Closed
    <3> QED
      BY <2>2, <3>1, <3>2
  <2> QED
    BY <1>2, <2>3 DEF DirectQueue, u
<1> QED
  BY <1>1, <1>2

\* There are queues.
LEMMA QueuesThere ==
  ASSUME NEW c \in Configurations, Fits(c)
  PROVE  /\ QueueNumber(c.memTable, c.file.reqMap) \in Nat \ {0}
         /\ QueueNumber(c.memTable, c.file.cmdMap) \in Nat \ {0}
<1>1. /\ \A level \in ToSet(QueueLevels) : c.memTable[level] \in Nat \ {0}
      /\ Marked(c.file.reqMap) \subseteq 1 .. 4 /\ Marked(c.file.cmdMap) \subseteq 1 .. 4
  BY LevelNames DEF Fits
<1>2. ASSUME NEW map, Marked(map) \subseteq 1 .. 4
      PROVE  QueueNumber(c.memTable, map) \in Nat \ {0}
  <2>1. CASE Marked(map) = {}
    <3>1. QueueNumber(c.memTable, map) = 1
      BY <2>1, Zenon DEF QueueNumber
    <3> QED
      BY <3>1
  <2>2. CASE Marked(map) # {}
    <3> DEFINE m == Min(Marked(map))
    <3>1. m \in 1 .. 4
      BY <1>2, <2>2, MarkedLevel
    <3>2. PICK g : Counting(c.memTable, g, m) /\ QueueNumber(c.memTable, map) = g[m]
      BY <1>1, <2>2, <3>1, QueueNumberCounts
    <3> HIDE DEF m
    <3>3. g[m] \in Nat \ {0}
      BY <3>1, <3>2 DEF Counting
    <3> QED
      BY <3>2, <3>3
  <2> QED
    BY <2>1, <2>2
<1> QED
  BY <1>1, <1>2

\* How many queues there are.
LEMMA QueuesCounted ==
  ASSUME config \in Configurations, Fits(config), requestQueue \in RequestStores(config)
  PROVE  /\ NumQueues = QueueNumber(config.memTable, config.file.reqMap)
         /\ NumQueues \in Nat \ {0} /\ RequestQueueNumbers(config) = 0 .. NumQueues - 1
<1> DEFINE n == QueueNumber(config.memTable, config.file.reqMap)
<1>1. n \in Nat \ {0}
  BY QueuesThere
<1>2. DOMAIN requestQueue = 0 .. n - 1
  BY DEF RequestStores, RequestQueueNumbers
<1> HIDE DEF n
<1>3. Cardinality(0 .. n - 1) = n
  <2>1. Cardinality(0 .. n - 1) = IF 0 > n - 1 THEN 0 ELSE (n - 1) - 0 + 1
    BY <1>1, FS_Interval
  <2> QED
    BY <1>1, <2>1
<1> QED
  BY <1>1, <1>2, <1>3 DEF NumQueues, n, RequestQueueNumbers

\* DIRECT goes through the queues one after the other.
LEMMA DirectSteps ==
  ASSUME config \in Configurations, Fits(config), requestQueue \in RequestStores(config),
         NEW W, Closed(config, W), NEW w \in W
  PROVE  \E g : /\ g \in [0 .. NumQueues -> W] /\ g[0] = w /\ g[NumQueues] = Direct(w)
                /\ \A k \in 1 .. NumQueues : g[k] = DirectQueue(g[k - 1], k - 1)
<1> DEFINE list == [i \in 1 .. NumQueues |-> i - 1]
           n == NumQueues
           next(t, q) == DirectQueue(t, q)
           op == [p \in W \X (1 .. n) |-> next(p[1], list[p[2]])]
           Run(h) == h = [d \in SUBSET DOMAIN list |->
                            IF d = {} THEN w ELSE next(h[d \ {Max(d)}], list[Max(d)])]
           iter == CHOOSE h : Run(h)
<1>1. n \in Nat /\ DOMAIN list = 1 .. n /\ \A k \in 1 .. n : list[k] = k - 1
                /\ \A j \in 1 .. n : j - 1 \in RequestQueueNumbers(config)
  BY QueuesCounted
<1>2. ASSUME NEW t \in W, NEW k \in 1 .. n
      PROVE  next(t, list[k]) \in W
  BY <1>1, DirectQueueStays
<1>3. Direct(w) = iter[DOMAIN list]
  BY DEF Direct, FoldLeft, MapThenFoldSet
<1> HIDE DEF next
<1>4. op \in [W \X (1 .. n) -> W]
  BY <1>2
<1>5. \A t \in W, k \in 1 .. n : op[<<t, k>>] = next(t, list[k])
  BY DEF op
<1> HIDE DEF n, op, list
<1>6. PICK h : Folding(W, n, w, op, h)
  BY <1>1, <1>4, FoldRuns
<1>7. Run(h)
  <2>1. ASSUME NEW d \in SUBSET (1 .. n), d # {}
        PROVE  h[d] = next(h[d \ {Max(d)}], list[Max(d)])
    <3>1. Max(d) \in 1 .. n /\ d \ {Max(d)} \in SUBSET (1 .. n)
      BY <1>1, <2>1, LastPlace
    <3>2. h[d \ {Max(d)}] \in W
      BY <1>6, <3>1 DEF Folding
    <3> QED
      BY <1>5, <1>6, <2>1, <3>1, <3>2 DEF Folding
  <2> QED
    BY <1>1, <1>6, <2>1 DEF Folding
<1>8. Run(iter)
  BY <1>7
<1> HIDE DEF iter
<1>9. GoesOn(W, n, w, op, iter)
  <2>1. ASSUME NEW d \in SUBSET (1 .. n), d # {}, iter[d \ {Max(d)}] \in W
        PROVE  iter[d] = op[<<iter[d \ {Max(d)}], Max(d)>>]
    <3>1. Max(d) \in 1 .. n
      BY <1>1, <2>1, LastPlace
    <3> QED
      BY <1>1, <1>5, <1>8, <2>1, <3>1
  <2>2. iter[{}] = w
    BY <1>8
  <2> QED
    BY <2>1, <2>2 DEF GoesOn
<1>10. PICK g : Steps(W, n, w, op, g, iter[1 .. n])
  BY <1>1, <1>4, <1>9, FoldSteps
<1>11. ASSUME NEW k \in 1 .. n
       PROVE  g[k] = DirectQueue(g[k - 1], k - 1)
  <2>1. k - 1 \in 0 .. n
    BY <1>1
  <2>2. g[k - 1] \in W
    BY <1>10, <2>1 DEF Steps
  <2> QED
    BY <1>1, <1>5, <1>10, <2>2 DEF Steps, next
<1> QED
  BY <1>1, <1>3, <1>10, <1>11 DEF Steps, n

\* Counting round a ring of n.
LEMMA Modulo ==
  ASSUME NEW n \in Nat \ {0}
  PROVE  /\ \A x \in 0 .. n - 1 : x % n = x /\ (x + n) % n = x
         /\ \A x \in Nat : x % n \in 0 .. n - 1
OBVIOUS

\* RR finds a requestor with a request, if there is one.
LEMMA InTurnFound ==
  ASSUME NEW c, NEW queue \in RequestQueues(c), Q!Waiting(queue) # {},
         NEW from \in Nat, from = 0 \/ from < Len(queue.order)
  PROVE  /\ Len(queue.order) \in Nat \ {0}
         /\ InTurn(queue, from) \in 0 .. Len(queue.order) - 1
         /\ queue.order[InTurn(queue, from) + 1] \in Requestors
         /\ queue.own[queue.order[InTurn(queue, from) + 1]] # <<>>
<1> DEFINE order == queue.order
           n == Len(order)
           S == {k \in 0 .. n - 1 : queue.own[order[((from + k) % n) + 1]] # <<>>}
           k0 == Min(S)
<1>1. order \in Seq(Requestors)
  BY DEF RequestQueues, RequestFields
<1>2. InTurn(queue, from) = (from + k0) % n
  BY DEF InTurn
<1>3. PICK id \in ToSet(order) : queue.own[id] # <<>>
  BY DEF Q!Waiting, Q!ToSet, ToSet
<1> HIDE DEF order
<1>4. PICK p \in 1 .. n : order[p] = id
  BY <1>1, <1>3 DEF ToSet
<1>5. n \in Nat \ {0} /\ from \in 0 .. n - 1
  <2>1. n \in Nat
    BY <1>1
  <2>2. n # 0
    BY <1>4, <2>1
  <2>3. from < n
    BY <2>1, <2>2 DEF order
  <2> QED
    BY <2>1, <2>2, <2>3
<1> HIDE DEF n
<1>6. \E k \in 0 .. n - 1 : (from + k) % n = p - 1
  <2>1. CASE p - 1 >= from
    <3>1. p - 1 - from \in 0 .. n - 1 /\ from + (p - 1 - from) = p - 1 /\ p - 1 \in 0 .. n - 1
      BY <1>4, <1>5, <2>1
    <3>2. (from + (p - 1 - from)) % n = p - 1
      BY <1>5, <3>1, Modulo
    <3> QED
      BY <3>1, <3>2
  <2>2. CASE p - 1 < from
    <3>1. p - 1 - from + n \in 0 .. n - 1 /\ from + (p - 1 - from + n) = p - 1 + n
          /\ p - 1 \in 0 .. n - 1
      BY <1>4, <1>5, <2>2
    <3>2. (from + (p - 1 - from + n)) % n = p - 1
      BY <1>5, <3>1, Modulo
    <3> QED
      BY <3>1, <3>2
  <2> QED
    BY <1>4, <1>5, <2>1, <2>2
<1>7. S # {} /\ S \in SUBSET Nat
  <2>1. PICK k \in 0 .. n - 1 : (from + k) % n = p - 1
    BY <1>6
  <2>2. order[((from + k) % n) + 1] = id
    BY <1>4, <2>1
  <2>3. k \in S
    BY <1>3, <2>1, <2>2
  <2>4. S \in SUBSET Nat
    BY <1>5
  <2> QED
    BY <2>3, <2>4
<1>8. k0 \in S
  <2> HIDE DEF S
  <2>1. PICK m \in S : \A j \in S : m <= j
    BY <1>7, LeastNat
  <2> QED
    BY <2>1 DEF Min
<1> HIDE DEF k0
<1>9. k0 \in Nat /\ queue.own[order[((from + k0) % n) + 1]] # <<>>
  <2>1. k0 \in 0 .. n - 1 /\ queue.own[order[((from + k0) % n) + 1]] # <<>>
    BY <1>8
  <2>2. 0 .. n - 1 \in SUBSET Nat
    BY <1>5
  <2> QED
    BY <2>1, <2>2
<1>10. (from + k0) % n \in 0 .. n - 1
  BY <1>5, <1>9, Modulo
<1>11. order[((from + k0) % n) + 1] \in Requestors
  <2>1. ((from + k0) % n) + 1 \in 1 .. n
    BY <1>5, <1>10
  <2> QED
    BY <1>1, <2>1 DEF n
<1> QED
  BY <1>2, <1>5, <1>9, <1>10, <1>11 DEF n, order

\* Where RR goes on in a queue is in the queue's order.
Turns(c, rq, places) ==
  \A q \in RequestQueueNumbers(c) : places[q] = 0 \/ places[q] < Len(rq[q].order)

\* The work of a cycle of RR: nothing, or the request at i of buffer n becomes
\* commands with its own PRE and ACT.
Served1(c, w, u, n, i) ==
  /\ Taken(c, RequestLists(c, w.queues), RequestLists(c, u.queues), n, i)
  /\ u.commands = CommandGenerate(RequestLists(c, w.queues)[n][i], FALSE)
  /\ u.table = w.table /\ u.passed = w.passed
IdleRR(w, u) ==
  u.queues = w.queues /\ u.commands = w.commands /\ u.table = w.table /\ u.passed = w.passed

\* RR takes a request of its queue out, where there is only one.
LEMMA ServeTakes ==
  ASSUME config \in Configurations, Fits(config), requestQueue \in RequestStores(config),
         NumQueues = 1, NEW w \in Works(config), NEW place \in Nat,
         config.file.perRequestor =>
           /\ place < Len(w.queues[0].order) /\ w.queues[0].order[place + 1] \in Requestors
           /\ w.queues[0].own[w.queues[0].order[place + 1]] # <<>>,
         ~ config.file.perRequestor => w.queues[0].general # <<>>,
         Turns(config, w.queues, w.places)
  PROVE  /\ Serve(w, 0, 0, place) \in Works(config)
         /\ Turns(config, Serve(w, 0, 0, place).queues, Serve(w, 0, 0, place).places)
         /\ \E n \in Stacks(config) : \E i \in Nat : Served1(config, w, Serve(w, 0, 0, place), n, i)
<1> DEFINE u == Serve(w, 0, 0, place)
           rq == w.queues
           queue == rq[0]
           own == config.file.perRequestor
           id == queue.order[place + 1]
           req == IF own THEN Head(queue.own[id]) ELSE Head(queue.general)
           touched == IF own THEN Q!AccessOwn(queue, req.id) ELSE Q!AccessGeneral(queue, 1)
           seen == [rq EXCEPT ![0] = touched]
           new == [rq EXCEPT ![0] = Q!RemoveRequest(touched)]
           cmds == CommandGenerate(req, FALSE)
           next == IF own THEN (place + 1) % Len(queue.order) ELSE w.places[0]
           places == [w.places EXCEPT ![0] = next]
<1>1. /\ RequestQueueNumbers(config) = {0} /\ 0 \in RequestQueueNumbers(config)
      /\ rq \in RequestStores(config) /\ DOMAIN rq = {0} /\ w.places \in [{0} -> Nat]
  <2>1. RequestQueueNumbers(config) = 0 .. 0
    BY QueuesCounted
  <2>2. RequestQueueNumbers(config) = {0}
    BY <2>1
  <2> QED
    BY <2>2 DEF Works, RequestStores
<1>2. queue \in RequestQueues(config)
  BY <1>1 DEF RequestStores
<1>3. PICK n, i : /\ n \in Stacks(config) /\ i \in Nat
                  /\ new \in RequestStores(config) /\ req \in Requests(config)
                  /\ Taken(config, RequestLists(config, rq), RequestLists(config, new), n, i)
                  /\ RequestLists(config, rq)[n][i] = req
                  /\ new[0].order = queue.order
  <2>1. CASE own
    <3> DEFINE m == <<0, <<"own", id>>>>
    <3>1. /\ [rq EXCEPT ![0] = Q!RemoveRequest(Q!AccessOwn(rq[0], id))] \in RequestStores(config)
          /\ Head(rq[0].own[id]) \in Requests(config) /\ Head(rq[0].own[id]).id = id
          /\ Taken(config, RequestLists(config, rq), RequestLists(config,
               [rq EXCEPT ![0] = Q!RemoveRequest(Q!AccessOwn(rq[0], id))]), m, 1)
          /\ RequestLists(config, rq)[m][1] = Head(rq[0].own[id])
          /\ [rq EXCEPT ![0] = Q!RemoveRequest(Q!AccessOwn(rq[0], id))][0].order = rq[0].order
      <4>1. id \in Requestors /\ rq[0].own[id] # <<>>
        BY <2>1
      <4> HIDE DEF rq, queue, id
      <4> QED
        BY <1>1, <4>1, OwnTaken, SMTT(30)
    <3>2. m \in Stacks(config)
      BY <3>1 DEF Taken
    <3>3. req = Head(rq[0].own[id]) /\ touched = Q!AccessOwn(rq[0], id)
      BY <2>1, <3>1
    <3> HIDE DEF req, m, touched
    <3> QED
      BY <3>1, <3>2, <3>3
  <2>2. CASE ~ own
    <3> DEFINE m == <<0, <<"general", 0>>>>
    <3>1. queue.general \in Seq(Requests(config)) /\ queue.general # <<>>
      BY <1>2, <2>2 DEF RequestQueues, RequestFields
    <3>2. 1 \in 1 .. Len(queue.general) /\ Head(queue.general) = queue.general[1]
      BY <3>1
    <3>3. /\ [rq EXCEPT ![0] = Q!RemoveRequest(Q!AccessGeneral(rq[0], 1))] \in RequestStores(config)
          /\ rq[0].general[1] \in Requests(config)
          /\ Taken(config, RequestLists(config, rq), RequestLists(config,
               [rq EXCEPT ![0] = Q!RemoveRequest(Q!AccessGeneral(rq[0], 1))]), m, 1)
          /\ RequestLists(config, rq)[m][1] = rq[0].general[1]
          /\ [rq EXCEPT ![0] = Q!RemoveRequest(Q!AccessGeneral(rq[0], 1))][0].order = rq[0].order
      BY <1>1, <3>2, GeneralTaken
    <3>4. m \in Stacks(config)
      BY <3>3 DEF Taken
    <3>5. req = rq[0].general[1] /\ touched = Q!AccessGeneral(rq[0], 1)
      BY <2>2, <3>2
    <3> HIDE DEF req, m, touched
    <3> QED
      BY <3>3, <3>4, <3>5
  <2> QED
    BY <2>1, <2>2
<1>4. cmds \in Seq(Packets(config))
  BY <1>3, LinesInside, GenerateCommands
<1>5. [seen EXCEPT ![0] = Q!RemoveRequest(@)] = new
  BY <1>1
<1>6. (0 + 1) % NumQueues \in Nat /\ timeSlot - 1 \in Nat
  <2>1. 1 % 1 = 0 /\ 0 + 1 = 1
    OBVIOUS
  <2> QED
    BY <2>1, FrontEndAssumption
<1>7. next \in Nat /\ (next = 0 \/ next < Len(queue.order))
  <2>1. CASE own
    <3>1. queue.order \in Seq(Requestors)
      BY <1>2 DEF RequestQueues, RequestFields
    <3>2. Len(queue.order) \in Nat \ {0}
      BY <2>1, <3>1
    <3> DEFINE size == Len(queue.order)
               step == place + 1
    <3>3. step \in Nat
      OBVIOUS
    <3>4. next = step % size
      BY <2>1
    <3> HIDE DEF size, step, next
    <3>5. step % size \in 0 .. size - 1
      BY <3>2, <3>3, Modulo DEF size
    <3> QED
      BY <3>2, <3>4, <3>5 DEF size
  <2>2. CASE ~ own
    BY <1>1, <2>2 DEF Turns
  <2> QED
    BY <2>1, <2>2
<1>8. places \in [RequestQueueNumbers(config) -> Nat] /\ places[0] = next
  BY <1>1, <1>7
<1>9. u = [w EXCEPT !.commands = cmds, !.queues = [seen EXCEPT ![0] = Q!RemoveRequest(@)],
                    !.slot = timeSlot - 1, !.queue = (0 + 1) % NumQueues,
                    !.places[0] = IF own THEN (place + 1) % Len(queue.order) ELSE @]
  BY Zenon DEF Serve
<1> HIDE DEF u
<1>10. u = [w EXCEPT !.commands = cmds, !.queues = new, !.slot = timeSlot - 1,
                     !.queue = (0 + 1) % NumQueues, !.places = places]
  BY <1>5, <1>9
<1> HIDE DEF cmds, new, places, seen, next, req
<1>11. /\ u \in Works(config) /\ u.queues = new /\ u.commands = cmds /\ u.places = places
       /\ u.table = w.table /\ u.passed = w.passed
  BY <1>3, <1>4, <1>6, <1>8, <1>10 DEF Works
<1>12. Turns(config, u.queues, u.places)
  BY <1>1, <1>3, <1>7, <1>8, <1>11 DEF Turns
<1>13. Served1(config, w, u, n, i)
  BY <1>3, <1>11 DEF Served1, cmds
<1> QED
  BY <1>3, <1>11, <1>12, <1>13 DEF u

\* A cycle of RR where there is one queue.
LEMMA RoundRobinMoves ==
  ASSUME config \in Configurations, Fits(config), requestQueue \in RequestStores(config),
         NumQueues = 1, slotCounter \in Nat, queueIndex \in Nat,
         NEW w \in Works(config), w.slot = slotCounter, w.places = queueRequestorIndex,
         Turns(config, w.queues, w.places)
  PROVE  /\ RoundRobin(w) \in Works(config)
         /\ Turns(config, RoundRobin(w).queues, RoundRobin(w).places)
         /\ \/ IdleRR(w, RoundRobin(w))
            \/ \E n \in Stacks(config) : \E i \in Nat : Served1(config, w, RoundRobin(w), n, i)
<1> DEFINE passes == {k \in 0 .. NumQueues - 1 : Requesting(w.queues[Inspected(k)])}
           q == Inspected(Min(passes))
           queue == w.queues[0]
           own == config.file.perRequestor
           place == IF own THEN InTurn(queue, queueRequestorIndex[0]) ELSE 0
           u == RoundRobin(w)
<1>1. /\ RequestQueueNumbers(config) = 0 .. 0 /\ 0 \in RequestQueueNumbers(config)
      /\ w.queues \in RequestStores(config) /\ w.places \in [RequestQueueNumbers(config) -> Nat]
  BY QueuesCounted DEF Works
<1>2. queue \in RequestQueues(config)
  BY <1>1 DEF RequestStores
<1>3. u = IF slotCounter > 0 THEN [w EXCEPT !.slot = @ - 1]
          ELSE IF passes = {} THEN w
          ELSE Serve(w, Min(passes), q,
                     IF own THEN InTurn(w.queues[q], queueRequestorIndex[q]) ELSE 0)
  BY Zenon DEF RoundRobin
<1> HIDE DEF u
<1>4. CASE slotCounter > 0
  <2>1. u = [w EXCEPT !.slot = w.slot - 1]
    BY <1>3, <1>4
  <2>2. w.slot - 1 \in Nat
    BY <1>4
  <2>3. /\ u \in Works(config) /\ u.queues = w.queues /\ u.commands = w.commands
        /\ u.table = w.table /\ u.passed = w.passed /\ u.places = w.places
    BY <2>1, <2>2 DEF Works
  <2> QED
    BY <2>3 DEF IdleRR, u
<1>5. CASE ~ (slotCounter > 0) /\ passes = {}
  <2>1. u = w
    BY <1>3, <1>5
  <2> QED
    BY <2>1 DEF IdleRR, u
<1>6. CASE ~ (slotCounter > 0) /\ passes # {}
  <2>1. \A k \in 0 .. 0 : Inspected(k) = 0
    <3>1. queueIndex + 0 \in Nat /\ \A x \in Nat : x % 1 = 0
      OBVIOUS
    <3> QED
      BY <3>1 DEF Inspected
  <2>2. passes = {0} /\ Requesting(queue)
    <3>1. \A k \in passes : k = 0
      OBVIOUS
    <3>2. 0 \in passes
      BY <1>6, <3>1
    <3>3. Inspected(0) = 0
      BY <2>1
    <3>4. Requesting(w.queues[Inspected(0)])
      BY <3>2
    <3> QED
      BY <3>1, <3>2, <3>3, <3>4
  <2> HIDE DEF passes
  <2>3. Min({0}) = 0
    BY DEF Min
  <2>4. Min(passes) = 0
    BY <2>2, <2>3
  <2>5. q = 0
    BY <2>1, <2>4
  <2> HIDE DEF q
  <2>6. u = Serve(w, 0, 0, place)
    BY <1>3, <1>6, <2>4, <2>5
  <2>7. /\ place \in Nat
        /\ own => /\ place < Len(queue.order) /\ queue.order[place + 1] \in Requestors
                  /\ queue.own[queue.order[place + 1]] # <<>>
        /\ ~ own => queue.general # <<>>
    <3>1. CASE own
      <4> DEFINE from == queueRequestorIndex[0]
                 here == InTurn(queue, from)
      <4>1. Q!Waiting(queue) # {}
        BY <2>2, <3>1 DEF Requesting
      <4>2. from \in Nat /\ (from = 0 \/ from < Len(queue.order))
        BY <1>1 DEF Turns
      <4> HIDE DEF from
      <4>3. /\ Len(queue.order) \in Nat \ {0} /\ here \in 0 .. Len(queue.order) - 1
            /\ queue.order[here + 1] \in Requestors /\ queue.own[queue.order[here + 1]] # <<>>
        BY <1>2, <4>1, <4>2, InTurnFound
      <4>4. place = here
        BY <3>1 DEF from
      <4> HIDE DEF here, place
      <4>5. place \in Nat /\ place < Len(queue.order)
        BY <4>3, <4>4
      <4> QED
        BY <3>1, <4>3, <4>4, <4>5
    <3>2. CASE ~ own
      BY <2>2, <3>2 DEF Requesting
    <3> QED
      BY <3>1, <3>2
  <2> HIDE DEF place
  <2>8. /\ Serve(w, 0, 0, place) \in Works(config)
        /\ Turns(config, Serve(w, 0, 0, place).queues, Serve(w, 0, 0, place).places)
        /\ \E n \in Stacks(config) : \E i \in Nat : Served1(config, w, Serve(w, 0, 0, place), n, i)
    BY <2>7, ServeTakes
  <2> QED
    BY <2>6, <2>8 DEF u
<1> QED
  BY <1>4, <1>5, <1>6

\* The states of the work in which every request is on its way: those of pd, with
\* commands cv in the command queues already.
Kept(c, pd, cv) ==
  {w \in Works(c) : /\ Placed(c, pd, RequestLists(c, w.queues), cv, w.commands)
                    /\ Turns(c, w.queues, w.places)}

\* Translating a request keeps all on their way.
LEMMA KeptClosed ==
  ASSUME NEW c \in Configurations, Fits(c), NEW pd, NEW cv
  PROVE  Closed(c, Kept(c, pd, cv))
<1>1. Kept(c, pd, cv) \subseteq Works(c)
  BY DEF Kept
<1>2. ASSUME NEW w \in Kept(c, pd, cv), NEW u \in Works(c), NEW n \in Stacks(c),
             NEW i \in 1 .. Len(RequestLists(c, w.queues)[n]), NEW by, MoveTo(c, w, u, n, i, by)
      PROVE  u \in Kept(c, pd, cv)
  <2> DEFINE v == RequestLists(c, w.queues)
             t == RequestLists(c, u.queues)
             req == v[n][i]
             open == IsRowHit(w.table, req)
             more == CommandGenerate(req, open)
  <2>1. /\ w \in Works(c) /\ Placed(c, pd, v, cv, w.commands) /\ Turns(c, w.queues, w.places)
    BY DEF Kept
  <2>2. /\ Taken(c, v, t, n, i) /\ u.commands = w.commands \o more
        /\ u.places = w.places
        /\ \A r \in RequestQueueNumbers(c) : u.queues[r].order = w.queues[r].order
    BY <1>2 DEF MoveTo
  <2>3. w.queues \in RequestStores(c) /\ w.commands \in Seq(Packets(c))
    BY <2>1 DEF Works
  <2>4. \A g \in Stacks(c) : v[g] \in Seq(Requests(c))
    BY <2>3, StacksHold
  <2>5. req \in Requests(c) /\ open \in BOOLEAN
    BY <1>2, <2>4 DEF IsRowHit
  <2>6. req.id \in Requestors /\ req.at \in {At(c, line) : line \in c.lines}
    BY <2>5, LinesInside
  <2>7. more \in Seq(Packets(c)) /\ Generated(more, req, open)
    BY <2>5, <2>6, GenerateCommands
  <2> HIDE DEF v, t, open, more
  <2>8. Placed(c, pd, t, cv, w.commands \o more)
    BY <2>1, <2>2, <2>3, <2>4, <2>5, <2>7, RequestMoved
  <2>9. Turns(c, u.queues, u.places)
    BY <2>1, <2>2 DEF Turns
  <2> QED
    BY <2>2, <2>8, <2>9 DEF Kept, t
<1> QED
  BY <1>1, <1>2 DEF Closed

-----------------------------------------------------------------------------
(* The invariant.                                                          *)

\* The type of every variable.
Types ==
  /\ config \in Configurations
  /\ turn \in 0 .. NumRequestors
  /\ pending \in [Requestors -> Requests(config) \cup {NoRequest}]
  /\ resting \in [Requestors -> Nat]
  /\ requestQueue \in RequestStores(config)
  /\ commandQueue \in CommandStores(config)
  /\ bankTable \in [PlacesOf(config) -> Rows(config)]
  /\ opened \in [PlacesOf(config) -> Rows(config)]
  /\ slotCounter \in Nat /\ queueIndex \in Nat
  /\ queueRequestorIndex \in [RequestQueueNumbers(config) -> Nat]
  /\ overtaken \in [Requestors -> Nat]

\* What is in the queues.
Shelved == RequestLists(config, requestQueue)
Racked  == CommandLists(config, commandQueue)

\* Every request is on its way, and RR goes on within the order of a queue.
OnTheWay ==
  /\ Placed(config, pending, Shelved, Racked, <<>>)
  /\ Turns(config, requestQueue, queueRequestorIndex)

\* The work begins with nothing done.
LEMMA NothingKept ==
  ASSUME Types, OnTheWay
  PROVE  /\ NothingDone \in Kept(config, pending, Racked)
         /\ NothingDone \in Works(config) /\ NothingDone.commands = <<>>
         /\ NothingDone.queues = requestQueue /\ NothingDone.places = queueRequestorIndex
         /\ NothingDone.slot = slotCounter /\ NothingDone.table = bankTable
         /\ NothingDone.passed = {}
<1>1. /\ NothingDone.commands = <<>> /\ NothingDone.queues = requestQueue
      /\ NothingDone.places = queueRequestorIndex /\ NothingDone.slot = slotCounter
      /\ NothingDone.table = bankTable /\ NothingDone.passed = {}
  BY DEF NothingDone
<1>2. <<>> \in Seq(Packets(config)) /\ {} \in SUBSET Requestors
  OBVIOUS
<1>3. NothingDone \in Works(config)
  BY <1>2 DEF NothingDone, Works, Types
<1> HIDE DEF NothingDone
<1>4. NothingDone \in Kept(config, pending, Racked)
  BY <1>1, <1>3 DEF Kept, OnTheWay, Shelved
<1> QED
  BY <1>1, <1>3, <1>4

\* requestSchedule keeps every request on its way.
LEMMA ScheduleKeeps ==
  ASSUME Types, OnTheWay, Fits(config), OneQueueForRR(config)
  PROVE  RequestSchedule \in Kept(config, pending, Racked)
<1> DEFINE w == NothingDone
           W == Kept(config, pending, Racked)
<1>1. /\ w \in W /\ w \in Works(config) /\ w.commands = <<>> /\ w.queues = requestQueue
      /\ w.places = queueRequestorIndex /\ w.slot = slotCounter
  BY NothingKept
<1>2. config \in Configurations /\ requestQueue \in RequestStores(config)
      /\ slotCounter \in Nat /\ queueIndex \in Nat
  BY DEF Types
<1> HIDE DEF w
<1>3. CASE config.file.configTable["RequestScheduler"] = "DIRECT"
  <2>1. Closed(config, W)
    BY <1>2, KeptClosed
  <2> HIDE DEF W
  <2>2. PICK g : g \in [0 .. NumQueues -> W] /\ g[NumQueues] = Direct(w)
    BY <1>1, <1>2, <2>1, DirectSteps
  <2>3. NumQueues \in 0 .. NumQueues
    BY <1>2, QueuesCounted
  <2>4. Direct(w) \in W
    BY <2>2, <2>3
  <2> QED
    BY <1>3, <2>4 DEF RequestSchedule, W, w
<1>4. CASE config.file.configTable["RequestScheduler"] # "DIRECT"
  <2> DEFINE u == RoundRobin(w)
             v == RequestLists(config, w.queues)
             t == RequestLists(config, u.queues)
  <2>1. NumQueues = 1
    BY <1>2, <1>4, QueuesCounted DEF OneQueueForRR
  <2>2. Turns(config, w.queues, w.places) /\ Placed(config, pending, v, Racked, w.commands)
    BY <1>1 DEF Kept
  <2>3. /\ u \in Works(config) /\ Turns(config, u.queues, u.places)
        /\ IdleRR(w, u) \/ \E n \in Stacks(config) : \E i \in Nat : Served1(config, w, u, n, i)
    BY <1>1, <1>2, <2>1, <2>2, RoundRobinMoves
  <2> HIDE DEF u
  <2>4. CASE IdleRR(w, u)
    BY <1>4, <2>2, <2>3, <2>4 DEF IdleRR, Kept, RequestSchedule, u, w
  <2>5. ASSUME NEW n \in Stacks(config), NEW i \in Nat, Served1(config, w, u, n, i)
        PROVE  Placed(config, pending, t, Racked, u.commands)
    <3> DEFINE req == v[n][i]
               more == CommandGenerate(req, FALSE)
    <3>1. Taken(config, v, t, n, i) /\ u.commands = more
      BY <2>5 DEF Served1
    <3>2. \A g \in Stacks(config) : v[g] \in Seq(Requests(config))
      BY <1>1, <1>2, StacksHold
    <3>3. req \in Requests(config)
      BY <3>1, <3>2 DEF Taken
    <3>4. req.id \in Requestors /\ req.at \in {At(config, line) : line \in config.lines}
      BY <1>2, <3>3, LinesInside
    <3>5. more \in Seq(Packets(config)) /\ Generated(more, req, FALSE)
      BY <1>2, <3>3, <3>4, GenerateCommands
    <3> HIDE DEF v, t, more
    <3>6. <<>> \in Seq(Packets(config)) /\ <<>> \o more = more
      BY <3>5
    <3>7. Placed(config, pending, t, Racked, <<>> \o more)
      BY <1>1, <1>2, <2>2, <3>1, <3>2, <3>5, <3>6, RequestMoved
    <3> QED
      BY <3>1, <3>6, <3>7
  <2> QED
    BY <1>4, <2>3, <2>4, <2>5 DEF Kept, RequestSchedule, u, w
<1> QED
  BY <1>3, <1>4

\* The queues are empty at first.
LEMMA EmptyQueues ==
  ASSUME NEW c
  PROVE  Q!EmptyRequestQueue \in RequestQueues(c) /\ Q!EmptyCommandQueue \in CommandQueues(c)
<1>1. \A S : <<>> \in Seq(S)
  OBVIOUS
<1>2. Q!EmptyCommandQueue \in CommandQueues(c)
  BY <1>1 DEF Q!EmptyCommandQueue, CommandQueues
<1>3. Q!EmptyRequestQueue \in RequestFields(c)
  BY <1>1 DEF Q!EmptyRequestQueue, RequestFields
<1>4. Orderly(Q!EmptyRequestQueue)
  BY DEF Q!EmptyRequestQueue, Orderly
<1> QED
  BY <1>2, <1>3, <1>4 DEF RequestQueues

\* The first state.
LEMMA InitKeeps ==
  ASSUME Init, Fits(config)
  PROVE  Types /\ OnTheWay
<1>1. config \in Configurations /\ turn = 0 /\ 0 \in 0 .. NumRequestors
  BY FrontEndAssumption DEF Init
<1>2. PlacesOf(config) = Places
  BY DEF PlacesOf, Places, memTable
<1>3. /\ requestQueue = [q \in RequestQueueNumbers(config) |-> Q!EmptyRequestQueue]
      /\ commandQueue = [q \in CommandQueueNumbers(config) |-> Q!EmptyCommandQueue]
  BY DEF Init, RequestQueueNumbers, CommandQueueNumbers, memTable
<1>4. requestQueue \in RequestStores(config) /\ commandQueue \in CommandStores(config)
  BY <1>3, EmptyQueues DEF RequestStores, CommandStores
<1>5. queueRequestorIndex = [q \in RequestQueueNumbers(config) |-> 0]
  <2>1. queueRequestorIndex = [q \in DOMAIN requestQueue |-> 0]
    BY DEF Init
  <2> QED
    BY <1>3, <2>1
<1>6. /\ pending = [id \in Requestors |-> NoRequest] /\ resting = [id \in Requestors |-> 0]
      /\ bankTable = [p \in PlacesOf(config) |-> NoRow] /\ opened = [p \in PlacesOf(config) |-> NoRow]
      /\ slotCounter = 0 /\ queueIndex = 0 /\ overtaken = [id \in Requestors |-> 0]
  BY <1>2 DEF Init
<1>7. Types
  BY <1>1, <1>4, <1>5, <1>6 DEF Types, Rows
<1>8. ASSUME NEW n \in Stacks(config)
      PROVE  Shelved[n] = <<>>
  <2>1. n[1] \in RequestQueueNumbers(config) /\ n[2] \in Shelves
    BY DEF Stacks
  <2>2. Shelved[n] = OnShelf(Q!EmptyRequestQueue, n[2])
    BY <1>3, <2>1 DEF Shelved, RequestLists
  <2> QED
    BY <2>1, <2>2 DEF OnShelf, Shelves, Q!EmptyRequestQueue
<1>9. ASSUME NEW h \in Lists(config)
      PROVE  Racked[h] = <<>>
  <2>1. h[1] \in CommandQueueNumbers(config) /\ h[2] \in Racks
    BY DEF Lists
  <2>2. Racked[h] = OnRack(Q!EmptyCommandQueue, h[2])
    BY <1>3, <2>1 DEF Racked, CommandLists
  <2> QED
    BY <2>1, <2>2 DEF OnRack, Racks, Q!EmptyCommandQueue
<1>10. DOMAIN <<>> = {}
  OBVIOUS
<1>11. RequestsPlaced(config, pending, Shelved)
  BY <1>8, <1>10 DEF RequestsPlaced
<1>12. \A pd : ListPlaced(pd, <<>>)
  BY <1>10 DEF ListPlaced
<1>13. CommandsPlaced(config, pending, Racked)
  BY <1>9, <1>10, <1>12 DEF CommandsPlaced
<1>14. \A id \in Requestors : OneOf(config, pending, Shelved, Racked, <<>>, id)
  BY <1>6, <1>8, <1>9, <1>10 DEF OneOf, Waits, Has, InList
<1>15. Turns(config, requestQueue, queueRequestorIndex)
  BY <1>5 DEF Turns
<1> QED
  BY <1>7, <1>11, <1>12, <1>13, <1>14, <1>15 DEF OnTheWay, Placed

\* A requestor that computes changes nothing that is on its way.
LEMMA ComputeKeeps ==
  ASSUME Types, OnTheWay, NEW id \in Requestors, Compute(id)
  PROVE  Types' /\ OnTheWay'
<1>1. turn' \in 0 .. NumRequestors
  BY FrontEndAssumption DEF Compute, Requestors
<1>2. /\ config' = config /\ pending' = pending /\ resting' = resting
      /\ requestQueue' = requestQueue /\ commandQueue' = commandQueue /\ bankTable' = bankTable
      /\ opened' = opened /\ overtaken' = overtaken /\ slotCounter' = slotCounter
      /\ queueIndex' = queueIndex /\ queueRequestorIndex' = queueRequestorIndex
  BY DEF Compute, rrVars
<1>3. Types'
  BY <1>1, <1>2 DEF Types
<1> QED
  BY <1>2, <1>3 DEF OnTheWay, Shelved, Racked

\* A request that is added is on its way.
LEMMA AddKeeps ==
  ASSUME Types, OnTheWay, Fits(config), NEW id \in Requestors, NEW line \in config.lines,
         AddRequest(id, line)
  PROVE  Types' /\ OnTheWay'
<1> DEFINE req == [id |-> id, type |-> line.type, at |-> LocationOf(id, line.addr)]
           q == DecodeQueue(memTable, config.file.reqMap, LocationOf(id, line.addr))
           new == [requestQueue EXCEPT ![q] = Q!InsertRequest(requestQueue[q], config.file, req)]
           t == RequestLists(config, new)
<1>1. /\ config' = config /\ resting' = resting /\ commandQueue' = commandQueue
      /\ bankTable' = bankTable /\ opened' = opened /\ overtaken' = overtaken
      /\ slotCounter' = slotCounter /\ queueIndex' = queueIndex
      /\ queueRequestorIndex' = queueRequestorIndex
      /\ turn = id /\ turn' = turn + 1 /\ line.id = id /\ pending[id] = NoRequest
      /\ pending' = [pending EXCEPT ![id] = req] /\ requestQueue' = new
  BY DEF AddRequest, rrVars
<1>2. turn' \in 0 .. NumRequestors
  BY <1>1, FrontEndAssumption DEF Requestors
<1>3. config \in Configurations /\ requestQueue \in RequestStores(config)
      /\ pending \in [Requestors -> Requests(config) \cup {NoRequest}]
  BY DEF Types
<1>4. req \in Requests(config) /\ q = RequestHome(config, req) /\ req.id = id
  <2>1. LocationOf(id, line.addr) = At(config, line)
    BY <1>1 DEF LocationOf, At, memTable
  <2> QED
    BY <1>1, <2>1 DEF Requests, RequestHome, memTable
<1> HIDE DEF req, q
<1>5. /\ new \in RequestStores(config)
      /\ \E n : Given(config, Shelved, t, n, req)
      /\ \A r \in RequestQueueNumbers(config) : Len(requestQueue[r].order) <= Len(new[r].order)
  BY <1>3, <1>4, RequestGiven DEF Shelved
<1> HIDE DEF new
<1>6. pending' \in [Requestors -> Requests(config) \cup {NoRequest}]
  BY <1>1, <1>3, <1>4
<1>7. Types'
  BY <1>1, <1>2, <1>5, <1>6 DEF Types
<1>8. \A g \in Stacks(config) : Shelved[g] \in Seq(Requests(config))
  BY <1>3, StacksHold DEF Shelved
<1>9. Placed(config, pending, Shelved, Racked, <<>>)
  BY DEF OnTheWay
<1>10. PICK n : Given(config, Shelved, t, n, req)
  BY <1>5
<1> HIDE DEF t
<1>11. DOMAIN pending = Requestors /\ pending[req.id] = NoRequest
  BY <1>1, <1>3, <1>4
<1>12. Placed(config, [pending EXCEPT ![req.id] = req], t, Racked, <<>>)
  BY <1>3, <1>4, <1>8, <1>9, <1>10, <1>11, RequestAdded
<1>13. Placed(config, pending, Shelved, Racked, <<>>)'
  BY <1>1, <1>4, <1>12 DEF Shelved, Racked, t
<1>14. Turns(config, requestQueue, queueRequestorIndex)'
  <2>1. Turns(config, requestQueue, queueRequestorIndex)
    BY DEF OnTheWay
  <2>2. ASSUME NEW r \in RequestQueueNumbers(config)
        PROVE  queueRequestorIndex[r] = 0 \/ queueRequestorIndex[r] < Len(new[r].order)
    <3>1. requestQueue[r] \in RequestFields(config) /\ new[r] \in RequestFields(config)
      BY <1>3, <1>5 DEF RequestStores, RequestQueues
    <3>2. requestQueue[r].order \in Seq(Requestors) /\ new[r].order \in Seq(Requestors)
      BY <3>1 DEF RequestFields
    <3>3. Len(requestQueue[r].order) \in Nat /\ Len(new[r].order) \in Nat
          /\ queueRequestorIndex[r] \in Nat
      BY <3>2 DEF Types
    <3>4. Len(requestQueue[r].order) <= Len(new[r].order)
      BY <1>5
    <3>5. queueRequestorIndex[r] = 0 \/ queueRequestorIndex[r] < Len(requestQueue[r].order)
      BY <2>1 DEF Turns
    <3> QED
      BY <3>3, <3>4, <3>5
  <2> QED
    BY <1>1, <2>2 DEF Turns
<1> QED
  BY <1>7, <1>13, <1>14 DEF OnTheWay

\* The command queues when the commands of the cycle are enqueued.
Queued == Enqueued(commandQueue, RequestSchedule.commands)

\* requestSchedule and enqueueCommand together keep every request on its way.
LEMMA CycleKeeps ==
  ASSUME Types, OnTheWay, Fits(config), OneQueueForRR(config)
  PROVE  /\ RequestSchedule \in Works(config) /\ Queued \in CommandStores(config)
         /\ Placed(config, pending, RequestLists(config, RequestSchedule.queues),
                   CommandLists(config, Queued), <<>>)
         /\ Turns(config, RequestSchedule.queues, RequestSchedule.places)
<1> DEFINE work == RequestSchedule
           v == CommandLists(config, commandQueue)
           w == CommandLists(config, Queued)
           rv == RequestLists(config, work.queues)
<1>1. /\ work \in Works(config) /\ Turns(config, work.queues, work.places)
      /\ Placed(config, pending, rv, v, work.commands)
  BY ScheduleKeeps DEF Kept, Racked
<1>2. config \in Configurations /\ commandQueue \in CommandStores(config)
      /\ work.commands \in Seq(Packets(config))
  BY <1>1 DEF Types, Works
<1> HIDE DEF work
<1>3. /\ Queued \in CommandStores(config)
      /\ \E pos : Placing(config, v, work.commands, Len(work.commands), w, pos)
  BY <1>2, EnqueuePlaces DEF Queued, work
<1>4. PICK pos : Placing(config, v, work.commands, Len(work.commands), w, pos)
  BY <1>3
<1>5. \A h \in Lists(config) : v[h] \in Seq(Packets(config)) /\ w[h] \in Seq(Packets(config))
  BY <1>2, <1>3, ListsHold
<1> HIDE DEF v, w, rv
<1>6. Placed(config, pending, rv, w, <<>>)
  BY <1>1, <1>2, <1>4, <1>5, CommandsEnqueued
<1> QED
  BY <1>1, <1>3, <1>6 DEF work, w, rv

\* What Step can be.
LEMMA StepCases ==
  ASSUME Step
  PROVE  \/ StepNoCommand(RequestSchedule, Queued)
         \/ FCFS(RequestSchedule, Queued)
         \/ Round(RequestSchedule, Queued)
<1>1. PICK work \in {RequestSchedule} :
        \E queues \in {FoldLeft(EnqueueCommand, commandQueue, work.commands)} :
          StepNoCommand(work, queues) \/ FCFS(work, queues) \/ Round(work, queues)
  BY Zenon DEF Step
<1>2. work = RequestSchedule
  BY <1>1, Zenon
<1>3. PICK queues \in {FoldLeft(EnqueueCommand, commandQueue, work.commands)} :
        StepNoCommand(work, queues) \/ FCFS(work, queues) \/ Round(work, queues)
  BY <1>1, Zenon
<1>4. queues = Queued
  BY <1>2, <1>3, Zenon DEF Queued, Enqueued
<1> QED
  BY <1>2, <1>3, <1>4, Zenon

\* With one command queue, Round removes the command that it sends.
LEMMA RoundSends ==
  ASSUME config \in Configurations, OneQueueForRound(config),
         NEW work, NEW queues \in CommandStores(config), Round(work, queues)
  PROVE  \E q \in CommandQueueNumbers(config), id \in Requestors :
           /\ queues[q].own[id] # <<>>
           /\ SendCommand(work, [queues EXCEPT ![q] = Q!RemoveOwn(@, id)], Head(queues[q].own[id]))
<1>1. PICK q \in DOMAIN queues, id \in Requestors :
        /\ queues[q].own[id] # <<>>
        /\ IF queues[0].own[id] = <<>> THEN EraseNothing(work, queues)
           ELSE SendCommand(work, [queues EXCEPT ![0] = Q!RemoveOwn(@, id)], Head(queues[q].own[id]))
  <2>1. PICK first \in Collected(queues) :
          IF queues[0].own[first[2]] = <<>> THEN EraseNothing(work, queues)
          ELSE SendCommand(work, [queues EXCEPT ![0] = Q!RemoveOwn(@, first[2])],
                           Head(queues[first[1]].own[first[2]]))
    BY Zenon DEF Round
  <2>2. /\ first[1] \in DOMAIN queues /\ first[2] \in Requestors
        /\ queues[first[1]].own[first[2]] # <<>>
    BY DEF Collected
  <2> QED
    BY <2>1, <2>2
<1>2. QueueNumber(config.memTable, config.file.cmdMap) = 1
  BY DEF OneQueueForRound, Round
<1>3. DOMAIN queues = CommandQueueNumbers(config) /\ CommandQueueNumbers(config) = {0}
  BY <1>2 DEF CommandStores, CommandQueueNumbers
<1>4. q = 0 /\ q \in CommandQueueNumbers(config)
  BY <1>3
<1> QED
  BY <1>1, <1>4

\* The types after a cycle.
LEMMA ScheduledTypes ==
  ASSUME Types, Fits(config), NEW work \in Works(config), Scheduled(work), turn' = 0,
         pending' \in [Requestors -> Requests(config) \cup {NoRequest}],
         resting' \in [Requestors -> Nat], commandQueue' \in CommandStores(config),
         opened' \in [PlacesOf(config) -> Rows(config)]
  PROVE  Types'
<1>1. /\ config' = config
      /\ requestQueue' = work.queues /\ bankTable' = work.table
      /\ slotCounter' = work.slot /\ queueIndex' = work.queue
      /\ queueRequestorIndex' = work.places
      /\ overtaken' = [id \in Requestors |->
           IF id \in Served(work) THEN 0
           ELSE IF id \in work.passed THEN overtaken[id] + 1 ELSE overtaken[id]]
  BY DEF Scheduled
<1>2. /\ work.queues \in RequestStores(config) /\ work.table \in [PlacesOf(config) -> Rows(config)]
      /\ work.slot \in Nat /\ work.queue \in Nat
      /\ work.places \in [RequestQueueNumbers(config) -> Nat]
  BY DEF Works
<1>3. overtaken' \in [Requestors -> Nat]
  BY <1>1 DEF Types
<1>4. 0 \in 0 .. NumRequestors
  BY FrontEndAssumption
<1> QED
  BY <1>1, <1>2, <1>3, <1>4 DEF Types

\* No queue has a command of a requestor if no buffer has.
LEMMA NoneLeft ==
  ASSUME config \in Configurations, NEW cq \in CommandStores(config),
         AtHome(config, CommandLists(config, cq)),
         NEW id \in Requestors
  PROVE  (\A q \in DOMAIN cq : Q!CommandsOf(cq[q], id) = {}) <=> ~ Has(config, CommandLists(config, cq), id)
<1> DEFINE v == CommandLists(config, cq)
<1>1. DOMAIN cq = CommandQueueNumbers(config)
  BY DEF CommandStores
<1>2. \A q \in CommandQueueNumbers(config) : \A cmd :
        cmd \in Q!CommandsOf(cq[q], id) <=> Lying(config, v, q, id, cmd)
  BY CommandsListed
<1>3. \A h \in Lists(config) : h[1] \in CommandQueueNumbers(config)
  BY DEF Lists
<1> HIDE DEF v
<1>4. ASSUME NEW q \in CommandQueueNumbers(config), Q!CommandsOf(cq[q], id) # {}
      PROVE  Has(config, v, id)
  <2>1. PICK cmd : cmd \in Q!CommandsOf(cq[q], id)
    BY <1>4
  <2> QED
    BY <1>2, <2>1 DEF Has, Lying
<1>5. ASSUME Has(config, v, id)
      PROVE  \E q \in CommandQueueNumbers(config) : Q!CommandsOf(cq[q], id) # {}
  <2>1. PICK h \in Lists(config) : \E i \in DOMAIN v[h] : v[h][i].id = id
    BY <1>5 DEF Has
  <2>2. PICK i \in DOMAIN v[h] : v[h][i].id = id
    BY <2>1
  <2>3. v[h][i] \in Q!CommandsOf(cq[h[1]], id)
    BY <1>2, <1>3, <2>2 DEF Lying
  <2> QED
    BY <1>3, <2>3
<1> QED
  BY <1>1, <1>4, <1>5 DEF v

\* What was in its buffer is in it when a command is sent.
LEMMA HomesStay ==
  ASSUME NEW c, NEW v, \A g \in Lists(c) : v[g] \in Seq(Packets(c)),
         AtHome(c, v), NEW w, NEW h, NEW cmd, Sent(c, v, w, h, cmd)
  PROVE  /\ AtHome(c, w)
         /\ cmd \in Packets(c) /\ HomeOf(c, cmd) = h
<1>1. /\ h \in Lists(c) /\ v[h] \in Seq(Packets(c)) /\ v[h] # <<>> /\ cmd = Head(v[h])
      /\ \A g \in Lists(c) : w[g] = IF g = h THEN Tail(v[g]) ELSE v[g]
  BY DEF Sent
<1>2. /\ 1 \in DOMAIN v[h] /\ cmd = v[h][1] /\ cmd \in Packets(c)
      /\ \A i \in DOMAIN Tail(v[h]) : i + 1 \in DOMAIN v[h] /\ Tail(v[h])[i] = v[h][i + 1]
  BY <1>1
<1>3. ASSUME NEW g \in Lists(c), NEW i \in DOMAIN w[g]
      PROVE  HomeOf(c, w[g][i]) = g
  <2>1. CASE g = h
    <3>1. w[g] = Tail(v[h])
      BY <1>1, <2>1
    <3>2. i + 1 \in DOMAIN v[h] /\ w[g][i] = v[h][i + 1]
      BY <1>2, <3>1
    <3> QED
      BY <1>1, <2>1, <3>2 DEF AtHome
  <2>2. CASE g # h
    BY <1>1, <2>2 DEF AtHome
  <2> QED
    BY <2>1, <2>2
<1>4. HomeOf(c, cmd) = h
  BY <1>1, <1>2 DEF AtHome
<1> QED
  BY <1>2, <1>3, <1>4 DEF AtHome

\* The last of a requestor's commands, of which w is left, answers its request.
Answers(c, w, cmd) == IsAccess(cmd) /\ ~ Has(c, w, cmd.id)

\* What sending a command does.
LEMMA SendDoes ==
  ASSUME Types, Fits(config), NEW work \in Works(config), NEW cq \in CommandStores(config),
         Placed(config, pending, RequestLists(config, work.queues), CommandLists(config, cq), <<>>),
         NEW new \in CommandStores(config), NEW h, NEW cmd,
         Sent(config, CommandLists(config, cq), CommandLists(config, new), h, cmd),
         SendCommand(work, new, cmd)
  PROVE  /\ cmd \in Packets(config) /\ cmd.id \in Requestors /\ HomeOf(config, cmd) = h
         /\ Scheduled(work) /\ turn' = 0 /\ commandQueue' = new /\ pending[cmd.id] # NoRequest
         /\ opened' = IF IsAccess(cmd) THEN opened
                      ELSE [opened EXCEPT ![Place(cmd.at)] = IF cmd.type = "PRE" THEN NoRow ELSE cmd.at.Row]
         /\ Answers(config, CommandLists(config, new), cmd) =>
              /\ pending' = [pending EXCEPT ![cmd.id] = NoRequest]
              /\ resting' = [Rested EXCEPT ![cmd.id] = Turnaround]
         /\ ~ Answers(config, CommandLists(config, new), cmd) => pending' = pending /\ resting' = Rested
         /\ Placed(config, pending', RequestLists(config, work.queues), CommandLists(config, new), <<>>)
         /\ \A id \in Requestors : Has(config, CommandLists(config, cq), id) =>
              \/ Has(config, CommandLists(config, new), id)
              \/ id = cmd.id /\ Answers(config, CommandLists(config, new), cmd)
<1> DEFINE v == CommandLists(config, cq)
           w == CommandLists(config, new)
           rv == RequestLists(config, work.queues)
           last == Answers(config, w, cmd)
           pd == After(config, pending, w, cmd)
<1>1. config \in Configurations /\ DOMAIN pending = Requestors
  BY DEF Types
<1>2. \A g \in Lists(config) : v[g] \in Seq(Packets(config))
  BY ListsHold
<1>3. AtHome(config, v)
  BY DEF Placed, CommandsPlaced, AtHome
<1>4. cmd \in Packets(config) /\ cmd.id \in Requestors /\ AtHome(config, w) /\ HomeOf(config, cmd) = h
  <2> HIDE DEF v, w
  <2>1. cmd \in Packets(config) /\ AtHome(config, w) /\ HomeOf(config, cmd) = h
    BY <1>2, <1>3, HomesStay DEF v, w
  <2> QED
    BY <2>1 DEF Packets
<1>5. (\A q \in DOMAIN new : Q!CommandsOf(new[q], cmd.id) = {}) <=> ~ Has(config, w, cmd.id)
  BY <1>1, <1>4, NoneLeft
<1>6. /\ Scheduled(work) /\ turn' = 0 /\ commandQueue' = new
      /\ opened' = IF IsAccess(cmd) THEN opened
                   ELSE [opened EXCEPT ![Place(cmd.at)] = IF cmd.type = "PRE" THEN NoRow ELSE cmd.at.Row]
      /\ last => pending' = [pending EXCEPT ![cmd.id] = NoRequest]
                 /\ resting' = [Rested EXCEPT ![cmd.id] = Turnaround]
      /\ ~ last => pending' = pending /\ resting' = Rested
  BY <1>5 DEF SendCommand, Answers
<1>7. pending' = pd
  BY <1>6 DEF After, Answers
<1> HIDE DEF v, w, rv
<1>8. /\ Placed(config, pd, rv, w, <<>>) /\ pending[cmd.id] # NoRequest
      /\ \A id \in Requestors : Has(config, v, id) =>
           Has(config, w, id) \/ (id = cmd.id /\ IsAccess(cmd) /\ ~ Has(config, w, cmd.id))
  BY <1>1, <1>2, CommandGone DEF v, w, rv
<1> HIDE DEF pd
<1>9. Placed(config, pending', rv, w, <<>>)
  BY <1>7, <1>8
<1> QED
  BY <1>4, <1>6, <1>8, <1>9 DEF v, w, rv, Answers

\* A command that is sent.
LEMMA SendKeeps ==
  ASSUME Types, Fits(config), NEW work \in Works(config), NEW cq \in CommandStores(config),
         Placed(config, pending, RequestLists(config, work.queues), CommandLists(config, cq), <<>>),
         Turns(config, work.queues, work.places),
         NEW new \in CommandStores(config), NEW h, NEW cmd,
         Sent(config, CommandLists(config, cq), CommandLists(config, new), h, cmd),
         SendCommand(work, new, cmd)
  PROVE  Types' /\ OnTheWay'
<1> DEFINE w == CommandLists(config, new)
           last == Answers(config, w, cmd)
<1>1. /\ pending \in [Requestors -> Requests(config) \cup {NoRequest}]
      /\ resting \in [Requestors -> Nat] /\ opened \in [PlacesOf(config) -> Rows(config)]
  BY DEF Types
<1>2. /\ cmd \in Packets(config) /\ Scheduled(work) /\ turn' = 0 /\ commandQueue' = new
      /\ opened' = IF IsAccess(cmd) THEN opened
                   ELSE [opened EXCEPT ![Place(cmd.at)] = IF cmd.type = "PRE" THEN NoRow ELSE cmd.at.Row]
      /\ last => pending' = [pending EXCEPT ![cmd.id] = NoRequest]
                 /\ resting' = [Rested EXCEPT ![cmd.id] = Turnaround]
      /\ ~ last => pending' = pending /\ resting' = Rested
      /\ Placed(config, pending', RequestLists(config, work.queues), w, <<>>)
  BY SendDoes
<1> HIDE DEF last
<1>3. pending' \in [Requestors -> Requests(config) \cup {NoRequest}]
  BY <1>1, <1>2
<1>4. resting' \in [Requestors -> Nat]
  <2>1. Rested \in [Requestors -> Nat]
    BY <1>1 DEF Rested
  <2> QED
    BY <1>2, <2>1, FrontEndAssumption
<1>5. opened' \in [PlacesOf(config) -> Rows(config)]
  <2>1. cmd.at.Row \in Rows(config) /\ NoRow \in Rows(config)
    BY <1>2 DEF Packets, Rows
  <2> QED
    BY <1>1, <1>2, <2>1
<1>6. Types'
  BY <1>2, <1>3, <1>4, <1>5, ScheduledTypes
<1>7. config' = config /\ requestQueue' = work.queues /\ queueRequestorIndex' = work.places
  BY <1>2 DEF Scheduled
<1> QED
  BY <1>2, <1>6, <1>7 DEF OnTheWay, Shelved, Racked

\* A cycle.
LEMMA StepKeeps ==
  ASSUME Types, OnTheWay, Fits(config), OneQueueForRR(config), OneQueueForRound(config), Step
  PROVE  Types' /\ OnTheWay'
<1> DEFINE work == RequestSchedule
<1>1. /\ work \in Works(config) /\ Queued \in CommandStores(config)
      /\ Placed(config, pending, RequestLists(config, work.queues), CommandLists(config, Queued), <<>>)
      /\ Turns(config, work.queues, work.places)
  BY CycleKeeps
<1>2. StepNoCommand(work, Queued) \/ FCFS(work, Queued) \/ Round(work, Queued)
  BY StepCases
<1>3. DOMAIN Queued = CommandQueueNumbers(config)
  BY <1>1 DEF CommandStores
<1> HIDE DEF work
<1>4. CASE StepNoCommand(work, Queued)
  <2>1. /\ Scheduled(work) /\ turn' = 0 /\ commandQueue' = Queued /\ resting' = Rested
        /\ pending' = pending /\ opened' = opened
    BY <1>4 DEF StepNoCommand
  <2>2. Rested \in [Requestors -> Nat]
    BY DEF Rested, Types
  <2>3. pending \in [Requestors -> Requests(config) \cup {NoRequest}]
        /\ opened \in [PlacesOf(config) -> Rows(config)]
    BY DEF Types
  <2>4. Types'
    BY <1>1, <2>1, <2>2, <2>3, ScheduledTypes
  <2>5. config' = config /\ requestQueue' = work.queues /\ queueRequestorIndex' = work.places
    BY <2>1 DEF Scheduled
  <2> QED
    BY <1>1, <2>1, <2>4, <2>5 DEF OnTheWay, Shelved, Racked
<1>5. CASE FCFS(work, Queued)
  <2>1. PICK q \in CommandQueueNumbers(config) :
          /\ Queued[q].hrt # <<>>
          /\ SendCommand(work, [Queued EXCEPT ![q] = Q!RemoveCritical(@)], Head(Queued[q].hrt))
    BY <1>3, <1>5 DEF FCFS
  <2> DEFINE new == [Queued EXCEPT ![q] = Q!RemoveCritical(@)]
             h == <<q, <<"hrt", 0>>>>
             cmd == Head(Queued[q].hrt)
  <2>2. new \in CommandStores(config)
        /\ Sent(config, CommandLists(config, Queued), CommandLists(config, new), h, cmd)
    BY <1>1, <2>1, CriticalSent
  <2>3. SendCommand(work, new, cmd)
    BY <2>1
  <2> HIDE DEF new, h, cmd
  <2> QED
    BY <1>1, <2>2, <2>3, SendKeeps
<1>6. CASE Round(work, Queued)
  <2>1. PICK q \in CommandQueueNumbers(config), id \in Requestors :
          /\ Queued[q].own[id] # <<>>
          /\ SendCommand(work, [Queued EXCEPT ![q] = Q!RemoveOwn(@, id)], Head(Queued[q].own[id]))
    BY <1>1, <1>6, RoundSends DEF Types
  <2> DEFINE new == [Queued EXCEPT ![q] = Q!RemoveOwn(@, id)]
             h == <<q, <<"own", id>>>>
             cmd == Head(Queued[q].own[id])
  <2>2. new \in CommandStores(config)
        /\ Sent(config, CommandLists(config, Queued), CommandLists(config, new), h, cmd)
    BY <1>1, <2>1, OwnSent
  <2>3. SendCommand(work, new, cmd)
    BY <2>1
  <2> HIDE DEF new, h, cmd
  <2> QED
    BY <1>1, <2>2, <2>3, SendKeeps
<1> QED
  BY <1>2, <1>4, <1>5, <1>6

\* A request that is on its way is in one place.
LEMMA InOnePlace ==
  ASSUME Types, OnTheWay
  PROVE  OnePlace
<1> DEFINE v == RequestLists(config, requestQueue)
           w == CommandLists(config, commandQueue)
<1>1. /\ config \in Configurations /\ requestQueue \in RequestStores(config)
      /\ commandQueue \in CommandStores(config) /\ DOMAIN commandQueue = CommandQueueNumbers(config)
  BY DEF Types, CommandStores
<1>2. /\ RequestsPlaced(config, pending, v) /\ CommandsPlaced(config, pending, w)
      /\ \A id \in Requestors : OneOf(config, pending, v, w, <<>>, id)
  BY DEF OnTheWay, Placed, Shelved, Racked
<1>3. AtHome(config, w)
  BY <1>2 DEF CommandsPlaced, AtHome
<1>4. \A id \in Requestors :
        /\ \A e \in WaitingIn(id) : \E n \in Stacks(config) : \E i \in DOMAIN v[n] :
             v[n][i].id = id /\ e = <<n[1], Spot(n[2], i, v[n][i])>>
        /\ \A n \in Stacks(config) : \A i \in DOMAIN v[n] :
             v[n][i].id = id => <<n[1], Spot(n[2], i, v[n][i])>> \in WaitingIn(id)
  BY <1>1, WaitingListed
<1>5. \A id \in Requestors, q \in CommandQueueNumbers(config) : \A cmd :
        cmd \in Q!CommandsOf(commandQueue[q], id) <=> Lying(config, w, q, id, cmd)
  BY <1>1, <1>3, CommandsListed
<1>6. \A h \in Lists(config) : h[1] \in CommandQueueNumbers(config)
  BY DEF Lists
<1> HIDE DEF v, w
<1>7. \A id \in Requestors : \A cmd :
        cmd \in Commands(id) <=>
          \E h \in Lists(config) : \E i \in DOMAIN w[h] : w[h][i] = cmd /\ cmd.id = id
  <2> TAKE id \in Requestors
  <2> TAKE cmd
  <2>1. cmd \in Commands(id) <=>
          \E q \in CommandQueueNumbers(config) : cmd \in Q!CommandsOf(commandQueue[q], id)
    BY <1>1 DEF Commands
  <2> QED
    BY <1>5, <1>6, <2>1 DEF Lying
<1>8. ASSUME NEW id \in Requestors
      PROVE  \/ /\ pending[id] = NoRequest
                /\ WaitingIn(id) = {} /\ Commands(id) = {}
             \/ /\ pending[id] # NoRequest
                /\ Cardinality(WaitingIn(id)) = 1 /\ Commands(id) = {}
                /\ \A x \in WaitingIn(id) : x[2].req = pending[id]
             \/ /\ pending[id] # NoRequest
                /\ WaitingIn(id) = {} /\ Commands(id) # {}
                /\ \A cmd \in Commands(id) : cmd.at = pending[id].at
  <2>1. ~ Waits(config, v, id) => WaitingIn(id) = {}
    BY <1>4 DEF Waits
  <2>2. ~ Has(config, w, id) => Commands(id) = {}
    BY <1>7 DEF Has
  <2>3. Has(config, w, id) => Commands(id) # {} /\ \A cmd \in Commands(id) : cmd.at = pending[id].at
    <3> HAVE Has(config, w, id)
    <3>1. Commands(id) # {}
      BY <1>7 DEF Has
    <3>2. ASSUME NEW cmd \in Commands(id)
          PROVE  cmd.at = pending[id].at
      <4>1. PICK h \in Lists(config) : \E i \in DOMAIN w[h] : w[h][i] = cmd /\ cmd.id = id
        BY <1>7
      <4>2. PICK i \in DOMAIN w[h] : w[h][i] = cmd /\ cmd.id = id
        BY <4>1
      <4> QED
        BY <1>2, <4>2 DEF CommandsPlaced, ListPlaced
    <3> QED
      BY <3>1, <3>2
  <2>4. Waits(config, v, id) =>
          Cardinality(WaitingIn(id)) = 1 /\ \A x \in WaitingIn(id) : x[2].req = pending[id]
    <3> HAVE Waits(config, v, id)
    <3>1. PICK n \in Stacks(config) : \E i \in DOMAIN v[n] : v[n][i].id = id
      BY DEF Waits
    <3>2. PICK i \in DOMAIN v[n] : v[n][i].id = id
      BY <3>1
    <3> DEFINE e == <<n[1], Spot(n[2], i, v[n][i])>>
    <3>3. e \in WaitingIn(id)
      BY <1>4, <3>2
    <3>4. \A x \in WaitingIn(id) : x = e
      <4> TAKE x \in WaitingIn(id)
      <4>1. PICK m \in Stacks(config) : \E j \in DOMAIN v[m] :
              v[m][j].id = id /\ x = <<m[1], Spot(m[2], j, v[m][j])>>
        BY <1>4
      <4>2. PICK j \in DOMAIN v[m] : v[m][j].id = id /\ x = <<m[1], Spot(m[2], j, v[m][j])>>
        BY <4>1
      <4>3. m = n /\ j = i
        BY <1>2, <3>2, <4>2 DEF RequestsPlaced
      <4> QED
        BY <4>2, <4>3
    <3>5. e[2].req = pending[id]
      <4>1. v[n][i] = pending[id]
        BY <1>2, <3>2 DEF RequestsPlaced
      <4>2. e[2] = Spot(n[2], i, v[n][i])
        OBVIOUS
      <4> QED
        BY <4>1, <4>2 DEF Spot
    <3> HIDE DEF e
    <3>6. WaitingIn(id) = {e}
      BY <3>3, <3>4
    <3>7. Cardinality({e}) = 1
      BY FS_Singleton
    <3> QED
      BY <3>4, <3>5, <3>6, <3>7
  <2>5. OneOf(config, pending, v, w, <<>>, id) /\ ~ InList(<<>>, id)
    BY <1>2 DEF InList
  <2> QED
    BY <2>1, <2>2, <2>3, <2>4, <2>5 DEF OneOf
<1> QED
  BY <1>8 DEF OnePlace

\* Every step keeps the invariant, if every configuration is one that the code can
\* serve.
LEMMA NextKeeps ==
  ASSUME \A c \in Configurations : Fits(c) /\ OneQueueForRR(c) /\ OneQueueForRound(c),
         Types, OnTheWay, [Next]_vars
  PROVE  Types' /\ OnTheWay'
<1>1. Fits(config) /\ OneQueueForRR(config) /\ OneQueueForRound(config)
  BY DEF Types
<1>2. CASE UNCHANGED vars
  BY <1>2 DEF vars, rrVars, Types, OnTheWay, Shelved, Racked
<1>3. ASSUME NEW id \in Requestors, Compute(id)
      PROVE  Types' /\ OnTheWay'
  BY <1>3, ComputeKeeps
<1>4. ASSUME NEW id \in Requestors, NEW line \in config.lines, AddRequest(id, line)
      PROVE  Types' /\ OnTheWay'
  BY <1>1, <1>4, AddKeeps
<1>5. CASE Step
  BY <1>1, <1>5, StepKeeps
<1> QED
  BY <1>2, <1>3, <1>4, <1>5 DEF Next

\* The invariant, for every number of requestors and every set of configurations
\* whose requests lie inside their memory and that use RR with one request queue
\* and Round with one command queue only.
THEOREM FrontEndInvariant ==
  ASSUME \A c \in Configurations : Fits(c) /\ OneQueueForRR(c) /\ OneQueueForRound(c)
  PROVE  Spec => [](Types /\ OnTheWay)
<1>1. Init => Types /\ OnTheWay
  <2> HAVE Init
  <2>1. Fits(config)
    BY DEF Init
  <2> QED
    BY <2>1, InitKeeps
<1>2. Types /\ OnTheWay /\ [Next]_vars => (Types /\ OnTheWay)'
  BY NextKeeps
<1> QED
  BY <1>1, <1>2, PTL DEF Spec

\* OnePlace: with any number of queues under DIRECT and FCFS, with one request queue
\* under RR and one command queue under Round, an unanswered request is in one request
\* queue, once, or its commands are in the command queues.
THEOREM OnePlaceAlways ==
  ASSUME \A c \in Configurations : Fits(c) /\ OneQueueForRR(c) /\ OneQueueForRound(c)
  PROVE  Spec => []OnePlace
<1>1. Types /\ OnTheWay => OnePlace
  BY InOnePlace
<1> QED
  BY <1>1, FrontEndInvariant, PTL

-----------------------------------------------------------------------------
(* A queue for each bank.                                                  *)

\* Two digits of a number to base B.
LEMMA Digits ==
  ASSUME NEW B \in Nat \ {0}, NEW r1 \in Nat, NEW r2 \in Nat,
         NEW b1 \in 0 .. B - 1, NEW b2 \in 0 .. B - 1, b1 + r1 * B = b2 + r2 * B
  PROVE  r1 = r2 /\ b1 = b2
<1>1. \A x, y \in Nat : x < y => x * B + B <= y * B
  <2> TAKE x, y \in Nat
  <2> HAVE x < y
  <2>1. (x + 1) * B <= y * B
    OBVIOUS
  <2> QED
    BY <2>1
<1>2. r1 * B \in Nat /\ r2 * B \in Nat
  OBVIOUS
<1>3. ~ (r1 < r2)
  BY <1>1, <1>2
<1>4. ~ (r2 < r1)
  BY <1>1, <1>2
<1>5. r1 = r2
  BY <1>3, <1>4
<1> QED
  BY <1>2, <1>5

\* decodeQueue numbers the banks of the ranks one after the other.
LEMMA BankHome ==
  ASSUME NEW c \in Configurations, Fits(c), c.file.cmdMap = <<0, 0, 1, 0>>, NEW cmd \in Packets(c)
  PROVE  CommandHome(c, cmd) = cmd.at.Bank + cmd.at.Rank * c.memTable.Bank
<1> DEFINE at == [cmd.at EXCEPT !.BankGroup = 0, !.SubArray = 0]
           map == c.file.cmdMap
<1>1. Marked(map) = {3}
  BY DEF Marked
<1>2. Min({3}) = 3
  BY DEF Min
<1>3. Marked(map) # {} /\ Min(Marked(map)) = 3
  BY <1>1, <1>2
<1>4. Inside(c, cmd.at)
  BY LinesInside
<1>5. /\ at.Rank = cmd.at.Rank /\ at.Bank = cmd.at.Bank /\ at.BankGroup = 0
      /\ cmd.at.Rank \in Nat /\ cmd.at.Bank \in Nat
      /\ \A level \in ToSet(QueueLevels) : at[level] \in Nat
  <2> DEFINE names == ToSet(Levels)
  <2>1. names = {"Rank", "BankGroup", "Bank", "SubArray", "Row", "Column"}
        /\ ToSet(QueueLevels) = {"Rank", "BankGroup", "Bank", "SubArray"}
    BY LevelNames
  <2>2. cmd.at \in [names -> Nat]
    BY <1>4 DEF Inside
  <2> HIDE DEF names
  <2> QED
    BY <2>1, <2>2
<1>6. CommandHome(c, cmd) = DecodeQueue(c.memTable, map, at)
  BY DEF CommandHome
<1> HIDE DEF at, map
<1>7. \E g : Combining(at, g, 2) /\ DecodeQueue(c.memTable, map, at) =
                at[QueueLevels[Min(Marked(map))]] + g[2] * c.memTable[QueueLevels[Min(Marked(map))]]
  <2>1. 2 \in 0 .. 3 /\ 2 = Min(Marked(map)) - 1
    BY <1>3
  <2> QED
    BY <1>3, <1>5, <2>1, DecodeCombines
<1>8. PICK g : Combining(at, g, 2) /\ DecodeQueue(c.memTable, map, at) =
                 at.Bank + g[2] * c.memTable.Bank
  BY <1>3, <1>7, LevelNames
<1>9. g[2] = cmd.at.Rank
  <2>1. 1 \in 1 .. 2 /\ 2 \in 1 .. 2 /\ 1 - 1 = 0 /\ 2 - 1 = 1
    OBVIOUS
  <2>2. g[0] = 0 /\ g[1] = Combined(g[0], at.Rank) /\ g[2] = Combined(g[1], at.BankGroup)
    BY <1>8, <2>1, LevelNames DEF Combining
  <2> QED
    BY <1>5, <2>2 DEF Combined
<1> QED
  BY <1>5, <1>6, <1>8, <1>9

\* The commands in one queue are for one bank.
LEMMA BankAlone ==
  ASSUME Types, OnTheWay, Fits(config)
  PROVE  OneBankPerQueue
<1> DEFINE w == CommandLists(config, commandQueue)
<1>1. /\ config \in Configurations /\ commandQueue \in CommandStores(config)
      /\ DOMAIN commandQueue = CommandQueueNumbers(config)
  BY DEF Types, CommandStores
<1>2. AtHome(config, w)
  BY DEF OnTheWay, Placed, CommandsPlaced, Racked, AtHome
<1>3. \A id \in Requestors, q \in CommandQueueNumbers(config) : \A cmd :
        cmd \in Q!CommandsOf(commandQueue[q], id) <=> Lying(config, w, q, id, cmd)
  BY <1>1, <1>2, CommandsListed
<1>4. \A h \in Lists(config) : w[h] \in Seq(Packets(config))
  BY <1>1, ListsHold
<1> HIDE DEF w
<1>5. ASSUME NEW q \in CommandQueueNumbers(config), NEW id \in Requestors,
             NEW cmd \in Q!CommandsOf(commandQueue[q], id)
      PROVE  cmd \in Packets(config) /\ CommandHome(config, cmd) = q
  <2>1. PICK h \in Lists(config) : h[1] = q /\ \E i \in DOMAIN w[h] : w[h][i] = cmd /\ cmd.id = id
    BY <1>3 DEF Lying
  <2>2. PICK i \in DOMAIN w[h] : w[h][i] = cmd
    BY <2>1
  <2>3. cmd \in Packets(config)
    BY <1>4, <2>2
  <2>4. HomeOf(config, cmd) = h
    BY <1>2, <2>2 DEF AtHome
  <2> QED
    BY <2>1, <2>3, <2>4 DEF HomeOf
<1>6. ASSUME config.file.cmdMap = <<0, 0, 1, 0>>, NEW q \in CommandQueueNumbers(config),
             NEW id1 \in Requestors, NEW id2 \in Requestors,
             NEW c1 \in Q!CommandsOf(commandQueue[q], id1),
             NEW c2 \in Q!CommandsOf(commandQueue[q], id2)
      PROVE  Place(c1.at) = Place(c2.at)
  <2> DEFINE banks == config.memTable.Bank
  <2>1. /\ c1 \in Packets(config) /\ c2 \in Packets(config)
        /\ CommandHome(config, c1) = q /\ CommandHome(config, c2) = q
    BY <1>5
  <2>2. c1.at.Bank + c1.at.Rank * banks = c2.at.Bank + c2.at.Rank * banks
    BY <1>1, <1>6, <2>1, BankHome
  <2>3. banks \in Nat \ {0}
    BY LevelNames DEF Fits
  <2>4. Inside(config, c1.at) /\ Inside(config, c2.at)
    BY <1>1, <2>1, LinesInside
  <2>5. /\ c1.at.Rank \in Nat /\ c1.at.Bank \in 0 .. banks - 1
        /\ c2.at.Rank \in Nat /\ c2.at.Bank \in 0 .. banks - 1
    <3>1. "Bank" \in ToSet(QueueLevels) /\ "Rank" \in ToSet(QueueLevels)
      BY LevelNames
    <3> QED
      BY <2>3, <2>4, <3>1 DEF Inside
  <2> DEFINE r1 == c1.at.Rank
             b1 == c1.at.Bank
             r2 == c2.at.Rank
             b2 == c2.at.Bank
  <2> HIDE DEF banks, r1, b1, r2, b2
  <2>6. /\ r1 \in Nat /\ r2 \in Nat /\ b1 \in 0 .. banks - 1 /\ b2 \in 0 .. banks - 1
        /\ b1 + r1 * banks = b2 + r2 * banks
    BY <2>2, <2>5 DEF r1, b1, r2, b2
  <2>7. r1 = r2 /\ b1 = b2
    BY <2>3, <2>6, Digits
  <2> QED
    BY <2>7 DEF Place, r1, b1, r2, b2
<1> QED
  BY <1>1, <1>6 DEF OneBankPerQueue

\* OneBankPerQueue: with a command queue for each bank, which is for FCFS unless
\* there is but one bank, decodeQueue gives no two banks the same one.
THEOREM OneBankPerQueueAlways ==
  ASSUME \A c \in Configurations : Fits(c) /\ OneQueueForRR(c) /\ OneQueueForRound(c)
  PROVE  Spec => []OneBankPerQueue
<1>1. Types /\ OnTheWay => OneBankPerQueue
  <2> HAVE Types /\ OnTheWay
  <2>1. Fits(config)
    BY DEF Types
  <2> QED
    BY <2>1, BankAlone
<1> QED
  BY <1>1, FrontEndInvariant, PTL

-----------------------------------------------------------------------------
(* Overtaking.                                                             *)

\* Only DIRECT with a shared buffer lets requests pass others.
Free(c) == c.file.configTable["RequestScheduler"] = "DIRECT" /\ ~ c.file.perRequestor

\* A requestor has a request in a shared buffer.
InShared(c, rv, id) ==
  \E n \in Stacks(c) : n[2] = <<"general", 0>> /\ \E i \in DOMAIN rv[n] : rv[n][i].id = id

\* What is left in the buffers was there.
Thinner(c, rv, v) ==
  \A n \in Stacks(c) : \A j \in DOMAIN v[n] : \E i \in DOMAIN rv[n] : rv[n][i] = v[n][j]

\* The states of the work in which only requests in shared buffers were passed.
Passing(c, rv) ==
  {w \in Works(c) : /\ Thinner(c, rv, RequestLists(c, w.queues))
                    /\ \A id \in w.passed : InShared(c, rv, id)
                    /\ c.file.perRequestor => w.passed = {}}

\* Taking a request out leaves less.
LEMMA TakenThins ==
  ASSUME NEW c, NEW v, \A g \in Stacks(c) : v[g] \in Seq(Requests(c)),
         NEW w, NEW n, NEW i, Taken(c, v, w, n, i), NEW rv, Thinner(c, rv, v)
  PROVE  Thinner(c, rv, w)
<1>1. ASSUME NEW g \in Stacks(c), NEW j \in DOMAIN w[g]
      PROVE  \E k \in DOMAIN rv[g] : rv[g][k] = w[g][j]
  <2>1. PICK k \in DOMAIN v[g] : v[g][k] = w[g][j]
    BY Shifted
  <2> QED
    BY <2>1 DEF Thinner
<1> QED
  BY <1>1 DEF Thinner

\* Translating a request passes only requests in a shared buffer.
LEMMA PassingClosed ==
  ASSUME NEW c \in Configurations, Fits(c), NEW rv
  PROVE  Closed(c, Passing(c, rv))
<1>1. Passing(c, rv) \subseteq Works(c)
  BY DEF Passing
<1>2. ASSUME NEW w \in Passing(c, rv), NEW u \in Works(c), NEW n \in Stacks(c),
             NEW i \in 1 .. Len(RequestLists(c, w.queues)[n]), NEW by, MoveTo(c, w, u, n, i, by),
             c.file.perRequestor => by = {}
      PROVE  u \in Passing(c, rv)
  <2> DEFINE v == RequestLists(c, w.queues)
             t == RequestLists(c, u.queues)
  <2>1. /\ w \in Works(c) /\ Thinner(c, rv, v) /\ \A id \in w.passed : InShared(c, rv, id)
        /\ c.file.perRequestor => w.passed = {}
    BY DEF Passing
  <2>2. /\ Taken(c, v, t, n, i) /\ u.passed = w.passed \cup by
        /\ \A id \in by : n[2] = <<"general", 0>> /\ \E k \in 1 .. i - 1 : v[n][k].id = id
    BY <1>2 DEF MoveTo
  <2>3. w.queues \in RequestStores(c)
    BY <2>1 DEF Works
  <2>4. \A g \in Stacks(c) : v[g] \in Seq(Requests(c))
    BY <2>3, StacksHold
  <2>5. i \in 1 .. Len(v[n])
    OBVIOUS
  <2> HIDE DEF v, t
  <2>6. Thinner(c, rv, t)
    BY <2>1, <2>2, <2>4, TakenThins
  <2>7. ASSUME NEW id \in by
        PROVE  InShared(c, rv, id)
    <3>1. PICK k \in 1 .. i - 1 : v[n][k].id = id
      BY <2>2
    <3>2. k \in DOMAIN v[n]
      BY <2>4, <2>5, <3>1
    <3>3. PICK j \in DOMAIN rv[n] : rv[n][j] = v[n][k]
      BY <2>1, <3>2 DEF Thinner
    <3> QED
      BY <2>2, <3>1, <3>3 DEF InShared
  <2> QED
    BY <1>2, <2>1, <2>2, <2>6, <2>7 DEF Passing, t
<1> QED
  BY <1>1, <1>2 DEF Closed

\* At first nobody has passed.
LEMMA NothingPassing ==
  ASSUME Types, OnTheWay
  PROVE  NothingDone \in Passing(config, Shelved)
<1>1. /\ NothingDone \in Works(config) /\ NothingDone.queues = requestQueue /\ NothingDone.passed = {}
  BY NothingKept
<1>2. Thinner(config, Shelved, Shelved)
  BY DEF Thinner
<1> QED
  BY <1>1, <1>2 DEF Passing, Shelved

\* DIRECT serves a request of every shared buffer that has one.
LEMMA DirectServes ==
  ASSUME Types, OnTheWay, Fits(config), ~ config.file.perRequestor,
         NEW r \in RequestQueueNumbers(config), requestQueue[r].general # <<>>
  PROVE  \E i \in DOMAIN requestQueue[r].general :
           InList(Direct(NothingDone).commands, requestQueue[r].general[i].id)
<1> DEFINE list == requestQueue[r].general
           N == NumQueues
           W == Passing(config, Shelved)
           Served2(w) == \E i \in DOMAIN list : InList(w.commands, list[i].id)
<1>1. config \in Configurations /\ requestQueue \in RequestStores(config)
  BY DEF Types
<1>2. NothingDone \in W /\ NothingDone.queues = requestQueue
  BY NothingPassing, NothingKept
<1>3. Closed(config, W)
  BY <1>1, PassingClosed
<1>4. W \subseteq Works(config)
  BY DEF Passing
<1>5. N \in Nat \ {0} /\ RequestQueueNumbers(config) = 0 .. N - 1
  BY <1>1, QueuesCounted
<1> HIDE DEF W
<1>6. PICK g : /\ g \in [0 .. N -> W] /\ g[0] = NothingDone /\ g[N] = Direct(NothingDone)
               /\ \A k \in 1 .. N : g[k] = DirectQueue(g[k - 1], k - 1)
  BY <1>1, <1>2, <1>3, DirectSteps
<1>7. list \in Seq(Requests(config))
  BY <1>1 DEF RequestStores, RequestQueues, RequestFields
<1> DEFINE Good(k) == IF r < k THEN Served2(g[k]) ELSE g[k].queues[r] = requestQueue[r]
           S == {k \in 0 .. N : Good(k)}
<1> HIDE DEF N
<1>8. 0 \in S
  BY <1>2, <1>5, <1>6
<1>9. ASSUME NEW k \in 1 .. N, k - 1 \in S
      PROVE  k \in S
  <2> DEFINE w == g[k - 1]
             u == g[k]
             q == k - 1
             m == <<q, <<"general", 0>>>>
             old == w.queues[q].general
  <2>1. k \in 0 .. N /\ k - 1 \in 0 .. N /\ q \in RequestQueueNumbers(config) /\ k \in Nat /\ r \in Nat
    BY <1>5
  <2>2. w \in Works(config) /\ u = DirectGeneral(w, q)
    BY <1>4, <1>6, <2>1 DEF DirectQueue
  <2>3. Good(k - 1)
    BY <1>9
  <2>4. /\ u \in Works(config)
        /\ old = <<>> => u = w
        /\ old # <<>> => \E i \in DOMAIN old :
             MoveTo(config, w, u, m, i, {old[j].id : j \in 1 .. i - 1})
    BY <1>1, <2>1, <2>2, DirectGeneralMoves
  <2>5. CASE old = <<>>
    <3>1. u = w
      BY <2>4, <2>5
    <3>2. r < k - 1 => Served2(u)
      BY <2>3, <3>1
    <3>3. ~ (r < k - 1) => u.queues[r] = requestQueue[r]
      BY <2>3, <3>1
    <3>4. r # k - 1
      <4> SUFFICES ASSUME r = k - 1 PROVE FALSE
        OBVIOUS
      <4>1. ~ (r < k - 1)
        BY <2>1
      <4>2. u.queues[r] = requestQueue[r]
        BY <3>3, <4>1
      <4> QED
        BY <2>5, <3>1, <4>2
    <3>5. r < k <=> r < k - 1
      BY <2>1, <3>4
    <3>6. Good(k)
      BY <3>2, <3>3, <3>5
    <3> QED
      BY <2>1, <3>6
  <2>6. CASE old # <<>>
    <3>1. PICK i \in DOMAIN old : MoveTo(config, w, u, m, i, {old[j].id : j \in 1 .. i - 1})
      BY <2>4, <2>6
    <3> DEFINE req == RequestLists(config, w.queues)[m][i]
               more == CommandGenerate(req, IsRowHit(w.table, req))
    <3>2. /\ Taken(config, RequestLists(config, w.queues), RequestLists(config, u.queues), m, i)
          /\ u.commands = w.commands \o more
          /\ \A s \in RequestQueueNumbers(config) : s # m[1] => u.queues[s] = w.queues[s]
      BY <3>1 DEF MoveTo
    <3>3. req = old[i] /\ m[1] = q
      BY <3>2 DEF Taken, RequestLists, OnShelf
    <3>4. w.queues \in RequestStores(config) /\ w.commands \in Seq(Packets(config))
      BY <2>2 DEF Works
    <3>5. req \in Requests(config)
      <4>1. RequestLists(config, w.queues)[m] \in Seq(Requests(config))
            /\ i \in 1 .. Len(RequestLists(config, w.queues)[m])
        BY <3>2, <3>4, StacksHold DEF Taken
      <4> HIDE DEF m
      <4> QED
        BY <4>1
    <3>6. more \in Seq(Packets(config)) /\ Generated(more, req, IsRowHit(w.table, req))
      <4>1. req.id \in Requestors /\ req.at \in {At(config, line) : line \in config.lines}
            /\ IsRowHit(w.table, req) \in BOOLEAN
        BY <1>1, <3>5, LinesInside DEF IsRowHit
      <4> HIDE DEF req
      <4> QED
        BY <1>1, <3>5, <4>1, GenerateCommands DEF req
    <3> HIDE DEF req, more
    <3>7. 1 \in DOMAIN more /\ more[1].id = req.id
      <4>1. Len(more) \in Nat /\ Len(more) >= 1
        BY <3>6, FrontEndAssumption DEF Generated
      <4>2. 1 \in DOMAIN more
        BY <3>6, <4>1
      <4> QED
        BY <3>6, <4>2 DEF Generated
    <3>8. InList(u.commands, req.id)
          /\ \A id : InList(w.commands, id) => InList(u.commands, id)
      <4> DEFINE a == w.commands
                 b == u.commands
      <4>1. /\ b = a \o more /\ Len(a) \in Nat /\ Len(more) \in Nat
            /\ DOMAIN a = 1 .. Len(a) /\ DOMAIN more = 1 .. Len(more) /\ DOMAIN b = 1 .. Len(a) + Len(more)
            /\ \A j \in 1 .. Len(a) : b[j] = a[j]
            /\ \A j \in 1 .. Len(more) : b[Len(a) + j] = more[j]
        BY <3>2, <3>4, <3>6
      <4> HIDE DEF a, b
      <4>2. Len(a) + 1 \in DOMAIN b /\ b[Len(a) + 1].id = req.id
        BY <3>7, <4>1
      <4>3. \A j \in DOMAIN a : j \in DOMAIN b /\ b[j] = a[j]
        BY <4>1
      <4> QED
        BY <4>2, <4>3 DEF InList, a, b
    <3>9. r < k - 1 => Served2(u)
      BY <2>3, <3>8
    <3>10. r = k - 1 => Served2(u)
      <4> HAVE r = k - 1
      <4>1. w.queues[r] = requestQueue[r]
        BY <2>1, <2>3
      <4>2. req = list[i] /\ i \in DOMAIN list
        BY <3>3, <4>1
      <4> QED
        BY <3>8, <4>2
    <3>11. r > k - 1 => u.queues[r] = requestQueue[r]
      <4> HAVE r > k - 1
      <4>1. ~ (r < k - 1) /\ r # q
        BY <2>1
      <4> QED
        BY <2>3, <3>2, <3>3, <4>1
    <3>12. Good(k)
      <4> HIDE DEF Served2, u
      <4>1. r < k - 1 \/ r = k - 1 \/ r > k - 1
        BY <2>1
      <4>2. r < k <=> ~ (r > k - 1)
        BY <2>1
      <4> QED
        BY <3>9, <3>10, <3>11, <4>1, <4>2 DEF u
    <3> QED
      BY <2>1, <3>12
  <2> QED
    BY <2>5, <2>6
<1>10. 0 .. N \subseteq S
  <2> HIDE DEF S
  <2> QED
    BY <1>5, <1>8, <1>9, UpTo
<1>11. Good(N) /\ r < N
  BY <1>5, <1>10
<1> QED
  BY <1>6, <1>11

\* The work of a cycle only takes requests out; only where passing is free does it
\* pass any, and only in shared buffers.
LEMMA SchedulePasses ==
  ASSUME Types, OnTheWay, Fits(config), OneQueueForRR(config)
  PROVE  /\ Thinner(config, Shelved, RequestLists(config, RequestSchedule.queues))
         /\ \A id \in RequestSchedule.passed : Free(config) /\ InShared(config, Shelved, id)
<1> DEFINE w == NothingDone
           W == Passing(config, Shelved)
           direct == config.file.configTable["RequestScheduler"] = "DIRECT"
<1>1. /\ w \in W /\ w \in Works(config) /\ w.queues = requestQueue
      /\ w.places = queueRequestorIndex /\ w.slot = slotCounter /\ w.passed = {}
  BY NothingKept, NothingPassing
<1>2. config \in Configurations /\ requestQueue \in RequestStores(config)
      /\ slotCounter \in Nat /\ queueIndex \in Nat
  BY DEF Types
<1> HIDE DEF w
<1>3. CASE direct
  <2>1. Closed(config, W)
    BY <1>2, PassingClosed
  <2> HIDE DEF W
  <2>2. PICK g : g \in [0 .. NumQueues -> W] /\ g[NumQueues] = Direct(w)
    BY <1>1, <1>2, <2>1, DirectSteps
  <2>3. NumQueues \in 0 .. NumQueues
    BY <1>2, QueuesCounted
  <2>4. Direct(w) \in W
    BY <2>2, <2>3
  <2>5. RequestSchedule = Direct(w)
    BY <1>3 DEF RequestSchedule, w
  <2> QED
    BY <1>3, <2>4, <2>5 DEF W, Passing, Free
<1>4. CASE ~ direct
  <2> DEFINE u == RoundRobin(w)
             v == RequestLists(config, w.queues)
             t == RequestLists(config, u.queues)
  <2>1. NumQueues = 1
    BY <1>2, <1>4, QueuesCounted DEF OneQueueForRR
  <2>2. Turns(config, w.queues, w.places)
    BY <1>1 DEF OnTheWay
  <2>3. IdleRR(w, u) \/ \E n \in Stacks(config) : \E i \in Nat : Served1(config, w, u, n, i)
    BY <1>1, <1>2, <2>1, <2>2, RoundRobinMoves
  <2>4. RequestSchedule = u
    BY <1>4 DEF RequestSchedule, w
  <2> HIDE DEF u
  <2>5. Thinner(config, Shelved, v)
    BY <1>1 DEF Thinner, Shelved
  <2>6. CASE IdleRR(w, u)
    BY <1>1, <2>4, <2>5, <2>6 DEF IdleRR
  <2>7. ASSUME NEW n \in Stacks(config), NEW i \in Nat, Served1(config, w, u, n, i)
        PROVE  Thinner(config, Shelved, t) /\ u.passed = {}
    <3>1. Taken(config, v, t, n, i) /\ u.passed = {}
      BY <1>1, <2>7 DEF Served1
    <3>2. \A g \in Stacks(config) : v[g] \in Seq(Requests(config))
      BY <1>1, <1>2, StacksHold
    <3> HIDE DEF v, t
    <3> QED
      BY <2>5, <3>1, <3>2, TakenThins
  <2> QED
    BY <2>3, <2>4, <2>6, <2>7
<1> QED
  BY <1>3, <1>4

\* What a cycle does to the requestors: one whose command is in a queue keeps one
\* there or begins to rest, and one that rests comes nearer to its end.
LEMMA StepRests ==
  ASSUME Types, OnTheWay, Fits(config), OneQueueForRR(config), OneQueueForRound(config), Step
  PROVE  /\ Scheduled(RequestSchedule)
         /\ \A j \in Requestors :
              /\ \/ resting'[j] = Rested[j] /\ pending'[j] = pending[j]
                 \/ resting'[j] = Turnaround /\ pending'[j] = NoRequest
              /\ Has(config, CommandLists(config, Queued), j) =>
                   Has(config, CommandLists(config, commandQueue'), j) \/ resting'[j] = Turnaround
<1> DEFINE work == RequestSchedule
           cv == CommandLists(config, Queued)
<1>1. /\ work \in Works(config) /\ Queued \in CommandStores(config)
      /\ Placed(config, pending, RequestLists(config, work.queues), CommandLists(config, Queued), <<>>)
      /\ DOMAIN pending = Requestors /\ DOMAIN Rested = Requestors
  BY CycleKeeps DEF Types, Rested
<1>2. StepNoCommand(work, Queued) \/ FCFS(work, Queued) \/ Round(work, Queued)
  BY StepCases
<1>3. DOMAIN Queued = CommandQueueNumbers(config)
  BY <1>1 DEF CommandStores
<1> HIDE DEF work
<1>4. CASE StepNoCommand(work, Queued)
  BY <1>4 DEF StepNoCommand, work
<1>5. ASSUME NEW new \in CommandStores(config), NEW h, NEW cmd,
             Sent(config, CommandLists(config, Queued), CommandLists(config, new), h, cmd),
             SendCommand(work, new, cmd)
      PROVE  /\ Scheduled(work)
             /\ \A j \in Requestors :
                  /\ \/ resting'[j] = Rested[j] /\ pending'[j] = pending[j]
                     \/ resting'[j] = Turnaround /\ pending'[j] = NoRequest
                  /\ Has(config, cv, j) =>
                       Has(config, CommandLists(config, commandQueue'), j) \/ resting'[j] = Turnaround
  <2> DEFINE w == CommandLists(config, new)
             last == Answers(config, w, cmd)
  <2>1. /\ cmd.id \in Requestors /\ Scheduled(work) /\ commandQueue' = new
        /\ last => pending' = [pending EXCEPT ![cmd.id] = NoRequest]
                   /\ resting' = [Rested EXCEPT ![cmd.id] = Turnaround]
        /\ ~ last => pending' = pending /\ resting' = Rested
        /\ \A id \in Requestors : Has(config, cv, id) => Has(config, w, id) \/ (id = cmd.id /\ last)
    BY <1>1, <1>5, SendDoes
  <2> HIDE DEF last, w, cv
  <2>2. commandQueue' = new => CommandLists(config, commandQueue') = w
    BY DEF w
  <2> QED
    BY <1>1, <2>1, <2>2
<1>6. CASE FCFS(work, Queued)
  <2>1. PICK q \in CommandQueueNumbers(config) :
          /\ Queued[q].hrt # <<>>
          /\ SendCommand(work, [Queued EXCEPT ![q] = Q!RemoveCritical(@)], Head(Queued[q].hrt))
    BY <1>3, <1>6 DEF FCFS
  <2> DEFINE new == [Queued EXCEPT ![q] = Q!RemoveCritical(@)]
             h == <<q, <<"hrt", 0>>>>
             cmd == Head(Queued[q].hrt)
  <2>2. new \in CommandStores(config)
        /\ Sent(config, CommandLists(config, Queued), CommandLists(config, new), h, cmd)
    BY <1>1, <2>1, CriticalSent
  <2>3. SendCommand(work, new, cmd)
    BY <2>1
  <2> HIDE DEF new, h, cmd
  <2> QED
    BY <1>5, <2>2, <2>3 DEF work
<1>7. CASE Round(work, Queued)
  <2>1. PICK q \in CommandQueueNumbers(config), id \in Requestors :
          /\ Queued[q].own[id] # <<>>
          /\ SendCommand(work, [Queued EXCEPT ![q] = Q!RemoveOwn(@, id)], Head(Queued[q].own[id]))
    BY <1>1, <1>7, RoundSends DEF Types
  <2> DEFINE new == [Queued EXCEPT ![q] = Q!RemoveOwn(@, id)]
             h == <<q, <<"own", id>>>>
             cmd == Head(Queued[q].own[id])
  <2>2. new \in CommandStores(config)
        /\ Sent(config, CommandLists(config, Queued), CommandLists(config, new), h, cmd)
    BY <1>1, <2>1, OwnSent
  <2>3. SendCommand(work, new, cmd)
    BY <2>1
  <2> HIDE DEF new, h, cmd
  <2> QED
    BY <1>5, <2>2, <2>3 DEF work
<1> QED
  BY <1>2, <1>4, <1>6, <1>7

\* Commands that are enqueued are in the queues, and so are those that were there.
LEMMA EnqueuedHas ==
  ASSUME Types, OnTheWay, Fits(config), OneQueueForRR(config), NEW id \in Requestors,
         Has(config, Racked, id) \/ InList(RequestSchedule.commands, id)
  PROVE  Has(config, CommandLists(config, Queued), id)
<1> DEFINE list == RequestSchedule.commands
           w == CommandLists(config, Queued)
<1>1. config \in Configurations /\ commandQueue \in CommandStores(config)
  BY DEF Types
<1>2. list \in Seq(Packets(config))
  BY CycleKeeps DEF Works
<1> HIDE DEF list
<1>3. PICK pos : Placing(config, Racked, list, Len(list), w, pos)
  BY <1>1, <1>2, EnqueuePlaces DEF Queued, Racked, list
<1>4. \A h \in Lists(config) : /\ Racked[h] \in Seq(Packets(config)) /\ w[h] \in Seq(Packets(config))
  BY <1>1, CycleKeeps, ListsHold DEF Racked
<1> HIDE DEF w
<1>5. ASSUME Has(config, Racked, id)
      PROVE  Has(config, w, id)
  <2>1. PICK h \in Lists(config) : \E i \in DOMAIN Racked[h] : Racked[h][i].id = id
    BY <1>5 DEF Has
  <2>2. PICK i \in DOMAIN Racked[h] : Racked[h][i].id = id
    BY <2>1
  <2>3. i \in 1 .. Len(Racked[h]) /\ Len(Racked[h]) <= Len(w[h]) /\ Len(w[h]) \in Nat
    BY <1>3, <1>4, <2>2 DEF Placing
  <2>4. i \in DOMAIN w[h] /\ w[h][i] = Racked[h][i]
    BY <1>3, <1>4, <2>3 DEF Placing
  <2> QED
    BY <2>2, <2>4 DEF Has
<1>6. ASSUME InList(list, id)
      PROVE  Has(config, w, id)
  <2>1. PICK j \in DOMAIN list : list[j].id = id
    BY <1>6 DEF InList
  <2> DEFINE h == HomeOf(config, list[j])
  <2>2. j \in 1 .. Len(list) /\ list[j] \in Packets(config)
    BY <1>2, <2>1
  <2>3. h \in Lists(config)
    BY <1>1, <2>2, HomeListed
  <2>4. pos[j] \in Len(Racked[h]) + 1 .. Len(w[h]) /\ w[h][pos[j]] = list[j]
    BY <1>3, <2>2 DEF Placing
  <2> HIDE DEF h
  <2>5. pos[j] \in DOMAIN w[h]
    BY <1>4, <2>3, <2>4
  <2> QED
    BY <2>1, <2>3, <2>4, <2>5 DEF Has
<1> QED
  BY <1>5, <1>6 DEF list, w

\* The others that were served a while ago at most: a requestor has commands in the
\* queues, or has not rested for a cycles.
Recent(c, cv, rs, id, a) ==
  {j \in Requestors \ {id} : Has(c, cv, j) \/ rs[j] > Turnaround - a}

\* A requestor that was overtaken waits in a shared buffer, and in every cycle that
\* it waited another one was served, none of them twice.
Late ==
  \A id \in Requestors : \E a \in Nat :
    /\ overtaken[id] <= a /\ a <= Cardinality(Recent(config, Racked, resting, id, a))
    /\ a > 0 => Free(config) /\ InShared(config, Shelved, id)

\* A requestor that rests has no request.
Idle == \A id \in Requestors : resting[id] > 0 => pending[id] = NoRequest

\* There are fewer others than requestors.
LEMMA RecentFew ==
  ASSUME NEW c, NEW cv, NEW rs, NEW id \in Requestors, NEW a
  PROVE  /\ IsFiniteSet(Recent(c, cv, rs, id, a))
         /\ Cardinality(Recent(c, cv, rs, id, a)) \in Nat
         /\ Cardinality(Recent(c, cv, rs, id, a)) <= NumRequestors - 1
<1> DEFINE N == NumRequestors
           others == Requestors \ {id}
           S == Recent(c, cv, rs, id, a)
<1>1. N \in Nat \ {0}
  BY FrontEndAssumption
<1>2. Requestors = 0 .. N - 1
  BY DEF Requestors
<1> HIDE DEF N
<1>3. IsFiniteSet(Requestors) /\ Cardinality(Requestors) = N
  <2>1. IsFiniteSet(0 .. N - 1) /\ Cardinality(0 .. N - 1) = IF 0 > N - 1 THEN 0 ELSE (N - 1) - 0 + 1
    BY <1>1, FS_Interval
  <2> QED
    BY <1>1, <1>2, <2>1
<1>4. IsFiniteSet(others) /\ Cardinality(others) = Cardinality(Requestors) - 1
  BY <1>3, FS_RemoveElement
<1>5. S \in SUBSET others
  BY DEF Recent
<1> HIDE DEF S, others
<1>6. IsFiniteSet(S) /\ Cardinality(S) <= Cardinality(others)
  BY <1>4, <1>5, FS_Subset
<1>7. Cardinality(S) \in Nat
  BY <1>6, FS_CardinalityType
<1> QED
  BY <1>1, <1>3, <1>4, <1>6, <1>7 DEF S, N

\* One more of them.
LEMMA OneMore ==
  ASSUME NEW S, NEW T, IsFiniteSet(S), IsFiniteSet(T), S \subseteq T, NEW j \in T, j \notin S
  PROVE  Cardinality(S) + 1 <= Cardinality(T)
<1>1. IsFiniteSet(S \cup {j}) /\ Cardinality(S \cup {j}) = Cardinality(S) + 1
  BY FS_AddElement
<1>2. S \cup {j} \in SUBSET T
  OBVIOUS
<1>3. Cardinality(S \cup {j}) <= Cardinality(T)
  BY <1>2, FS_Subset
<1> QED
  BY <1>1, <1>3

\* A requestor that is passed over in its shared buffer, again or not, stays there,
\* and another one was served.
LEMMA PassedOver ==
  ASSUME Types, OnTheWay, Idle, Fits(config), OneQueueForRR(config), OneQueueForRound(config),
         Step, Free(config),
         NEW id \in Requestors, InShared(config, Shelved, id), id \notin Served(RequestSchedule),
         NEW a \in Nat, a <= Cardinality(Recent(config, Racked, resting, id, a))
  PROVE  /\ InShared(config, RequestLists(config, RequestSchedule.queues), id)
         /\ a + 1 <= Cardinality(Recent(config, CommandLists(config, commandQueue'), resting', id, a + 1))
<1> DEFINE work == RequestSchedule
           t == RequestLists(config, work.queues)
           cv == CommandLists(config, commandQueue')
           S == Recent(config, Racked, resting, id, a)
           T == Recent(config, cv, resting', id, a + 1)
<1>1. PICK n \in Stacks(config) : n[2] = <<"general", 0>> /\ \E i \in DOMAIN Shelved[n] : Shelved[n][i].id = id
  BY DEF InShared
<1>2. PICK i \in DOMAIN Shelved[n] : Shelved[n][i].id = id
  BY <1>1
<1>3. /\ config \in Configurations /\ requestQueue \in RequestStores(config)
      /\ resting \in [Requestors -> Nat]
  BY DEF Types
<1>4. /\ RequestsPlaced(config, pending, Shelved)
      /\ \A k \in Requestors : OneOf(config, pending, Shelved, Racked, <<>>, k)
  BY DEF OnTheWay, Placed
<1>5. Shelved[n] \in Seq(Requests(config))
  BY <1>3, StacksHold DEF Shelved
<1>6. ~ InList(work.commands, id)
  BY DEF Served, InList, ToSet
<1>7. InShared(config, t, id)
  <2>1. Waits(config, Shelved, id)
    BY <1>2 DEF Waits
  <2>2. pending[id] # NoRequest /\ ~ Has(config, Racked, id)
    BY <1>4, <2>1 DEF OneOf
  <2>3. Placed(config, pending, t, Racked, work.commands)
    BY ScheduleKeeps DEF Kept
  <2>4. Waits(config, t, id)
    BY <1>6, <2>2, <2>3 DEF Placed, OneOf
  <2>5. Thinner(config, Shelved, t)
    BY SchedulePasses
  <2> HIDE DEF t
  <2>6. PICK m \in Stacks(config) : \E j \in DOMAIN t[m] : t[m][j].id = id
    BY <2>4 DEF Waits
  <2>7. PICK j \in DOMAIN t[m] : t[m][j].id = id
    BY <2>6
  <2>8. PICK k \in DOMAIN Shelved[m] : Shelved[m][k] = t[m][j]
    BY <2>5 DEF Thinner
  <2>9. m = n
    BY <1>2, <1>4, <2>7, <2>8 DEF RequestsPlaced
  <2> QED
    BY <1>1, <2>7, <2>9 DEF InShared
<1>8. \E j \in Requestors : /\ Waits(config, Shelved, j) /\ InList(work.commands, j)
  <2> DEFINE q == n[1]
             list == requestQueue[q].general
  <2>1. q \in RequestQueueNumbers(config) /\ Shelved[n] = list
    <3>1. n[1] \in RequestQueueNumbers(config)
      BY DEF Stacks
    <3>2. Shelved[n] = OnShelf(requestQueue[n[1]], n[2])
      BY DEF Shelved, RequestLists
    <3>3. OnShelf(requestQueue[n[1]], n[2]) = requestQueue[n[1]].general
      BY <1>1 DEF OnShelf
    <3> QED
      BY <3>1, <3>2, <3>3
  <2> HIDE DEF q
  <2>2. list # <<>>
    BY <1>2, <2>1
  <2>3. ~ config.file.perRequestor /\ work = Direct(NothingDone)
    BY DEF Free, RequestSchedule
  <2> HIDE DEF work
  <2>4. PICK k \in DOMAIN list : InList(Direct(NothingDone).commands, list[k].id)
    BY <2>1, <2>2, <2>3, DirectServes
  <2> DEFINE j == list[k].id
  <2>5. j \in Requestors
    <3> HIDE DEF list
    <3>1. list[k] \in Requests(config)
      BY <1>5, <2>1
    <3> QED
      BY <1>3, <3>1, LinesInside
  <2>6. Waits(config, Shelved, j)
    BY <2>1 DEF Waits
  <2>7. InList(work.commands, j)
    BY <2>3, <2>4
  <2> QED
    BY <2>5, <2>6, <2>7
<1>9. PICK j \in Requestors : Waits(config, Shelved, j) /\ InList(work.commands, j)
  BY <1>8
<1>10. pending[j] # NoRequest /\ ~ Has(config, Racked, j) /\ j # id /\ resting[j] = 0
  <2>1. pending[j] # NoRequest /\ ~ Has(config, Racked, j)
    BY <1>4, <1>9 DEF OneOf
  <2>2. ~ (resting[j] > 0) /\ resting[j] \in Nat
    BY <1>3, <2>1 DEF Idle
  <2> QED
    BY <1>6, <1>9, <2>1, <2>2
<1>11. /\ IsFiniteSet(S) /\ IsFiniteSet(T) /\ Cardinality(S) \in Nat /\ Cardinality(T) \in Nat
       /\ Cardinality(S) <= NumRequestors - 1
  BY RecentFew
<1>12. Turnaround \in Nat /\ Turnaround - a >= 0 /\ Turnaround > Turnaround - (a + 1)
  BY <1>11, FrontEndAssumption
<1>13. \A m \in Requestors :
         /\ \/ resting'[m] = Rested[m] \/ resting'[m] = Turnaround
         /\ Has(config, CommandLists(config, Queued), m) => Has(config, cv, m) \/ resting'[m] = Turnaround
  BY StepRests
<1>14. \A m \in Requestors : Has(config, Racked, m) \/ InList(work.commands, m) =>
         Has(config, CommandLists(config, Queued), m)
  BY EnqueuedHas
<1> HIDE DEF cv, work
<1>15. ASSUME NEW m \in Requestors, m # id,
              Has(config, Racked, m) \/ InList(work.commands, m) \/ resting[m] > Turnaround - a
       PROVE  m \in T
  <2>1. CASE Has(config, Racked, m) \/ InList(work.commands, m)
    <3>1. Has(config, cv, m) \/ resting'[m] > Turnaround - (a + 1)
      BY <1>12, <1>13, <1>14, <2>1
    <3> QED
      BY <1>15, <3>1 DEF Recent
  <2>2. CASE resting[m] > Turnaround - a
    <3>1. resting[m] \in Nat /\ resting[m] > 0
      BY <1>3, <1>12, <2>2
    <3>2. Rested[m] = resting[m] - 1
      BY <3>1 DEF Rested
    <3>3. resting'[m] > Turnaround - (a + 1)
      <4>1. resting[m] - 1 > Turnaround - (a + 1)
        BY <1>12, <2>2, <3>1
      <4> QED
        BY <1>12, <1>13, <3>2, <4>1
    <3> QED
      BY <1>15, <3>3 DEF Recent
  <2> QED
    BY <1>15, <2>1, <2>2
<1>16. S \subseteq T
  <2> SUFFICES ASSUME NEW m \in S
               PROVE  m \in T
    OBVIOUS
  <2>1. m \in Requestors /\ m # id /\ (Has(config, Racked, m) \/ resting[m] > Turnaround - a)
    BY DEF Recent
  <2> HIDE DEF T
  <2> QED
    BY <1>15, <2>1
<1>17. j \in T
  <2> HIDE DEF T
  <2> QED
    BY <1>9, <1>10, <1>15
<1>18. j \notin S
  BY <1>10, <1>12 DEF Recent
<1> HIDE DEF S, T
<1>19. Cardinality(S) + 1 <= Cardinality(T)
  BY <1>11, <1>16, <1>17, <1>18, OneMore
<1>20. a + 1 <= Cardinality(T)
  <2>1. a <= Cardinality(S)
    BY DEF S
  <2> QED
    BY <1>11, <1>19, <2>1
<1> QED
  BY <1>7, <1>20 DEF T, t, cv, work

\* A cycle keeps the account of who was served.
LEMMA StepLate ==
  ASSUME Types, OnTheWay, Late, Idle, Fits(config), OneQueueForRR(config),
         OneQueueForRound(config), Step
  PROVE  Late' /\ Idle'
<1> DEFINE work == RequestSchedule
           t == RequestLists(config, work.queues)
           cv == CommandLists(config, commandQueue')
<1>1. /\ config' = config /\ requestQueue' = work.queues
      /\ overtaken' = [id \in Requestors |->
           IF id \in Served(work) THEN 0
           ELSE IF id \in work.passed THEN overtaken[id] + 1 ELSE overtaken[id]]
  BY StepRests DEF Scheduled
<1>2. \A id \in Requestors : resting[id] \in Nat /\ overtaken[id] \in Nat
  BY DEF Types
<1>3. \A id \in work.passed : Free(config) /\ InShared(config, Shelved, id)
  BY SchedulePasses
<1> HIDE DEF work, t, cv
<1>4. ASSUME NEW id \in Requestors
      PROVE  \E b \in Nat : /\ overtaken'[id] <= b
                            /\ b <= Cardinality(Recent(config, cv, resting', id, b))
                            /\ b > 0 => Free(config) /\ InShared(config, t, id)
  <2>1. PICK a \in Nat : /\ overtaken[id] <= a
                         /\ a <= Cardinality(Recent(config, Racked, resting, id, a))
                         /\ a > 0 => Free(config) /\ InShared(config, Shelved, id)
    BY DEF Late
  <2>2. overtaken[id] \in Nat
    BY <1>2
  <2>3. Cardinality(Recent(config, cv, resting', id, 0)) \in Nat
    BY RecentFew
  <2>4. overtaken'[id] = IF id \in Served(work) THEN 0
                         ELSE IF id \in work.passed THEN overtaken[id] + 1 ELSE overtaken[id]
    BY <1>1
  <2>5. CASE overtaken'[id] = 0
    <3>1. 0 \in Nat /\ overtaken'[id] <= 0 /\ 0 <= Cardinality(Recent(config, cv, resting', id, 0))
      BY <2>3, <2>5
    <3> QED
      BY <3>1
  <2>6. CASE id \notin Served(work) /\ Free(config) /\ InShared(config, Shelved, id)
    <3>1. InShared(config, t, id) /\ a + 1 <= Cardinality(Recent(config, cv, resting', id, a + 1))
      BY <2>1, <2>6, PassedOver DEF work, t, cv
    <3>2. overtaken'[id] <= a + 1 /\ a + 1 \in Nat
      BY <2>1, <2>2, <2>4, <2>6
    <3> QED
      BY <2>6, <3>1, <3>2
  <2>7. CASE id \notin Served(work) /\ ~ (Free(config) /\ InShared(config, Shelved, id))
    <3>1. a = 0 /\ id \notin work.passed
      BY <1>3, <2>1, <2>7
    <3>2. overtaken'[id] = 0
      BY <2>1, <2>2, <2>4, <2>7, <3>1
    <3> QED
      BY <2>5, <3>2
  <2>8. id \in Served(work) => overtaken'[id] = 0
    BY <2>4
  <2> QED
    BY <2>5, <2>6, <2>7, <2>8
<1>5. Late'
  BY <1>1, <1>4 DEF Late, Racked, Shelved, cv, t
<1>6. ASSUME NEW id \in Requestors, resting'[id] > 0
      PROVE  pending'[id] = NoRequest
  <2>1. \/ resting'[id] = Rested[id] /\ pending'[id] = pending[id]
        \/ resting'[id] = Turnaround /\ pending'[id] = NoRequest
    BY StepRests
  <2>2. CASE resting'[id] = Rested[id] /\ pending'[id] = pending[id]
    <3>1. resting[id] > 0
      BY <1>2, <1>6, <2>2 DEF Rested
    <3> QED
      BY <2>2, <3>1 DEF Idle
  <2> QED
    BY <2>1, <2>2
<1> QED
  BY <1>5, <1>6 DEF Idle

\* A request that is added takes no other out of a shared buffer.
LEMMA SharedLonger ==
  ASSUME NEW c, NEW v, \A g \in Stacks(c) : v[g] \in Seq(Requests(c)),
         NEW w, NEW n, NEW req, req \in Requests(c), Given(c, v, w, n, req),
         NEW id, InShared(c, v, id)
  PROVE  InShared(c, w, id)
<1>1. PICK g \in Stacks(c) : g[2] = <<"general", 0>> /\ \E i \in DOMAIN v[g] : v[g][i].id = id
  BY DEF InShared
<1>2. PICK i \in DOMAIN v[g] : v[g][i].id = id
  BY <1>1
<1>3. w[g] = v[g] \/ w[g] = Append(v[g], req)
  BY DEF Given
<1>4. i \in DOMAIN w[g] /\ w[g][i] = v[g][i]
  <2>1. v[g] \in Seq(Requests(c)) /\ i \in 1 .. Len(v[g])
    BY <1>2
  <2>2. \A s \in Seq(Requests(c)) : \A k \in 1 .. Len(s) :
          k \in DOMAIN Append(s, req) /\ Append(s, req)[k] = s[k]
    OBVIOUS
  <2> QED
    BY <1>2, <1>3, <2>1, <2>2
<1> QED
  BY <1>1, <1>2, <1>4 DEF InShared

\* The first state has no overtaking.
LEMMA InitLate ==
  ASSUME Init
  PROVE  Late /\ Idle
<1>1. resting = [id \in Requestors |-> 0] /\ overtaken = [id \in Requestors |-> 0]
  BY DEF Init
<1>2. ASSUME NEW id \in Requestors
      PROVE  \E a \in Nat : /\ overtaken[id] <= a
                            /\ a <= Cardinality(Recent(config, Racked, resting, id, a))
                            /\ a > 0 => Free(config) /\ InShared(config, Shelved, id)
  <2>1. Cardinality(Recent(config, Racked, resting, id, 0)) \in Nat
    BY RecentFew
  <2>2. 0 \in Nat /\ overtaken[id] <= 0 /\ 0 <= Cardinality(Recent(config, Racked, resting, id, 0))
    BY <1>1, <2>1
  <2> QED
    BY <2>2
<1>3. Idle
  BY <1>1 DEF Idle
<1> QED
  BY <1>2, <1>3 DEF Late

\* A request that is added is overtaken by nobody yet.
LEMMA AddLate ==
  ASSUME Types, Late, Idle, Fits(config), NEW id \in Requestors, NEW line \in config.lines,
         AddRequest(id, line)
  PROVE  Late' /\ Idle'
<1> DEFINE req == [id |-> id, type |-> line.type, at |-> LocationOf(id, line.addr)]
           q == DecodeQueue(memTable, config.file.reqMap, LocationOf(id, line.addr))
           new == [requestQueue EXCEPT ![q] = Q!InsertRequest(requestQueue[q], config.file, req)]
           t == RequestLists(config, new)
<1>1. /\ config' = config /\ resting' = resting /\ commandQueue' = commandQueue
      /\ overtaken' = overtaken /\ line.id = id /\ resting[id] = 0
      /\ pending' = [pending EXCEPT ![id] = req] /\ requestQueue' = new
  BY DEF AddRequest
<1>2. config \in Configurations /\ requestQueue \in RequestStores(config)
      /\ pending \in [Requestors -> Requests(config) \cup {NoRequest}]
  BY DEF Types
<1>3. req \in Requests(config) /\ q = RequestHome(config, req)
  <2>1. LocationOf(id, line.addr) = At(config, line)
    BY <1>1 DEF LocationOf, At, memTable
  <2> QED
    BY <1>1, <2>1 DEF Requests, RequestHome, memTable
<1> HIDE DEF req, q
<1>4. PICK n : Given(config, Shelved, t, n, req)
  BY <1>2, <1>3, RequestGiven DEF Shelved
<1> HIDE DEF new
<1>5. \A g \in Stacks(config) : Shelved[g] \in Seq(Requests(config))
  BY <1>2, StacksHold DEF Shelved
<1> HIDE DEF t
<1>6. \A k : InShared(config, Shelved, k) => InShared(config, t, k)
  BY <1>3, <1>4, <1>5, SharedLonger
<1>7. Late'
  <2>1. Shelved' = t /\ Racked' = Racked
    BY <1>1 DEF Shelved, Racked, t
  <2>2. ASSUME NEW k \in Requestors
        PROVE  \E a \in Nat : /\ overtaken[k] <= a
                              /\ a <= Cardinality(Recent(config, Racked, resting, k, a))
                              /\ a > 0 => Free(config) /\ InShared(config, t, k)
    BY <1>6 DEF Late
  <2> QED
    BY <1>1, <2>1, <2>2 DEF Late
<1>8. Idle'
  <2>1. ASSUME NEW k \in Requestors, resting[k] > 0
        PROVE  pending'[k] = NoRequest
    <3>1. k # id /\ pending[k] = NoRequest
      BY <1>1, <2>1 DEF Idle
    <3> QED
      BY <1>1, <1>2, <3>1
  <2> QED
    BY <1>1, <2>1 DEF Idle
<1> QED
  BY <1>7, <1>8

\* Every step keeps the account of who was served.
LEMMA NextLate ==
  ASSUME \A c \in Configurations : Fits(c) /\ OneQueueForRR(c) /\ OneQueueForRound(c),
         Types, OnTheWay, Late, Idle, [Next]_vars
  PROVE  Late' /\ Idle'
<1>1. Fits(config) /\ OneQueueForRR(config) /\ OneQueueForRound(config)
  BY DEF Types
<1>2. CASE /\ config' = config /\ pending' = pending /\ resting' = resting
           /\ requestQueue' = requestQueue /\ commandQueue' = commandQueue /\ overtaken' = overtaken
  BY <1>2 DEF Late, Idle, Shelved, Racked
<1>3. CASE UNCHANGED vars
  BY <1>2, <1>3 DEF vars
<1>4. ASSUME NEW id \in Requestors, Compute(id)
      PROVE  Late' /\ Idle'
  BY <1>2, <1>4 DEF Compute
<1>5. ASSUME NEW id \in Requestors, NEW line \in config.lines, AddRequest(id, line)
      PROVE  Late' /\ Idle'
  BY <1>1, <1>5, AddLate
<1>6. CASE Step
  BY <1>1, <1>6, StepLate
<1> QED
  BY <1>3, <1>4, <1>5, <1>6 DEF Next

\* The account is a limit.
LEMMA LateLimits ==
  ASSUME Types, Late
  PROVE  OvertakenOnceByEach
<1>1. ASSUME NEW id \in Requestors
      PROVE  overtaken[id] <= NumRequestors - 1
  <2>1. PICK a \in Nat : /\ overtaken[id] <= a
                         /\ a <= Cardinality(Recent(config, Racked, resting, id, a))
    BY DEF Late
  <2> DEFINE s == Cardinality(Recent(config, Racked, resting, id, a))
  <2>2. s \in Nat /\ s <= NumRequestors - 1
    BY RecentFew
  <2>3. overtaken[id] \in Nat /\ NumRequestors \in Nat
    BY FrontEndAssumption DEF Types
  <2>4. overtaken[id] <= a /\ a <= s
    BY <2>1
  <2> HIDE DEF s
  <2> QED
    BY <2>1, <2>2, <2>3, <2>4
<1> QED
  BY <1>1 DEF OvertakenOnceByEach

\* OvertakenOnceByEach: a hit may pass older requests of a shared queue, and there
\* is no limit in scheduleFR; a request is passed by fewer than there are
\* requestors all the same, because each waits for its answer.
THEOREM OvertakenOnceByEachAlways ==
  ASSUME \A c \in Configurations : Fits(c) /\ OneQueueForRR(c) /\ OneQueueForRound(c)
  PROVE  Spec => []OvertakenOnceByEach
<1> DEFINE Inv == Types /\ OnTheWay /\ Late /\ Idle
<1>1. Init => Inv
  <2> HAVE Init
  <2>1. Fits(config)
    BY DEF Init
  <2> QED
    BY <2>1, InitKeeps, InitLate
<1>2. Inv /\ [Next]_vars => Inv'
  BY NextKeeps, NextLate
<1>3. Inv => OvertakenOnceByEach
  BY LateLimits
<1> QED
  BY <1>1, <1>2, <1>3, PTL DEF Spec

-----------------------------------------------------------------------------
(* Rows.                                                                   *)

\* A command that opens or closes a row of bank p, and the row it leaves open.
Opener(cmd, p) == ~ IsAccess(cmd) /\ Place(cmd.at) = p
RowLeft(cmd)   == IF cmd.type = "PRE" THEN NoRow ELSE cmd.at.Row

\* The first n commands of a list leave row r of bank p open, where op was.
Leaves(op, list, n, p, r) ==
  \/ r = op[p] /\ \A j \in 1 .. n : ~ Opener(list[j], p)
  \/ \E j \in 1 .. n : /\ Opener(list[j], p) /\ r = RowLeft(list[j])
                       /\ \A k \in j + 1 .. n : ~ Opener(list[k], p)

\* The accesses of a list find their rows.
Found(op, list) ==
  \A i \in DOMAIN list :
    IsAccess(list[i]) => Leaves(op, list, i - 1, Place(list[i].at), list[i].at.Row)

\* The buffer for the commands of a line, and what is in it leaves row r open.
HomeOfLine(c, line) == HomeOf(c, [id |-> line.id, at |-> At(c, line)])
Ahead(c, op, v, line, r) ==
  Leaves(op, v[HomeOfLine(c, line)], Len(v[HomeOfLine(c, line)]), Place(At(c, line)), r)

\* A command is for a line of its requestor.
Asked(c, cmd) == \E line \in c.lines : cmd.id = line.id /\ cmd.at = At(c, line)

\* The commands in the buffers are in their own and find their rows.
Finding(c, op, v) ==
  /\ AtHome(c, v)
  /\ \A h \in Lists(c) : Found(op, v[h]) /\ \A i \in DOMAIN v[h] : Asked(c, v[h][i])

\* The row table says what the commands in the buffers leave open.
TableAhead(c, op, v, table) ==
  \A line \in c.lines : Ahead(c, op, v, line, table[Place(At(c, line))])

\* The levels of the queue map are numbers.
Numbered(at) == \A level \in ToSet(QueueLevels) : at[level] \in Nat

\* What decodeQueue makes of a location, by way of g.
Decoding(mt, map, at, g) ==
  LET m == Min(Marked(map))
  IN /\ Combining(at, g, m - 1)
     /\ DecodeQueue(mt, map, at) = at[QueueLevels[m]] + g[m - 1] * mt[QueueLevels[m]]

\* decodeQueue combines the levels above the marked one.
LEMMA Decoded ==
  ASSUME NEW mt, NEW at, Numbered(at), NEW map, Marked(map) # {}, Marked(map) \subseteq 1 .. 4
  PROVE  \E g : Decoding(mt, map, at, g)
<1> DEFINE m == Min(Marked(map))
<1>1. m \in 1 .. 4 /\ m - 1 \in 0 .. 3
  BY MarkedLevel
<1>2. \A level \in ToSet(QueueLevels) : at[level] \in Nat
  BY DEF Numbered
<1>3. PICK g : /\ Combining(at, g, m - 1)
               /\ DecodeQueue(mt, map, at) = at[QueueLevels[m]] + g[m - 1] * mt[QueueLevels[m]]
  BY <1>1, <1>2, DecodeCombines
<1> QED
  BY <1>3 DEF Decoding

\* decodeQueue reads nothing but the levels of the queue map.
LEMMA SameQueue ==
  ASSUME NEW mt, NEW map, Marked(map) \subseteq 1 .. 4,
         NEW at1, NEW at2, \A level \in ToSet(QueueLevels) : at1[level] \in Nat /\ at1[level] = at2[level]
  PROVE  DecodeQueue(mt, map, at1) = DecodeQueue(mt, map, at2)
<1>1. CASE Marked(map) = {}
  BY <1>1, Zenon DEF DecodeQueue
<1>2. CASE Marked(map) # {}
  <2> DEFINE m == Min(Marked(map))
  <2>1. m \in 1 .. 4 /\ m - 1 \in 0 .. 3
    BY <1>2, MarkedLevel
  <2>2. PICK f : Decoding(mt, map, at1, f)
    BY <1>2, Decoded DEF Numbered
  <2>3. PICK g : Decoding(mt, map, at2, g)
    <3>1. Numbered(at2)
      BY DEF Numbered
    <3> QED
      BY <1>2, <3>1, Decoded
  <2>4. \A k \in 1 .. 4 : QueueLevels[k] \in ToSet(QueueLevels)
    <3>1. \A k \in 1 .. 4 : k = 1 \/ k = 2 \/ k = 3 \/ k = 4
      OBVIOUS
    <3> QED
      BY <3>1, LevelNames
  <2> HIDE DEF m
  <2>5. \A k \in 1 .. 4 : at1[QueueLevels[k]] = at2[QueueLevels[k]]
    BY <2>4
  <2> DEFINE S == {k \in 0 .. m - 1 : f[k] = g[k]}
  <2>6. 0 \in S
    BY <2>1, <2>2, <2>3 DEF Decoding, Combining, m
  <2>7. ASSUME NEW k \in 1 .. m - 1, k - 1 \in S
        PROVE  k \in S
    <3>1. k \in 1 .. 4 /\ k \in 0 .. m - 1
      BY <2>1
    <3>2. f[k - 1] = g[k - 1] /\ at1[QueueLevels[k]] = at2[QueueLevels[k]]
      BY <2>5, <2>7, <3>1
    <3>3. f[k] = Combined(f[k - 1], at1[QueueLevels[k]]) /\ g[k] = Combined(g[k - 1], at2[QueueLevels[k]])
      BY <2>2, <2>3 DEF Decoding, Combining, m
    <3> QED
      BY <3>1, <3>2, <3>3
  <2> HIDE DEF S
  <2>8. m - 1 \in S
    <3>1. m - 1 \in Nat
      BY <2>1
    <3>2. 0 .. m - 1 \subseteq S
      BY <2>6, <2>7, <3>1, UpTo
    <3> QED
      BY <3>1, <3>2
  <2> QED
    BY <2>1, <2>2, <2>3, <2>5, <2>8 DEF S, m, Decoding
<1> QED
  BY <1>1, <1>2

\* The commands for a bank have one buffer.
LEMMA HomeByPlace ==
  ASSUME NEW c \in Configurations, Fits(c), SharedBanks(c),
         NEW cmd1, Asked(c, cmd1), NEW cmd2, Asked(c, cmd2), Place(cmd1.at) = Place(cmd2.at)
  PROVE  HomeOf(c, cmd1) = HomeOf(c, cmd2)
<1>1. PICK l1 \in c.lines : cmd1.id = l1.id /\ cmd1.at = At(c, l1)
  BY DEF Asked
<1>2. PICK l2 \in c.lines : cmd2.id = l2.id /\ cmd2.at = At(c, l2)
  BY DEF Asked
<1>3. IF c.file.perRequestorCommands THEN cmd1.id = cmd2.id
      ELSE cmd1.id \in c.critical <=> cmd2.id \in c.critical
  BY <1>1, <1>2 DEF SharedBanks, At
<1>4. CommandHome(c, cmd1) = CommandHome(c, cmd2)
  <2> DEFINE at1 == [cmd1.at EXCEPT !.BankGroup = 0, !.SubArray = 0]
             at2 == [cmd2.at EXCEPT !.BankGroup = 0, !.SubArray = 0]
             names == ToSet(Levels)
  <2>1. Inside(c, cmd1.at) /\ Inside(c, cmd2.at)
    BY <1>1, <1>2, LinesInside
  <2>2. names = {"Rank", "BankGroup", "Bank", "SubArray", "Row", "Column"}
        /\ ToSet(QueueLevels) = {"Rank", "BankGroup", "Bank", "SubArray"}
    BY LevelNames
  <2>3. cmd1.at \in [names -> Nat] /\ cmd2.at \in [names -> Nat]
    BY <2>1 DEF Inside
  <2>4. cmd1.at.Rank = cmd2.at.Rank /\ cmd1.at.Bank = cmd2.at.Bank
    BY DEF Place
  <2> HIDE DEF names
  <2>5. \A level \in ToSet(QueueLevels) : at1[level] \in Nat /\ at1[level] = at2[level]
    BY <2>2, <2>3, <2>4
  <2> HIDE DEF at1, at2
  <2>6. Marked(c.file.cmdMap) \subseteq 1 .. 4
    BY DEF Fits
  <2>7. DecodeQueue(c.memTable, c.file.cmdMap, at1) = DecodeQueue(c.memTable, c.file.cmdMap, at2)
    BY <2>5, <2>6, SameQueue
  <2> QED
    BY <2>7, Zenon DEF CommandHome, at1, at2
<1> QED
  BY <1>3, <1>4 DEF HomeOf

\* What a list of commands leaves does not depend on what follows.
LEMMA LeavesLonger ==
  ASSUME NEW S, NEW list \in Seq(S), NEW cmd \in S, NEW op, NEW n \in 0 .. Len(list), NEW p, NEW r
  PROVE  Leaves(op, Append(list, cmd), n, p, r) <=> Leaves(op, list, n, p, r)
<1> DEFINE l == Append(list, cmd)
<1>1. n \in Nat /\ \A j \in 1 .. n : l[j] = list[j]
  OBVIOUS
<1> HIDE DEF l
<1>2. \A j \in 1 .. n : \A k \in j + 1 .. n : k \in 1 .. n
  BY <1>1
<1> QED
  BY <1>1, <1>2 DEF Leaves, l

\* What one more command leaves.
LEMMA LeavesNext ==
  ASSUME NEW S, NEW list \in Seq(S), NEW cmd \in S, NEW op, NEW p, NEW r
  PROVE  /\ ~ Opener(cmd, p) /\ Leaves(op, list, Len(list), p, r) =>
              Leaves(op, Append(list, cmd), Len(Append(list, cmd)), p, r)
         /\ Opener(cmd, p) =>
              Leaves(op, Append(list, cmd), Len(Append(list, cmd)), p, RowLeft(cmd))
<1> DEFINE l == Append(list, cmd)
           n == Len(list)
           m == Len(l)
<1>1. n \in Nat /\ m = n + 1 /\ l[m] = cmd /\ \A j \in 1 .. n : l[j] = list[j]
  OBVIOUS
<1> HIDE DEF l, n, m
<1>2. \A j \in 1 .. m : j \in 1 .. n \/ j = m
  BY <1>1
<1>3. ASSUME ~ Opener(cmd, p), Leaves(op, list, n, p, r)
      PROVE  Leaves(op, l, m, p, r)
  <2>1. CASE r = op[p] /\ \A j \in 1 .. n : ~ Opener(list[j], p)
    BY <1>1, <1>2, <1>3, <2>1 DEF Leaves
  <2>2. ASSUME NEW j \in 1 .. n, Opener(list[j], p), r = RowLeft(list[j]),
               \A k \in j + 1 .. n : ~ Opener(list[k], p)
        PROVE  Leaves(op, l, m, p, r)
    <3>1. j \in 1 .. m /\ Opener(l[j], p) /\ r = RowLeft(l[j])
      BY <1>1, <2>2
    <3>2. \A k \in j + 1 .. m : ~ Opener(l[k], p)
      <4>1. \A k \in j + 1 .. m : k = m \/ (k \in j + 1 .. n /\ k \in 1 .. n)
        BY <1>1
      <4> QED
        BY <1>1, <1>3, <2>2, <4>1
    <3> QED
      BY <3>1, <3>2 DEF Leaves
  <2> QED
    BY <1>3, <2>1, <2>2 DEF Leaves
<1>4. ASSUME Opener(cmd, p)
      PROVE  Leaves(op, l, m, p, RowLeft(cmd))
  <2>1. m \in 1 .. m /\ \A k \in m + 1 .. m : FALSE
    BY <1>1
  <2> QED
    BY <1>1, <1>4, <2>1 DEF Leaves
<1> QED
  BY <1>3, <1>4 DEF l, n, m

\* One more command is enqueued, which finds its row.
LEMMA FindingMore ==
  ASSUME NEW c \in Configurations, Fits(c), SharedBanks(c), NEW op,
         NEW v, \A h \in Lists(c) : v[h] \in Seq(Packets(c)), Finding(c, op, v),
         NEW cmd \in Packets(c), Asked(c, cmd),
         NEW w, \A h \in Lists(c) :
                  w[h] = IF h = HomeOf(c, cmd) THEN Append(v[h], cmd) ELSE v[h],
         IsAccess(cmd) =>
           Leaves(op, v[HomeOf(c, cmd)], Len(v[HomeOf(c, cmd)]), Place(cmd.at), cmd.at.Row)
  PROVE  Finding(c, op, w)
<1> DEFINE e == HomeOf(c, cmd)
           list == v[e]
           more == Append(list, cmd)
<1>1. e \in Lists(c) /\ list \in Seq(Packets(c)) /\ w[e] = more /\ \A h \in Lists(c) : h # e => w[h] = v[h]
  BY HomeListed
<1>2. /\ Found(op, list) /\ \A i \in DOMAIN list : Asked(c, list[i]) /\ HomeOf(c, list[i]) = e
      /\ IsAccess(cmd) => Leaves(op, list, Len(list), Place(cmd.at), cmd.at.Row)
  BY <1>1 DEF Finding, AtHome
<1>3. HomeOf(c, cmd) = e
  OBVIOUS
<1> HIDE DEF e, list
<1>4. /\ DOMAIN more = 1 .. Len(list) + 1 /\ Len(list) \in Nat /\ DOMAIN list = 1 .. Len(list)
      /\ \A i \in 1 .. Len(list) : more[i] = list[i]
      /\ more[Len(list) + 1] = cmd
  BY <1>1
<1>5. \A i \in DOMAIN more : i \in DOMAIN list \/ i = Len(list) + 1
  BY <1>4
<1>6. \A n \in 0 .. Len(list) : \A p, r : Leaves(op, list, n, p, r) => Leaves(op, more, n, p, r)
  BY <1>1, LeavesLonger
<1> HIDE DEF more
<1>7. Found(op, more)
  <2>1. ASSUME NEW i \in DOMAIN more, IsAccess(more[i])
        PROVE  Leaves(op, more, i - 1, Place(more[i].at), more[i].at.Row)
    <3>1. CASE i \in DOMAIN list
      <4>1. more[i] = list[i] /\ i - 1 \in 0 .. Len(list)
        BY <1>4, <3>1
      <4>2. Leaves(op, list, i - 1, Place(list[i].at), list[i].at.Row)
        BY <1>2, <2>1, <3>1, <4>1 DEF Found
      <4> QED
        BY <1>6, <4>1, <4>2
    <3>2. CASE i = Len(list) + 1
      <4>1. more[i] = cmd /\ i - 1 = Len(list) /\ Len(list) \in 0 .. Len(list)
        BY <1>4, <3>2
      <4>2. Leaves(op, list, Len(list), Place(cmd.at), cmd.at.Row)
        BY <1>2, <2>1, <4>1
      <4> QED
        BY <1>6, <4>1, <4>2
    <3> QED
      BY <1>5, <3>1, <3>2
  <2> QED
    BY <2>1 DEF Found
<1>8. \A i \in DOMAIN more : Asked(c, more[i]) /\ HomeOf(c, more[i]) = e
  BY <1>2, <1>3, <1>4, <1>5
<1>9. AtHome(c, w)
  BY <1>1, <1>8 DEF AtHome, Finding
<1> QED
  BY <1>1, <1>7, <1>8, <1>9 DEF Finding

\* What the buffers leave open when one more command is enqueued.
LEMMA AheadMore ==
  ASSUME NEW c \in Configurations, Fits(c), SharedBanks(c), NEW op,
         NEW v, \A h \in Lists(c) : v[h] \in Seq(Packets(c)),
         NEW cmd \in Packets(c), Asked(c, cmd),
         NEW w, \A h \in Lists(c) :
                  w[h] = IF h = HomeOf(c, cmd) THEN Append(v[h], cmd) ELSE v[h],
         NEW line \in c.lines, NEW r
  PROVE  /\ ~ Opener(cmd, Place(At(c, line))) /\ Ahead(c, op, v, line, r) => Ahead(c, op, w, line, r)
         /\ Opener(cmd, Place(At(c, line))) => Ahead(c, op, w, line, RowLeft(cmd))
<1> DEFINE e == HomeOf(c, cmd)
           g == HomeOfLine(c, line)
           p == Place(At(c, line))
           first == [type |-> "PRE", id |-> line.id, at |-> At(c, line)]
<1>1. /\ first \in Packets(c) /\ HomeOf(c, first) = g /\ Asked(c, first) /\ first.at = At(c, line)
  <2>1. line.id \in Requestors
    BY FrontEndAssumption
  <2> QED
    BY <2>1 DEF Packets, CommandTypes, HomeOf, HomeOfLine, CommandHome, Asked
<1> HIDE DEF first
<1>2. e \in Lists(c) /\ g \in Lists(c)
  BY <1>1, HomeListed
<1>3. Opener(cmd, p) => e = g
  BY <1>1, HomeByPlace DEF Opener
<1>4. v[e] \in Seq(Packets(c)) /\ w[e] = Append(v[e], cmd) /\ (g # e => w[g] = v[g])
  BY <1>2
<1> HIDE DEF e, g
<1>5. CASE e # g
  BY <1>3, <1>4, <1>5 DEF Ahead, g
<1>6. CASE e = g
  <2>1. /\ ~ Opener(cmd, p) /\ Leaves(op, v[e], Len(v[e]), p, r) => Leaves(op, w[e], Len(w[e]), p, r)
        /\ Opener(cmd, p) => Leaves(op, w[e], Len(w[e]), p, RowLeft(cmd))
    BY <1>4, LeavesNext
  <2> QED
    BY <1>6, <2>1 DEF Ahead, g
<1> QED
  BY <1>5, <1>6

\* The commands of two lists are enqueued one after the other.
LEMMA EnqueuedOn ==
  ASSUME config \in Configurations, Fits(config), NEW cq \in CommandStores(config),
         NEW a \in Seq(Packets(config)), NEW b \in Seq(Packets(config))
  PROVE  \E g : /\ g \in [0 .. Len(b) -> CommandStores(config)] /\ g[0] = Enqueued(cq, a)
                /\ g[Len(b)] = Enqueued(cq, a \o b)
                /\ \A k \in 1 .. Len(b) : g[k] = EnqueueCommand(g[k - 1], b[k])
<1> DEFINE l == a \o b
           m == Len(a)
           n == Len(b)
           W == CommandStores(config)
<1>1. /\ l \in Seq(Packets(config)) /\ m \in Nat /\ n \in Nat /\ Len(l) = m + n
      /\ \A k \in 1 .. m : l[k] = a[k]
      /\ \A k \in 1 .. n : l[m + k] = b[k]
  OBVIOUS
<1>2. PICK e : /\ e \in [0 .. m -> W] /\ e[0] = cq /\ e[m] = Enqueued(cq, a)
               /\ \A k \in 1 .. m : e[k] = EnqueueCommand(e[k - 1], a[k])
  BY EnqueueSteps
<1> HIDE DEF l
<1>3. PICK f : /\ f \in [0 .. Len(l) -> W] /\ f[0] = cq /\ f[Len(l)] = Enqueued(cq, l)
               /\ \A k \in 1 .. Len(l) : f[k] = EnqueueCommand(f[k - 1], l[k])
  <2>1. l \in Seq(Packets(config))
    BY <1>1
  <2> QED
    BY <2>1, EnqueueSteps
<1> HIDE DEF m, n, W
<1> DEFINE S == {k \in 0 .. m : f[k] = e[k]}
<1>4. 0 \in S
  BY <1>1, <1>2, <1>3
<1>5. ASSUME NEW k \in 1 .. m, k - 1 \in S
      PROVE  k \in S
  <2>1. k \in 0 .. m /\ k \in 1 .. Len(l)
    BY <1>1
  <2>2. f[k - 1] = e[k - 1] /\ l[k] = a[k]
    BY <1>1, <1>5
  <2> QED
    BY <1>2, <1>3, <2>1, <2>2
<1>6. m \in S
  <2> HIDE DEF S
  <2>1. 0 .. m \subseteq S
    BY <1>1, <1>4, <1>5, UpTo
  <2> QED
    BY <1>1, <2>1
<1> DEFINE g == [k \in 0 .. n |-> f[m + k]]
<1>7. g \in [0 .. n -> W]
  BY <1>1, <1>3
<1>8. g[0] = Enqueued(cq, a) /\ g[n] = Enqueued(cq, l)
  BY <1>1, <1>2, <1>3, <1>6
<1>9. ASSUME NEW k \in 1 .. n
      PROVE  g[k] = EnqueueCommand(g[k - 1], b[k])
  <2>1. k \in 0 .. n /\ k - 1 \in 0 .. n /\ m + k \in 1 .. Len(l) /\ (m + k) - 1 = m + (k - 1)
    BY <1>1
  <2>2. f[m + k] = EnqueueCommand(f[m + (k - 1)], l[m + k]) /\ l[m + k] = b[k]
    BY <1>1, <1>3, <2>1
  <2> QED
    BY <2>1, <2>2
<1> QED
  BY <1>7, <1>8, <1>9 DEF l, n, W

\* What the commands of one request do to the rows: other banks are left alone, its
\* own has its row open, if that was so or if it has a PRE and an ACT.
RowsKept(c, op, v, w, req) ==
  /\ Finding(c, op, w)
  /\ \A line \in c.lines : \A r :
       Place(At(c, line)) # Place(req.at) /\ Ahead(c, op, v, line, r) => Ahead(c, op, w, line, r)
OwnRow(c, op, v, req) ==
  \A line \in c.lines : Place(At(c, line)) = Place(req.at) => Ahead(c, op, v, line, req.at.Row)

\* One command of a request.
LEMMA RowsStep ==
  ASSUME NEW c \in Configurations, Fits(c), SharedBanks(c), NEW op, NEW req \in Requests(c),
         NEW z, NEW v, \A h \in Lists(c) : v[h] \in Seq(Packets(c)), RowsKept(c, op, z, v, req),
         NEW cmd \in Packets(c), cmd.id = req.id, cmd.at = req.at,
         NEW w, \A h \in Lists(c) :
                  w[h] = IF h = HomeOf(c, cmd) THEN Append(v[h], cmd) ELSE v[h],
         IsAccess(cmd) => OwnRow(c, op, v, req)
  PROVE  /\ RowsKept(c, op, z, w, req)
         /\ IsAccess(cmd) \/ (cmd.type # "PRE") => OwnRow(c, op, w, req)
<1>1. PICK own \in c.lines : req = [id |-> own.id, type |-> own.type, at |-> At(c, own)]
  BY DEF Requests
<1>2. req.id = own.id /\ req.at = At(c, own)
  BY <1>1
<1>3. Asked(c, cmd) /\ HomeOf(c, cmd) = HomeOfLine(c, own)
  BY <1>2 DEF Asked, HomeOf, HomeOfLine, CommandHome
<1>4. IsAccess(cmd) =>
        Leaves(op, v[HomeOf(c, cmd)], Len(v[HomeOf(c, cmd)]), Place(cmd.at), cmd.at.Row)
  BY <1>2, <1>3 DEF OwnRow, Ahead
<1>5. Finding(c, op, v)
  BY DEF RowsKept
<1>6. Finding(c, op, w)
  BY <1>3, <1>4, <1>5, FindingMore
<1>7. \A line \in c.lines : \A r :
        /\ ~ Opener(cmd, Place(At(c, line))) /\ Ahead(c, op, v, line, r) => Ahead(c, op, w, line, r)
        /\ Opener(cmd, Place(At(c, line))) => Ahead(c, op, w, line, RowLeft(cmd))
  <2> TAKE line \in c.lines
  <2> TAKE r
  <2> QED
    BY <1>3, AheadMore
<1>8. RowsKept(c, op, z, w, req)
  <2>1. \A line \in c.lines : Place(At(c, line)) # Place(req.at) => ~ Opener(cmd, Place(At(c, line)))
    BY DEF Opener
  <2> QED
    BY <1>6, <1>7, <2>1 DEF RowsKept
<1>9. ASSUME IsAccess(cmd) \/ cmd.type # "PRE", NEW line \in c.lines, Place(At(c, line)) = Place(req.at)
      PROVE  Ahead(c, op, w, line, req.at.Row)
  <2>1. CASE IsAccess(cmd)
    <3>1. ~ Opener(cmd, Place(At(c, line))) /\ Ahead(c, op, v, line, req.at.Row)
      BY <1>9, <2>1 DEF Opener, OwnRow
    <3> QED
      BY <1>7, <3>1
  <2>2. CASE ~ IsAccess(cmd)
    <3>1. Opener(cmd, Place(At(c, line))) /\ RowLeft(cmd) = req.at.Row
      BY <1>9, <2>2 DEF Opener, RowLeft
    <3> QED
      BY <1>7, <3>1
  <2> QED
    BY <2>1, <2>2
<1> QED
  BY <1>8, <1>9 DEF OwnRow

\* All commands of a request.
LEMMA RowsTranslated ==
  ASSUME config \in Configurations, Fits(config), SharedBanks(config), NEW op,
         NEW cq \in CommandStores(config), NEW a \in Seq(Packets(config)),
         NEW req \in Requests(config), NEW open \in BOOLEAN,
         NEW more \in Seq(Packets(config)), Generated(more, req, open),
         Finding(config, op, CommandLists(config, Enqueued(cq, a))),
         open => OwnRow(config, op, CommandLists(config, Enqueued(cq, a)), req)
  PROVE  /\ RowsKept(config, op, CommandLists(config, Enqueued(cq, a)),
                     CommandLists(config, Enqueued(cq, a \o more)), req)
         /\ OwnRow(config, op, CommandLists(config, Enqueued(cq, a \o more)), req)
<1> DEFINE n == Len(more)
           W == CommandStores(config)
<1>1. PICK g : /\ g \in [0 .. n -> W] /\ g[0] = Enqueued(cq, a) /\ g[n] = Enqueued(cq, a \o more)
               /\ \A k \in 1 .. n : g[k] = EnqueueCommand(g[k - 1], more[k])
  BY EnqueuedOn
<1>2. /\ n \in Nat /\ DOMAIN more = 1 .. n /\ \A k \in 1 .. n : more[k] \in Packets(config)
  OBVIOUS
<1>3. /\ \A k \in 1 .. n : more[k].id = req.id /\ more[k].at = req.at
      /\ \A k \in 1 .. n : (open \/ k > 2) <=> IsAccess(more[k])
      /\ ~ open => more[2].type # "PRE"
      /\ n > 0 /\ (~ open => n > 2)
  <2>1. n = (IF open THEN 0 ELSE 2) + BurstsPerRequest
    BY DEF Generated
  <2>2. n > 0 /\ (~ open => n > 2)
    BY <1>2, <2>1, FrontEndAssumption
  <2>3. \A k \in DOMAIN more : more[k].id = req.id /\ more[k].at = req.at
    BY DEF Generated
  <2>4. \A k \in DOMAIN more : (open \/ k > 2) <=> IsAccess(more[k])
    BY DEF Generated
  <2>5. ~ open => more[2].type # "PRE"
    BY DEF Generated
  <2> HIDE DEF n
  <2> QED
    BY <1>2, <2>2, <2>3, <2>4, <2>5
<1> HIDE DEF n, W
<1> DEFINE view(k) == CommandLists(config, g[k])
           S == {k \in 0 .. n : /\ RowsKept(config, op, view(0), view(k), req)
                                /\ open \/ k > 1 => OwnRow(config, op, view(k), req)}
<1>4. 0 \in S
  BY <1>1, <1>2 DEF RowsKept
<1>5. ASSUME NEW k \in 1 .. n, k - 1 \in S
      PROVE  k \in S
  <2> DEFINE cmd == more[k]
             v == view(k - 1)
             w == view(k)
  <2>1. k - 1 \in 0 .. n /\ k \in 0 .. n
    BY <1>2
  <2>2. /\ g[k - 1] \in W /\ cmd \in Packets(config) /\ g[k] = EnqueueCommand(g[k - 1], cmd)
        /\ cmd.id = req.id /\ cmd.at = req.at
    BY <1>1, <1>2, <1>3, <2>1
  <2>3. \A h \in Lists(config) : v[h] \in Seq(Packets(config))
    BY <2>2, ListsHold DEF W
  <2>4. \A h \in Lists(config) : w[h] = IF h = HomeOf(config, cmd) THEN Append(v[h], cmd) ELSE v[h]
    <3>1. /\ g[k - 1] \in [CommandQueueNumbers(config) -> CommandQueues(config)]
          /\ cmd \in Packets(config) /\ g[k] = EnqueueCommand(g[k - 1], cmd)
      BY <2>2 DEF W, CommandStores
    <3> QED
      BY <3>1, EnqueueOne
  <2>5. RowsKept(config, op, view(0), v, req) /\ (open \/ k - 1 > 1 => OwnRow(config, op, v, req))
    BY <1>5
  <2>6. IsAccess(cmd) => OwnRow(config, op, v, req)
    BY <1>2, <1>3, <2>5
  <2>7. open \/ k > 1 => IsAccess(cmd) \/ cmd.type # "PRE"
    <3>1. k = 2 \/ k > 2 \/ ~ (k > 1)
      BY <1>2
    <3> QED
      BY <1>2, <1>3, <3>1
  <2> DEFINE z == view(0)
  <2> HIDE DEF view, cmd
  <2> HIDE DEF v, w, z
  <2>8. /\ RowsKept(config, op, z, w, req)
        /\ IsAccess(cmd) \/ (cmd.type # "PRE") => OwnRow(config, op, w, req)
    BY <2>2, <2>3, <2>4, <2>5, <2>6, RowsStep DEF z
  <2> QED
    BY <2>1, <2>7, <2>8 DEF w, z
<1> HIDE DEF S
<1>6. n \in S
  <2>1. 0 .. n \subseteq S
    BY <1>2, <1>4, <1>5, UpTo
  <2> QED
    BY <1>2, <2>1
<1>7. n > 1 \/ open
  BY <1>2, <1>3
<1> QED
  BY <1>1, <1>6, <1>7 DEF S

\* The bank of a line is there.
LEMMA PlaceThere ==
  ASSUME NEW c \in Configurations, Fits(c), NEW line \in c.lines
  PROVE  Place(At(c, line)) \in PlacesOf(c)
<1> DEFINE at == At(c, line)
<1>1. /\ at.Rank \in Nat /\ at.Rank < c.memTable.Rank
      /\ at.Bank \in Nat /\ at.Bank < c.memTable.Bank
  <2>1. Inside(c, at)
    BY LinesInside
  <2> HIDE DEF at
  <2> QED
    BY <2>1, LevelNames DEF Inside
<1>2. c.memTable.Rank \in Nat /\ c.memTable.Bank \in Nat
  BY LevelNames DEF Fits
<1> HIDE DEF at
<1>3. at.Rank \in 0 .. c.memTable.Rank - 1 /\ at.Bank \in 0 .. c.memTable.Bank - 1
  BY <1>1, <1>2
<1> QED
  BY <1>3 DEF Place, PlacesOf, at

\* The states of the work in which the commands find their rows, once they are in the
\* queues, and the row table says what they leave open.
Rowing(op, cq) ==
  {w \in Works(config) :
     /\ Finding(config, op, CommandLists(config, Enqueued(cq, w.commands)))
     /\ TableAhead(config, op, CommandLists(config, Enqueued(cq, w.commands)), w.table)}

\* Translating a request keeps it so.
LEMMA RowingClosed ==
  ASSUME config \in Configurations, Fits(config), SharedBanks(config), NEW op,
         NEW cq \in CommandStores(config)
  PROVE  Closed(config, Rowing(op, cq))
<1>1. Rowing(op, cq) \subseteq Works(config)
  BY DEF Rowing
<1>2. ASSUME NEW w \in Rowing(op, cq), NEW u \in Works(config), NEW n \in Stacks(config),
             NEW i \in 1 .. Len(RequestLists(config, w.queues)[n]), NEW by,
             MoveTo(config, w, u, n, i, by)
      PROVE  u \in Rowing(op, cq)
  <2> DEFINE req == RequestLists(config, w.queues)[n][i]
             open == IsRowHit(w.table, req)
             more == CommandGenerate(req, open)
             v == CommandLists(config, Enqueued(cq, w.commands))
             t == CommandLists(config, Enqueued(cq, w.commands \o more))
  <2>1. /\ w \in Works(config) /\ Finding(config, op, v) /\ TableAhead(config, op, v, w.table)
    BY DEF Rowing
  <2>2. /\ u.commands = w.commands \o more
        /\ u.table = [w.table EXCEPT ![Place(req.at)] = req.at.Row]
    BY <1>2 DEF MoveTo
  <2>3. /\ w.queues \in RequestStores(config) /\ w.commands \in Seq(Packets(config))
        /\ w.table \in [PlacesOf(config) -> Rows(config)]
    BY <2>1 DEF Works
  <2>4. req \in Requests(config) /\ open \in BOOLEAN
    <3>1. RequestLists(config, w.queues)[n] \in Seq(Requests(config))
      BY <2>3, StacksHold
    <3> QED
      BY <3>1 DEF IsRowHit
  <2>5. req.id \in Requestors /\ req.at \in {At(config, line) : line \in config.lines}
    BY <2>4, LinesInside
  <2>6. more \in Seq(Packets(config)) /\ Generated(more, req, open)
    BY <2>4, <2>5, GenerateCommands
  <2>7. open => w.table[Place(req.at)] = req.at.Row
    BY DEF IsRowHit
  <2> HIDE DEF req, open, more
  <2> HIDE DEF v, t
  <2>8. open => OwnRow(config, op, v, req)
    <3> HAVE open
    <3>1. ASSUME NEW line \in config.lines, Place(At(config, line)) = Place(req.at)
          PROVE  Ahead(config, op, v, line, req.at.Row)
      <4>1. Ahead(config, op, v, line, w.table[Place(At(config, line))])
        BY <2>1 DEF TableAhead
      <4> QED
        BY <2>7, <3>1, <4>1
    <3> QED
      BY <3>1 DEF OwnRow
  <2>9. RowsKept(config, op, v, t, req) /\ OwnRow(config, op, t, req)
    BY <2>1, <2>3, <2>4, <2>6, <2>8, RowsTranslated DEF v, t
  <2>10. TableAhead(config, op, t, u.table)
    <3>1. ASSUME NEW line \in config.lines
          PROVE  Ahead(config, op, t, line, u.table[Place(At(config, line))])
      <4> DEFINE p == Place(At(config, line))
      <4>1. p \in PlacesOf(config)
        BY PlaceThere
      <4>2. Ahead(config, op, v, line, w.table[p])
        BY <2>1 DEF TableAhead
      <4> HIDE DEF p
      <4>3. u.table[p] = IF p = Place(req.at) THEN req.at.Row ELSE w.table[p]
        BY <2>2, <2>3, <4>1
      <4>4. CASE p = Place(req.at)
        BY <2>9, <4>3, <4>4 DEF OwnRow, p
      <4>5. CASE p # Place(req.at)
        BY <2>9, <4>2, <4>3, <4>5 DEF RowsKept, p
      <4> QED
        BY <4>4, <4>5 DEF p
    <3> QED
      BY <3>1 DEF TableAhead
  <2>11. Finding(config, op, t)
    BY <2>9 DEF RowsKept
  <2> QED
    BY <2>2, <2>10, <2>11 DEF Rowing, t
<1> QED
  BY <1>1, <1>2 DEF Closed

\* The accesses in the command queues find their rows, and DIRECT's row table says what
\* the commands in the queues leave open.
Rowed ==
  /\ Finding(config, opened, Racked)
  /\ config.file.configTable["RequestScheduler"] = "DIRECT" =>
       TableAhead(config, opened, Racked, bankTable)

\* Nothing is enqueued.
LEMMA NothingEnqueued ==
  ASSUME config \in Configurations, Fits(config), NEW cq \in CommandStores(config)
  PROVE  Enqueued(cq, <<>>) = cq
<1> DEFINE list == <<>>
<1>1. list \in Seq(Packets(config)) /\ Len(list) = 0
  OBVIOUS
<1> HIDE DEF list
<1>2. PICK g : /\ g \in [0 .. Len(list) -> CommandStores(config)] /\ g[0] = cq
               /\ g[Len(list)] = Enqueued(cq, list)
               /\ \A k \in 1 .. Len(list) : g[k] = EnqueueCommand(g[k - 1], list[k])
  BY <1>1, EnqueueSteps
<1> QED
  BY <1>1, <1>2 DEF list

\* The commands of a cycle find their rows.
LEMMA CycleRows ==
  ASSUME Types, OnTheWay, Rowed, Fits(config), OneQueueForRR(config), SharedBanks(config)
  PROVE  /\ Finding(config, opened, CommandLists(config, Queued))
         /\ config.file.configTable["RequestScheduler"] = "DIRECT" =>
              TableAhead(config, opened, CommandLists(config, Queued), RequestSchedule.table)
<1> DEFINE w == NothingDone
           W == Rowing(opened, commandQueue)
           direct == config.file.configTable["RequestScheduler"] = "DIRECT"
<1>1. /\ w \in Works(config) /\ w.commands = <<>> /\ w.queues = requestQueue
      /\ w.places = queueRequestorIndex /\ w.slot = slotCounter /\ w.table = bankTable
  BY NothingKept
<1>2. config \in Configurations /\ requestQueue \in RequestStores(config)
      /\ commandQueue \in CommandStores(config)
      /\ slotCounter \in Nat /\ queueIndex \in Nat
  BY DEF Types
<1> HIDE DEF w
<1>3. <<>> \in Seq(Packets(config)) /\ Len(<<>>) = 0
  OBVIOUS
<1>4. Enqueued(commandQueue, <<>>) = commandQueue
  BY <1>2, NothingEnqueued
<1>5. CASE direct
  <2>1. Closed(config, W)
    BY <1>2, RowingClosed
  <2>2. w \in W
    BY <1>1, <1>4, <1>5 DEF Rowing, Rowed, Racked
  <2> HIDE DEF W
  <2>3. PICK g : g \in [0 .. NumQueues -> W] /\ g[NumQueues] = Direct(w)
    BY <1>2, <2>1, <2>2, DirectSteps
  <2>4. NumQueues \in 0 .. NumQueues
    BY <1>2, QueuesCounted
  <2>5. Direct(w) \in W
    BY <2>3, <2>4
  <2>6. RequestSchedule = Direct(w)
    BY <1>5 DEF RequestSchedule, w
  <2> QED
    BY <1>5, <2>5, <2>6 DEF W, Rowing, Queued
<1>6. CASE ~ direct
  <2> DEFINE u == RoundRobin(w)
             v == RequestLists(config, w.queues)
             t == RequestLists(config, u.queues)
  <2>1. NumQueues = 1
    BY <1>2, <1>6, QueuesCounted DEF OneQueueForRR
  <2>2. Turns(config, w.queues, w.places)
    BY <1>1 DEF OnTheWay
  <2>3. IdleRR(w, u) \/ \E n \in Stacks(config) : \E i \in Nat : Served1(config, w, u, n, i)
    BY <1>1, <1>2, <2>1, <2>2, RoundRobinMoves
  <2>4. RequestSchedule = u
    BY <1>6 DEF RequestSchedule, w
  <2> HIDE DEF u
  <2>5. Finding(config, opened, Racked)
    BY DEF Rowed
  <2>6. CASE IdleRR(w, u)
    <3>1. Queued = commandQueue
      BY <1>1, <1>4, <2>4, <2>6 DEF IdleRR, Queued
    <3> QED
      BY <1>6, <2>5, <3>1 DEF Racked
  <2>7. ASSUME NEW n \in Stacks(config), NEW i \in Nat, Served1(config, w, u, n, i)
        PROVE  Finding(config, opened, CommandLists(config, Queued))
    <3> DEFINE req == v[n][i]
               more == CommandGenerate(req, FALSE)
    <3>1. Taken(config, v, t, n, i) /\ u.commands = more
      BY <2>7 DEF Served1
    <3>2. \A g \in Stacks(config) : v[g] \in Seq(Requests(config))
      BY <1>1, <1>2, StacksHold
    <3>3. req \in Requests(config)
      BY <3>1, <3>2 DEF Taken
    <3>4. req.id \in Requestors /\ req.at \in {At(config, line) : line \in config.lines}
      BY <1>2, <3>3, LinesInside
    <3>5. more \in Seq(Packets(config)) /\ Generated(more, req, FALSE)
      BY <1>2, <3>3, <3>4, GenerateCommands
    <3> HIDE DEF v, t, req, more
    <3>6. <<>> \o more = more /\ FALSE \in BOOLEAN
      BY <3>5
    <3>7. Finding(config, opened, CommandLists(config, Enqueued(commandQueue, <<>>)))
      BY <1>4, <2>5 DEF Racked
    <3>8. RowsKept(config, opened, CommandLists(config, Enqueued(commandQueue, <<>>)),
                   CommandLists(config, Enqueued(commandQueue, <<>> \o more)), req)
      BY <1>2, <1>3, <3>3, <3>5, <3>6, <3>7, RowsTranslated
    <3> QED
      BY <2>4, <3>1, <3>6, <3>8 DEF RowsKept, Queued
  <2> QED
    BY <1>6, <2>3, <2>6, <2>7
<1> QED
  BY <1>5, <1>6

\* What a list of commands leaves when its first one has been sent.
LEMMA LeavesSent ==
  ASSUME NEW S, NEW list \in Seq(S), list # <<>>, NEW cmd, cmd = Head(list),
         NEW n \in 1 .. Len(list), NEW op, NEW new, NEW p,
         new[p] = IF Opener(cmd, p) THEN RowLeft(cmd) ELSE op[p],
         NEW r, Leaves(op, list, n, p, r)
  PROVE  Leaves(new, Tail(list), n - 1, p, r)
<1> DEFINE l == Tail(list)
           m == n - 1
<1>1. n \in Nat /\ n >= 1 /\ n <= Len(list) /\ m \in Nat /\ n = m + 1
      /\ list[1] = cmd /\ \A j \in 1 .. m : l[j] = list[j + 1]
  OBVIOUS
<1> HIDE DEF l, m
<1>2. \A j \in 1 .. m : j + 1 \in 1 .. n
  BY <1>1
<1>3. CASE r = op[p] /\ \A j \in 1 .. n : ~ Opener(list[j], p)
  <2>1. 1 \in 1 .. n
    BY <1>1
  <2>2. r = new[p]
    BY <1>1, <1>3, <2>1
  <2>3. \A j \in 1 .. m : ~ Opener(l[j], p)
    BY <1>1, <1>2, <1>3
  <2> QED
    BY <2>2, <2>3 DEF Leaves, l, m
<1>4. ASSUME NEW j \in 1 .. n, Opener(list[j], p), r = RowLeft(list[j]),
             \A k \in j + 1 .. n : ~ Opener(list[k], p)
      PROVE  Leaves(new, l, m, p, r)
  <2>1. CASE j = 1
    <3>1. r = new[p]
      BY <1>1, <1>4, <2>1
    <3>2. \A k \in 1 .. m : k + 1 \in j + 1 .. n
      BY <1>1, <2>1
    <3>3. \A k \in 1 .. m : ~ Opener(l[k], p)
      BY <1>1, <1>4, <3>2
    <3> QED
      BY <3>1, <3>3 DEF Leaves
  <2>2. CASE j # 1
    <3> DEFINE i == j - 1
    <3>1. i \in 1 .. m /\ j = i + 1
      BY <1>1, <2>2
    <3> HIDE DEF i
    <3>2. Opener(l[i], p) /\ r = RowLeft(l[i])
      BY <1>1, <1>4, <3>1
    <3>3. \A k \in i + 1 .. m : k \in 1 .. m /\ k + 1 \in j + 1 .. n
      BY <1>1, <3>1
    <3>4. \A k \in i + 1 .. m : ~ Opener(l[k], p)
      BY <1>1, <1>4, <3>3
    <3> QED
      BY <3>1, <3>2, <3>4 DEF Leaves
  <2> QED
    BY <2>1, <2>2
<1> QED
  BY <1>3, <1>4 DEF Leaves, l, m

\* The rows that are open when a command has been sent.
RowsAfter(c, op, cmd, new) ==
  \A p \in PlacesOf(c) : new[p] = IF Opener(cmd, p) THEN RowLeft(cmd) ELSE op[p]

\* A command leaves, and changes no row that another one is to find.
LEMMA RowsSent ==
  ASSUME NEW c \in Configurations, Fits(c), SharedBanks(c), NEW op,
         NEW v, \A g \in Lists(c) : v[g] \in Seq(Packets(c)), Finding(c, op, v),
         NEW w, NEW h, NEW cmd, Sent(c, v, w, h, cmd), NEW new, RowsAfter(c, op, cmd, new)
  PROVE  /\ Finding(c, new, w)
         /\ \A line \in c.lines : \A r : Ahead(c, op, v, line, r) => Ahead(c, new, w, line, r)
<1>1. AtHome(c, w) /\ cmd \in Packets(c) /\ HomeOf(c, cmd) = h
  BY HomesStay DEF Finding
<1>2. /\ h \in Lists(c) /\ v[h] \in Seq(Packets(c)) /\ v[h] # <<>> /\ cmd = Head(v[h])
      /\ w[h] = Tail(v[h]) /\ \A g \in Lists(c) : g # h => w[g] = v[g]
  BY DEF Sent
<1>3. /\ Len(v[h]) \in Nat /\ Len(v[h]) >= 1 /\ Len(w[h]) = Len(v[h]) - 1
      /\ DOMAIN w[h] = 1 .. Len(v[h]) - 1
      /\ \A i \in DOMAIN w[h] : i + 1 \in DOMAIN v[h] /\ w[h][i] = v[h][i + 1]
      /\ 1 \in DOMAIN v[h] /\ cmd = v[h][1]
  BY <1>2
<1>4. Asked(c, cmd)
  BY <1>2, <1>3 DEF Finding
<1>5. ASSUME NEW other, Asked(c, other), HomeOf(c, other) # h
      PROVE  /\ Place(other.at) \in PlacesOf(c) /\ new[Place(other.at)] = op[Place(other.at)]
  <2>1. Place(other.at) \in PlacesOf(c)
    BY <1>5, PlaceThere DEF Asked
  <2>2. Place(cmd.at) # Place(other.at)
    BY <1>1, <1>4, <1>5, HomeByPlace
  <2> QED
    BY <2>1, <2>2 DEF RowsAfter, Opener
<1>6. ASSUME NEW n \in 1 .. Len(v[h]), NEW p \in PlacesOf(c), NEW r, Leaves(op, v[h], n, p, r)
      PROVE  Leaves(new, w[h], n - 1, p, r)
  <2>1. new[p] = IF Opener(cmd, p) THEN RowLeft(cmd) ELSE op[p]
    BY DEF RowsAfter
  <2> QED
    BY <1>2, <1>6, <2>1, LeavesSent
<1>7. ASSUME NEW g \in Lists(c)
      PROVE  Found(new, w[g]) /\ \A i \in DOMAIN w[g] : Asked(c, w[g][i])
  <2>1. CASE g = h
    <3>1. ASSUME NEW i \in DOMAIN w[h]
          PROVE  Asked(c, w[h][i]) /\ (IsAccess(w[h][i]) =>
                   Leaves(new, w[h], i - 1, Place(w[h][i].at), w[h][i].at.Row))
      <4>1. i + 1 \in DOMAIN v[h] /\ w[h][i] = v[h][i + 1] /\ i \in 1 .. Len(v[h]) /\ (i + 1) - 1 = i
        BY <1>3
      <4>2. Asked(c, w[h][i]) /\ Place(w[h][i].at) \in PlacesOf(c)
        <5>1. Asked(c, w[h][i])
          BY <1>2, <4>1, SMTT(20) DEF Finding
        <5> QED
          BY <5>1, PlaceThere DEF Asked
      <4>3. ASSUME IsAccess(w[h][i])
            PROVE  Leaves(op, v[h], i, Place(w[h][i].at), w[h][i].at.Row)
        BY <1>2, <4>1, <4>3 DEF Finding, Found
      <4> QED
        BY <1>6, <4>1, <4>2, <4>3
    <3> QED
      BY <2>1, <3>1 DEF Found
  <2>2. CASE g # h
    <3>1. w[g] = v[g] /\ Found(op, v[g]) /\ \A i \in DOMAIN v[g] : Asked(c, v[g][i]) /\ HomeOf(c, v[g][i]) = g
      BY <1>2, <2>2 DEF Finding, AtHome
    <3>2. \A i \in DOMAIN v[g] : new[Place(v[g][i].at)] = op[Place(v[g][i].at)]
      BY <1>5, <2>2, <3>1
    <3> QED
      BY <3>1, <3>2 DEF Found, Leaves
  <2> QED
    BY <2>1, <2>2
<1>8. ASSUME NEW line \in c.lines, NEW r, Ahead(c, op, v, line, r)
      PROVE  Ahead(c, new, w, line, r)
  <2> DEFINE other == [id |-> line.id, at |-> At(c, line)]
             g == HomeOfLine(c, line)
             p == Place(At(c, line))
  <2>1. Asked(c, other) /\ HomeOf(c, other) = g /\ Place(other.at) = p
    BY DEF Asked, HomeOfLine
  <2>2. p \in PlacesOf(c)
    BY PlaceThere
  <2>3. g \in Lists(c)
    <3> DEFINE first == [type |-> "PRE", id |-> line.id, at |-> At(c, line)]
    <3>1. line.id \in Requestors
      BY FrontEndAssumption
    <3>2. first \in Packets(c) /\ HomeOf(c, first) = g
      BY <3>1 DEF Packets, CommandTypes, HomeOf, HomeOfLine, CommandHome
    <3> QED
      BY <3>2, HomeListed
  <2>4. Leaves(op, v[g], Len(v[g]), p, r)
    BY <1>8 DEF Ahead
  <2> HIDE DEF other, g, p
  <2>5. CASE g = h
    <3>1. Len(v[h]) \in 1 .. Len(v[h])
      BY <1>3
    <3>2. Leaves(new, w[g], Len(w[g]), p, r)
      BY <1>3, <1>6, <2>2, <2>4, <2>5, <3>1
    <3> QED
      BY <3>2 DEF Ahead, g, p
  <2>6. CASE g # h
    <3>1. w[g] = v[g] /\ new[p] = op[p]
      BY <1>2, <1>5, <2>1, <2>3, <2>6
    <3>2. Leaves(new, w[g], Len(w[g]), p, r)
      BY <2>4, <3>1 DEF Leaves
    <3> QED
      BY <3>2 DEF Ahead, g, p
  <2> QED
    BY <2>5, <2>6
<1> QED
  BY <1>1, <1>7, <1>8 DEF Finding

\* A command is sent.
LEMMA SendRows ==
  ASSUME Types, Fits(config), SharedBanks(config),
         NEW work \in Works(config), NEW cq \in CommandStores(config),
         Placed(config, pending, RequestLists(config, work.queues), CommandLists(config, cq), <<>>),
         Finding(config, opened, CommandLists(config, cq)),
         config.file.configTable["RequestScheduler"] = "DIRECT" =>
           TableAhead(config, opened, CommandLists(config, cq), work.table),
         NEW new \in CommandStores(config), NEW h, NEW cmd,
         Sent(config, CommandLists(config, cq), CommandLists(config, new), h, cmd),
         SendCommand(work, new, cmd)
  PROVE  Rowed'
<1> DEFINE v == CommandLists(config, cq)
           w == CommandLists(config, new)
           op == opened'
           direct == config.file.configTable["RequestScheduler"] = "DIRECT"
<1>1. /\ Scheduled(work) /\ commandQueue' = new
      /\ opened' = IF IsAccess(cmd) THEN opened
                   ELSE [opened EXCEPT ![Place(cmd.at)] = IF cmd.type = "PRE" THEN NoRow ELSE cmd.at.Row]
  BY SendDoes
<1>2. config \in Configurations /\ opened \in [PlacesOf(config) -> Rows(config)]
  BY DEF Types
<1>3. \A g \in Lists(config) : v[g] \in Seq(Packets(config))
  BY ListsHold
<1>4. RowsAfter(config, opened, cmd, op)
  <2>1. ASSUME NEW p \in PlacesOf(config)
        PROVE  op[p] = IF Opener(cmd, p) THEN RowLeft(cmd) ELSE opened[p]
    BY <1>1, <1>2 DEF Opener, RowLeft
  <2> QED
    BY <2>1 DEF RowsAfter
<1> HIDE DEF v, w, op
<1>5. /\ Finding(config, op, w)
      /\ \A line \in config.lines : \A r : Ahead(config, opened, v, line, r) => Ahead(config, op, w, line, r)
  <2>1. Finding(config, opened, v) /\ Sent(config, v, w, h, cmd)
    BY DEF v, w
  <2> QED
    BY <1>2, <1>3, <1>4, <2>1, RowsSent
<1>6. direct => TableAhead(config, op, w, work.table)
  BY <1>5 DEF TableAhead, v
<1>7. config' = config /\ bankTable' = work.table /\ Racked' = w
  BY <1>1 DEF Scheduled, Racked, w
<1> QED
  BY <1>5, <1>6, <1>7 DEF Rowed, op

\* A cycle.
LEMMA StepRows ==
  ASSUME Types, OnTheWay, Rowed, Fits(config), OneQueueForRR(config), OneQueueForRound(config),
         SharedBanks(config), Step
  PROVE  Rowed'
<1> DEFINE work == RequestSchedule
           direct == config.file.configTable["RequestScheduler"] = "DIRECT"
<1>1. /\ work \in Works(config) /\ Queued \in CommandStores(config)
      /\ Placed(config, pending, RequestLists(config, work.queues), CommandLists(config, Queued), <<>>)
  BY CycleKeeps
<1>2. /\ Finding(config, opened, CommandLists(config, Queued))
      /\ direct => TableAhead(config, opened, CommandLists(config, Queued), work.table)
  BY CycleRows
<1>3. StepNoCommand(work, Queued) \/ FCFS(work, Queued) \/ Round(work, Queued)
  BY StepCases
<1>4. DOMAIN Queued = CommandQueueNumbers(config)
  BY <1>1 DEF CommandStores
<1> HIDE DEF work
<1>5. CASE StepNoCommand(work, Queued)
  <2>1. /\ config' = config /\ bankTable' = work.table /\ opened' = opened
        /\ commandQueue' = Queued
    BY <1>5 DEF StepNoCommand, Scheduled
  <2> QED
    BY <1>2, <2>1 DEF Rowed, Racked
<1>6. CASE FCFS(work, Queued)
  <2>1. PICK q \in CommandQueueNumbers(config) :
          /\ Queued[q].hrt # <<>>
          /\ SendCommand(work, [Queued EXCEPT ![q] = Q!RemoveCritical(@)], Head(Queued[q].hrt))
    BY <1>4, <1>6 DEF FCFS
  <2> DEFINE new == [Queued EXCEPT ![q] = Q!RemoveCritical(@)]
             h == <<q, <<"hrt", 0>>>>
             cmd == Head(Queued[q].hrt)
  <2>2. new \in CommandStores(config)
        /\ Sent(config, CommandLists(config, Queued), CommandLists(config, new), h, cmd)
    BY <1>1, <2>1, CriticalSent
  <2>3. SendCommand(work, new, cmd)
    BY <2>1
  <2> HIDE DEF new, h, cmd
  <2> QED
    BY <1>1, <1>2, <2>2, <2>3, SendRows
<1>7. CASE Round(work, Queued)
  <2>1. PICK q \in CommandQueueNumbers(config), id \in Requestors :
          /\ Queued[q].own[id] # <<>>
          /\ SendCommand(work, [Queued EXCEPT ![q] = Q!RemoveOwn(@, id)], Head(Queued[q].own[id]))
    BY <1>1, <1>7, RoundSends DEF Types
  <2> DEFINE new == [Queued EXCEPT ![q] = Q!RemoveOwn(@, id)]
             h == <<q, <<"own", id>>>>
             cmd == Head(Queued[q].own[id])
  <2>2. new \in CommandStores(config)
        /\ Sent(config, CommandLists(config, Queued), CommandLists(config, new), h, cmd)
    BY <1>1, <2>1, OwnSent
  <2>3. SendCommand(work, new, cmd)
    BY <2>1
  <2> HIDE DEF new, h, cmd
  <2> QED
    BY <1>1, <1>2, <2>2, <2>3, SendRows
<1> QED
  BY <1>3, <1>5, <1>6, <1>7

\* The first state.
LEMMA InitRows ==
  ASSUME Init, Fits(config)
  PROVE  Rowed
<1>1. config \in Configurations
  BY DEF Init
<1>2. /\ bankTable = [p \in PlacesOf(config) |-> NoRow] /\ opened = [p \in PlacesOf(config) |-> NoRow]
      /\ commandQueue = [q \in CommandQueueNumbers(config) |-> Q!EmptyCommandQueue]
  BY DEF Init, PlacesOf, Places, CommandQueueNumbers, memTable
<1>3. ASSUME NEW h \in Lists(config)
      PROVE  Racked[h] = <<>>
  <2>1. h[1] \in CommandQueueNumbers(config) /\ h[2] \in Racks
    BY DEF Lists
  <2>2. Racked[h] = OnRack(Q!EmptyCommandQueue, h[2])
    BY <1>2, <2>1 DEF Racked, CommandLists
  <2> QED
    BY <2>1, <2>2 DEF OnRack, Racks, Q!EmptyCommandQueue
<1>4. DOMAIN <<>> = {} /\ Len(<<>>) = 0
  OBVIOUS
<1>5. Finding(config, opened, Racked)
  BY <1>3, <1>4 DEF Finding, AtHome, Found
<1>6. ASSUME NEW line \in config.lines
      PROVE  Ahead(config, opened, Racked, line, bankTable[Place(At(config, line))])
  <2> DEFINE p == Place(At(config, line))
             g == HomeOfLine(config, line)
             first == [type |-> "PRE", id |-> line.id, at |-> At(config, line)]
  <2>1. p \in PlacesOf(config)
    BY <1>1, PlaceThere
  <2>2. g \in Lists(config)
    <3>1. line.id \in Requestors
      BY <1>1, FrontEndAssumption
    <3>2. first \in Packets(config) /\ HomeOf(config, first) = g
      BY <3>1 DEF Packets, CommandTypes, HomeOf, HomeOfLine, CommandHome
    <3> QED
      BY <1>1, <3>2, HomeListed
  <2> HIDE DEF p, g
  <2>3. bankTable[p] = opened[p] /\ Racked[g] = <<>>
    BY <1>2, <1>3, <2>1, <2>2
  <2>4. Leaves(opened, Racked[g], Len(Racked[g]), p, bankTable[p])
    BY <1>4, <2>3 DEF Leaves
  <2> QED
    BY <2>4 DEF Ahead, p, g
<1> QED
  BY <1>5, <1>6 DEF Rowed, TableAhead

\* All other steps.
LEMMA NextRows ==
  ASSUME \A c \in Configurations : Fits(c) /\ OneQueueForRR(c) /\ OneQueueForRound(c) /\ SharedBanks(c),
         Types, OnTheWay, Rowed, [Next]_vars
  PROVE  Rowed'
<1>1. Fits(config) /\ OneQueueForRR(config) /\ OneQueueForRound(config) /\ SharedBanks(config)
  BY DEF Types
<1>2. CASE /\ config' = config /\ opened' = opened /\ bankTable' = bankTable
           /\ commandQueue' = commandQueue
  BY <1>2 DEF Rowed, Racked
<1>3. CASE UNCHANGED vars
  BY <1>2, <1>3 DEF vars
<1>4. ASSUME NEW id \in Requestors, Compute(id)
      PROVE  Rowed'
  BY <1>2, <1>4 DEF Compute
<1>5. ASSUME NEW id \in Requestors, NEW line \in config.lines, AddRequest(id, line)
      PROVE  Rowed'
  BY <1>2, <1>5 DEF AddRequest
<1>6. CASE Step
  BY <1>1, <1>6, StepRows
<1> QED
  BY <1>3, <1>4, <1>5, <1>6 DEF Next

\* What the commands before one leave open is the row it finds.
LEMMA LeftIsFound ==
  ASSUME NEW S, NEW list \in Seq(S), NEW i \in DOMAIN list, NEW r,
         Leaves(opened, list, i - 1, Place(list[i].at), r)
  PROVE  RowFound(list, i) = r
<1> DEFINE p == Place(list[i].at)
           before == {j \in 1 .. i - 1 : ~ IsAccess(list[j]) /\ Place(list[j].at) = p}
<1>1. i - 1 \in Nat
  OBVIOUS
<1>2. RowFound(list, i) = IF before = {} THEN opened[p] ELSE RowLeft(list[Max(before)])
  BY Zenon DEF RowFound, RowLeft
<1>3. before \in SUBSET (1 .. i - 1) /\ \A j \in 1 .. i - 1 : j \in before <=> Opener(list[j], p)
  BY DEF Opener
<1> HIDE DEF before, p
<1>4. CASE r = opened[p] /\ \A j \in 1 .. i - 1 : ~ Opener(list[j], p)
  <2>1. before = {}
    BY <1>3, <1>4
  <2> QED
    BY <1>2, <1>4, <2>1
<1>5. ASSUME NEW j \in 1 .. i - 1, Opener(list[j], p), r = RowLeft(list[j]),
             \A k \in j + 1 .. i - 1 : ~ Opener(list[k], p)
      PROVE  RowFound(list, i) = r
  <2>1. j \in before /\ before # {}
    BY <1>3, <1>5
  <2>2. Max(before) \in 1 .. i - 1 /\ Max(before) \in before /\ j <= Max(before)
    BY <1>1, <1>3, <2>1, LastPlace
  <2>3. Opener(list[Max(before)], p)
    BY <1>3, <2>2
  <2> DEFINE m == Max(before)
  <2> HIDE DEF m
  <2>4. m = j
    <3>1. m \in 1 .. i - 1 /\ j <= m /\ Opener(list[m], p)
      BY <2>2, <2>3 DEF m
    <3>2. m # j => m \in j + 1 .. i - 1
      BY <1>1, <3>1
    <3> QED
      BY <1>5, <3>1, <3>2
  <2> QED
    BY <1>2, <1>5, <2>1, <2>4 DEF m
<1> QED
  BY <1>4, <1>5 DEF Leaves, p

\* Rowed says that the column accesses find their rows.
LEMMA RowsAreFound ==
  ASSUME Types, Rowed
  PROVE  AccessesFindRow
<1>1. commandQueue \in CommandStores(config) /\ DOMAIN commandQueue = CommandQueueNumbers(config)
  BY DEF Types, CommandStores
<1>2. \A h \in Lists(config) : Racked[h] \in Seq(Packets(config)) /\ Found(opened, Racked[h])
  BY <1>1, ListsHold DEF Rowed, Finding, Racked
<1>3. ASSUME NEW h \in Lists(config), NEW i \in DOMAIN Racked[h], IsAccess(Racked[h][i])
      PROVE  RowFound(Racked[h], i) = Racked[h][i].at.Row
  <2>1. Racked[h] \in Seq(Packets(config))
        /\ Leaves(opened, Racked[h], i - 1, Place(Racked[h][i].at), Racked[h][i].at.Row)
    BY <1>2, <1>3 DEF Found
  <2> QED
    BY <2>1, LeftIsFound
<1>4. ASSUME NEW q \in CommandQueueNumbers(config)
      PROVE  /\ <<q, <<"hrt", 0>>>> \in Lists(config) /\ commandQueue[q].hrt = Racked[<<q, <<"hrt", 0>>>>]
             /\ \A id \in Requestors : /\ <<q, <<"own", id>>>> \in Lists(config)
                                       /\ commandQueue[q].own[id] = Racked[<<q, <<"own", id>>>>]
  <2>1. <<q, <<"hrt", 0>>>> \in Lists(config)
        /\ \A id \in Requestors : <<q, <<"own", id>>>> \in Lists(config)
    BY DEF Lists, Racks
  <2>2. Racked[<<q, <<"hrt", 0>>>>] = OnRack(commandQueue[q], <<"hrt", 0>>)
        /\ \A id \in Requestors : Racked[<<q, <<"own", id>>>>] = OnRack(commandQueue[q], <<"own", id>>)
    BY <2>1 DEF Racked, CommandLists
  <2>3. OnRack(commandQueue[q], <<"hrt", 0>>) = commandQueue[q].hrt
        /\ \A id \in Requestors : OnRack(commandQueue[q], <<"own", id>>) = commandQueue[q].own[id]
    BY DEF OnRack
  <2> QED
    BY <2>1, <2>2, <2>3
<1>5. ASSUME NEW q \in DOMAIN commandQueue,
             NEW buffer \in {commandQueue[q].hrt} \cup {commandQueue[q].own[id] : id \in Requestors},
             NEW i \in DOMAIN buffer, IsAccess(buffer[i])
      PROVE  RowFound(buffer, i) = buffer[i].at.Row
  <2>1. PICK h \in Lists(config) : buffer = Racked[h]
    BY ZenonT(30), <1>1, <1>4, <1>5
  <2> QED
    BY <1>3, <1>5, <2>1
<1> QED
  BY <1>5 DEF AccessesFindRow

\* Whether a request hits is decided in requestSchedule, from a table; every column
\* access in a command queue still finds the row it is for open when its turn comes,
\* whatever the order in which the buffers are served, if the commands for a bank have
\* one buffer, RR has one request queue and Round one command queue.
THEOREM AccessesFindRowAlways ==
  ASSUME \A c \in Configurations : Fits(c) /\ OneQueueForRR(c) /\ OneQueueForRound(c) /\ SharedBanks(c)
  PROVE  Spec => []AccessesFindRow
<1> DEFINE Inv == Types /\ OnTheWay /\ Rowed
<1>1. Init => Inv
  <2> HAVE Init
  <2>1. Fits(config)
    BY DEF Init
  <2> QED
    BY <2>1, InitKeeps, InitRows
<1>2. Inv /\ [Next]_vars => Inv'
  BY NextKeeps, NextRows
<1>3. Inv => AccessesFindRow
  BY RowsAreFound
<1> QED
  BY <1>1, <1>2, <1>3, PTL DEF Spec
=============================================================================

----------------------------- MODULE Lists_proofs -----------------------------
(***************************************************************************)
(* Facts about numbers and folds that the proofs share: the least number   *)
(* principle, and that FoldLeft goes through a list from its first element *)
(* to its last.  The provers know of a fold only that it is defined by a   *)
(* CHOOSE, and cannot be given its operator; here a fold is stood for by   *)
(* the function that the definition chooses.                               *)
(***************************************************************************)
EXTENDS SequencesExt, WellFoundedInduction, TLAPS

\* A set of naturals that is not empty has a least element.
LEMMA LeastNat ==
  ASSUME NEW T \in SUBSET Nat, T # {}
  PROVE  \E m \in T : \A n \in T : m <= n
<1> DEFINE R == OpToRel(<, Nat)
<1>1. IsWellFoundedOn(R, Nat)
  BY NatLessThanWellFounded
<1> HIDE DEF R
<1>2. PICK m \in T : \A n \in T : <<n, m>> \notin R
  BY <1>1, WFMin
<1>3. \A n \in T : ~ n < m
  BY <1>2 DEF R, OpToRel
<1> QED
  BY <1>3

\* Max is the greatest element of a set of integers that is bounded.
LEMMA Maximum ==
  ASSUME NEW S \in SUBSET Int, S # {}, NEW bound \in Int, \A y \in S : y <= bound
  PROVE  Max(S) \in S /\ \A y \in S : Max(S) >= y
<1> DEFINE T == {n \in Nat : bound - n \in S}
<1>1. \A y \in S : bound - y \in T
  OBVIOUS
<1>2. T \in SUBSET Nat /\ T # {}
  BY <1>1
<1> HIDE DEF T
<1>3. PICK m \in T : \A n \in T : m <= n
  BY <1>2, LeastNat
<1>4. bound - m \in S /\ m \in Nat
  BY <1>3 DEF T
<1>5. \A y \in S : bound - m >= y
  BY <1>1, <1>3, <1>4
<1> QED
  BY <1>4, <1>5 DEF Max

\* Max of two integers.
LEMMA Larger ==
  ASSUME NEW a \in Int, NEW b \in Int
  PROVE  Max({a, b}) = IF a >= b THEN a ELSE b
BY DEF Max

\* Min of two integers.
LEMMA Smaller ==
  ASSUME NEW a \in Int, NEW b \in Int
  PROVE  Min({a, b}) = IF a <= b THEN a ELSE b
BY DEF Min

-----------------------------------------------------------------------------
(* Folds over a list.                                                      *)

\* Induction up to n, on the set of those that have the property.
LEMMA UpTo ==
  ASSUME NEW n \in Nat, NEW S, 0 \in S, \A k \in 1 .. n : k - 1 \in S => k \in S
  PROVE  0 .. n \subseteq S
<1> SUFFICES ASSUME 0 .. n \ S # {}
             PROVE  FALSE
  OBVIOUS
<1>1. 0 .. n \ S \in SUBSET Nat
  OBVIOUS
<1>2. PICK m \in 0 .. n \ S : \A k \in 0 .. n \ S : m <= k
  BY <1>1, LeastNat
<1>3. m \in 1 .. n /\ m - 1 \in 0 .. n /\ ~ m <= m - 1
  BY <1>2
<1>4. m - 1 \in S
  BY <1>2, <1>3
<1> QED
  BY <1>2, <1>3, <1>4

\* Max of positions of a list.
LEMMA LastPlace ==
  ASSUME NEW n \in Nat, NEW d \in SUBSET (1 .. n), d # {}
  PROVE  Max(d) \in d /\ Max(d) \in 1 .. n /\ \A k \in d : k <= Max(d)
<1>1. d \in SUBSET Int /\ n \in Int /\ \A y \in d : y <= n
  OBVIOUS
<1>2. Max(d) \in d /\ \A y \in d : Max(d) >= y
  BY <1>1, Maximum
<1> QED
  BY <1>1, <1>2

\* A function like the one MapThenFoldSet defines by recursion.
Folding(W, n, base, op, h) ==
  /\ h \in [SUBSET (1 .. n) -> W]
  /\ \A d \in SUBSET (1 .. n) :
       h[d] = IF d = {} THEN base ELSE op[<<h[d \ {Max(d)}], Max(d)>>]

\* There is one.
LEMMA FoldRuns ==
  ASSUME NEW W, NEW n \in Nat, NEW base \in W, NEW op \in [W \X (1 .. n) -> W]
  PROVE  \E h : Folding(W, n, base, op, h)
<1> DEFINE Runs(m, h) ==
             \A d \in SUBSET (1 .. m) :
               h[d] = IF d = {} THEN base ELSE op[<<h[d \ {Max(d)}], Max(d)>>]
           S == {m \in 0 .. n : \E h \in [SUBSET (1 .. m) -> W] : Runs(m, h)}
<1>1. 0 \in S
  <2>1. SUBSET (1 .. 0) = {{}}
    OBVIOUS
  <2> DEFINE h == [d \in SUBSET (1 .. 0) |-> base]
  <2>2. h \in [SUBSET (1 .. 0) -> W] /\ Runs(0, h)
    BY <2>1
  <2> HIDE DEF h, Runs
  <2>3. \E f \in [SUBSET (1 .. 0) -> W] : Runs(0, f)
    BY <2>2
  <2>4. 0 \in 0 .. n
    OBVIOUS
  <2> QED
    BY <2>3, <2>4
<1>2. ASSUME NEW k \in 1 .. n, k - 1 \in S
      PROVE  k \in S
  <2>1. PICK h \in [SUBSET (1 .. k - 1) -> W] : Runs(k - 1, h)
    BY <1>2
  <2> DEFINE g == [d \in SUBSET (1 .. k) |-> IF k \in d THEN op[<<h[d \ {k}], k>>] ELSE h[d]]
  <2>2. \A d \in SUBSET (1 .. k) : /\ k \notin d => d \in SUBSET (1 .. k - 1)
                                   /\ d \ {k} \in SUBSET (1 .. k - 1)
                                   /\ k \in d => Max(d) = k
    <3> TAKE d \in SUBSET (1 .. k)
    <3>1. k \in d => Max(d) = k
      <4> HAVE k \in d
      <4>1. k \in Nat /\ d \in SUBSET (1 .. k) /\ d # {}
        OBVIOUS
      <4>2. Max(d) \in 1 .. k /\ k <= Max(d)
        BY <4>1, LastPlace
      <4> QED
        BY <4>2
    <3> QED
      BY <3>1
  <2>3. g \in [SUBSET (1 .. k) -> W]
    <3> SUFFICES ASSUME NEW d \in SUBSET (1 .. k)
                 PROVE  (IF k \in d THEN op[<<h[d \ {k}], k>>] ELSE h[d]) \in W
      OBVIOUS
    <3>1. k \notin d => h[d] \in W
      BY <2>1, <2>2
    <3>2. h[d \ {k}] \in W
      BY <2>1, <2>2
    <3> QED
      BY <3>1, <3>2
  <2>4. ASSUME NEW d \in SUBSET (1 .. k)
        PROVE  g[d] = IF d = {} THEN base ELSE op[<<g[d \ {Max(d)}], Max(d)>>]
    <3>1. CASE k \in d
      BY <2>2, <3>1
    <3>2. CASE k \notin d /\ d # {}
      <4>1. d \in SUBSET (1 .. k - 1) /\ g[d] = h[d]
        BY <2>2, <3>2
      <4>2. h[d] = op[<<h[d \ {Max(d)}], Max(d)>>]
        BY <2>1, <3>2, <4>1
      <4>3. d \ {Max(d)} \in SUBSET (1 .. k) /\ k \notin d \ {Max(d)}
        BY <3>2
      <4> QED
        BY <3>2, <4>1, <4>2, <4>3
    <3>3. CASE d = {}
      BY <2>1, <3>3
    <3> QED
      BY <3>1, <3>2, <3>3
  <2>5. Runs(k, g)
    BY <2>4
  <2> HIDE DEF g, Runs
  <2>6. \E f \in [SUBSET (1 .. k) -> W] : Runs(k, f)
    BY <2>3, <2>5
  <2> QED
    BY <2>6
<1> HIDE DEF S
<1>3. n \in S
  BY <1>1, <1>2, UpTo
<1> QED
  BY <1>3 DEF S, Folding

\* The positions up to k, without the last.
LEMMA Prefix ==
  ASSUME NEW n \in Nat, NEW k \in 1 .. n
  PROVE  /\ 1 .. k \in SUBSET (1 .. n) /\ 1 .. k # {} /\ 1 .. 0 = {}
         /\ Max(1 .. k) = k /\ (1 .. k) \ {k} = 1 .. k - 1
<1>1. k \in Nat /\ 1 .. k \in SUBSET (1 .. k) /\ 1 .. k # {} /\ k \in 1 .. k
  OBVIOUS
<1>2. Max(1 .. k) \in 1 .. k /\ k <= Max(1 .. k)
  BY <1>1, LastPlace
<1>3. (1 .. k) \ {k} = 1 .. k - 1
  OBVIOUS
<1> QED
  BY <1>1, <1>2, <1>3

\* What a fold has made of base after k of n elements, and after all.
Steps(W, n, base, op, g, result) ==
  /\ g \in [0 .. n -> W] /\ g[0] = base /\ g[n] = result
  /\ \A k \in 1 .. n : g[k] = op[<<g[k - 1], k>>]

\* A function on sets of positions that starts with base and goes on like op
\* within W goes through the positions one after the other.
GoesOn(W, n, base, op, h) ==
  /\ h[{}] = base
  /\ \A d \in SUBSET (1 .. n) : d # {} /\ h[d \ {Max(d)}] \in W =>
       h[d] = op[<<h[d \ {Max(d)}], Max(d)>>]

\* Such a function reaches its value for all positions step by step.
LEMMA FoldSteps ==
  ASSUME NEW W, NEW n \in Nat, NEW base \in W, NEW op \in [W \X (1 .. n) -> W], NEW h,
         GoesOn(W, n, base, op, h)
  PROVE  \E g : Steps(W, n, base, op, g, h[1 .. n])
<1> DEFINE S == {k \in 0 .. n : h[1 .. k] \in W}
           g == [k \in 0 .. n |-> h[1 .. k]]
<1>1. 0 \in S /\ g[0] = base
  <2>1. 1 .. 0 = {}
    OBVIOUS
  <2> QED
    BY <2>1 DEF GoesOn
<1>2. ASSUME NEW k \in 1 .. n, k - 1 \in S
      PROVE  k \in S /\ h[1 .. k] = op[<<h[1 .. k - 1], k>>]
  <2>1. /\ 1 .. k \in SUBSET (1 .. n) /\ 1 .. k # {}
        /\ Max(1 .. k) = k /\ (1 .. k) \ {k} = 1 .. k - 1
    BY Prefix
  <2>2. h[1 .. k] = op[<<h[1 .. k - 1], k>>]
    BY <1>2, <2>1 DEF GoesOn
  <2> QED
    BY <1>2, <2>2
<1> HIDE DEF S
<1>3. 0 .. n \subseteq S
  BY <1>1, <1>2, UpTo
<1>4. g \in [0 .. n -> W]
  BY <1>3 DEF S
<1>5. \A k \in 1 .. n : g[k] = op[<<g[k - 1], k>>]
  <2> TAKE k \in 1 .. n
  <2>1. k - 1 \in S /\ g[k] = h[1 .. k] /\ g[k - 1] = h[1 .. k - 1]
    BY <1>3
  <2> QED
    BY <1>2, <2>1
<1>6. g[n] = h[1 .. n]
  OBVIOUS
<1> HIDE DEF g
<1> QED
  BY <1>1, <1>4, <1>5, <1>6 DEF Steps

=============================================================================

---------------------------- MODULE FoldTheorems ----------------------------
(***************************************************************************)
(* What the proofs about computations over sequences rest on: least        *)
(* counterexamples, and the folds of the community modules taken one       *)
(* element after the other.  A fold takes an operator; here it is a        *)
(* function "step" of what there is so far and the number of the element.  *)
(***************************************************************************)
EXTENDS Integers, FiniteSets, FiniteSetsExt, WellFoundedInduction, TLAPS

\* Naturals have a least one.
LEMMA LeastOne ==
  ASSUME NEW T, T \subseteq Nat, T # {}
  PROVE  \E n \in T : \A m \in T : n <= m
<1>1. PICK n \in T : \A m \in T : ~ (<<m, n>> \in OpToRel(<, Nat))
  BY NatLessThanWellFounded, WFMin
<1>2. \A m \in T : ~(m < n)
  BY <1>1 DEF OpToRel
<1> QED
  BY <1>2

\* What holds at the start and is kept by every step holds all along.
LEMMA AllAlong ==
  ASSUME NEW n \in Nat, NEW S, 0 \in S, \A i \in 1 .. n : i - 1 \in S => i \in S
  PROVE  0 .. n \subseteq S
<1> DEFINE Bad == {i \in 0 .. n : i \notin S}
<1>1. CASE Bad = {}
  BY <1>1
<1>2. CASE Bad # {}
  <2>1. Bad \subseteq Nat
    OBVIOUS
  <2>2. PICK i \in Bad : \A j \in Bad : i <= j
    <3> HIDE DEF Bad
    <3> QED BY <1>2, <2>1, LeastOne
  <2>3. i \in 1 .. n /\ i - 1 \in 0 .. n /\ i \notin S
    BY <2>2
  <2>4. i - 1 \notin Bad
    <3> HIDE DEF Bad
    <3> QED BY <2>1, <2>2, <2>3
  <2> QED BY <2>3, <2>4
<1> QED BY <1>1, <1>2

LEMMA GreatestIs ==
  ASSUME NEW n \in Nat, NEW T \in SUBSET (1 .. n), T # {}
  PROVE  Max(T) \in T /\ \A x \in T : x <= Max(T)
<1> DEFINE Above == {m \in Nat : \A x \in T : x <= m}
<1>1. n \in Above
  OBVIOUS
<1>2. PICK m \in Above : \A k \in Above : m <= k
  <2>1. Above \subseteq Nat /\ Above # {}
    BY <1>1
  <2> HIDE DEF Above
  <2> QED BY <2>1, LeastOne
<1>3. m \in T
  <2>1. PICK x \in T : TRUE
    OBVIOUS
  <2>2. m >= 1 /\ m - 1 \in Nat
    BY <1>2, <2>1
  <2>3. m - 1 \notin Above
    BY <1>2, <2>2
  <2>4. PICK y \in T : ~(y <= m - 1)
    BY <2>2, <2>3
  <2>5. y <= m /\ y \in Nat
    BY <1>2
  <2>6. y = m
    BY <1>2, <2>4, <2>5
  <2> QED BY <2>6
<1>4. \E x \in T : \A y \in T : x >= y
  BY <1>2, <1>3
<1> QED BY <1>4 DEF Max

LEMMA GreatestOfFirst ==
  ASSUME NEW n \in Nat, n >= 1
  PROVE  Max(1 .. n) = n /\ (1 .. n) \ {n} = 1 .. (n - 1)
<1>1. 1 .. n \in SUBSET (1 .. n) /\ 1 .. n # {}
  OBVIOUS
<1>2. Max(1 .. n) \in 1 .. n /\ \A x \in 1 .. n : x <= Max(1 .. n)
  BY <1>1, GreatestIs
<1> QED BY <1>2

-----------------------------------------------------------------------------
(* Folds.                                                                      *)

\* The recursion by which Folds defines them, taking the last element of each set
\* of elements.
Folded(g, n, base, step) ==
  g = [s \in SUBSET (1 .. n) |->
         IF s = {} THEN base ELSE step[<<g[s \ {Max(s)}], Max(s)>>]]

\* It has a solution.
LEMMA FoldPossible ==
  ASSUME NEW X, NEW base \in X, NEW n \in Nat, NEW step \in [X \X (1 .. n) -> X]
  PROVE  \E g \in [SUBSET (1 .. n) -> X] : Folded(g, n, base, step)
<1> DEFINE S == {k \in 0 .. n : \E g \in [SUBSET (1 .. k) -> X] : Folded(g, k, base, step)}
<1>1. 0 \in S
  <2> DEFINE g == [s \in SUBSET (1 .. 0) |-> base]
  <2>1. g \in [SUBSET (1 .. 0) -> X]
    OBVIOUS
  <2>2. \A s \in SUBSET (1 .. 0) : s = {}
    OBVIOUS
  <2>3. g = [s \in SUBSET (1 .. 0) |->
               IF s = {} THEN base ELSE step[<<g[s \ {Max(s)}], Max(s)>>]]
    BY <2>2
  <2> HIDE DEF g
  <2>4. Folded(g, 0, base, step)
    BY <2>3 DEF Folded
  <2>5. \E f \in [SUBSET (1 .. 0) -> X] : Folded(f, 0, base, step)
    BY <2>1, <2>4
  <2>6. 0 \in 0 .. n
    OBVIOUS
  <2> QED BY <2>5, <2>6
<1>2. ASSUME NEW k \in 1 .. n, k - 1 \in S PROVE k \in S
  <2>1. PICK g \in [SUBSET (1 .. (k - 1)) -> X] : Folded(g, k - 1, base, step)
    BY <1>2
  <2>2. ASSUME NEW s \in SUBSET (1 .. k), k \in s
        PROVE  s \ {k} \in SUBSET (1 .. (k - 1)) /\ Max(s) = k
    <3>1. s # {} /\ k \in Nat /\ s \in SUBSET (1 .. k)
      BY <2>2
    <3>2. Max(s) \in s /\ k <= Max(s)
      BY <2>2, <3>1, GreatestIs
    <3>3. Max(s) \in 1 .. k
      BY <3>2
    <3> QED BY <3>1, <3>2, <3>3
  <2>3. ASSUME NEW s \in SUBSET (1 .. k), k \notin s PROVE s \in SUBSET (1 .. (k - 1))
    BY <2>3
  <2> DEFINE h == [s \in SUBSET (1 .. k) |->
                     IF k \in s THEN step[<<g[s \ {k}], k>>] ELSE g[s]]
  <2>4. h \in [SUBSET (1 .. k) -> X]
    <3>1. ASSUME NEW s \in SUBSET (1 .. k)
          PROVE  (IF k \in s THEN step[<<g[s \ {k}], k>>] ELSE g[s]) \in X
      <4>1. CASE k \in s
        <5>1. g[s \ {k}] \in X
          BY <2>2, <4>1
        <5> QED BY <4>1, <5>1
      <4>2. CASE k \notin s
        BY <2>3, <4>2
      <4> QED BY <4>1, <4>2
    <3> QED BY <3>1
  <2>5. ASSUME NEW s \in SUBSET (1 .. k)
        PROVE  h[s] = IF s = {} THEN base ELSE step[<<h[s \ {Max(s)}], Max(s)>>]
    <3>1. CASE k \in s
      <4>1. s \ {k} \in SUBSET (1 .. k) /\ k \notin s \ {k} /\ Max(s) = k
        BY <2>2, <3>1
      <4>2. h[s \ {k}] = g[s \ {k}]
        BY <4>1
      <4>3. h[s] = step[<<g[s \ {k}], k>>]
        BY <3>1
      <4> HIDE DEF h
      <4> QED BY <3>1, <4>1, <4>2, <4>3
    <3>2. CASE k \notin s
      <4>1. s \in SUBSET (1 .. (k - 1))
        BY <2>3, <3>2
      <4>2. g[s] = IF s = {} THEN base ELSE step[<<g[s \ {Max(s)}], Max(s)>>]
        BY <2>1, <4>1 DEF Folded
      <4>3. h[s] = g[s]
        BY <3>2
      <4>4. s \ {Max(s)} \in SUBSET (1 .. k) /\ k \notin s \ {Max(s)}
        BY <3>2
      <4>5. h[s \ {Max(s)}] = g[s \ {Max(s)}]
        BY <4>4
      <4> HIDE DEF h
      <4> QED BY <4>2, <4>3, <4>5
    <3> QED BY <3>1, <3>2
  <2>6. h = [s \in SUBSET (1 .. k) |->
               IF s = {} THEN base ELSE step[<<h[s \ {Max(s)}], Max(s)>>]]
    <3>1. h = [s \in SUBSET (1 .. k) |-> h[s]]
      OBVIOUS
    <3> HIDE DEF h
    <3> QED BY <2>5, <3>1
  <2> HIDE DEF h
  <2>7. Folded(h, k, base, step)
    BY <2>6 DEF Folded
  <2> QED BY <2>4, <2>7
<1>3. n \in 0 .. n
  OBVIOUS
<1>4. n \in S
  <2> HIDE DEF S
  <2> QED BY <1>1, <1>2, <1>3, AllAlong
<1> QED BY <1>4
=============================================================================

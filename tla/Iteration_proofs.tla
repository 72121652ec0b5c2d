-------------------------- MODULE Iteration_proofs --------------------------
(***************************************************************************)
(* Facts about what is computed step by step, for the proofs about batches *)
(* and lists: a set of numbers has a least element, a value computed from  *)
(* the one before exists for every number of steps, and what grows in      *)
(* every step grows.  Each is an induction, made by the least              *)
(* counterexample.                                                         *)
(***************************************************************************)
EXTENDS Integers, WellFoundedInduction, TLAPS

\* A non-empty set of numbers has a least element.
LEMMA LeastElement ==
  ASSUME NEW S \in SUBSET Nat, S # {}
  PROVE  \E i \in S : \A j \in S : i <= j
<1> DEFINE R == {ss \in Nat \X Nat : ss[1] < ss[2]}
<1>1. IsWellFoundedOn(R, Nat)
  BY NatLessThanWellFounded, Zenon DEF OpToRel
<1>2. PICK i \in S : \A j \in S : ~(<<j, i>> \in R)
  <2> HIDE DEF R
  <2> QED BY <1>1, WFMin
<1>3. \A j \in S : ~(j < i)
  BY <1>2
<1> QED BY <1>2, <1>3

\* f holds the values of L steps from "first", each from the value before.
Iteration(f, L, S, first, step) ==
    f \in [0..L -> S] /\ f[0] = first /\ \A n \in 1..L : f[n] = step[n][f[n - 1]]

\* Values computed one after the other exist.
LEMMA Iterates ==
  ASSUME NEW L \in Nat, NEW S, NEW first \in S, NEW step \in [1..L -> [S -> S]]
  PROVE  \E f : Iteration(f, L, S, first, step)
<1> DEFINE Bad == {m \in 0..L : ~ \E f : Iteration(f, m, S, first, step)}
<1>0. Bad \in SUBSET Nat
  OBVIOUS
<1>1. CASE Bad # {}
  <2>1. PICK m \in Bad : \A k \in Bad : m <= k
    <3> HIDE DEF Bad
    <3> QED BY <1>0, <1>1, LeastElement
  <2>2. m \in 0..L /\ ~ \E f : Iteration(f, m, S, first, step)
    OBVIOUS
  <2>3. m # 0
    <3> DEFINE f == [n \in 0..0 |-> first]
    <3>1. f \in [0..0 -> S] /\ f[0] = first /\ 1..0 = {}
      OBVIOUS
    <3> HIDE DEF f
    <3> QED BY <2>2, <3>1 DEF Iteration
  <2>4. m - 1 \in 0..L /\ m - 1 \notin Bad
    <3>1. m - 1 \in 0..L /\ ~(m <= m - 1)
      BY <2>2, <2>3
    <3> HIDE DEF Bad
    <3> QED BY <2>1, <3>1
  <2>5. PICK g : Iteration(g, m - 1, S, first, step)
    BY <2>4
  <2>6. g \in [0..m - 1 -> S] /\ g[0] = first /\ \A n \in 1..m - 1 : g[n] = step[n][g[n - 1]]
    BY <2>5 DEF Iteration
  <2> DEFINE f == [n \in 0..m |-> IF n = m THEN step[m][g[m - 1]] ELSE g[n]]
  <2>7. f \in [0..m -> S]
    <3>1. m \in 1..L /\ m - 1 \in 0..m - 1
      BY <2>2, <2>3
    <3>2. step[m][g[m - 1]] \in S
      BY <2>6, <3>1
    <3> QED BY <2>2, <2>6, <3>2
  <2>8. f[0] = first /\ \A n \in 1..m : f[n] = step[n][f[n - 1]]
    BY <2>2, <2>3, <2>6
  <2> HIDE DEF f
  <2> QED BY <2>2, <2>7, <2>8 DEF Iteration
<1>2. CASE Bad = {}
  <2>1. L \in 0..L
    OBVIOUS
  <2> QED BY <1>2, <2>1
<1> QED BY <1>1, <1>2

\* What grows from each number to the next grows over any distance.
LEMMA Rising ==
  ASSUME NEW L \in Nat, NEW f \in [0..L -> Nat], \A n \in 1..L : f[n - 1] <= f[n],
         NEW a \in 0..L, NEW b \in 0..L, a <= b
  PROVE  f[a] <= f[b]
<1> DEFINE Bad == {m \in 0..L : a <= m /\ ~(f[a] <= f[m])}
<1>0. Bad \in SUBSET Nat
  OBVIOUS
<1>1. CASE Bad # {}
  <2>1. PICK m \in Bad : \A k \in Bad : m <= k
    <3> HIDE DEF Bad
    <3> QED BY <1>0, <1>1, LeastElement
  <2>2. m \in 0..L /\ a <= m /\ ~(f[a] <= f[m]) /\ m # a
    OBVIOUS
  <2>3. m - 1 \in 0..L /\ m \in 1..L /\ a <= m - 1 /\ ~(m <= m - 1)
    BY <2>2
  <2>4. f[a] <= f[m - 1]
    BY <2>1, <2>3
  <2>5. f[m - 1] <= f[m] /\ f[a] \in Nat /\ f[m - 1] \in Nat /\ f[m] \in Nat
    BY <2>2, <2>3
  <2> QED BY <2>2, <2>4, <2>5
<1>2. CASE Bad = {}
  BY <1>2
<1> QED BY <1>1, <1>2

\* What grows by at most w in each step is at most w times the steps.
LEMMA Bounded ==
  ASSUME NEW L \in Nat, NEW f \in [0..L -> Nat], NEW w \in Nat, f[0] = 0,
         \A n \in 1..L : f[n] <= f[n - 1] + w,
         NEW b \in 0..L
  PROVE  f[b] <= w * b
<1> DEFINE Bad == {m \in 0..L : ~(f[m] <= w * m)}
<1>0. Bad \in SUBSET Nat
  OBVIOUS
<1>1. CASE Bad # {}
  <2>1. PICK m \in Bad : \A k \in Bad : m <= k
    <3> HIDE DEF Bad
    <3> QED BY <1>0, <1>1, LeastElement
  <2>2. m \in 0..L /\ ~(f[m] <= w * m)
    OBVIOUS
  <2>3. m # 0
    BY <2>2
  <2>4. m - 1 \in 0..L /\ m \in 1..L /\ ~(m <= m - 1)
    BY <2>2, <2>3
  <2>5. f[m - 1] <= w * (m - 1)
    BY <2>1, <2>4
  <2>6. w * m = w * (m - 1) + w /\ w * m \in Nat /\ w * (m - 1) \in Nat
    BY <2>4
  <2>7. f[m] <= f[m - 1] + w /\ f[m - 1] \in Nat /\ f[m] \in Nat
    BY <2>2, <2>4
  <2> QED BY <2>2, <2>5, <2>6, <2>7
<1>2. CASE Bad = {}
  BY <1>2
<1> QED BY <1>1, <1>2
=============================================================================

---------------------------- MODULE DataInduction ----------------------------
(***************************************************************************)
(* Induction over the natural numbers for the proofs of the components,    *)
(* stated of sets rather than of predicates: the least and the greatest    *)
(* number of a set, induction up to a bound, and that a function defined   *)
(* by recursion over a bounded range of numbers exists.                    *)
(***************************************************************************)
EXTENDS Integers, TLAPS, WellFoundedInduction

LEMMA LeastNumber ==
  ASSUME NEW S \in SUBSET Nat, S # {}
  PROVE  \E n \in S : \A m \in S : n <= m
<1>. DEFINE R == OpToRel(<, Nat)
<1>1. \A x, y \in Nat : <<y, x>> \in R <=> y < x
  BY DEF OpToRel
<1>2. IsWellFoundedOn(R, Nat)
  BY NatLessThanWellFounded
<1>. HIDE DEF R
<1>3. PICK x \in S : \A y \in S : <<y, x>> \notin R
  BY <1>2, WFMin
<1>4. ASSUME NEW m \in S PROVE x <= m
  <2>1. x \in Nat /\ m \in Nat
    OBVIOUS
  <2>2. ~(m < x)
    BY <1>1, <1>3, <2>1
  <2>. QED
    BY <2>1, <2>2
<1>. QED
  BY <1>4

LEMMA Induct ==
  ASSUME NEW S \in SUBSET Nat, 0 \in S, \A n \in S : n + 1 \in S
  PROVE  S = Nat
<1>1. SUFFICES ASSUME Nat \ S # {} PROVE FALSE
  OBVIOUS
<1>2. PICK n \in Nat \ S : \A m \in Nat \ S : n <= m
  BY <1>1, LeastNumber
<1>3. n - 1 \in S
  BY <1>2
<1>. QED
  BY <1>2, <1>3

LEMMA InductUpTo ==
  ASSUME NEW N \in Nat, NEW S, 0 \in S, \A n \in 0 .. N - 1 : n \in S => n + 1 \in S
  PROVE  0 .. N \subseteq S
<1>. DEFINE T == {n \in Nat : n <= N => n \in S}
<1>1. 0 \in T /\ \A n \in T : n + 1 \in T
  OBVIOUS
<1>2. T = Nat
  <2>. HIDE DEF T
  <2>1. T \in SUBSET Nat
    BY DEF T
  <2>. QED
    BY <1>1, <2>1, Induct
<1>. QED
  BY <1>2

LEMMA GreatestNumber ==
  ASSUME NEW N \in Nat, NEW S \in SUBSET (0 .. N), S # {}
  PROVE  \E n \in S : \A m \in S : m <= n
<1>. DEFINE T == {N - n : n \in S}
<1>1. PICK k \in T : \A j \in T : k <= j
  <2>1. T \in SUBSET Nat /\ T # {}
    <3>1. \A n \in S : N - n \in Nat
      OBVIOUS
    <3>. QED
      BY <3>1
  <2>. HIDE DEF T
  <2>. QED
    BY <2>1, LeastNumber
<1>2. PICK n \in S : k = N - n
  <2>1. k \in T
    BY <1>1
  <2>. QED
    BY <2>1
<1>3. ASSUME NEW m \in S PROVE m <= n
  <2>1. N - m \in T /\ m \in 0 .. N /\ n \in 0 .. N
    OBVIOUS
  <2>2. k <= N - m
    BY <1>1, <2>1
  <2>. HIDE DEF T
  <2>. QED
    BY <1>2, <2>1, <2>2
<1>. QED
  BY <1>3

\* The values that a step g from values to values leads to from a.
Iterates(f, N, V, a, g) ==
  f \in [0 .. N -> V] /\ f[0] = a /\ \A n \in 1 .. N : f[n] = g[<<n, f[n - 1]>>]

LEMMA Recursion ==
  ASSUME NEW N \in Nat, NEW V, NEW a \in V, NEW g \in [(1 .. N) \X V -> V]
  PROVE  \E f : Iterates(f, N, V, a, g)
<1>. DEFINE Upto(f, k) == /\ f \in [0 .. k -> V] /\ f[0] = a
                          /\ \A n \in 1 .. k : f[n] = g[<<n, f[n - 1]>>]
            S == {k \in 0 .. N : \E f : Upto(f, k)}
<1>1. 0 \in S
  <2>. DEFINE h == [n \in 0 .. 0 |-> a]
  <2>1. h \in [0 .. 0 -> V] /\ h[0] = a /\ 1 .. 0 = {}
    OBVIOUS
  <2>2. Upto(h, 0)
    BY <2>1
  <2>. HIDE DEF Upto
  <2>. QED
    BY <2>2
<1>2. ASSUME NEW k \in 0 .. N - 1, k \in S PROVE k + 1 \in S
  <2>1. PICK f : Upto(f, k)
    BY <1>2
  <2>. DEFINE next == g[<<k + 1, f[k]>>]
              h == [n \in 0 .. k + 1 |-> IF n = k + 1 THEN next ELSE f[n]]
  <2>2. next \in V
    <3>1. <<k + 1, f[k]>> \in (1 .. N) \X V
      BY <2>1
    <3>. QED
      BY <3>1
  <2>3. h \in [0 .. k + 1 -> V] /\ h[0] = a
    BY <2>1, <2>2
  <2>4. ASSUME NEW n \in 1 .. k + 1 PROVE h[n] = g[<<n, h[n - 1]>>]
    <3>1. h[n - 1] = f[n - 1] /\ (n = k + 1 => n - 1 = k)
      OBVIOUS
    <3>2. CASE n = k + 1
      <4>1. h[n] = next /\ h[n - 1] = f[k]
        BY <3>1, <3>2
      <4>. QED
        BY <3>2, <4>1
    <3>3. CASE n # k + 1
      <4>1. n \in 1 .. k /\ h[n] = f[n]
        BY <3>3
      <4>. QED
        BY <2>1, <3>1, <4>1
    <3>. QED
      BY <3>2, <3>3
  <2>5. Upto(h, k + 1)
    <3>. HIDE DEF h
    <3>. QED
      BY <2>3, <2>4
  <2>. QED
    <3>. HIDE DEF Upto
    <3>. QED
      BY <2>5
<1>3. N \in S
  <2>. HIDE DEF S
  <2>. QED
    BY <1>1, <1>2, InductUpTo
<1>. QED
  BY <1>3 DEF Iterates
=============================================================================

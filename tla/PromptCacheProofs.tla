-------------------------- MODULE PromptCacheProofs --------------------------
(***************************************************************************)
(* Theorems about PromptCache, and about the stores of CacheStore.         *)
(***************************************************************************)
EXTENDS PromptCache, DataInduction, FiniteSetTheorems, TLAPS

-----------------------------------------------------------------------------
(* Orders of use. *)

LEMMA EmptyLine == Line(<<>>, {})
BY DEF Line

LEMMA AppendLine ==
  ASSUME NEW K, NEW s, Line(s, K), NEW k, k \notin K
  PROVE  Line(Append(s, k), K \cup {k})
<1>. DEFINE t == Append(s, k)
<1>0. s \in Seq(K) /\ s \in Seq(K \cup {k}) /\ Len(s) \in Nat
  BY DEF Line
<1>1. /\ t \in Seq(K \cup {k}) /\ Len(t) = Len(s) + 1 /\ t[Len(s) + 1] = k
      /\ \A i \in 1 .. Len(s) : t[i] = s[i] /\ s[i] \in K
  BY <1>0
<1>. HIDE DEF t
<1>2. ASSUME NEW i \in 1 .. Len(t), NEW j \in 1 .. Len(t), t[i] = t[j] PROVE i = j
  <2>1. \A n \in 1 .. Len(t) : n \in 1 .. Len(s) \/ n = Len(s) + 1
    BY <1>0, <1>1
  <2>2. CASE i \in 1 .. Len(s) /\ j \in 1 .. Len(s)
    BY <1>1, <1>2, <2>2 DEF Line
  <2>. QED
    BY <1>1, <1>2, <2>1, <2>2
<1>3. ASSUME NEW m \in K \cup {k} PROVE \E i \in 1 .. Len(t) : t[i] = m
  <2>1. Len(s) + 1 \in 1 .. Len(t) /\ \A i \in 1 .. Len(s) : i \in 1 .. Len(t)
    BY <1>0, <1>1
  <2>. QED
    BY <1>1, <2>1 DEF Line
<1>4. Line(t, K \cup {k})
  BY <1>1, <1>2, <1>3 DEF Line
<1>. QED
  BY <1>4 DEF t

IsKept(lru, key, kept) ==
  kept = [n \in 0 .. Len(lru) |->
            IF n = 0 THEN <<>>
            ELSE IF lru[n] = key THEN kept[n - 1] ELSE Append(kept[n - 1], lru[n])]

LEMMA KeptExists ==
  ASSUME NEW K, NEW lru \in Seq(K), NEW key
  PROVE  \E kept : IsKept(lru, key, kept)
<1>. DEFINE N == Len(lru)
            V == Seq(K)
            next == [x \in (1 .. N) \X V |->
                       IF lru[x[1]] = key THEN x[2] ELSE Append(x[2], lru[x[1]])]
<1>1. N \in Nat /\ <<>> \in V
  OBVIOUS
<1>2. ASSUME NEW n \in 1 .. N, NEW s \in V PROVE Append(s, lru[n]) \in V
  <2>1. lru[n] \in K
    OBVIOUS
  <2>. QED
    BY <2>1
<1>. HIDE DEF N, V
<1>3. next \in [(1 .. N) \X V -> V]
  BY <1>2
<1>4. PICK f : Iterates(f, N, V, <<>>, next)
  <2>. HIDE DEF next
  <2>. QED
    BY <1>1, <1>3, Recursion
<1>5. ASSUME NEW n \in 1 .. N
      PROVE  f[n] = IF lru[n] = key THEN f[n - 1] ELSE Append(f[n - 1], lru[n])
  <2>1. f[n - 1] \in V /\ <<n, f[n - 1]>> \in (1 .. N) \X V
    BY <1>1, <1>4 DEF Iterates
  <2>2. f[n] = next[<<n, f[n - 1]>>]
    BY <1>4 DEF Iterates
  <2>. QED
    BY <2>1, <2>2
<1>6. DOMAIN f = 0 .. N /\ f[0] = <<>> /\ f = [n \in 0 .. N |-> f[n]]
  BY <1>4 DEF Iterates
<1>7. f = [n \in 0 .. N |-> IF n = 0 THEN <<>>
                           ELSE IF lru[n] = key THEN f[n - 1] ELSE Append(f[n - 1], lru[n])]
  <2>1. \A n \in 0 .. N : n = 0 \/ n \in 1 .. N
    BY <1>1
  <2>. QED
    BY <1>5, <1>6, <2>1
<1>8. IsKept(lru, key, f)
  BY <1>7 DEF IsKept, N
<1>. QED
  BY <1>8

\* Without its key, an order of use names the others.
LEMMA WithoutLine ==
  ASSUME NEW K, NEW lru, Line(lru, K), NEW key
  PROVE  Line(Without(lru, key), K \ {key})
<1>. DEFINE N == Len(lru)
            upto(n) == {lru[i] : i \in 1 .. n}
<1>0. lru \in Seq(K) /\ N \in Nat
  BY DEF Line
<1>1. PICK kept : IsKept(lru, key, kept) /\ Without(lru, key) = kept[N]
  <2>1. \E kept : IsKept(lru, key, kept)
    BY <1>0, KeptExists
  <2>2. Without(lru, key) = (CHOOSE kept : IsKept(lru, key, kept))[N]
    BY DEF Without, IsKept
  <2>. QED
    BY <2>1, <2>2
<1>. DEFINE S == {n \in 0 .. N : Line(kept[n], upto(n) \ {key})}
<1>2. 0 \in S
  <2>1. upto(0) \ {key} = {} /\ kept[0] = <<>>
    BY <1>0, <1>1 DEF IsKept
  <2>2. Line(kept[0], upto(0) \ {key}) /\ 0 \in 0 .. N
    BY <1>0, <2>1, EmptyLine
  <2>. QED
    BY <2>2
<1>3. ASSUME NEW n \in 0 .. N - 1, n \in S PROVE n + 1 \in S
  <2>0. n + 1 \in 0 .. N /\ n + 1 # 0 /\ (n + 1) - 1 = n
    BY <1>0
  <2>1. /\ Line(kept[n], upto(n) \ {key})
        /\ kept[n + 1] = IF lru[n + 1] = key THEN kept[n] ELSE Append(kept[n], lru[n + 1])
    <3>1. kept[n + 1] = IF lru[n + 1] = key THEN kept[n] ELSE Append(kept[n], lru[n + 1])
      BY <1>1, <2>0 DEF IsKept
    <3>. QED
      BY <1>3, <3>1
  <2>2. upto(n + 1) = upto(n) \cup {lru[n + 1]}
    <3>1. \A i : i \in 1 .. n + 1 <=> i \in 1 .. n \/ i = n + 1
      BY <1>0
    <3>. QED
      BY <3>1
  <2>3. lru[n + 1] \notin upto(n)
    <3>1. \A i \in 1 .. n : i \in 1 .. N /\ n + 1 \in 1 .. N /\ i # n + 1
      BY <1>0
    <3>. QED
      BY <3>1 DEF Line
  <2>. HIDE DEF upto
  <2>4. CASE lru[n + 1] = key
    <3>1. upto(n + 1) \ {key} = upto(n) \ {key}
      BY <2>2, <2>4
    <3>. QED
      BY <2>0, <2>1, <2>4, <3>1
  <2>5. CASE lru[n + 1] # key
    <3>1. upto(n + 1) \ {key} = (upto(n) \ {key}) \cup {lru[n + 1]}
      BY <2>2, <2>5
    <3>2. Line(kept[n + 1], upto(n + 1) \ {key})
      BY <2>1, <2>3, <2>5, <3>1, AppendLine
    <3>. QED
      BY <2>0, <3>2
  <2>. QED
    BY <2>4, <2>5
<1>4. N \in S
  <2>1. N \in Nat /\ N \in 0 .. N
    BY <1>0
  <2>. HIDE DEF S, N
  <2>. QED
    BY <1>2, <1>3, <2>1, InductUpTo
<1>5. upto(N) = K
  BY <1>0 DEF Line
<1>6. Line(kept[N], upto(N) \ {key})
  BY <1>4
<1>. QED
  BY <1>1, <1>5, <1>6

LEMMA TouchLine ==
  ASSUME NEW K, NEW lru, Line(lru, K), NEW key
  PROVE  Line(Touch(lru, key), K \cup {key})
<1>1. (K \ {key}) \cup {key} = K \cup {key}
  OBVIOUS
<1>. QED
  BY <1>1, WithoutLine, AppendLine DEF Touch

LEMMA LineCounts ==
  ASSUME NEW K, NEW s, Line(s, K)
  PROVE  IsFiniteSet(K) /\ Cardinality(K) = Len(s) /\ Len(s) \in Nat
<1>1. Len(s) \in Nat
  BY DEF Line
<1>. DEFINE f == [i \in 1 .. Len(s) |-> s[i]]
<1>2. f \in Bijection(1 .. Len(s), K)
  <2>1. f \in [1 .. Len(s) -> K]
    BY DEF Line
  <2>2. \A i, j \in 1 .. Len(s) : f[i] = f[j] => i = j
    BY DEF Line
  <2>3. \A k \in K : \E i \in 1 .. Len(s) : f[i] = k
    BY DEF Line
  <2>. HIDE DEF f
  <2>4. f \in Injection(1 .. Len(s), K)
    BY <2>1, <2>2 DEF Injection, IsInjective
  <2>5. f \in Surjection(1 .. Len(s), K)
    BY <2>1, <2>3 DEF Surjection
  <2>. QED
    BY <2>4, <2>5 DEF Bijection
<1>3. ExistsBijection(1 .. Len(s), K)
  BY <1>2 DEF ExistsBijection
<1>. QED
  BY <1>1, <1>3, FS_CountingElements, FS_NatBijection

\* What is left of an order of use when keys are taken from its front.
LEMMA RestLine ==
  ASSUME NEW K, NEW s, Line(s, K), NEW n \in 0 .. Len(s)
  PROVE  Line(SubSeq(s, n + 1, Len(s)), K \ {s[i] : i \in 1 .. n})
<1>. DEFINE t == SubSeq(s, n + 1, Len(s))
            left == K \ {s[i] : i \in 1 .. n}
<1>0. s \in Seq(K) /\ Len(s) \in Nat /\ n \in Nat
  BY DEF Line
<1>1. /\ t \in Seq(K) /\ Len(t) = Len(s) - n
      /\ \A i \in 1 .. Len(s) - n : t[i] = s[n + i]
  BY <1>0
<1>. HIDE DEF t
<1>2. \A i \in 1 .. Len(t) :
        /\ n + i \in 1 .. Len(s) /\ n + i \notin 1 .. n /\ t[i] = s[n + i]
  BY <1>0, <1>1
<1>3. ASSUME NEW i \in 1 .. Len(t) PROVE t[i] \in left
  <2>1. n + i \in 1 .. Len(s) /\ s[n + i] \in K
    BY <1>0, <1>2
  <2>2. \A j \in 1 .. n : j \in 1 .. Len(s) /\ j # n + i
    BY <1>0, <1>2
  <2>3. \A j \in 1 .. n : s[j] # s[n + i]
    BY <2>1, <2>2 DEF Line
  <2>. QED
    BY <1>2, <2>1, <2>3
<1>4. t \in Seq(left)
  <2>. HIDE DEF left
  <2>. QED
    BY <1>1, <1>3
<1>5. ASSUME NEW i \in 1 .. Len(t), NEW j \in 1 .. Len(t), t[i] = t[j] PROVE i = j
  <2>1. n + i = n + j
    <3>1. n + i \in 1 .. Len(s) /\ n + j \in 1 .. Len(s) /\ s[n + i] = s[n + j]
      BY <1>2, <1>5
    <3>. QED
      BY <3>1 DEF Line
  <2>. QED
    BY <1>0, <1>1, <2>1
<1>6. ASSUME NEW k \in left PROVE \E i \in 1 .. Len(t) : t[i] = k
  <2>1. PICK j \in 1 .. Len(s) : s[j] = k
    BY DEF Line
  <2>2. j \notin 1 .. n
    BY <2>1
  <2>3. j - n \in 1 .. Len(t) /\ n + (j - n) = j
    BY <1>0, <1>1, <2>2
  <2>. QED
    BY <1>1, <2>1, <2>3
<1>7. Line(t, left)
  BY <1>4, <1>5, <1>6 DEF Line
<1>. QED
  BY <1>7 DEF t

-----------------------------------------------------------------------------
(* The order of the keys of a store. *)

\* Each key of the order is related to the ones behind it.
Sorted(lru, R) ==
  \A a, b \in 1 .. Len(lru) : a < b => <<lru[a], lru[b]>> \in R

LEMMA WithoutSorted ==
  ASSUME NEW K, NEW lru, Line(lru, K), NEW key, NEW R, Sorted(lru, R)
  PROVE  Sorted(Without(lru, key), R)
<1>. DEFINE N == Len(lru)
<1>0. lru \in Seq(K) /\ N \in Nat
  BY DEF Line
<1>1. PICK kept : IsKept(lru, key, kept) /\ Without(lru, key) = kept[N]
  <2>1. \E kept : IsKept(lru, key, kept)
    BY <1>0, KeptExists
  <2>2. Without(lru, key) = (CHOOSE kept : IsKept(lru, key, kept))[N]
    BY DEF Without, IsKept
  <2>. QED
    BY <2>1, <2>2
<1>. DEFINE From(w, n) == /\ w \in Seq(K) /\ Sorted(w, R)
                          /\ \A a \in 1 .. Len(w) : \E i \in 1 .. n : w[a] = lru[i]
            S == {n \in 0 .. N : From(kept[n], n)}
<1>2. 0 \in S
  <2>1. kept[0] = <<>>
    BY <1>0, <1>1 DEF IsKept
  <2>2. From(kept[0], 0)
    BY <2>1 DEF Sorted
  <2>. QED
    BY <1>0, <2>2
<1>3. ASSUME NEW n \in 0 .. N - 1, n \in S PROVE n + 1 \in S
  <2>0. n + 1 \in 0 .. N /\ n + 1 \in 1 .. N /\ n + 1 # 0 /\ (n + 1) - 1 = n
    BY <1>0
  <2>1. /\ From(kept[n], n)
        /\ kept[n + 1] = IF lru[n + 1] = key THEN kept[n] ELSE Append(kept[n], lru[n + 1])
    <3>1. kept[n + 1] = IF lru[n + 1] = key THEN kept[n] ELSE Append(kept[n], lru[n + 1])
      BY <1>1, <2>0 DEF IsKept
    <3>. QED
      BY <1>3, <3>1
  <2>2. \A i \in 1 .. n : i \in 1 .. n + 1 /\ i \in 1 .. N /\ i < n + 1
    BY <1>0
  <2>3. CASE lru[n + 1] = key
    <3>1. From(kept[n + 1], n + 1)
      BY <2>1, <2>2, <2>3
    <3>. QED
      BY <2>0, <3>1
  <2>4. CASE lru[n + 1] # key
    <3>1. PICK w : w = kept[n]
      OBVIOUS
    <3>2. w \in Seq(K) /\ Sorted(w, R) /\ \A a \in 1 .. Len(w) : \E i \in 1 .. n : w[a] = lru[i]
      BY <2>1, <3>1
    <3>3. PICK v : v = kept[n + 1]
      OBVIOUS
    <3>4. v = Append(w, lru[n + 1]) /\ lru[n + 1] \in K
      BY <1>0, <2>0, <2>1, <2>4, <3>1, <3>3
    <3>5. /\ v \in Seq(K) /\ Len(v) = Len(w) + 1 /\ Len(w) \in Nat
          /\ v[Len(w) + 1] = lru[n + 1] /\ \A a \in 1 .. Len(w) : v[a] = w[a]
      BY <3>2, <3>4
    <3>6. ASSUME NEW a \in 1 .. Len(v), NEW b \in 1 .. Len(v), a < b
          PROVE  <<v[a], v[b]>> \in R
      <4>1. a \in 1 .. Len(w) /\ (b \in 1 .. Len(w) \/ b = Len(w) + 1)
        BY <3>5, <3>6
      <4>2. CASE b \in 1 .. Len(w)
        BY <3>2, <3>5, <3>6, <4>1, <4>2 DEF Sorted
      <4>3. CASE b = Len(w) + 1
        <5>1. PICK i \in 1 .. n : w[a] = lru[i]
          BY <3>2, <4>1
        <5>2. <<lru[i], lru[n + 1]>> \in R
          BY <2>0, <2>2, <5>1 DEF Sorted
        <5>. QED
          BY <3>5, <4>1, <4>3, <5>1, <5>2
      <4>. QED
        BY <4>1, <4>2, <4>3
    <3>7. Sorted(v, R)
      BY <3>6 DEF Sorted
    <3>8. ASSUME NEW a \in 1 .. Len(v) PROVE \E i \in 1 .. n + 1 : v[a] = lru[i]
      <4>1. a \in 1 .. Len(w) \/ a = Len(w) + 1
        BY <3>5
      <4>2. n + 1 \in 1 .. n + 1
        BY <2>0
      <4>. QED
        BY <2>2, <3>2, <3>5, <4>1, <4>2
    <3>9. From(kept[n + 1], n + 1)
      BY <3>3, <3>5, <3>7, <3>8
    <3>. QED
      BY <2>0, <3>9
  <2>. QED
    BY <2>3, <2>4
<1>4. N \in S
  <2>1. N \in Nat /\ N \in 0 .. N
    BY <1>0
  <2>. HIDE DEF S, N
  <2>. QED
    BY <1>2, <1>3, <2>1, InductUpTo
<1>5. From(kept[N], N)
  BY <1>4
<1>. QED
  BY <1>1, <1>5

\* The key used comes last.
LEMMA TouchSorted ==
  ASSUME NEW K, NEW lru, Line(lru, K), NEW key, NEW R, NEW Q, Sorted(lru, R),
         \A j, k \in K \ {key} : <<j, k>> \in R => <<j, k>> \in Q,
         \A k \in K \ {key} : <<k, key>> \in Q
  PROVE  Sorted(Touch(lru, key), Q)
<1>1. PICK w : w = Without(lru, key)
  OBVIOUS
<1>2. Line(w, K \ {key}) /\ Sorted(w, R)
  BY <1>1, WithoutLine, WithoutSorted
<1>3. PICK v : v = Touch(lru, key)
  OBVIOUS
<1>4. w \in Seq(K \ {key}) /\ v = Append(w, key)
  BY <1>1, <1>2, <1>3 DEF Touch, Line
<1>5. /\ Len(w) \in Nat /\ Len(v) = Len(w) + 1 /\ v[Len(w) + 1] = key
      /\ \A a \in 1 .. Len(w) : v[a] = w[a] /\ w[a] \in K \ {key}
  BY <1>4
<1>6. ASSUME NEW a \in 1 .. Len(v), NEW b \in 1 .. Len(v), a < b
      PROVE  <<v[a], v[b]>> \in Q
  <2>1. a \in 1 .. Len(w) /\ (b \in 1 .. Len(w) \/ b = Len(w) + 1)
    BY <1>5, <1>6
  <2>2. CASE b \in 1 .. Len(w)
    BY <1>2, <1>5, <1>6, <2>1, <2>2 DEF Sorted
  <2>3. CASE b = Len(w) + 1
    BY <1>5, <2>1, <2>3
  <2>. QED
    BY <2>1, <2>2, <2>3
<1>. QED
  BY <1>3, <1>6 DEF Sorted

LEMMA RestSorted ==
  ASSUME NEW K, NEW s \in Seq(K), NEW n \in 0 .. Len(s), NEW R, Sorted(s, R)
  PROVE  Sorted(SubSeq(s, n + 1, Len(s)), R)
<1>1. PICK t : t = SubSeq(s, n + 1, Len(s))
  OBVIOUS
<1>2. /\ n \in Nat /\ Len(s) \in Nat /\ Len(t) = Len(s) - n
      /\ \A i \in 1 .. Len(s) - n : t[i] = s[n + i] /\ n + i \in 1 .. Len(s)
  BY <1>1
<1>3. ASSUME NEW a \in 1 .. Len(t), NEW b \in 1 .. Len(t), a < b
      PROVE  <<t[a], t[b]>> \in R
  <2>1. n + a \in 1 .. Len(s) /\ n + b \in 1 .. Len(s) /\ n + a < n + b
    BY <1>2, <1>3
  <2>2. <<s[n + a], s[n + b]>> \in R
    BY <2>1 DEF Sorted
  <2>3. t[a] = s[n + a] /\ t[b] = s[n + b]
    BY <1>2
  <2>. QED
    BY <2>2, <2>3
<1>. QED
  BY <1>1, <1>3 DEF Sorted

-----------------------------------------------------------------------------
(* The operations of a store. *)

\* What a store holds after an operation, it held before.
Within(new, store) ==
  /\ DOMAIN new.entries \subseteq DOMAIN store.entries
  /\ \A k \in DOMAIN new.entries : new.entries[k] = store.entries[k]

LEMMA GetEffect ==
  ASSUME NEW store, NEW max \in Nat, Ordered(store, max), NEW key, NEW t
  PROVE  Ordered(AfterGet(store, key, t), max) /\ Within(AfterGet(store, key, t), store)
<1>. DEFINE K == DOMAIN store.entries
            new == AfterGet(store, key, t)
<1>0. /\ Line(store.lru, K) /\ Len(store.lru) <= max
      /\ store = [entries |-> store.entries, lru |-> store.lru]
  BY DEF Ordered
<1>1. CASE Hit(store, key, t)
  <2>1. K \cup {key} = K
    BY <1>1 DEF Hit, Holds
  <2>2. Line(Touch(store.lru, key), K)
    BY <1>0, <2>1, TouchLine
  <2>3. Len(Touch(store.lru, key)) = Len(store.lru)
    BY <1>0, <2>2, LineCounts
  <2>4. new = [entries |-> store.entries, lru |-> Touch(store.lru, key)]
    BY <1>0, <1>1 DEF AfterGet
  <2>. QED
    BY <1>0, <2>2, <2>3, <2>4 DEF Ordered, Within
<1>2. CASE ~Hit(store, key, t) /\ Expired(store, key, t)
  <2>1. new = [entries |-> [k \in K \ {key} |-> store.entries[k]],
               lru |-> Without(store.lru, key)]
    BY <1>2 DEF AfterGet
  <2>2. Line(Without(store.lru, key), K \ {key})
    BY <1>0, WithoutLine
  <2>3. Len(Without(store.lru, key)) <= max
    <3>1. /\ IsFiniteSet(K) /\ Cardinality(K) = Len(store.lru) /\ Len(store.lru) \in Nat
          /\ Cardinality(K \ {key}) = Len(Without(store.lru, key))
      BY <1>0, <2>2, LineCounts
    <3>2. Cardinality(K \ {key}) = IF key \in K THEN Cardinality(K) - 1 ELSE Cardinality(K)
      BY <3>1, FS_RemoveElement
    <3>. QED
      BY <1>0, <3>1, <3>2
  <2>. QED
    BY <2>1, <2>2, <2>3 DEF Ordered, Within
<1>3. CASE ~Hit(store, key, t) /\ ~Expired(store, key, t)
  BY <1>3 DEF AfterGet, Within
<1>. QED
  BY <1>1, <1>2, <1>3

LEMMA InsertEffect ==
  ASSUME NEW store, NEW max \in Nat \ {0}, Ordered(store, max), NEW key, NEW value, NEW expires
  PROVE  LET new == AfterInsert(store, key, value, expires, max)
         IN  /\ Ordered(new, max)
             /\ \A k \in DOMAIN new.entries :
                  \/ k = key /\ new.entries[k] = [value |-> value, expires |-> expires]
                  \/ /\ k # key /\ k \in DOMAIN store.entries
                     /\ new.entries[k] = store.entries[k]
<1>. DEFINE entries == [k \in {key} \cup DOMAIN store.entries |->
                          IF k = key THEN [value |-> value, expires |-> expires]
                          ELSE store.entries[k]]
            lru == Touch(store.lru, key)
            left(n) == DOMAIN entries \ {lru[i] : i \in 1 .. n}
            I == {i \in 0 .. Len(lru) : Cardinality(left(i)) <= max \/ i = Len(lru)}
            new == AfterInsert(store, key, value, expires, max)
<1>1. Line(lru, DOMAIN entries)
  <2>1. DOMAIN entries = DOMAIN store.entries \cup {key}
    OBVIOUS
  <2>. QED
    BY <2>1, TouchLine DEF Ordered
<1>2. new = [entries |-> [k \in left(Min(I)) |-> entries[k]],
             lru |-> SubSeq(lru, Min(I) + 1, Len(lru))]
  BY DEF AfterInsert
<1>3. \A k \in DOMAIN entries :
        \/ k = key /\ entries[k] = [value |-> value, expires |-> expires]
        \/ k # key /\ k \in DOMAIN store.entries /\ entries[k] = store.entries[k]
  OBVIOUS
<1>. HIDE DEF entries, lru, new
<1>4. Len(lru) \in Nat
  BY <1>1, LineCounts
<1>5. Min(I) \in I
  <2>1. I \in SUBSET Nat /\ Len(lru) \in I
    BY <1>4
  <2>2. \E n \in I : \A m \in I : n <= m
    <3>. HIDE DEF I
    <3>. QED
      BY <2>1, LeastNumber
  <2>. QED
    BY <2>2 DEF Min
<1>. DEFINE n == Min(I)
<1>6. n \in 0 .. Len(lru) /\ (Cardinality(left(n)) <= max \/ n = Len(lru))
  BY <1>5
<1>. HIDE DEF n, I
<1>7. Line(SubSeq(lru, n + 1, Len(lru)), left(n))
  BY <1>1, <1>6, RestLine
<1>8. Len(SubSeq(lru, n + 1, Len(lru))) <= max
  <2>1. Cardinality(left(n)) = Len(SubSeq(lru, n + 1, Len(lru)))
    BY <1>7, LineCounts
  <2>2. CASE n = Len(lru)
    <3>1. Len(SubSeq(lru, n + 1, Len(lru))) = 0
      BY <1>1, <1>4, <2>2 DEF Line
    <3>2. 0 <= max
      OBVIOUS
    <3>. QED
      BY <3>1, <3>2
  <2>. QED
    BY <1>6, <2>1, <2>2
<1>9. /\ new.lru = SubSeq(lru, n + 1, Len(lru)) /\ new.entries = [k \in left(n) |-> entries[k]]
      /\ new = [entries |-> new.entries, lru |-> new.lru]
  BY <1>2 DEF n
<1>10. Ordered(new, max)
  BY <1>7, <1>8, <1>9 DEF Ordered
<1>11. \A k \in DOMAIN new.entries : k \in DOMAIN entries /\ new.entries[k] = entries[k]
  BY <1>9
<1>12. \A k \in DOMAIN new.entries :
         \/ k = key /\ new.entries[k] = [value |-> value, expires |-> expires]
         \/ k # key /\ k \in DOMAIN store.entries /\ new.entries[k] = store.entries[k]
  BY <1>3, <1>11
<1>. QED
  BY <1>10, <1>12 DEF new

\* A lookup that finds nothing keeps the order.
LEMMA MissSorted ==
  ASSUME NEW store, NEW max \in Nat, Ordered(store, max), NEW key, NEW t, NEW R,
         Sorted(store.lru, R), ~Hit(store, key, t)
  PROVE  /\ Sorted(AfterGet(store, key, t).lru, R)
         /\ DOMAIN AfterGet(store, key, t).entries =
              IF Expired(store, key, t) THEN DOMAIN store.entries \ {key} ELSE DOMAIN store.entries
<1>1. CASE Expired(store, key, t)
  <2>1. Sorted(Without(store.lru, key), R)
    BY WithoutSorted DEF Ordered
  <2>2. AfterGet(store, key, t) =
          [entries |-> [k \in DOMAIN store.entries \ {key} |-> store.entries[k]],
           lru |-> Without(store.lru, key)]
    BY <1>1 DEF AfterGet
  <2>. QED
    BY <1>1, <2>1, <2>2
<1>2. CASE ~Expired(store, key, t)
  BY <1>2 DEF AfterGet
<1>. QED
  BY <1>1, <1>2

\* A store without the first n keys of an order, none of which there was room for.
Cut(store, K, lru, n, max) ==
  /\ store.lru = SubSeq(lru, n + 1, Len(lru))
  /\ DOMAIN store.entries = K \ {lru[i] : i \in 1 .. n}
  /\ n = 0 \/ Len(lru) - n >= max

\* What an insertion of the key makes of a store: the key comes last in the order
\* of them all, and keys in excess are taken from the front.
After(store, K, lru, key, max) ==
  /\ Line(lru, K) /\ Len(lru) \in Nat /\ lru[Len(lru)] = key
  /\ \E n \in 0 .. Len(lru) - 1 : Cut(store, K, lru, n, max)

\* An insertion takes from the front of the order what exceeds max, and no more.
LEMMA InsertSplit ==
  ASSUME NEW store, NEW max \in Nat \ {0}, Ordered(store, max), NEW key, NEW value, NEW expires,
         NEW new, new = AfterInsert(store, key, value, expires, max),
         NEW lru, lru = Touch(store.lru, key),
         NEW K, K = DOMAIN store.entries \cup {key}
  PROVE  After(new, K, lru, key, max)
<1>. DEFINE entries == [k \in {key} \cup DOMAIN store.entries |->
                          IF k = key THEN [value |-> value, expires |-> expires]
                          ELSE store.entries[k]]
            left(n) == DOMAIN entries \ {lru[i] : i \in 1 .. n}
            I == {i \in 0 .. Len(lru) : Cardinality(left(i)) <= max \/ i = Len(lru)}
<1>1. DOMAIN entries = K /\ Line(lru, K)
  BY TouchLine DEF Ordered
<1>2. new = [entries |-> [k \in left(Min(I)) |-> entries[k]],
             lru |-> SubSeq(lru, Min(I) + 1, Len(lru))]
  BY DEF AfterInsert
<1>3. key \in K /\ lru[Len(lru)] = key
  <2>1. Without(store.lru, key) \in Seq(DOMAIN store.entries \ {key})
    BY WithoutLine DEF Ordered, Line
  <2>. QED
    BY <2>1 DEF Touch
<1>. HIDE DEF entries
<1>4. Len(lru) \in Nat /\ Len(lru) # 0
  <2>1. Len(lru) \in Nat
    BY <1>1, LineCounts
  <2>2. \E i \in 1 .. Len(lru) : lru[i] = key
    BY <1>1, <1>3 DEF Line
  <2>. QED
    BY <2>1, <2>2
<1>5. ASSUME NEW i \in 0 .. Len(lru) PROVE Cardinality(left(i)) = Len(lru) - i
  <2>1. Line(SubSeq(lru, i + 1, Len(lru)), K \ {lru[j] : j \in 1 .. i})
    BY <1>1, RestLine
  <2>2. Cardinality(left(i)) = Len(SubSeq(lru, i + 1, Len(lru)))
    BY <1>1, <2>1, LineCounts
  <2>3. Len(SubSeq(lru, i + 1, Len(lru))) = Len(lru) - i
    <3>1. lru \in Seq(K)
      BY <1>1 DEF Line
    <3>. QED
      BY <1>4, <3>1
  <2>. QED
    BY <2>2, <2>3
<1>6. /\ I \in SUBSET Nat
      /\ \A i \in 0 .. Len(lru) : i \in I <=> Len(lru) - i <= max \/ i = Len(lru)
  <2>. HIDE DEF left
  <2>. QED
    BY <1>4, <1>5
<1>. HIDE DEF I
<1>7. Len(lru) - 1 \in I /\ Len(lru) - 1 \in 0 .. Len(lru)
  BY <1>4, <1>6
<1>8. Min(I) \in I /\ \A i \in I : Min(I) <= i
  <2>1. \E n \in I : \A m \in I : n <= m
    BY <1>6, <1>7, LeastNumber
  <2>. QED
    BY <2>1 DEF Min
<1>. DEFINE n == Min(I)
<1>9. n \in 0 .. Len(lru) - 1
  <2>1. n \in Nat /\ n <= Len(lru) - 1
    BY <1>6, <1>7, <1>8
  <2>. HIDE DEF n
  <2>. QED
    BY <1>4, <2>1
<1>10. n = 0 \/ Len(lru) - n >= max
  <2>1. SUFFICES ASSUME n # 0 PROVE Len(lru) - n >= max
    OBVIOUS
  <2>2. n - 1 \notin I /\ n - 1 \in 0 .. Len(lru)
    BY <1>4, <1>8, <1>9, <2>1
  <2>. QED
    BY <1>4, <1>6, <1>9, <2>2
<1>11. Cut(new, K, lru, n, max)
  <2>1. new.lru = SubSeq(lru, n + 1, Len(lru)) /\ DOMAIN new.entries = left(n)
    <3>1. PICK kept : kept = left(n)
      OBVIOUS
    <3>2. PICK held, rest : /\ held = [k \in kept |-> entries[k]]
                            /\ rest = SubSeq(lru, n + 1, Len(lru))
      OBVIOUS
    <3>3. new = [entries |-> held, lru |-> rest]
      BY <1>2, <3>1, <3>2
    <3>4. new.lru = rest /\ new.entries = held
      BY ONLY <3>3
    <3>5. DOMAIN held = kept
      BY ONLY <3>2
    <3>. QED
      BY <3>1, <3>2, <3>4, <3>5
  <2>2. left(n) = K \ {lru[i] : i \in 1 .. n}
    <3>. HIDE DEF n
    <3>. QED
      BY <1>1
  <2>. HIDE DEF n, left
  <2>. QED
    BY <1>10, <2>1, <2>2 DEF Cut
<1>. HIDE DEF n
<1>. QED
  BY <1>1, <1>3, <1>4, <1>9, <1>11 DEF After

-----------------------------------------------------------------------------
(***************************************************************************)
(* The steps of the sessions.                                              *)
(***************************************************************************)
LEMMA OptionsOf ==
  ASSUME options \in Configurations, NEW s \in Sessions
  PROVE  /\ options[s] \in Options /\ Partition(s) \in Partitions
         /\ options[s].ttl \in Nat /\ options[s].max_entries \in Nat
         /\ TimeToLive(options[s]) = AtLeastOne(Partition(s)[2])
         /\ MaxEntries(options[s]) = AtLeastOne(Partition(s)[3])
<1>1. options[s] \in Options
  <2>1. s \in DOMAIN options
    BY CacheAssumption
  <2>. QED
    BY <2>1 DEF Options, Range
<1>. QED
  BY <1>1, CacheAssumption
  DEF Partition, Partitions, PartitionKey, TimeToLive, MaxEntries

LEMMA PartitionNumbers ==
  ASSUME NEW k \in Partitions
  PROVE  k[2] \in Nat /\ k[3] \in Nat /\ AtLeastOne(k[2]) \in Nat /\ AtLeastOne(k[3]) \in Nat \ {0}
BY CacheAssumption DEF Partitions, PartitionKey, AtLeastOne

LEMMA AskOf ==
  ASSUME options \in Configurations, NEW s \in Sessions, request[s] \in Requests
  PROVE  /\ Asking(s) \in Asks
         /\ Asking(s).partition = Partition(s) /\ AskKey(Asking(s)) = K2(s)
<1>1. options[s] \in Options /\ Partition(s) \in Partitions
  BY OptionsOf
<1>2. Asking(s) \in Asks
  BY <1>1 DEF Asking, Asks
<1>3. Asking(s).partition = Partition(s)
  BY DEF Asking
<1>4. AskKey(Asking(s)) = K2(s)
  BY DEF Asking, AskKey, K2, L2Key, L1Key
<1>. QED
  BY <1>2, <1>3, <1>4

LEMMA NoAnswerApart == NoAnswer \notin Answers
<1>1. SUFFICES ASSUME NoAnswer \in Answers PROVE FALSE
  OBVIOUS
<1>2. DOMAIN NoAnswer = {"step"} /\ "ask" \in DOMAIN NoAnswer
  BY <1>1 DEF NoAnswer, Answers
<1>. QED
  BY <1>2

LEMMA TypesInit == Init => StepsInv /\ CountInv /\ StoresInv /\ HeldInv
<1> SUFFICES ASSUME Init PROVE StepsInv /\ CountInv /\ StoresInv /\ HeldInv
  OBVIOUS
<1>1. 0 \in 0 .. MaxTime /\ 0 \in 0 .. MaxRequests
  BY CacheAssumption
<1>2. StepsInv
  BY <1>1 DEF Init, StepsInv
<1>3. CountInv
  <2>1. Busy = {} /\ Len(log) = 0
    BY DEF Init, Busy
  <2>. QED
    BY <1>1, <2>1, FS_EmptySet DEF Init, CountInv
<1>4. /\ caches = [k \in Partitions |-> [l1 |-> EmptyStore, l2 |-> EmptyStore]]
      /\ \A k \in Partitions : caches[k].l1 = EmptyStore /\ caches[k].l2 = EmptyStore
  BY DEF Init, Partitions
<1>5. EmptyStore.entries = <<>> /\ EmptyStore.lru = <<>> /\ DOMAIN EmptyStore.entries = {}
  BY DEF EmptyStore
<1>6. ASSUME NEW k \in Partitions PROVE Ordered(EmptyStore, AtLeastOne(k[3]))
  BY <1>5, EmptyLine, PartitionNumbers DEF EmptyStore, Ordered
<1>7. StoresInv
  BY <1>4, <1>6 DEF StoresInv
<1>8. HeldInv
  <2>1. DOMAIN log = {}
    BY DEF Init
  <2>. QED
    BY <1>4, <1>5, <2>1 DEF HeldInv
<1>. QED
  BY <1>2, <1>3, <1>7, <1>8

\* What a step of a session does to its own place, and to no other.
LEMMA ReturnEffect ==
  ASSUME StepsInv, NEW s \in Sessions, Return(s)
  PROVE  /\ pc' \in [Sessions -> {"idle", "l1_insert", "l2_get", "asking", "l2_insert"}]
         /\ request' \in [Sessions -> Requests \cup {NoRequest}]
         /\ got' \in [Sessions -> Answers \cup {NoAnswer}]
         /\ pc'[s] = "idle" /\ request'[s] = NoRequest /\ got'[s] = NoAnswer
         /\ \A q \in Sessions \ {s} :
              pc'[q] = pc[q] /\ request'[q] = request[q] /\ got'[q] = got[q]
BY DEF Return, StepsInv

LEMMA StepsStep == StepsInv /\ HeldInv /\ StoresInv /\ [Next]_vars => StepsInv'
<1> SUFFICES ASSUME StepsInv, HeldInv, StoresInv, [Next]_vars PROVE StepsInv'
  OBVIOUS
<1>. DEFINE Places == {"idle", "l1_insert", "l2_get", "asking", "l2_insert"}
            Own(s) == /\ pc[s] = "idle" <=> request[s] = NoRequest
                      /\ pc[s] # "l2_insert" => got[s] = NoAnswer
                      /\ pc[s] = "l2_insert" => got[s] \in Answers /\ got[s].ask = Asking(s)
<1>0. /\ options \in Configurations /\ pc \in [Sessions -> Places]
      /\ request \in [Sessions -> Requests \cup {NoRequest}]
      /\ got \in [Sessions -> Answers \cup {NoAnswer}]
      /\ now \in 0 .. MaxTime /\ log \in Seq(Uses) /\ \A s \in Sessions : Own(s)
      /\ MaxTime \in Nat
  BY CacheAssumption DEF StepsInv
<1>1. ASSUME options' = options, now' \in 0 .. MaxTime, log' \in Seq(Uses),
             pc' \in [Sessions -> Places], request' \in [Sessions -> Requests \cup {NoRequest}],
             got' \in [Sessions -> Answers \cup {NoAnswer}],
             NEW s \in Sessions, Own(s)',
             \A q \in Sessions \ {s} :
               pc'[q] = pc[q] /\ request'[q] = request[q] /\ got'[q] = got[q]
      PROVE  StepsInv'
  <2>1. ASSUME NEW q \in Sessions \ {s} PROVE Own(q)'
    BY <1>0, <1>1, <2>1 DEF Asking, Partition
  <2>. QED
    BY <1>0, <1>1, <2>1 DEF StepsInv
<1>2. ASSUME NEW s \in Sessions, Return(s), options' = options, now' = now, log' \in Seq(Uses)
      PROVE  StepsInv'
  <2>1. Own(s)'
    BY <1>2, ReturnEffect
  <2>. QED
    BY <1>0, <1>1, <1>2, <2>1, ReturnEffect
<1>3. ASSUME NEW s \in Sessions, Begin(s) PROVE StepsInv'
  <2>1. PICK r \in Requests :
          /\ request' = [request EXCEPT ![s] = r]
          /\ IF options[s].enabled THEN L1Get(s, L1Key(options[s], r))
             ELSE pc' = [pc EXCEPT ![s] = "asking"] /\ UNCHANGED caches
    BY <1>3 DEF Begin
  <2>2. \E to \in {"l1_insert", "l2_get", "asking"} : pc' = [pc EXCEPT ![s] = to]
    BY <2>1 DEF L1Get, AfterL1
  <2>3. pc[s] = "idle" /\ UNCHANGED <<options, got, now, log>> /\ r # NoRequest
    BY <1>3, RequestsAssumption DEF Begin
  <2>. QED
    BY <1>0, <1>1, <2>1, <2>2, <2>3
<1>4. ASSUME NEW s \in Sessions, L1Insert(s) \/ L2Miss(s) PROVE StepsInv'
  <2>1. \E to \in {"l2_get", "asking"} : pc' = [pc EXCEPT ![s] = to]
    BY <1>4 DEF L1Insert, L2Miss, AfterL1
  <2>2. pc[s] \in {"l1_insert", "l2_get"} /\ UNCHANGED <<options, request, got, now, log>>
    BY <1>4 DEF L1Insert, L2Miss
  <2>. QED
    BY <1>0, <1>1, <2>1, <2>2
<1>5. ASSUME NEW s \in Sessions, Unanswered(s) PROVE StepsInv'
  BY <1>0, <1>2, <1>5 DEF Unanswered
<1>6. ASSUME NEW s \in Sessions, Answered(s) PROVE StepsInv'
  <2>1. pc[s] = "asking" /\ UNCHANGED <<options, caches, now, begun, log>>
    BY <1>6 DEF Answered
  <2>2. CASE Return(s)
    BY <1>0, <1>2, <2>1, <2>2
  <2>3. ASSUME NEW step \in {"step", "error_step"},
               got' = [got EXCEPT ![s] = [ask |-> Asking(s), step |-> step, at |-> now]],
               pc' = [pc EXCEPT ![s] = "l2_insert"], request' = request
        PROVE  StepsInv'
    <3>1. request[s] \in Requests
      BY <1>0, <2>1
    <3>2. [ask |-> Asking(s), step |-> step, at |-> now] \in Answers
      BY <1>0, <3>1, AskOf DEF Answers
    <3>3. Asking(s)' = Asking(s)
      BY <2>1, <2>3 DEF Asking, Partition
    <3>. HIDE DEF Places
    <3>4. got'[s] \in Answers /\ got'[s].ask = Asking(s)' /\ pc'[s] = "l2_insert"
      BY <1>0, <2>3, <3>2, <3>3
    <3>5. pc' \in [Sessions -> Places]
      BY <1>0, <2>3 DEF Places
    <3>. QED
      BY <1>0, <1>1, <2>1, <2>3, <3>1, <3>2, <3>4, <3>5, RequestsAssumption
  <2>. QED
    BY <1>6, <2>2, <2>3 DEF Answered
<1>7. ASSUME NEW s \in Sessions, L2Hit(s) PROVE StepsInv'
  <2>. DEFINE l2 == caches[Partition(s)].l2
  <2>1. /\ pc[s] = "l2_get" /\ K2(s) \in DOMAIN l2.entries /\ Return(s)
        /\ log' = Append(log, Use(s, "hit", l2.entries[K2(s)].value))
        /\ options' = options /\ now' = now
    BY <1>7 DEF L2Hit, Hit, Holds
  <2>2. request[s] \in Requests
    BY <1>0, <2>1
  <2>3. Partition(s) \in Partitions
    BY <1>0, OptionsOf
  <2>4. PICK m \in DOMAIN log : l2.entries[K2(s)].value = log[m].answer
    <3>1. PICK m \in DOMAIN log :
            l2.entries[K2(s)] = [value |-> log[m].answer,
                                 expires |-> log[m].at + AtLeastOne(Partition(s)[2])]
      BY <2>1, <2>3 DEF HeldInv
    <3>. HIDE DEF l2
    <3>. QED
      BY <3>1
  <2>5. log[m].answer \in Answers
    <3>1. log[m] \in Uses
      BY <1>0
    <3>. QED
      BY <3>1 DEF Uses
  <2>6. Use(s, "hit", l2.entries[K2(s)].value) \in Uses
    BY <1>0, <2>2, <2>4, <2>5, AskOf DEF Use, Uses
  <2>7. log' \in Seq(Uses)
    <3>. HIDE DEF l2
    <3>. QED
      BY <1>0, <2>1, <2>6
  <2>. QED
    BY <1>2, <2>1, <2>7
<1>8. ASSUME NEW s \in Sessions, L2Insert(s) PROVE StepsInv'
  <2>1. pc[s] = "l2_insert" /\ Return(s) /\ options' = options /\ now' = now
        /\ (log' = log \/ log' = Append(log, Use(s, "insert", got[s])))
    BY <1>8 DEF L2Insert
  <2>2. request[s] \in Requests /\ got[s] \in Answers
    BY <1>0, <2>1
  <2>3. Use(s, "insert", got[s]) \in Uses
    BY <1>0, <2>2, AskOf DEF Use, Uses
  <2>4. log' \in Seq(Uses)
    BY <1>0, <2>1, <2>3
  <2>. QED
    BY <1>2, <2>1, <2>4
<1>9. CASE Tick
  <2>1. now' \in 0 .. MaxTime /\ UNCHANGED <<options, pc, request, got, log>>
    BY <1>0, <1>9 DEF Tick
  <2>2. \A s \in Sessions : Own(s)'
    BY <1>0, <2>1 DEF Asking, Partition
  <2>. QED
    BY <1>0, <2>1, <2>2 DEF StepsInv
<1>10. CASE UNCHANGED vars
  <2>1. UNCHANGED <<options, pc, request, got, now, log>>
    BY <1>10 DEF vars
  <2>2. \A s \in Sessions : Own(s)'
    BY <1>0, <2>1 DEF Asking, Partition
  <2>. QED
    BY <1>0, <2>1, <2>2 DEF StepsInv
<1>. QED
  BY <1>3, <1>4, <1>5, <1>6, <1>7, <1>8, <1>9, <1>10 DEF Next

LEMMA CountStep == StepsInv /\ CountInv /\ [Next]_vars => CountInv'
<1> SUFFICES ASSUME StepsInv, CountInv, [Next]_vars PROVE CountInv'
  OBVIOUS
<1>0. /\ pc \in [Sessions -> {"idle", "l1_insert", "l2_get", "asking", "l2_insert"}]
      /\ begun \in 0 .. MaxRequests /\ IsFiniteSet(Busy) /\ Len(log) + Cardinality(Busy) <= begun
      /\ Cardinality(Busy) \in Nat /\ log \in Seq(Uses) /\ Len(log) \in Nat /\ MaxRequests \in Nat
  BY CacheAssumption, FS_CardinalityType DEF StepsInv, CountInv
<1>1. ASSUME NEW s \in Sessions, pc[s] # "idle", Return(s), begun' = begun,
             Len(log') \in {Len(log), Len(log) + 1}
      PROVE  CountInv'
  <2>1. Busy' = Busy \ {s} /\ s \in Busy
    <3>1. pc'[s] = "idle" /\ \A q \in Sessions \ {s} : pc'[q] = pc[q]
      BY <1>1, ReturnEffect
    <3>. QED
      BY <1>1, <3>1 DEF Busy
  <2>2. IsFiniteSet(Busy') /\ Cardinality(Busy') = Cardinality(Busy) - 1
    BY <1>0, <2>1, FS_RemoveElement
  <2>3. Len(log') + Cardinality(Busy') <= begun
    BY <1>0, <1>1, <2>2
  <2>. QED
    BY <1>0, <1>1, <2>2, <2>3 DEF CountInv
<1>2. ASSUME NEW s \in Sessions, pc[s] # "idle", UNCHANGED <<begun, log>>,
             \E to \in {"l2_get", "asking", "l2_insert"} : pc' = [pc EXCEPT ![s] = to]
      PROVE  CountInv'
  <2>1. Busy' = Busy
    BY <1>0, <1>2 DEF Busy
  <2>. QED
    BY <1>2, <2>1 DEF CountInv
<1>3. ASSUME NEW s \in Sessions, Begin(s) PROVE CountInv'
  <2>1. PICK r \in Requests :
          IF options[s].enabled THEN L1Get(s, L1Key(options[s], r))
          ELSE pc' = [pc EXCEPT ![s] = "asking"] /\ UNCHANGED caches
    BY <1>3 DEF Begin
  <2>2. \E to \in {"l1_insert", "l2_get", "asking"} : pc' = [pc EXCEPT ![s] = to]
    BY <2>1 DEF L1Get, AfterL1
  <2>3. pc[s] = "idle" /\ begun < MaxRequests /\ begun' = begun + 1 /\ log' = log
    BY <1>3 DEF Begin
  <2>4. Busy' = Busy \cup {s} /\ s \notin Busy
    BY <1>0, <2>2, <2>3 DEF Busy
  <2>5. IsFiniteSet(Busy') /\ Cardinality(Busy') = Cardinality(Busy) + 1
    BY <1>0, <2>4, FS_AddElement
  <2>6. begun' \in 0 .. MaxRequests /\ Len(log') + Cardinality(Busy') <= begun'
    BY <1>0, <2>3, <2>5
  <2>. QED
    BY <2>5, <2>6 DEF CountInv
<1>4. ASSUME NEW s \in Sessions, L1Insert(s) \/ L2Miss(s) PROVE CountInv'
  BY <1>2, <1>4 DEF L1Insert, L2Miss, AfterL1
<1>5. ASSUME NEW s \in Sessions, Answered(s) PROVE CountInv'
  <2>1. pc[s] = "asking" /\ UNCHANGED <<begun, log>>
        /\ (Return(s) \/ pc' = [pc EXCEPT ![s] = "l2_insert"])
    BY <1>5 DEF Answered
  <2>. QED
    BY <1>1, <1>2, <2>1
<1>6. ASSUME NEW s \in Sessions, Unanswered(s) PROVE CountInv'
  BY <1>1, <1>6 DEF Unanswered
<1>7. ASSUME NEW s \in Sessions, L2Hit(s) PROVE CountInv'
  <2>1. pc[s] = "l2_get" /\ Return(s) /\ begun' = begun /\ \E use : log' = Append(log, use)
    BY <1>7 DEF L2Hit
  <2>. QED
    BY <1>0, <1>1, <2>1
<1>8. ASSUME NEW s \in Sessions, L2Insert(s) PROVE CountInv'
  <2>1. /\ pc[s] = "l2_insert" /\ Return(s) /\ begun' = begun
        /\ log' = log \/ \E use : log' = Append(log, use)
    BY <1>8 DEF L2Insert
  <2>. QED
    BY <1>0, <1>1, <2>1
<1>9. CASE Tick \/ UNCHANGED vars
  <2>1. UNCHANGED <<begun, log, pc>>
    BY <1>9 DEF Tick, vars
  <2>. QED
    BY <2>1 DEF CountInv, Busy
<1>. QED
  BY <1>3, <1>4, <1>5, <1>6, <1>7, <1>8, <1>9 DEF Next

\* A cache whose one store changes.
LEMMA StoresChange ==
  ASSUME StoresInv, NEW k \in Partitions, NEW store, Ordered(store, AtLeastOne(k[3])),
         \/ caches' = [caches EXCEPT ![k].l1 = store]
         \/ caches' = [caches EXCEPT ![k].l2 = store]
  PROVE  StoresInv'
<1>1. /\ caches = [j \in Partitions |-> [l1 |-> caches[j].l1, l2 |-> caches[j].l2]]
      /\ \A j \in Partitions : /\ Ordered(caches[j].l1, AtLeastOne(j[3]))
                               /\ Ordered(caches[j].l2, AtLeastOne(j[3]))
      /\ DOMAIN caches = Partitions
  BY DEF StoresInv
<1>2. caches[k] = [l1 |-> caches[k].l1, l2 |-> caches[k].l2]
  BY <1>1
<1>3. CASE caches' = [caches EXCEPT ![k].l1 = store]
  <2>1. /\ caches'[k] = [l1 |-> store, l2 |-> caches[k].l2] /\ DOMAIN caches' = Partitions
        /\ \A j \in Partitions \ {k} : caches'[j] = caches[j]
        /\ caches' = [j \in Partitions |-> caches'[j]]
    BY <1>1, <1>2, <1>3
  <2>. QED
    BY <1>1, <2>1 DEF StoresInv
<1>4. CASE caches' = [caches EXCEPT ![k].l2 = store]
  <2>1. /\ caches'[k] = [l1 |-> caches[k].l1, l2 |-> store] /\ DOMAIN caches' = Partitions
        /\ \A j \in Partitions \ {k} : caches'[j] = caches[j]
        /\ caches' = [j \in Partitions |-> caches'[j]]
    BY <1>1, <1>2, <1>4
  <2>. QED
    BY <1>1, <2>1 DEF StoresInv
<1>. QED
  BY <1>3, <1>4

LEMMA StoresStep == StepsInv /\ StoresInv /\ [Next]_vars => StoresInv'
<1> SUFFICES ASSUME StepsInv, StoresInv, [Next]_vars PROVE StoresInv'
  OBVIOUS
<1>0. options \in Configurations
  BY DEF StepsInv
<1>1. ASSUME UNCHANGED caches PROVE StoresInv'
  BY <1>1 DEF StoresInv
<1>2. ASSUME NEW s \in Sessions, NEW key, NEW t PROVE
        /\ Ordered(AfterGet(caches[Partition(s)].l1, key, t), AtLeastOne(Partition(s)[3]))
        /\ Ordered(AfterGet(caches[Partition(s)].l2, key, t), AtLeastOne(Partition(s)[3]))
  BY <1>0, OptionsOf, PartitionNumbers, GetEffect DEF StoresInv
<1>3. ASSUME NEW s \in Sessions, NEW key, NEW value, NEW expires PROVE
        /\ Ordered(AfterInsert(caches[Partition(s)].l1, key, value, expires, MaxEntries(options[s])),
                   AtLeastOne(Partition(s)[3]))
        /\ Ordered(AfterInsert(caches[Partition(s)].l2, key, value, expires, MaxEntries(options[s])),
                   AtLeastOne(Partition(s)[3]))
  BY <1>0, OptionsOf, PartitionNumbers, InsertEffect DEF StoresInv
<1>4. \A s \in Sessions : Partition(s) \in Partitions
  BY <1>0, OptionsOf
<1>5. ASSUME NEW s \in Sessions, Begin(s) PROVE StoresInv'
  <2>1. \/ UNCHANGED caches
        \/ \E r \in Requests : L1Get(s, L1Key(options[s], r))
    BY <1>5 DEF Begin
  <2>2. ASSUME NEW key, L1Get(s, key) PROVE StoresInv'
    <3>1. caches' = [caches EXCEPT ![Partition(s)].l1 =
                       AfterGet(caches[Partition(s)].l1, key, now)]
      BY <2>2 DEF L1Get
    <3>. QED
      BY <1>2, <1>4, <3>1, StoresChange
  <2>. QED
    BY <1>1, <2>1, <2>2
<1>6. ASSUME NEW s \in Sessions, L1Insert(s) PROVE StoresInv'
  <2>1. caches' = [caches EXCEPT ![Partition(s)].l1 =
          AfterInsert(caches[Partition(s)].l1, K1(s), 0, now + TimeToLive(options[s]),
                      MaxEntries(options[s]))]
    BY <1>6 DEF L1Insert
  <2>. QED
    BY <1>3, <1>4, <2>1, StoresChange
<1>7. ASSUME NEW s \in Sessions, L2Hit(s) \/ L2Miss(s) PROVE StoresInv'
  <2>1. caches' = [caches EXCEPT ![Partition(s)].l2 =
                     AfterGet(caches[Partition(s)].l2, K2(s), now)]
    BY <1>7 DEF L2Hit, L2Miss
  <2>. QED
    BY <1>2, <1>4, <2>1, StoresChange
<1>8. ASSUME NEW s \in Sessions, L2Insert(s) PROVE StoresInv'
  <2>1. \/ UNCHANGED caches
        \/ caches' = [caches EXCEPT ![Partition(s)].l2 =
             AfterInsert(caches[Partition(s)].l2, K2(s), got[s], now + TimeToLive(options[s]),
                         MaxEntries(options[s]))]
    BY <1>8 DEF L2Insert
  <2>. QED
    BY <1>1, <1>3, <1>4, <2>1, StoresChange
<1>9. ASSUME NEW s \in Sessions, Answered(s) \/ Unanswered(s) PROVE StoresInv'
  BY <1>1, <1>9 DEF Answered, Unanswered
<1>10. CASE Tick \/ UNCHANGED vars
  BY <1>1, <1>10 DEF Tick, vars
<1>. QED
  BY <1>5, <1>6, <1>7, <1>8, <1>9, <1>10 DEF Next

-----------------------------------------------------------------------------
(***************************************************************************)
(* What a store holds, and the uses that put it there.                     *)
(***************************************************************************)
LEMMA SameKey ==
  ASSUME NEW a, a.request \in Requests, NEW b
  PROVE  SameAsk(a, b) <=> a.partition = b.partition /\ AskKey(a) = AskKey(b)
<1>1. DOMAIN a.request \ (Ignored \cup {"messages"}) = {"tools", "event"}
  BY RequestsAssumption DEF Ignored, NoRequest
<1>2. (\A field \in {"tools", "event"} : a.request[field] = b.request[field])
        <=> a.request.tools = b.request.tools /\ a.request.event = b.request.event
  OBVIOUS
<1>. QED
  BY <1>1, <1>2 DEF SameAsk, AskKey, L2Key, L1Key

LEMMA AskedRequests ==
  ASSUME log \in Seq(Uses), NEW i \in DOMAIN log PROVE log[i].ask.request \in Requests
<1>1. log[i] \in Uses
  OBVIOUS
<1>. QED
  BY <1>1 DEF Uses, Asks

\* The log before the last use.
LEMMA LogGrows ==
  ASSUME log \in Seq(Uses), NEW use, log' = Append(log, use)
  PROVE  /\ Len(log) \in Nat /\ DOMAIN log = 1 .. Len(log)
         /\ DOMAIN log' = 1 .. Len(log) + 1 /\ log'[Len(log) + 1] = use
         /\ \A i \in DOMAIN log : i \in DOMAIN log' /\ log'[i] = log[i]
         /\ \A i \in DOMAIN log' : i \in DOMAIN log \/ i = Len(log) + 1
OBVIOUS

\* The value and the time of an entry of l2.
Holding(k, key, m) ==
  /\ Inserted(m, k, key)
  /\ \A i \in DOMAIN log : Inserted(i, k, key) => i <= m
  /\ caches[k].l2.entries[key] =
       [value |-> log[m].answer, expires |-> log[m].at + AtLeastOne(k[2])]

Sourced(i) ==
  log[i].kind = "insert" => log[i].answer.ask = log[i].ask /\ log[i].answer.step # "error_step"

LEMMA HeldParts ==
  HeldInv <=> /\ \A i \in DOMAIN log : Sourced(i)
              /\ \A k \in Partitions : \A key \in DOMAIN caches[k].l2.entries :
                   \E m \in DOMAIN log : Holding(k, key, m)
BY DEF HeldInv, Holding, Sourced

\* Nothing is put into l2.
LEMMA HeldKept ==
  ASSUME HeldInv, log \in Seq(Uses),
         \/ log' = log
         \/ \E use : use.kind = "hit" /\ log' = Append(log, use),
         \A k \in Partitions : Within(caches'[k].l2, caches[k].l2)
  PROVE  HeldInv'
<1>1. /\ \A i \in DOMAIN log : i \in DOMAIN log' /\ log'[i] = log[i]
      /\ \A i \in DOMAIN log' : i \in DOMAIN log \/ log'[i].kind = "hit"
  BY LogGrows
<1>2. ASSUME NEW i \in DOMAIN log' PROVE Sourced(i)'
  BY <1>1, HeldParts DEF Sourced
<1>3. ASSUME NEW k \in Partitions, NEW key \in DOMAIN caches'[k].l2.entries
      PROVE  \E m \in DOMAIN log' : Holding(k, key, m)'
  <2>1. /\ key \in DOMAIN caches[k].l2.entries
        /\ caches'[k].l2.entries[key] = caches[k].l2.entries[key]
    BY DEF Within
  <2>2. PICK m \in DOMAIN log : Holding(k, key, m)
    BY <2>1, HeldParts
  <2>3. Inserted(m, k, key)'
    BY <1>1, <2>2 DEF Holding, Inserted
  <2>4. ASSUME NEW i \in DOMAIN log', Inserted(i, k, key)' PROVE i <= m
    <3>1. i \in DOMAIN log /\ Inserted(i, k, key)
      BY <1>1, <2>4 DEF Inserted
    <3>. QED
      BY <2>2, <3>1 DEF Holding
  <2>5. caches'[k].l2.entries[key] =
          [value |-> log'[m].answer, expires |-> log'[m].at + AtLeastOne(k[2])]
    BY <1>1, <2>1, <2>2 DEF Holding
  <2>6. Holding(k, key, m)'
    BY <2>3, <2>4, <2>5 DEF Holding
  <2>. QED
    BY <1>1, <2>6
<1>4. /\ \A i \in DOMAIN log' : Sourced(i)'
      /\ \A k \in Partitions : \A key \in DOMAIN caches'[k].l2.entries :
           \E m \in DOMAIN log' : Holding(k, key, m)'
  BY <1>2, <1>3
<1>. QED
  BY <1>4 DEF HeldInv, Holding, Sourced

LEMMA HeldInsert ==
  ASSUME StepsInv, StoresInv, HeldInv, NEW s \in Sessions, L2Insert(s)
  PROVE  HeldInv'
<1>. DEFINE p == Partition(s)
            old == caches[p].l2
            new == AfterInsert(old, K2(s), got[s], now + TimeToLive(options[s]),
                               MaxEntries(options[s]))
            use == Use(s, "insert", got[s])
<1>0. /\ log \in Seq(Uses) /\ options \in Configurations /\ pc[s] = "l2_insert"
      /\ got[s].ask = Asking(s) /\ request[s] \in Requests
  BY DEF StepsInv, L2Insert
<1>1. p \in Partitions
  BY <1>0, OptionsOf
<1>2. CASE UNCHANGED <<caches, log>>
  <2>1. \A k \in Partitions : Within(caches'[k].l2, caches[k].l2)
    BY <1>2 DEF Within
  <2>. QED
    BY <1>0, <1>2, <2>1, HeldKept
<1>3. CASE ~UNCHANGED <<caches, log>>
  <2>1. /\ caches' = [caches EXCEPT ![p].l2 = new] /\ log' = Append(log, use)
        /\ got[s].step # "error_step"
    BY <1>3 DEF L2Insert, Cacheable
  <2>2. /\ use.kind = "insert" /\ use.answer = got[s] /\ use.ask = Asking(s) /\ use.at = now
        /\ use.ask.partition = p /\ AskKey(use.ask) = K2(s)
    BY <1>0, AskOf DEF Use
  <2>3. /\ DOMAIN caches = Partitions /\ caches[p] = [l1 |-> caches[p].l1, l2 |-> caches[p].l2]
    BY <1>1 DEF StoresInv
  <2>4. \A key \in DOMAIN new.entries :
           \/ /\ key = K2(s)
              /\ new.entries[key] = [value |-> got[s], expires |-> now + TimeToLive(options[s])]
           \/ /\ key # K2(s) /\ key \in DOMAIN old.entries
              /\ new.entries[key] = old.entries[key]
    <3>1. Ordered(old, AtLeastOne(p[3])) /\ MaxEntries(options[s]) = AtLeastOne(p[3])
          /\ AtLeastOne(p[3]) \in Nat \ {0}
      BY <1>0, <1>1, OptionsOf, PartitionNumbers DEF StoresInv
    <3>. QED
      BY <3>1, InsertEffect
  <2>5. TimeToLive(options[s]) = AtLeastOne(p[2])
    BY <1>0, OptionsOf
  <2>. HIDE DEF new, use, p
  <2>6. caches'[p].l2 = new /\ \A k \in Partitions \ {p} : caches'[k].l2 = caches[k].l2
    BY <1>1, <2>1, <2>3
  <2>7. PICK n \in DOMAIN log' :
        /\ log'[n] = use
        /\ \A i \in DOMAIN log : i \in DOMAIN log' /\ log'[i] = log[i] /\ i <= n
        /\ \A i \in DOMAIN log' : i \in DOMAIN log \/ i = n
        /\ n <= n
    <3>1. Len(log) \in Nat /\ \A i \in 1 .. Len(log) : i <= Len(log) + 1
      BY <1>0
    <3>. QED
      BY <1>0, <2>1, <3>1, LogGrows
  <2>8. ASSUME NEW i \in DOMAIN log' PROVE Sourced(i)'
    BY <1>0, <2>1, <2>2, <2>7, HeldParts DEF Sourced
  <2>9. ASSUME NEW k \in Partitions, NEW key \in DOMAIN caches'[k].l2.entries,
               k = p, key = K2(s)
        PROVE  \E m \in DOMAIN log' : Holding(k, key, m)'
    <3>1. Inserted(n, k, key)'
      BY <2>2, <2>7, <2>9 DEF Inserted
    <3>2. caches'[k].l2.entries[key] =
            [value |-> log'[n].answer, expires |-> log'[n].at + AtLeastOne(k[2])]
      BY <2>2, <2>4, <2>5, <2>6, <2>7, <2>9
    <3>3. \A i \in DOMAIN log' : i <= n
      BY <2>7
    <3>4. Holding(k, key, n)'
      BY <3>1, <3>2, <3>3 DEF Holding
    <3>. QED
      BY <2>7, <3>4
  <2>10. ASSUME NEW k \in Partitions, NEW key \in DOMAIN caches'[k].l2.entries,
                k # p \/ key # K2(s)
         PROVE  \E m \in DOMAIN log' : Holding(k, key, m)'
    <3>1. /\ key \in DOMAIN caches[k].l2.entries
          /\ caches'[k].l2.entries[key] = caches[k].l2.entries[key]
      BY <2>4, <2>6, <2>10
    <3>2. PICK m \in DOMAIN log : Holding(k, key, m)
      BY <3>1, HeldParts
    <3>3. Inserted(m, k, key)'
      BY <2>7, <3>2 DEF Holding, Inserted
    <3>4. ASSUME NEW i \in DOMAIN log', Inserted(i, k, key)' PROVE i <= m
      <4>1. i # n
        BY <2>2, <2>7, <2>10, <3>4 DEF Inserted
      <4>2. i \in DOMAIN log /\ Inserted(i, k, key)
        BY <2>7, <3>4, <4>1 DEF Inserted
      <4>. QED
        BY <3>2, <4>2 DEF Holding
    <3>5. caches'[k].l2.entries[key] =
            [value |-> log'[m].answer, expires |-> log'[m].at + AtLeastOne(k[2])]
      BY <2>7, <3>1, <3>2 DEF Holding
    <3>6. Holding(k, key, m)'
      BY <3>3, <3>4, <3>5 DEF Holding
    <3>. QED
      BY <2>7, <3>6
  <2>11. /\ \A i \in DOMAIN log' : Sourced(i)'
         /\ \A k \in Partitions : \A key \in DOMAIN caches'[k].l2.entries :
              \E m \in DOMAIN log' : Holding(k, key, m)'
    BY <2>8, <2>9, <2>10
  <2>. QED
    BY <2>11 DEF HeldInv, Holding, Sourced
<1>. QED
  BY <1>2, <1>3

LEMMA WithinSame == ASSUME NEW store PROVE Within(store, store)
BY DEF Within

\* A lookup in l2 puts nothing into it.
LEMMA GetWithin ==
  ASSUME StoresInv, options \in Configurations, NEW s \in Sessions, NEW key, NEW t,
         \/ caches' = caches
         \/ \E store : caches' = [caches EXCEPT ![Partition(s)].l1 = store]
         \/ caches' = [caches EXCEPT ![Partition(s)].l2 = AfterGet(caches[Partition(s)].l2, key, t)]
  PROVE  \A k \in Partitions : Within(caches'[k].l2, caches[k].l2)
<1>. DEFINE p == Partition(s)
            new == AfterGet(caches[p].l2, key, t)
<1>1. /\ p \in Partitions /\ DOMAIN caches = Partitions
      /\ caches[p] = [l1 |-> caches[p].l1, l2 |-> caches[p].l2]
  BY OptionsOf DEF StoresInv
<1>2. Within(new, caches[p].l2)
  BY <1>1, OptionsOf, PartitionNumbers, GetEffect DEF StoresInv
<1>. HIDE DEF new, p
<1>3. CASE caches' = caches
  BY <1>3, WithinSame
<1>4. ASSUME NEW store, caches' = [caches EXCEPT ![p].l1 = store]
      PROVE  \A k \in Partitions : Within(caches'[k].l2, caches[k].l2)
  <2>1. \A k \in Partitions : caches'[k].l2 = caches[k].l2
    BY <1>1, <1>4
  <2>. QED
    BY <2>1, WithinSame
<1>5. CASE caches' = [caches EXCEPT ![p].l2 = new]
  <2>1. caches'[p].l2 = new /\ \A k \in Partitions \ {p} : caches'[k].l2 = caches[k].l2
    BY <1>1, <1>5
  <2>. QED
    BY <1>2, <2>1, WithinSame
<1>. QED
  BY <1>3, <1>4, <1>5 DEF p, new

LEMMA HeldStep == StepsInv /\ StoresInv /\ HeldInv /\ [Next]_vars => HeldInv'
<1> SUFFICES ASSUME StepsInv, StoresInv, HeldInv, [Next]_vars PROVE HeldInv'
  OBVIOUS
<1>0. options \in Configurations /\ log \in Seq(Uses)
  BY DEF StepsInv
<1>1. ASSUME UNCHANGED <<caches, log>> PROVE HeldInv'
  <2>1. \A k \in Partitions : Within(caches'[k].l2, caches[k].l2)
    BY <1>1, WithinSame
  <2>. QED
    BY <1>0, <1>1, <2>1, HeldKept
<1>2. ASSUME NEW s \in Sessions, Begin(s) \/ L1Insert(s) PROVE HeldInv'
  <2>1. /\ log' = log
        /\ \/ caches' = caches
           \/ \E store : caches' = [caches EXCEPT ![Partition(s)].l1 = store]
    BY <1>2 DEF Begin, L1Get, L1Insert
  <2>2. \A k \in Partitions : Within(caches'[k].l2, caches[k].l2)
    BY <1>0, <2>1, GetWithin
  <2>. QED
    BY <1>0, <2>1, <2>2, HeldKept
<1>3. ASSUME NEW s \in Sessions, L2Hit(s) \/ L2Miss(s) PROVE HeldInv'
  <2>1. /\ \/ log' = log
           \/ log' = Append(log, Use(s, "hit", caches[Partition(s)].l2.entries[K2(s)].value))
        /\ caches' = [caches EXCEPT ![Partition(s)].l2 =
                        AfterGet(caches[Partition(s)].l2, K2(s), now)]
    BY <1>3 DEF L2Hit, L2Miss
  <2>2. \A answer : Use(s, "hit", answer).kind = "hit"
    BY DEF Use
  <2>3. \A k \in Partitions : Within(caches'[k].l2, caches[k].l2)
    BY <1>0, <2>1, GetWithin
  <2>. QED
    BY <1>0, <2>1, <2>2, <2>3, HeldKept
<1>4. ASSUME NEW s \in Sessions, Answered(s) \/ Unanswered(s) PROVE HeldInv'
  BY <1>1, <1>4 DEF Answered, Unanswered
<1>5. CASE Tick \/ UNCHANGED vars
  BY <1>1, <1>5 DEF Tick, vars
<1>. QED
  BY <1>2, <1>3, <1>4, <1>5, HeldInsert DEF Next

-----------------------------------------------------------------------------
(* Hits. *)

TypeInv == StepsInv /\ CountInv /\ StoresInv /\ HeldInv

LEMMA TypesStep == TypeInv /\ [Next]_vars => TypeInv'
BY StepsStep, CountStep, StoresStep, HeldStep DEF TypeInv

\* The greatest of the numbers of a set that has one.
LEMMA MaxIs ==
  ASSUME NEW S \in SUBSET Nat, NEW m \in S, \A i \in S : i <= m
  PROVE  Max(S) = m
<1>1. \A x \in S : (\A y \in S : x >= y) => x = m
  OBVIOUS
<1>2. m \in S /\ \A y \in S : m >= y
  OBVIOUS
<1>. QED
  BY <1>1, <1>2 DEF Max

\* What a hit at i says of the uses before.
Fit(i) ==
  log[i].kind = "hit" =>
    /\ SameAsk(log[i].answer.ask, log[i].ask)
    /\ log[i].answer.step # "error_step"

Fresh(i) ==
  log[i].kind = "hit" =>
    LET before == {j \in Inserts(log[i].ask) : j < i} IN
    /\ before # {}
    /\ log[Max(before)].answer = log[i].answer
    /\ log[i].at < log[Max(before)].at + Lifetime(log[i].ask)

LEMMA HitsParts ==
  HitsFit /\ HitsAreFresh <=> \A i \in DOMAIN log : Fit(i) /\ Fresh(i)
BY DEF HitsFit, HitsAreFresh, Fit, Fresh

\* What was true of a use stays true as the log grows.
LEMMA OldUse ==
  ASSUME log \in Seq(Uses), NEW use, log' = Append(log, use),
         NEW i \in DOMAIN log, Fit(i), Fresh(i)
  PROVE  Fit(i)' /\ Fresh(i)'
<1>1. /\ DOMAIN log = 1 .. Len(log) /\ Len(log) \in Nat
      /\ \A j \in DOMAIN log : j \in DOMAIN log' /\ log'[j] = log[j]
      /\ \A j \in DOMAIN log' : j \in DOMAIN log \/ j = Len(log) + 1
  BY LogGrows
<1>2. Fit(i)'
  BY <1>1 DEF Fit
<1>3. ASSUME log[i].kind = "hit"
      PROVE  LET before == {j \in Inserts(log[i].ask) : j < i}
             IN  /\ {j \in Inserts(log[i].ask)' : j < i} = before
                 /\ before # {} /\ Max(before) \in DOMAIN log
                 /\ log[Max(before)].answer = log[i].answer
                 /\ log[i].at < log[Max(before)].at + Lifetime(log[i].ask)
  <2>. DEFINE before == {j \in Inserts(log[i].ask) : j < i}
  <2>1. /\ before # {} /\ log[Max(before)].answer = log[i].answer
        /\ log[i].at < log[Max(before)].at + Lifetime(log[i].ask)
    BY <1>3 DEF Fresh
  <2>2. {j \in Inserts(log[i].ask)' : j < i} = before
    <3>1. \A j : j < i /\ j \in DOMAIN log' => j \in DOMAIN log
      BY <1>1
    <3>2. log'[i] = log[i]
      BY <1>1
    <3>. QED
      BY <1>1, <3>1, <3>2 DEF Inserts
  <2>3. Max(before) \in before
    <3>1. before \in SUBSET (0 .. Len(log))
      BY <1>1 DEF Inserts
    <3>2. \E m \in before : \A j \in before : j <= m
      <4>. HIDE DEF before
      <4>. QED
        BY <1>1, <2>1, <3>1, GreatestNumber
    <3>3. PICK m \in before : \A j \in before : j <= m
      BY <3>2
    <3>4. before \in SUBSET Nat
      BY <3>1
    <3>. HIDE DEF before
    <3>. QED
      BY <3>3, <3>4, MaxIs
  <2>4. before \subseteq DOMAIN log
    BY DEF Inserts
  <2>. QED
    BY <2>1, <2>2, <2>3, <2>4
<1>4. Fresh(i)'
  BY <1>1, <1>3 DEF Fresh
<1>. QED
  BY <1>2, <1>4

\* A hit returns what was inserted last, and in time.
LEMMA NewHit ==
  ASSUME TypeInv, NEW s \in Sessions, L2Hit(s), NEW i \in DOMAIN log', i \notin DOMAIN log
  PROVE  Fit(i)' /\ Fresh(i)'
<1>. DEFINE p == Partition(s)
            key == K2(s)
            l2 == caches[p].l2
            ask == Asking(s)
<1>0. /\ log \in Seq(Uses) /\ options \in Configurations /\ now \in Nat
      /\ request[s] \in Requests /\ pc[s] = "l2_get"
  BY CacheAssumption DEF TypeInv, StepsInv, L2Hit
<1>1. /\ p \in Partitions /\ ask.partition = p /\ AskKey(ask) = key
  BY <1>0, OptionsOf, AskOf
<1>2. /\ key \in DOMAIN l2.entries /\ ~(now >= l2.entries[key].expires)
      /\ log' = Append(log, Use(s, "hit", l2.entries[key].value))
  BY DEF L2Hit, Hit, Expired, Holds
<1>3. PICK m \in DOMAIN log : Holding(p, key, m)
  BY <1>1, <1>2, HeldParts DEF TypeInv
<1>4. /\ Inserted(m, p, key) /\ \A j \in DOMAIN log : Inserted(j, p, key) => j <= m
      /\ l2.entries[key].value = log[m].answer
      /\ l2.entries[key].expires = log[m].at + AtLeastOne(p[2])
  BY <1>3 DEF Holding
<1>5. log[m].answer.ask = log[m].ask /\ log[m].answer.step # "error_step"
  BY <1>4, HeldParts DEF TypeInv, Sourced, Inserted
<1>6. /\ DOMAIN log = 1 .. Len(log) /\ Len(log) \in Nat /\ i = Len(log) + 1
      /\ log'[i] = Use(s, "hit", l2.entries[key].value)
      /\ \A j \in DOMAIN log : j \in DOMAIN log' /\ log'[j] = log[j]
      /\ \A j \in DOMAIN log' : j \in DOMAIN log \/ j = i
  BY <1>0, <1>2, LogGrows
<1>7. /\ log'[i].ask = ask /\ log'[i].kind = "hit" /\ log'[i].at = now
      /\ log'[i].answer = log[m].answer
  BY <1>4, <1>6 DEF Use
<1>8. Lifetime(ask) = AtLeastOne(p[2])
  BY <1>1 DEF Lifetime
<1>9. now < log[m].at + AtLeastOne(p[2])
  <2>1. log[m].at \in Nat
    <3>1. log[m] \in Uses
      BY <1>0
    <3>. QED
      BY <3>1, CacheAssumption DEF Uses
  <2>2. AtLeastOne(p[2]) \in Nat
    BY <1>1, PartitionNumbers
  <2>. QED
    BY <1>0, <1>2, <1>4, <2>1, <2>2
<1>. HIDE DEF p, key, l2
<1>10. SameAsk(log[m].ask, ask)
  BY <1>0, <1>1, <1>4, SameKey, AskedRequests DEF Inserted
<1>11. ASSUME NEW before, before = {j \in DOMAIN log' : /\ log'[j].kind = "insert"
                                                       /\ SameAsk(log'[j].ask, ask) /\ j < i}
       PROVE  m \in before /\ Max(before) = m
  <2>1. m \in before
    <3>1. m < i
      BY <1>6
    <3>. QED
      BY <1>4, <1>6, <1>10, <1>11, <3>1 DEF Inserted
  <2>2. ASSUME NEW j \in before PROVE j \in DOMAIN log /\ j <= m
    <3>1. j \in DOMAIN log' /\ log'[j].kind = "insert" /\ SameAsk(log'[j].ask, ask) /\ j < i
      BY <1>11
    <3>2. j \in DOMAIN log /\ log'[j] = log[j]
      <4>1. j # i
        BY <1>6, <3>1
      <4>. QED
        BY <1>6, <3>1, <4>1
    <3>3. Inserted(j, p, key)
      BY <1>0, <1>1, <3>1, <3>2, SameKey, AskedRequests DEF Inserted
    <3>. QED
      BY <1>4, <3>2, <3>3
  <2>3. before \in SUBSET Nat
    BY <1>6, <2>2
  <2>. QED
    BY <2>1, <2>2, <2>3, MaxIs
<1>12. Fit(i)'
  BY <1>5, <1>7, <1>10 DEF Fit
<1>13. Fresh(i)'
  <2>. DEFINE before == {j \in Inserts(log[i].ask)' : j < i}
  <2>1. before = {j \in DOMAIN log' : /\ log'[j].kind = "insert"
                                      /\ SameAsk(log'[j].ask, ask) /\ j < i}
    BY <1>7 DEF Inserts
  <2>2. m \in before /\ Max(before) = m
    <3>. HIDE DEF before
    <3>. QED
      BY <1>11, <2>1
  <2>3. /\ before # {} /\ log'[Max(before)].answer = log'[i].answer
        /\ log'[i].at < log'[Max(before)].at + Lifetime(log'[i].ask)
    <3>. HIDE DEF before
    <3>. QED
      BY <1>6, <1>7, <1>8, <1>9, <2>2 DEF p
  <2>. QED
    BY <2>3 DEF Fresh
<1>. QED
  BY <1>12, <1>13

\* What was true of the uses stays true, and what comes is true.
LEMMA HitsStep ==
  ASSUME TypeInv, HitsFit /\ HitsAreFresh, [Next]_vars
  PROVE  (HitsFit /\ HitsAreFresh)'
<1>1. \A i \in DOMAIN log : Fit(i) /\ Fresh(i)
  BY HitsParts
<1>2. log \in Seq(Uses)
  BY DEF TypeInv, StepsInv
<1>3. ASSUME log' = log PROVE \A i \in DOMAIN log' : Fit(i)' /\ Fresh(i)'
  <2>1. ASSUME NEW i \in DOMAIN log PROVE Fit(i)' /\ Fresh(i)'
    <3>1. Fit(i) /\ Fresh(i)
      BY <1>1
    <3>2. Fit(i)'
      BY <1>3, <3>1 DEF Fit
    <3>3. Fresh(i)'
      BY <1>3, <3>1 DEF Fresh, Inserts
    <3>. QED
      BY <3>2, <3>3
  <2>. QED
    BY <1>3, <2>1
<1>4. ASSUME NEW s \in Sessions, L2Hit(s) PROVE \A i \in DOMAIN log' : Fit(i)' /\ Fresh(i)'
  <2>1. \E use : log' = Append(log, use)
    BY <1>4 DEF L2Hit
  <2>2. ASSUME NEW i \in DOMAIN log' PROVE Fit(i)' /\ Fresh(i)'
    <3>1. CASE i \in DOMAIN log
      BY <1>1, <1>2, <2>1, <3>1, OldUse
    <3>2. CASE i \notin DOMAIN log
      BY <1>4, <3>2, NewHit
    <3>. QED
      BY <3>1, <3>2
  <2>. QED
    BY <2>2
<1>5. ASSUME NEW s \in Sessions, log' = Append(log, Use(s, "insert", got[s]))
      PROVE  \A i \in DOMAIN log' : Fit(i)' /\ Fresh(i)'
  <2>1. ASSUME NEW i \in DOMAIN log' PROVE Fit(i)' /\ Fresh(i)'
    <3>1. CASE i \in DOMAIN log
      BY <1>1, <1>2, <1>5, <3>1, OldUse
    <3>2. CASE i \notin DOMAIN log
      <4>1. log'[i] = Use(s, "insert", got[s])
        BY <1>2, <1>5, <3>2, LogGrows
      <4>2. log'[i].kind # "hit"
        BY <4>1 DEF Use
      <4>. QED
        BY <4>2 DEF Fit, Fresh
    <3>. QED
      BY <3>1, <3>2
  <2>. QED
    BY <2>1
<1>6. \A i \in DOMAIN log' : Fit(i)' /\ Fresh(i)'
  <2>1. CASE UNCHANGED vars
    BY <1>3, <2>1 DEF vars
  <2>2. CASE Tick
    BY <1>3, <2>2 DEF Tick
  <2>3. ASSUME NEW s \in Sessions,
               \/ Begin(s) \/ L1Insert(s) \/ L2Miss(s) \/ Answered(s) \/ Unanswered(s)
        PROVE  log' = log
    BY <2>3 DEF Begin, L1Insert, L2Miss, Answered, Unanswered
  <2>4. ASSUME NEW s \in Sessions, L2Insert(s)
        PROVE  log' = log \/ log' = Append(log, Use(s, "insert", got[s]))
    BY <2>4 DEF L2Insert
  <2>. QED
    BY <1>3, <1>4, <1>5, <2>1, <2>2, <2>3, <2>4 DEF Next
<1>. QED
  BY <1>6 DEF HitsFit, HitsAreFresh, Fit, Fresh

\* In a state of the invariant every variable has its type.
LEMMA TypeInvTypes == TypeInv => TypeOK
<1>. SUFFICES ASSUME TypeInv PROVE TypeOK
  OBVIOUS
<1>1. ASSUME NEW s \in Sessions
      PROVE  /\ got[s] # NoAnswer <=> pc[s] = "l2_insert"
             /\ request[s] = NoRequest <=> pc[s] = "idle"
  BY NoAnswerApart DEF TypeInv, StepsInv
<1>2. Len(log) =< begun
  <2>1. Cardinality(Busy) \in Nat
    BY FS_CardinalityType DEF TypeInv, CountInv
  <2>2. Len(log) \in Nat /\ begun \in Nat
    BY CacheAssumption DEF TypeInv, StepsInv, CountInv
  <2>. QED
    BY <2>1, <2>2 DEF TypeInv, CountInv
<1>. QED
  BY <1>1, <1>2 DEF TypeInv, StepsInv, CountInv, TypeOK

\* An ordered store is as large as its order is long.
LEMMA OrderedStore ==
  ASSUME NEW store, NEW max \in Nat, Ordered(store, max)
  PROVE  Cardinality(DOMAIN store.entries) =< max /\ InLine(store)
<1>1. /\ IsFiniteSet(DOMAIN store.entries)
      /\ Cardinality(DOMAIN store.entries) = Len(store.lru)
  BY LineCounts DEF Ordered
<1>2. store.lru \in Seq(DOMAIN store.entries) /\ DOMAIN store.lru = 1 .. Len(store.lru)
  BY DEF Ordered, Line
<1>3. {store.lru[i] : i \in DOMAIN store.lru} = DOMAIN store.entries
  BY <1>2 DEF Ordered, Line
<1>. QED
  BY <1>1, <1>3 DEF Ordered, InLine

LEMMA StoresFollow == TypeInv => StoresBounded
<1>. SUFFICES ASSUME TypeInv PROVE StoresBounded
  OBVIOUS
<1>1. ASSUME NEW o \in Options, NEW level \in {"l1", "l2"}
      PROVE  LET store == caches[PartitionKey(o)][level] IN
             /\ Cardinality(DOMAIN store.entries) =< MaxEntries(o)
             /\ InLine(store)
  <2>. DEFINE k == PartitionKey(o)
  <2>1. k \in Partitions /\ AtLeastOne(k[3]) = MaxEntries(o)
    BY DEF Partitions, PartitionKey, MaxEntries
  <2>2. AtLeastOne(k[3]) \in Nat
    BY <2>1, PartitionNumbers
  <2>. HIDE DEF k
  <2>3. Ordered(caches[k][level], AtLeastOne(k[3]))
    <3>1. Ordered(caches[k].l1, AtLeastOne(k[3])) /\ Ordered(caches[k].l2, AtLeastOne(k[3]))
      BY <2>1 DEF TypeInv, StoresInv
    <3>. QED
      BY <3>1
  <2>4. /\ Cardinality(DOMAIN caches[k][level].entries) =< AtLeastOne(k[3])
        /\ InLine(caches[k][level])
    BY <2>2, <2>3, OrderedStore
  <2>. QED
    BY <2>1, <2>4 DEF k
<1>2. TypeOK
  BY TypeInvTypes
<1>. QED
  BY <1>1, <1>2 DEF StoresBounded

-----------------------------------------------------------------------------
(***************************************************************************)
(* The order of l2 and the order of its uses.                              *)
(***************************************************************************)
LEMMA KeysFinite ==
  ASSUME NEW uses \in Seq(Uses), NEW J \in SUBSET DOMAIN uses
  PROVE  IsFiniteSet({AskKey(uses[j].ask) : j \in J})
<1>. DEFINE keys == {AskKey(uses[j].ask) : j \in J}
            f == [j \in J |-> AskKey(uses[j].ask)]
<1>1. IsFiniteSet(J)
  <2>1. DOMAIN uses = 1 .. Len(uses) /\ Len(uses) \in Int /\ 1 \in Int
    OBVIOUS
  <2>2. IsFiniteSet(DOMAIN uses)
    BY <2>1, FS_Interval
  <2>. QED
    BY <2>2, FS_Subset
<1>2. f \in Surjection(J, keys)
  BY DEF Surjection
<1>. HIDE DEF f, keys
<1>3. IsFiniteSet(keys)
  BY <1>1, <1>2, FS_Surjection
<1>. QED
  BY <1>3 DEF keys

LEMMA SinceFinite ==
  ASSUME NEW k, NEW key
  PROVE  /\ log \in Seq(Uses) => IsFiniteSet(Since(k, key))
         /\ log' \in Seq(Uses) => IsFiniteSet(Since(k, key)')
<1>. DEFINE J == {j \in DOMAIN log : /\ log[j].ask.partition = k
                                     /\ \A i \in DOMAIN log : UsedAt(i, k, key) => i < j}
<1>1. Since(k, key) = {AskKey(log[j].ask) : j \in J} /\ J \in SUBSET DOMAIN log
  BY DEF Since
<1>2. Since(k, key)' = {AskKey(log'[j].ask) : j \in J'} /\ J' \in SUBSET DOMAIN log'
  BY DEF Since
<1>3. log \in Seq(Uses) => IsFiniteSet(Since(k, key))
  <2>1. PICK I, uses : I = J /\ uses = log
    OBVIOUS
  <2>. QED
    BY <1>1, <2>1, KeysFinite
<1>4. log' \in Seq(Uses) => IsFiniteSet(Since(k, key)')
  <2>1. PICK I, uses : I = J' /\ uses = log'
    OBVIOUS
  <2>. QED
    BY <1>2, <2>1, KeysFinite
<1>. QED
  BY <1>3, <1>4

\* As many keys were used since as are behind it in the order.
LEMMA BehindCount ==
  ASSUME NEW K, NEW lru, Line(lru, K), NEW i \in 1 .. Len(lru),
         NEW T, IsFiniteSet(T), \A b \in 1 .. Len(lru) : i < b => lru[b] \in T
  PROVE  Cardinality(T) >= Len(lru) - i
<1>0. lru \in Seq(K) /\ Len(lru) \in Nat /\ i \in 0 .. Len(lru)
  BY DEF Line
<1>. DEFINE behind == K \ {lru[j] : j \in 1 .. i}
            rest == SubSeq(lru, i + 1, Len(lru))
<1>1. Line(rest, behind) /\ Len(rest) = Len(lru) - i
  BY <1>0, RestLine
<1>2. Cardinality(behind) = Len(rest)
  <2>. HIDE DEF behind, rest
  <2>. QED
    BY <1>1, LineCounts
<1>3. behind \in SUBSET T
  <2>1. ASSUME NEW k \in behind PROVE k \in T
    <3>1. PICK b \in 1 .. Len(lru) : lru[b] = k
      BY DEF Line
    <3>2. b \notin 1 .. i
      BY <3>1
    <3>. QED
      BY <1>0, <3>1, <3>2
  <2>. QED
    BY <2>1
<1>. HIDE DEF behind, rest
<1>4. Cardinality(behind) <= Cardinality(T)
  BY <1>3, FS_Subset
<1>5. Cardinality(T) \in Nat
  BY FS_CardinalityType
<1>. QED
  BY <1>0, <1>1, <1>2, <1>4, <1>5

\* Another key's use is one since the last use of a key.
LEMMA SinceGrows ==
  ASSUME log \in Seq(Uses), NEW use, log' = Append(log, use), NEW k, NEW key,
         use.ask.partition # k \/ AskKey(use.ask) # key
  PROVE  /\ Since(k, key) \subseteq Since(k, key)'
         /\ use.ask.partition = k => AskKey(use.ask) \in Since(k, key)'
<1>1. PICK n \in DOMAIN log' :
        /\ log'[n] = use /\ \A i \in DOMAIN log : i \in DOMAIN log' /\ log'[i] = log[i] /\ i < n
        /\ \A i \in DOMAIN log' : i \in DOMAIN log \/ i = n
  <2>1. Len(log) \in Nat /\ \A i \in 1 .. Len(log) : i < Len(log) + 1
    OBVIOUS
  <2>. QED
    BY <2>1, LogGrows
<1>2. ~UsedAt(n, k, key)'
  BY <1>1 DEF UsedAt
<1>3. \A i \in DOMAIN log' : UsedAt(i, k, key)' => i \in DOMAIN log /\ UsedAt(i, k, key)
  BY <1>1, <1>2 DEF UsedAt
<1>4. ASSUME NEW x \in Since(k, key) PROVE x \in Since(k, key)'
  <2>1. PICK j \in DOMAIN log : /\ x = AskKey(log[j].ask) /\ log[j].ask.partition = k
                                /\ \A i \in DOMAIN log : UsedAt(i, k, key) => i < j
    BY DEF Since
  <2>2. /\ j \in DOMAIN log' /\ x = AskKey(log'[j].ask) /\ log'[j].ask.partition = k
        /\ \A i \in DOMAIN log' : UsedAt(i, k, key)' => i < j
    BY <1>1, <1>3, <2>1
  <2>. QED
    BY <2>2 DEF Since
<1>5. ASSUME use.ask.partition = k PROVE AskKey(use.ask) \in Since(k, key)'
  <2>1. /\ log'[n].ask.partition = k /\ AskKey(log'[n].ask) = AskKey(use.ask)
        /\ \A i \in DOMAIN log' : UsedAt(i, k, key)' => i < n
    BY <1>1, <1>3, <1>5
  <2>. QED
    BY <2>1 DEF Since
<1>. QED
  BY <1>4, <1>5

\* The pairs of keys whose second was used since the last use of the first.
Ranked(k, K) == {pair \in K \X K : pair[2] \in Since(k, pair[1])}

LineOf(k) ==
  LET lru == caches[k].l2.lru
  IN  \A a, b \in 1 .. Len(lru) : a < b => lru[b] \in Since(k, lru[a])

LastAt(m, k, key) ==
  Inserted(m, k, key) /\ \A i \in DOMAIN log : Inserted(i, k, key) => i <= m

HeldOrGone(m, k, key) == key \in DOMAIN caches[k].l2.entries \/ Gone(m, k, key)

AllHeldOrGone(k) ==
  \A m \in DOMAIN log : \A key :
    AskKey(log[m].ask) = key /\ LastAt(m, k, key) => HeldOrGone(m, k, key)

LEMMA OrderParts == OrderInv <=> \A k \in Partitions : LineOf(k) /\ AllHeldOrGone(k)
BY DEF OrderInv, LineOf, AllHeldOrGone, LastAt, HeldOrGone

LEMMA RankedLine ==
  ASSUME NEW k, NEW K, LineOf(k), Line(caches[k].l2.lru, K)
  PROVE  Sorted(caches[k].l2.lru, Ranked(k, K))
<1>1. PICK lru : lru = caches[k].l2.lru
  OBVIOUS
<1>2. ASSUME NEW a \in 1 .. Len(lru), NEW b \in 1 .. Len(lru), a < b
      PROVE  <<lru[a], lru[b]>> \in Ranked(k, K)
  <2>1. lru[a] \in K /\ lru[b] \in K
    <3>1. lru \in Seq(K)
      BY <1>1 DEF Line
    <3>. QED
      BY <3>1
  <2>2. lru[b] \in Since(k, lru[a])
    BY <1>1, <1>2 DEF LineOf
  <2>. QED
    BY <2>1, <2>2 DEF Ranked
<1>. QED
  BY <1>1, <1>2 DEF Sorted

\* No use of the key in the partition is added.
Apart(k, key) ==
  \/ log' = log
  \/ \E use : /\ log' = Append(log, use)
              /\ use.ask.partition # k \/ AskKey(use.ask) # key

LEMMA SinceKept ==
  ASSUME log \in Seq(Uses), NEW k, NEW key, Apart(k, key)
  PROVE  Since(k, key) \subseteq Since(k, key)'
<1>1. CASE log' = log
  BY <1>1 DEF Since, UsedAt
<1>2. CASE log' # log
  BY <1>2, SinceGrows DEF Apart
<1>. QED
  BY <1>1, <1>2

LEMMA GoneKept ==
  ASSUME log \in Seq(Uses), log' \in Seq(Uses), NEW k \in Partitions, NEW key, Apart(k, key),
         NEW m \in DOMAIN log, log'[m] = log[m], Gone(m, k, key),
         now \in Int, now' \in Int, now <= now'
  PROVE  Gone(m, k, key)'
<1>1. CASE now >= log[m].at + AtLeastOne(k[2])
  <2>1. log[m].at \in Int
    <3>1. log[m] \in Uses
      OBVIOUS
    <3>. QED
      BY <3>1, CacheAssumption DEF Uses
  <2>2. AtLeastOne(k[2]) \in Int
    BY PartitionNumbers
  <2>3. now' >= log'[m].at + AtLeastOne(k[2])
    BY <1>1, <2>1, <2>2
  <2>. QED
    BY <2>3 DEF Gone
<1>2. CASE Cardinality(Since(k, key)) >= AtLeastOne(k[3])
  <2>1. PICK before, after : before = Since(k, key) /\ after = Since(k, key)'
    OBVIOUS
  <2>2. IsFiniteSet(after)
    <3>1. IsFiniteSet(Since(k, key)')
      BY SinceFinite
    <3>. QED
      BY <2>1, <3>1
  <2>3. before \in SUBSET after
    BY <2>1, SinceKept
  <2>4. /\ Cardinality(before) <= Cardinality(after) /\ Cardinality(after) \in Nat
        /\ Cardinality(before) \in Nat
    BY <2>2, <2>3, FS_Subset, FS_CardinalityType
  <2>5. AtLeastOne(k[3]) \in Int
    BY PartitionNumbers
  <2>6. Cardinality(after) >= AtLeastOne(k[3])
    BY <1>2, <2>1, <2>4, <2>5
  <2>. QED
    BY <2>1, <2>6 DEF Gone
<1>. QED
  BY <1>1, <1>2 DEF Gone

\* The last insertion of a key was that before, unless the key is inserted now.
LEMMA LastBefore ==
  ASSUME log \in Seq(Uses), NEW k, NEW key, NEW m \in DOMAIN log', LastAt(m, k, key)',
         log' = log \/ \E use : log' = Append(log, use) /\ log'[m] # use
  PROVE  m \in DOMAIN log /\ log'[m] = log[m] /\ LastAt(m, k, key)
<1>1. /\ \A i \in DOMAIN log : i \in DOMAIN log' /\ log'[i] = log[i]
      /\ m \in DOMAIN log
  BY LogGrows
<1>2. \A i \in DOMAIN log : Inserted(i, k, key)' <=> Inserted(i, k, key)
  BY <1>1 DEF Inserted
<1>. QED
  BY <1>1, <1>2 DEF LastAt

\* Other partitions do not see a step.
LEMMA OrderElsewhere ==
  ASSUME log \in Seq(Uses), log' \in Seq(Uses), now \in Int, now' \in Int, now <= now',
         NEW k \in Partitions, LineOf(k), AllHeldOrGone(k), caches'[k].l2 = caches[k].l2,
         log' = log \/ \E use : log' = Append(log, use) /\ use.ask.partition # k
  PROVE  LineOf(k)' /\ AllHeldOrGone(k)'
<1>1. \A key : Apart(k, key)
  BY DEF Apart
<1>2. LineOf(k)'
  BY <1>1, SinceKept DEF LineOf
<1>3. ASSUME NEW m \in DOMAIN log', NEW key, AskKey(log'[m].ask) = key, LastAt(m, k, key)'
      PROVE  HeldOrGone(m, k, key)'
  <2>1. log' = log \/ \E use : log' = Append(log, use) /\ log'[m] # use
    <3>1. log'[m].ask.partition = k
      BY <1>3 DEF LastAt, Inserted
    <3>. QED
      BY <3>1
  <2>2. m \in DOMAIN log /\ log'[m] = log[m] /\ LastAt(m, k, key)
    BY <1>3, <2>1, LastBefore
  <2>3. HeldOrGone(m, k, key)
    BY <1>3, <2>2 DEF AllHeldOrGone
  <2>4. CASE Gone(m, k, key)
    <3>1. Gone(m, k, key)'
      BY <1>1, <2>2, <2>4, GoneKept
    <3>. QED
      BY <3>1 DEF HeldOrGone
  <2>. QED
    BY <2>3, <2>4 DEF HeldOrGone
<1>. QED
  BY <1>2, <1>3 DEF AllHeldOrGone

\* A hit puts the key at the end of the order and of the uses.
LEMMA OrderHit ==
  ASSUME StepsInv, StepsInv', StoresInv, NEW s \in Sessions, L2Hit(s),
         LineOf(Partition(s)), AllHeldOrGone(Partition(s))
  PROVE  LineOf(Partition(s))' /\ AllHeldOrGone(Partition(s))'
<1>1. PICK p, key, use : p = Partition(s) /\ key = K2(s)
                         /\ use = Use(s, "hit", caches[p].l2.entries[key].value)
  OBVIOUS
<1>2. /\ log \in Seq(Uses) /\ log' \in Seq(Uses) /\ now \in Int /\ now' = now
      /\ options \in Configurations /\ options' = options /\ request[s] \in Requests
  BY DEF StepsInv, L2Hit
<1>3. /\ p \in Partitions /\ use.ask.partition = p /\ AskKey(use.ask) = key
      /\ use.kind = "hit"
  BY <1>1, <1>2, OptionsOf, AskOf DEF Use
<1>4. /\ Partition(s)' = p
  BY <1>1, <1>2 DEF Partition
<1>5. /\ log' = Append(log, use)
      /\ Hit(caches[p].l2, key, now)
      /\ caches' = [caches EXCEPT ![p].l2 = AfterGet(caches[p].l2, key, now)]
  BY <1>1 DEF L2Hit
<1>6. PICK K, lru : K = DOMAIN caches[p].l2.entries /\ lru = caches[p].l2.lru
  OBVIOUS
<1>7. Line(lru, K) /\ key \in K
  BY <1>3, <1>5, <1>6 DEF StoresInv, Ordered, Hit, Holds
<1>8. /\ caches'[p].l2.lru = Touch(lru, key)
      /\ DOMAIN caches'[p].l2.entries = K
  <2>1. caches'[p].l2 = AfterGet(caches[p].l2, key, now)
    BY <1>3, <1>5 DEF StoresInv
  <2>2. caches[p].l2 = [entries |-> caches[p].l2.entries, lru |-> caches[p].l2.lru]
    BY <1>3 DEF StoresInv, Ordered
  <2>3. AfterGet(caches[p].l2, key, now) =
          [entries |-> caches[p].l2.entries, lru |-> Touch(lru, key)]
    BY <1>5, <1>6, <2>2 DEF AfterGet
  <2>. QED
    BY <1>6, <2>1, <2>3
<1>9. \A k \in K \ {key} : /\ Since(p, k) \subseteq Since(p, k)'
                           /\ key \in Since(p, k)'
  BY <1>2, <1>3, <1>5, SinceGrows
<1>10. LineOf(p)'
  <2>1. PICK R, Q : R = Ranked(p, K) /\ Q = Ranked(p, K)'
    OBVIOUS
  <2>2. Sorted(lru, R)
    BY <1>1, <1>6, <1>7, <2>1, RankedLine
  <2>3. \A j, k \in K \ {key} : <<j, k>> \in R => <<j, k>> \in Q
    BY <1>9, <2>1 DEF Ranked
  <2>4. \A k \in K \ {key} : <<k, key>> \in Q
    BY <1>7, <1>9, <2>1 DEF Ranked
  <2>5. Sorted(Touch(lru, key), Q)
    BY <1>7, <2>2, <2>3, <2>4, TouchSorted
  <2>. QED
    BY <1>8, <2>1, <2>5 DEF Sorted, LineOf, Ranked
<1>11. ASSUME NEW m \in DOMAIN log', NEW k, AskKey(log'[m].ask) = k, LastAt(m, p, k)'
       PROVE  HeldOrGone(m, p, k)'
  <2>1. log'[m] # use
    BY <1>3, <1>11 DEF LastAt, Inserted
  <2>2. m \in DOMAIN log /\ log'[m] = log[m] /\ LastAt(m, p, k)
    BY <1>2, <1>5, <1>11, <2>1, LastBefore
  <2>3. HeldOrGone(m, p, k)
    BY <1>1, <1>11, <2>2 DEF AllHeldOrGone
  <2>4. CASE k \in K
    BY <1>8, <2>4 DEF HeldOrGone
  <2>5. CASE k \notin K
    <3>1. Gone(m, p, k)
      BY <1>6, <2>3, <2>5 DEF HeldOrGone
    <3>2. Apart(p, k)
      BY <1>3, <1>5, <1>7, <2>5 DEF Apart
    <3>3. Gone(m, p, k)'
      BY <1>2, <1>3, <2>2, <3>1, <3>2, GoneKept
    <3>. QED
      BY <3>3 DEF HeldOrGone
  <2>. QED
    BY <2>4, <2>5
<1>12. LineOf(p)' /\ AllHeldOrGone(p)'
  BY <1>10, <1>11 DEF AllHeldOrGone
<1>. QED
  BY <1>4, <1>12 DEF LineOf, AllHeldOrGone

\* Of what l2 drops in a lookup the time is over.
LEMMA OrderMiss ==
  ASSUME StepsInv, StepsInv', StoresInv, HeldInv, NEW s \in Sessions, L2Miss(s),
         LineOf(Partition(s)), AllHeldOrGone(Partition(s))
  PROVE  LineOf(Partition(s))' /\ AllHeldOrGone(Partition(s))'
<1>1. PICK p, key : p = Partition(s) /\ key = K2(s)
  OBVIOUS
<1>2. /\ log \in Seq(Uses) /\ log' = log /\ now \in Int /\ now' = now
      /\ options \in Configurations /\ options' = options
  BY DEF StepsInv, L2Miss
<1>3. p \in Partitions /\ Partition(s)' = p
  BY <1>1, <1>2, OptionsOf DEF Partition
<1>4. /\ ~Hit(caches[p].l2, key, now)
      /\ caches' = [caches EXCEPT ![p].l2 = AfterGet(caches[p].l2, key, now)]
  BY <1>1 DEF L2Miss
<1>5. PICK store : store = caches[p].l2
  OBVIOUS
<1>6. PICK K, R : K = DOMAIN store.entries /\ R = Ranked(p, K)
  OBVIOUS
<1>7. Ordered(store, AtLeastOne(p[3])) /\ Line(store.lru, K)
  BY <1>3, <1>5, <1>6 DEF StoresInv, Ordered
<1>8. caches'[p].l2 = AfterGet(store, key, now)
  BY <1>3, <1>4, <1>5 DEF StoresInv
<1>9. /\ Sorted(caches'[p].l2.lru, R)
      /\ DOMAIN caches'[p].l2.entries = IF Expired(store, key, now) THEN K \ {key} ELSE K
  <2>1. Sorted(store.lru, R)
    BY <1>1, <1>5, <1>6, <1>7, RankedLine
  <2>2. AtLeastOne(p[3]) \in Nat
    BY <1>3, PartitionNumbers
  <2>. QED
    BY SMTT(30), <1>4, <1>5, <1>6, <1>7, <1>8, <2>1, <2>2, MissSorted
<1>10. LineOf(p)'
  <2>1. \A k : Since(p, k)' = Since(p, k)
    BY <1>2 DEF Since, UsedAt
  <2>. QED
    BY <1>6, <1>9, <2>1 DEF Sorted, LineOf, Ranked
<1>11. ASSUME NEW m \in DOMAIN log', NEW k, AskKey(log'[m].ask) = k, LastAt(m, p, k)'
       PROVE  HeldOrGone(m, p, k)'
  <2>1. m \in DOMAIN log /\ log'[m] = log[m] /\ LastAt(m, p, k)
    BY <1>2, <1>11, LastBefore
  <2>2. HeldOrGone(m, p, k)
    BY <1>1, <1>11, <2>1 DEF AllHeldOrGone
  <2>3. CASE Gone(m, p, k)
    <3>1. Apart(p, k) /\ now <= now'
      BY <1>2 DEF Apart
    <3>2. Gone(m, p, k)'
      BY <1>2, <1>3, <2>1, <2>3, <3>1, GoneKept
    <3>. QED
      BY <3>2 DEF HeldOrGone
  <2>4. CASE k \in K /\ ~(Expired(store, key, now) /\ k = key)
    BY <1>9, <2>4 DEF HeldOrGone
  <2>5. CASE k \in K /\ Expired(store, key, now) /\ k = key
    <3>1. PICK n \in DOMAIN log : Holding(p, key, n)
      BY <1>3, <1>5, <1>6, <2>5, HeldParts
    <3>2. n = m
      <4>1. n <= m /\ m <= n
        BY <2>1, <2>5, <3>1 DEF Holding, LastAt
      <4>2. n \in Int /\ m \in Int
        BY <1>2, <2>1
      <4>. QED
        BY <4>1, <4>2
    <3>3. now >= store.entries[key].expires
      BY <2>5 DEF Expired
    <3>4. store.entries[key].expires = log[m].at + AtLeastOne(p[2])
      BY <1>5, <3>1, <3>2 DEF Holding
    <3>5. Gone(m, p, k)'
      BY <1>2, <2>1, <3>3, <3>4 DEF Gone
    <3>. QED
      BY <3>5 DEF HeldOrGone
  <2>. QED
    BY <1>5, <1>6, <2>2, <2>3, <2>4, <2>5 DEF HeldOrGone
<1>12. LineOf(p)' /\ AllHeldOrGone(p)'
  BY <1>10, <1>11 DEF AllHeldOrGone
<1>. QED
  BY <1>3, <1>12 DEF LineOf, AllHeldOrGone

\* What an insertion takes from the front has as many keys behind it as the store holds.
LEMMA OrderInsert ==
  ASSUME StepsInv, StepsInv', StoresInv, NEW s \in Sessions, L2Insert(s), Cacheable(got[s]),
         LineOf(Partition(s)), AllHeldOrGone(Partition(s))
  PROVE  LineOf(Partition(s))' /\ AllHeldOrGone(Partition(s))'
<1>1. PICK p, key, use, max : /\ p = Partition(s) /\ key = K2(s)
                              /\ use = Use(s, "insert", got[s]) /\ max = MaxEntries(options[s])
  OBVIOUS
<1>2. /\ log \in Seq(Uses) /\ log' \in Seq(Uses) /\ now \in Int /\ now' = now
      /\ options \in Configurations /\ options' = options /\ request[s] \in Requests
  BY DEF StepsInv, L2Insert
<1>3. /\ p \in Partitions /\ use.ask.partition = p /\ AskKey(use.ask) = key
      /\ use.kind = "insert" /\ max = AtLeastOne(p[3]) /\ max \in Nat \ {0}
  BY <1>1, <1>2, OptionsOf, PartitionNumbers, AskOf DEF Use
<1>4. Partition(s)' = p
  BY <1>1, <1>2 DEF Partition
<1>5. PICK store, new : /\ store = caches[p].l2
                        /\ new = AfterInsert(store, key, got[s], now + TimeToLive(options[s]), max)
  OBVIOUS
<1>6. log' = Append(log, use) /\ caches' = [caches EXCEPT ![p].l2 = new]
  BY <1>1, <1>5 DEF L2Insert
<1>7. PICK K, lru : K = DOMAIN store.entries /\ lru = Touch(store.lru, key)
  OBVIOUS
<1>8. Ordered(store, max) /\ Line(store.lru, K)
  BY <1>3, <1>5, <1>7 DEF StoresInv, Ordered
<1>9. caches'[p].l2 = new
  BY <1>3, <1>6 DEF StoresInv
<1>split. After(new, K \cup {key}, lru, key, max)
  <2>1. PICK expires : new = AfterInsert(store, key, got[s], expires, max)
    BY <1>5
  <2>. QED
    BY <1>3, <1>7, <1>8, <2>1, InsertSplit
<1>10. Line(lru, K \cup {key}) /\ Len(lru) \in Nat /\ lru[Len(lru)] = key
  BY <1>split DEF After
<1>11. PICK n \in 0 .. Len(lru) - 1 :
         /\ new.lru = SubSeq(lru, n + 1, Len(lru))
         /\ DOMAIN new.entries = (K \cup {key}) \ {lru[i] : i \in 1 .. n}
         /\ n = 0 \/ Len(lru) - n >= max
  BY <1>split DEF After, Cut
<1>12. \A k : k # key => Since(p, k) \subseteq Since(p, k)' /\ key \in Since(p, k)'
  BY <1>2, <1>3, <1>6, SinceGrows
<1>13. PICK Q : Q = Ranked(p, K \cup {key})'
  OBVIOUS
<1>14. Sorted(lru, Q)
  <2>1. PICK R : R = Ranked(p, K)
    OBVIOUS
  <2>2. Sorted(store.lru, R)
    BY <1>1, <1>5, <1>8, <2>1, RankedLine
  <2>3. \A j, k \in K \ {key} : <<j, k>> \in R => <<j, k>> \in Q
    BY <1>12, <1>13, <2>1 DEF Ranked
  <2>4. \A k \in K \ {key} : <<k, key>> \in Q
    BY <1>12, <1>13 DEF Ranked
  <2>. QED
    BY <1>7, <1>8, <2>2, <2>3, <2>4, TouchSorted
<1>15. LineOf(p)'
  <2>1. lru \in Seq(K \cup {key}) /\ n \in 0 .. Len(lru)
    BY <1>10 DEF Line
  <2>2. Sorted(caches'[p].l2.lru, Q)
    BY <1>9, <1>11, <1>14, <2>1, RestSorted
  <2>. QED
    BY <1>13, <2>2 DEF Sorted, LineOf, Ranked
<1>16. key \in DOMAIN new.entries
  <2>1. ASSUME NEW i \in 1 .. n PROVE lru[i] # key
    <3>1. i \in 1 .. Len(lru) /\ Len(lru) \in 1 .. Len(lru) /\ i # Len(lru)
      BY <1>10
    <3>. QED
      BY <1>10, <3>1 DEF Line
  <2>. QED
    BY <1>11, <2>1
<1>17. ASSUME NEW m \in DOMAIN log', NEW k, AskKey(log'[m].ask) = k, LastAt(m, p, k)', k # key
       PROVE  HeldOrGone(m, p, k)'
  <2>1. log'[m] # use
    BY <1>3, <1>17
  <2>2. m \in DOMAIN log /\ log'[m] = log[m] /\ LastAt(m, p, k)
    BY <1>2, <1>6, <1>17, <2>1, LastBefore
  <2>3. HeldOrGone(m, p, k)
    BY <1>1, <1>17, <2>2 DEF AllHeldOrGone
  <2>4. CASE Gone(m, p, k)
    <3>1. Apart(p, k) /\ now <= now'
      BY <1>2, <1>3, <1>6, <1>17 DEF Apart
    <3>2. Gone(m, p, k)'
      BY <1>2, <1>3, <2>2, <2>4, <3>1, GoneKept
    <3>. QED
      BY <3>2 DEF HeldOrGone
  <2>5. CASE k \in DOMAIN new.entries
    BY <1>9, <2>5 DEF HeldOrGone
  <2>6. CASE k \in K /\ k \notin DOMAIN new.entries
    <3>1. PICK i \in 1 .. n : lru[i] = k
      BY <1>11, <2>6
    <3>2. i \in 1 .. Len(lru) /\ Len(lru) - i >= max
      BY <1>3, <1>10, <1>11
    <3>3. PICK T : T = Since(p, k)'
      OBVIOUS
    <3>4. \A b \in 1 .. Len(lru) : i < b => lru[b] \in T
      BY <1>13, <1>14, <3>1, <3>2, <3>3 DEF Sorted, Ranked
    <3>5. IsFiniteSet(T)
      BY <1>2, <3>3, SinceFinite
    <3>6. Cardinality(T) >= Len(lru) - i /\ Cardinality(T) \in Nat
      BY <1>10, <3>2, <3>4, <3>5, BehindCount, FS_CardinalityType
    <3>7. Cardinality(T) >= AtLeastOne(p[3])
      BY <1>3, <1>10, <3>2, <3>6
    <3>8. Gone(m, p, k)'
      BY <3>3, <3>7 DEF Gone
    <3>. QED
      BY <3>8 DEF HeldOrGone
  <2>. QED
    BY <1>5, <1>7, <2>3, <2>4, <2>5, <2>6 DEF HeldOrGone
<1>18. LineOf(p)' /\ AllHeldOrGone(p)'
  <2>1. \A m \in DOMAIN log' : HeldOrGone(m, p, key)'
    BY <1>9, <1>16 DEF HeldOrGone
  <2>. QED
    BY <1>15, <1>17, <2>1 DEF AllHeldOrGone
<1>. QED
  BY <1>4, <1>18 DEF LineOf, AllHeldOrGone

LEMMA OrderStep == TypeInv /\ OrderInv /\ [Next]_vars => OrderInv'
<1> SUFFICES ASSUME TypeInv, OrderInv, [Next]_vars PROVE OrderInv'
  OBVIOUS
<1>0. /\ StepsInv /\ StoresInv /\ HeldInv /\ StepsInv'
      /\ log \in Seq(Uses) /\ log' \in Seq(Uses) /\ options \in Configurations
      /\ \A k \in Partitions : LineOf(k) /\ AllHeldOrGone(k)
  BY TypesStep, OrderParts DEF TypeInv, StepsInv
<1>1. now \in Int /\ now' \in Int
  BY <1>0, CacheAssumption DEF StepsInv
<1>2. ASSUME NEW k \in Partitions, caches'[k].l2 = caches[k].l2, now <= now',
             log' = log \/ \E use : log' = Append(log, use) /\ use.ask.partition # k
      PROVE  LineOf(k)' /\ AllHeldOrGone(k)'
  BY <1>0, <1>1, <1>2, OrderElsewhere
<1>3. ASSUME UNCHANGED log, now <= now', \A k \in Partitions : caches'[k].l2 = caches[k].l2
      PROVE  \A k \in Partitions : LineOf(k)' /\ AllHeldOrGone(k)'
  BY <1>2, <1>3
<1>4. ASSUME NEW s \in Sessions, L2Hit(s) \/ L2Miss(s) \/ (L2Insert(s) /\ Cacheable(got[s]))
      PROVE  \A k \in Partitions : LineOf(k)' /\ AllHeldOrGone(k)'
  <2>1. PICK p : p = Partition(s)
    OBVIOUS
  <2>2. p \in Partitions /\ Partition(s)' = p /\ now <= now'
    BY <1>0, <1>1, <1>4, <2>1, OptionsOf DEF L2Hit, L2Miss, L2Insert, Partition
  <2>3. LineOf(Partition(s))' /\ AllHeldOrGone(Partition(s))'
    BY <1>0, <1>4, <2>1, <2>2, OrderHit, OrderMiss, OrderInsert
  <2>4. LineOf(p)' /\ AllHeldOrGone(p)'
    BY <2>2, <2>3 DEF LineOf, AllHeldOrGone
  <2>5. /\ log' = log \/ \E use : log' = Append(log, use) /\ use.ask.partition = p
        /\ \E store : caches' = [caches EXCEPT ![p].l2 = store]
    BY <1>4, <2>1 DEF L2Hit, L2Miss, L2Insert, Use, Asking
  <2>6. ASSUME NEW k \in Partitions, k # p PROVE LineOf(k)' /\ AllHeldOrGone(k)'
    <3>1. caches'[k].l2 = caches[k].l2
      BY <1>0, <2>2, <2>5, <2>6 DEF StoresInv
    <3>2. log' = log \/ \E use : log' = Append(log, use) /\ use.ask.partition # k
      BY <2>5, <2>6
    <3>. QED
      BY <1>2, <2>2, <3>1, <3>2
  <2>. QED
    BY <2>4, <2>6
<1>5. ASSUME NEW s \in Sessions, Begin(s) \/ L1Insert(s)
      PROVE  \A k \in Partitions : LineOf(k)' /\ AllHeldOrGone(k)'
  <2>1. /\ log' = log /\ now' = now
        /\ \/ caches' = caches
           \/ \E store : caches' = [caches EXCEPT ![Partition(s)].l1 = store]
    BY <1>5 DEF Begin, L1Get, L1Insert
  <2>2. Partition(s) \in Partitions
    BY <1>0, OptionsOf
  <2>3. \A k \in Partitions : caches'[k].l2 = caches[k].l2
    BY <1>0, <2>1, <2>2 DEF StoresInv
  <2>. QED
    BY <1>1, <1>3, <2>1, <2>3
<1>6. ASSUME NEW s \in Sessions,
             Answered(s) \/ Unanswered(s) \/ (L2Insert(s) /\ ~Cacheable(got[s]))
      PROVE  \A k \in Partitions : LineOf(k)' /\ AllHeldOrGone(k)'
  <2>1. log' = log /\ now' = now /\ caches' = caches
    BY <1>6 DEF Answered, Unanswered, L2Insert
  <2>. QED
    BY <1>1, <1>3, <2>1
<1>7. ASSUME Tick \/ UNCHANGED vars
      PROVE  \A k \in Partitions : LineOf(k)' /\ AllHeldOrGone(k)'
  <2>1. log' = log /\ now <= now' /\ caches' = caches
    BY <1>1, <1>7 DEF Tick, vars
  <2>2. UNCHANGED log /\ \A k \in Partitions : caches'[k].l2 = caches[k].l2
    BY <2>1
  <2>. QED
    BY <1>3, <2>1, <2>2
<1>8. \A k \in Partitions : LineOf(k)' /\ AllHeldOrGone(k)'
  <2>1. ASSUME NEW s \in Sessions,
               \/ Begin(s) \/ L1Insert(s) \/ L2Hit(s) \/ L2Miss(s)
               \/ Answered(s) \/ L2Insert(s) \/ Unanswered(s)
        PROVE  \A k \in Partitions : LineOf(k)' /\ AllHeldOrGone(k)'
    BY <1>4, <1>5, <1>6, <2>1
  <2>. QED
    BY <1>7, <2>1 DEF Next
<1>. QED
  BY <1>8 DEF OrderInv, LineOf, AllHeldOrGone, LastAt, HeldOrGone

\* Why a lookup in l2 finds nothing.
LEMMA MissExplained ==
  ASSUME TypeInv, OrderInv, NEW s \in Sessions, L2Miss(s)
  PROVE  LET inserts == Inserts(Asking(s))
             others  == {L2Key([provider_id |-> log[j].ask.provider], log[j].ask.request) :
                           j \in OthersSince(Asking(s))}
         IN  \/ inserts = {}
             \/ now >= log[Max(inserts)].at + Lifetime(Asking(s))
             \/ Cardinality(others) >= Capacity(Asking(s))
<1>1. PICK p, key, ask : p = Partition(s) /\ key = K2(s) /\ ask = Asking(s)
  OBVIOUS
<1>2. /\ log \in Seq(Uses) /\ options \in Configurations /\ request[s] \in Requests
      /\ pc[s] = "l2_get"
  BY DEF TypeInv, StepsInv, L2Miss
<1>3. p \in Partitions /\ ask.partition = p /\ AskKey(ask) = key
  BY <1>1, <1>2, OptionsOf, AskOf
<1>4. ~Hit(caches[p].l2, key, now)
  BY <1>1 DEF L2Miss
<1>5. PICK inserts, others :
        /\ inserts = Inserts(ask)
        /\ others = {L2Key([provider_id |-> log[j].ask.provider], log[j].ask.request) :
                       j \in OthersSince(ask)}
  OBVIOUS
<1>6. inserts = {i \in DOMAIN log : Inserted(i, p, key)}
  BY <1>2, <1>3, <1>5, SameKey, AskedRequests DEF Inserts, Inserted
<1>7. others = Since(p, key)
  <2>1. \A i \in DOMAIN log : SameAsk(log[i].ask, ask) <=> UsedAt(i, p, key)
    BY <1>2, <1>3, SameKey, AskedRequests DEF UsedAt
  <2>2. OthersSince(ask) = {j \in DOMAIN log : /\ log[j].ask.partition = p
                                               /\ \A i \in DOMAIN log : UsedAt(i, p, key) => i < j}
    BY <1>3, <2>1 DEF OthersSince
  <2>. QED
    BY <1>5, <2>2 DEF Since, AskKey
<1>8. Lifetime(ask) = AtLeastOne(p[2]) /\ Capacity(ask) = AtLeastOne(p[3])
  BY <1>3 DEF Lifetime, Capacity
<1>9. ASSUME inserts # {}
      PROVE  \/ now >= log[Max(inserts)].at + Lifetime(ask)
             \/ Cardinality(others) >= Capacity(ask)
  <2>1. DOMAIN log = 1 .. Len(log) /\ Len(log) \in Nat
    BY <1>2
  <2>2. inserts \in SUBSET (0 .. Len(log)) /\ inserts \in SUBSET Nat
    BY <1>6, <2>1
  <2>3. PICK m \in inserts : \A i \in inserts : i <= m
    BY <1>9, <2>1, <2>2, GreatestNumber
  <2>4. Max(inserts) = m
    BY <2>2, <2>3, MaxIs
  <2>5. m \in DOMAIN log /\ LastAt(m, p, key) /\ AskKey(log[m].ask) = key
    BY <1>6, <2>3 DEF LastAt, Inserted
  <2>6. HeldOrGone(m, p, key)
    BY <1>3, <2>5, OrderParts DEF AllHeldOrGone
  <2>7. CASE Gone(m, p, key)
    BY <1>7, <1>8, <2>4, <2>7 DEF Gone
  <2>8. CASE key \in DOMAIN caches[p].l2.entries
    <3>1. PICK n \in DOMAIN log : Holding(p, key, n)
      BY <1>3, <2>8, HeldParts DEF TypeInv
    <3>2. n = m
      <4>1. n <= m /\ m <= n
        BY <2>5, <3>1 DEF Holding, LastAt
      <4>2. n \in Int /\ m \in Int
        BY <2>1, <2>5
      <4>. QED
        BY <4>1, <4>2
    <3>3. now >= caches[p].l2.entries[key].expires
      BY <1>4, <2>8 DEF Hit, Holds, Expired
    <3>4. caches[p].l2.entries[key].expires = log[m].at + AtLeastOne(p[2])
      BY <3>1, <3>2 DEF Holding
    <3>. QED
      BY <1>8, <2>4, <3>3, <3>4
  <2>. QED
    BY <2>6, <2>7, <2>8 DEF HeldOrGone
<1>. QED
  BY <1>1, <1>5, <1>9

\* Only a lookup that finds nothing sends a session from l2 to the provider.
LEMMA MissesStep ==
  ASSUME TypeInv, OrderInv, [Next]_vars, NEW s \in Sessions, pc[s] = "l2_get", pc'[s] = "asking"
  PROVE  L2Miss(s)
<1>0. pc \in [Sessions -> {"idle", "l1_insert", "l2_get", "asking", "l2_insert"}]
  BY DEF TypeInv, StepsInv
<1>1. ~(Tick \/ UNCHANGED vars)
  BY DEF Tick, vars
<1>2. ASSUME NEW q \in Sessions, Begin(q) PROVE FALSE
  <2>1. pc[q] = "idle" /\ \E place : pc' = [pc EXCEPT ![q] = place]
    BY <1>2 DEF Begin, L1Get
  <2>. QED
    BY <1>0, <2>1
<1>3. ASSUME NEW q \in Sessions, L1Insert(q) PROVE FALSE
  BY <1>0, <1>3 DEF L1Insert
<1>4. ASSUME NEW q \in Sessions, L2Hit(q) \/ L2Insert(q) \/ Unanswered(q) PROVE FALSE
  <2>1. pc' = [pc EXCEPT ![q] = "idle"]
    BY <1>4 DEF L2Hit, L2Insert, Unanswered, Return
  <2>. QED
    BY <1>0, <2>1
<1>5. ASSUME NEW q \in Sessions, Answered(q) PROVE FALSE
  <2>1. pc[q] = "asking" /\ \E place : pc' = [pc EXCEPT ![q] = place]
    BY <1>5 DEF Answered, Return
  <2>. QED
    BY <1>0, <2>1
<1>6. ASSUME NEW q \in Sessions, L2Miss(q) PROVE q = s
  BY <1>0, <1>6 DEF L2Miss
<1>. QED
  BY <1>1, <1>2, <1>3, <1>4, <1>5, <1>6 DEF Next

-----------------------------------------------------------------------------
(* The theorems. *)

\* The steps, the stores and what they hold fit each other: an answer in hand is
\* for the request its session waits for, each store of the registry keeps its
\* entries and their order in step, and every entry of l2 is what the log says
\* was inserted last under its key, with the time it was inserted at.
THEOREM TypeCorrect == Spec => []TypeInv
<1>1. Init => TypeInv
  BY TypesInit DEF TypeInv
<1>2. TypeInv /\ [Next]_vars => TypeInv'
  BY TypesStep
<1>. QED
  BY <1>1, <1>2, PTL DEF Spec

\* No store grows beyond its max_entries, and its order of use names exactly the
\* keys it holds, once each.
THEOREM BoundedCorrect == Spec => []StoresBounded
BY TypeCorrect, StoresFollow, PTL

LEMMA HitsCorrect == Spec => [](HitsFit /\ HitsAreFresh)
<1>1. Init => HitsFit /\ HitsAreFresh
  BY DEF Init, HitsFit, HitsAreFresh
<1>2. TypeInv /\ HitsFit /\ HitsAreFresh /\ [Next]_vars => (HitsFit /\ HitsAreFresh)'
  BY HitsStep
<1>. QED
  BY <1>1, <1>2, TypeCorrect, PTL DEF Spec

\* Whatever the sessions interleave, a hit is what the provider answered to a
\* request that differs at most in what is Ignored and in the places of its system
\* messages, and never an error.
THEOREM FitCorrect == Spec => []HitsFit
BY HitsCorrect, PTL

\* A hit is the answer inserted last for what is asked, within the time to live
\* counted from that insertion.
THEOREM FreshCorrect == Spec => []HitsAreFresh
BY HitsCorrect, PTL

\* A request goes to the provider again only for a reason: nothing was inserted for
\* it, its time is over, or as many other requests as the store holds were served
\* since its last use.  The order of l2 is the order of its uses, and what is evicted
\* has the rest of the store behind it.
THEOREM MissesCorrect == Spec => MissesAreExplained
<1>1. Init => OrderInv
  <2>1. Init => DOMAIN log = {} /\ \A k \in Partitions : caches[k].l2.lru = <<>>
    BY DEF Init, Partitions, EmptyStore
  <2>. QED
    BY <2>1 DEF OrderInv
<1>2. TypeInv /\ OrderInv /\ [Next]_vars => OrderInv'
  BY OrderStep
<1>3. TypeInv /\ OrderInv /\ [Next]_vars =>
        [\A s \in Sessions : pc[s] = "l2_get" /\ pc'[s] = "asking" =>
          LET inserts == Inserts(Asking(s))
              others  == {L2Key([provider_id |-> log[j].ask.provider], log[j].ask.request) :
                            j \in OthersSince(Asking(s))}
          IN  \/ inserts = {}
              \/ now >= log[Max(inserts)].at + Lifetime(Asking(s))
              \/ Cardinality(others) >= Capacity(Asking(s))]_vars
  BY MissesStep, MissExplained
<1>. QED
  BY <1>1, <1>2, <1>3, TypeCorrect, PTL DEF Spec, MissesAreExplained
=============================================================================

------------------------- MODULE SummarizationProofs -------------------------
(***************************************************************************)
(* Theorems about Summarization, for every value of its constants.         *)
(***************************************************************************)
EXTENDS Summarization, DataInduction, FiniteSetTheorems, SequenceTheorems

-----------------------------------------------------------------------------
(* Least and greatest numbers. *)

LEMMA MinOf ==
  ASSUME NEW S \in SUBSET Nat, S # {}
  PROVE  Min(S) \in S /\ \A n \in S : Min(S) <= n
<1>1. \E n \in S : \A m \in S : n =< m
  BY LeastNumber
<1>. QED
  BY <1>1 DEF Min

LEMMA MaxOf ==
  ASSUME NEW N \in Nat, NEW S \in SUBSET (0 .. N), S # {}
  PROVE  Max(S) \in S /\ \A n \in S : n <= Max(S)
<1>1. \E n \in S : \A m \in S : n >= m
  <2>1. PICK n \in S : \A m \in S : m <= n
    BY GreatestNumber
  <2>. QED
    BY <2>1
<1>2. Max(S) \in S /\ \A m \in S : Max(S) >= m
  BY <1>1 DEF Max
<1>. QED
  BY <1>2

-----------------------------------------------------------------------------
(* The characters of messages. *)

IsTotal(s, upTo) ==
  upTo = [n \in 0 .. Len(s) |-> IF n = 0 THEN 0 ELSE upTo[n - 1] + s[n].size]

LEMMA TotalExists ==
  ASSUME NEW s \in Seq(Message)
  PROVE  \E upTo : IsTotal(s, upTo) /\ upTo \in [0 .. Len(s) -> Nat]
<1>. DEFINE N == Len(s)
            add == [x \in (1 .. N) \X Nat |-> x[2] + s[x[1]].size]
<1>1. N \in Nat /\ \A n \in 1 .. N : s[n].size \in Nat
  <2>1. \A n \in 1 .. N : s[n] \in Message
    OBVIOUS
  <2>. QED
    BY <2>1 DEF Message
<1>. HIDE DEF N
<1>2. add \in [(1 .. N) \X Nat -> Nat]
  BY <1>1
<1>3. PICK f : Iterates(f, N, Nat, 0, add)
  <2>. HIDE DEF add
  <2>. QED
    BY <1>1, <1>2, Recursion
<1>4. ASSUME NEW n \in 1 .. N PROVE f[n] = f[n - 1] + s[n].size
  <2>1. f[n - 1] \in Nat /\ <<n, f[n - 1]>> \in (1 .. N) \X Nat
    BY <1>1, <1>3 DEF Iterates
  <2>2. f[n] = add[<<n, f[n - 1]>>]
    BY <1>3 DEF Iterates
  <2>. QED
    BY <2>1, <2>2
<1>5. f \in [0 .. N -> Nat] /\ f[0] = 0
  BY <1>3 DEF Iterates
<1>6. f = [n \in 0 .. N |-> IF n = 0 THEN 0 ELSE f[n - 1] + s[n].size]
  <2>1. \A n \in 0 .. N : n = 0 \/ n \in 1 .. N
    BY <1>1
  <2>2. \A n \in 0 .. N : f[n] = IF n = 0 THEN 0 ELSE f[n - 1] + s[n].size
    BY <1>4, <1>5, <2>1
  <2>. QED
    BY <1>5, <2>2
<1>. QED
  BY <1>5, <1>6 DEF IsTotal, N

LEMMA CharsTotal ==
  ASSUME NEW s \in Seq(Message)
  PROVE  \E upTo : /\ IsTotal(s, upTo) /\ upTo \in [0 .. Len(s) -> Nat]
                   /\ Chars(s) = upTo[Len(s)]
<1>1. PICK f : IsTotal(s, f) /\ f \in [0 .. Len(s) -> Nat]
  BY TotalExists
<1>2. PICK g : g = (CHOOSE upTo : IsTotal(s, upTo))
  OBVIOUS
<1>3. IsTotal(s, g) /\ Chars(s) = g[Len(s)]
  BY <1>1, <1>2 DEF Chars, IsTotal
<1>4. g \in [0 .. Len(s) -> Nat]
  <2>. DEFINE N == Len(s)
              S == {n \in 0 .. N : g[n] \in Nat}
  <2>1. N \in Nat /\ \A n \in 1 .. N : s[n].size \in Nat
    <3>1. \A n \in 1 .. N : s[n] \in Message
      OBVIOUS
    <3>. QED
      BY <3>1 DEF Message
  <2>2. /\ g = [n \in 0 .. N |-> IF n = 0 THEN 0 ELSE g[n - 1] + s[n].size]
        /\ DOMAIN g = 0 .. N
    BY <1>3 DEF IsTotal
  <2>. HIDE DEF N
  <2>3. 0 \in S
    BY <2>1, <2>2
  <2>4. ASSUME NEW n \in 0 .. N - 1, n \in S PROVE n + 1 \in S
    <3>1. /\ n + 1 \in 0 .. N /\ n + 1 # 0 /\ (n + 1) - 1 = n /\ n + 1 \in 1 .. N
          /\ s[n + 1].size \in Nat
      <4>1. n + 1 \in 0 .. N /\ n + 1 # 0 /\ (n + 1) - 1 = n /\ n + 1 \in 1 .. N
        BY <2>1
      <4>. QED
        BY <2>1, <4>1
    <3>2. g[n + 1] = g[n] + s[n + 1].size
      BY <2>2, <3>1
    <3>. QED
      BY <2>4, <3>1, <3>2
  <2>5. 0 .. N \subseteq S
    <3>. HIDE DEF S
    <3>. QED
      BY <2>1, <2>3, <2>4, InductUpTo
  <2>6. g = [n \in 0 .. N |-> g[n]]
    BY <2>2
  <2>. QED
    BY <2>5, <2>6 DEF N
<1>. QED
  BY <1>3, <1>4

LEMMA CharsType ==
  ASSUME NEW s \in Seq(Message)
  PROVE  Chars(s) \in Nat
<1>1. Len(s) \in 0 .. Len(s)
  OBVIOUS
<1>. QED
  BY <1>1, CharsTotal

\* Without its first message a request is not larger.
LEMMA CharsTail ==
  ASSUME NEW s \in Seq(Message), s # <<>>
  PROVE  Chars(Tail(s)) <= Chars(s)
<1>. DEFINE N == Len(s) - 1
<1>1. /\ N \in Nat /\ Len(s) = N + 1 /\ Tail(s) \in Seq(Message) /\ Len(Tail(s)) = N
      /\ \A n \in 1 .. N : Tail(s)[n] = s[n + 1]
      /\ \A n \in 1 .. N + 1 : s[n] \in Message
  OBVIOUS
<1>2. PICK f : IsTotal(s, f) /\ f \in [0 .. Len(s) -> Nat] /\ Chars(s) = f[Len(s)]
  BY CharsTotal
<1>3. PICK g : /\ IsTotal(Tail(s), g) /\ g \in [0 .. Len(Tail(s)) -> Nat]
               /\ Chars(Tail(s)) = g[Len(Tail(s))]
  BY <1>1, CharsTotal
<1>. HIDE DEF N
<1>4. /\ g = [n \in 0 .. N |-> IF n = 0 THEN 0 ELSE g[n - 1] + Tail(s)[n].size]
      /\ f = [n \in 0 .. N + 1 |-> IF n = 0 THEN 0 ELSE f[n - 1] + s[n].size]
      /\ g \in [0 .. N -> Nat] /\ f \in [0 .. N + 1 -> Nat]
  BY <1>1, <1>2, <1>3 DEF IsTotal
<1>. DEFINE S == {n \in 0 .. N : g[n] <= f[n + 1]}
<1>5. 0 \in S
  <2>1. 0 \in 0 .. N /\ 1 \in 0 .. N + 1 /\ g[0] = 0
    BY <1>1, <1>4
  <2>. QED
    BY <1>4, <2>1
<1>6. ASSUME NEW n \in 0 .. N - 1, n \in S PROVE n + 1 \in S
  <2>1. /\ n + 1 \in 0 .. N /\ n + 2 \in 0 .. N + 1 /\ n + 1 # 0 /\ n + 2 # 0
        /\ (n + 1) - 1 = n /\ (n + 2) - 1 = n + 1 /\ n + 1 \in 1 .. N
        /\ n + 2 \in 1 .. N + 1 /\ (n + 1) + 1 = n + 2 /\ n \in 0 .. N
    BY <1>1
  <2>2. /\ g[n + 1] = g[n] + Tail(s)[n + 1].size
        /\ f[n + 2] = f[n + 1] + s[n + 2].size
    BY <1>4, <2>1
  <2>3. Tail(s)[n + 1] = s[n + 2] /\ s[n + 2] \in Message
    BY <1>1, <2>1
  <2>4. PICK k \in Nat : k = s[n + 2].size
    BY <2>3 DEF Message
  <2>5. g[n] \in Nat /\ f[n + 1] \in Nat /\ g[n] <= f[n + 1]
    <3>1. n \in 0 .. N /\ n + 1 \in 0 .. N + 1
      BY <1>1
    <3>. QED
      BY <1>4, <1>6, <3>1
  <2>6. g[n + 1] <= f[n + 2]
    <3>. HIDE DEF S
    <3>1. g[n + 1] = g[n] + k /\ f[n + 2] = f[n + 1] + k
      BY <2>2, <2>3, <2>4, Zenon
    <3>. QED
      BY <2>5, <3>1
  <2>. QED
    BY <2>1, <2>6
<1>7. N \in S
  <2>1. N \in 0 .. N
    BY <1>1
  <2>. HIDE DEF S
  <2>. QED
    BY <1>1, <1>5, <1>6, <2>1, InductUpTo
<1>. QED
  BY <1>1, <1>2, <1>3, <1>7

-----------------------------------------------------------------------------
(* The turns of messages. *)

\* Where a turn begins in the messages from the p-th on.
Starts(s, p) == {i \in p .. Len(s) : i = p \/ s[i].role # s[i - 1].role}

LEMMA StartsFinite ==
  ASSUME NEW s \in Seq(Message), NEW p \in 1 .. Len(s)
  PROVE  IsFiniteSet(Starts(s, p)) /\ Cardinality(Starts(s, p)) \in Nat
<1>1. IsFiniteSet(p .. Len(s))
  BY FS_Interval
<1>2. Starts(s, p) \in SUBSET (p .. Len(s))
  BY DEF Starts
<1>. QED
  BY <1>1, <1>2, FS_Subset, FS_CardinalityType

LEMMA SuffixFacts ==
  ASSUME NEW s \in Seq(Message), NEW p \in 1 .. Len(s)
  PROVE  /\ SubSeq(s, p, Len(s)) \in Seq(Message)
         /\ Len(SubSeq(s, p, Len(s))) = Len(s) - p + 1
         /\ DOMAIN SubSeq(s, p, Len(s)) = 1 .. (Len(s) - p + 1)
         /\ \A i \in 1 .. (Len(s) - p + 1) : SubSeq(s, p, Len(s))[i] = s[p + i - 1]
  OBVIOUS

LEMMA TurnsOf ==
  ASSUME NEW s \in Seq(Message), NEW p \in 1 .. Len(s)
  PROVE  CountTurns(SubSeq(s, p, Len(s))) = Cardinality(Starts(s, p))
<1>. DEFINE u == SubSeq(s, p, Len(s))
            n == Len(s) - p + 1
            T == {i \in DOMAIN u : i = 1 \/ u[i].role # u[i - 1].role}
            f == [i \in Starts(s, p) |-> i - p + 1]
<1>1. /\ n \in Nat /\ p \in Nat /\ Len(s) \in Nat /\ DOMAIN u = 1 .. n
      /\ \A i \in 1 .. n : u[i] = s[p + i - 1]
  BY SuffixFacts
<1>. HIDE DEF u
<1>2. \A i \in T : i + p - 1 \in Starts(s, p)
  <2>. SUFFICES ASSUME NEW i \in T PROVE i + p - 1 \in Starts(s, p)
    OBVIOUS
  <2>1. i \in 1 .. n /\ (i = 1 \/ u[i].role # u[i - 1].role)
    BY <1>1
  <2>. HIDE DEF T, f
  <2>2. i + p - 1 \in p .. Len(s) /\ p + i - 1 = i + p - 1
    BY <1>1, <2>1
  <2>3. CASE i = 1
    BY <1>1, <2>2, <2>3 DEF Starts
  <2>4. CASE i # 1
    <3>1. i - 1 \in 1 .. n /\ p + (i - 1) - 1 = (i + p - 1) - 1
      BY <1>1, <2>1, <2>4
    <3>2. u[i] = s[i + p - 1] /\ u[i - 1] = s[(i + p - 1) - 1]
      BY <1>1, <2>1, <2>2, <3>1
    <3>. QED
      BY <2>1, <2>2, <2>4, <3>2 DEF Starts
  <2>. QED
    BY <2>3, <2>4
<1>3. \A j \in Starts(s, p) : j - p + 1 \in T
  <2>. SUFFICES ASSUME NEW j \in Starts(s, p) PROVE j - p + 1 \in T
    OBVIOUS
  <2>1. j \in p .. Len(s) /\ (j = p \/ s[j].role # s[j - 1].role)
    BY DEF Starts
  <2>2. j - p + 1 \in 1 .. n /\ p + (j - p + 1) - 1 = j
    BY <1>1, <2>1
  <2>3. CASE j = p
    BY <1>1, <2>2, <2>3
  <2>4. CASE j # p
    <3>1. (j - p + 1) - 1 \in 1 .. n /\ p + ((j - p + 1) - 1) - 1 = j - 1
      BY <1>1, <2>1, <2>4
    <3>2. u[j - p + 1] = s[j] /\ u[(j - p + 1) - 1] = s[j - 1]
      BY <1>1, <2>2, <3>1
    <3>. QED
      BY <1>1, <2>1, <2>2, <2>4, <3>2
  <2>. QED
    BY <2>3, <2>4
<1>4. f \in Bijection(Starts(s, p), T)
  <2>1. f \in [Starts(s, p) -> T]
    BY <1>3
  <2>2. \A i, j \in Starts(s, p) : f[i] = f[j] => i = j
    BY <1>1 DEF Starts
  <2>3. \A i \in T : f[i + p - 1] = i
    <3>1. \A i \in T : i \in Nat
      BY <1>1
    <3>. HIDE DEF T
    <3>. QED
      BY <1>1, <1>2, <3>1
  <2>4. \A i \in T : \E j \in Starts(s, p) : f[j] = i
    BY <1>2, <2>3
  <2>. HIDE DEF f, T
  <2>5. f \in Injection(Starts(s, p), T)
    BY <2>1, <2>2 DEF Injection, IsInjective
  <2>6. f \in Surjection(Starts(s, p), T)
    BY <2>1, <2>4 DEF Surjection
  <2>. QED
    BY <2>5, <2>6 DEF Bijection
<1>5. ExistsBijection(Starts(s, p), T)
  BY <1>4 DEF ExistsBijection
<1>6. Cardinality(T) = Cardinality(Starts(s, p))
  <2>. HIDE DEF T
  <2>. QED
    BY <1>5, StartsFinite, FS_Bijection
<1>. QED
  BY <1>6 DEF CountTurns, u

\* One message more begins at most one turn more.
LEMMA TurnsStep ==
  ASSUME NEW s \in Seq(Message), NEW p \in 1 .. Len(s) - 1
  PROVE  /\ Cardinality(Starts(s, p + 1)) <= Cardinality(Starts(s, p))
         /\ Cardinality(Starts(s, p)) <= Cardinality(Starts(s, p + 1)) + 1
<1>. DEFINE A == Starts(s, p)
            B == Starts(s, p + 1)
            R == B \ {p + 1}
<1>1. p \in 1 .. Len(s) /\ p + 1 \in 1 .. Len(s)
  OBVIOUS
<1>2. /\ IsFiniteSet(A) /\ Cardinality(A) \in Nat
      /\ IsFiniteSet(B) /\ Cardinality(B) \in Nat
  BY <1>1, StartsFinite
<1>3. p \in A /\ p \notin B /\ p + 1 \in B /\ R \subseteq A /\ A \subseteq B \cup {p}
  BY <1>1 DEF Starts
<1>. HIDE DEF A, B
<1>4. Cardinality(R) = Cardinality(B) - 1 /\ IsFiniteSet(R)
  BY <1>2, <1>3, FS_RemoveElement
<1>5. Cardinality(R \cup {p}) = Cardinality(B) /\ IsFiniteSet(R \cup {p})
  <2>1. p \notin R
    BY <1>3
  <2>2. Cardinality(R \cup {p}) = Cardinality(R) + 1 /\ IsFiniteSet(R \cup {p})
    BY <1>4, <2>1, FS_AddElement
  <2>. QED
    BY <1>2, <1>4, <2>2
<1>6. Cardinality(B) <= Cardinality(A)
  <2>1. R \cup {p} \in SUBSET A
    BY <1>3
  <2>. QED
    BY <1>2, <1>5, <2>1, FS_Subset
<1>7. Cardinality(B \cup {p}) = Cardinality(B) + 1 /\ IsFiniteSet(B \cup {p})
  BY <1>2, <1>3, FS_AddElement
<1>8. Cardinality(A) <= Cardinality(B) + 1
  <2>1. A \in SUBSET (B \cup {p})
    BY <1>3
  <2>. QED
    BY <1>7, <2>1, FS_Subset
<1>. QED
  BY <1>6, <1>8 DEF A, B

LEMMA WholeTurns ==
  ASSUME NEW s \in Seq(Message), s # <<>>
  PROVE  /\ CountTurns(s) = Cardinality(Starts(s, 1))
         /\ CountTurns(s) \in Nat
<1>1. 1 \in 1 .. Len(s) /\ SubSeq(s, 1, Len(s)) = s
  OBVIOUS
<1>. QED
  BY <1>1, TurnsOf, StartsFinite

\* Without its first message a request has no more turns.
LEMMA TurnsTail ==
  ASSUME NEW s \in Seq(Message), Len(s) > 1
  PROVE  CountTurns(Tail(s)) <= CountTurns(s)
<1>1. s # <<>> /\ 1 \in 1 .. Len(s) - 1 /\ 2 \in 1 .. Len(s) /\ Tail(s) = SubSeq(s, 2, Len(s))
  OBVIOUS
<1>2. 1 + 1 = 2
  OBVIOUS
<1>. QED
  BY <1>1, <1>2, TurnsStep, TurnsOf, WholeTurns

LEMMA OneTurn ==
  ASSUME NEW s \in Seq(Message), Len(s) = 1
  PROVE  CountTurns(s) = 1
<1>1. {i \in DOMAIN s : i = 1 \/ s[i].role # s[i - 1].role} = {1}
  OBVIOUS
<1>. QED
  BY <1>1, FS_Singleton DEF CountTurns
-----------------------------------------------------------------------------
(* Where a request is cut. *)

LEMMA OptionsType ==
  ASSUME options \in Options
  PROVE  /\ options.policy \in {"budget", "turns"} /\ options.enabled \in BOOLEAN
         /\ options.max_chars \in Nat /\ options.max_turns \in Nat
         /\ options.min_recent \in Nat /\ options.keep_last \in Nat
         /\ options.compact_min \in Nat
  BY OptionsAssumption DEF SummarizationOptions

LEMMA BudgetFacts ==
  ASSUME options \in Options, NEW s \in Seq(Message), Chars(s) > options.max_chars,
         NEW c, c = BudgetCutoff(s)
  PROVE  /\ c \in 0 .. Len(s)
         /\ c # 0 => c + options.min_recent <= Len(s)
         /\ \/ Len(s) - c <= options.min_recent
            \/ Chars(SubSeq(s, c + 1, Len(s))) <= options.max_chars
         /\ c # 0 => Chars(SubSeq(s, c, Len(s))) > options.max_chars
<1>. DEFINE keep == Min({options.min_recent, Len(s)})
            Enough(n) == n = Len(s) - keep \/ Chars(SubSeq(s, n + 1, Len(s))) <= options.max_chars
            C == {n \in 0 .. (Len(s) - keep) : Enough(n)}
<1>1. /\ options.min_recent \in Nat /\ options.max_chars \in Nat /\ Len(s) \in Nat
      /\ Chars(s) \in Nat
  BY OptionsType, CharsType
<1>2. keep \in {options.min_recent, Len(s)} /\ keep <= options.min_recent /\ keep <= Len(s)
  <2>1. {options.min_recent, Len(s)} \in SUBSET Nat
    BY <1>1
  <2>. QED
    BY <2>1, MinOf
<1>3. c = Min(C)
  BY <1>1 DEF BudgetCutoff
<1>. HIDE DEF keep
<1>4. c \in C /\ \A n \in C : c <= n
  <2>1. C \in SUBSET Nat /\ Len(s) - keep \in C
    BY <1>1, <1>2
  <2>. HIDE DEF C
  <2>. QED
    BY <1>3, <2>1, MinOf
<1>5. c \in 0 .. (Len(s) - keep) /\ Enough(c)
  BY <1>4
<1>6. c # 0 => Chars(SubSeq(s, c, Len(s))) > options.max_chars
  <2>. SUFFICES ASSUME c # 0 PROVE Chars(SubSeq(s, c, Len(s))) > options.max_chars
    OBVIOUS
  <2>1. c - 1 \in 0 .. (Len(s) - keep) /\ (c - 1) + 1 = c /\ c \in 1 .. Len(s) /\ c - 1 < c
    BY <1>1, <1>2, <1>5
  <2>2. c - 1 \notin C
    <3>. HIDE DEF C
    <3>. QED
      BY <1>4, <2>1
  <2>3. ~ (Chars(SubSeq(s, c, Len(s))) <= options.max_chars)
    BY <2>1, <2>2
  <2>4. Chars(SubSeq(s, c, Len(s))) \in Nat
    BY <2>1, SuffixFacts, CharsType
  <2>. QED
    BY <1>1, <2>3, <2>4
<1>. HIDE DEF C
<1>7. c \in 0 .. Len(s) /\ (c # 0 => c + options.min_recent <= Len(s))
  BY <1>1, <1>2, <1>5
<1>8. \/ Len(s) - c <= options.min_recent
      \/ Chars(SubSeq(s, c + 1, Len(s))) <= options.max_chars
  BY <1>1, <1>2, <1>5
<1>. QED
  BY <1>6, <1>7, <1>8

LEMMA TurnsFacts ==
  ASSUME options \in Options, NEW s \in Seq(Message),
         CountTurns(s) > options.max_turns, s # <<>>,
         NEW c, c = TurnsCutoff(s)
  PROVE  /\ c \in 0 .. Len(s) - 1
         /\ c # 0 => c + options.min_recent <= Len(s)
         /\ \/ Len(s) - c <= options.min_recent
            \/ CountTurns(SubSeq(s, c + 1, Len(s))) <= options.max_turns
            \/ c = Len(s) - 1 /\ options.max_turns = 0
         /\ \/ c # 0 \/ Len(s) <= options.min_recent
            \/ Len(s) = 1 /\ options.max_turns = 0
<1>. DEFINE P == {p \in DOMAIN s : CountTurns(SubSeq(s, p, Len(s))) >= options.max_turns}
<1>1. /\ options.min_recent \in Nat /\ options.max_turns \in Nat /\ Len(s) \in Nat
      /\ Len(s) > 0 /\ DOMAIN s = 1 .. Len(s)
  BY OptionsType
<1>2. PICK turns : turns = [p \in 1 .. Len(s) |-> Cardinality(Starts(s, p))]
  OBVIOUS
<1>3. /\ \A p \in 1 .. Len(s) : /\ turns[p] \in Nat
                                /\ CountTurns(SubSeq(s, p, Len(s))) = turns[p]
      /\ \A p \in 1 .. Len(s) - 1 : turns[p] <= turns[p + 1] + 1
      /\ CountTurns(s) = turns[1] /\ turns[Len(s)] = 1
  <2>1. \A p \in 1 .. Len(s) : /\ turns[p] \in Nat
                               /\ CountTurns(SubSeq(s, p, Len(s))) = turns[p]
    BY <1>2, StartsFinite, TurnsOf
  <2>2. ASSUME NEW p \in 1 .. Len(s) - 1 PROVE turns[p] <= turns[p + 1] + 1
    <3>1. p \in 1 .. Len(s) /\ p + 1 \in 1 .. Len(s)
      BY <1>1
    <3>. QED
      BY <1>2, <3>1, TurnsStep
  <2>3. CountTurns(s) = turns[1]
    BY <1>1, <1>2, WholeTurns
  <2>4. turns[Len(s)] = 1
    <3>1. Starts(s, Len(s)) = {Len(s)} /\ Len(s) \in 1 .. Len(s)
      BY <1>1 DEF Starts
    <3>. QED
      BY <1>2, <3>1, FS_Singleton
  <2>. QED
    BY <2>1, <2>2, <2>3, <2>4
<1>4. PICK last : last = Max(P)
  OBVIOUS
<1>5. c = Min({last - 1, KeepFloor(s)})
  <2>1. ~(CountTurns(s) <= options.max_turns)
    BY <1>1, <1>3
  <2>. QED
    BY <1>4, <2>1 DEF TurnsCutoff
<1>6. last \in 1 .. Len(s) /\ turns[last] >= options.max_turns
      /\ \A p \in 1 .. Len(s) : turns[p] >= options.max_turns => p <= last
  <2>1. P = {p \in 1 .. Len(s) : turns[p] >= options.max_turns}
    BY <1>1, <1>3
  <2>2. 1 \in P
    <3>1. 1 \in 1 .. Len(s) /\ turns[1] \in Nat /\ turns[1] > options.max_turns
      BY <1>1, <1>3
    <3>. QED
      BY <1>1, <2>1, <3>1
  <2>3. P \in SUBSET (0 .. Len(s)) /\ P # {}
    BY <1>1, <2>1, <2>2
  <2>. HIDE DEF P
  <2>4. last \in P /\ \A p \in P : p <= last
    BY <1>1, <1>4, <2>3, MaxOf
  <2>. QED
    BY <2>1, <2>4
<1>. HIDE DEF P
<1>14. /\ last \in Nat /\ last > 0 /\ last <= Len(s)
       /\ \/ last = Len(s)
          \/ last < Len(s)
  <2>1. last \in 1 .. Len(s)
    BY <1>6
  <2>2. last \in Nat /\ last > 0
    BY <1>1, <2>1
  <2>3. last <= Len(s)
    BY <1>1, <2>1
  <2>4. Len(s) \in Nat
    BY <1>1
  <2>5. last = Len(s) \/ last < Len(s)
    BY <2>2, <2>3, <2>4
  <2>. QED
    BY <2>2, <2>3, <2>5
<1>7. /\ KeepFloor(s) \in Nat /\ (KeepFloor(s) # 0 => KeepFloor(s) + options.min_recent = Len(s))
      /\ (KeepFloor(s) = 0 => Len(s) <= options.min_recent)
  BY <1>1 DEF KeepFloor
<1>8. c \in {last - 1, KeepFloor(s)} /\ c <= last - 1 /\ c <= KeepFloor(s)
  <2>1. {last - 1, KeepFloor(s)} \in SUBSET Nat
    BY <1>1, <1>6, <1>7
  <2>. QED
    BY <1>5, <2>1, MinOf
<1>9. last < Len(s) => turns[last] <= options.max_turns
  <2>. SUFFICES ASSUME last < Len(s) PROVE turns[last] <= options.max_turns
    OBVIOUS
  <2>1. last \in 1 .. Len(s) - 1 /\ last + 1 \in 1 .. Len(s) /\ ~(last + 1 <= last)
    BY <1>1, <1>6
  <2>2. ~(turns[last + 1] >= options.max_turns) /\ turns[last] <= turns[last + 1] + 1
    BY <1>3, <1>6, <2>1
  <2>. QED
    BY <1>1, <1>3, <2>1, <2>2
<1>10. last = Len(s) => turns[last] = 1
  BY <1>3
<1>11. c \in 0 .. Len(s) - 1 /\ (c # 0 => c + options.min_recent <= Len(s))
  BY <1>1, <1>6, <1>7, <1>8
<1>12. \/ Len(s) - c <= options.min_recent
       \/ CountTurns(SubSeq(s, c + 1, Len(s))) <= options.max_turns
       \/ c = Len(s) - 1 /\ options.max_turns = 0
  <2>1. CASE c = KeepFloor(s)
    BY <1>1, <1>7, <2>1
  <2>2. CASE c = last - 1
    <3>1. c + 1 = last /\ CountTurns(SubSeq(s, last, Len(s))) = turns[last]
      BY <1>1, <1>3, <1>6, <2>2
    <3>2. turns[last] \in Nat
      BY <1>3, <1>6
    <3>3. CASE last = Len(s)
      <4>1. CountTurns(SubSeq(s, c + 1, Len(s))) = 1 /\ c = Len(s) - 1
        BY <1>10, <2>2, <3>1, <3>3
      <4>. QED
        BY <1>1, <4>1
    <3>4. CASE last < Len(s)
      BY <1>9, <3>1, <3>4
    <3>. QED
      BY <1>14, <3>3, <3>4
  <2>. QED
    BY <1>8, <2>1, <2>2
<1>13. \/ c # 0 \/ Len(s) <= options.min_recent
       \/ Len(s) = 1 /\ options.max_turns = 0
  <2>1. CASE c # 0 \/ KeepFloor(s) = 0
    BY <1>7, <2>1
  <2>2. CASE c = 0 /\ KeepFloor(s) # 0
    <3>1. last = 1
      BY <1>8, <1>14, <2>2
    <3>2. turns[1] > options.max_turns /\ turns[1] \in Nat
      BY <1>1, <1>3
    <3>3. last = Len(s)
      BY <1>1, <1>9, <1>14, <3>1, <3>2
    <3>4. Len(s) = 1 /\ turns[1] = 1
      BY <1>10, <3>1, <3>3
    <3>. QED
      BY <1>1, <3>2, <3>4
  <2>. QED
    BY <2>1, <2>2
<1>. QED
  BY <1>11, <1>12, <1>13
LEMMA LastMessage ==
  ASSUME NEW s \in Seq(Message), s # <<>>
  PROVE  /\ SubSeq(s, Len(s), Len(s)) = <<s[Len(s)]>>
         /\ <<s[Len(s)]>> \in Seq(Message) /\ Len(<<s[Len(s)]>>) = 1
<1>1. Len(s) \in 1 .. Len(s) /\ s[Len(s)] \in Message
  OBVIOUS
<1>2. /\ Len(SubSeq(s, Len(s), Len(s))) = 1 /\ DOMAIN SubSeq(s, Len(s), Len(s)) = 1 .. 1
      /\ SubSeq(s, Len(s), Len(s))[1] = s[Len(s)]
      /\ SubSeq(s, Len(s), Len(s)) \in Seq(Message)
  BY <1>1, SuffixFacts
<1>3. /\ <<s[Len(s)]>> \in Seq(Message) /\ Len(<<s[Len(s)]>>) = 1
      /\ <<s[Len(s)]>>[1] = s[Len(s)]
  BY <1>1
<1>4. \A i \in 1 .. 1 : SubSeq(s, Len(s), Len(s))[i] = <<s[Len(s)]>>[i]
  BY <1>2, <1>3
<1>. QED
  BY <1>2, <1>3, <1>4, SeqEqual

\* What is left of a request behind a cutoff fits, and what cannot be cut fits
\* as it is.
LEMMA CutoffFacts ==
  ASSUME options \in Options, NEW s \in Seq(Message), s # <<>>
  PROVE  /\ Cutoff(s) \in 0 .. Len(s)
         /\ Cutoff(s) # 0 => Cutoff(s) + options.min_recent <= Len(s)
         /\ Cutoff(s) # 0 => Fits(SubSeq(s, Cutoff(s) + 1, Len(s)))
         /\ Cutoff(s) \in {0, Len(s)} => Fits(s)
<1>. DEFINE c == Cutoff(s)
            rest == SubSeq(s, c + 1, Len(s))
<1>1. /\ options.policy \in {"budget", "turns"} /\ options.max_chars \in Nat
      /\ options.max_turns \in Nat /\ options.min_recent \in Nat
      /\ Len(s) \in Nat /\ Len(s) > 0 /\ Chars(s) \in Nat /\ CountTurns(s) \in Nat
  BY OptionsType, CharsType, WholeTurns
<1>2. CASE ~ShouldSummarize(s)
  <2>1. c = 0
    BY <1>1, <1>2 DEF Cutoff, BudgetCutoff, TurnsCutoff, ShouldSummarize
  <2>. QED
    BY <1>1, <1>2, <2>1 DEF Fits
<1>3. ASSUME c \in 0 .. Len(s) - 1
      PROVE  /\ rest \in Seq(Message) /\ Len(rest) = Len(s) - c /\ rest # <<>>
             /\ rest[Len(rest)] = s[Len(s)]
  <2>1. c + 1 \in 1 .. Len(s) /\ Len(s) - (c + 1) + 1 = Len(s) - c
        /\ Len(s) - c \in 1 .. Len(s) /\ (c + 1) + (Len(s) - c) - 1 = Len(s)
    <3>. HIDE DEF c
    <3>. QED
      BY <1>1, <1>3
  <2>2. /\ rest \in Seq(Message) /\ Len(rest) = Len(s) - c
        /\ \A i \in 1 .. Len(s) - c : rest[i] = s[(c + 1) + i - 1]
    BY <2>1, SuffixFacts
  <2>3. rest # <<>>
    <3>. HIDE DEF rest
    <3>. QED
      BY <2>1, <2>2
  <2>4. rest[Len(rest)] = s[Len(s)]
    <3>. HIDE DEF rest
    <3>1. Len(s) - c \in 1 .. Len(s) - c
      BY <2>1
    <3>2. rest[Len(s) - c] = s[(c + 1) + (Len(s) - c) - 1]
      BY <2>2, <3>1
    <3>. QED
      BY <2>1, <2>2, <3>2
  <2>. QED
    BY <2>2, <2>3, <2>4
<1>4. ASSUME c = Len(s) PROVE Fits(rest)
  <2>1. Len(rest) = 0
    BY <1>1, <1>4
  <2>. HIDE DEF rest
  <2>. QED
    BY <1>1, <2>1 DEF Fits
<1>5. CASE ShouldSummarize(s) /\ options.policy = "budget"
  <2>1. Chars(s) > options.max_chars /\ c = BudgetCutoff(s)
    BY <1>5 DEF ShouldSummarize, Cutoff
  <2>2. /\ c \in 0 .. Len(s)
        /\ c # 0 => c + options.min_recent <= Len(s)
        /\ \/ Len(s) - c <= options.min_recent
           \/ Chars(rest) <= options.max_chars
        /\ c # 0 => Chars(SubSeq(s, c, Len(s))) > options.max_chars
    BY <2>1, BudgetFacts
  <2>3. c # 0 => Fits(rest)
    <3>1. CASE c = Len(s)
      BY <1>4, <3>1
    <3>2. CASE c \in 0 .. Len(s) - 1
      <4>1. rest \in Seq(Message) /\ Len(rest) = Len(s) - c
        BY <1>3, <3>2
      <4>. HIDE DEF rest, c
      <4>2. Chars(rest) \in Nat
        BY <4>1, CharsType
      <4>3. CASE Len(s) - c <= options.min_recent
        BY <4>1, <4>3 DEF Fits
      <4>4. CASE Chars(rest) <= options.max_chars
        BY <1>1, <1>5, <4>2, <4>4 DEF Fits, ShouldSummarize
      <4>. QED
        BY <2>2, <4>3, <4>4
    <3>. QED
      BY <1>1, <2>2, <3>1, <3>2
  <2>4. CASE c = 0
    <3>1. SubSeq(s, 0 + 1, Len(s)) = s
      OBVIOUS
    <3>2. \/ Len(s) <= options.min_recent
          \/ Chars(s) <= options.max_chars
      <4>1. rest = s
        BY <2>4, <3>1
      <4>2. Len(s) - c = Len(s)
        BY <1>1, <2>4
      <4>. HIDE DEF rest, c
      <4>. QED
        BY <2>2, <4>1, <4>2
    <3>3. Fits(s)
      BY <1>1, <2>1, <3>2 DEF Fits
    <3>. QED
      BY <2>2, <2>4, <3>3
  <2>5. CASE c = Len(s)
    <3>1. options.min_recent = 0 /\ Chars(SubSeq(s, Len(s), Len(s))) > options.max_chars
      BY <1>1, <2>2, <2>5
    <3>2. ShouldSummarize(<<s[Len(s)]>>)
      BY <1>5, <3>1, LastMessage DEF ShouldSummarize
    <3>3. Fits(s)
      BY <3>1, <3>2 DEF Fits
    <3>. QED
      BY <2>2, <2>3, <3>3
  <2>. QED
    BY <2>2, <2>3, <2>4, <2>5
<1>6. CASE ShouldSummarize(s) /\ options.policy = "turns"
  <2>1. CountTurns(s) > options.max_turns /\ c = TurnsCutoff(s)
    BY <1>6 DEF ShouldSummarize, Cutoff
  <2>2. /\ c \in 0 .. Len(s) - 1
        /\ c # 0 => c + options.min_recent <= Len(s)
        /\ \/ Len(s) - c <= options.min_recent
           \/ CountTurns(rest) <= options.max_turns
           \/ c = Len(s) - 1 /\ options.max_turns = 0
        /\ \/ c # 0 \/ Len(s) <= options.min_recent
           \/ Len(s) = 1 /\ options.max_turns = 0
    BY <2>1, TurnsFacts
  <2>3. /\ rest \in Seq(Message) /\ Len(rest) = Len(s) - c /\ rest # <<>>
        /\ rest[Len(rest)] = s[Len(s)]
    BY <1>3, <2>2
  <2>4. options.max_turns = 0 => ShouldSummarize(<<s[Len(s)]>>)
    <3>1. CountTurns(<<s[Len(s)]>>) = 1
      BY LastMessage, OneTurn
    <3>. QED
      BY <1>6, <3>1 DEF ShouldSummarize
  <2>5. c # 0 => Fits(rest)
    <3>. HIDE DEF rest, c
    <3>1. CASE Len(s) - c <= options.min_recent
      BY <2>3, <3>1 DEF Fits
    <3>2. CASE CountTurns(rest) <= options.max_turns
      <4>1. CountTurns(rest) \in Nat
        BY <2>3, WholeTurns
      <4>. QED
        BY <1>1, <1>6, <3>2, <4>1 DEF Fits, ShouldSummarize
    <3>3. CASE c = Len(s) - 1 /\ options.max_turns = 0
      <4>1. Len(rest) = 1
        BY <1>1, <2>3, <3>3
      <4>2. options.min_recent = 0 \/ Len(rest) <= options.min_recent
        BY <1>1, <4>1
      <4>. QED
        BY <2>3, <2>4, <3>3, <4>2 DEF Fits
    <3>. QED
      BY <2>2, <3>1, <3>2, <3>3
  <2>6. c = 0 => Fits(s)
    <3>1. CASE Len(s) <= options.min_recent
      BY <3>1 DEF Fits
    <3>2. CASE Len(s) = 1 /\ options.max_turns = 0
      <4>1. options.min_recent = 0 \/ Len(s) <= options.min_recent
        BY <1>1, <3>2
      <4>. QED
        BY <2>4, <3>2, <4>1 DEF Fits
    <3>. QED
      BY <2>2, <3>1, <3>2
  <2>7. c \in 0 .. Len(s) /\ c # Len(s)
    BY <1>1, <2>2
  <2>. QED
    BY <2>2, <2>5, <2>6, <2>7
<1>. QED
  BY <1>1, <1>2, <1>5, <1>6

\* The summary at the head of a request aside, its messages fit if it does.
LEMMA FitsTail ==
  ASSUME options \in Options, NEW s \in Seq(Message), s # <<>>, Fits(s)
  PROVE  Fits(Tail(s))
<1>1. /\ Tail(s) \in Seq(Message) /\ Len(s) \in Nat /\ Len(s) > 0
      /\ Len(Tail(s)) = Len(s) - 1
  OBVIOUS
<1>2. /\ options.policy \in {"budget", "turns"} /\ options.max_chars \in Nat
      /\ options.max_turns \in Nat /\ options.min_recent \in Nat
  BY OptionsType
<1>3. CASE Len(s) - 1 <= options.min_recent
  BY <1>1, <1>3 DEF Fits
<1>4. CASE ~(Len(s) - 1 <= options.min_recent)
  <2>1. Len(s) > 1 /\ ~(Len(s) <= options.min_recent)
    BY <1>1, <1>2, <1>4
  <2>2. Tail(s) # <<>> /\ Tail(s)[Len(s) - 1] = s[Len(s)]
    BY <2>1
  <2>3. CASE ~ShouldSummarize(s)
    <3>1. Chars(Tail(s)) <= Chars(s) /\ Chars(s) \in Nat /\ Chars(Tail(s)) \in Nat
      BY <1>1, CharsTail, CharsType
    <3>2. /\ CountTurns(Tail(s)) <= CountTurns(s) /\ CountTurns(s) \in Nat
          /\ CountTurns(Tail(s)) \in Nat
      BY <1>1, <2>1, <2>2, TurnsTail, WholeTurns
    <3>3. ~ShouldSummarize(Tail(s))
      BY <1>2, <2>3, <3>1, <3>2 DEF ShouldSummarize
    <3>. QED
      BY <3>3 DEF Fits
  <2>4. CASE options.min_recent = 0 /\ ShouldSummarize(<<s[Len(s)]>>)
    BY <1>1, <2>2, <2>4 DEF Fits
  <2>. QED
    BY <2>1, <2>3, <2>4 DEF Fits
<1>. QED
  BY <1>3, <1>4
-----------------------------------------------------------------------------
(* What a request shows of a history. *)

\* The p-th message of h as a request shows it.
Seen(h, p) ==
  IF p + options.keep_last <= Len(h) THEN Trimmed(h[p]) ELSE h[p]

Speech(h) == h \in Seq(Message) /\ \A p \in DOMAIN h : ~h[p].summary

Hidden(e) == IF e = NoEvent THEN 0 ELSE e.cutoff

LEMMA SeenFacts ==
  ASSUME NEW h, Speech(h), NEW p \in 1 .. Len(h)
  PROVE  Seen(h, p) \in Message /\ ~Seen(h, p).summary /\ Seen(h, p).covers = h[p].covers
<1>1. h[p] \in Message /\ ~h[p].summary
  BY DEF Speech
<1>. QED
  BY <1>1 DEF Seen, Trimmed, Message

LEMMA SummaryType ==
  ASSUME NEW covers \in SUBSET Place
  PROVE  SummaryMessage(covers) \in Message /\ SummaryMessage(covers).summary
  BY SizesAssumption DEF SummaryMessage, Message, Roles

LEMMA TrimFacts ==
  ASSUME NEW s \in Seq(Message), NEW k \in Nat
  PROVE  /\ Trim(s, k) \in Seq(Message) /\ Len(Trim(s, k)) = Len(s)
         /\ \A i \in 1 .. Len(s) : /\ Trim(s, k)[i].summary = s[i].summary
                                   /\ Trim(s, k)[i] = IF i + k <= Len(s)
                                                        THEN Trimmed(s[i]) ELSE s[i]
<1>1. DOMAIN s = 1 .. Len(s) /\ Len(s) \in Nat /\ \A i \in 1 .. Len(s) : s[i] \in Message
  OBVIOUS
<1>2. /\ DOMAIN Trim(s, k) = 1 .. Len(s)
      /\ \A i \in 1 .. Len(s) : Trim(s, k)[i] = IF i + k <= Len(s)
                                                  THEN Trimmed(s[i]) ELSE s[i]
      /\ Trim(s, k) = [i \in 1 .. Len(s) |-> Trim(s, k)[i]]
  BY <1>1 DEF Trim
<1>3. ASSUME NEW i \in 1 .. Len(s)
      PROVE  Trim(s, k)[i] \in Message /\ Trim(s, k)[i].summary = s[i].summary
  <2>1. s[i] \in Message
    BY <1>1
  <2>2. Trimmed(s[i]) \in Message /\ Trimmed(s[i]).summary = s[i].summary
    BY <2>1 DEF Message, Trimmed
  <2>. QED
    BY <1>2, <2>1, <2>2
<1>. QED
  BY <1>1, <1>2, <1>3

\* A request is the summary, if there is one, and the messages that are not
\* hidden.
LEMMA ViewFacts ==
  ASSUME options \in Options, NEW h, Speech(h), NEW e \in Event,
         e = NoEvent \/ e.cutoff \in 1 .. Len(h)
  PROVE  /\ View(h, e) \in Seq(Message)
         /\ Own(View(h, e)) \in Seq(Message)
         /\ Len(Own(View(h, e))) = Len(h) - Hidden(e)
         /\ \A i \in 1 .. (Len(h) - Hidden(e)) : Own(View(h, e))[i] = Seen(h, Hidden(e) + i)
         /\ e = NoEvent => Own(View(h, e)) = View(h, e)
         /\ e # NoEvent => View(h, e) # <<>> /\ Own(View(h, e)) = Tail(View(h, e))
<1>. DEFINE n == Len(h)
            k == Hidden(e)
            keep == options.keep_last
<1>1. /\ n \in Nat /\ keep \in Nat /\ h \in Seq(Message) /\ DOMAIN h = 1 .. n
      /\ \A p \in 1 .. n : h[p] \in Message /\ ~h[p].summary
      /\ k \in 0 .. n
  BY OptionsType DEF Speech, Hidden, Event
<1>2. CASE e = NoEvent
  <2>1. View(h, e) = Trim(h, keep) /\ k = 0
    BY <1>2 DEF View, Hidden
  <2>2. PICK v : v = View(h, e)
    OBVIOUS
  <2>3. /\ v \in Seq(Message) /\ Len(v) = n
        /\ \A i \in 1 .. n : /\ v[i].summary = h[i].summary
                             /\ v[i] = IF i + keep <= n
                                         THEN Trimmed(h[i]) ELSE h[i]
    <3>. HIDE DEF keep
    <3>. QED
      BY <1>1, <2>1, <2>2, TrimFacts
  <2>4. v # <<>> => ~v[1].summary
    <3>. SUFFICES ASSUME v # <<>> PROVE ~v[1].summary
      OBVIOUS
    <3>1. 1 \in 1 .. n
      BY <2>3
    <3>. QED
      BY <1>1, <2>3, <3>1
  <2>5. Own(v) = v
    BY <2>4 DEF Own
  <2>6. \A i \in 1 .. n : v[i] = Seen(h, 0 + i)
    BY <1>1, <2>3 DEF Seen
  <2>. QED
    BY <1>1, <1>2, <2>1, <2>2, <2>3, <2>5, <2>6
<1>3. CASE e # NoEvent
  <2>1. k = e.cutoff /\ k \in 1 .. n /\ e.covers \in SUBSET Place
    BY <1>3 DEF Hidden, Event
  <2>2. PICK m, rest, u, v : /\ m = SummaryMessage(e.covers)
                             /\ rest = SubSeq(h, k + 1, n)
                             /\ u = <<m>> \o rest /\ v = Trim(u, keep)
    OBVIOUS
  <2>3. View(h, e) = v
    BY <1>3, <2>1, <2>2 DEF View
  <2>4. m \in Message /\ m.summary
    BY <2>1, <2>2, SummaryType
  <2>5. /\ rest \in Seq(Message) /\ Len(rest) = n - k
        /\ \A i \in 1 .. (n - k) : rest[i] = h[k + i]
    <3>1. k + 1 \in Int /\ n \in Int /\ \A i \in (k + 1) .. n : h[i] \in Message
      BY <1>1, <2>1
    <3>2. /\ rest \in Seq(Message)
          /\ Len(rest) = IF k + 1 <= n THEN n - (k + 1) + 1 ELSE 0
          /\ \A i \in 1 .. n - (k + 1) + 1 : rest[i] = h[(k + 1) + i - 1]
      <4>. HIDE DEF k, n
      <4>. QED
        BY <2>2, <3>1, SubSeqProperties
    <3>3. /\ (IF k + 1 <= n THEN n - (k + 1) + 1 ELSE 0) = n - k
          /\ n - (k + 1) + 1 = n - k /\ \A i \in 1 .. (n - k) : (k + 1) + i - 1 = k + i
      <4>. HIDE DEF k, n
      <4>. QED
        BY <1>1, <2>1
    <3>. QED
      BY <3>2, <3>3
  <2>6. /\ u \in Seq(Message) /\ Len(u) = n - k + 1 /\ u[1] = m
        /\ \A i \in 1 .. (n - k) : u[i + 1] = h[k + i]
    <3>1. <<m>> \in Seq(Message) /\ Len(<<m>>) = 1 /\ <<m>>[1] = m /\ n - k \in Nat
      BY <1>1, <2>1, <2>4
    <3>2. /\ u \in Seq(Message) /\ Len(u) = 1 + (n - k)
          /\ \A i \in 1 .. 1 + (n - k) : u[i] = IF i <= 1 THEN <<m>>[i] ELSE rest[i - 1]
      BY <2>2, <2>5, <3>1, ConcatProperties
    <3>. HIDE DEF k, n
    <3>3. u[1] = m
      BY <3>1, <3>2
    <3>4. ASSUME NEW i \in 1 .. (n - k) PROVE u[i + 1] = h[k + i]
      <4>1. i + 1 \in 1 .. 1 + (n - k) /\ ~(i + 1 <= 1) /\ (i + 1) - 1 = i
        BY <3>1
      <4>. QED
        BY <2>5, <3>2, <4>1
    <3>. QED
      BY <3>1, <3>2, <3>3, <3>4
  <2>7. /\ v \in Seq(Message) /\ Len(v) = n - k + 1 /\ v[1].summary
        /\ \A i \in 1 .. (n - k) : v[i + 1] = Seen(h, k + i)
    <3>. HIDE DEF k, n
    <3>1. /\ v \in Seq(Message) /\ Len(v) = Len(u)
          /\ \A i \in 1 .. Len(u) : /\ v[i].summary = u[i].summary
                                    /\ v[i] = IF i + keep <= Len(u)
                                                THEN Trimmed(u[i])
                                                ELSE u[i]
      <4>. HIDE DEF keep
      <4>1. v = Trim(u, keep) /\ u \in Seq(Message) /\ keep \in Nat
        BY <1>1, <2>2, <2>6
      <4>. QED
        BY <4>1, TrimFacts
    <3>2. k \in 1 .. n /\ n \in Nat /\ keep \in Nat /\ 1 \in 1 .. n - k + 1
      BY <1>1, <2>1
    <3>3. v[1].summary
      BY <2>4, <2>6, <3>1, <3>2
    <3>4. ASSUME NEW i \in 1 .. (n - k) PROVE v[i + 1] = Seen(h, k + i)
      <4>1. i + 1 \in 1 .. n - k + 1 /\ ((i + 1) + keep <= n - k + 1 <=> (k + i) + keep <= n)
        BY <3>2
      <4>2. u[i + 1] = h[k + i]
        BY <2>6
      <4>. QED
        BY <2>6, <3>1, <4>1, <4>2 DEF Seen, n
    <3>. QED
      BY <2>6, <3>1, <3>3, <3>4
  <2>8. v # <<>> /\ Own(v) = Tail(v)
    <3>. HIDE DEF k, n
    <3>1. n - k + 1 > 0 /\ n - k \in Nat
      BY <1>1, <2>1
    <3>2. v # <<>>
      BY <2>7, <3>1
    <3>. QED
      BY <2>7, <3>2 DEF Own
  <2>9. /\ Tail(v) \in Seq(Message) /\ Len(Tail(v)) = n - k
        /\ \A i \in 1 .. (n - k) : Tail(v)[i] = v[i + 1]
    <3>. HIDE DEF k, n
    <3>1. n - k \in Nat
      BY <1>1, <2>1
    <3>. QED
      BY <2>7, <2>8, <3>1
  <2>. QED
    BY <1>3, <2>3, <2>7, <2>8, <2>9
<1>. QED
  BY <1>2, <1>3
\* Behind all of its history a thread sees nothing but the summary.
LEMMA ViewBehind ==
  ASSUME options \in Options, NEW h, Speech(h), NEW e \in Event, e.cutoff > Len(h)
  PROVE  /\ View(h, e) \in Seq(Message) /\ View(h, e) # <<>>
         /\ Own(View(h, e)) \in Seq(Message) /\ Len(Own(View(h, e))) = 0
<1>1. /\ h \in Seq(Message) /\ Len(h) \in Nat /\ e.cutoff \in Nat /\ e # NoEvent
      /\ e.covers \in SUBSET Place /\ options.keep_last \in Nat
  BY OptionsType DEF Speech, Event, NoEvent
<1>2. PICK m : m = SummaryMessage(e.covers)
  OBVIOUS
<1>3. m \in Message /\ m.summary
  BY <1>1, <1>2, SummaryType
<1>4. View(h, e) = Trim(<<m>> \o SubSeq(h, e.cutoff + 1, Len(h)), options.keep_last)
  BY <1>1, <1>2 DEF View
<1>5. SubSeq(h, e.cutoff + 1, Len(h)) = <<>>
  <2>1. e.cutoff + 1 \in Int /\ Len(h) \in Int /\ Len(h) < e.cutoff + 1
    BY <1>1
  <2>. QED
    BY <2>1, SubSeqEmpty
<1>6. PICK u : u = <<m>>
  OBVIOUS
<1>7. <<m>> \o <<>> = u /\ u \in Seq(Message) /\ Len(u) = 1 /\ u[1] = m
  BY <1>3, <1>6, ConcatEmptySeq
<1>8. PICK v : v = Trim(u, options.keep_last)
  OBVIOUS
<1>9. v = View(h, e) /\ v \in Seq(Message) /\ Len(v) = 1 /\ v[1].summary
  <2>1. v = View(h, e)
    BY <1>4, <1>5, <1>7, <1>8
  <2>2. 1 \in 1 .. Len(u)
    BY <1>7
  <2>3. v \in Seq(Message) /\ Len(v) = Len(u) /\ v[1].summary = u[1].summary
    BY <1>1, <1>7, <1>8, <2>2, TrimFacts
  <2>. QED
    BY <1>3, <1>7, <2>1, <2>3
<1>10. v # <<>> /\ Own(v) = Tail(v)
  <2>1. v # <<>>
    <3>1. Len(v) # Len(<<>>)
      BY <1>9
    <3>. QED
      BY <3>1, Zenon
  <2>. QED
    BY <1>9, <2>1 DEF Own
<1>11. Tail(v) \in Seq(Message) /\ Len(Tail(v)) = 0
  BY <1>9, <1>10
<1>. QED
  BY <1>9, <1>10, <1>11

\* Nothing is cut from nothing.
LEMMA EmptyCutoff ==
  ASSUME options \in Options, NEW s \in Seq(Message), Len(s) = 0
  PROVE  Cutoff(s) = 0 /\ Fits(s)
<1>1. Chars(s) = 0
  <2>1. PICK f : /\ IsTotal(s, f) /\ f \in [0 .. Len(s) -> Nat] /\ Chars(s) = f[Len(s)]
    BY CharsTotal
  <2>. QED
    BY <2>1 DEF IsTotal
<1>2. CountTurns(s) = 0
  <2>1. {i \in DOMAIN s : i = 1 \/ s[i].role # s[i - 1].role} = {}
    OBVIOUS
  <2>. QED
    BY <2>1, FS_EmptySet DEF CountTurns
<1>. QED
  BY <1>1, <1>2, OptionsType DEF Cutoff, BudgetCutoff, TurnsCutoff, Fits

-----------------------------------------------------------------------------
(* Summarising. *)

LEMMA ThreadFacts ==
  ASSUME SumInv, NEW t \in Threads
  PROVE  /\ options \in Options /\ Speech(history[t]) /\ history[t] \in Seq(Message)
         /\ DOMAIN history[t] = 1 .. Len(history[t]) /\ Len(history[t]) \in Nat
         /\ event[t] \in Event /\ event[t].cutoff \in Nat
         /\ Hidden(event[t]) = event[t].cutoff
         /\ event[t] # NoEvent => event[t].cutoff > 0
<1>1. TypeOK /\ HistoryInv /\ EventInv
  BY DEF SumInv, ArchivedInOrder
<1>2. history[t] \in Seq(Message) /\ event[t] \in Event /\ options \in Options
  BY <1>1 DEF TypeOK
<1>3. Speech(history[t])
  BY <1>1, <1>2 DEF HistoryInv, Speech
<1>4. Hidden(event[t]) = event[t].cutoff
  BY DEF Hidden, NoEvent
<1>5. event[t] # NoEvent => event[t].cutoff > 0
  BY <1>1 DEF EventInv
<1>. QED
  BY <1>2, <1>3, <1>4, <1>5 DEF Event

LEMMA EffectiveFacts ==
  ASSUME SumInv, NEW t \in Threads
  PROVE  /\ Effective(t) \in Seq(Message) /\ Cutoff(Effective(t)) \in 0 .. Len(Effective(t))
         /\ Cutoff(Effective(t)) # 0 => Effective(t) # <<>>
         /\ event[t].cutoff > Len(history[t]) => Len(Own(Effective(t))) = 0
         /\ event[t].cutoff <= Len(history[t]) =>
              Len(Effective(t)) = Len(history[t]) - event[t].cutoff
                                    + (IF event[t] = NoEvent THEN 0 ELSE 1)
<1>. DEFINE h == history[t]
            e == event[t]
            s == Effective(t)
<1>0. /\ options \in Options /\ Speech(h) /\ h \in Seq(Message) /\ Len(h) \in Nat
      /\ e \in Event /\ e.cutoff \in Nat /\ Hidden(e) = e.cutoff /\ s = View(h, e)
      /\ e # NoEvent => e.cutoff > 0
      /\ e = NoEvent => e.cutoff = 0
  BY ThreadFacts DEF Effective, NoEvent
<1>. HIDE DEF h, e, s
<1>1. /\ s \in Seq(Message)
      /\ e.cutoff > Len(h) => Len(Own(s)) = 0
      /\ e.cutoff <= Len(h) => Len(s) = Len(h) - e.cutoff + (IF e = NoEvent THEN 0 ELSE 1)
  <2>1. CASE e.cutoff > Len(h)
    BY <1>0, <2>1, ViewBehind
  <2>2. CASE e.cutoff <= Len(h)
    <3>1. e = NoEvent \/ e.cutoff \in 1 .. Len(h)
      BY <1>0, <2>2
    <3>2. /\ s \in Seq(Message) /\ Len(Own(s)) = Len(h) - e.cutoff
          /\ e = NoEvent => Own(s) = s
          /\ e # NoEvent => s # <<>> /\ Own(s) = Tail(s)
      BY <1>0, <3>1, ViewFacts
    <3>3. s # <<>> => Len(s) = Len(Tail(s)) + 1
      BY <3>2
    <3>4. Len(s) = Len(h) - e.cutoff + (IF e = NoEvent THEN 0 ELSE 1)
      BY <3>2, <3>3
    <3>. QED
      BY <1>0, <2>2, <3>2, <3>4
  <2>. QED
    BY <1>0, <2>1, <2>2
<1>2. Cutoff(s) \in 0 .. Len(s) /\ (Cutoff(s) # 0 => s # <<>>)
  <2>1. CASE s = <<>>
    <3>1. Len(s) = 0
      BY <2>1
    <3>2. Cutoff(s) = 0
      BY <1>0, <1>1, <3>1, EmptyCutoff
    <3>. QED
      BY <3>1, <3>2
  <2>2. CASE s # <<>>
    BY <1>0, <1>1, <2>2, CutoffFacts
  <2>. QED
    BY <2>1, <2>2
<1>. QED
  BY <1>1, <1>2 DEF h, e, s

\* The cutoff in the state lies behind the last one, and leaves the recent
\* messages.
LEMMA CutFacts ==
  ASSUME SumInv, NEW t \in Threads, CanCut(t)
  PROVE  /\ StateCutoff(t) \in 1 .. Len(history[t]) - 1
         /\ event[t].cutoff <= StateCutoff(t)
         /\ event[t] = NoEvent \/ event[t].cutoff \in 1 .. Len(history[t])
         /\ StateCutoff(t) + options.min_recent <= Len(history[t])
         /\ Effective(t) # <<>> /\ Cutoff(Effective(t)) # 0
         /\ StateCutoff(t) = IF event[t] = NoEvent THEN Cutoff(Effective(t))
                             ELSE event[t].cutoff + Cutoff(Effective(t)) - 1
<1>. DEFINE n == Len(history[t])
            k == event[t].cutoff
            c == Cutoff(Effective(t))
            l == Len(Effective(t))
<1>1. /\ options \in Options /\ n \in Nat /\ k \in Nat /\ options.min_recent \in Nat
      /\ event[t] # NoEvent => k > 0
      /\ event[t] = NoEvent => k = 0
  BY ThreadFacts, OptionsType DEF NoEvent
<1>2. /\ Effective(t) \in Seq(Message) /\ l \in Nat /\ c \in 0 .. l
      /\ c # 0 => Effective(t) # <<>>
      /\ k <= n => l = n - k + (IF event[t] = NoEvent THEN 0 ELSE 1)
  BY EffectiveFacts
<1>3. StateCutoff(t) = IF c = 0 THEN 0 ELSE IF event[t] = NoEvent THEN c ELSE k + c - 1
  BY DEF StateCutoff
<1>4. StateCutoff(t) # 0 /\ StateCutoff(t) < n
  BY DEF CanCut
<1>5. c # 0 /\ Effective(t) # <<>> /\ c + options.min_recent <= l
  <2>1. c # 0 /\ Effective(t) # <<>>
    BY <1>2, <1>3, <1>4
  <2>. QED
    BY <1>1, <1>2, <2>1, CutoffFacts
<1>. HIDE DEF n, k, c, l
<1>6. CASE event[t] = NoEvent
  <2>1. StateCutoff(t) = c /\ k = 0 /\ l = n
    BY <1>1, <1>2, <1>3, <1>5, <1>6
  <2>. QED
    BY <1>1, <1>2, <1>4, <1>5, <1>6, <2>1 DEF n, k, c
<1>7. CASE event[t] # NoEvent
  <2>1. StateCutoff(t) = k + c - 1 /\ k > 0
    BY <1>1, <1>3, <1>5, <1>7
  <2>2. c \in Nat /\ c > 0
    BY <1>2, <1>5
  <2>3. k + c - 1 < n
    BY <1>4, <2>1
  <2>4. k <= k + c - 1 /\ k <= n /\ k + c - 1 \in 1 .. n - 1 /\ k \in 1 .. n
    BY <1>1, <2>1, <2>2, <2>3
  <2>5. l = n - k + 1
    BY <1>2, <1>7, <2>4
  <2>6. (k + c - 1) + options.min_recent <= n
    BY <1>1, <1>5, <2>2, <2>5
  <2>. QED
    BY <1>5, <1>7, <2>1, <2>4, <2>6 DEF n, k, c
<1>. QED
  BY <1>6, <1>7
\* After a cut a request shows what the cut left of the last one.
LEMMA CutShows ==
  ASSUME SumInv, NEW t \in Threads, CanCut(t),
         NEW e \in Event, e.cutoff = StateCutoff(t)
  PROVE  LET s == Effective(t)
         IN  Own(View(history[t], e)) = SubSeq(s, Cutoff(s) + 1, Len(s))
<1>. DEFINE h == history[t]
            f == event[t]
            s == Effective(t)
            c == Cutoff(s)
            n == Len(h)
            k == f.cutoff
            j == e.cutoff
            new == Own(View(h, e))
            old == SubSeq(s, c + 1, Len(s))
<1>1. /\ options \in Options /\ Speech(h) /\ n \in Nat /\ f \in Event /\ k \in Nat
      /\ Hidden(f) = k /\ (f = NoEvent => k = 0)
  BY ThreadFacts DEF NoEvent
<1>2. /\ j \in 1 .. n - 1 /\ k <= j /\ (f = NoEvent \/ k \in 1 .. n)
      /\ j = IF f = NoEvent THEN c ELSE k + c - 1
      /\ s # <<>> /\ c # 0
  BY CutFacts
<1>3. s \in Seq(Message) /\ c \in 0 .. Len(s) /\ s = View(h, f)
  BY EffectiveFacts DEF Effective
<1>4. /\ new \in Seq(Message) /\ Len(new) = n - j
      /\ \A i \in 1 .. n - j : new[i] = Seen(h, j + i)
  <2>1. e # NoEvent /\ e.cutoff \in 1 .. Len(h) /\ Hidden(e) = j
    BY <1>1, <1>2 DEF NoEvent, Hidden
  <2>. QED
    BY <1>1, <2>1, ViewFacts
<1>5. /\ Own(s) \in Seq(Message) /\ Len(Own(s)) = n - k
      /\ \A i \in 1 .. n - k : Own(s)[i] = Seen(h, k + i)
      /\ f = NoEvent => Own(s) = s
      /\ f # NoEvent => Own(s) = Tail(s)
  <2>1. f = NoEvent \/ f.cutoff \in 1 .. Len(h)
    BY <1>2
  <2>. HIDE DEF h, f, s
  <2>. QED
    BY <1>1, <1>3, <2>1, ViewFacts
<1>. HIDE DEF new, s, c, h, k, j, n, f
<1>6. /\ Len(s) - c = n - j
      /\ \A i \in 1 .. n - j : c + i \in 1 .. Len(s) /\ s[c + i] = Seen(h, j + i)
  <2>1. CASE f = NoEvent
    <3>1. Len(s) = n /\ k = 0 /\ j = c
      BY <1>1, <1>2, <1>5, <2>1
    <3>2. \A i \in 1 .. n - j : c + i \in 1 .. n /\ j + i = c + i /\ 0 + (c + i) = c + i
      BY <1>1, <1>2, <3>1
    <3>. QED
      BY <1>1, <1>2, <1>5, <2>1, <3>1, <3>2
  <2>2. CASE f # NoEvent
    <3>1. /\ Len(Tail(s)) = n - k /\ j = k + c - 1 /\ k \in 1 .. n /\ c \in Nat /\ c > 0
          /\ \A i \in 1 .. n - k : Tail(s)[i] = Seen(h, k + i)
      <4>1. Own(s) = Tail(s) /\ j = k + c - 1 /\ k \in 1 .. n
        BY <1>2, <1>5, <2>2
      <4>2. c \in Nat /\ c > 0
        BY <1>2, <1>3
      <4>. QED
        BY <1>5, <4>1, <4>2
    <3>2. Len(s) = n - k + 1 /\ \A i \in 1 .. Len(s) - 1 : Tail(s)[i] = s[i + 1]
      BY <1>2, <1>3, <3>1
    <3>3. Len(s) - c = n - j
      BY <1>1, <3>1, <3>2
    <3>4. ASSUME NEW i \in 1 .. n - j
          PROVE  c + i \in 1 .. Len(s) /\ s[c + i] = Seen(h, j + i)
      <4>1. /\ c + i - 1 \in 1 .. n - k /\ (c + i - 1) + 1 = c + i
            /\ k + (c + i - 1) = j + i /\ c + i \in 1 .. Len(s)
            /\ c + i - 1 \in 1 .. Len(s) - 1
        BY <1>1, <3>1, <3>2
      <4>2. Tail(s)[c + i - 1] = s[c + i] /\ Tail(s)[c + i - 1] = Seen(h, j + i)
        BY <3>1, <3>2, <4>1
      <4>. QED
        BY <4>1, <4>2
    <3>. QED
      BY <3>3, <3>4
  <2>. QED
    BY <2>1, <2>2
<1>7. /\ old \in Seq(Message) /\ Len(old) = n - j
      /\ \A i \in 1 .. n - j : old[i] = s[c + i]
  <2>1. n - j > 0 /\ c + 1 \in 1 .. Len(s) /\ Len(s) - (c + 1) + 1 = n - j
    BY <1>1, <1>2, <1>3, <1>6
  <2>2. /\ old \in Seq(Message) /\ Len(old) = n - j
        /\ \A i \in 1 .. n - j : old[i] = s[(c + 1) + i - 1]
    BY <1>3, <2>1, SuffixFacts
  <2>3. \A i \in 1 .. n - j : (c + 1) + i - 1 = c + i
    BY <1>1, <1>2, <1>3
  <2>. QED
    BY <2>2, <2>3
<1>. HIDE DEF old
<1>8. new = old
  <2>1. \A i \in 1 .. Len(new) : new[i] = old[i]
    BY <1>4, <1>6, <1>7
  <2>. QED
    BY <1>4, <1>7, <2>1, SeqEqual
<1>. QED
  BY <1>8 DEF new, old, s, c, h, k, j, n, f

\* A request that was not cut because it could not be fits.
LEMMA UncutFits ==
  ASSUME SumInv, NEW t \in Threads, ~CanCut(t)
  PROVE  Fits(Own(Effective(t)))
<1>. DEFINE s == Effective(t)
            n == Len(history[t])
            k == event[t].cutoff
            c == Cutoff(s)
<1>1. /\ options \in Options /\ options.min_recent \in Nat /\ n \in Nat /\ k \in Nat
      /\ event[t] # NoEvent => k > 0
      /\ event[t] = NoEvent => k = 0
      /\ Speech(history[t]) /\ event[t] \in Event
  BY ThreadFacts, OptionsType DEF NoEvent
<1>2. /\ s \in Seq(Message) /\ c \in 0 .. Len(s) /\ Len(s) \in Nat
      /\ k > n => Len(Own(s)) = 0
      /\ k <= n => Len(s) = n - k + (IF event[t] = NoEvent THEN 0 ELSE 1)
  BY EffectiveFacts
<1>3. CASE k > n
  BY <1>1, <1>2, <1>3 DEF Fits
<1>4. CASE k <= n
  <2>1. c \in {0, Len(s)}
    <3>1. \/ StateCutoff(t) = 0
          \/ ~(StateCutoff(t) < n)
      BY DEF CanCut
    <3>2. StateCutoff(t) = IF c = 0 THEN 0 ELSE IF event[t] = NoEvent THEN c ELSE k + c - 1
      BY DEF StateCutoff
    <3>. HIDE DEF s, n, k, c
    <3>3. CASE event[t] = NoEvent
      BY <1>1, <1>2, <1>4, <3>1, <3>2, <3>3
    <3>4. CASE event[t] # NoEvent
      <4>1. Len(s) = n - k + 1 /\ k > 0
        BY <1>1, <1>2, <1>4, <3>4
      <4>2. c = 0 \/ ~(k + c - 1 < n)
        <5>1. c # 0 => k + c - 1 # 0
          BY <1>1, <1>2, <4>1
        <5>. QED
          BY <3>1, <3>2, <3>4, <5>1
      <4>. QED
        BY <1>1, <1>2, <4>1, <4>2
    <3>. QED
      BY <3>3, <3>4
  <2>2. Fits(s)
    <3>1. CASE s = <<>>
      BY <1>1, <1>2, <3>1, EmptyCutoff
    <3>2. CASE s # <<>>
      BY <1>1, <1>2, <2>1, <3>2, CutoffFacts
    <3>. QED
      BY <3>1, <3>2
  <2>3. \/ Own(s) = s
        \/ s # <<>> /\ Own(s) = Tail(s)
    BY DEF Own
  <2>. QED
    BY <1>1, <1>2, <2>2, <2>3, FitsTail
<1>. QED
  BY <1>1, <1>2, <1>3, <1>4

\* Whatever before_provider_step does or leaves undone, the request fits.
LEMMA SummarizeFits ==
  ASSUME SumInv, NEW t \in Threads, NEW wanted \in BOOLEAN, SummarizeIf(t, wanted),
         ~wanted => ~ShouldSummarize(Effective(t))
  PROVE  Fits(Own(View(history[t], event'[t])))
<1>1. CASE wanted /\ CanCut(t)
  <2>. DEFINE s == Effective(t)
              e == event'[t]
  <2>1. Summarize(t)
    BY <1>1 DEF SummarizeIf
  <2>2. e \in Event /\ e.cutoff = StateCutoff(t)
    <3>1. event \in [Threads -> Event]
      BY DEF SumInv, ArchivedInOrder, TypeOK
    <3>2. e = [cutoff |-> StateCutoff(t), covers |-> Covered(t, Pruned(t))]
      BY <2>1, <3>1 DEF Summarize
    <3>3. StateCutoff(t) \in Nat
      BY <1>1, CutFacts, ThreadFacts
    <3>4. Covered(t, Pruned(t)) \in SUBSET Place
      <4>1. \A p \in Pruned(t) : history[t][p] \in Message
        <5>1. StateCutoff(t) \in 1 .. Len(history[t]) - 1 /\ event[t].cutoff \in Nat
          BY <1>1, CutFacts, ThreadFacts
        <5>2. \A p \in Pruned(t) : p \in 1 .. Len(history[t])
          BY <5>1, ThreadFacts DEF Pruned
        <5>. QED
          BY <5>2, ThreadFacts
      <4>. QED
        BY <4>1 DEF Covered, Message
    <3>. QED
      BY <3>2, <3>3, <3>4 DEF Event
  <2>3. Own(View(history[t], e)) = SubSeq(s, Cutoff(s) + 1, Len(s))
    BY <1>1, <2>2, CutShows
  <2>4. s \in Seq(Message) /\ s # <<>> /\ Cutoff(s) # 0 /\ options \in Options
    BY <1>1, CutFacts, EffectiveFacts, ThreadFacts
  <2>. HIDE DEF s
  <2>5. Fits(SubSeq(s, Cutoff(s) + 1, Len(s)))
    BY <2>4, CutoffFacts
  <2>. QED
    BY <2>3, <2>5
<1>2. CASE wanted /\ ~CanCut(t)
  <2>1. event' = event
    BY <1>2 DEF SummarizeIf
  <2>2. View(history[t], event'[t]) = Effective(t)
    BY <2>1 DEF Effective
  <2>. QED
    BY <1>2, <2>2, UncutFits
<1>3. CASE ~wanted
  <2>1. View(history[t], event'[t]) = Effective(t)
    BY <1>3 DEF SummarizeIf, Effective
  <2>2. Fits(Effective(t)) /\ Effective(t) \in Seq(Message) /\ options \in Options
    BY <1>3, EffectiveFacts, ThreadFacts DEF Fits
  <2>3. \/ Own(Effective(t)) = Effective(t)
        \/ Effective(t) # <<>> /\ Own(Effective(t)) = Tail(Effective(t))
    BY DEF Own
  <2>. QED
    BY <2>1, <2>2, <2>3, FitsTail
<1>. QED
  BY <1>1, <1>2, <1>3
-----------------------------------------------------------------------------
(* What the actions do to the histories and the events. *)

SaidBy(t, m) ==
  m \in Message /\ ~m.summary /\ m.covers = {<<t, Len(history[t]) + 1>>}

Speaks(t) ==
  \E m \in Message : SaidBy(t, m) /\ history' = [history EXCEPT ![t] = Append(@, m)]

\* The histories are as long as they were, or longer.
Grown ==
  /\ history' \in [Threads -> Seq(Message)]
  /\ \A t \in Threads :
       /\ Len(history[t]) <= Len(history'[t])
       /\ \A p \in 1 .. Len(history[t]) : history'[t][p] = history[t][p]
       /\ \A p \in 1 .. Len(history'[t]) :
            ~history'[t][p].summary /\ history'[t][p].covers = {<<t, p>>}

\* The event of t moves on, and the archive takes what it hides anew.
Hides(t) ==
  \E k \in 1 .. Len(history[t]) - 1, e \in Event :
    /\ event[t].cutoff <= k /\ e.cutoff = k
    /\ k + options.min_recent <= Len(history[t])
    /\ event' = [event EXCEPT ![t] = e]
    /\ t = "child" => UNCHANGED <<archive, lost>>
    /\ t = "main" =>
         \E pruned :
           /\ pruned = {p \in (event[t].cutoff + 1) .. k : ~history[t][p].marked}
           /\ \/ archive' = Append(archive, pruned) /\ lost' = lost
              \/ archive' = archive /\ lost' = lost \cup pruned

LEMMA NewMessageFacts ==
  ASSUME SumInv, NEW t \in Threads, NEW role \in Roles, NEW n \in Sizes,
         Len(history[t]) < MaxMessages
  PROVE  /\ SaidBy(t, NewMessage(t, role, n))
         /\ \A k \in Nat : SaidBy(t, [NewMessage(t, role, n) EXCEPT !.trimmed = k])
         /\ \A b \in BOOLEAN : SaidBy(t, [NewMessage(t, role, n) EXCEPT !.marked = b])
<1>1. n \in Nat /\ MaxMessages \in Nat /\ Len(history[t]) \in Nat
  BY SizesAssumption, BoundsAssumption, ThreadFacts
<1>2. {<<t, Len(history[t]) + 1>>} \in SUBSET Place
  BY <1>1 DEF Place
<1>. QED
  BY <1>1, <1>2 DEF SaidBy, NewMessage, Message

LEMMA SpeaksGrown ==
  ASSUME SumInv, NEW t \in Threads, Speaks(t)
  PROVE  /\ Grown
         /\ Len(history'[t]) = Len(history[t]) + 1
         /\ \A u \in Threads : u # t => history'[u] = history[u]
<1>1. PICK m \in Message : SaidBy(t, m) /\ history' = [history EXCEPT ![t] = Append(@, m)]
  BY DEF Speaks
<1>2. history \in [Threads -> Seq(Message)] /\ HistoryInv
  BY DEF SumInv, ArchivedInOrder, TypeOK
<1>3. /\ history'[t] = Append(history[t], m)
      /\ \A u \in Threads : u # t => history'[u] = history[u]
      /\ DOMAIN history' = Threads
  BY <1>1, <1>2
<1>4. /\ Append(history[t], m) \in Seq(Message)
      /\ Len(Append(history[t], m)) = Len(history[t]) + 1
      /\ \A p \in 1 .. Len(history[t]) : Append(history[t], m)[p] = history[t][p]
      /\ Append(history[t], m)[Len(history[t]) + 1] = m
      /\ Len(history[t]) \in Nat
  BY <1>2, AppendProperties
<1>5. history' \in [Threads -> Seq(Message)]
  BY <1>1, <1>2, <1>4
<1>6. ASSUME NEW u \in Threads
      PROVE  /\ Len(history[u]) <= Len(history'[u])
             /\ \A p \in 1 .. Len(history[u]) : history'[u][p] = history[u][p]
             /\ \A p \in 1 .. Len(history'[u]) :
                  ~history'[u][p].summary /\ history'[u][p].covers = {<<u, p>>}
  <2>1. /\ \A p \in 1 .. Len(history[u]) :
             ~history[u][p].summary /\ history[u][p].covers = {<<u, p>>}
        /\ Len(history[u]) \in Nat
    BY <1>2, ThreadFacts DEF HistoryInv
  <2>2. CASE u # t
    BY <1>3, <2>1, <2>2
  <2>3. CASE u = t
    <3>1. \A p \in 1 .. Len(history[t]) + 1 : p \in 1 .. Len(history[t]) \/ p = Len(history[t]) + 1
      BY <1>4
    <3>2. ~m.summary /\ m.covers = {<<t, Len(history[t]) + 1>>}
      BY <1>1 DEF SaidBy
    <3>3. /\ Len(history'[t]) = Len(history[t]) + 1
          /\ \A p \in 1 .. Len(history[t]) : history'[t][p] = history[t][p]
          /\ history'[t][Len(history[t]) + 1] = m
      BY <1>3, <1>4
    <3>4. Len(history[t]) <= Len(history'[t])
      BY <1>4, <3>3
    <3>5. ASSUME NEW p \in 1 .. Len(history'[t])
          PROVE  ~history'[t][p].summary /\ history'[t][p].covers = {<<t, p>>}
      <4>1. CASE p \in 1 .. Len(history[t])
        <5>1. history'[t][p] = history[t][p]
          BY <3>3, <4>1
        <5>. QED
          BY <2>1, <2>3, <4>1, <5>1
      <4>2. CASE p = Len(history[t]) + 1
        BY <3>2, <3>3, <4>2
      <4>. QED
        BY <3>1, <3>3, <4>1, <4>2
    <3>. QED
      BY <2>3, <3>3, <3>4, <3>5
  <2>. QED
    BY <2>2, <2>3
<1>. QED
  BY <1>3, <1>4, <1>5, <1>6 DEF Grown

LEMMA SameGrown ==
  ASSUME SumInv, history' = history
  PROVE  Grown
<1>1. history \in [Threads -> Seq(Message)] /\ HistoryInv
  BY DEF SumInv, ArchivedInOrder, TypeOK
<1>2. \A t \in Threads : DOMAIN history[t] = 1 .. Len(history[t]) /\ Len(history[t]) \in Nat
  BY ThreadFacts
<1>. QED
  BY <1>1, <1>2 DEF Grown, HistoryInv

LEMMA SummarizeHides ==
  ASSUME SumInv, NEW t \in Threads, NEW wanted, SummarizeIf(t, wanted)
  PROVE  UNCHANGED <<event, archive, lost>> \/ Hides(t)
<1>1. CASE ~(wanted /\ CanCut(t))
  BY <1>1 DEF SummarizeIf
<1>2. CASE wanted /\ CanCut(t)
  <2>. DEFINE k == StateCutoff(t)
              e == [cutoff |-> k, covers |-> Covered(t, Pruned(t))]
  <2>1. Summarize(t)
    BY <1>2 DEF SummarizeIf
  <2>2. /\ k \in 1 .. Len(history[t]) - 1 /\ event[t].cutoff <= k
        /\ k + options.min_recent <= Len(history[t])
    BY <1>2, CutFacts
  <2>3. /\ event[t].cutoff \in Nat /\ Len(history[t]) \in Nat
        /\ history[t] \in Seq(Message)
    BY ThreadFacts
  <2>4. e \in Event
    <3>1. \A p \in Pruned(t) : p \in 1 .. Len(history[t])
      <4>1. \A p \in Pruned(t) : p \in (event[t].cutoff + 1) .. k
        BY DEF Pruned
      <4>. HIDE DEF k
      <4>. QED
        BY <2>2, <2>3, <4>1
    <3>2. Covered(t, Pruned(t)) \in SUBSET Place
      <4>1. \A p \in Pruned(t) : history[t][p] \in Message
        BY <2>3, <3>1
      <4>. QED
        BY <4>1 DEF Covered, Message
    <3>3. k \in Nat
      BY <2>2
    <3>. QED
      BY <3>2, <3>3 DEF Event
  <2>5. PICK pruned : pruned = Pruned(t)
    OBVIOUS
  <2>6. /\ pruned = {p \in (event[t].cutoff + 1) .. k : ~history[t][p].marked}
        /\ event' = [event EXCEPT ![t] = e] /\ e.cutoff = k
        /\ t = "child" => UNCHANGED <<archive, lost>>
        /\ t = "main" =>
             \/ archive' = Append(archive, pruned) /\ lost' = lost
             \/ archive' = archive /\ lost' = lost \cup pruned
    BY <2>1, <2>5 DEF Pruned, Summarize, Persist
  <2>. HIDE DEF k, e
  <2>. QED
    BY <2>2, <2>4, <2>6 DEF Hides
<1>. QED
  BY <1>1, <1>2
-----------------------------------------------------------------------------
(* The invariant. *)

\* A step of the thread that runs: it may say something, and hide something.
SessionStep ==
  /\ Grown /\ UNCHANGED <<options, active, tasked>>
  /\ pc' \in {"idle", "ready", "asked", "asked_again", "tool"}
  /\ active = "child" => pc' # "idle"
  /\ active = "main" => history'["child"] = <<>>
  /\ Len(history'["main"]) + (IF active = "child" \/ pc' = "tool" THEN 1 ELSE 0)
       <= MaxMessages
  /\ Len(history'["child"]) + (IF active = "child" /\ pc' = "tool" THEN 1 ELSE 0)
       <= MaxTask
  /\ UNCHANGED <<event, archive, lost>> \/ Hides(active)

\* How the archive and the event of the session move together.
MainHides ==
  \E k \in Nat, pruned \in SUBSET Nat :
    /\ event["main"].cutoff <= k /\ k < Len(history["main"])
    /\ pruned = {p \in (event["main"].cutoff + 1) .. k : ~history["main"][p].marked}
    /\ event'["main"].cutoff = k
    /\ \/ archive' = Append(archive, pruned) /\ lost' = lost
       \/ archive' = archive /\ lost' = lost \cup pruned

LEMMA EventsMove ==
  ASSUME SumInv, SessionStep
  PROVE  /\ event' \in [Threads -> Event]
         /\ \A t \in Threads : event'[t] = NoEvent \/ event'[t].cutoff > 0
         /\ event["main"].cutoff <= event'["main"].cutoff
         /\ active = "child" => event'["main"].cutoff <= event'["child"].cutoff
         /\ ~tasked /\ event'["main"] # NoEvent =>
              /\ event'["main"].cutoff + options.min_recent <= Len(history["main"])
              /\ event'["main"].cutoff < Len(history["main"])
         /\ \/ UNCHANGED <<archive, lost>> /\ event'["main"] = event["main"]
            \/ MainHides
<1>1. /\ TypeOK /\ EventInv /\ event \in [Threads -> Event] /\ active \in Threads
      /\ "main" \in Threads /\ "child" \in Threads
  BY DEF SumInv, ArchivedInOrder, TypeOK, Threads
<1>2. /\ event["main"].cutoff \in Nat /\ event["child"].cutoff \in Nat
      /\ Len(history["main"]) \in Nat
  BY <1>1, ThreadFacts
<1>3. CASE UNCHANGED <<event, archive, lost>>
  BY <1>1, <1>2, <1>3 DEF EventInv, TypeOK
<1>4. CASE Hides(active)
  <2>1. PICK k \in 1 .. Len(history[active]) - 1, e \in Event :
          /\ event[active].cutoff <= k /\ e.cutoff = k
          /\ k + options.min_recent <= Len(history[active])
          /\ event' = [event EXCEPT ![active] = e]
          /\ active = "child" => UNCHANGED <<archive, lost>>
          /\ active = "main" =>
               \E pruned :
                 /\ pruned = {p \in (event[active].cutoff + 1) .. k :
                                ~history[active][p].marked}
                 /\ \/ archive' = Append(archive, pruned) /\ lost' = lost
                    \/ archive' = archive /\ lost' = lost \cup pruned
    BY <1>4 DEF Hides
  <2>2. /\ event' \in [Threads -> Event] /\ event'[active] = e
        /\ \A t \in Threads : t # active => event'[t] = event[t]
        /\ k \in Nat /\ k > 0 /\ k < Len(history[active])
    <3>1. Len(history[active]) \in Nat
      BY <1>1, ThreadFacts
    <3>. QED
      BY <1>1, <2>1, <3>1
  <2>3. \A t \in Threads : event'[t] = NoEvent \/ event'[t].cutoff > 0
    BY <1>1, <2>1, <2>2 DEF EventInv
  <2>4. CASE active = "child"
    <3>1. event'["main"] = event["main"] /\ event'["child"] = e
      BY <1>1, <2>2, <2>4
    <3>2. tasked /\ event["main"].cutoff <= event["child"].cutoff
      BY <1>1, <2>4 DEF EventInv
    <3>3. event["main"].cutoff <= k
      BY <1>2, <2>1, <2>2, <2>4, <3>2
    <3>. QED
      BY <1>2, <2>1, <2>2, <2>3, <2>4, <3>1, <3>2, <3>3
  <2>5. CASE active = "main"
    <3>1. event'["main"] = e /\ event["main"].cutoff <= k
      BY <1>1, <2>1, <2>2, <2>5
    <3>2. MainHides
      <4>1. PICK pruned :
              /\ pruned = {p \in (event["main"].cutoff + 1) .. k : ~history["main"][p].marked}
              /\ \/ archive' = Append(archive, pruned) /\ lost' = lost
                 \/ archive' = archive /\ lost' = lost \cup pruned
        BY <2>1, <2>5
      <4>2. pruned \in SUBSET Nat
        BY <1>2, <4>1
      <4>. QED
        BY <2>1, <2>2, <2>5, <3>1, <4>1, <4>2 DEF MainHides
    <3>. QED
      BY <2>1, <2>2, <2>3, <2>5, <3>1, <3>2
  <2>. QED
    BY <1>1, <2>4, <2>5 DEF Threads
<1>. QED
  BY <1>3, <1>4 DEF SessionStep

\* What the archive holds is what the session hides, in order.
LEMMA ArchiveMoves ==
  ASSUME SumInv, SessionStep
  PROVE  /\ archive' \in Seq(SUBSET (1 .. MaxMessages)) /\ lost' \subseteq 1 .. MaxMessages
         /\ \A i, j \in DOMAIN archive' :
              i < j => \A p \in archive'[i], q \in archive'[j] : p < q
         /\ \A i \in DOMAIN archive' : \A p \in archive'[i] : p <= event'["main"].cutoff
         /\ NothingUnarchived'
<1>1. /\ archive \in Seq(SUBSET (1 .. MaxMessages)) /\ lost \subseteq 1 .. MaxMessages
      /\ \A i, j \in DOMAIN archive :
           i < j => \A p \in archive[i], q \in archive[j] : p < q
      /\ \A i \in DOMAIN archive : \A p \in archive[i] : p <= event["main"].cutoff
      /\ MaxMessages \in Nat /\ DOMAIN archive = 1 .. Len(archive) /\ Len(archive) \in Nat
  BY BoundsAssumption DEF SumInv, ArchivedInOrder, TypeOK, ArchiveInv
<1>2. /\ "main" \in Threads /\ Len(history["main"]) \in Nat /\ event["main"].cutoff \in Nat
      /\ Len(history["main"]) <= MaxMessages
      /\ \A p \in 1 .. Len(history["main"]) : history'["main"][p] = history["main"][p]
  <2>1. "main" \in Threads
    BY DEF Threads
  <2>2. Len(history["main"]) \in Nat /\ event["main"].cutoff \in Nat
    BY <2>1, ThreadFacts
  <2>3. Len(history["main"]) <= MaxMessages
    <3>1. Len(history["main"]) + 1 <= MaxMessages \/ Len(history["main"]) + 0 <= MaxMessages
      BY DEF SumInv, HistoryInv
    <3>. QED
      BY <1>1, <2>2, <3>1
  <2>. QED
    BY <2>1, <2>2, <2>3 DEF SessionStep, Grown
<1>3. /\ NothingUnarchived /\ tasked' = tasked
      /\ ~tasked /\ event["main"] # NoEvent => event["main"].cutoff < Len(history["main"])
      /\ event["main"] = NoEvent => event["main"].cutoff = 0
  BY DEF SumInv, ArchivedInOrder, TypeOK, SessionStep, NoEvent
<1>4. CASE UNCHANGED <<archive, lost>> /\ event'["main"] = event["main"]
  <2>1. ASSUME ~tasked, NEW p \in 1 .. event["main"].cutoff
        PROVE  \/ history'["main"][p].marked
               \/ p \in lost'
               \/ \E i \in DOMAIN archive' : p \in archive'[i]
    <3>1. p \in 1 .. Len(history["main"])
      BY <1>2, <1>3, <2>1
    <3>. QED
      BY <1>2, <1>3, <1>4, <2>1, <3>1 DEF NothingUnarchived
  <2>. QED
    BY <1>1, <1>3, <1>4, <2>1 DEF NothingUnarchived
<1>5. CASE MainHides
  <2>. DEFINE c == event["main"].cutoff
  <2>1. PICK k \in Nat, pruned \in SUBSET Nat :
          /\ c <= k /\ k < Len(history["main"])
          /\ pruned = {p \in (c + 1) .. k : ~history["main"][p].marked}
          /\ event'["main"].cutoff = k
          /\ \/ archive' = Append(archive, pruned) /\ lost' = lost
             \/ archive' = archive /\ lost' = lost \cup pruned
    BY <1>5 DEF MainHides
  <2>. HIDE DEF c
  <2>2. c \in Nat /\ \A p \in pruned : p \in 1 .. MaxMessages /\ p > c /\ p <= k
    BY <1>1, <1>2, <2>1 DEF c
  <2>3. \A i \in DOMAIN archive : \A p \in archive[i] : p \in 1 .. MaxMessages /\ p <= c
    BY <1>1 DEF c
  <2>4. ASSUME ~tasked, NEW p \in 1 .. k
        PROVE  \/ history'["main"][p].marked
               \/ p \in lost \cup pruned
               \/ \E i \in DOMAIN archive : p \in archive[i]
    <3>1. p \in 1 .. Len(history["main"]) /\ history'["main"][p] = history["main"][p]
      BY <1>2, <2>1
    <3>2. p \in 1 .. c \/ p \in (c + 1) .. k
      BY <2>1, <2>2
    <3>3. CASE p \in 1 .. c
      BY <1>3, <2>4, <3>1, <3>3 DEF NothingUnarchived, c
    <3>4. CASE p \in (c + 1) .. k
      BY <2>1, <3>1, <3>4
    <3>. QED
      BY <3>2, <3>3, <3>4
  <2>5. CASE archive' = archive /\ lost' = lost \cup pruned
    <3>1. lost' \subseteq 1 .. MaxMessages
      BY <1>1, <2>2, <2>5
    <3>2. \A i \in DOMAIN archive' : \A p \in archive'[i] : p <= k
      BY <2>1, <2>2, <2>3, <2>5
    <3>3. NothingUnarchived'
      BY <1>3, <2>1, <2>4, <2>5 DEF NothingUnarchived
    <3>. QED
      BY <1>1, <2>1, <2>5, <3>1, <3>2, <3>3
  <2>6. CASE archive' = Append(archive, pruned) /\ lost' = lost
    <3>1. /\ pruned \in SUBSET (1 .. MaxMessages)
          /\ archive' \in Seq(SUBSET (1 .. MaxMessages))
          /\ DOMAIN archive' = 1 .. Len(archive) + 1
          /\ \A i \in 1 .. Len(archive) : archive'[i] = archive[i]
          /\ archive'[Len(archive) + 1] = pruned
      <4>1. pruned \in SUBSET (1 .. MaxMessages)
        BY <2>2
      <4>. QED
        BY <1>1, <2>6, <4>1, AppendProperties
    <3>2. \A i \in DOMAIN archive' :
            \/ i \in DOMAIN archive /\ archive'[i] = archive[i]
            \/ i = Len(archive) + 1 /\ archive'[i] = pruned
      BY <1>1, <3>1
    <3>3. ASSUME NEW i \in DOMAIN archive', NEW j \in DOMAIN archive', i < j,
                 NEW p \in archive'[i], NEW q \in archive'[j]
          PROVE  p < q
      <4>1. i \in DOMAIN archive /\ archive'[i] = archive[i]
        BY <1>1, <3>1, <3>2, <3>3
      <4>2. CASE j \in DOMAIN archive /\ archive'[j] = archive[j]
        BY <1>1, <3>3, <4>1, <4>2
      <4>3. CASE archive'[j] = pruned
        <5>1. q \in 1 .. MaxMessages /\ q > c
          BY <2>2, <4>3
        <5>2. p \in 1 .. MaxMessages /\ p <= c
          BY <2>3, <4>1
        <5>3. p \in Nat /\ q \in Nat /\ c \in Nat
          BY <1>1, <2>2, <5>1, <5>2
        <5>. QED
          BY <5>1, <5>2, <5>3
      <4>. QED
        BY <3>2, <4>2, <4>3
    <3>4. \A i \in DOMAIN archive' : \A p \in archive'[i] : p <= k
      BY <2>1, <2>2, <2>3, <3>2
    <3>5. NothingUnarchived'
      <4>1. ASSUME ~tasked, NEW p \in 1 .. k
            PROVE  \/ history'["main"][p].marked
                   \/ p \in lost'
                   \/ \E i \in DOMAIN archive' : p \in archive'[i]
        <5>1. DOMAIN archive \subseteq DOMAIN archive' /\ Len(archive) + 1 \in DOMAIN archive'
          BY <1>1, <3>1
        <5>. QED
          BY <1>1, <2>4, <2>6, <3>1, <4>1, <5>1
      <4>. QED
        BY <1>3, <2>1, <4>1 DEF NothingUnarchived
    <3>. QED
      BY <1>1, <2>1, <2>6, <3>1, <3>3, <3>4, <3>5
  <2>. QED
    BY <2>1, <2>5, <2>6
<1>. QED
  BY <1>4, <1>5, EventsMove

LEMMA SessionStepKeeps ==
  ASSUME SumInv, SessionStep
  PROVE  SumInv'
<1>1. TypeOK /\ EventInv /\ HistoryInv
  BY DEF SumInv, ArchivedInOrder
<1>2. /\ "main" \in Threads /\ "child" \in Threads /\ Len(history["main"]) \in Nat
      /\ Len(history["main"]) <= Len(history'["main"]) /\ Len(history'["main"]) \in Nat
      /\ options \in Options /\ options.min_recent \in Nat
  <2>1. "main" \in Threads /\ "child" \in Threads
    BY DEF Threads
  <2>2. history'["main"] \in Seq(Message)
    BY <2>1 DEF SessionStep, Grown
  <2>. QED
    BY <2>1, <2>2, ThreadFacts, OptionsType DEF SessionStep, Grown
<1>3. event'["main"] \in Event /\ event'["main"].cutoff \in Nat
  BY <1>2, EventsMove DEF Event
<1>4. TypeOK'
  <2>1. ~tasked' /\ event'["main"] # NoEvent => event'["main"].cutoff < Len(history'["main"])
    <3>1. ~tasked /\ event'["main"] # NoEvent =>
            event'["main"].cutoff < Len(history["main"])
      BY EventsMove
    <3>2. tasked' = tasked
      BY DEF SessionStep
    <3>. QED
      BY <1>2, <1>3, <3>1, <3>2
  <2>. QED
    BY <1>1, <2>1, EventsMove, ArchiveMoves DEF TypeOK, SessionStep, Grown
<1>5. HistoryInv'
  <2>1. \A t \in Threads : DOMAIN history'[t] = 1 .. Len(history'[t])
    BY DEF SessionStep, Grown
  <2>. QED
    BY <2>1 DEF HistoryInv, SessionStep, Grown
<1>6. EventInv'
  <2>1. ~tasked /\ event'["main"] # NoEvent =>
          event'["main"].cutoff + options.min_recent <= Len(history'["main"])
    BY <1>2, <1>3, EventsMove
  <2>2. active = "child" => tasked
    BY <1>1 DEF EventInv
  <2>. QED
    BY <2>1, <2>2, EventsMove DEF EventInv, SessionStep
<1>7. ArchiveInv' /\ ArchivedInOrder' /\ NothingUnarchived'
  BY <1>4, ArchiveMoves DEF ArchiveInv, ArchivedInOrder
<1>. QED
  BY <1>5, <1>6, <1>7 DEF SumInv
-----------------------------------------------------------------------------
(* The actions. *)

LEMMA Bounds ==
  ASSUME SumInv
  PROVE  /\ MaxMessages \in Nat /\ MaxTask \in 1 .. MaxMessages
         /\ Len(history["main"]) \in Nat /\ Len(history["child"]) \in Nat
         /\ active \in {"main", "child"} /\ active \in Threads
         /\ "main" \in Threads /\ "child" \in Threads
         /\ active = "child" \/ pc = "tool" => Len(history["main"]) + 1 <= MaxMessages
         /\ Len(history["main"]) <= MaxMessages
         /\ active = "child" /\ pc = "tool" => Len(history["child"]) + 1 <= MaxTask
         /\ Len(history["child"]) <= MaxTask
         /\ active = "main" => history["child"] = <<>>
         /\ active = "child" => pc # "idle" /\ tasked
<1>1. TypeOK /\ HistoryInv /\ EventInv /\ "main" \in Threads /\ "child" \in Threads
  BY DEF SumInv, ArchivedInOrder, Threads
<1>2. Len(history["main"]) \in Nat /\ Len(history["child"]) \in Nat
  BY <1>1, ThreadFacts
<1>3. MaxMessages \in Nat /\ MaxTask \in 1 .. MaxMessages
  BY BoundsAssumption
<1>4. /\ active = "child" \/ pc = "tool" => Len(history["main"]) + 1 <= MaxMessages
      /\ ~(active = "child" \/ pc = "tool") => Len(history["main"]) + 0 <= MaxMessages
      /\ active = "child" /\ pc = "tool" => Len(history["child"]) + 1 <= MaxTask
      /\ ~(active = "child" /\ pc = "tool") => Len(history["child"]) + 0 <= MaxTask
  BY <1>1 DEF HistoryInv
<1>5. Len(history["main"]) <= MaxMessages /\ Len(history["child"]) <= MaxTask
  BY <1>2, <1>3, <1>4
<1>6. active \in {"main", "child"} /\ active \in Threads
  BY <1>1 DEF TypeOK, Threads
<1>7. /\ active = "main" => history["child"] = <<>>
      /\ active = "child" => pc # "idle" /\ tasked
  BY <1>1 DEF HistoryInv, EventInv
<1>. QED
  BY <1>1, <1>2, <1>3, <1>4, <1>5, <1>6, <1>7

\* A step that says nothing.
LEMMA SilentStep ==
  ASSUME SumInv, UNCHANGED <<options, history, active, tasked>>,
         \/ pc' \in {"asked", "asked_again", pc}
         \/ pc' = "idle" /\ active = "main",
         UNCHANGED <<event, archive, lost>> \/ Hides(active)
  PROVE  SessionStep
<1>1. Grown
  BY SameGrown
<1>2. pc \in {"idle", "ready", "asked", "asked_again", "tool"}
  BY DEF SumInv, ArchivedInOrder, TypeOK
<1>3. pc' \in {"idle", "ready", "asked", "asked_again", "tool"} /\ (pc' = "tool" => pc = "tool")
      /\ (active = "child" => pc' # "idle")
  BY <1>2, Bounds
<1>4. /\ Len(history["main"]) + (IF active = "child" \/ pc' = "tool" THEN 1 ELSE 0)
           <= MaxMessages
      /\ Len(history["child"]) + (IF active = "child" /\ pc' = "tool" THEN 1 ELSE 0)
           <= MaxTask
  <2>1. CASE active = "child"
    <3>1. CASE pc' = "tool"
      BY <1>3, <2>1, <3>1, Bounds
    <3>2. CASE pc' # "tool"
      BY <2>1, <3>2, Bounds
    <3>. QED
      BY <3>1, <3>2
  <2>2. CASE active = "main" /\ pc' = "tool"
    BY <1>3, <2>2, Bounds
  <2>3. CASE active = "main" /\ pc' # "tool"
    BY <2>3, Bounds
  <2>. QED
    BY <2>1, <2>2, <2>3, Bounds
<1>. QED
  BY <1>1, <1>3, <1>4, Bounds DEF SessionStep

\* A step that says m.
LEMMA SpokenStep ==
  ASSUME SumInv, UNCHANGED <<options, active, tasked>>, pc' \in {"ready", "tool"},
         NEW m, SaidBy(active, m), history' = [history EXCEPT ![active] = Append(@, m)],
         Room(IF pc' = "tool" THEN 2 ELSE 1),
         UNCHANGED <<event, archive, lost>> \/ Hides(active)
  PROVE  SessionStep
<1>1. Speaks(active)
  BY DEF Speaks, SaidBy
<1>2. /\ Grown /\ Len(history'[active]) = Len(history[active]) + 1
      /\ \A u \in Threads : u # active => history'[u] = history[u]
  BY <1>1, Bounds, SpeaksGrown
<1>3. Len(history[active]) + (IF pc' = "tool" THEN 2 ELSE 1)
        <= IF active = "main" THEN MaxMessages ELSE MaxTask
  BY DEF Room
<1>4. CASE active = "main"
  <2>1. Len(history["main"]) + (IF pc' = "tool" THEN 2 ELSE 1) <= MaxMessages
    BY <1>3, <1>4
  <2>2. Len(history'["main"]) = Len(history["main"]) + 1 /\ history'["child"] = history["child"]
    BY <1>2, <1>4, Bounds
  <2>3. /\ Len(history'["main"]) + (IF active = "child" \/ pc' = "tool" THEN 1 ELSE 0)
             <= MaxMessages
        /\ Len(history'["child"]) + (IF active = "child" /\ pc' = "tool" THEN 1 ELSE 0)
             <= MaxTask
    <3>1. CASE pc' = "tool"
      BY <1>4, <2>1, <2>2, <3>1, Bounds
    <3>2. CASE pc' # "tool"
      BY <1>4, <2>1, <2>2, <3>2, Bounds
    <3>. QED
      BY <3>1, <3>2
  <2>. QED
    BY <1>2, <1>4, <2>2, <2>3, Bounds DEF SessionStep
<1>5. CASE active = "child"
  <2>1. Len(history["child"]) + (IF pc' = "tool" THEN 2 ELSE 1) <= MaxTask
    BY <1>3, <1>5
  <2>2. Len(history'["child"]) = Len(history["child"]) + 1 /\ history'["main"] = history["main"]
    BY <1>2, <1>5, Bounds
  <2>3. /\ Len(history'["main"]) + (IF active = "child" \/ pc' = "tool" THEN 1 ELSE 0)
             <= MaxMessages
        /\ Len(history'["child"]) + (IF active = "child" /\ pc' = "tool" THEN 1 ELSE 0)
             <= MaxTask
    <3>1. CASE pc' = "tool"
      BY <1>5, <2>1, <2>2, <3>1, Bounds
    <3>2. CASE pc' # "tool"
      BY <1>5, <2>1, <2>2, <3>2, Bounds
    <3>. QED
      BY <3>1, <3>2
  <2>. QED
    BY <1>2, <1>5, <2>3 DEF SessionStep
<1>. QED
  BY <1>4, <1>5, Bounds

\* In the step loop of one thread.
LEMMA LoopStep ==
  ASSUME SumInv,
         \/ UserInput \/ Ask \/ AskAgain \/ AssistantText \/ RunEnds
         \/ ToolCall \/ ToolResult \/ Compact \/ UNCHANGED vars
  PROVE  SessionStep
<1>0. /\ pc = "tool" => Room(1)
      /\ Room(1) => Len(history[active]) < MaxMessages
      /\ Room(2) => Len(history[active]) < MaxMessages
      /\ TrimmedSize \in Nat /\ Sizes \subseteq Nat
  <2>1. pc = "tool" => Room(1)
    BY Bounds DEF Room
  <2>2. /\ Room(1) => Len(history[active]) < MaxMessages
        /\ Room(2) => Len(history[active]) < MaxMessages
    BY Bounds DEF Room
  <2>. QED
    BY <2>1, <2>2, SizesAssumption
<1>1. CASE Ask
  <2>1. SummarizeIf(active, options.enabled /\ ShouldSummarize(Effective(active)))
    BY <1>1 DEF Ask
  <2>2. UNCHANGED <<event, archive, lost>> \/ Hides(active)
    BY <2>1, Bounds, SummarizeHides
  <2>. QED
    BY <1>1, <2>2, SilentStep DEF Ask
<1>2. CASE AskAgain
  <2>1. UNCHANGED <<event, archive, lost>> \/ Hides(active)
    BY <1>2, Bounds, SummarizeHides DEF AskAgain
  <2>. QED
    BY <1>2, <2>1, SilentStep DEF AskAgain
<1>3. CASE RunEnds \/ UNCHANGED vars
  BY <1>3, SilentStep DEF RunEnds, vars
<1>4. CASE AssistantText
  <2>1. PICK m : \E n \in Sizes :
          /\ m = NewMessage(active, "assistant", n)
          /\ history' = [history EXCEPT ![active] = Append(@, m)]
    BY <1>4 DEF AssistantText
  <2>2. SaidBy(active, m)
    BY <1>0, <1>4, <2>1, Bounds, NewMessageFacts DEF AssistantText, Roles
  <2>. QED
    BY <1>4, <2>1, <2>2, SpokenStep DEF AssistantText
<1>5. CASE UserInput
  <2>1. active = "main"
    BY <1>5, Bounds DEF UserInput
  <2>2. PICK m : \E n \in Sizes :
          /\ m = NewMessage(active, "user", n)
          /\ history' = [history EXCEPT ![active] = Append(@, m)]
    BY <1>5, <2>1 DEF UserInput
  <2>3. SaidBy(active, m)
    BY <1>0, <1>5, <2>2, Bounds, NewMessageFacts DEF UserInput, Roles
  <2>. QED
    BY <1>5, <2>2, <2>3, SpokenStep DEF UserInput
<1>6. CASE ToolCall
  <2>1. PICK n \in Sizes : history' = [history EXCEPT ![active] = Calling(active, n)]
    BY <1>6 DEF ToolCall
  <2>2. PICK m : m = [NewMessage(active, "assistant", n) EXCEPT !.trimmed = Min({n, TrimmedSize})]
    OBVIOUS
  <2>3. Min({n, TrimmedSize}) \in Nat
    <3>1. {n, TrimmedSize} \in SUBSET Nat
      BY <1>0
    <3>. QED
      BY <3>1, MinOf
  <2>4. SaidBy(active, m)
    BY <1>0, <1>6, <2>2, <2>3, Bounds, NewMessageFacts DEF ToolCall, Roles
  <2>5. history' = [history EXCEPT ![active] = Append(@, m)]
    BY <2>1, <2>2 DEF Calling
  <2>. QED
    BY <1>6, <2>4, <2>5, SpokenStep DEF ToolCall
<1>7. CASE ToolResult
  <2>1. PICK m : \E n \in Sizes :
          /\ m = NewMessage(active, "tool", n)
          /\ history' = [history EXCEPT ![active] = Append(@, m)]
    BY <1>7 DEF ToolResult, Answered
  <2>2. SaidBy(active, m)
    BY <1>0, <1>7, <2>1, Bounds, NewMessageFacts DEF ToolResult, Roles
  <2>. QED
    BY <1>0, <1>7, <2>1, <2>2, SpokenStep DEF ToolResult
<1>8. CASE Compact
  <2>1. PICK m : \E b \in BOOLEAN, n \in Sizes :
          /\ m = [NewMessage(active, "tool", n) EXCEPT !.marked = b]
          /\ history' = [history EXCEPT ![active] = Append(@, m)]
    <3>. DEFINE b == Chars(Effective(active)) >= options.compact_min /\ CanCut(active)
    <3>1. b \in BOOLEAN
      OBVIOUS
    <3>2. \E n \in Sizes : history' = [history EXCEPT ![active] =
                             Append(@, [NewMessage(active, "tool", n) EXCEPT !.marked = b])]
      BY <1>8 DEF Compact
    <3>. HIDE DEF b
    <3>. QED
      BY <3>1, <3>2
  <2>2. SaidBy(active, m)
    BY <1>0, <1>8, <2>1, Bounds, NewMessageFacts DEF Compact, Roles
  <2>3. UNCHANGED <<event, archive, lost>> \/ Hides(active)
    <3>1. SummarizeIf(active, Chars(Effective(active)) >= options.compact_min)
      BY <1>8 DEF Compact
    <3>. QED
      BY <3>1, Bounds, SummarizeHides
  <2>. QED
    BY <1>0, <1>8, <2>1, <2>2, <2>3, SpokenStep DEF Compact
<1>. QED
  BY <1>1, <1>2, <1>3, <1>4, <1>5, <1>6, <1>7, <1>8
\* A task begins: the subagent's event is its parent's.
LEMMA StartTaskKeeps ==
  ASSUME SumInv, StartTask
  PROVE  SumInv'
<1>1. /\ active = "main" /\ pc = "tool" /\ active' = "child" /\ pc' = "ready"
      /\ tasked' = TRUE /\ event' = [event EXCEPT !["child"] = event["main"]]
      /\ UNCHANGED <<options, archive, lost>>
  BY DEF StartTask, InheritedEvent
<1>2. PICK m : \E n \in Sizes :
        /\ m = NewMessage("child", "user", n)
        /\ history' = [history EXCEPT !["child"] = <<m>>]
  BY DEF StartTask
<1>3. TypeOK /\ HistoryInv /\ EventInv /\ ArchiveInv /\ ArchivedInOrder
  BY DEF SumInv, ArchivedInOrder
<1>4. history \in [Threads -> Seq(Message)] /\ event \in [Threads -> Event]
  BY <1>3 DEF TypeOK
<1>5. m \in Message /\ ~m.summary /\ m.covers = {<<"child", 1>>}
  <2>1. Len(history["child"]) = 0 /\ Len(history["child"]) < MaxMessages
    BY <1>1, Bounds
  <2>2. SaidBy("child", m)
    BY <1>2, <2>1, Bounds, NewMessageFacts DEF Roles
  <2>. QED
    BY <2>1, <2>2 DEF SaidBy
<1>6. /\ history' \in [Threads -> Seq(Message)]
      /\ history'["main"] = history["main"] /\ history'["child"] = <<m>>
  <2>1. <<m>> \in Seq(Message)
    BY <1>5
  <2>. QED
    BY <1>2, <1>4, <2>1, Bounds
<1>7. /\ event' \in [Threads -> Event]
      /\ event'["main"] = event["main"] /\ event'["child"] = event["main"]
  BY <1>1, <1>4, Bounds
<1>8. TypeOK'
  BY <1>1, <1>3, <1>6, <1>7 DEF TypeOK, Threads
<1>9. HistoryInv'
  <2>1. ASSUME NEW t \in Threads, NEW p \in DOMAIN history'[t]
        PROVE  ~history'[t][p].summary /\ history'[t][p].covers = {<<t, p>>}
    <3>1. CASE t = "main"
      BY <1>3, <1>6, <3>1 DEF HistoryInv
    <3>2. CASE t = "child"
      <4>1. p = 1 /\ history'[t][p] = m
        BY <1>6, <3>2
      <4>. QED
        BY <1>5, <3>2, <4>1
    <3>. QED
      BY <3>1, <3>2 DEF Threads
  <2>2. Len(history'["main"]) + 1 <= MaxMessages /\ Len(history'["child"]) + 0 <= MaxTask
    <3>1. Len(history'["child"]) = 1
      BY <1>6
    <3>. QED
      BY <1>1, <1>6, <3>1, Bounds
  <2>. QED
    BY <1>1, <2>1, <2>2 DEF HistoryInv
<1>10. EventInv'
  <2>1. \A t \in Threads : event'[t] = NoEvent \/ event'[t].cutoff > 0
    BY <1>3, <1>7, Bounds DEF EventInv, Threads
  <2>2. event["main"].cutoff <= event["main"].cutoff
    BY Bounds, ThreadFacts
  <2>. QED
    BY <1>1, <1>7, <2>1, <2>2 DEF EventInv
<1>11. ArchiveInv' /\ ArchivedInOrder' /\ NothingUnarchived'
  BY <1>1, <1>3, <1>7, <1>8 DEF ArchiveInv, ArchivedInOrder, NothingUnarchived
<1>. QED
  BY <1>9, <1>10, <1>11 DEF SumInv

\* A task is over: the session goes on with its own event or its subagent's.
LEMMA LeaveChildKeeps ==
  ASSUME SumInv, TaskDone \/ TaskFails
  PROVE  SumInv' /\ event["main"].cutoff <= event'["main"].cutoff
<1>1. /\ active = "child" /\ active' = "main" /\ pc' = "ready" /\ tasked
      /\ UNCHANGED <<options, archive, lost, tasked>>
  BY Bounds DEF TaskDone, TaskFails, LeaveChild
<1>2. PICK m : \E n \in Sizes :
        /\ m = NewMessage("main", "tool", n)
        /\ history' = [history EXCEPT !["main"] = Append(history["main"], m),
                                      !["child"] = <<>>]
  BY DEF TaskDone, TaskFails, LeaveChild, Answered
<1>3. TypeOK /\ HistoryInv /\ EventInv /\ ArchiveInv /\ ArchivedInOrder
  BY DEF SumInv, ArchivedInOrder
<1>4. history \in [Threads -> Seq(Message)] /\ event \in [Threads -> Event]
  BY <1>3 DEF TypeOK
<1>5. m \in Message /\ SaidBy("main", m)
  <2>1. Len(history["main"]) < MaxMessages
    BY <1>1, Bounds
  <2>2. SaidBy("main", m)
    BY <1>2, <2>1, Bounds, NewMessageFacts DEF Roles
  <2>. QED
    BY <2>2 DEF SaidBy
<1>6. PICK h : h = [history EXCEPT !["main"] = Append(@, m)]
  OBVIOUS
<1>7. /\ history' \in [Threads -> Seq(Message)]
      /\ history'["main"] = h["main"] /\ history'["child"] = <<>>
      /\ h["main"] = Append(history["main"], m)
  <2>1. <<>> \in Seq(Message) /\ Append(history["main"], m) \in Seq(Message)
    BY <1>4, <1>5, Bounds, AppendProperties
  <2>. QED
    BY <1>2, <1>4, <1>6, <2>1, Bounds
<1>8. /\ event' \in [Threads -> Event] /\ event'["child"] = NoEvent
      /\ event'["main"] \in {event["main"], event["child"]}
  <2>1. NoEvent \in Event
    BY DEF NoEvent, Event
  <2>. QED
    BY <1>4, <2>1, Bounds DEF TaskDone, TaskFails
<1>9. /\ event["main"].cutoff <= event'["main"].cutoff
      /\ event["main"].cutoff \in Nat /\ event'["main"].cutoff \in Nat
  <2>1. event["main"].cutoff <= event["child"].cutoff
    BY <1>1, <1>3 DEF EventInv
  <2>2. event["main"].cutoff \in Nat /\ event["child"].cutoff \in Nat
    BY Bounds, ThreadFacts
  <2>. QED
    BY <1>8, <2>1, <2>2
<1>10. TypeOK'
  BY <1>1, <1>3, <1>7, <1>8 DEF TypeOK, Threads
<1>11. HistoryInv'
  <2>0. /\ Len(history'["main"]) = Len(history["main"]) + 1
        /\ \A p \in 1 .. Len(history["main"]) : history'["main"][p] = history["main"][p]
        /\ history'["main"][Len(history["main"]) + 1] = m
        /\ DOMAIN history'["main"] = 1 .. Len(history'["main"])
    BY <1>4, <1>5, <1>7, Bounds, AppendProperties
  <2>1. ASSUME NEW t \in Threads, NEW p \in DOMAIN history'[t]
        PROVE  ~history'[t][p].summary /\ history'[t][p].covers = {<<t, p>>}
    <3>1. CASE t = "main"
      <4>1. p \in 1 .. Len(history["main"]) \/ p = Len(history["main"]) + 1
        BY <2>0, <3>1, Bounds
      <4>2. CASE p \in 1 .. Len(history["main"])
        <5>1. p \in DOMAIN history["main"] /\ history'["main"][p] = history["main"][p]
          BY <2>0, <4>2, Bounds, ThreadFacts
        <5>. QED
          BY <1>3, <3>1, <5>1, Bounds DEF HistoryInv
      <4>3. CASE p = Len(history["main"]) + 1
        BY <1>5, <2>0, <3>1, <4>3 DEF SaidBy
      <4>. QED
        BY <4>1, <4>2, <4>3
    <3>2. CASE t = "child"
      BY <1>7, <3>2
    <3>. QED
      BY <3>1, <3>2 DEF Threads
  <2>2. Len(history'["main"]) + 0 <= MaxMessages /\ Len(history'["child"]) + 0 <= MaxTask
    <3>1. Len(history'["child"]) = 0
      BY <1>7
    <3>. QED
      BY <1>1, <2>0, <3>1, Bounds
  <2>. QED
    BY <1>1, <1>7, <2>1, <2>2 DEF HistoryInv
<1>12. EventInv'
  <2>1. \A t \in Threads : event'[t] = NoEvent \/ event'[t].cutoff > 0
    BY <1>3, <1>8, Bounds DEF EventInv, Threads
  <2>. QED
    BY <1>1, <2>1 DEF EventInv
<1>13. ArchiveInv'
  <2>1. ASSUME NEW i \in DOMAIN archive, NEW p \in archive[i]
        PROVE  p <= event'["main"].cutoff
    <3>1. p <= event["main"].cutoff /\ p \in Nat
      BY <1>3 DEF ArchiveInv, TypeOK
    <3>. QED
      BY <1>9, <3>1
  <2>. QED
    BY <1>1, <2>1 DEF ArchiveInv
<1>14. ArchivedInOrder' /\ NothingUnarchived'
  BY <1>1, <1>3, <1>10 DEF ArchivedInOrder, NothingUnarchived
<1>. QED
  BY <1>9, <1>11, <1>12, <1>13, <1>14 DEF SumInv

LEMMA NextKeeps ==
  ASSUME SumInv, [Next]_vars
  PROVE  SumInv' /\ event["main"].cutoff <= event'["main"].cutoff
<1>1. CASE StartTask
  <2>1. event'["main"] = event["main"]
    <3>1. event \in [Threads -> Event]
      BY DEF SumInv, ArchivedInOrder, TypeOK
    <3>. QED
      BY <1>1, <3>1, Bounds DEF StartTask
  <2>2. event["main"].cutoff \in Nat
    BY Bounds, ThreadFacts
  <2>. QED
    BY <1>1, <2>1, <2>2, StartTaskKeeps
<1>2. CASE TaskDone \/ TaskFails
  BY <1>2, LeaveChildKeeps
<1>3. CASE \/ UserInput \/ Ask \/ AskAgain \/ AssistantText \/ RunEnds
           \/ ToolCall \/ ToolResult \/ Compact \/ UNCHANGED vars
  BY <1>3, LoopStep, SessionStepKeeps, EventsMove
<1>. QED
  BY <1>1, <1>2, <1>3 DEF Next

LEMMA InitKeeps ==
  ASSUME Init
  PROVE  SumInv
<1>1. <<>> \in Seq(Message) /\ <<>> \in Seq(SUBSET (1 .. MaxMessages)) /\ Len(<<>>) = 0
  OBVIOUS
<1>2. NoEvent \in Event /\ NoEvent.cutoff = 0
  BY DEF NoEvent, Event
<1>3. TypeOK
  BY <1>1, <1>2 DEF Init, TypeOK, Threads
<1>4. HistoryInv /\ EventInv
  BY <1>1, <1>2, BoundsAssumption DEF Init, HistoryInv, EventInv, Threads
<1>5. ArchiveInv /\ ArchivedInOrder
  BY <1>3 DEF Init, ArchiveInv, ArchivedInOrder
<1>6. NothingUnarchived
  BY <1>2 DEF Init, NothingUnarchived, Threads
<1>. QED
  BY <1>4, <1>5, <1>6 DEF SumInv

LEMMA Inductive == Spec => []SumInv
<1>1. Init => SumInv
  BY InitKeeps
<1>2. SumInv /\ [Next]_vars => SumInv'
  BY NextKeeps
<1>. QED
  BY <1>1, <1>2, PTL DEF Spec
-----------------------------------------------------------------------------
(* What is promised. *)

\* Whatever is summarised, by whom and how often: the archive holds the session's
\* messages in order and none twice, and every state has its type.
THEOREM ArchiveOrdered == Spec => []ArchivedInOrder
<1>1. SumInv => ArchivedInOrder
  BY DEF SumInv
<1>. QED
  BY <1>1, Inductive, PTL

\* What a session without subagents hides from the provider can be read again in
\* the archive, but for what quotes a summary and what could not be written.
THEOREM HiddenIsArchived == Spec => []NothingUnarchived
<1>1. SumInv => NothingUnarchived
  BY DEF SumInv
<1>. QED
  BY <1>1, Inductive, PTL

\* What a session hides stays hidden.
THEOREM HiddenStays == Spec => CutoffNeverBack
<1>1. SumInv /\ [Next]_vars => [event["main"].cutoff <= event'["main"].cutoff]_vars
  BY NextKeeps
<1>. QED
  BY <1>1, Inductive, PTL DEF Spec, CutoffNeverBack

\* The recent messages of a session without subagents are in every request.
THEOREM RecentShown == Spec => []RecentKept
<1>1. ASSUME SumInv PROVE RecentKept
  <2>. DEFINE h == history["main"]
              e == event["main"]
              n == Len(h)
              k == e.cutoff
  <2>. SUFFICES ASSUME ~tasked, NEW p \in 1 .. n, p + options.min_recent > n
                PROVE  \E i \in DOMAIN Request :
                         ~Request[i].summary /\ Request[i].covers = {<<"main", p>>}
    BY DEF RecentKept
  <2>1. Request = View(h, e) /\ "main" \in Threads
    BY <1>1, Bounds DEF Request, Effective
  <2>2. /\ options \in Options /\ Speech(h) /\ n \in Nat /\ e \in Event /\ k \in Nat
        /\ Hidden(e) = k /\ (e # NoEvent => k > 0) /\ DOMAIN h = 1 .. n
        /\ options.min_recent \in Nat
    BY <1>1, <2>1, ThreadFacts, OptionsType
  <2>3. e # NoEvent => k + options.min_recent <= n
    BY <1>1 DEF SumInv, EventInv
  <2>4. h[p].covers = {<<"main", p>>}
    BY <1>1, <2>1, <2>2 DEF SumInv, HistoryInv
  <2>5. e = NoEvent => k = 0
    BY DEF NoEvent
  <2>. HIDE DEF h, e
  <2>6. /\ View(h, e) \in Seq(Message) /\ Own(View(h, e)) \in Seq(Message)
        /\ Len(Own(View(h, e))) = n - k
        /\ \A i \in 1 .. n - k : Own(View(h, e))[i] = Seen(h, k + i)
        /\ e = NoEvent => Own(View(h, e)) = View(h, e)
        /\ e # NoEvent => View(h, e) # <<>> /\ Own(View(h, e)) = Tail(View(h, e))
    <3>1. e = NoEvent \/ e.cutoff \in 1 .. Len(h)
      BY <2>2, <2>3
    <3>. QED
      BY <2>2, <3>1, ViewFacts
  <2>7. PICK v : v = View(h, e)
    OBVIOUS
  <2>. HIDE DEF n, k
  <2>8. p - k \in 1 .. n - k /\ k + (p - k) = p
    BY <2>2, <2>3, <2>5
  <2>9. Own(v)[p - k] = Seen(h, p)
    BY <2>6, <2>7, <2>8
  <2>10. ~Seen(h, p).summary /\ Seen(h, p).covers = {<<"main", p>>}
    BY <2>2, <2>4, SeenFacts DEF n
  <2>11. CASE e = NoEvent
    <3>1. p - k \in DOMAIN v /\ v[p - k] = Seen(h, p)
      BY <2>6, <2>7, <2>8, <2>9, <2>11
    <3>. QED
      BY <2>1, <2>7, <2>10, <3>1
  <2>12. CASE e # NoEvent
    <3>1. v \in Seq(Message) /\ v # <<>> /\ Own(v) = Tail(v) /\ Len(Tail(v)) = n - k
      BY <2>6, <2>7, <2>12
    <3>2. (p - k) + 1 \in DOMAIN v /\ Tail(v)[p - k] = v[(p - k) + 1]
      BY <2>2, <2>8, <3>1
    <3>3. v[(p - k) + 1] = Seen(h, p)
      BY <2>9, <3>1, <3>2
    <3>. QED
      BY <2>1, <2>7, <2>10, <3>2, <3>3
  <2>. QED
    BY <2>11, <2>12
<1>. QED
  BY <1>1, Inductive, PTL

\* What the next state's request shows, once the event is known.
LEMMA FitsAlong ==
  ASSUME UNCHANGED <<options, history, active>>,
         Fits(Own(View(history[active], event'[active])))
  PROVE  Fits(Own(Request))'
<1>1. Request' = View(history[active], event'[active])
  BY DEF Request, Effective, View
<1>2. PICK s : s = Own(View(history[active], event'[active]))
  OBVIOUS
<1>3. Own(Request)' = s
  BY <1>1, <1>2 DEF Own
<1>4. Fits(s)
  BY <1>2
<1>. QED
  BY <1>3, <1>4 DEF Fits, ShouldSummarize

\* A request goes out within the limit, or with no more than the recent messages
\* or a last message over the limit by itself.
THEOREM RequestsFit == Spec => []RequestFits
<1>1. Init => RequestFits
  BY DEF Init, RequestFits, Asked
<1>2. ASSUME SumInv, RequestFits, [Next]_vars PROVE RequestFits'
  <2>1. CASE Ask
    <3>. DEFINE wanted == options.enabled /\ ShouldSummarize(Effective(active))
    <3>1. wanted \in BOOLEAN
      OBVIOUS
    <3>2. SummarizeIf(active, wanted) /\ UNCHANGED <<options, history, active>>
      BY <2>1 DEF Ask
    <3>3. CASE options.enabled
      <4>1. ~wanted => ~ShouldSummarize(Effective(active))
        BY <3>3
      <4>. HIDE DEF wanted
      <4>2. Fits(Own(View(history[active], event'[active])))
        BY <1>2, <3>1, <3>2, <4>1, Bounds, SummarizeFits
      <4>. QED
        BY <3>2, <4>2, FitsAlong DEF RequestFits
    <3>4. CASE ~options.enabled
      BY <3>2, <3>4 DEF RequestFits
    <3>. QED
      BY <3>3, <3>4
  <2>2. CASE AskAgain
    <3>1. SummarizeIf(active, TRUE) /\ UNCHANGED <<options, history, active>>
      BY <2>2 DEF AskAgain
    <3>2. Fits(Own(View(history[active], event'[active])))
      BY <1>2, <3>1, Bounds, SummarizeFits
    <3>. QED
      BY <3>1, <3>2, FitsAlong DEF RequestFits
  <2>3. CASE UNCHANGED vars
    <3>1. UNCHANGED <<options, history, active>> /\ event' = event /\ pc' = pc
      BY <2>3 DEF vars
    <3>2. SUFFICES ASSUME Asked, options.enabled PROVE Fits(Own(Request))'
      BY <3>1 DEF RequestFits, Asked
    <3>3. Fits(Own(Request))
      BY <1>2, <3>2 DEF RequestFits
    <3>4. Fits(Own(View(history[active], event'[active])))
      BY <3>1, <3>3 DEF Request, Effective
    <3>. QED
      BY <3>1, <3>4, FitsAlong
  <2>4. CASE \/ UserInput \/ AssistantText \/ RunEnds \/ ToolCall \/ ToolResult \/ Compact
             \/ StartTask \/ TaskDone \/ TaskFails
    <3>1. pc' \in {"ready", "idle", "tool"}
      BY <2>4 DEF UserInput, AssistantText, RunEnds, ToolCall, ToolResult, Compact,
         StartTask, TaskDone, TaskFails, LeaveChild
    <3>. QED
      BY <3>1 DEF RequestFits, Asked
  <2>. QED
    BY <1>2, <2>1, <2>2, <2>3, <2>4 DEF Next
<1>. QED
  BY <1>1, <1>2, Inductive, PTL DEF Spec
=============================================================================

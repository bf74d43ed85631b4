-------------------------- MODULE MemoryStoreProofs --------------------------
(***************************************************************************)
(* Proofs about MemoryStore, for any processes, keys, sizes, files found   *)
(* and number of commands: the store keeps its capacity and its keys,      *)
(* AGENTS.md follows, success is durable, and commands that follow one     *)
(* another implement MemoryMap.  The first part is about the lists of      *)
(* entries alone.                                                          *)
(***************************************************************************)
EXTENDS MemoryStore, DataInduction, FiniteSetTheorems

-----------------------------------------------------------------------------
(* The bytes of a list. *)

Sized(entries) ==
  /\ Len(entries) \in Nat /\ DOMAIN entries = 1 .. Len(entries)
  /\ \A i \in 1 .. Len(entries) : entries[i].size \in Nat

IsSum(entries, sum) ==
  sum = [n \in 0 .. Len(entries) |-> IF n = 0 THEN 0 ELSE sum[n - 1] + entries[n].size]

LEMMA SumExists ==
  ASSUME NEW entries, Sized(entries) PROVE \E sum : IsSum(entries, sum)
<1>. DEFINE N == Len(entries)
            add == [x \in (1 .. N) \X Nat |-> x[2] + entries[x[1]].size]
<1>1. N \in Nat /\ 0 \in Nat /\ add \in [(1 .. N) \X Nat -> Nat]
  BY DEF Sized
<1>2. PICK f : Iterates(f, N, Nat, 0, add)
  <2>. HIDE DEF N, add
  <2>. QED
    BY <1>1, Recursion
<1>3. ASSUME NEW n \in 1 .. N PROVE f[n] = f[n - 1] + entries[n].size
  <2>1. f[n - 1] \in Nat /\ <<n, f[n - 1]>> \in (1 .. N) \X Nat
    BY <1>1, <1>2 DEF Iterates
  <2>. QED
    BY <1>2, <2>1 DEF Iterates
<1>4. IsSum(entries, f)
  BY <1>1, <1>2, <1>3 DEF IsSum, Iterates
<1>. QED
  BY <1>4

LEMMA BytesNat ==
  ASSUME NEW entries, Sized(entries) PROVE BytesTotal(entries) \in Nat
<1>1. PICK sum : IsSum(entries, sum) /\ BytesTotal(entries) = sum[Len(entries)]
  <2>1. \E sum : IsSum(entries, sum)
    BY SumExists
  <2>2. BytesTotal(entries) = (CHOOSE sum : IsSum(entries, sum))[Len(entries)]
    BY DEF BytesTotal, IsSum
  <2>. QED
    BY <2>1, <2>2
<1>2. \A n \in 0 .. Len(entries) - 1 : sum[n] \in Nat => sum[n + 1] \in Nat
  BY <1>1 DEF IsSum, Sized
<1>3. sum[0] \in Nat /\ Len(entries) \in Nat
  BY <1>1 DEF IsSum, Sized
<1>. DEFINE S == {n \in 0 .. Len(entries) : sum[n] \in Nat}
<1>4. 0 .. Len(entries) \subseteq S
  <2>1. 0 \in S /\ \A n \in 0 .. Len(entries) - 1 : n \in S => n + 1 \in S
    BY <1>2, <1>3
  <2>. HIDE DEF S
  <2>. QED
    BY <1>3, <2>1, InductUpTo
<1>. QED
  BY <1>1, <1>3, <1>4

-----------------------------------------------------------------------------
(* What an eviction takes. *)

\* An entry of a list, with times up to MaxTime.
EntryRecord ==
  [key : Keys, value : 0 .. MaxCommands, size : Sizes,
   created : 0 .. MaxTime, updated : 0 .. MaxTime, accessed : 0 .. MaxTime]

LEMMA EntriesForm ==
  ASSUME NEW entries \in Entries
  PROVE  /\ entries \in Seq(EntryRecord) /\ Sized(entries)
         /\ DOMAIN entries = 1 .. Len(entries) /\ Len(entries) \in Nat
         /\ \A i \in 1 .. Len(entries) :
              /\ entries[i] \in EntryRecord /\ entries[i].size \in Nat
              /\ entries[i].created \in Nat /\ entries[i].updated \in Nat
              /\ entries[i].accessed \in Nat
<1>1. entries \in Seq(EntryRecord)
  BY DEF Entries, EntryRecord
<1>2. \A i \in 1 .. Len(entries) : entries[i] \in EntryRecord
  BY <1>1
<1>3. ASSUME NEW i \in 1 .. Len(entries)
      PROVE  /\ entries[i].size \in Nat /\ entries[i].created \in Nat
             /\ entries[i].updated \in Nat /\ entries[i].accessed \in Nat
  <2>1. /\ entries[i].size \in Sizes /\ entries[i].created \in 0 .. MaxTime
        /\ entries[i].updated \in 0 .. MaxTime /\ entries[i].accessed \in 0 .. MaxTime
    BY <1>2 DEF EntryRecord
  <2>2. entries[i].size \in Nat
    BY <2>1, BoundsAssumption
  <2>3. \A x \in 0 .. MaxTime : x \in Nat
    BY BoundsAssumption
  <2>. QED
    BY <2>1, <2>2, <2>3
<1>. QED
  BY <1>1, <1>2, <1>3 DEF Sized

\* Whatever is in question of the entries, one of them is the oldest.
LEMMA OldestIn ==
  ASSUME NEW entries, NEW among, among \in SUBSET Nat, among # {}, NEW stamp,
         \A i \in among : entries[i][stamp] \in Nat
  PROVE  /\ Oldest(entries, among, stamp) \in among
         /\ \A j \in among \ {Oldest(entries, among, stamp)} :
              \/ entries[Oldest(entries, among, stamp)][stamp] < entries[j][stamp]
              \/ /\ entries[Oldest(entries, among, stamp)][stamp] = entries[j][stamp]
                 /\ Oldest(entries, among, stamp) < j
<1>. DEFINE times == {entries[i][stamp] : i \in among}
<1>1. PICK t \in times : \A u \in times : t <= u
  <2>1. times \in SUBSET Nat /\ times # {}
    OBVIOUS
  <2>. HIDE DEF times
  <2>. QED
    BY <2>1, LeastNumber
<1>. DEFINE first == {i \in among : entries[i][stamp] = t}
<1>2. PICK i \in first : \A j \in first : i <= j
  <2>1. first \in SUBSET Nat /\ first # {}
    BY <1>1
  <2>. HIDE DEF first
  <2>. QED
    BY <2>1, LeastNumber
<1>3. ASSUME NEW j \in among \ {i}
      PROVE  \/ entries[i][stamp] < entries[j][stamp]
             \/ entries[i][stamp] = entries[j][stamp] /\ i < j
  <2>1. t <= entries[j][stamp] /\ entries[i][stamp] = t
    BY <1>1, <1>2
  <2>2. CASE entries[j][stamp] = t
    <3>1. j \in first
      BY <2>2
    <3>2. i <= j /\ i \in Nat /\ j \in Nat
      BY <1>2, <3>1
    <3>. QED
      BY <2>1, <2>2, <3>2
  <2>3. CASE entries[j][stamp] # t
    <3>1. t \in Nat /\ entries[j][stamp] \in Nat
      BY <1>1
    <3>. QED
      BY <2>1, <2>3, <3>1
  <2>. QED
    BY <2>2, <2>3
<1>4. i \in among
  BY <1>2
<1>. QED
  BY <1>3, <1>4 DEF Oldest

LEMMA VictimIn ==
  ASSUME NEW entries \in Entries, entries # <<>>, NEW policy \in Policies, NEW t \in Nat
  PROVE  Victim(entries, policy, t) \in DOMAIN entries
<1>. DEFINE expired == {i \in DOMAIN entries : entries[i].updated =< t - policy.ttl}
<1>1. /\ DOMAIN entries \in SUBSET Nat /\ DOMAIN entries # {} /\ 1 \in DOMAIN entries
      /\ \A i \in DOMAIN entries :
           /\ entries[i]["created"] \in Nat /\ entries[i]["updated"] \in Nat
           /\ entries[i]["accessed"] \in Nat
  BY EntriesForm
<1>2. Oldest(entries, DOMAIN entries, "created") \in DOMAIN entries
  BY <1>1, OldestIn
<1>3. Oldest(entries, DOMAIN entries, "accessed") \in DOMAIN entries
  BY <1>1, OldestIn
<1>4. expired # {} => Oldest(entries, expired, "updated") \in DOMAIN entries
  <2>1. expired \in SUBSET Nat /\ expired \subseteq DOMAIN entries
    BY <1>1
  <2>. HIDE DEF expired
  <2>. QED
    BY <1>1, <2>1, OldestIn
<1>5. policy.eviction \in {"fifo", "lru", "ttl"}
  BY DEF Policies
<1>. QED
  BY <1>1, <1>2, <1>3, <1>4, <1>5 DEF Victim

LEMMA ConcatRight ==
  ASSUME NEW R, NEW s \in Seq(R), NEW u \in Seq(R), NEW j \in Len(s) + 1 .. Len(s) + Len(u)
  PROVE  (s \o u)[j] = u[j - Len(s)]
OBVIOUS

LEMMA Removal ==
  ASSUME NEW entries \in Entries, NEW i \in DOMAIN entries
  PROVE  /\ RemoveAt(entries, i) \in Entries
         /\ Len(RemoveAt(entries, i)) = Len(entries) - 1
         /\ \A j \in 1 .. Len(entries) - 1 :
              RemoveAt(entries, i)[j] = IF j < i THEN entries[j] ELSE entries[j + 1]
<1>. DEFINE before == SubSeq(entries, 1, i - 1)
            after == SubSeq(entries, i + 1, Len(entries))
<1>1. /\ entries \in Seq(EntryRecord) /\ Len(entries) \in Nat /\ i \in 1 .. Len(entries)
  BY EntriesForm
<1>2. /\ before \in Seq(EntryRecord) /\ Len(before) = i - 1
      /\ \A j \in 1 .. i - 1 : before[j] = entries[j]
  BY <1>1
<1>3. /\ after \in Seq(EntryRecord) /\ Len(after) = Len(entries) - i
      /\ \A j \in 1 .. Len(entries) - i : after[j] = entries[i + j]
  BY <1>1
<1>4. RemoveAt(entries, i) = before \o after
  BY DEF RemoveAt
<1>. HIDE DEF before, after
<1>5. before \o after \in Seq(EntryRecord) /\ Len(before \o after) = Len(entries) - 1
  BY <1>1, <1>2, <1>3
<1>6. ASSUME NEW j \in 1 .. Len(entries) - 1
      PROVE  (before \o after)[j] = IF j < i THEN entries[j] ELSE entries[j + 1]
  <2>1. CASE j < i
    BY <1>1, <1>2, <1>3, <2>1
  <2>2. CASE ~(j < i)
    <3>1. j - (i - 1) \in 1 .. Len(entries) - i /\ i + (j - (i - 1)) = j + 1
      BY <1>1, <2>2
    <3>2. (before \o after)[j] = after[j - (i - 1)]
      <4>1. j \in Len(before) + 1 .. Len(before) + Len(after) /\ Len(before) = i - 1
        BY <1>1, <1>2, <1>3, <2>2
      <4>2. before \in Seq(EntryRecord) /\ after \in Seq(EntryRecord)
        BY <1>2, <1>3
      <4>. QED
        BY <4>1, <4>2, ConcatRight
    <3>3. after[j - (i - 1)] = entries[i + (j - (i - 1))]
      BY <1>3, <3>1
    <3>. QED
      BY <2>2, <3>1, <3>2, <3>3
  <2>. QED
    BY <2>1, <2>2
<1>. QED
  BY <1>4, <1>5, <1>6 DEF Entries, EntryRecord

LEMMA RemovalDistinct ==
  ASSUME NEW entries \in Lists, NEW i \in DOMAIN entries
  PROVE  RemoveAt(entries, i) \in Lists
<1>. DEFINE rest == RemoveAt(entries, i)
<1>1. /\ entries \in Entries /\ Distinct(entries) /\ DOMAIN entries = 1 .. Len(entries)
      /\ Len(entries) \in Nat
  BY EntriesForm DEF Lists
<1>2. /\ rest \in Entries /\ Len(rest) = Len(entries) - 1 /\ DOMAIN rest = 1 .. Len(rest)
      /\ \A j \in 1 .. Len(entries) - 1 : rest[j] = IF j < i THEN entries[j] ELSE entries[j + 1]
  <2>1. /\ rest \in Entries /\ Len(rest) = Len(entries) - 1
        /\ \A j \in 1 .. Len(entries) - 1 : rest[j] = IF j < i THEN entries[j] ELSE entries[j + 1]
    BY <1>1, Removal
  <2>. QED
    BY <2>1, EntriesForm
<1>. HIDE DEF rest
<1>3. ASSUME NEW j \in DOMAIN rest
      PROVE  LET at(n) == IF n < i THEN n ELSE n + 1
             IN  at(j) \in DOMAIN entries /\ rest[j] = entries[at(j)]
  BY <1>1, <1>2
<1>4. Distinct(rest)
  <2>. DEFINE at(n) == IF n < i THEN n ELSE n + 1
  <2>1. ASSUME NEW j \in DOMAIN rest, NEW k \in DOMAIN rest, rest[j].key = rest[k].key
        PROVE  j = k
    <3>1. at(j) = at(k)
      <4>. HIDE DEF at
      <4>. QED
        BY <1>1, <1>3, <2>1 DEF Distinct, at
    <3>2. j \in Int /\ k \in Int /\ i \in Int
      BY <1>1, <1>2
    <3>. QED
      BY <3>1, <3>2
  <2>. QED
    BY <2>1 DEF Distinct
<1>. QED
  BY <1>2, <1>4 DEF Lists, rest

-----------------------------------------------------------------------------
(* The loop of an eviction. *)

LEMMA EmptyUnder == ASSUME NEW policy \in Policies PROVE ~Over(<<>>, policy)
<1>1. policy.max_entries \in Nat /\ Len(<<>>) = 0
  BY DEF Policies
<1>. QED
  BY <1>1 DEF Over

\* One turn of the loop.
Turned(entries, policy, t) ==
  IF Over(entries, policy) THEN RemoveAt(entries, Victim(entries, policy, t)) ELSE entries

LEMMA TurnedIn ==
  ASSUME NEW entries \in Lists, NEW policy \in Policies, NEW t \in Nat
  PROVE  /\ Turned(entries, policy, t) \in Lists
         /\ Over(entries, policy) =>
              /\ Victim(entries, policy, t) \in DOMAIN entries
              /\ Len(Turned(entries, policy, t)) = Len(entries) - 1
<1>1. entries \in Entries
  BY DEF Lists
<1>2. CASE Over(entries, policy)
  <2>1. entries # <<>>
    BY <1>2, EmptyUnder
  <2>2. Victim(entries, policy, t) \in DOMAIN entries
    BY <1>1, <2>1, VictimIn
  <2>. QED
    BY <1>1, <1>2, <2>2, Removal, RemovalDistinct DEF Turned
<1>3. CASE ~Over(entries, policy)
  BY <1>3 DEF Turned
<1>. QED
  BY <1>2, <1>3

Turns(entries, policy, t, turn) ==
  turn = [n \in 0 .. Len(entries) |->
            IF n = 0 THEN entries
            ELSE IF Over(turn[n - 1], policy)
                 THEN RemoveAt(turn[n - 1], Victim(turn[n - 1], policy, t))
                 ELSE turn[n - 1]]

\* The loop as the values its turns lead to.
LEMMA EvictedTurns ==
  ASSUME NEW entries \in Lists, NEW policy \in Policies, NEW t \in Nat
  PROVE  \E turn :
           /\ Evicted(entries, policy, t) = turn[Len(entries)] /\ turn[0] = entries
           /\ \A n \in 0 .. Len(entries) - 1 : turn[n + 1] = Turned(turn[n], policy, t)
<1>. DEFINE N == Len(entries)
            step == [x \in (1 .. N) \X Lists |-> Turned(x[2], policy, t)]
<1>0. N \in Nat
  BY EntriesForm DEF Lists
<1>1. \E turn : Turns(entries, policy, t, turn)
  <2>1. step \in [(1 .. N) \X Lists -> Lists]
    BY TurnedIn
  <2>2. PICK f : Iterates(f, N, Lists, entries, step)
    <3>. HIDE DEF N, step
    <3>. QED
      BY <1>0, <2>1, Recursion
  <2>3. ASSUME NEW n \in 1 .. N PROVE f[n] = Turned(f[n - 1], policy, t)
    <3>1. f[n - 1] \in Lists /\ <<n, f[n - 1]>> \in (1 .. N) \X Lists
      BY <1>0, <2>2 DEF Iterates
    <3>. QED
      BY <2>2, <3>1 DEF Iterates
  <2>4. Turns(entries, policy, t, f)
    BY <1>0, <2>2, <2>3 DEF Turns, Turned, Iterates
  <2>. QED
    BY <2>4
<1>2. Evicted(entries, policy, t) = (CHOOSE turn : Turns(entries, policy, t, turn))[N]
  BY DEF Evicted, Turns
<1>3. PICK turn : Turns(entries, policy, t, turn) /\ Evicted(entries, policy, t) = turn[N]
  BY <1>1, <1>2
<1>4. turn[0] = entries
  BY <1>0, <1>3 DEF Turns
<1>5. ASSUME NEW n \in 0 .. N - 1 PROVE turn[n + 1] = Turned(turn[n], policy, t)
  <2>1. n + 1 \in 0 .. N /\ n + 1 # 0 /\ (n + 1) - 1 = n
    BY <1>0
  <2>. QED
    BY <1>3, <2>1 DEF Turns, Turned
<1>. QED
  BY <1>3, <1>4, <1>5

\* An eviction brings any list under its policy.
LEMMA EvictedTidy ==
  ASSUME NEW entries \in Lists, NEW policy \in Policies, NEW t \in Nat
  PROVE  /\ Evicted(entries, policy, t) \in Lists
         /\ ~Over(Evicted(entries, policy, t), policy)
<1>. DEFINE N == Len(entries)
<1>0. N \in Nat
  BY EntriesForm DEF Lists
<1>1. PICK turn :
        /\ Evicted(entries, policy, t) = turn[N] /\ turn[0] = entries
        /\ \A n \in 0 .. N - 1 : turn[n + 1] = Turned(turn[n], policy, t)
  BY EvictedTurns
<1>. DEFINE S == {n \in 0 .. N : /\ turn[n] \in Lists
                                 /\ ~Over(turn[n], policy) \/ Len(turn[n]) = N - n}
<1>2. 0 \in S
  BY <1>0, <1>1
<1>3. ASSUME NEW n \in 0 .. N - 1, n \in S PROVE n + 1 \in S
  <2>1. turn[n] \in Lists /\ turn[n + 1] = Turned(turn[n], policy, t)
    BY <1>1, <1>3
  <2>2. turn[n + 1] \in Lists /\ n + 1 \in 0 .. N
    BY <1>0, <2>1, TurnedIn
  <2>3. CASE Over(turn[n], policy)
    <3>1. Len(turn[n]) = N - n /\ Len(turn[n + 1]) = Len(turn[n]) - 1
      BY <1>3, <2>1, <2>3, TurnedIn
    <3>. QED
      BY <1>0, <2>2, <3>1
  <2>4. CASE ~Over(turn[n], policy)
    BY <2>1, <2>2, <2>4 DEF Turned
  <2>. QED
    BY <2>3, <2>4
<1>4. N \in S
  <2>. HIDE DEF S, N
  <2>. QED
    BY <1>0, <1>2, <1>3, InductUpTo
<1>5. turn[N] \in Lists /\ (~Over(turn[N], policy) \/ Len(turn[N]) = 0)
  BY <1>0, <1>4
<1>6. Len(turn[N]) = 0 => turn[N] = <<>>
  BY <1>5, EntriesForm DEF Lists
<1>. QED
  BY <1>1, <1>5, <1>6, EmptyUnder

\* A second eviction finds nothing to do.
LEMMA EvictedAgain ==
  ASSUME NEW entries \in Lists, NEW policy \in Policies, NEW t \in Nat, ~Over(entries, policy)
  PROVE  Evicted(entries, policy, t) = entries
<1>. DEFINE N == Len(entries)
<1>0. N \in Nat
  BY EntriesForm DEF Lists
<1>1. PICK turn :
        /\ Evicted(entries, policy, t) = turn[N] /\ turn[0] = entries
        /\ \A n \in 0 .. N - 1 : turn[n + 1] = Turned(turn[n], policy, t)
  BY EvictedTurns
<1>. DEFINE S == {n \in 0 .. N : turn[n] = entries}
<1>2. 0 \in S /\ \A n \in 0 .. N - 1 : n \in S => n + 1 \in S
  BY <1>0, <1>1 DEF Turned
<1>3. N \in S
  <2>. HIDE DEF S, N
  <2>. QED
    BY <1>0, <1>2, InductUpTo
<1>. QED
  BY <1>1, <1>3

-----------------------------------------------------------------------------
(* An upsert. *)

LEMMA UpsertForm ==
  ASSUME NEW entries \in Lists, NEW key, NEW value, NEW size, NEW t
  PROVE  \/ /\ key \notin KeysOf(entries)
            /\ Upsert(entries, key, value, size, t) = Append(entries, Entry(key, value, size, t))
         \/ \E i \in 1 .. Len(entries) :
              /\ entries[i].key = key
              /\ Upsert(entries, key, value, size, t) =
                   [entries EXCEPT ![i] =
                      [Entry(key, value, size, t) EXCEPT !.created = entries[i].created]]
<1>. DEFINE I == {i \in 1 .. Len(entries) : entries[i].key = key}
<1>1. CASE key \notin KeysOf(entries)
  BY <1>1 DEF Upsert
<1>2. CASE key \in KeysOf(entries)
  <2>1. I # {} /\ I \in SUBSET Nat
    <3>1. DOMAIN entries = 1 .. Len(entries) /\ Len(entries) \in Nat
      BY EntriesForm DEF Lists
    <3>2. \E i \in DOMAIN entries : entries[i].key = key
      BY <1>2 DEF KeysOf
    <3>. QED
      BY <3>1, <3>2
  <2>2. \E n \in I : \A m \in I : n =< m
    <3>. HIDE DEF I
    <3>. QED
      BY <2>1, LeastNumber
  <2>3. Min(I) \in I
    BY <2>2 DEF Min
  <2>4. SelectInSeq(entries, LAMBDA e : e.key = key) = Min(I)
    BY <2>1 DEF SelectInSeq
  <2>5. Upsert(entries, key, value, size, t) =
          [entries EXCEPT ![Min(I)] =
             [Entry(key, value, size, t) EXCEPT !.created = entries[Min(I)].created]]
    BY <1>2, <2>4 DEF Upsert
  <2>. QED
    BY <2>3, <2>5
<1>. QED
  BY <1>1, <1>2

LEMMA UpsertIn ==
  ASSUME NEW entries \in Lists, NEW key \in Keys, NEW value \in 0 .. MaxCommands,
         NEW size \in Sizes, NEW t \in 0 .. MaxTime
  PROVE  Upsert(entries, key, value, size, t) \in Lists
<1>. DEFINE new == Entry(key, value, size, t)
<1>0. /\ entries \in Seq(EntryRecord) /\ Distinct(entries) /\ new \in EntryRecord
      /\ DOMAIN entries = 1 .. Len(entries) /\ Len(entries) \in Nat
      /\ new.key = key
  BY EntriesForm DEF Lists, Entry, EntryRecord
<1>1. CASE /\ key \notin KeysOf(entries)
           /\ Upsert(entries, key, value, size, t) = Append(entries, new)
  <2>1. \A i \in DOMAIN entries : entries[i].key # key
    BY <1>1 DEF KeysOf
  <2>2. Append(entries, new) \in Seq(EntryRecord) /\ Distinct(Append(entries, new))
    <3>. HIDE DEF new
    <3>. QED
      BY <1>0, <2>1 DEF Distinct
  <2>. QED
    BY <1>1, <2>2 DEF Lists, Entries, EntryRecord
<1>2. ASSUME NEW i \in 1 .. Len(entries), entries[i].key = key,
             Upsert(entries, key, value, size, t) =
               [entries EXCEPT ![i] = [new EXCEPT !.created = entries[i].created]]
      PROVE  Upsert(entries, key, value, size, t) \in Lists
  <2>. DEFINE put == [new EXCEPT !.created = entries[i].created]
  <2>1. put \in EntryRecord /\ put.key = key
    <3>. HIDE DEF new
    <3>1. entries[i] \in EntryRecord
      BY <1>0
    <3>. QED
      BY <1>0, <3>1 DEF EntryRecord
  <2>2. [entries EXCEPT ![i] = put] \in Seq(EntryRecord) /\ Distinct([entries EXCEPT ![i] = put])
    <3>. HIDE DEF put
    <3>. QED
      BY <1>0, <1>2, <2>1 DEF Distinct
  <2>. QED
    BY <1>2, <2>2 DEF Lists, Entries, EntryRecord
<1>. QED
  BY <1>1, <1>2, UpsertForm

-----------------------------------------------------------------------------
(* The texts of the files. *)

LEMMA StoreFields ==
  ASSUME NEW policy, NEW entries
  PROVE  /\ Store(policy, entries).is = "store"
         /\ Store(policy, entries).policy = policy
         /\ Store(policy, entries).entries = entries
         /\ Store(policy, entries) \notin NoText
         /\ StoreIn(Store(policy, entries)) = Store(policy, entries)
         /\ Store(policy, entries) # Torn
<1>1. Store(policy, entries).is = "store"
  BY DEF Store
<1>2. Absent.is = "absent" /\ Empty.is = "empty" /\ Torn.is = "torn"
  BY DEF Absent, Empty, Torn
<1>. QED
  BY <1>1, <1>2 DEF Store, NoText, StoreIn

LEMMA NoTextFields ==
  ASSUME NEW f \in NoText
  PROVE  /\ f.is \in {"absent", "empty", "torn"} /\ Size(f) = 0
         /\ f.is = "absent" <=> f = Absent
<1>1. Absent.is = "absent" /\ Empty.is = "empty" /\ Torn.is = "torn"
  BY DEF Absent, Empty, Torn
<1>2. f = Absent \/ f = Empty \/ f = Torn
  BY DEF NoText
<1>. QED
  BY <1>1, <1>2 DEF Size

LEMMA TidyText ==
  ASSUME NEW policy \in Policies, NEW entries \in Lists
  PROVE  /\ Store(policy, entries) \in StoreTexts
         /\ ~Over(entries, policy) => Tidy(Store(policy, entries))
<1>1. Store(policy, entries) \in StoreTexts
  BY DEF Store, StoreTexts
<1>. QED
  BY <1>1, StoreFields DEF Tidy

LEMMA RenderingText ==
  ASSUME NEW entries \in Lists PROVE Rendering(entries) \in AgentsTexts
<1>. DEFINE shown == [i \in DOMAIN entries |->
               [key |-> entries[i].key, value |-> entries[i].value, size |-> entries[i].size]]
            Shown == [key : Keys, value : 0 .. MaxCommands, size : Sizes]
<1>1. /\ Len(entries) \in Nat /\ DOMAIN entries = 1 .. Len(entries)
      /\ \A i \in 1 .. Len(entries) : entries[i] \in EntryRecord
  BY EntriesForm DEF Lists
<1>2. \A i \in 1 .. Len(entries) : shown[i] \in Shown
  BY <1>1 DEF EntryRecord
<1>3. shown \in Seq(Shown)
  <2>. HIDE DEF Shown
  <2>. QED
    BY <1>1, <1>2
<1>4. Rendering(entries) = [is |-> "agents", entries |-> shown]
  BY DEF Rendering
<1>. HIDE DEF shown
<1>. QED
  BY <1>3, <1>4 DEF AgentsTexts

LEMMA OverlayEither ==
  ASSUME NEW old, NEW new
  PROVE  Overlay(old, new) \in {new, Torn} /\ Overlay(old, Torn) = Torn
BY DEF Overlay

\* A text written into an empty file is there as a whole.
LEMMA OverlayEmpty ==
  ASSUME NEW p \in Procs, mem[p] \in [policy : Policies, entries : Lists]
  PROVE  Overlay(Empty, Text(p)) = Text(p)
<1>1. Empty.is # "torn" /\ Size(Empty) = 0
  BY DEF Empty, Size
<1>. DEFINE entries == mem[p].entries
<1>2. entries \in Entries
  BY DEF Lists
<1>3. BytesTotal(entries) \in Nat
  BY <1>2, EntriesForm, BytesNat
<1>4. BytesTotal(Rendering(entries).entries) \in Nat
  <2>. DEFINE shown == [i \in DOMAIN entries |->
                 [key |-> entries[i].key, value |-> entries[i].value, size |-> entries[i].size]]
  <2>1. Rendering(entries).entries = shown
    BY DEF Rendering
  <2>2. Sized(shown)
    <3>1. /\ DOMAIN entries = 1 .. Len(entries) /\ Len(entries) \in Nat
          /\ \A i \in 1 .. Len(entries) : entries[i].size \in Nat
      BY <1>2, EntriesForm
    <3>2. /\ Len(shown) = Len(entries) /\ DOMAIN shown = 1 .. Len(entries)
          /\ \A i \in 1 .. Len(entries) : shown[i].size = entries[i].size
      BY <3>1
    <3>. QED
      BY <3>1, <3>2 DEF Sized
  <2>. QED
    BY <2>1, <2>2, BytesNat
<1>5. Size(Text(p)) \in Nat
  <2>1. CASE target[p] = "store"
    BY <1>3, <2>1, StoreFields DEF Text, Size
  <2>2. CASE target[p] # "store"
    <3>1. Rendering(entries).is = "agents"
      BY DEF Rendering
    <3>. QED
      BY <1>4, <2>2, <3>1 DEF Text, Size
  <2>. QED
    BY <2>1, <2>2
<1>. QED
  BY <1>1, <1>5 DEF Overlay

LEMMA TextIs ==
  ASSUME NEW p \in Procs, target[p] \in Names
  PROVE  Text(p).is = target[p]
BY StoreFields DEF Text, Names, Rendering

LEMMA TextIn ==
  ASSUME NEW p \in Procs, mem[p] \in [policy : Policies, entries : Lists], target[p] \in Names
  PROVE  /\ Text(p) \in Texts /\ Text(p).is = target[p]
         /\ target[p] = "store" => Text(p) = Store(mem[p].policy, mem[p].entries)
         /\ target[p] = "agents" => Text(p) = Rendering(mem[p].entries)
BY TidyText, RenderingText, TextIs DEF Text, Texts, Names

\* What a write may do to the files.
LEMMA WriteEffect ==
  ASSUME FilesInv, NEW p \in Procs, target[p] \in Names, NEW new \in Texts, WriteTo(p, new)
  PROVE  /\ file' \in [Names -> Texts] /\ tmp' \in [Names -> Texts]
         /\ \A n \in Names : file'[n] = file[n] \/ (n = target[p] /\ file'[n] \in {new, Torn})
         /\ \A n \in Names : tmp'[n] = tmp[n] \/ (n = target[p] /\ tmp'[n] \in {new, Torn})
         /\ fd[p] # "file" => file' = file
         /\ fd[p] = "tmp" => tmp'[target[p]] = Overlay(tmp[target[p]], new)
<1>1. \A old : Overlay(old, new) \in {new, Torn} /\ Overlay(old, new) \in Texts
  BY OverlayEither DEF Texts, NoText
<1>2. file \in [Names -> Texts] /\ tmp \in [Names -> Texts]
  BY DEF FilesInv
<1>. DEFINE n == target[p]
<1>3. CASE fd[p] = "tmp"
  <2>1. tmp' = [tmp EXCEPT ![n] = Overlay(tmp[n], new)] /\ file' = file
    BY <1>3 DEF WriteTo
  <2>. QED
    BY <1>1, <1>2, <1>3, <2>1
<1>4. CASE fd[p] = "file"
  <2>1. file' = [file EXCEPT ![n] = Overlay(file[n], new)] /\ tmp' = tmp
    BY <1>4 DEF WriteTo
  <2>. QED
    BY <1>1, <1>2, <1>4, <2>1
<1>5. CASE fd[p] \notin {"tmp", "file"}
  BY <1>2, <1>5 DEF WriteTo
<1>. QED
  BY <1>3, <1>4, <1>5

LEMMA CutEffect ==
  ASSUME FilesInv, NEW p \in Procs, target[p] \in Names, CutShort(p)
  PROVE  /\ file' \in [Names -> Texts] /\ tmp' \in [Names -> Texts]
         /\ \A n \in Names : file'[n] = file[n] \/ (n = target[p] /\ file'[n] = Torn)
         /\ \A n \in Names : tmp'[n] = tmp[n] \/ (n = target[p] /\ tmp'[n] = Torn)
         /\ fd[p] # "file" => file' = file
<1>0. file \in [Names -> Texts] /\ tmp \in [Names -> Texts]
  BY DEF FilesInv
<1>1. CASE UNCHANGED <<file, tmp>>
  <2>1. file' = file /\ tmp' = tmp
    BY <1>1
  <2>. QED
    BY <1>0, <2>1
<1>2. CASE WriteTo(p, Torn)
  <2>1. Torn \in Texts
    BY DEF Texts, NoText
  <2>. QED
    BY <1>2, <2>1, WriteEffect
<1>. QED
  BY <1>1, <1>2 DEF CutShort

-----------------------------------------------------------------------------
(* Types, the copies of the processes, and the capacity of the store. *)

Kinds ==
  /\ \A n \in Names : file[n] \in NoText \/ file[n].is = n
  /\ \A n \in Names : tmp[n] \in NoText \/ tmp[n].is = n

Controls ==
  /\ pc \in [Procs -> {"off", "load", "work", "open", "write", "rename"}]
  /\ target \in [Procs -> Names]
  /\ fd \in [Procs -> {"none", "tmp", "file", "gone"}]
  /\ status \in [Procs -> {"none", "ok", "corrupt", "io_error", "crashed"}]
  /\ now \in 0 .. MaxTime
  /\ commands \in 0 .. MaxCommands
  /\ shared \in BOOLEAN
  /\ behind \in BOOLEAN
  /\ \A p \in Procs : fd[p] # "none" <=> pc[p] = "write"

LEMMA TypeParts == Kinds /\ Controls /\ CopiesInv => TypeOK
<1> SUFFICES ASSUME Kinds, Controls, CopiesInv PROVE TypeOK
  OBVIOUS
<1>1. \A p \in Procs : cmd[p] \in Commands \cup {NoCmd} /\ mem[p].entries \in Entries
  BY DEF CopiesInv, Lists
<1>. QED
  BY <1>1 DEF TypeOK, Kinds, Controls

TypeInv == Kinds /\ Controls /\ CopiesInv /\ FilesInv

LEMMA TypesInit == Init => TypeInv
<1> SUFFICES ASSUME Init PROVE TypeInv
  OBVIOUS
<1>1. PICK f \in InitialFiles :
        file = [n \in Names |-> IF n = "store" THEN f
                                ELSE IF f.is = "store" THEN Rendering(f.entries)
                                ELSE Absent]
  BY DEF Init
<1>2. /\ f \in NoText \/ f \in StoreTexts
      /\ f \in NoText => f.is # "store"
      /\ f \in StoreTexts => f.is = "store" /\ f.policy \in Policies /\ f.entries \in Lists
  <2>1. CASE f \in {Absent, Empty, Torn}
    <3>1. f \in NoText
      BY <2>1 DEF NoText
    <3>. QED
      BY <3>1, NoTextFields DEF StoreTexts
  <2>2. CASE /\ f = Store(f.policy, f.entries)
             /\ f.policy \in Policies /\ f.entries \in Entries /\ Distinct(f.entries)
    <3>1. f.policy \in Policies /\ f.entries \in Lists
      BY <2>2 DEF Lists
    <3>. QED
      BY <2>2, <3>1, TidyText, StoreFields
  <2>. QED
    BY <2>1, <2>2, FilesAssumption
<1>3. file["store"] = f
  BY <1>1 DEF Names
<1>4. file["agents"] = IF f.is = "store" THEN Rendering(f.entries) ELSE Absent
  BY <1>1 DEF Names
<1>5. Absent \in NoText /\ Rendering(f.entries).is = "agents"
  BY DEF NoText, Rendering
<1>6. FilesInv
  <2>1. f \in Texts
    BY <1>2 DEF Texts
  <2>2. file["agents"] \in Texts
    BY <1>2, <1>4, <1>5, RenderingText DEF Texts
  <2>3. file \in [Names -> Texts]
    BY <1>1, <1>3, <2>1, <2>2 DEF Names
  <2>4. tmp \in [Names -> Texts] /\ tmp["store"] \in NoText
    BY <1>5 DEF Init, Texts, Names
  <2>. QED
    BY <1>3, <2>3, <2>4 DEF FilesInv
<1>7. Kinds
  BY <1>2, <1>3, <1>4, <1>5 DEF Kinds, Names, Init
<1>8. Controls
  <2>1. 0 \in 0 .. MaxTime /\ 0 \in 0 .. MaxCommands
    BY BoundsAssumption
  <2>. QED
    BY <2>1 DEF Controls, Init, Names
<1>9. CopiesInv
  <2>1. <<>> \in Lists
    BY DEF Lists, Entries, Distinct
  <2>2. NoStore \in [policy : Policies, entries : Lists]
    BY <2>1, FilesAssumption DEF NoStore
  <2>3. NoCmd.op = "none"
    BY DEF NoCmd
  <2>. QED
    BY <2>2, <2>3 DEF CopiesInv, Init, Writing
<1>. QED
  BY <1>6, <1>7, <1>8, <1>9 DEF TypeInv

\* A store that can be read has a policy and a list.
LEMMA StoreRead ==
  ASSUME FilesInv, Kinds, NEW n \in Names
  PROVE  /\ file["store"] \in NoText \/ file["store"] \in StoreTexts
         /\ tmp["store"] \in NoText \/ tmp["store"] \in StoreTexts
         /\ file[n] \in NoText => file[n].is \in {"absent", "empty", "torn"}
<1>1. /\ file["store"] \in Texts /\ tmp["store"] \in Texts
      /\ file["store"] \in NoText \/ file["store"].is = "store"
      /\ tmp["store"] \in NoText \/ tmp["store"].is = "store"
  BY DEF FilesInv, Kinds, Names
<1>2. \A f \in AgentsTexts : f.is = "agents"
  BY DEF AgentsTexts
<1>. QED
  BY <1>1, <1>2, NoTextFields DEF Texts

LEMMA FilesStep ==
  TypeInv /\ [Next]_vars => FilesInv' /\ Kinds'
<1> SUFFICES ASSUME TypeInv, [Next]_vars PROVE FilesInv' /\ Kinds'
  OBVIOUS
<1>0. /\ Kinds /\ Controls /\ CopiesInv /\ FilesInv
      /\ file \in [Names -> Texts] /\ tmp \in [Names -> Texts]
      /\ file["store"] \in NoText \cup InitialFiles \/ Tidy(file["store"])
      /\ tmp["store"] \in NoText \/ Tidy(tmp["store"])
      /\ "store" \in Names /\ "agents" \in Names
  BY DEF TypeInv, FilesInv, Names
<1>1. Absent \in NoText /\ Empty \in NoText /\ Torn \in NoText /\ NoText \subseteq Texts
  BY DEF NoText, Texts
<1>2. CASE UNCHANGED <<file, tmp>>
  BY <1>0, <1>2 DEF FilesInv, Kinds
<1>3. ASSUME NEW p \in Procs, Open(p) PROVE FilesInv' /\ Kinds'
  <2>1. file' = file /\ tmp' = [tmp EXCEPT ![target[p]] = Empty]
    BY <1>3 DEF Open
  <2>. QED
    BY <1>0, <1>1, <2>1 DEF FilesInv, Kinds
<1>4. ASSUME NEW p \in Procs, Write(p) PROVE FilesInv' /\ Kinds'
  <2>1. /\ WriteTo(p, Text(p)) /\ target[p] \in Names
        /\ mem[p] \in [policy : Policies, entries : Lists]
        /\ ~Over(mem[p].entries, mem[p].policy)
    BY <1>0, <1>4 DEF Write, Controls, CopiesInv, Writing
  <2>2. /\ Text(p) \in Texts /\ Text(p).is = target[p]
        /\ target[p] = "store" => Tidy(Text(p))
    BY <2>1, TextIn, TidyText
  <2>3. /\ file' \in [Names -> Texts] /\ tmp' \in [Names -> Texts]
        /\ \A n \in Names :
             file'[n] = file[n] \/ (n = target[p] /\ file'[n] \in {Text(p), Torn})
        /\ \A n \in Names :
             tmp'[n] = tmp[n] \/ (n = target[p] /\ tmp'[n] \in {Text(p), Torn})
    BY <1>0, <2>1, <2>2, WriteEffect
  <2>4. Kinds'
    BY <1>0, <1>1, <2>2, <2>3 DEF Kinds
  <2>. QED
    BY <1>0, <1>1, <2>2, <2>3, <2>4 DEF FilesInv
<1>5. ASSUME NEW n \in Names, Move(n) PROVE FilesInv' /\ Kinds'
  <2>1. file' = [file EXCEPT ![n] = tmp[n]] /\ tmp' = [tmp EXCEPT ![n] = Absent]
    BY <1>5 DEF Move
  <2>2. FilesInv'
    BY <1>0, <1>1, <2>1 DEF FilesInv
  <2>3. Kinds'
    BY <1>0, <1>1, <2>1 DEF Kinds
  <2>. QED
    BY <2>2, <2>3
<1>6. ASSUME NEW p \in Procs, CutShort(p) PROVE FilesInv' /\ Kinds'
  <2>1. target[p] \in Names
    BY <1>0 DEF Controls
  <2>2. /\ file' \in [Names -> Texts] /\ tmp' \in [Names -> Texts]
        /\ \A n \in Names : file'[n] = file[n] \/ file'[n] = Torn
        /\ \A n \in Names : tmp'[n] = tmp[n] \/ tmp'[n] = Torn
    BY <1>0, <1>6, <2>1, CutEffect
  <2>. QED
    BY <1>0, <1>1, <2>2 DEF FilesInv, Kinds
<1>. QED
  BY <1>0, <1>2, <1>3, <1>4, <1>5, <1>6
  DEF Next, vars, Start, Load, LoadCorrupt, Put, Compact, Query, EvictAndReport,
      RenameStore, RenameAgents, Fails, Crash, Tick

LEMMA ControlsStep ==
  TypeInv /\ [Next]_vars => Controls'
<1> SUFFICES ASSUME TypeInv, [Next]_vars PROVE Controls'
  OBVIOUS
<1>0. Controls /\ MaxTime \in Nat /\ MaxCommands \in Nat
  BY BoundsAssumption DEF TypeInv
<1>. USE DEF Controls
<1>1. ASSUME NEW p \in Procs, Start(p) PROVE Controls'
  BY <1>0, <1>1 DEF Start
<1>2. ASSUME NEW p \in Procs, Load(p) PROVE Controls'
  BY <1>0, <1>2 DEF Load
<1>3. ASSUME NEW p \in Procs, LoadCorrupt(p) PROVE Controls'
  BY <1>0, <1>3 DEF LoadCorrupt, Leave, Names
<1>4. ASSUME NEW p \in Procs, Put(p) \/ Compact(p) PROVE Controls'
  BY <1>0, <1>4 DEF Put, Compact, EvictAndReport
<1>5. ASSUME NEW p \in Procs, Query(p) PROVE Controls'
  BY <1>0, <1>5 DEF Query, Leave, Names
<1>6. ASSUME NEW p \in Procs, Open(p) PROVE Controls'
  BY <1>0, <1>6 DEF Open
<1>7. ASSUME NEW p \in Procs, Write(p) PROVE Controls'
  BY <1>0, <1>7 DEF Write, Close
<1>8. ASSUME NEW n \in Names, Move(n)
      PROVE  /\ fd' \in [Procs -> {"none", "tmp", "file", "gone"}]
             /\ \A p \in Procs : fd'[p] = "none" <=> fd[p] = "none"
  <2>1. ASSUME NEW p \in Procs
        PROVE  /\ fd'[p] \in {"none", "tmp", "file", "gone"}
               /\ fd'[p] = "none" <=> fd[p] = "none"
    BY <1>0, <1>8 DEF Move
  <2>2. fd' = [p \in Procs |-> fd'[p]]
    BY <1>8 DEF Move
  <2>. QED
    BY <2>1, <2>2
<1>9. ASSUME NEW p \in Procs, RenameStore(p) PROVE Controls'
  <2>1. Move("store")
    BY <1>9 DEF RenameStore
  <2>2. /\ fd' \in [Procs -> {"none", "tmp", "file", "gone"}]
        /\ \A q \in Procs : fd'[q] = "none" <=> fd[q] = "none"
    BY <1>8, <2>1 DEF Names
  <2>3. /\ pc[p] = "rename" /\ pc' = [pc EXCEPT ![p] = "open"]
        /\ target' = [target EXCEPT ![p] = "agents"] /\ behind' = TRUE
        /\ UNCHANGED <<status, now, commands, shared>>
    BY <1>9 DEF RenameStore
  <2>. QED
    BY <1>0, <2>2, <2>3 DEF Names
<1>10. ASSUME NEW p \in Procs, RenameAgents(p) PROVE Controls'
  <2>1. Move("agents")
    BY <1>10 DEF RenameAgents
  <2>2. /\ fd' \in [Procs -> {"none", "tmp", "file", "gone"}]
        /\ \A q \in Procs : fd'[q] = "none" <=> fd[q] = "none"
    BY <1>8, <2>1 DEF Names
  <2>3. /\ pc[p] = "rename" /\ pc' = [pc EXCEPT ![p] = "off"]
        /\ target' = [target EXCEPT ![p] = "store"] /\ behind' = FALSE
        /\ status' = [status EXCEPT ![p] = "ok"]
        /\ UNCHANGED <<now, commands, shared>>
    BY <1>10 DEF RenameAgents, Leave
  <2>. QED
    BY <1>0, <2>2, <2>3 DEF Names
<1>11. ASSUME NEW p \in Procs, Fails(p) \/ Crash(p) PROVE Controls'
  <2>1. /\ pc' = [pc EXCEPT ![p] = "off"] /\ target' = [target EXCEPT ![p] = "store"]
        /\ fd' = [fd EXCEPT ![p] = "none"] /\ UNCHANGED <<now, commands, shared, behind>>
        /\ \E how \in {"ok", "io_error", "crashed"} : status' = [status EXCEPT ![p] = how]
    BY <1>11 DEF Fails, Crash, Leave, Close
  <2>. QED
    BY <1>0, <2>1 DEF Names
<1>12. CASE Tick
  BY <1>0, <1>12 DEF Tick
<1>13. CASE UNCHANGED vars
  BY <1>0, <1>13 DEF vars
<1>. QED
  BY <1>1, <1>2, <1>3, <1>4, <1>5, <1>6, <1>7, <1>9, <1>10, <1>11, <1>12, <1>13 DEF Next

\* What a command that works makes of its copy.
Worked(p) ==
  IF cmd[p].op = "put" THEN Evicted(WithPut(p), mem[p].policy, now)
  ELSE Evicted(mem[p].entries, mem[p].policy, now)

LEMMA WorkEffect ==
  ASSUME TypeInv, NEW p \in Procs, Put(p) \/ Compact(p)
  PROVE  /\ pc[p] = "work" /\ cmd[p].op \in {"put", "compact"}
         /\ pc' = [pc EXCEPT ![p] = "open"] /\ mem' = [mem EXCEPT ![p].entries = Worked(p)]
         /\ Worked(p) \in Lists /\ ~Over(Worked(p), mem[p].policy)
         /\ UNCHANGED <<file, tmp, cmd, target, fd, status, now, commands, shared, behind>>
<1>0. /\ mem[p].policy \in Policies /\ mem[p].entries \in Lists
      /\ now \in Nat /\ now \in 0 .. MaxTime /\ cmd[p] \in Commands \cup {NoCmd}
  BY BoundsAssumption DEF TypeInv, CopiesInv, Controls
<1>1. CASE Put(p)
  <2>1. cmd[p].op = "put" /\ pc[p] = "work"
    BY <1>1 DEF Put
  <2>2. cmd[p].key \in Keys /\ cmd[p].value \in 0 .. MaxCommands /\ cmd[p].size \in Sizes
    BY <1>0, <2>1 DEF Commands, NoCmd, Values
  <2>3. WithPut(p) \in Lists
    BY <1>0, <2>2, UpsertIn DEF WithPut
  <2>4. Worked(p) \in Lists /\ ~Over(Worked(p), mem[p].policy)
    BY <1>0, <2>1, <2>3, EvictedTidy DEF Worked
  <2>5. Evicted(Evicted(WithPut(p), mem[p].policy, now), mem[p].policy, now) = Worked(p)
    BY <1>0, <2>1, <2>4, EvictedAgain DEF Worked
  <2>. QED
    BY <1>1, <2>1, <2>4, <2>5 DEF Put, EvictAndReport
<1>2. CASE Compact(p)
  <2>1. cmd[p].op = "compact" /\ pc[p] = "work"
    BY <1>2 DEF Compact
  <2>2. Worked(p) \in Lists /\ ~Over(Worked(p), mem[p].policy)
    BY <1>0, <2>1, EvictedTidy DEF Worked
  <2>. QED
    BY <1>2, <2>1, <2>2 DEF Compact, EvictAndReport, Worked
<1>. QED
  BY <1>1, <1>2

\* A process that leaves.
LEMMA LeaveEffect ==
  ASSUME Controls, CopiesInv, NEW p \in Procs, NEW how, Leave(p, how)
  PROVE  /\ CopiesInv'
         /\ pc'[p] = "off" /\ target'[p] = "store"
         /\ \A q \in Procs \ {p} : /\ pc'[q] = pc[q] /\ cmd'[q] = cmd[q] /\ mem'[q] = mem[q]
                                   /\ target'[q] = target[q]
<1>1. NoCmd.op = "none" /\ NoStore \in [policy : Policies, entries : Lists]
  <2>1. <<>> \in Lists
    BY DEF Lists, Entries, Distinct
  <2>. QED
    BY <2>1, FilesAssumption DEF NoStore, NoCmd
<1>2. /\ pc' = [pc EXCEPT ![p] = "off"] /\ cmd' = [cmd EXCEPT ![p] = NoCmd]
      /\ mem' = [mem EXCEPT ![p] = NoStore] /\ target' = [target EXCEPT ![p] = "store"]
  BY DEF Leave
<1>3. /\ pc'[p] = "off" /\ target'[p] = "store" /\ cmd'[p] = NoCmd
      /\ \A q \in Procs \ {p} : /\ pc'[q] = pc[q] /\ cmd'[q] = cmd[q] /\ mem'[q] = mem[q]
                                /\ target'[q] = target[q]
      /\ cmd' \in [Procs -> Commands \cup {NoCmd}]
      /\ mem' \in [Procs -> [policy : Policies, entries : Lists]]
  BY <1>1, <1>2 DEF Controls, CopiesInv
<1>. QED
  BY <1>1, <1>3 DEF CopiesInv, Writing

LEMMA CopiesStep ==
  TypeInv /\ [Next]_vars => CopiesInv'
<1> SUFFICES ASSUME TypeInv, [Next]_vars PROVE CopiesInv'
  OBVIOUS
<1>0. Controls /\ CopiesInv /\ FilesInv /\ Kinds
  BY DEF TypeInv
<1>1. ASSUME NEW p \in Procs, Start(p) PROVE CopiesInv'
  <2>1. PICK c \in Commands : cmd' = [cmd EXCEPT ![p] = c]
    BY <1>1 DEF Start
  <2>2. c.op # "none"
    BY DEF Commands
  <2>3. /\ pc[p] = "off" /\ pc' = [pc EXCEPT ![p] = "load"] /\ UNCHANGED <<mem, target>>
    BY <1>1 DEF Start
  <2>. QED
    BY <1>0, <2>1, <2>2, <2>3 DEF CopiesInv, Controls, Writing
<1>2. ASSUME NEW p \in Procs, Load(p) PROVE CopiesInv'
  <2>. DEFINE copy == IF file["store"] = Absent THEN NoStore
                      ELSE [policy |-> file["store"].policy, entries |-> file["store"].entries]
  <2>1. /\ pc[p] = "load" /\ pc' = [pc EXCEPT ![p] = "work"] /\ UNCHANGED <<cmd, target>>
        /\ mem' = [mem EXCEPT ![p] = copy] /\ file["store"].is \in {"absent", "store"}
    BY <1>2 DEF Load, Loadable
  <2>2. copy \in [policy : Policies, entries : Lists]
    <3>1. CASE file["store"] \in NoText
      <4>1. file["store"] = Absent
        BY <2>1, <3>1, NoTextFields
      <4>2. <<>> \in Lists
        BY DEF Lists, Entries, Distinct
      <4>. QED
        BY <4>1, <4>2, FilesAssumption DEF NoStore
    <3>2. CASE file["store"] \in StoreTexts
      <4>1. Absent \notin StoreTexts
        BY DEF Absent, StoreTexts
      <4>. QED
        BY <3>2, <4>1 DEF StoreTexts
    <3>3. "store" \in Names
      BY DEF Names
    <3>. QED
      BY <1>0, <3>1, <3>2, <3>3, StoreRead
  <2>. HIDE DEF copy
  <2>. QED
    BY <1>0, <2>1, <2>2 DEF CopiesInv, Controls, Writing
<1>3. ASSUME NEW p \in Procs, Put(p) \/ Compact(p) PROVE CopiesInv'
  <2>1. /\ pc[p] = "work" /\ cmd[p].op \in {"put", "compact"}
        /\ pc' = [pc EXCEPT ![p] = "open"] /\ mem' = [mem EXCEPT ![p].entries = Worked(p)]
        /\ Worked(p) \in Lists /\ ~Over(Worked(p), mem[p].policy) /\ UNCHANGED <<cmd, target>>
    BY <1>3, WorkEffect
  <2>2. /\ mem' \in [Procs -> [policy : Policies, entries : Lists]]
        /\ mem'[p].entries = Worked(p) /\ mem'[p].policy = mem[p].policy
        /\ \A q \in Procs \ {p} : mem'[q] = mem[q]
    BY <1>0, <2>1 DEF CopiesInv
  <2>. QED
    BY <1>0, <2>1, <2>2 DEF CopiesInv, Controls, Writing
<1>4. ASSUME NEW p \in Procs, Open(p) \/ Write(p) PROVE CopiesInv'
  <2>1. /\ pc[p] \in Writing /\ UNCHANGED <<cmd, mem, target>>
        /\ \E to \in Writing : pc' = [pc EXCEPT ![p] = to]
    BY <1>4 DEF Open, Write, Writing
  <2>. QED
    BY <1>0, <2>1 DEF CopiesInv, Controls, Writing
<1>5. ASSUME NEW p \in Procs, RenameStore(p) PROVE CopiesInv'
  <2>1. /\ pc[p] = "rename" /\ UNCHANGED <<cmd, mem>> /\ pc' = [pc EXCEPT ![p] = "open"]
        /\ target' = [target EXCEPT ![p] = "agents"]
    BY <1>5 DEF RenameStore
  <2>. QED
    BY <1>0, <2>1 DEF CopiesInv, Controls, Writing
<1>6. ASSUME NEW p \in Procs, LoadCorrupt(p) \/ Query(p) \/ RenameAgents(p) \/ Fails(p) \/ Crash(p)
      PROVE  CopiesInv'
  <2>1. \E how : Leave(p, how)
    BY <1>6 DEF LoadCorrupt, Query, RenameAgents, Fails, Crash
  <2>. QED
    BY <1>0, <2>1, LeaveEffect
<1>7. CASE Tick \/ UNCHANGED vars
  BY <1>0, <1>7 DEF Tick, vars, CopiesInv
<1>. QED
  BY <1>1, <1>2, <1>3, <1>4, <1>5, <1>6, <1>7 DEF Next

LEMMA TypesStep == TypeInv /\ [Next]_vars => TypeInv'
BY FilesStep, ControlsStep, CopiesStep DEF TypeInv

LEMMA CapacityFollows == TypeInv => CapacityKept
<1> SUFFICES ASSUME TypeInv PROVE CapacityKept
  OBVIOUS
<1>. DEFINE f == file["store"]
<1>1. TypeOK
  BY TypeParts DEF TypeInv
<1>2. ASSUME f.is = "store", f \notin InitialFiles
      PROVE  ~Over(f.entries, f.policy) /\ Cardinality(KeysOf(f.entries)) = Len(f.entries)
  <2>1. Tidy(f)
    BY <1>2, NoTextFields DEF TypeInv, FilesInv
  <2>. DEFINE entries == f.entries
  <2>2. entries \in Lists /\ entries \in Entries
    BY <2>1 DEF Tidy, StoreTexts, Lists
  <2>3. Cardinality(KeysOf(entries)) = Len(entries)
    <3>. DEFINE key == [i \in 1 .. Len(entries) |-> entries[i].key]
    <3>1. DOMAIN entries = 1 .. Len(entries) /\ Len(entries) \in Nat
      BY <2>2, EntriesForm
    <3>2. key \in Bijection(1 .. Len(entries), KeysOf(entries))
      <4>1. key \in Injection(1 .. Len(entries), KeysOf(entries))
        BY <2>2, <3>1 DEF Lists, Distinct, KeysOf, Injection, IsInjective
      <4>2. key \in Surjection(1 .. Len(entries), KeysOf(entries))
        BY <3>1 DEF KeysOf, Surjection
      <4>. QED
        BY <4>1, <4>2 DEF Bijection
    <3>3. ExistsBijection(1 .. Len(entries), KeysOf(entries))
      BY <3>2 DEF ExistsBijection
    <3>. QED
      BY <3>1, <3>3, FS_CountingElements
  <2>. QED
    BY <2>1, <2>3 DEF Tidy
<1>. QED
  BY <1>1, <1>2 DEF CapacityKept
-----------------------------------------------------------------------------
(***************************************************************************)
(* A command that is alone.                                                *)
(***************************************************************************)
\* The steps of a process, by what they find and leave of the others.
Moves(p) ==
  \/ Load(p) \/ LoadCorrupt(p) \/ Put(p) \/ Compact(p) \/ Query(p)
  \/ Open(p) \/ Write(p) \/ RenameStore(p) \/ RenameAgents(p) \/ Fails(p) \/ Crash(p)

LEMMA MoveOthers ==
  ASSUME Controls, CopiesInv, NEW p \in Procs, Moves(p)
  PROVE  /\ pc[p] # "off" /\ shared' = shared
         /\ \A q \in Procs \ {p} : pc'[q] = pc[q] /\ target'[q] = target[q]
<1>1. CASE LoadCorrupt(p) \/ Query(p) \/ RenameAgents(p) \/ Fails(p) \/ Crash(p)
  <2>1. \E how : Leave(p, how)
    BY <1>1 DEF LoadCorrupt, Query, RenameAgents, Fails, Crash
  <2>2. pc[p] # "off" /\ shared' = shared
    BY <1>1 DEF LoadCorrupt, Query, RenameAgents, Fails, Crash
  <2>. QED
    BY <2>1, <2>2, LeaveEffect
<1>2. CASE RenameStore(p)
  BY <1>2 DEF RenameStore, Controls
<1>3. CASE Load(p) \/ Put(p) \/ Compact(p) \/ Open(p) \/ Write(p)
  BY <1>3 DEF Load, Put, Compact, EvictAndReport, Open, Write, Controls
<1>. QED
  BY <1>1, <1>2, <1>3 DEF Moves

\* While one command runs at a time, a step leaves every other process off.
LEMMA OthersOff ==
  ASSUME TypeInv, AloneInv, ~shared', NEW p \in Procs, Start(p) \/ Moves(p)
  PROVE  /\ ~shared
         /\ \A q \in Procs \ {p} : pc'[q] = "off" /\ target'[q] = "store"
<1>0. Controls /\ CopiesInv /\ Controls'
  <2>1. [Next]_vars
    BY DEF Next, Moves
  <2>. QED
    BY <2>1, ControlsStep DEF TypeInv
<1>1. \A q \in Procs : pc[q] = "off" => target[q] = "store"
  BY <1>0 DEF Controls, CopiesInv, Names, Writing
<1>2. CASE Start(p)
  <2>1. /\ shared' = (shared \/ \E q \in Procs : pc[q] # "off") /\ target' = target
        /\ pc' = [pc EXCEPT ![p] = "load"]
    BY <1>2 DEF Start
  <2>2. ~shared /\ \A q \in Procs : pc[q] = "off"
    BY <2>1
  <2>. QED
    BY <1>0, <1>1, <2>1, <2>2 DEF Controls
<1>3. CASE Moves(p)
  <2>1. ~shared /\ pc[p] # "off"
    BY <1>0, <1>3, MoveOthers
  <2>2. \A q \in Procs \ {p} : pc[q] = "off"
    BY <2>1 DEF AloneInv
  <2>. QED
    BY <1>0, <1>1, <1>3, <2>1, <2>2, MoveOthers
<1>. QED
  BY <1>2, <1>3

LEMMA OffProgress ==
  ASSUME NEW p \in Procs, pc[p] \in {"off", "load"}, target[p] = "store" PROVE Progress(p)
BY DEF Progress, Writing

\* It is enough to follow the process that takes the step.
LEMMA AloneFollows ==
  ASSUME TypeInv, AloneInv, ~shared', NEW p \in Procs, Start(p) \/ Moves(p), Progress(p)'
  PROVE  AloneInv'
<1>1. \A q \in Procs \ {p} : pc'[q] = "off" /\ target'[q] = "store"
  BY OthersOff
<1>2. \A q \in Procs \ {p} : Progress(q)'
  BY <1>1 DEF Progress, Writing
<1>. QED
  BY <1>1, <1>2 DEF AloneInv

LEMMA ChangedKept ==
  ASSUME NEW p \in Procs, Changed(p),
         cmd'[p] = cmd[p], mem'[p] = mem[p], file'["store"] = file["store"]
  PROVE  Changed(p)'
BY DEF Changed, StoreIn

LEMMA TextKept ==
  ASSUME NEW p \in Procs, mem'[p] = mem[p], target'[p] = target[p]
  PROVE  Text(p)' = Text(p)
BY DEF Text

\* What a command that is alone and fails leaves of the files.
LEMMA FailKeeps ==
  ASSUME TypeInv, AloneInv, ~shared, NEW p \in Procs, Fails(p) \/ Crash(p)
  PROVE  file' = file
<1>0. /\ Controls /\ FilesInv /\ target[p] \in Names /\ CutShort(p)
      /\ pc[p] = "write" => fd[p] = "tmp"
      /\ fd[p] # "none" => pc[p] = "write"
  <2>1. Progress(p)
    BY DEF AloneInv
  <2>. QED
    BY <2>1 DEF TypeInv, Controls, Progress, Fails, Crash
<1>1. fd[p] # "file"
  BY <1>0
<1>. QED
  BY <1>0, <1>1, CutEffect

LEMMA ProgressStep ==
  ASSUME TypeInv, AloneInv, AgentsFollow, ~shared', NEW p \in Procs, Start(p) \/ Moves(p)
  PROVE  Progress(p)' /\ AgentsFollow'
<1>0. /\ Kinds /\ Controls /\ CopiesInv /\ FilesInv
      /\ "store" \in Names /\ "agents" \in Names /\ "store" # "agents"
      /\ target[p] \in Names /\ mem[p] \in [policy : Policies, entries : Lists]
      /\ tmp \in [Names -> Texts] /\ file \in [Names -> Texts]
  BY DEF TypeInv, Controls, CopiesInv, FilesInv, Names
<1>1. ~shared /\ Progress(p)
  BY OthersOff DEF AloneInv
<1>2. /\ target[p] = "agents" => pc[p] \in Writing
      /\ target[p] # "agents" => target[p] = "store"
  BY <1>0 DEF CopiesInv, Names
<1>3. ASSUME UNCHANGED <<file, behind>> PROVE AgentsFollow'
  BY <1>1, <1>3 DEF AgentsFollow
<1>4. CASE Start(p)
  <2>1. /\ pc[p] = "off" /\ pc'[p] = "load" /\ target' = target /\ UNCHANGED <<file, behind>>
    BY <1>0, <1>4 DEF Start, Controls
  <2>2. target'[p] = "store"
    BY <1>2, <2>1 DEF Writing
  <2>. QED
    BY <1>3, <2>1, <2>2 DEF Progress, Writing
<1>5. CASE Load(p)
  <2>1. /\ pc[p] = "load" /\ pc'[p] = "work" /\ target' = target /\ UNCHANGED <<file, behind>>
        /\ mem'[p] = IF file["store"] = Absent THEN NoStore
                     ELSE [policy |-> file["store"].policy, entries |-> file["store"].entries]
        /\ file["store"].is \in {"absent", "store"}
    BY <1>0, <1>5 DEF Load, Loadable, Controls, CopiesInv
  <2>2. target'[p] = "store"
    BY <1>2, <2>1 DEF Writing
  <2>3. StoreIn(file["store"]) = Store(mem'[p].policy, mem'[p].entries)
    <3>1. CASE file["store"] \in NoText
      <4>1. file["store"] = Absent /\ Absent.is = "absent"
        BY <2>1, <3>1, NoTextFields DEF Absent
      <4>2. StoreIn(file["store"]) = Store(DefaultPolicy, <<>>)
        BY <4>1 DEF StoreIn
      <4>. QED
        BY <2>1, <4>1, <4>2 DEF NoStore
    <3>2. CASE file["store"] \in StoreTexts
      <4>1. Absent \notin StoreTexts
        BY DEF Absent, StoreTexts
      <4>2. file["store"] = Store(file["store"].policy, file["store"].entries)
        BY <3>2 DEF StoreTexts, Store
      <4>3. StoreIn(file["store"]) = file["store"]
        BY <4>2, StoreFields
      <4>. QED
        BY <2>1, <3>2, <4>1, <4>2, <4>3
    <3>. QED
      BY <1>0, <3>1, <3>2, StoreRead
  <2>4. StoreIn(file'["store"]) = Store(mem'[p].policy, mem'[p].entries)
    BY <2>1, <2>3
  <2>. QED
    BY <1>3, <2>1, <2>2, <2>4 DEF Progress, Writing
<1>6. CASE Put(p) \/ Compact(p)
  <2>1. /\ pc[p] = "work" /\ cmd[p].op \in {"put", "compact"}
        /\ pc' = [pc EXCEPT ![p] = "open"] /\ mem' = [mem EXCEPT ![p].entries = Worked(p)]
        /\ UNCHANGED <<file, tmp, cmd, target, fd, behind>>
    <3>1. UNCHANGED <<file, tmp, cmd, target, fd, behind>>
      BY <1>6 DEF Put, Compact, EvictAndReport
    <3>. QED
      BY <1>0, <1>6, <3>1, WorkEffect DEF TypeInv
  <2>2. /\ pc'[p] = "open" /\ mem'[p].entries = Worked(p) /\ mem'[p].policy = mem[p].policy
        /\ target'[p] = "store"
    BY <1>0, <1>2, <2>1 DEF Controls, CopiesInv, Writing
  <2>3. StoreIn(file["store"]) = Store(mem[p].policy, mem[p].entries)
    BY <1>1, <2>1 DEF Progress
  <2>. DEFINE old == StoreIn(file["store"])
  <2>4. old # Torn /\ old.policy = mem[p].policy /\ old.entries = mem[p].entries
    BY <2>3, StoreFields
  <2>5. Changed(p)'
    <3>1. /\ StoreIn(file["store"])' = old
          /\ cmd'[p] = cmd[p] /\ now \in 0 .. MaxTime
      BY <1>0, <2>1 DEF StoreIn, Controls
    <3>2. \/ /\ cmd[p].op = "put"
             /\ Worked(p) = Evicted(Upsert(old.entries, cmd[p].key, cmd[p].value, cmd[p].size, now),
                                    old.policy, now)
          \/ cmd[p].op = "compact" /\ Worked(p) = Evicted(old.entries, old.policy, now)
      BY <2>1, <2>4 DEF Worked, WithPut
    <3>. HIDE DEF old
    <3>. QED
      BY <2>2, <2>4, <3>1, <3>2 DEF Changed
  <2>. QED
    BY <1>3, <2>1, <2>2, <2>5 DEF Progress
<1>7. CASE Open(p)
  <2>1. /\ pc[p] = "open" /\ pc'[p] = "write" /\ tmp'[target[p]] = Empty /\ fd'[p] = "tmp"
        /\ UNCHANGED <<file, cmd, mem, target, behind>>
    BY <1>0, <1>7 DEF Open, Controls
  <2>2. target[p] = "store" => Changed(p)'
    BY <1>1, <2>1, ChangedKept DEF Progress, Writing
  <2>. QED
    BY <1>1, <1>3, <2>1, <2>2 DEF Progress
<1>8. CASE Write(p)
  <2>1. /\ pc[p] = "write" /\ pc'[p] = "rename" /\ WriteTo(p, Text(p))
        /\ UNCHANGED <<cmd, mem, target, behind>>
    BY <1>0, <1>8 DEF Write, Controls
  <2>2. fd[p] = "tmp" /\ tmp[target[p]] = Empty
    BY <1>1, <2>1 DEF Progress
  <2>3. Text(p) \in Texts
    BY <1>0, TextIn
  <2>4. file' = file /\ tmp'[target[p]] = Text(p)
    BY <1>0, <2>1, <2>2, <2>3, WriteEffect, OverlayEmpty
  <2>5. Text(p)' = Text(p)
    BY <2>1, TextKept
  <2>6. target[p] = "store" => Changed(p)'
    BY <1>1, <2>1, <2>4, ChangedKept DEF Progress, Writing
  <2>. QED
    BY <1>1, <1>3, <2>1, <2>4, <2>5, <2>6 DEF Progress
<1>9. CASE RenameStore(p)
  <2>1. /\ pc[p] = "rename" /\ target[p] = "store" /\ pc'[p] = "open" /\ target'[p] = "agents"
        /\ file'["store"] = tmp["store"] /\ mem' = mem /\ behind' = TRUE
    BY <1>0, <1>9 DEF RenameStore, Move, Controls
  <2>2. tmp["store"] = Store(mem[p].policy, mem[p].entries)
    BY <1>1, <2>1 DEF Progress, Text
  <2>. QED
    BY <2>1, <2>2 DEF Progress, AgentsFollow
<1>10. CASE RenameAgents(p)
  <2>1. /\ pc[p] = "rename" /\ target[p] = "agents"
        /\ file'["store"] = file["store"] /\ file'["agents"] = tmp["agents"]
    BY <1>0, <1>10 DEF RenameAgents, Move
  <2>2. /\ file["store"] = Store(mem[p].policy, mem[p].entries)
        /\ tmp["agents"] = Rendering(mem[p].entries)
    BY <1>1, <2>1 DEF Progress, Text
  <2>3. pc'[p] = "off" /\ target'[p] = "store"
    BY <1>0, <1>10, LeaveEffect DEF RenameAgents
  <2>4. AgentsFollow'
    BY <2>1, <2>2, StoreFields DEF AgentsFollow
  <2>. QED
    BY <2>3, <2>4 DEF Progress, Writing
<1>11. CASE LoadCorrupt(p) \/ Query(p) \/ Fails(p) \/ Crash(p)
  <2>1. UNCHANGED <<file, behind>>
    BY <1>1, <1>11, FailKeeps DEF LoadCorrupt, Query, Fails, Crash
  <2>2. \E how : Leave(p, how)
    BY <1>11 DEF LoadCorrupt, Query, Fails, Crash
  <2>3. pc'[p] = "off" /\ target'[p] = "store"
    BY <1>0, <2>2, LeaveEffect
  <2>. QED
    BY <1>3, <2>1, <2>3 DEF Progress, Writing
<1>. QED
  BY <1>4, <1>5, <1>6, <1>7, <1>8, <1>9, <1>10, <1>11 DEF Moves

Inv == TypeInv /\ AloneInv /\ AgentsFollow

LEMMA NextSplit ==
  Next <=> \/ \E p \in Procs : Start(p) \/ Moves(p)
           \/ Tick
BY DEF Next, Moves

LEMMA AloneInit == Init => AloneInv /\ AgentsFollow
<1> SUFFICES ASSUME Init PROVE AloneInv /\ AgentsFollow
  OBVIOUS
<1>1. \A p \in Procs : pc[p] = "off" /\ target[p] = "store"
  BY DEF Init
<1>2. PICK f \in InitialFiles :
        file = [n \in Names |-> IF n = "store" THEN f
                                ELSE IF f.is = "store" THEN Rendering(f.entries)
                                ELSE Absent]
  BY DEF Init
<1>3. AgentsFollow
  BY <1>2 DEF AgentsFollow, Names
<1>. QED
  BY <1>1, <1>3, OffProgress DEF AloneInv

LEMMA InvStep == Inv /\ [Next]_vars => Inv'
<1> SUFFICES ASSUME Inv, [Next]_vars PROVE Inv'
  OBVIOUS
<1>0. TypeInv /\ TypeInv' /\ AloneInv /\ AgentsFollow
  BY TypesStep DEF Inv
<1>1. CASE shared'
  BY <1>0, <1>1 DEF Inv, AloneInv, AgentsFollow
<1>2. ASSUME ~shared', NEW p \in Procs, Start(p) \/ Moves(p) PROVE Inv'
  BY <1>0, <1>2, ProgressStep, AloneFollows DEF Inv
<1>3. CASE Tick \/ UNCHANGED vars
  <2>1. UNCHANGED <<file, tmp, pc, cmd, mem, target, fd, shared, behind>>
    BY <1>3 DEF Tick, vars
  <2>2. ASSUME NEW p \in Procs, Progress(p) PROVE Progress(p)'
    <3>1. Changed(p) => Changed(p)'
      BY <2>1, ChangedKept
    <3>2. Text(p)' = Text(p) /\ StoreIn(file["store"])' = StoreIn(file["store"])
      BY <2>1, TextKept DEF StoreIn
    <3>. QED
      BY <2>1, <2>2, <3>1, <3>2 DEF Progress
  <2>. QED
    BY <1>0, <2>1, <2>2 DEF Inv, AloneInv, AgentsFollow
<1>. QED
  BY <1>1, <1>2, <1>3, NextSplit

(***************************************************************************)
(* Whatever the commands, their overlaps, their failures and their         *)
(* crashes: the files hold texts the program wrote, every copy names a key *)
(* once, and a copy that is being written is under its policy.             *)
(***************************************************************************)
THEOREM TypeCorrect == Spec => [](TypeOK /\ CopiesInv /\ FilesInv)
<1>1. TypeInv => TypeOK /\ CopiesInv /\ FilesInv
  BY TypeParts DEF TypeInv
<1>. QED
  BY TypesInit, TypesStep, <1>1, PTL DEF Spec

(***************************************************************************)
(* A store that can be read and that a command has written names each key  *)
(* once and is under its policy, for any number of processes at once.      *)
(***************************************************************************)
THEOREM CapacityCorrect == Spec => []CapacityKept
BY TypesInit, TypesStep, CapacityFollows, PTL DEF Spec

\* The inductive invariant of the commands that follow one another.
LEMMA InvCorrect == Spec => []Inv
<1>1. Init => Inv
  BY TypesInit, AloneInit DEF Inv
<1>. QED
  BY <1>1, InvStep, PTL DEF Spec

(***************************************************************************)
(* AGENTS.md shows the store, once every command that replaced the store   *)
(* has replaced AGENTS.md too and as long as no two commands overlapped.   *)
(***************************************************************************)
THEOREM AgentsCorrect == Spec => []AgentsFollow
<1>1. Inv => AgentsFollow
  BY DEF Inv
<1>. QED
  BY InvCorrect, <1>1, PTL
-----------------------------------------------------------------------------
(***************************************************************************)
(* What a step of a command that is alone does to the store.               *)
(***************************************************************************)
LEMMA StoreStep ==
  ASSUME Inv, [Next]_vars, ~shared'
  PROVE  \/ \E p \in Procs :
              /\ RenameStore(p) /\ Changed(p)
              /\ file'["store"] = Store(mem[p].policy, mem[p].entries)
         \/ file'["store"] = file["store"]
<1>0. TypeInv /\ AloneInv /\ AgentsFollow /\ Controls /\ CopiesInv /\ FilesInv
  BY DEF Inv, TypeInv
<1>1. ASSUME NEW p \in Procs, Start(p) \/ Moves(p)
      PROVE  \/ /\ RenameStore(p) /\ Changed(p)
                /\ file'["store"] = Store(mem[p].policy, mem[p].entries)
             \/ file'["store"] = file["store"]
  <2>1. ~shared /\ Progress(p)
    BY <1>0, <1>1, OthersOff DEF AloneInv
  <2>2. CASE RenameStore(p)
    <3>1. pc[p] = "rename" /\ target[p] = "store" /\ file'["store"] = tmp["store"]
      BY <1>0, <2>2 DEF RenameStore, Move, FilesInv, Names
    <3>. QED
      BY <2>1, <2>2, <3>1 DEF Progress, Text, Writing
  <2>3. CASE RenameAgents(p)
    BY <1>0, <2>3 DEF RenameAgents, Move, FilesInv, Names
  <2>4. CASE Write(p)
    <3>1. fd[p] = "tmp"
      BY <2>1, <2>4 DEF Progress, Write
    <3>. QED
      BY <2>4, <3>1 DEF Write, WriteTo
  <2>5. CASE Fails(p) \/ Crash(p)
    BY <1>0, <2>1, <2>5, FailKeeps
  <2>6. CASE Start(p) \/ Load(p) \/ LoadCorrupt(p) \/ Put(p) \/ Compact(p) \/ Query(p) \/ Open(p)
    BY <2>6 DEF Start, Load, LoadCorrupt, Put, Compact, EvictAndReport, Query, Open
  <2>. QED
    BY <1>1, <2>2, <2>3, <2>4, <2>5, <2>6 DEF Moves
<1>2. CASE Tick \/ UNCHANGED vars
  BY <1>2 DEF Tick, vars
<1>. QED
  BY <1>1, <1>2, NextSplit

\* A process that ends well was a query or had renamed the store.
LEMMA DurableStep ==
  ASSUME Inv, [Next]_vars, ~shared', NEW p \in Procs,
         pc[p] # "off", pc'[p] = "off", status'[p] = "ok", cmd[p].op # "query"
  PROVE  file'["store"] = Store(mem[p].policy, mem[p].entries)
<1>0. TypeInv /\ AloneInv /\ Controls /\ CopiesInv /\ FilesInv
  BY DEF Inv, TypeInv
<1>1. PICK q \in Procs : Start(q) \/ Moves(q)
  BY NextSplit DEF Tick, vars
<1>2. q = p
  BY <1>0, <1>1, OthersOff, MoveOthers DEF Start, Controls
<1>3. ~shared /\ Progress(p)
  BY <1>0, <1>1, OthersOff DEF AloneInv
<1>4. target[p] = "agents"
      /\ (RenameAgents(p) \/ Fails(p))
  <2>1. CASE RenameAgents(p)
    BY <2>1 DEF RenameAgents
  <2>2. CASE Fails(p)
    <3>1. status'[p] = IF target[p] = "store" THEN "io_error" ELSE "ok"
      BY <1>0, <2>2 DEF Fails, Leave, Controls
    <3>. QED
      BY <1>0, <2>2, <3>1 DEF Controls, Names
  <2>3. CASE Crash(p) \/ LoadCorrupt(p)
    BY <1>0, <2>3 DEF Crash, LoadCorrupt, Leave, Controls
  <2>4. CASE Query(p)
    BY <2>4 DEF Query
  <2>5. CASE Start(p) \/ Load(p) \/ Put(p) \/ Compact(p) \/ Open(p) \/ Write(p) \/ RenameStore(p)
    BY <1>0, <2>5 DEF Start, Load, Put, Compact, EvictAndReport, Open, Write, RenameStore, Controls
  <2>. QED
    BY <1>1, <1>2, <2>1, <2>2, <2>3, <2>4, <2>5 DEF Moves
<1>5. file'["store"] = file["store"]
  <2>1. CASE RenameAgents(p)
    BY <1>0, <2>1 DEF RenameAgents, Move, FilesInv, Names
  <2>2. CASE Fails(p)
    BY <1>0, <1>3, <2>2, FailKeeps
  <2>. QED
    BY <1>4, <2>1, <2>2
<1>. QED
  BY <1>3, <1>4, <1>5 DEF Progress

(***************************************************************************)
(* A put or a compact that nobody overlapped and that reports success has  *)
(* left its copy in memory_store.json.                                     *)
(***************************************************************************)
THEOREM DurableCorrect == Spec => OkIsDurable
<1>1. Inv /\ [Next]_vars =>
        [\A p \in Procs :
          /\ pc[p] # "off" /\ pc'[p] = "off" /\ status'[p] = "ok" /\ ~shared'
          /\ cmd[p].op # "query"
          => file'["store"] = Store(mem[p].policy, mem[p].entries)]_vars
  BY DurableStep
<1>. QED
  BY InvCorrect, <1>1, PTL DEF Spec, OkIsDurable
-----------------------------------------------------------------------------
(***************************************************************************)
(* The refinement of MemoryMap.  The functions of the lists are the ones   *)
(* of MemoryEntries in both modules.                                       *)
(***************************************************************************)
LEMMA SameUpsert ==
  ASSUME NEW entries, NEW key, NEW value, NEW size, NEW t
  PROVE  Map!Upsert(entries, key, value, size, t) = Upsert(entries, key, value, size, t)
BY DEF Map!Upsert, Upsert, Map!KeysOf, KeysOf, Map!Entry, Entry,
       Map!SelectInSeq, SelectInSeq, Map!Min, Min

LEMMA SameEvicted ==
  ASSUME NEW entries, NEW policy, NEW t
  PROVE  Map!Evicted(entries, policy, t) = Evicted(entries, policy, t)
BY DEF Map!Evicted, Evicted, Map!Victim, Victim, Map!Oldest, Oldest, Map!Over, Over,
       Map!BytesTotal, BytesTotal, Map!RemoveAt, RemoveAt

LEMMA MapInit == Init => Map!Init
BY DEF Init, Map!Init, Names

LEMMA MapChange ==
  ASSUME TypeInv, NEW p \in Procs, Changed(p),
         file'["store"] = Store(mem[p].policy, mem[p].entries)
  PROVE  Map!Change
<1>. DEFINE old == StoreIn(file["store"])
            new == StoreIn(file'["store"])
<1>0. cmd[p] \in Commands \cup {NoCmd}
  BY DEF TypeInv, CopiesInv
<1>1. new = Store(mem[p].policy, mem[p].entries)
  BY StoreFields
<1>2. old # Torn /\ mem[p].policy = old.policy /\ old = Store(old.policy, old.entries)
  <2>1. old # Torn /\ mem[p].policy = old.policy
    BY DEF Changed
  <2>2. "store" \in Names
    BY DEF Names
  <2>3. CASE file["store"] \in NoText
    <3>1. old = Store(DefaultPolicy, <<>>)
      BY <2>1, <2>3, NoTextFields DEF StoreIn
    <3>2. old.policy = DefaultPolicy /\ old.entries = <<>>
      <4>. HIDE DEF old
      <4>. QED
        BY <3>1, StoreFields
    <3>. HIDE DEF old
    <3>. QED
      BY <2>1, <3>1, <3>2
  <2>4. CASE file["store"] \in StoreTexts
    <3>1. file["store"] = Store(file["store"].policy, file["store"].entries)
      BY <2>4 DEF StoreTexts, Store
    <3>2. old = file["store"]
      BY <3>1, StoreFields
    <3>. HIDE DEF old
    <3>. QED
      BY <2>1, <3>1, <3>2
  <2>. QED
    BY <2>1, <2>2, <2>3, <2>4, StoreRead DEF TypeInv
<1>3. \A entries : mem[p].entries = entries => new = [old EXCEPT !.entries = entries]
  <2>. HIDE DEF old, new
  <2>. QED
    BY <1>1, <1>2 DEF Store
<1>4. PICK t \in 0 .. MaxTime :
        \/ /\ cmd[p].op = "put"
           /\ mem[p].entries =
                Evicted(Upsert(old.entries, cmd[p].key, cmd[p].value, cmd[p].size, t),
                        old.policy, t)
        \/ cmd[p].op = "compact" /\ mem[p].entries = Evicted(old.entries, old.policy, t)
  BY DEF Changed
<1>5. CASE cmd[p].op = "put"
  <2>1. cmd[p].key \in Keys /\ cmd[p].value \in Values /\ cmd[p].size \in Sizes
    BY <1>0, <1>5 DEF Commands, NoCmd
  <2>2. new = [old EXCEPT !.entries =
                 Evicted(Upsert(old.entries, cmd[p].key, cmd[p].value, cmd[p].size, t),
                         old.policy, t)]
    BY <1>3, <1>4, <1>5
  <2>3. Map!Put(cmd[p].key, cmd[p].value, cmd[p].size, t)
    BY <2>2, SameUpsert, SameEvicted DEF Map!Put
  <2>. QED
    BY <1>2, <2>1, <2>3 DEF Map!Change
<1>6. CASE cmd[p].op = "compact"
  <2>1. new = [old EXCEPT !.entries = Evicted(old.entries, old.policy, t)]
    BY <1>3, <1>4, <1>6
  <2>2. Map!Compact(t)
    BY <2>1, SameEvicted DEF Map!Compact
  <2>. QED
    BY <1>2, <2>2 DEF Map!Change
<1>. QED
  BY <1>4, <1>5, <1>6

LEMMA MapStep ==
  Inv /\ [Next]_vars => [Map!Next]_<<StoreIn(file["store"]), ~shared>>
<1> SUFFICES ASSUME Inv, [Next]_vars
    PROVE  Map!Next \/ UNCHANGED <<StoreIn(file["store"]), ~shared>>
  OBVIOUS
<1>1. CASE shared'
  BY <1>1 DEF Map!Next
<1>2. CASE ~shared'
  <2>1. ~shared
    BY <1>2, OthersOff, NextSplit DEF Inv, Tick, vars
  <2>2. CASE file'["store"] = file["store"]
    BY <1>2, <2>1, <2>2 DEF StoreIn
  <2>3. ASSUME NEW p \in Procs, Changed(p),
               file'["store"] = Store(mem[p].policy, mem[p].entries)
        PROVE  Map!Next
    BY <2>1, <2>3, MapChange DEF Inv, Map!Next
  <2>. QED
    BY <1>2, <2>2, <2>3, StoreStep
<1>. QED
  BY <1>1, <1>2

(***************************************************************************)
(* Commands that follow one another change the store by one whole put or   *)
(* compact at a time, whatever fails or crashes where.                     *)
(***************************************************************************)
THEOREM ImplementsMapCorrect == Spec => ImplementsMap
BY InvCorrect, MapInit, MapStep, PTL DEF Spec, ImplementsMap, Map!Spec
-----------------------------------------------------------------------------
(***************************************************************************)
(* The times of the entries, and what an eviction therefore spares.        *)
(***************************************************************************)
LEMMA RemovalStamped ==
  ASSUME NEW entries \in Lists, NEW i \in DOMAIN entries, NEW t \in Nat, Stamped(entries, t)
  PROVE  Stamped(RemoveAt(entries, i), t)
<1>. DEFINE rest == RemoveAt(entries, i)
<1>1. /\ entries \in Entries /\ DOMAIN entries = 1 .. Len(entries) /\ Len(entries) \in Nat
  BY EntriesForm DEF Lists
<1>2. /\ rest \in Entries /\ Len(rest) = Len(entries) - 1
      /\ \A j \in 1 .. Len(entries) - 1 : rest[j] = IF j < i THEN entries[j] ELSE entries[j + 1]
  BY <1>1, Removal
<1>3. DOMAIN rest = 1 .. Len(entries) - 1
  BY <1>2, EntriesForm
<1>. HIDE DEF rest
<1>4. ASSUME NEW j \in DOMAIN rest PROVE \E k \in DOMAIN entries : rest[j] = entries[k]
  <2>1. j \in DOMAIN entries /\ j + 1 \in DOMAIN entries
    BY <1>1, <1>3
  <2>. QED
    BY <1>2, <1>3, <2>1
<1>5. Stamped(rest, t)
  BY <1>4 DEF Stamped
<1>. QED
  BY <1>5 DEF rest

LEMMA EvictedStamped ==
  ASSUME NEW entries \in Lists, NEW policy \in Policies, NEW u \in Nat, NEW t \in Nat,
         Stamped(entries, t)
  PROVE  Stamped(Evicted(entries, policy, u), t)
<1>. DEFINE N == Len(entries)
<1>0. N \in Nat
  BY EntriesForm DEF Lists
<1>1. PICK turn :
        /\ Evicted(entries, policy, u) = turn[N] /\ turn[0] = entries
        /\ \A n \in 0 .. N - 1 : turn[n + 1] = Turned(turn[n], policy, u)
  BY EvictedTurns
<1>. DEFINE S == {n \in 0 .. N : turn[n] \in Lists /\ Stamped(turn[n], t)}
<1>2. 0 \in S
  BY <1>0, <1>1
<1>3. ASSUME NEW n \in 0 .. N - 1, n \in S PROVE n + 1 \in S
  <2>1. turn[n] \in Lists /\ Stamped(turn[n], t) /\ turn[n + 1] = Turned(turn[n], policy, u)
    BY <1>1, <1>3
  <2>2. turn[n + 1] \in Lists /\ n + 1 \in 0 .. N
    BY <1>0, <2>1, TurnedIn
  <2>3. Stamped(turn[n + 1], t)
    BY <2>1, TurnedIn, RemovalStamped DEF Turned
  <2>. QED
    BY <2>2, <2>3
<1>4. N \in S
  <2>. HIDE DEF S, N
  <2>. QED
    BY <1>0, <1>2, <1>3, InductUpTo
<1>. QED
  BY <1>1, <1>4

LEMMA UpsertStamped ==
  ASSUME NEW entries \in Lists, NEW key, NEW value, NEW size, NEW t \in Nat, Stamped(entries, t)
  PROVE  Stamped(Upsert(entries, key, value, size, t), t)
<1>. DEFINE new == Entry(key, value, size, t)
<1>0. /\ entries \in Seq(EntryRecord) /\ DOMAIN entries = 1 .. Len(entries) /\ Len(entries) \in Nat
      /\ new.created = t /\ new.updated = t /\ new.accessed = t
  BY EntriesForm DEF Lists, Entry
<1>1. CASE Upsert(entries, key, value, size, t) = Append(entries, new)
  <2>1. Stamped(Append(entries, new), t)
    <3>. HIDE DEF new
    <3>1. /\ DOMAIN Append(entries, new) = 1 .. Len(entries) + 1
          /\ \A j \in 1 .. Len(entries) : Append(entries, new)[j] = entries[j]
          /\ Append(entries, new)[Len(entries) + 1] = new
      BY <1>0
    <3>2. t <= t
      OBVIOUS
    <3>3. ASSUME NEW j \in 1 .. Len(entries) + 1
          PROVE  \/ j \in DOMAIN entries /\ Append(entries, new)[j] = entries[j]
                 \/ Append(entries, new)[j] = new
      BY <1>0, <3>1
    <3>. QED
      BY <1>0, <3>1, <3>2, <3>3 DEF Stamped
  <2>. QED
    BY <1>1, <2>1
<1>2. ASSUME NEW i \in 1 .. Len(entries),
             Upsert(entries, key, value, size, t) =
               [entries EXCEPT ![i] = [new EXCEPT !.created = entries[i].created]]
      PROVE  Stamped(Upsert(entries, key, value, size, t), t)
  <2>. DEFINE put == [new EXCEPT !.created = entries[i].created]
  <2>1. put.created = entries[i].created /\ put.updated = t /\ put.accessed = t
    BY DEF Entry
  <2>2. put.created <= t /\ put.updated <= t /\ put.accessed <= t
    BY <1>0, <2>1 DEF Stamped
  <2>. HIDE DEF put
  <2>3. Stamped([entries EXCEPT ![i] = put], t)
    BY <1>0, <2>2 DEF Stamped
  <2>. QED
    BY <1>2, <2>3 DEF put
<1>. QED
  BY <1>1, <1>2, UpsertForm

LEMMA StampsInit == Init => StampsInv
<1> SUFFICES ASSUME Init PROVE StampsInv
  OBVIOUS
<1>1. Stamped(<<>>, 0)
  BY DEF Stamped
<1>2. file["store"] \in InitialFiles /\ tmp["store"] = Absent /\ now = 0
  BY DEF Init, Names
<1>3. \A p \in Procs : mem[p].entries = <<>>
  BY DEF Init, NoStore
<1>. QED
  BY <1>1, <1>2, <1>3, PastAssumption DEF StampsInv, Absent

LEMMA LaterStamped ==
  ASSUME NEW entries \in Lists, NEW t \in Nat, NEW u \in Nat, t <= u, Stamped(entries, t)
  PROVE  Stamped(entries, u)
<1>1. \A i \in DOMAIN entries :
        entries[i].created \in Nat /\ entries[i].updated \in Nat /\ entries[i].accessed \in Nat
  BY EntriesForm DEF Lists
<1>. QED
  BY <1>1 DEF Stamped

LEMMA WorkedStamped ==
  ASSUME TypeInv, StampsInv, NEW p \in Procs, Put(p) \/ Compact(p)
  PROVE  Stamped(Worked(p), now)
<1>0. /\ mem[p].policy \in Policies /\ mem[p].entries \in Lists
      /\ now \in Nat /\ now \in 0 .. MaxTime /\ cmd[p] \in Commands \cup {NoCmd}
      /\ Stamped(mem[p].entries, now)
  BY BoundsAssumption DEF TypeInv, CopiesInv, Controls, StampsInv
<1>1. CASE cmd[p].op = "put"
  <2>1. cmd[p].key \in Keys /\ cmd[p].value \in 0 .. MaxCommands /\ cmd[p].size \in Sizes
    BY <1>0, <1>1 DEF Commands, NoCmd, Values
  <2>2. WithPut(p) \in Lists /\ Stamped(WithPut(p), now)
    BY <1>0, <2>1, UpsertIn, UpsertStamped DEF WithPut
  <2>. QED
    BY <1>0, <1>1, <2>2, EvictedStamped DEF Worked
<1>2. CASE cmd[p].op # "put"
  BY <1>0, <1>2, EvictedStamped DEF Worked
<1>. QED
  BY <1>1, <1>2

\* What may stand in a file of the store after a step.
LEMMA TextsStep ==
  ASSUME TypeInv, [Next]_vars
  PROVE  \A f \in {file'["store"], tmp'["store"]} :
           \/ f \in NoText \cup {file["store"], tmp["store"]}
           \/ \E p \in Procs : f = Store(mem[p].policy, mem[p].entries)
<1>0. /\ Controls /\ CopiesInv /\ FilesInv
      /\ file \in [Names -> Texts] /\ tmp \in [Names -> Texts]
      /\ "store" \in Names /\ "agents" \in Names
  BY DEF TypeInv, FilesInv, Names
<1>1. Absent \in NoText /\ Empty \in NoText /\ Torn \in NoText
  BY DEF NoText
<1>2. ASSUME NEW p \in Procs, Open(p)
      PROVE  file'["store"] = file["store"] /\ tmp'["store"] \in {tmp["store"], Empty}
  <2>1. target[p] \in Names /\ file' = file /\ tmp' = [tmp EXCEPT ![target[p]] = Empty]
    BY <1>0, <1>2 DEF Open, Controls
  <2>. QED
    BY <1>0, <2>1
<1>3. ASSUME NEW p \in Procs, RenameStore(p) \/ RenameAgents(p)
      PROVE  /\ file'["store"] \in {file["store"], tmp["store"]}
             /\ tmp'["store"] \in {tmp["store"], Absent}
  BY <1>0, <1>3 DEF RenameStore, RenameAgents, Move
<1>4. ASSUME NEW p \in Procs, Write(p)
      PROVE  \A f \in {file'["store"], tmp'["store"]} :
                f \in {file["store"], tmp["store"], Torn, Store(mem[p].policy, mem[p].entries)}
  <2>1. target[p] \in Names /\ mem[p] \in [policy : Policies, entries : Lists]
        /\ WriteTo(p, Text(p))
    BY <1>0, <1>4 DEF Controls, CopiesInv, Write
  <2>2. /\ file'["store"] = file["store"]
           \/ ("store" = target[p] /\ file'["store"] \in {Text(p), Torn})
        /\ tmp'["store"] = tmp["store"]
           \/ ("store" = target[p] /\ tmp'["store"] \in {Text(p), Torn})
    BY <1>0, <2>1, TextIn, WriteEffect
  <2>. QED
    BY <2>1, <2>2, TextIn
<1>5. ASSUME NEW p \in Procs, Fails(p) \/ Crash(p)
      PROVE  /\ file'["store"] \in {file["store"], Torn}
             /\ tmp'["store"] \in {tmp["store"], Torn}
  <2>1. target[p] \in Names /\ CutShort(p)
    BY <1>0, <1>5 DEF Controls, Fails, Crash
  <2>. QED
    BY <1>0, <2>1, CutEffect
<1>6. ASSUME NEW p \in Procs,
             Start(p) \/ Load(p) \/ LoadCorrupt(p) \/ Put(p) \/ Compact(p) \/ Query(p)
      PROVE  file' = file /\ tmp' = tmp
  BY <1>6 DEF Start, Load, LoadCorrupt, Put, Compact, EvictAndReport, Query
<1>7. CASE Tick \/ UNCHANGED vars
  BY <1>7 DEF Tick, vars
<1>. QED
  BY <1>1, <1>2, <1>3, <1>4, <1>5, <1>6, <1>7 DEF Next

\* What a process may hold after a step.
LEMMA CopiesOrigin ==
  ASSUME TypeInv, [Next]_vars, NEW p \in Procs
  PROVE  \/ mem'[p].entries = <<>>
         \/ mem'[p].entries = mem[p].entries
         \/ file["store"].is = "store" /\ mem'[p].entries = file["store"].entries /\ now' = now
         \/ (Put(p) \/ Compact(p)) /\ mem'[p].entries = Worked(p) /\ now' = now
<1>0. Controls /\ CopiesInv /\ Kinds
  BY DEF TypeInv
<1>1. ASSUME NEW q \in Procs, Load(q)
      PROVE  \/ mem'[p] = mem[p] \/ mem'[p].entries = <<>>
             \/ /\ file["store"].is = "store" /\ now' = now
                /\ mem'[p].entries = file["store"].entries
  <2>1. /\ mem' = [mem EXCEPT ![q] =
             IF file["store"] = Absent THEN NoStore
             ELSE [policy |-> file["store"].policy, entries |-> file["store"].entries]]
        /\ file["store"].is \in {"absent", "store"} /\ now' = now
    BY <1>1 DEF Load, Loadable
  <2>2. file["store"] # Absent => file["store"].is = "store"
    BY <1>0, <2>1, NoTextFields DEF Kinds, Names
  <2>. QED
    BY <1>0, <2>1, <2>2 DEF CopiesInv, NoStore
<1>2. ASSUME NEW q \in Procs, Put(q) \/ Compact(q)
      PROVE  \/ mem'[p] = mem[p]
             \/ (Put(p) \/ Compact(p)) /\ mem'[p].entries = Worked(p) /\ now' = now
  <2>1. mem' = [mem EXCEPT ![q].entries = Worked(q)] /\ now' = now
    BY <1>2, WorkEffect
  <2>. QED
    BY <1>0, <1>2, <2>1 DEF CopiesInv
<1>3. ASSUME NEW q \in Procs, LoadCorrupt(q) \/ Query(q) \/ RenameAgents(q) \/ Fails(q) \/ Crash(q)
      PROVE  mem'[p] = mem[p] \/ mem'[p].entries = <<>>
  <2>1. mem' = [mem EXCEPT ![q] = NoStore]
    BY <1>3 DEF LoadCorrupt, Query, RenameAgents, Fails, Crash, Leave
  <2>. QED
    BY <1>0, <2>1 DEF CopiesInv, NoStore
<1>4. ASSUME NEW q \in Procs, Start(q) \/ Open(q) \/ Write(q) \/ RenameStore(q)
      PROVE  mem' = mem
  BY <1>4 DEF Start, Open, Write, RenameStore
<1>5. CASE Tick \/ UNCHANGED vars
  BY <1>5 DEF Tick, vars
<1>. QED
  BY <1>1, <1>2, <1>3, <1>4, <1>5 DEF Next

LEMMA StampsStep == TypeInv /\ StampsInv /\ [Next]_vars => StampsInv'
<1> SUFFICES ASSUME TypeInv, StampsInv, [Next]_vars PROVE StampsInv'
  OBVIOUS
<1>0. /\ TypeInv' /\ now \in Nat /\ now' \in Nat /\ now <= now'
  <2>1. TypeInv'
    BY TypesStep
  <2>2. now \in 0 .. MaxTime /\ now' \in 0 .. MaxTime /\ MaxTime \in Nat
    BY <2>1, BoundsAssumption DEF TypeInv, Controls
  <2>3. now' = now \/ now' = now + 1
    BY DEF Next, Tick, vars, Start, Load, LoadCorrupt, Put, Compact, EvictAndReport, Query,
           Open, Write, RenameStore, RenameAgents, Fails, Crash
  <2>. QED
    BY <2>1, <2>2, <2>3
<1>1. \A f \in NoText : f.is # "store"
  BY NoTextFields
<1>2. \A f \in StoreTexts : f.entries \in Lists
  BY DEF StoreTexts
<1>3. \A p \in Procs : mem[p].policy \in Policies /\ mem[p].entries \in Lists
  BY DEF TypeInv, CopiesInv
<1>4. <<>> \in Lists /\ Stamped(<<>>, now')
  BY DEF Lists, Entries, Distinct, Stamped
<1>5. ASSUME NEW p \in Procs PROVE Stamped(mem'[p].entries, now')
  <2>1. Stamped(mem[p].entries, now')
    BY <1>0, <1>3, LaterStamped DEF StampsInv
  <2>. QED
    BY <1>4, <2>1, CopiesOrigin, WorkedStamped DEF StampsInv
<1>6. ASSUME NEW f \in {file'["store"], tmp'["store"]}, f.is = "store"
      PROVE  Stamped(f.entries, now')
  <2>1. CASE f \in {file["store"], tmp["store"]}
    <3>1. f \in NoText \/ f \in StoreTexts
      BY <2>1, StoreRead DEF TypeInv, Names
    <3>2. f.entries \in Lists /\ Stamped(f.entries, now)
      BY <1>1, <1>2, <1>6, <2>1, <3>1 DEF StampsInv
    <3>. QED
      BY <1>0, <3>2, LaterStamped
  <2>2. ASSUME NEW p \in Procs, f = Store(mem[p].policy, mem[p].entries)
        PROVE  Stamped(f.entries, now')
    BY <1>0, <1>3, <2>2, StoreFields, LaterStamped DEF StampsInv
  <2>. QED
    BY <1>1, <1>6, <2>1, <2>2, TextsStep
<1>. QED
  BY <1>5, <1>6 DEF StampsInv

LEMMA BytesOne ==
  ASSUME NEW entries, Sized(entries), Len(entries) = 1
  PROVE  BytesTotal(entries) = entries[1].size
<1>1. PICK sum : IsSum(entries, sum) /\ BytesTotal(entries) = sum[Len(entries)]
  <2>1. \E sum : IsSum(entries, sum)
    BY SumExists
  <2>2. BytesTotal(entries) = (CHOOSE sum : IsSum(entries, sum))[Len(entries)]
    BY DEF BytesTotal, IsSum
  <2>. QED
    BY <2>1, <2>2
<1>2. sum[0] = 0 /\ sum[1] = sum[0] + entries[1].size
  BY <1>1 DEF IsSum
<1>. QED
  BY <1>1, <1>2 DEF Sized

(***************************************************************************)
(* The entry at k is the youngest of the list, as the policy counts: it is *)
(* the last one and no other has a later time, or lru is the policy and    *)
(* every other was used in an earlier second.                              *)
(***************************************************************************)
Youngest(entries, k, policy, t) ==
  \/ /\ k = Len(entries) /\ Stamped(entries, t)
     /\ entries[k].created = t /\ entries[k].updated = t /\ entries[k].accessed = t
  \/ /\ policy.eviction = "lru" /\ entries[k].accessed = t
     /\ \A j \in DOMAIN entries \ {k} : entries[j].accessed < t

Kept(entries, k, key, value, policy, t) ==
  /\ k \in 1 .. Len(entries)
  /\ entries[k].key = key /\ entries[k].value = value /\ entries[k].size <= policy.max_bytes
  /\ Youngest(entries, k, policy, t)

LEMMA NotOldest ==
  ASSUME NEW entries \in Lists, NEW policy \in Policies, NEW t \in Nat, NEW k \in 1 .. Len(entries),
         Youngest(entries, k, policy, t), NEW among \in SUBSET DOMAIN entries, NEW j \in among,
         j # k, NEW stamp \in {"created", "updated", "accessed"},
         policy.eviction = "lru" => stamp = "accessed"
  PROVE  Oldest(entries, among, stamp) # k
<1>0. /\ DOMAIN entries = 1 .. Len(entries) /\ Len(entries) \in Nat
      /\ \A i \in 1 .. Len(entries) :
           /\ entries[i].created \in Nat /\ entries[i].updated \in Nat
           /\ entries[i].accessed \in Nat
  BY EntriesForm DEF Lists
<1>1. SUFFICES ASSUME Oldest(entries, among, stamp) = k PROVE FALSE
  OBVIOUS
<1>2. /\ among \in SUBSET Nat /\ among # {}
      /\ \A i \in among : entries[i][stamp] \in Nat
  BY <1>0
<1>3. entries[k][stamp] < entries[j][stamp]
      \/ (entries[k][stamp] = entries[j][stamp] /\ k < j)
  <2>. DEFINE o == Oldest(entries, among, stamp)
  <2>1. \A i \in among \ {o} :
           \/ entries[o][stamp] < entries[i][stamp]
           \/ entries[o][stamp] = entries[i][stamp] /\ o < i
    BY <1>2, OldestIn
  <2>2. o = k /\ j \in among \ {k}
    BY <1>1
  <2>. HIDE DEF o
  <2>. QED
    BY <2>1, <2>2
<1>4. CASE /\ k = Len(entries) /\ Stamped(entries, t)
           /\ entries[k].created = t /\ entries[k].updated = t /\ entries[k].accessed = t
  <2>1. entries[k][stamp] = t /\ j \in DOMAIN entries
    BY <1>4
  <2>2. entries[j][stamp] <= t
    BY <1>4, <2>1 DEF Stamped
  <2>3. j <= k
    BY <1>0, <1>4
  <2>4. entries[j][stamp] \in Nat /\ k \in Nat /\ j \in Nat
    BY <1>0, <1>2
  <2>. QED
    BY <1>3, <2>1, <2>2, <2>3, <2>4
<1>5. CASE /\ policy.eviction = "lru" /\ entries[k].accessed = t
           /\ \A i \in DOMAIN entries \ {k} : entries[i].accessed < t
  <2>1. stamp = "accessed"
    BY <1>5
  <2>2. entries[k][stamp] = t /\ entries[j][stamp] < t /\ entries[j][stamp] \in Nat
    BY <1>2, <1>5, <2>1
  <2>. QED
    BY <1>3, <2>2
<1>. QED
  BY <1>4, <1>5 DEF Youngest

LEMMA VictimOther ==
  ASSUME NEW entries \in Lists, NEW policy \in Policies, NEW t \in Nat, NEW k, NEW key, NEW value,
         policy.max_entries > 0, Kept(entries, k, key, value, policy, t), Over(entries, policy)
  PROVE  Victim(entries, policy, t) # k
<1>. DEFINE expired == {i \in DOMAIN entries : entries[i].updated =< t - policy.ttl}
<1>0. /\ DOMAIN entries = 1 .. Len(entries) /\ Len(entries) \in Nat /\ Sized(entries)
      /\ k \in 1 .. Len(entries) /\ Youngest(entries, k, policy, t)
      /\ entries[k].size <= policy.max_bytes
      /\ policy.max_bytes \in Nat /\ policy.max_entries \in Nat /\ policy.ttl \in Nat
      /\ policy.eviction \in {"fifo", "lru", "ttl"}
  BY EntriesForm DEF Lists, Kept, Policies
<1>1. Len(entries) > 1
  <2>1. CASE Len(entries) = 1
    <3>1. BytesTotal(entries) = entries[1].size /\ k = 1
      BY <1>0, <2>1, BytesOne
    <3>2. BytesTotal(entries) <= policy.max_bytes /\ BytesTotal(entries) \in Nat
      BY <1>0, <3>1, BytesNat
    <3>. QED
      BY <1>0, <2>1, <3>2 DEF Over
  <2>. QED
    BY <1>0, <2>1
<1>2. PICK j \in DOMAIN entries : j # k
  <2>1. 1 \in DOMAIN entries /\ 2 \in DOMAIN entries
    BY <1>0, <1>1
  <2>. QED
    BY <2>1
<1>3. CASE policy.eviction = "fifo"
  <2>1. Oldest(entries, DOMAIN entries, "created") # k
    BY <1>0, <1>2, <1>3, NotOldest
  <2>. QED
    BY <1>3, <2>1 DEF Victim
<1>4. CASE policy.eviction = "lru"
  <2>1. Oldest(entries, DOMAIN entries, "accessed") # k
    <3>1. /\ k \in 1 .. Len(entries) /\ Youngest(entries, k, policy, t)
          /\ DOMAIN entries \in SUBSET DOMAIN entries /\ j \in DOMAIN entries /\ j # k
      BY <1>0, <1>2
    <3>2. \A stamp \in {"created", "updated", "accessed"} :
            stamp = "accessed" => Oldest(entries, DOMAIN entries, stamp) # k
      BY <3>1, NotOldest
    <3>. QED
      BY <3>2
  <2>. QED
    BY <1>4, <2>1 DEF Victim
<1>5. CASE policy.eviction = "ttl"
  <2>1. k = Len(entries) /\ Stamped(entries, t) /\ entries[k].updated = t
    BY <1>0, <1>5 DEF Youngest
  <2>2. CASE expired = {}
    <3>1. Victim(entries, policy, t) = 1
      BY <1>5, <2>2 DEF Victim
    <3>. QED
      BY <1>0, <1>1, <2>1, <3>1
  <2>3. CASE expired # {}
    <3>1. Victim(entries, policy, t) = Oldest(entries, expired, "updated")
      BY <1>5, <2>3 DEF Victim
    <3>2. \E i \in expired : i # k
      <4>1. CASE k \notin expired
        BY <2>3, <4>1
      <4>2. CASE k \in expired
        <5>1. policy.ttl = 0
          BY <1>0, <2>1, <4>2
        <5>2. entries[j].updated <= t /\ t - policy.ttl = t
          BY <1>2, <2>1, <5>1 DEF Stamped
        <5>. QED
          BY <1>2, <5>2
      <4>. QED
        BY <4>1, <4>2
    <3>3. expired \in SUBSET DOMAIN entries
      OBVIOUS
    <3>. HIDE DEF expired
    <3>4. Oldest(entries, expired, "updated") # k
      BY <1>0, <1>5, <3>2, <3>3, NotOldest
    <3>. QED
      BY <3>1, <3>4
  <2>. QED
    BY <2>2, <2>3
<1>. QED
  BY <1>0, <1>3, <1>4, <1>5

LEMMA RemovalKeeps ==
  ASSUME NEW entries \in Lists, NEW policy \in Policies, NEW t \in Nat, NEW k, NEW key, NEW value,
         Kept(entries, k, key, value, policy, t), NEW i \in DOMAIN entries, i # k
  PROVE  \E m : Kept(RemoveAt(entries, i), m, key, value, policy, t)
<1>. DEFINE rest == RemoveAt(entries, i)
            m == IF i < k THEN k - 1 ELSE k
<1>1. /\ entries \in Entries /\ DOMAIN entries = 1 .. Len(entries) /\ Len(entries) \in Nat
      /\ k \in 1 .. Len(entries) /\ i \in 1 .. Len(entries)
  BY EntriesForm DEF Lists, Kept
<1>2. /\ rest \in Entries /\ Len(rest) = Len(entries) - 1
      /\ \A j \in 1 .. Len(entries) - 1 : rest[j] = IF j < i THEN entries[j] ELSE entries[j + 1]
  BY <1>1, Removal
<1>3. DOMAIN rest = 1 .. Len(entries) - 1
  BY <1>2, EntriesForm
<1>4. Stamped(entries, t) => Stamped(rest, t)
  BY RemovalStamped
<1>. HIDE DEF rest
<1>5. m \in 1 .. Len(rest) /\ rest[m] = entries[k] /\ (k = Len(entries) => m = Len(rest))
  <2>0. i \in Int /\ k \in Int /\ i # k /\ 1 <= k /\ i <= Len(entries) /\ Len(entries) \in Nat
    BY <1>1
  <2>1. CASE i < k
    <3>1. m = k - 1 /\ m \in 1 .. Len(entries) - 1 /\ ~(m < i) /\ m + 1 = k
      BY <1>1, <2>1
    <3>. QED
      BY <1>1, <1>2, <3>1
  <2>2. CASE k < i
    <3>1. m = k
      BY <2>0, <2>2
    <3>2. k \in 1 .. Len(entries) - 1 /\ k # Len(entries)
      BY <2>0, <2>2
    <3>. QED
      BY <1>1, <1>2, <2>2, <3>1, <3>2
  <2>. QED
    <3>1. i < k \/ k < i
      BY <2>0
    <3>. QED
      BY <2>1, <2>2, <3>1
<1>6. ASSUME NEW j \in DOMAIN rest, j # m
      PROVE  \E l \in DOMAIN entries \ {k} : rest[j] = entries[l]
  <2>. DEFINE l == IF j < i THEN j ELSE j + 1
  <2>1. l \in DOMAIN entries /\ l # k /\ rest[j] = entries[l]
    BY <1>1, <1>2, <1>3, <1>6
  <2>. QED
    BY <2>1
<1>. HIDE DEF m
<1>7. Youngest(rest, m, policy, t)
  <2>1. CASE k = Len(entries) /\ Stamped(entries, t) /\ entries[k].created = t
             /\ entries[k].updated = t /\ entries[k].accessed = t
    BY <1>4, <1>5, <2>1 DEF Youngest
  <2>2. CASE policy.eviction = "lru" /\ entries[k].accessed = t
             /\ \A j \in DOMAIN entries \ {k} : entries[j].accessed < t
    BY <1>5, <1>6, <2>2 DEF Youngest
  <2>. QED
    BY <2>1, <2>2 DEF Kept, Youngest
<1>8. Kept(rest, m, key, value, policy, t)
  BY <1>5, <1>7 DEF Kept
<1>. QED
  BY <1>8 DEF rest

\* An eviction spares the youngest entry that fits.
LEMMA EvictedKeeps ==
  ASSUME NEW entries \in Lists, NEW policy \in Policies, NEW t \in Nat, NEW key, NEW value,
         policy.max_entries > 0, \E k : Kept(entries, k, key, value, policy, t)
  PROVE  \E k : Kept(Evicted(entries, policy, t), k, key, value, policy, t)
<1>. DEFINE N == Len(entries)
            Keeps(list) == \E k : Kept(list, k, key, value, policy, t)
<1>0. N \in Nat
  BY EntriesForm DEF Lists
<1>1. PICK turn :
        /\ Evicted(entries, policy, t) = turn[N] /\ turn[0] = entries
        /\ \A n \in 0 .. N - 1 : turn[n + 1] = Turned(turn[n], policy, t)
  BY EvictedTurns
<1>. DEFINE S == {n \in 0 .. N : turn[n] \in Lists /\ Keeps(turn[n])}
<1>2. 0 \in S
  BY <1>0, <1>1
<1>3. ASSUME NEW n \in 0 .. N - 1, n \in S PROVE n + 1 \in S
  <2>. DEFINE list == turn[n]
  <2>1. list \in Lists /\ turn[n + 1] = Turned(list, policy, t)
    BY <1>1, <1>3
  <2>2. PICK k : Kept(list, k, key, value, policy, t)
    BY <1>3
  <2>. HIDE DEF list
  <2>3. turn[n + 1] \in Lists /\ n + 1 \in 0 .. N
    BY <1>0, <2>1, TurnedIn
  <2>4. CASE Over(list, policy)
    <3>1. Victim(list, policy, t) # k /\ Victim(list, policy, t) \in DOMAIN list
      BY <2>1, <2>2, <2>4, VictimOther, TurnedIn
    <3>2. turn[n + 1] = RemoveAt(list, Victim(list, policy, t))
      BY <2>1, <2>4 DEF Turned
    <3>. QED
      BY <2>1, <2>2, <2>3, <3>1, <3>2, RemovalKeeps
  <2>5. CASE ~Over(list, policy)
    BY <2>1, <2>2, <2>3, <2>5 DEF Turned
  <2>. QED
    BY <2>4, <2>5
<1>4. N \in S
  <2>. HIDE DEF S, N
  <2>. QED
    BY <1>0, <1>2, <1>3, InductUpTo
<1>. QED
  BY <1>1, <1>4

\* What a put wrote is the youngest entry, where PutIsSafe says so.
LEMMA PutYoungest ==
  ASSUME NEW entries \in Lists, NEW policy \in Policies, NEW t \in Nat,
         NEW key, NEW value, NEW size \in Nat, size <= policy.max_bytes, Stamped(entries, t),
         \/ key \notin KeysOf(entries)
         \/ /\ policy.eviction = "lru"
            /\ \A i \in DOMAIN entries : entries[i].key # key => entries[i].accessed < t
  PROVE  \E k : Kept(Upsert(entries, key, value, size, t), k, key, value, policy, t)
<1>. DEFINE new == Entry(key, value, size, t)
            list == Upsert(entries, key, value, size, t)
<1>0. /\ entries \in Seq(EntryRecord) /\ Distinct(entries)
      /\ DOMAIN entries = 1 .. Len(entries) /\ Len(entries) \in Nat
  BY EntriesForm DEF Lists
<1>1. /\ new.key = key /\ new.value = value /\ new.size = size
      /\ new.created = t /\ new.updated = t /\ new.accessed = t
  BY DEF Entry
<1>2. Stamped(list, t)
  BY UpsertStamped
<1>3. CASE list = Append(entries, new)
  <2>. DEFINE k == Len(entries) + 1
  <2>1. k \in 1 .. Len(list) /\ k = Len(list) /\ list[k] = new
    <3>. HIDE DEF new, list
    <3>. QED
      BY <1>0, <1>3
  <2>. HIDE DEF new, list, k
  <2>2. Kept(list, k, key, value, policy, t)
    BY <1>1, <1>2, <2>1 DEF Kept, Youngest
  <2>. QED
    BY <2>2 DEF list
<1>4. ASSUME NEW i \in 1 .. Len(entries), entries[i].key = key,
             list = [entries EXCEPT ![i] = [new EXCEPT !.created = entries[i].created]]
      PROVE  \E k : Kept(list, k, key, value, policy, t)
  <2>. DEFINE put == [new EXCEPT !.created = entries[i].created]
  <2>1. put.key = key /\ put.value = value /\ put.size = size /\ put.accessed = t
    BY DEF Entry
  <2>2. key \in KeysOf(entries)
    BY <1>0, <1>4 DEF KeysOf
  <2>3. policy.eviction = "lru" /\ \A j \in DOMAIN entries \ {i} : entries[j].accessed < t
    BY <1>0, <1>4, <2>2 DEF Distinct
  <2>. HIDE DEF put, list
  <2>4. /\ DOMAIN list = 1 .. Len(entries) /\ Len(list) = Len(entries) /\ list[i] = put
        /\ \A j \in DOMAIN list \ {i} : list[j] = entries[j]
    BY <1>0, <1>4 DEF put
  <2>5. Kept(list, i, key, value, policy, t)
    BY <1>0, <2>1, <2>3, <2>4 DEF Kept, Youngest
  <2>. QED
    BY <2>5
<1>. QED
  BY <1>3, <1>4, UpsertForm

LEMMA PutStep ==
  ASSUME TypeInv, StampsInv, [Next]_vars, NEW p \in Procs,
         pc[p] = "work", pc'[p] = "open", cmd[p].op = "put", PutFits(p), PutIsSafe(p)
  PROVE  \E i \in DOMAIN mem'[p].entries :
            mem'[p].entries[i].key = cmd[p].key /\ mem'[p].entries[i].value = cmd[p].value
<1>0. /\ Controls /\ CopiesInv
      /\ mem[p].policy \in Policies /\ mem[p].entries \in Lists
      /\ now \in Nat /\ now \in 0 .. MaxTime /\ cmd[p] \in Commands \cup {NoCmd}
      /\ Stamped(mem[p].entries, now)
  BY BoundsAssumption DEF TypeInv, CopiesInv, Controls, StampsInv
<1>1. PICK q \in Procs : Start(q) \/ Moves(q)
  BY NextSplit DEF Tick, vars
<1>2. q = p
  BY <1>0, <1>1, MoveOthers DEF Start, Controls
<1>3. Put(p)
  <2>1. CASE LoadCorrupt(p) \/ Query(p) \/ RenameAgents(p) \/ Fails(p) \/ Crash(p)
    <3>1. \E how : Leave(p, how)
      BY <2>1 DEF LoadCorrupt, Query, RenameAgents, Fails, Crash
    <3>. QED
      BY <1>0, <3>1, LeaveEffect
  <2>2. ~Compact(p) /\ ~Start(p) /\ ~Load(p) /\ ~Open(p) /\ ~Write(p) /\ ~RenameStore(p)
    BY DEF Compact, Start, Load, Open, Write, RenameStore
  <2>. QED
    BY <1>1, <1>2, <2>1, <2>2 DEF Moves
<1>4. /\ cmd[p].key \in Keys /\ cmd[p].value \in 0 .. MaxCommands /\ cmd[p].size \in Sizes
      /\ cmd[p].size \in Nat
  <2>1. cmd[p].key \in Keys /\ cmd[p].value \in 0 .. MaxCommands /\ cmd[p].size \in Sizes
    BY <1>0 DEF Commands, NoCmd, Values
  <2>. QED
    BY <2>1, BoundsAssumption
<1>5. WithPut(p) \in Lists
  BY <1>0, <1>4, UpsertIn DEF WithPut
<1>6. \E k : Kept(WithPut(p), k, cmd[p].key, cmd[p].value, mem[p].policy, now)
  BY <1>0, <1>4, PutYoungest DEF WithPut, PutFits, PutIsSafe
<1>7. PICK k : Kept(Worked(p), k, cmd[p].key, cmd[p].value, mem[p].policy, now)
  BY <1>0, <1>5, <1>6, EvictedKeeps DEF Worked, PutFits
<1>8. mem'[p].entries = Worked(p) /\ Worked(p) \in Lists
  <2>1. mem' = [mem EXCEPT ![p].entries = Worked(p)] /\ Worked(p) \in Lists
    BY <1>3, WorkEffect
  <2>. QED
    BY <1>0, <2>1 DEF CopiesInv
<1>9. k \in DOMAIN Worked(p)
  BY <1>7, <1>8, EntriesForm DEF Kept, Lists
<1>. QED
  BY <1>7, <1>8, <1>9 DEF Kept

(***************************************************************************)
(* A put keeps the entry it was called for: no eviction of its own, of     *)
(* however many turns, takes an entry that fits by itself and is the       *)
(* youngest as the policy counts.                                          *)
(***************************************************************************)
THEOREM PutCorrect == Spec => PutSurvives
<1>1. Init => TypeInv /\ StampsInv
  BY TypesInit, StampsInit
<1>2. TypeInv /\ StampsInv /\ [Next]_vars => (TypeInv /\ StampsInv)'
  BY TypesStep, StampsStep
<1>3. TypeInv /\ StampsInv /\ [Next]_vars =>
        [\A p \in Procs :
          /\ pc[p] = "work" /\ pc'[p] = "open" /\ cmd[p].op = "put"
          /\ PutFits(p) /\ PutIsSafe(p)
          => \E i \in DOMAIN mem'[p].entries :
                /\ mem'[p].entries[i].key = cmd[p].key
                /\ mem'[p].entries[i].value = cmd[p].value]_vars
  BY PutStep
<1>. QED
  BY <1>1, <1>2, <1>3, PTL DEF Spec, PutSurvives
=============================================================================

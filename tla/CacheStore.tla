------------------------------ MODULE CacheStore ------------------------------
(***************************************************************************)
(* `MemoryCacheStore` as functions of a store: its entries, each with a    *)
(* value and the time it expires at, and the keys in order of their use,   *)
(* the least recent first.                                                 *)
(***************************************************************************)
EXTENDS Integers, Sequences, FiniteSets, FiniteSetsExt

EmptyStore == [entries |-> <<>>, lru |-> <<>>]

\* Fault: the key stays where it was.
Without_Keeps(lru, key) == lru

Without(lru, key) ==
    LET kept[n \in 0..Len(lru)] ==
            IF n = 0 THEN <<>>
            ELSE IF lru[n] = key THEN kept[n - 1] ELSE Append(kept[n - 1], lru[n])
    IN  kept[Len(lru)]

\* Fault: the key used last is the first to go.
Touch_Front(lru, key) == <<key>> \o Without(lru, key)

Touch(lru, key) == Append(Without(lru, key), key)

Holds(store, key) == key \in DOMAIN store.entries

\* Fault: an entry lives one instant too long.
Expired_Late(store, key, t) == Holds(store, key) /\ t > store.entries[key].expires

Expired(store, key, t) == Holds(store, key) /\ t >= store.entries[key].expires

Hit(store, key, t) == Holds(store, key) /\ ~Expired(store, key, t)

\* `get` drops the entry when it has expired, and else makes it the last one used.
AfterGet(store, key, t) ==
    IF Hit(store, key, t) THEN [store EXCEPT !.lru = Touch(@, key)]
    ELSE IF Expired(store, key, t)
         THEN [entries |-> [k \in DOMAIN store.entries \ {key} |-> store.entries[k]],
               lru |-> Without(store.lru, key)]
    ELSE store

(***************************************************************************)
(* `insert` replaces the entry of the key or adds one, and then takes keys *)
(* from the front of the order until no more than `max` entries are left.  *)
(***************************************************************************)
AfterInsert(store, key, value, expires, max) ==
    LET entries  == [k \in {key} \cup DOMAIN store.entries |->
                        IF k = key THEN [value |-> value, expires |-> expires]
                        ELSE store.entries[k]]
        lru      == Touch(store.lru, key)
        left(n)  == DOMAIN entries \ {lru[i] : i \in 1..n}
        n        == Min({i \in 0..Len(lru) : Cardinality(left(i)) =< max \/ i = Len(lru)})
    IN  [entries |-> [k \in left(n) |-> entries[k]],
         lru |-> SubSeq(lru, n + 1, Len(lru))]

\* An order of use that names each of the keys, once.
Line(lru, keys) ==
    /\ lru \in Seq(keys)
    /\ \A i, j \in 1..Len(lru) : lru[i] = lru[j] => i = j
    /\ \A k \in keys : \E i \in 1..Len(lru) : lru[i] = k

\* A store that holds at most `max` entries, and the order of their keys.
Ordered(store, max) ==
    /\ store = [entries |-> store.entries, lru |-> store.lru]
    /\ Line(store.lru, DOMAIN store.entries)
    /\ Len(store.lru) =< max
=============================================================================

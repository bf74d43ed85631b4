---------------------------- MODULE MemoryEntries ----------------------------
(***************************************************************************)
(* What the memory store does to its list of entries, as functions of the  *)
(* list: an upsert, and the eviction that brings the list back under its   *)
(* policy.  An entry has its key, the number and the size of its value,    *)
(* and the three timestamps, in whole seconds as `now_rfc3339` writes      *)
(* them.  Tags and the access count decide nothing and are left out.       *)
(***************************************************************************)
EXTENDS Integers, Sequences, SequencesExt

Entry(key, value, size, t) ==
    [key |-> key, value |-> value, size |-> size,
     created |-> t, updated |-> t, accessed |-> t]

KeysOf(entries) == {entries[i].key : i \in DOMAIN entries}

\* Fault: a known key is added again.
Upsert_Appends(entries, key, value, size, t) == Append(entries, Entry(key, value, size, t))

(***************************************************************************)
(* An upsert finds the first entry of the key and keeps its place and its  *)
(* time of creation; a new key goes to the end.                            *)
(***************************************************************************)
Upsert(entries, key, value, size, t) ==
    IF key \in KeysOf(entries)
    THEN LET i == SelectInSeq(entries, LAMBDA e : e.key = key)
         IN  [entries EXCEPT ![i] = [Entry(key, value, size, t) EXCEPT !.created = entries[i].created]]
    ELSE Append(entries, Entry(key, value, size, t))

BytesTotal(entries) ==
    LET sum[n \in 0..Len(entries)] == IF n = 0 THEN 0 ELSE sum[n - 1] + entries[n].size
    IN  sum[Len(entries)]

Over(entries, policy) ==
    \/ Len(entries) > policy.max_entries
    \/ BytesTotal(entries) > policy.max_bytes /\ entries # <<>>

\* Fault: the last of the positions with the least timestamp.
Oldest_Last(entries, among, stamp) ==
    CHOOSE i \in among : \A j \in among \ {i} :
        \/ entries[i][stamp] < entries[j][stamp]
        \/ entries[i][stamp] = entries[j][stamp] /\ i > j

\* The first of the positions `among` whose timestamp is the least, as min_by_key takes it.
Oldest(entries, among, stamp) ==
    CHOOSE i \in among : \A j \in among \ {i} :
        \/ entries[i][stamp] < entries[j][stamp]
        \/ entries[i][stamp] = entries[j][stamp] /\ i < j

(***************************************************************************)
(* The cutoff of ttl has its fraction of a second, the timestamps have     *)
(* none: an entry updated in the second of the cutoff is before it.        *)
(***************************************************************************)
Victim(entries, policy, t) ==
    LET expired == {i \in DOMAIN entries : entries[i].updated =< t - policy.ttl}
    IN  CASE policy.eviction = "fifo" -> Oldest(entries, DOMAIN entries, "created")
          [] policy.eviction = "lru"  -> Oldest(entries, DOMAIN entries, "accessed")
          [] policy.eviction = "ttl"  -> IF expired = {} THEN 1
                                         ELSE Oldest(entries, expired, "updated")

(***************************************************************************)
(* The loop of `evict_if_needed`, which removes one entry at a time until  *)
(* the list is under its policy: at most one turn per entry.               *)
(***************************************************************************)
Evicted(entries, policy, t) ==
    LET turn[n \in 0..Len(entries)] ==
            IF n = 0 THEN entries
            ELSE IF Over(turn[n - 1], policy)
                 THEN RemoveAt(turn[n - 1], Victim(turn[n - 1], policy, t))
                 ELSE turn[n - 1]
    IN  turn[Len(entries)]
=============================================================================

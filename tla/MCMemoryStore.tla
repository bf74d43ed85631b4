---------------------------- MODULE MCMemoryStore ----------------------------
(***************************************************************************)
(* Values for the runs of MemoryStore.  The store the commands find is     *)
(* missing, torn, or full under its policy, so that a single put has to    *)
(* evict; the last one is over its capacity because its policy was edited  *)
(* by hand.                                                                *)
(***************************************************************************)
EXTENDS MemoryStore

CONSTANTS k1, k2, k3

MCKeys == {k1, k2, k3}

Policy(entries, bytes, eviction) ==
    [max_entries |-> entries, max_bytes |-> bytes, eviction |-> eviction, ttl |-> 1]

Lru  == Policy(2, 3, "lru")
Fifo == Policy(2, 3, "fifo")
Ttl  == Policy(1, 3, "ttl")

Found == <<Entry(k1, 0, 1, 0), Entry(k2, 0, 1, 0)>>

MCFiles == {Absent, Torn} \cup {Store(policy, Found) : policy \in {Lru, Fifo, Ttl}}

Alike == Permutations(Procs)
=============================================================================

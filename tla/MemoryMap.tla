------------------------------ MODULE MemoryMap ------------------------------
(***************************************************************************)
(* What the memory store promises to commands that follow one another: the *)
(* store is one value, which a put or a compact replaces as a whole, and   *)
(* which nobody touches once it cannot be read.  Nothing is promised from  *)
(* the moment two commands have run at once (`alone` is FALSE).            *)
(***************************************************************************)
EXTENDS MemoryEntries

CONSTANTS Keys, Values, Sizes, Times,
          Unreadable,      \* what stands for a file that does not parse
          InitialStores    \* the stores the commands may find

VARIABLES store, alone

Init ==
    /\ store \in InitialStores
    /\ alone = TRUE

Put(key, value, size, t) ==
    store' = [store EXCEPT !.entries =
                Evicted(Upsert(@, key, value, size, t), store.policy, t)]

Compact(t) ==
    store' = [store EXCEPT !.entries = Evicted(@, store.policy, t)]

Change ==
    /\ store # Unreadable
    /\ \/ \E key \in Keys, value \in Values, size \in Sizes, t \in Times :
              Put(key, value, size, t)
       \/ \E t \in Times : Compact(t)

\* While commands follow one another, a change is a put or a compact.
Next == alone' => alone /\ Change

Spec == Init /\ [][Next]_<<store, alone>>
=============================================================================

------------------------------- MODULE Session -------------------------------
(***************************************************************************)
(* What a session promises about each tool call of a provider: calls are   *)
(* served in the order they were asked for and one at a time, a call that  *)
(* is held back waits for a human, what runs runs once, and a call that    *)
(* has its answer, or was given up, stays as it is.                        *)
(***************************************************************************)
EXTENDS Naturals, Sequences

CONSTANT BatchSizes  \* how many calls a provider may ask for at once

Fates ==
  {"waiting", "suspended", "running",  \* open
   "answered",                         \* it ran and its answer was given
   "refused",                          \* it was answered and never ran
   "abandoned"}                        \* it was given up without an answer

VARIABLES
  fate,     \* of each call, in the order of asking
  held,     \* the calls that only a human may let run
  decided   \* the calls a human has decided

Open == {n \in DOMAIN fate : fate[n] \in {"waiting", "suspended", "running"}}

\* The call to be served, the first open one.
InTurn(n) == n \in Open /\ \A m \in Open : n <= m

Becomes(n, new) == fate' = [fate EXCEPT ![n] = new]

Init == fate = <<>> /\ held = {} /\ decided = {}

\* The next calls, when none is left open.
Ask(size) ==
  /\ Open = {}
  /\ fate' = fate \o [i \in 1 .. size |-> "waiting"]
  /\ \E more \in SUBSET ((Len(fate) + 1) .. (Len(fate) + size)) : held' = held \cup more
  /\ UNCHANGED decided

Suspend(n) ==
  /\ fate[n] = "waiting" /\ n \in held
  /\ Becomes(n, "suspended")
  /\ UNCHANGED <<held, decided>>

Decide(n) ==
  /\ fate[n] = "suspended"
  /\ Becomes(n, "running") \/ Becomes(n, "refused")
  /\ decided' = decided \cup {n}
  /\ UNCHANGED held

Start(n) ==
  /\ fate[n] = "waiting" /\ n \notin held
  /\ Becomes(n, "running")
  /\ UNCHANGED <<held, decided>>

Refuse(n) ==
  /\ fate[n] = "waiting"
  /\ Becomes(n, "refused")
  /\ UNCHANGED <<held, decided>>

Finish(n) ==
  /\ fate[n] = "running"
  /\ Becomes(n, "answered")
  /\ UNCHANGED <<held, decided>>

\* A caller that goes away gives up all open calls, but never a suspended one.
GiveUp ==
  /\ \A n \in DOMAIN fate : fate[n] # "suspended"
  /\ fate' = [n \in DOMAIN fate |-> IF n \in Open THEN "abandoned" ELSE fate[n]]
  /\ UNCHANGED <<held, decided>>

Serve(n) == Suspend(n) \/ Decide(n) \/ Start(n) \/ Refuse(n) \/ Finish(n)

Next ==
  \/ \E size \in BatchSizes : Ask(size)
  \/ \E n \in DOMAIN fate : InTurn(n) /\ Serve(n)
  \/ GiveUp

Spec == Init /\ [][Next]_<<fate, held, decided>>
=============================================================================

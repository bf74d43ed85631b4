---------------------------- MODULE MCPromptCache ----------------------------
(***************************************************************************)
(* Values for the run of PromptCache: requests that differ in the tools    *)
(* and the summarisation event, and one that differs from the first in all *)
(* that the key leaves out: the place of the system message, the state and *)
(* the last tool results.  Options that share a partition, that differ in  *)
(* the provider alone, and that switch the caches off.                     *)
(***************************************************************************)
EXTENDS PromptCache, TLC

Says(role, text) == [role |-> role, text |-> text]

Request(tools, messages, event) ==
    [tools |-> tools, messages |-> messages, event |-> event,
     state |-> "first", last_tool_results |-> "first"]

First == <<Says("system", "s"), Says("user", "u")>>

MCRequests == {
    Request("t", First, "none"),
    Request("t", First, "cut"),
    [Request("t", <<Says("user", "u"), Says("system", "s")>>, "none")
        EXCEPT !.state = "later", !.last_tool_results = "later"],
    Request("more", First, "none")}

Caching(partition, provider, max_entries) ==
    [enabled |-> TRUE, l2 |-> TRUE, ttl |-> 0, max_entries |-> max_entries,
     provider_id |-> provider, partition |-> partition]

Common == Caching("a", "p", 2)

Others == {
    Common,
    Caching("a", "q", 2),
    Caching("b", "p", 0),
    [Common EXCEPT !.l2 = FALSE],
    [Common EXCEPT !.enabled = FALSE]}

MCConfigurations == {c \in [Sessions -> Others] : \E s \in Sessions : c[s] = Common}

Alike == Permutations(Sessions)
=============================================================================

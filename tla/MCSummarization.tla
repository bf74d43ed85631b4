--------------------------- MODULE MCSummarization ---------------------------
(***************************************************************************)
(* Values for the runs of Summarization.  A history of a few messages of   *)
(* one or five characters against a budget of four stands for 12 000      *)
(* characters.                                                             *)
(***************************************************************************)
EXTENDS Summarization

With(policy, min_recent) ==
  [enabled |-> TRUE, policy |-> policy, max_chars |-> 4, max_turns |-> 2,
   min_recent |-> min_recent, keep_last |-> 2, compact_min |-> 2]

\* A budget with recent messages to keep and with none, and turns.
MCOptions == {With("budget", 2), With("budget", 0), With("turns", 3)}
=============================================================================

---------------------------- MODULE PatchToolCalls ----------------------------
(***************************************************************************)
(* The request patching of crates/deepagents/src/runtime/                  *)
(* patch_tool_calls.rs, which runs last before every provider step and     *)
(* only on the copy of the history that the request is made of: a call     *)
(* that an assistant message announces and no later tool message answers   *)
(* gets a synthetic answer.                                                *)
(*                                                                         *)
(* A message is any record with a role and the sequence of call ids it     *)
(* announces (assistant) or answers (tool).                                *)
(***************************************************************************)
EXTENDS Naturals, Sequences, SequencesExt

\* A later tool message bears the id, whichever call it was meant for.
AnsweredLater(messages, i, id) ==
  \E j \in (i + 1) .. Len(messages) :
    messages[j].role = "tool" /\ messages[j].ids = <<id>>

PatchedAnswer(id) ==
  [role |-> "tool", ids |-> <<id>>, status |-> "patched", call |-> 0]

\* The synthetic answers that the i-th message calls for, in call order.
Missing(messages, i) ==
  IF messages[i].role # "assistant" THEN <<>>
  ELSE FlattenSeq(
         [k \in DOMAIN messages[i].ids |->
            LET id == messages[i].ids[k]
            IN  IF AnsweredLater(messages, i, id) THEN <<>> ELSE <<PatchedAnswer(id)>>])

\* Fault: all synthetic answers go to the end of the request.
Patched_AtEnd(messages) ==
  messages \o FlattenSeq([i \in DOMAIN messages |-> Missing(messages, i)])

\* patch_dangling_tool_calls: the synthetic answers stand right behind the
\* message that announced the calls, before the answers the runner gave.
Patched(messages) ==
  FlattenSeq([i \in DOMAIN messages |-> <<messages[i]>> \o Missing(messages, i)])
=============================================================================

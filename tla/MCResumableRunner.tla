-------------------------- MODULE MCResumableRunner --------------------------
(***************************************************************************)
(* Values for the runs of ResumableRunner.                                 *)
(***************************************************************************)
EXTENDS RunnerRequests, RunnerSession

CONSTANTS p1, p2  \* two call ids a provider chooses

Raw(tool, args, id) == [tool |-> tool, args |-> args, id |-> id]

MCTools == {"write_file", "read_file", "execute", "write_todos", "mystery"}

\* risky needs approval, danger is denied, partial lacks a required field.
MCArgs == {"ok", "risky", "danger", "partial", "list"}

MCVerdict ==
  [a \in MCArgs |-> CASE a = "ok" -> "allow"
                      [] a = "risky" -> "require_approval"
                      [] OTHER -> "deny"]

\* Two gated calls in one step, a free call behind a gated one, and calls
\* whose ids are generated.
GatedBatches ==
  { <<Raw("write_file", "ok", p1), Raw("write_file", "ok", p2)>>,
    <<Raw("write_file", "ok", p2), Raw("read_file", "ok", NoId)>>,
    <<Raw("read_file", "ok", NoId), Raw("execute", "risky", NoId)>> }

\* Calls that are refused: bad arguments, parallel todos, a denied command, an
\* unknown tool.
RefusedBatches ==
  { <<Raw("write_file", "list", NoId), Raw("execute", "danger", p1)>>,
    <<Raw("write_todos", "ok", NoId), Raw("write_todos", "ok", p2)>>,
    <<Raw("mystery", "ok", p2)>> }

MCBatches == GatedBatches \cup RefusedBatches

\* A gated call before a free one, a command for the policy before a gated call, and
\* a free call alone under a generated id.
DroppedBatches ==
  { <<Raw("write_file", "ok", p2), Raw("read_file", "ok", NoId)>>,
    <<Raw("execute", "risky", p2), Raw("write_file", "ok", p2)>>,
    <<Raw("read_file", "ok", NoId)>> }

\* A skill of two gated calls, which share the id of the skill call.
GatedPair == { <<Raw("write_file", "ok", NoId), Raw("write_file", "ok", NoId)>> }

DroppedArgs == {"ok", "risky", "partial"}
DroppedVerdict == [a \in DroppedArgs |-> MCVerdict[a]]

\* The batch for what the documents say of an approved command.
RiskyBatch == { <<Raw("execute", "risky", p1)>> }
=============================================================================

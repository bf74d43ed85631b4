---------------------------- MODULE MCCommandLine ----------------------------
(***************************************************************************)
(* Values for the run of CommandLine: batches with one and with two held   *)
(* back calls, which may bear the same id.                                 *)
(***************************************************************************)
EXTENDS CommandLine

CONSTANT p1   \* the id that a provider chooses

Raw(tool, args, id) == [tool |-> tool, args |-> args, id |-> id]

MCVerdict == [a \in {"ok", "bad"} |-> "allow"]

MCBatches ==
  { <<Raw("write_file", "ok", p1), Raw("read_file", "ok", NoId)>>,
    <<Raw("execute", "ok", NoId), Raw("write_file", "ok", p1)>>,
    <<Raw("delete_file", "bad", NoId)>> }
=============================================================================

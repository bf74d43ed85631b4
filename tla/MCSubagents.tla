------------------------------ MODULE MCSubagents ------------------------------
(***************************************************************************)
(* Values for the runs of Subagents: three levels of runs, a subagent      *)
(* whose result is its final text and one whose result is its last error,  *)
(* a file that exists and one that does not, skills that change.           *)
(***************************************************************************)
EXTENDS Subagents

CONSTANT Failed   \* a step of a skill that is refused

Do(tool, arg) == [tool |-> tool, arg |-> arg, valid |-> TRUE]

Item(id, status) == [id |-> id, status |-> status, full |-> status # ""]

Todos(items, merge, summary) == [todos |-> items, merge |-> merge, summary |-> summary]

NewList == Todos(<<Item("t1", "pending")>>, FALSE, FALSE)
Finish == Todos(<<Item("t1", "completed")>>, TRUE, TRUE)

\* A command that removes the file before its call is answered; what comes
\* later here is the file of a skill that timed out.
MCCommands == { [made |-> {}, removed |-> {"a"}, later |-> {}] }

\* Version 1 offers a skill whose second step is refused; version 2 offers none.
MCSkillSteps == [v \in {1} |-> <<"a", Failed>>]

MCMode == [t \in {"general", "reporter"} |->
             IF t = "general" THEN "final_text" ELSE "last_tool_error"]

\* Files are written, deleted and written again on both sides of a task, todos
\* replaced and merged, a skill chosen in front of a task that reloads it.
MCBatches ==
  { <<Do("write_todos", NewList), Do("write_file", "a"), Do("task", "general"),
      Do("skill", "any")>>,
    <<Do("execute", "allow"), Do("write_todos", Finish), Do("task", "reporter"),
      Do("delete_file", "a")>>,
    <<Do("write_todos", NewList), Do("write_todos", NewList)>> }

\* The second call is call-2 of its run, the task's first one call-1 of another.
OffloadBatches == { <<Do("execute", "allow"), Do("task", "general")>> }
=============================================================================

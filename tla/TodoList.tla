------------------------------- MODULE TodoList -------------------------------
(***************************************************************************)
(* The todo list of crates/deepagents/src/runtime/todolist_middleware.rs:  *)
(* what a write_todos call makes of state.todos.  Of a todo's content and  *)
(* priority only matters whether both are given (full); an unset status is *)
(* the empty string, as a merge stores it.                                 *)
(***************************************************************************)
EXTENDS Naturals, Sequences

CONSTANTS
  TodoIds,       \* ids of todos, trimmed
  TodoStatuses   \* "completed", others, and "" for an unset one

ASSUME TodoAssumption == "completed" \in TodoStatuses /\ "" \in TodoStatuses

\* by (history) is the run that put the item on the list.
TodoItem == [id : TodoIds, status : TodoStatuses, by : Nat]

TodoPatch == [id : TodoIds, status : TodoStatuses, full : BOOLEAN]

WriteTodosInput == [todos : Seq(TodoPatch), merge : BOOLEAN, summary : BOOLEAN]

IndexOf(todos, id) == {i \in DOMAIN todos : todos[i].id = id}

\* A patch changes the item of its id, or becomes a new item.
Patch(todos, p, by) ==
  IF IndexOf(todos, p.id) = {}
    THEN Append(todos, [id |-> p.id, status |-> p.status, by |-> by])
    ELSE [i \in DOMAIN todos |->
            IF todos[i].id = p.id /\ p.status # ""
              THEN [todos[i] EXCEPT !.status = p.status] ELSE todos[i]]

Merge(todos, patches, by) ==
  LET merged[n \in 0 .. Len(patches)] ==
        IF n = 0 THEN todos ELSE Patch(merged[n - 1], patches[n], by)
  IN  merged[Len(patches)]

Replacement(patches, by) ==
  [i \in DOMAIN patches |->
     [id |-> patches[i].id, status |-> patches[i].status, by |-> by]]

\* No id twice; a replacement needs every field.
Valid(input) ==
  /\ \A i, j \in DOMAIN input.todos : input.todos[i].id = input.todos[j].id => i = j
  /\ ~input.merge => \A i \in DOMAIN input.todos :
                       input.todos[i].full /\ input.todos[i].status # ""

Written(todos, input, by) ==
  IF input.merge THEN Merge(todos, input.todos, by) ELSE Replacement(input.todos, by)

\* Some item became completed that was not.
Completes(before, after) ==
  \E i \in DOMAIN after :
    /\ after[i].status = "completed"
    /\ \A j \in IndexOf(before, after[i].id) : before[j].status # "completed"

\* A summary without a completed item puts the list back as it was.
Accepted(todos, input, by) ==
  Valid(input) /\ (input.summary => Completes(todos, Written(todos, input, by)))

AfterWriteTodos(todos, input, by) ==
  IF Accepted(todos, input, by) THEN Written(todos, input, by) ELSE todos
=============================================================================

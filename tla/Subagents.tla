------------------------------- MODULE Subagents -------------------------------
(***************************************************************************)
(* Delegated tasks: SimpleRuntime::run (crates/deepagents/src/runtime/     *)
(* simple.rs) as a stack of runs, one for the caller and one for every     *)
(* task call being served (subagents/middleware.rs, builtins.rs), with     *)
(* the middlewares they share: todo list, skills, subagents, and the       *)
(* offloading of large results.                                            *)
(*                                                                         *)
(* A child runs on a filtered copy of its parent's state and gives part of *)
(* it back (subagents/protocol.rs); the workspace, the offload directory   *)
(* and the skills the SkillsMiddleware has loaded are shared by all runs.  *)
(* A state is its todo list, its mirror of the files (records of writes    *)
(* and deletions, none for a file never touched), skills_metadata and      *)
(* skills_tools.  The content of a file or of a result is the number of    *)
(* the run that made it.  All call ids are generated: the N-th call of a   *)
(* run is call-N.  Messages are left out: a run reads only its own.  The   *)
(* expansion of a skill plugin's call is in ResumableRunner; the subagents *)
(* that echo, fail or answer a constant without a run are left out, and so *)
(* are the commands among the steps of a skill, which do what Execute does,*)
(* and what a command does to the offload directory.                       *)
(***************************************************************************)
EXTENDS TodoList, FiniteSets

CONSTANTS
  Names,         \* files of the workspace
  Workspace,     \* those that exist at the start, written by run 0
  Types,         \* registered subagent types
  OutputMode,    \* Types -> "final_text", "last_tool_error"
  MaxTaskDepth,  \* SubAgentMiddleware.max_task_depth
  MaxSteps,      \* config.max_steps
  Texts,         \* final texts, up to being "empty", "short" or "long"
  Batches,       \* batches of calls a provider step may carry
  Versions,      \* contents of the skill sources
  SkillSteps,    \* versions that have the skill tool -> its steps, each a
                 \* write of a file or one that the policy refuses or that fails
  Refusal,       \* such a step
  Commands,      \* what an allowed command may do to the files
  Absent,        \* no such file
  NoRecord,      \* a path not in state.filesystem
  None,          \* an absent key of state.extra
  MaxRuns,       \* bound: runs ever started, of the caller and of tasks
  MaxIds         \* bound: the first calls of a run, whose results may be offloaded

ASSUME DepthAssumption == MaxTaskDepth \in Nat \ {0} /\ MaxSteps \in Nat /\ MaxRuns \in Nat
                          /\ MaxIds \in Nat
ASSUME SkillsAssumption ==
  /\ Versions # {} /\ None \notin Versions /\ Refusal \notin Names
  /\ DOMAIN SkillSteps \subseteq Versions
  /\ \A v \in DOMAIN SkillSteps : SkillSteps[v] \in Seq(Names \cup {Refusal})
ASSUME CommandsAssumption ==
  Commands \subseteq [made : SUBSET Names, removed : SUBSET Names, later : SUBSET Names]
ASSUME TypesAssumption == "caller" \notin Types
ASSUME ModeAssumption == OutputMode \in [Types -> {"final_text", "last_tool_error"}]
ASSUME FilesAssumption ==
  Workspace \subseteq Names /\ Absent \notin Nat /\ NoRecord \notin Nat \cup {Absent}

\* The calls of the batches, of which the valid write_todos have an input.
Calls == UNION {{batch[i] : i \in DOMAIN batch} : batch \in Batches}

ASSUME BatchesAssumption ==
  /\ \A batch \in Batches : batch \in Seq(Calls)
  /\ \A call \in Calls : call.valid /\ call.tool = "write_todos" => call.arg \in WriteTodosInput

VARIABLES
  stack,      \* the runs in progress, the caller's first
  runs,       \* runs started so far
  saved,      \* the state the caller's last run returned, None before
  disk,       \* the workspace
  offloads,   \* the offload directory: call number -> content
  loaded,     \* the skills every run's calls are served from, None by default
  loose,      \* changes to files that nobody waits for and that are not done yet
  lost        \* history: files changed on behalf of the state but not in it

vars == <<stack, runs, saved, disk, offloads, loaded, loose, lost>>

-----------------------------------------------------------------------------
(* Values. *)

Content == 0 .. MaxRuns

AgentState == [todos : Seq(TodoItem), mirror : [Names -> Content \cup {Absent, NoRecord}],
               tools : Versions \cup {None}, meta : Versions \cup {None}]

ASSUME NoneAssumption == None \notin AgentState

DefaultState == [todos |-> <<>>, mirror |-> [p \in Names |-> NoRecord],
                 tools |-> None, meta |-> None]

\* type is the subagent type of a task ("caller" for the first run), ref the
\* last of its calls that was answered with a reference to an offloaded result
\* (0 if none was). History: touched are the files the run changed, stale says
\* that a task it gave up on has loaded skills since.
NewFrame(type, depth, state, stale) ==
  [run |-> runs + 1, type |-> type, depth |-> depth, state |-> state,
   pc |-> "before_run", step |-> 0, retried |-> FALSE, batch |-> <<>>, clash |-> FALSE,
   nextId |-> 1, ref |-> 0, touched |-> {}, stale |-> stale]

Top == stack[Len(stack)]

With(frame) == [stack EXCEPT ![Len(stack)] = frame]

\* The run that a todo item is of: restored states keep the caller's items.
Author(f) == IF f.depth = 0 THEN 0 ELSE f.run

-----------------------------------------------------------------------------
(* What a task gets and gives back. *)

\* Fault: the child keeps its parent's todos.
ForChild_Todos(state) == [state EXCEPT !.meta = None]

\* filter_state_for_child: no todos, no skills_metadata; skills_tools stay.
ForChild(state) == [state EXCEPT !.todos = <<>>, !.meta = None]

\* Fault: the parent keeps its own mirror of the files.
Merged_OwnFiles(parent, child) ==
  [parent EXCEPT !.tools = IF child.tools = None THEN @ ELSE child.tools]

\* Fault: skills_tools does not come back.
Merged_OwnTools(parent, child) == [parent EXCEPT !.mirror = child.mirror]

\* merge_child_state: the whole mirror, and every key but the excluded ones.
Merged(parent, child) ==
  [parent EXCEPT !.mirror = child.mirror,
                 !.tools = IF child.tools = None THEN @ ELSE child.tools]

\* Fault: a child counts as deep as its parent.
ChildDepth_Same(f) == f.depth

ChildDepth(f) == f.depth + 1

-----------------------------------------------------------------------------
(* Runs of the caller. *)

\* The first run starts from nothing, a later one on the state that the one
\* before returned; the middlewares are built anew.
StartRun ==
  /\ stack = <<>> /\ runs < MaxRuns
  /\ stack' = <<NewFrame("caller", 0, IF saved = None THEN DefaultState ELSE saved, FALSE)>>
  /\ runs' = runs + 1
  /\ loaded' = None
  /\ UNCHANGED <<saved, disk, offloads, loose, lost>>

-----------------------------------------------------------------------------
(* The end of a run. *)

\* Call n of run f is answered, the run then being at f: a long result goes to
\* a file named for the call and is replaced by a reference, unless the file
\* cannot be written; a file that exists already counts as written.
Answer(below, f, n, long) ==
  \/ /\ long /\ n <= MaxIds
     /\ offloads' = [offloads EXCEPT ![n] = IF @ = Absent THEN f.run ELSE @]
     /\ stack' = Append(below, [f EXCEPT !.ref = n])
  \/ stack' = Append(below, f) /\ UNCHANGED offloads

\* The text a task's run leaves: a failed run has none, but the last tool
\* error, or "no_error", is always one.
TaskText(f, text) == IF OutputMode[f.type] = "last_tool_error" THEN "short" ELSE text

ChildEnds(text) ==
  LET child  == Top
      parent == stack[Len(stack) - 1]
      kept   == TaskText(child, text) # "empty"
      after  == [parent EXCEPT
                   !.pc = "batch",
                   !.touched = @ \cup child.touched,
                   !.state = IF kept THEN Merged(@, child.state) ELSE @,
                   !.stale = IF kept THEN child.stale
                                     ELSE @ \/ child.pc # "before_run" \/ child.stale]
  IN  /\ Answer(SubSeq(stack, 1, Len(stack) - 2), after, after.nextId - 1,
                TaskText(child, text) = "long")
      /\ lost' = IF kept THEN lost ELSE lost \cup child.touched
      /\ UNCHANGED saved

\* The run ends with this text: the caller's hands back its state, a task's
\* becomes the result of the call that started it.
EndRun(text) ==
  /\ IF Len(stack) = 1
       THEN /\ stack' = <<>>
            /\ saved' = Top.state
            /\ UNCHANGED <<offloads, lost>>
       ELSE ChildEnds(text)
  /\ UNCHANGED <<runs, disk, loaded, loose>>

-----------------------------------------------------------------------------
(* The steps of the run at the top. *)

At(pc) == stack # <<>> /\ Top.pc = pc

\* The sources are read anew, and may hold other skills than the last time,
\* unless the state brings metadata and tools along.
MustLoad(state) == state.meta = None \/ state.tools = None

BeforeRun ==
  /\ At("before_run")
  /\ \E version \in IF MustLoad(Top.state) THEN Versions ELSE {Top.state.tools} :
         /\ loaded' = version
         /\ stack' = With([Top EXCEPT
              !.pc = "provider", !.stale = FALSE, !.state.tools = version,
              !.state.meta = IF MustLoad(Top.state) THEN version ELSE @])
  /\ UNCHANGED <<runs, saved, disk, offloads, loose, lost>>

\* Memory or skills cannot be loaded.
BeforeRunFails == At("before_run") /\ EndRun("empty")

InStep == At("provider") /\ Top.step < MaxSteps

\* The provider, or a middleware around it, fails or times out, or the run is
\* out of steps.
RunFails == At("provider") /\ EndRun("empty")

FinalText == InStep /\ \E text \in Texts : EndRun(text)

\* Fault: the overflow of the retried request is retried as well.
ContextOverflow_Unbounded ==
  /\ InStep
  /\ stack' = With([Top EXCEPT !.retried = ~@])
  /\ UNCHANGED <<runs, saved, disk, offloads, loaded, loose, lost>>

\* The request is too long: the middlewares and the provider are asked once
\* more in the same step.
ContextOverflow ==
  /\ InStep /\ ~Top.retried
  /\ stack' = With([Top EXCEPT !.retried = TRUE])
  /\ UNCHANGED <<runs, saved, disk, offloads, loaded, loose, lost>>

AssistantText ==
  /\ InStep
  /\ stack' = With([Top EXCEPT !.step = @ + 1, !.retried = FALSE])
  /\ UNCHANGED <<runs, saved, disk, offloads, loaded, loose, lost>>

ParallelTodos(batch) ==
  Cardinality({i \in DOMAIN batch : batch[i].tool = "write_todos"}) > 1

ToolCalls(batch) ==
  /\ InStep
  /\ stack' = With([Top EXCEPT !.pc = "batch", !.batch = batch,
                               !.retried = FALSE, !.clash = ParallelTodos(batch)])
  /\ UNCHANGED <<runs, saved, disk, offloads, loaded, loose, lost>>

BatchDone ==
  /\ At("batch") /\ Top.batch = <<>>
  /\ stack' = With([Top EXCEPT !.pc = "provider", !.step = @ + 1])
  /\ UNCHANGED <<runs, saved, disk, offloads, loaded, loose, lost>>

-----------------------------------------------------------------------------
(* The calls of a batch. *)

Call == Head(Top.batch)

\* The run with its next call taken, its id counted and the result pushed.
Answered == [Top EXCEPT !.batch = Tail(@), !.nextId = @ + 1]

Refused == ~Call.valid \/ (Top.clash /\ Call.tool = "write_todos")

Takes(tool) == At("batch") /\ Top.batch # <<>> /\ ~Refused /\ Call.tool = tool

HasSkill(version) == version \in DOMAIN SkillSteps

\* Answered with an error: bad arguments, parallel write_todos, or a tool
\* nobody has, as a skill the loaded ones lack.
RefuseCall ==
  /\ At("batch") /\ Top.batch # <<>>
  /\ Refused \/ (Call.tool = "skill" /\ ~HasSkill(loaded))
  /\ stack' = With(Answered)
  /\ UNCHANGED <<runs, saved, disk, offloads, loaded, loose, lost>>

WriteTodos ==
  /\ Takes("write_todos")
  /\ stack' = With([Answered EXCEPT
       !.state.todos = AfterWriteTodos(@, Call.arg, Author(Top))])
  /\ UNCHANGED <<runs, saved, disk, offloads, loaded, loose, lost>>

\* The files become `content` on disk; the state records those in `recorded`.
Change(paths, recorded, content) ==
  /\ disk' = [p \in Names |-> IF p \in paths THEN content ELSE disk[p]]
  /\ stack' = With([Answered EXCEPT
       !.touched = @ \cup paths,
       !.state.mirror = [p \in Names |-> IF p \in recorded THEN content ELSE @[p]]])
  /\ lost' = (lost \ recorded) \cup (paths \ recorded)
  /\ UNCHANGED <<runs, saved, offloads, loaded>>

\* write_file creates; on a file that exists, or without a directory to hold
\* it, it fails.  It may also fail when the file is there, half written or not
\* to be read back, and then nothing is recorded.
WriteFile ==
  /\ Takes("write_file")
  /\ LET new == {Call.arg} \cap {p \in Names : disk[p] = Absent}
     IN  \E done \in {{}, new}, recorded \in {{}, new} :
           recorded \subseteq done /\ Change(done, recorded, Top.run)
  /\ UNCHANGED loose

DeleteFile ==
  /\ Takes("delete_file")
  /\ LET old == {Call.arg} \cap {p \in Names : disk[p] # Absent}
     IN  \E done \in {{}, old} : Change(done, done, Absent)
  /\ UNCHANGED loose

\* The steps of the loaded skill run one after another; writing a file that
\* exists is no failure, a refused step or one that fails ends the skill. Each
\* step is recorded when it is done, so a failure or a timeout may leave the
\* last file unrecorded; after a timeout it may still be on its way to the disk.
RunSkill ==
  /\ Takes("skill") /\ HasSkill(loaded)
  /\ LET steps == SkillSteps[loaded]
         end   == CHOOSE n \in 0 .. Len(steps) :
                    /\ \A i \in 1 .. n : steps[i] # Refusal
                    /\ n < Len(steps) => steps[n + 1] = Refusal
         made(n) == {p \in {steps[i] : i \in 1 .. n} : disk[p] = Absent}
     IN  \E n \in 0 .. end :
           \/ Change(made(n), made(n), Top.run) /\ UNCHANGED loose
           \/ /\ n > 0 /\ Change(made(n), made(n - 1), Top.run)
              /\ UNCHANGED loose
           \/ /\ n > 0 /\ Change(made(n - 1), made(n - 1), Top.run)
              /\ loose' = loose \cup
                   [file : made(n) \ made(n - 1), content : {Top.run}]

\* A command makes and removes files, and there is no record of it.  It may do
\* so after its call was answered: execute does not stop what it gives up on.
Command ==
  \E command \in Commands :
    LET touched    == command.made \cup command.removed
        now        == touched \ command.later
        content(p) == IF p \in command.made THEN Top.run ELSE Absent
    IN  /\ disk' = [p \in Names |-> IF p \in now THEN content(p) ELSE disk[p]]
        /\ lost' = lost \cup now
        /\ loose' = loose \cup
             {[file |-> p, content |-> content(p)] : p \in touched \ now}

\* An allowed command has a long result; what policy denies or would ask a
\* human about is answered with an error.
Execute ==
  /\ Takes("execute")
  /\ Answer(SubSeq(stack, 1, Len(stack) - 1), Answered, Top.nextId, Call.arg = "allow")
  /\ IF Call.arg = "allow" THEN Command ELSE UNCHANGED <<disk, loose, lost>>
  /\ UNCHANGED <<runs, saved, loaded>>

\* What was left behind is done after all.
LateChange(change) ==
  /\ loose' = loose \ {change}
  /\ disk' = [disk EXCEPT ![change.file] = change.content]
  /\ lost' = lost \cup {change.file}
  /\ UNCHANGED <<stack, runs, saved, offloads, loaded>>

\* Not too deep, and the subagent is registered; at the bound none is.
TaskAllowed ==
  ChildDepth(Top) <= MaxTaskDepth /\ Call.arg \in Types /\ runs < MaxRuns

RefuseTask ==
  /\ Takes("task") /\ ~TaskAllowed
  /\ stack' = With(Answered)
  /\ UNCHANGED <<runs, saved, disk, offloads, loaded, loose, lost>>

StartTask ==
  /\ Takes("task") /\ TaskAllowed
  /\ stack' = Append(With([Answered EXCEPT !.pc = "task"]),
                     NewFrame(Call.arg, ChildDepth(Top), ForChild(Top.state), Top.stale))
  /\ runs' = runs + 1
  /\ UNCHANGED <<saved, disk, offloads, loaded, loose, lost>>

-----------------------------------------------------------------------------
Original == [p \in Names |-> IF p \in Workspace THEN 0 ELSE Absent]

Init ==
  /\ stack = <<>> /\ runs = 0 /\ saved = None
  /\ disk = Original
  /\ offloads = [n \in 1 .. MaxIds |-> Absent]
  /\ loaded = None /\ loose = {} /\ lost = {}

ProviderStep ==
  RunFails \/ FinalText \/ ContextOverflow \/ AssistantText \/ \E batch \in Batches : ToolCalls(batch)

ExecuteStep ==
  \/ RefuseCall \/ WriteTodos \/ WriteFile \/ DeleteFile \/ RunSkill \/ Execute
  \/ RefuseTask \/ StartTask \/ BatchDone

RunStep == BeforeRun \/ BeforeRunFails \/ ProviderStep \/ ExecuteStep

Next == RunStep \/ StartRun \/ \E change \in loose : LateChange(change)

\* Nothing a run awaits lasts for ever: the provider has its timeout, and the
\* tools of this model end.
Spec == Init /\ [][Next]_vars /\ WF_vars(RunStep)

-----------------------------------------------------------------------------
(* What delegated tasks must keep apart. *)

\* The shape of the stack: every run but the last waits for the task above
\* it, a task is one deeper than the run that gave it, no deeper than allowed,
\* and the first run is the caller's.
FramesInv ==
  /\ runs \in 0 .. MaxRuns /\ Len(stack) <= MaxTaskDepth + 1
  /\ \A i \in DOMAIN stack :
       /\ stack[i].depth = i - 1
       /\ stack[i].state \in AgentState
       /\ (stack[i].type = "caller") <=> (i = 1)
       /\ (stack[i].pc = "task") <=> (i < Len(stack))
       /\ stack[i].step \in 0 .. MaxSteps
       /\ i > 1 => stack[i].run > stack[i - 1].run

\* A todo list holds the items of its own run and no id twice: a task starts
\* without its parent's items, and whatever it notes, merges or nests never
\* reaches its parent or the next task.
TodosBelong ==
  \A i \in DOMAIN stack :
    LET todos == stack[i].state.todos
    IN  /\ \A k \in DOMAIN todos : todos[k].by = Author(stack[i])
        /\ \A k, l \in DOMAIN todos : todos[k].id = todos[l].id => k = l

\* What the state says of a file: its record, or what it was at the start.
Recorded(state, p) == IF state.mirror[p] = NoRecord THEN Original[p] ELSE state.mirror[p]

\* Whenever a run asks its provider, the files in its state are those on disk,
\* what finished tasks at any depth wrote, deleted and rewrote included.  Only
\* what commands did may be missing, what a task without result or a timed out
\* skill changed, and what a failed write had begun, until the state's tools
\* write or delete the file anew.
MirrorTruthful ==
  At("provider") =>
    \A p \in Names \ lost : disk[p] = Recorded(Top.state, p)

\* The skills a run offers its provider are the ones its calls will run, though
\* every task loads them anew into the one place they are served from; only
\* after a task without result may they differ.
SkillsAsOffered ==
  At("provider") /\ ~Top.stale => Top.state.tools = loaded

\* Every run of a caller returns, whatever its provider and the providers of
\* its tasks answer and however they delegate to each other.
TasksEnd == stack # <<>> ~> stack = <<>>

-----------------------------------------------------------------------------
(***************************************************************************)
(* The inductive invariant behind the theorems of SubagentsProofs.         *)
(***************************************************************************)
Changes == [file : Names, content : Content \cup {Absent}]

Frames ==
  [run : 1 .. MaxRuns, type : Types \cup {"caller"}, depth : Nat, state : AgentState,
   pc : {"before_run", "provider", "batch", "task"}, step : 0 .. MaxSteps,
   retried : BOOLEAN, batch : Seq(Calls), clash : BOOLEAN,
   nextId : Nat \ {0}, ref : Nat, touched : SUBSET Names, stale : BOOLEAN]

ValuesInv ==
  /\ runs \in 0 .. MaxRuns
  /\ stack \in Seq(Frames)
  /\ saved \in AgentState \cup {None}
  /\ disk \in [Names -> Content \cup {Absent}]
  /\ loaded \in Versions \cup {None}
  /\ loose \in SUBSET Changes
  /\ lost \in SUBSET Names

\* Run i of the stack waits for the one above it; only the last one acts, and a
\* batch is served within a step.
Placed(i) ==
  /\ stack[i].depth = i - 1 /\ i - 1 <= MaxTaskDepth
  /\ (stack[i].type = "caller") <=> (i = 1)
  /\ (stack[i].pc = "task") <=> (i < Len(stack))
  /\ stack[i].run <= runs
  /\ i > 1 => stack[i].run > stack[i - 1].run
  /\ stack[i].pc \in {"batch", "task"} => stack[i].step < MaxSteps

StackInv == ValuesInv /\ \A i \in DOMAIN stack : Placed(i)

\* The items of a list are of one run, and no id is on it twice.
Noted(todos, by) ==
  /\ \A k \in DOMAIN todos : todos[k].by = by
  /\ \A k, l \in DOMAIN todos : todos[k].id = todos[l].id => k = l

NotesInv ==
  /\ saved # None => Noted(saved.todos, 0)
  /\ \A i \in DOMAIN stack : Noted(stack[i].state.todos, Author(stack[i]))

\* The state the caller's next run starts from.
Returned == IF saved = None THEN DefaultState ELSE saved

\* What is not in the state of a run is lost, or of the tasks above it.
MirrorInv ==
  /\ stack = <<>> => \A p \in Names \ lost : disk[p] = Recorded(Returned, p)
  /\ \A i \in DOMAIN stack : \A p \in Names \ lost :
       \/ disk[p] = Recorded(stack[i].state, p)
       \/ \E j \in DOMAIN stack : j > i /\ p \in stack[j].touched

\* A task that has not loaded skills yet has its parent's.
ToolsInv ==
  /\ \A i \in DOMAIN stack : stack[i].pc # "before_run" \/ i > 1 =>
       /\ stack[i].state.tools # None
       /\ stack[i].pc = "before_run" => stack[i].state.tools = stack[i - 1].state.tools
       /\ i = Len(stack) /\ ~stack[i].stale => stack[i].state.tools = loaded
-----------------------------------------------------------------------------
(* What the documents of the repository say and the code does not do. *)

\* docs/acceptance/filesystem.md FS-13: the file that a reference names holds
\* the complete result of the call.
OffloadHoldsResult ==
  \A i \in DOMAIN stack :
    stack[i].ref # 0 => offloads[stack[i].ref] = stack[i].run
=============================================================================

# A TLA+ model of DeepAgentsRS

DeepAgentsRS runs LLM agents: a loop asks a provider for the next step, executes
the tool calls it names, stops for a human where a call needs one, and keeps the
conversation small enough for the provider. This directory holds TLA+ modules for
the parts of it where order, interruption, concurrency and bookkeeping decide
whether it is right, the TLC configurations that check them, and TLAPS proofs of
the main results. Paths below are relative to `src/crates/deepagents/src/` unless
they start with `deepagents-acp`, `deepagents-cli` (crates) or `docs`.

## The system

| Component | State it keeps | Operations | What is hard about it | What makes it correct |
|---|---|---|---|---|
| Resumable runner `runtime/resumable_runner.rs` | message history, pending interrupt with the calls behind it, id counter, `initialized` | `push_user_input`, `run`, `resume` | a batch of calls is cut by an interrupt and taken up later; futures dropped at any `await`; a retry after `context_overflow`; ids that repeat | every call once, in order, answered once; gated calls only with a decision; nothing owed to the provider; a suspended session is frozen; runs return |
| ACP server `deepagents-acp/src/server.rs` | map of sessions, each behind a mutex: `AgentState`, `state_version`, runner, `closed` | new_session, call_tool, run, resume, state, end_session | concurrent clients, clients that go away, file writes that land late, two copies of the state | a version names one state; an interrupt is decided once; the state mirrors the files; a closed session stays as it is; requests are answered |
| Summarization `runtime/summarization_middleware.rs` | `_summarization_event` in the state, the archive file | `before_provider_step`, `compact_conversation` | cutoffs in two index spaces, chained; a failing archive; subagents that inherit the event | requests fit, recent messages stay, what is hidden is archived once and in order |
| Subagents `subagents/*` | none; filters and merges state | `task` | state that passes down and back; depth; gates that the child lacks; a child that fails | todos stay with their run; what children did to files comes back; tasks end |
| Simple runtime `runtime/simple.rs` | locals of one run; the offload directory | `run`, offloading of large results | same loop without interrupts, nested in a tool call; generated ids start again in each run | as the runner, without gates; a reference names the result it stands for |
| Skills `skills/*`, `runtime/skills_middleware.rs` | loaded manifests, one place for all runs of a caller | load, expand a call, run a package skill | children that load again; timeouts between a write and its record | the skills offered are the ones that run |
| Tool-call patching `runtime/patch_tool_calls.rs`, `tool_compat.rs` | none | normalise ids, answer dangling calls | blank, missing and generated ids; answers that come later | in a request every call has one answer, right behind it |
| Todo list `runtime/todolist_middleware.rs` | `state.todos` | write_todos | parallel calls, merges | no id twice; a refused call changes nothing |
| Filesystem middleware, tools and backends `middleware/filesystem.rs`, `agent.rs`, `tools/std_tools.rs`, `backends/*` | mirror of files in the state; the disk | file tools, execute | check, effect, read-back and record are separate steps, without a lock; routes | a success is in the file, a failure changed nothing, the mirror says what the disk says |
| Memory store `memory/store_file.rs`, `deepagents-cli/src/main.rs`:736 | `memory_store.json`, `AGENTS.md`; entries of one process | put, query, compact | temporary file and rename, of one name for every process; crashes; eviction by coarse timestamps | a command is done as a whole or not at all; success is on disk; a put outlives its own eviction |
| Prompt cache `runtime/prompt_cache_runtime.rs`, `cache_store.rs`, `provider_cache.rs` | a process-wide registry of LRU caches with TTL | lookup, insert | keys, expiry, other sessions between lookup and insertion | a hit was an answer to the same request and is fresh; a miss has a reason; the stores keep their bound |
| Approval, audit `approval.rs`, `audit.rs` | none; a log | decide, record | a verdict asked twice | deny never runs |
| Middleware assembly `runtime/assembly.rs` | none | sort by slot | duplicates | one order |
| Command line `deepagents-cli/src/main.rs` | one runner; what is on the screen | run, tool, memory | answers about calls whose ids repeat; an invalid edit ends the process | decisions are what was typed about what was shown; honest exit codes |

The server owns one runner per session; the runner calls the provider, the
middlewares (`before_run`, `before_provider_step`, `patch_provider_step`,
`handle_tool_call`, in the order of `assembly.rs`) and the agent's tools, which
write through a backend and record what they wrote in the `AgentState`. The
subagent middleware runs a whole `SimpleRuntime` inside one tool call.

## The modules

### ResumableRunner

One session's runner. The code hands a batch from Vec to Vec (`queue`,
`remaining_calls`); what is left is always a suffix of the last batch, so the
module numbers all calls: `calls`, the next one `cursor`, the suspended one
`pending` (0 for `None`). `pc` is where the run stands: `idle` between calls of the
API, or an `await` (`before_run`, `provider`, `tool`, `edited_tool`), or `batch`, the
loop of `execute_calls`. Actions are the arms of `run`, `execute_calls`,
`resume` and `execute_pending_call`, one per way out: `RefuseCall` (invalid
arguments, parallel write_todos, denied command), `InterruptCall`, `UnknownTool`,
`StartTool`/`FinishTool`, `BatchDone`; `StartRun`, `BeforeRun`, `BeforeRunFails`,
`RunWhilePending`; `ToolCalls`, `SkillCalls`, `AssistantText`, `FinalText`,
`ContextOverflow`, the error outputs; `Approve`, `Reject`, `Edit`, `EditInvalid`,
`ResumeNotFound`; `Drop`. Arguments are reduced to what the runner tells apart: what the
policy says of them, whether they are an object, whether a field is missing.
`ran`, `asked`, `decisions`, `dropped` are history variables.

A caller pushes input only when nothing is pending, as both callers in the
repository do (`server.rs:620`, the CLI loop), and answers only interrupts it
was shown, any of them at any time.

Left out: `AgentState`, message text, audit records, traces, and the offloading of
large tool results, which changes the text of a tool message and writes a file; it is
the code that `Subagents` has as `Answer`.

### RunnerRequests, over ResumableRunner and PatchToolCalls

`PatchToolCalls` is `patch_dangling_tool_calls` as an operator on histories, `Patched`.
`RunnerRequests` applies it to the history of the runner, which is how every
request to a provider is made, and states what providers demand of one. There are no
actions of its own. `RequestInv` is the invariant of the history on which that rests.

### Session, and RunnerSession over ResumableRunner

`Session` is what a session promises of each call, without queue, history or loop: the fate of each call in
the order of asking (waiting, suspended, running; answered, refused, abandoned), the calls only
a human may let run (`held`), and those decided. Only the first open call is ever served, and the provider is asked when
none is open. `RunnerSession` maps the runner to it: the fate of a call follows from `cursor`, `pending`, `pc`, its
answer in the history and whether its tool ran. A run dropped while a tool is in flight gives the call up, though the
tool may have had its effect; a call that was approved and failed the policy's second check is refused.

### CommandLine, over ResumableRunner

The run command as the runner's only caller. `cli` is where the process is; `Ask`
shows the pending interrupt; `TypeApprove`, `TypeReject`, `TypeEdit` with `TypeArgs` or
`ArgsInvalid`, and `LineUnreadable` are what a human may type; `Finish` is the way out,
with `Code`. Each of the answers is one step with the operation of the runner it
calls, `Approve`, `Reject`, `Edit`, `EditInvalid` or `ResumeNotFound`; `Await` lets
the runner work. Unknown decisions are asked again, which changes nothing.

### Subagents, over TodoList

`SimpleRuntime::run` for the caller and, in a stack, for each task in progress: the
Rust call stack. A frame has the locals of `run` (step, batch, next id) and the run's
`AgentState`, reduced to its todos, the mirror of files, `skills_metadata` and
`skills_tools`. `loaded` is the state of the one `SkillsMiddleware` they share, `disk` the
workspace, `offloads` the directory of large results. `ForChild` and `Merged` are
`filter_state_for_child` and `merge_child_state`; `ChildEnds` is the rest of the task
call, which merges only for a final text. A run ends by `FinalText`, `RunFails` (the
provider, a middleware, a timeout, or no steps left), or `BeforeRunFails`; `Answer` is
`maybe_offload_large_tool_result`. Contents are the number of the run that made
them. `TodoList` has the list operations of `write_todos`; `Patch` and `Replacement` keep, as a
history, who put an item on the list.

What happens to files without a record is part of it: `WriteFile` and `DeleteFile` may fail before anything
is done, and a write when the file is there already, half written or not to be read back; a skill may fail or time out in the same
place; and `Command`, what an allowed `execute` does, makes and removes files that no state learns of.
A change that a skill or an `execute` has given up waiting for is `loose`, and `LateChange` does it at any
time afterwards. Left out are commands among the steps of a skill, which do what `execute` does, and what a
command does to the offload directory.

### FileTools, over BackendPaths

The tools that change files, called by sessions that share a workspace. A call is a
record with a phase: the checks before its first `await` (`BeginWrite`, `BeginEdit`,
`BeginDelete`, `BeginExecute`), the read of an edit, then `tokio::fs::write` as two
steps, `Open`, which truncates, and `Write`, each of which can fail, or `Remove`, or
`Command`; last `ReadBack` or `RecordDelete`, which `FilesystemMiddleware` does. `Timeout`
is that of execute, `Drop` a caller that goes away. A file is an inode with the set of
texts in it, since an open file may be removed and created anew; `Bytes` among them makes it a file that
`read_to_string` fails on. `Command` removes or renames a file, or writes it in place or as
a new inode under its name, with text or with bytes that are no UTF-8; two writes into one file may leave
a tail of the longer one behind the shorter (`Tails`), cut inside a character. `BackendPaths` is the
routing of `CompositeBackend` and the virtual root of `LocalSandbox`, on paths as sequences of
names. `ReadBack` takes the host path that the tool reported through the routes once more, as `after_tool` does,
and reads what it leads to: the file itself (`FoundAgain`), nothing, or another file, whose content it records and for
which the call is reported as done. `Reached` are the files tools can change, `Files` those and the ones read in their place.
A command is taken for the one change that it makes to one file.
Left out: `parent_not_found`, directories, symbolic links, `..`, the limit on lines.

### AcpServer

The handlers of concurrent clients. `pc` of a client is where its handler is:
`sent`, `waiting` for the mutex, `locked`, inside a tool (`tool`, `tool_done`), inside
the runner (`running`, `runner_tool`, `runner_tool_done`). A state is its file
mirror: for each file the number of the last write recorded. `state` is
`session.state`; `runner` is the copy `with_initial_state` gave the runner; `disk` is
what the files hold. `Report` is the assignment `session.state = out.state` that
ends every run and resume. `Drop` and `DropUnserved` drop a handler's future;
a write already in the blocking pool becomes `late` and is done by `LateWrite`.
A tool may end without a record, under call_tool (`CallToolUnrecorded`) or under the runner (`RunnerUnrecorded`): a write
fails before its file is opened or when that is truncated, a written file cannot be read back, or the tool
is a command, which is never recorded and is `late` when execute has given up on it. `CallToolReads` is a
call that is refused or changes no file. A command is taken for its change to one file.
The runner is abstract here: it works, writes, and ends with a new interrupt or
without, which `ResumableRunner` shows in detail. `tokio::sync::Mutex` is fair, so the
queue of a session is served first come, first served.

### Summarization

The messages of a session and of the subagent it delegates to, each with the event
that hides a prefix of them. `Effective` is `apply_prior_event` with
`truncate_tool_args`; `BudgetCutoff` and `TurnsCutoff` say what the loops of
`cutoff_for_budget` and `cutoff_for_turns` compute; `StateCutoff` converts to the
index space of the history; `Summarize` is `build_summary_message` and `store_event`, with
`Persist` for the archive: one section, the set of the places it writes out, or nothing
where the file cannot be written, which the code takes for no error. `Ask` and
`AskAgain` are the step loop before the provider is asked and after
`context_overflow`; `Compact` is the tool; `StartTask`, `TaskDone`, `TaskFails`
are the subagent middleware. Sizes are small numbers against a small budget; the
text of a summary is the set of messages it was built from (`covers`).
The options are chosen by `Init` from a set.

### MemoryStore, over MemoryEntries, implements MemoryMap

`MemoryEntries` has the list operations as functions: `Upsert`, and `Evicted`, the loop
of `evict_if_needed`, with the choice of `min_by_key` and `first` among ties.
`MemoryStore` has the processes of the command line. `Load`, `LoadCorrupt` are
`ensure_loaded`; `Put` is the method with its own eviction and the second one, whose
report is printed; `Compact`, `Query` likewise. `write_atomic` is `Open` (which truncates
`memory_store.tmp`), `Write` and a rename, once for each file. A file is
absent, empty, torn or a text; `fd` says where the file a process has open
stands by now, since another process may rename it while it is being written.
`Fails` is an error of any of these calls, `Crash` the end of the process
at any point, with or without part of a write done; `Tick` is the clock in whole seconds.
The code calls no fsync, and the model has what the operating system shows the next process:
what a power cut leaves of a file that was renamed is outside of it.

`MemoryMap` is what the commands promise: a store that one put or compact replaces
as a whole. `ImplementsMap` maps `memory_store.json` to it; the temporary files,
AGENTS.md and the processes are hidden, and a crash is a stutter.

### PromptCache, over CacheStore

`CacheStore` has `get` and `insert` of `MemoryCacheStore`, each of them under
one lock. `PromptCache` has the steps of `step_with_prompt_cache` for sessions that run at once:
`Begin` looks l1 up, `L1Insert` inserts, `L2Hit` or `L2Miss` look l2 up, `Answered`
or `Unanswered` end the wait for the provider, `L2Insert` inserts. The hashes
of keys are taken for the values hashed. A request has what `ProviderRequest` has: messages, tools with the skills, the state
(its summarisation event in a field of its own) and the last tool results. The keys leave the last two out (`Ignored`), while the
provider is sent them. Options that switch a cache off are
among those the sessions have. The events that are pushed into the state are left out.

## The runs

Every passing run is exhaustive for its bounds. `CHECK_DEADLOCK FALSE` stands where
the bounds on requests, messages or calls end all behaviour; the runner is checked for deadlock.
`memory_store`, `prompt_cache` and `file_tools` take the processes and the sessions for
interchangeable. `file_tools` has a view as well (`MCView`): states that differ only in what no later
step and no property looks at are explored once, namely in calls that are over and have changed nothing, in the
session of a call that it neither awaits nor saw succeed, in what such a call has written once it is over, and in the text that an edit has looked for
and keeps. Type invariants are part of the first property of a run.

| Run | Shows |
|---|---|
| `runner_safety` | answers owed, decisions and the frozen suspended session, with six batches that have gated, denied, malformed, unknown, duplicate-todo and unnamed calls, no reuse of ids |
| `runner_dropped` | order, single answers, gating and well-formed requests when futures are dropped anywhere, ids repeat and skills expand to calls of one id; the refinement of `Session`; `RunReturns` under fairness |
| `acp_server` | all properties of the server, with writes that fail half way, commands, and clients that leave; `Answered` under fairness |
| `summarization` | all properties of summarisation, for three sets of options, failing archive writes and delegated tasks |
| `memory_store` | the refinement of `MemoryMap` and the other properties of the store, for stores found missing, torn and full under each eviction policy |
| `prompt_cache` | all properties of the cache, for all pairs of options in which one session has the common ones |
| `subagents` | all properties of delegated tasks, two levels deep, with changing skills, failing children, half-done writes, a command that removes a file and changes that come late; `TasksEnd` under fairness |
| `file_tools` | what success, failure and records are worth when calls of two sessions overlap, with commands that remove and spoil files, full disks, timeouts and callers that go away, in the workspace and behind a route |
| `command_line` | the dialogue and the exit codes in both modes, with reused ids, bad edits and unreadable lines; `AnswersSettle` under fairness |
| `doc_*` | three statements of the repository's documents that the code does not keep, see below |

Bounds. `MaxSteps = 2` provider steps per run, four calls in all, two pushed
messages: two batches of two calls, which is enough for two interrupts in one batch,
an interrupt in the last position and in the first, a second batch after a resumed
one, and a stale answer from the first batch to an interrupt of the second.
`runner_dropped` has three calls, three batches, one skill and three arguments, one pushed message: enough
to drop a run with calls left, to start another behind it, and to have a call held back by the agent or the policy,
approved in vain or edited badly. Two clients, one
session, two files, four requests and two writes: create, run, answer and a
fourth request that races, is late, repeats or closes; sessions share nothing but
the map, so one shows what several do. Histories of five messages and child
histories of three, of sizes 1 and 5 against a budget of 4: two chained
summarisations, messages over the budget by themselves, and a summary that
counts against the budget. Two processes, two commands, three keys, sizes 1 and 2
against three bytes and two entries (one under ttl), one tick: the stores found are full, so that the first
put evicts already, and the second command finds what a failed or
crashed first one left. Two sessions, four requests, a ttl of one instant, one tick, capacities of two
and, from a 0, of one: a request may hit, be evicted by the other session
while it waits, or expire; of the four requests three have keys that differ in one
component each, and the fourth differs from the first in all that the key leaves out. Three runs with tasks two deep and two steps each:
a parent before, between and after two
tasks, a task of a task, or a second run of the caller on what the first one left; batches that write,
delete and rewrite one file on both sides of a task, and put a skill behind a task that loads
another version. One command, which removes the file before its call is answered; the change that comes
late is that of a skill that timed out. Three calls of file tools, one file behind a route that leads out of the
root and one in the workspace, which is read back in its place: two that overlap in any way and a third one before, between or
after. Three calls under one id of the provider and generated ones for the command
line: two interrupts in a row under the same id, one of them resumed in the middle of a batch.

Fairness. `RunReturns` assumes weak fairness of `RunnerStep`: the tokio runtime polls
a woken task, the provider answers or times out (`provider_timeout_ms`), a tool returns.
The caller is not assumed to do anything. `TasksEnd` assumes the same of `RunStep`, and
`AnswersSettle` of `ProcessStep`, which is the process and the runner in it; nothing is
assumed of the human. `Answered` assumes weak fairness of each
client's handler, which is one task; nothing is assumed of clients.

### What the properties say

Runner: `RanInOrder`, `AnsweredInOrder`, `NothingOwed`, `HumanGate`,
`RejectionIsFinal`, `DecisionAboutShown`, `SuspendedIsFrozen`, `RequestsPaired`, `ImplementsSession`, `RunReturns`.
Three of them hold only under a condition: `DecisionAboutShown` when ids are
never reused (the calls of a skill share the id of the skill call, and
`interrupt_id` is the id of the call), `RequestsPaired` when all ids differ and none is
blank (a blank one is announced blank and answered as `call-N`),
`NothingOwed` when no run was dropped; `RequestsPaired` then says that patching makes up for it.

Command line: `DecisionsAsTyped`, `ExitHonest`, `AnswersSettle`. The first holds also where
`DecisionAboutShown` does not, with reused ids: the command answers only the interrupt it has
just shown. By `ExitHonest` code 1 can mean a call given up after an edit that the runner refused.

Subagents: `FramesInv`, `TodosBelong`, `MirrorTruthful`, `SkillsAsOffered`, `TasksEnd`. `MirrorTruthful`
excepts the files in `lost`: those that a task without a final text changed, whose state is
thrown away, the last one of a skill that failed or timed out, those of a write that failed when it had begun, and whatever a command
made or removed. A file leaves `lost` when the tools of the run at work write or delete it anew, which records it. `SkillsAsOffered` excepts a parent whose
task failed after it had loaded skills.

File tools: `KeptUnlessTaken`, `FailedChangedNothing`, `RecordExact`. The exceptions they name are
the ways in which the code does break these promises: an overlapping call on the same file, a command included, which may take
it away or spoil it before it is read back; a disk that is full after the truncation; a command that outlives its
timeout; a route out of the root, whose host path leads elsewhere when it is read back, so that the call
is reported as failed or another file's content is recorded. Of what the module models nothing else
breaks them; changes that no tool of an agent makes, such as those of an editor, are outside of it.

Server: `VersionIdentifiesState`, `DecidedOnce`, `StateMirrorsDisk`,
`ClosedIsFinal`, `Answered`. `StateMirrorsDisk` is claimed except for sessions (`torn`) whose
handler was dropped between a file's write and its record, where a write failed after it had touched its file or could
not be read back, where a command changed a file, or where call_tool
wrote while a runner held its own copy, and until the next report after a dropped
run (`behind`). A tool that fails and leaves the files alone is no exception.

Summarisation: `NothingUnarchived`, `RequestFits`, `RecentKept`,
`ArchivedInOrder`, `CutoffNeverBack`. `NothingUnarchived` excepts messages that
quote a summary (`is_summary_message` takes them for one), those of a failed
write, and sessions that delegated a task, whose event may come from a child.

Memory store: `ImplementsMap` and `OkIsDurable` speak of commands that follow one
another; the store has no lock, and of two that overlap one may report success over a
file that does not parse. `CapacityKept` holds for them too. `AgentsFollow` excepts the time from
a crash or a failure between the two renames to the next complete command. `PutSurvives` says of
which entries it is true: timestamps are whole seconds, so a longer value for a known key
may evict itself.

Prompt cache: `HitsFit`, `HitsAreFresh`, `MissesAreExplained`, `StoresBounded`. They take two requests for the same
(`SameAsk`) if provider, partition, tools, skills, summarisation event and messages are, but for the places of system
messages among the others: that is what `docs/acceptance_extras/provider/prompt_caching_keys.md` wants in the key. The state
and the last tool results may differ, although the provider is sent them too: a hit may be the answer to such a
request. A provider that goes by the messages does not see the difference; the scripted `MockProvider`
reads the last result (`provider/mock.rs`:102), and so might another one.

### Where code and documents differ

| Run | The document says | The code does |
|---|---|---|
| `doc_approve_execute` | approve executes the call with its arguments (HITL plan :147, `docs/acceptance/hitl.md`:10) | `execute_pending_call` asks the policy again and answers `command_requires_approval`; a middleware's tool is answered as unknown |
| `doc_state_evolves` | the state loses no entries (`docs/e2e/E2E_PHASE3_ACP.md`:254) | a run overwrites what call_tool recorded |
| `doc_offload_full` | a large result is written in full to the file named for its call (`docs/acceptance/filesystem.md`:248) | a file of that name counts as written, and generated ids start again in every run: the reference leads to another run's result |

Others are plain from the code and the models, and have no run:

- Parallel write_todos are all refused (`docs/acceptance/todo.md`:89); the count is taken again
  over the calls an interrupt left (`Resolve`), so the second one may run.
- Chained summarisation loses no messages (`docs/acceptance/summarization.md`:13); the second
  summary is made of the messages between the cutoffs (`Pruned`) and leaves out the first.
- A child starts with its task only (`docs/acceptance/subagents.md`:79); it inherits its parent's
  `_summarization_event` (`InheritedEvent`), and with it the parent's summary.
- Puts over the capacity and then compact return more than 0 evictions
  (`docs/e2e/E2E_PHASE7_MEMORY.md`:232); `put` evicts by itself and drops the report (`Put`), and what
  is printed is a second one, of nothing.
- Tools behave alike on all backends (`docs/acceptance/backend.md`:11); a write through a
  `CompositeBackend` route out of the root is done and reported as failed (`FailedChangedNothing`).
- The final text of a run is returned and not recorded, while `docs/acceptance/runner.md`:68 has it at
  the end of the history.
- At the end of its input the interactive command asks for a decision for ever, which no document forbids.

## The proofs

`ResumableRunnerProofs` proves for every value of the constants that satisfy the
ASSUMEs of `ResumableRunner` (ids distinct from `NoId`, tool sets within `Tools`,
batches that are sequences of calls, bounds that are naturals): `TypeCorrect`,
`OrderCorrect`, `AnswersCorrect`, `NothingOwedCorrect`, `GateCorrect`,
`RejectionCorrect`, `FrozenCorrect`, `ShownCorrect`. In particular they hold for any batches,
policies, numbers of steps and calls, with reused ids and with dropped futures.

The inductive invariant is `OrderInv /\ GateInv`, and its parts say why the properties
hold. `ControlInv` ties the program counter to the queue: a call is pending only
between runs and is the last one popped, a tool in flight likewise, and the
provider is asked only with the queue empty. With it `RanInv` bounds what has run
by the last call that no longer waits for a human (`Released`), and `AnsweredInv` what is
answered by the last one settled (`Settled`), so that a call about to run or to be
answered is beyond all earlier ones: order and uniqueness follow. `DecidedInv` bounds
decisions in the same way, and `OwedInv` says that everything settled is answered
and that only a first run, with no calls yet, goes through `before_run`, which
may lose the history. `FrozenCorrect` needs only that a pending call implies `pc = "idle"`. `ShownCorrect` is the one with a
hypothesis, `IdsApart`: the provider chooses no id twice and none that reads like a generated one, and a skill expands to a
single call. `DecisionAboutShown` is false without it, since an interrupt is named by the id of its call; under it `IdsInv` says that only
calls which execution has yet to name can have the same id, and that no caller was shown one of those.

The request comes next. `RequestsCorrect` has two halves. One is about `Patched` alone, for every history:
`FlatFacts` says where the parts of a flattened sequence stand, `PatchedFacts` where the messages of the
history and the synthetic answers to each of them stand in the request, and `BlockFacts` that the block behind an assistant
message is made of the synthetic answers to it and of its block in the history. So `PatchedOnce`: a history that
is `Pairable`, in which each id is announced once and whatever answers it behind stands in its block, has in the
request exactly one answer to each. The other half is that the runner's histories are such. `RequestInv`
says what ids they bear (`SaidInv`, `MessagesInv`) and, in `BlockInv`, that the answer of an announced call stands in
the block of its announcement; it is inductive only with the other part of `BlockInv`, that this block is the end of
the history as long as the call waits for its answer. A dropped run gives such calls up, and only then may
the history go on; what is missing in their blocks is what `Patched` puts in. The calls a skill expands to are announced by
nothing, so that nothing is said of their answers but that they break no block.

`SessionCorrect` is the refinement. `FatesPlaced` reads the fates off the places of the calls: those from
`cursor` on wait, the one before it is suspended or running if anything is, and all others are settled. Settled calls keep
their fate in every step (`SettledFates`), so that a step of the runner concerns the first open call
(`ServedInTurn`), asks for a batch when there is none (`GainAsks`), gives up all that are open (`DropGivesUp`) or
changes nothing in the session (`Still`). The invariant is that of the order with `OwedInv`, and with `FlightInv`: the tool in flight is that of the
call popped last, without which a call could be answered as if it had run.

The same module goes on with the command line. `CommandIsACaller` shows that the run command with its
dialogue is one of the runner's callers (`CliSpec => Spec`: an answer typed is a step of the runner, the
rest of the dialogue a stutter), so that the runner's invariants hold there too. `DialogueInv` adds what ties
the dialogue to the runner: `RunnerInv`, that the last output and the pending call tell the same
story and that a call was asked about exactly if it is decided or pending; `ScreenInv`, that the pending
call is on the screen while an answer is typed and that only a refused edit leaves an answer without a
decision; `TypedInv`, the answers themselves. `DecisionsCorrect` follows from it, for any batches
and repeated ids; `ExitCorrect` needs `OwedInv` as well, since code 0 says that all calls are answered.

`AcpServerProofs` proves the server's invariants and `ClosedIsFinal` for any clients, sessions, files and
bounds; it assumes that `None` is none of the clients, sessions, files and states. `BaseInv` is `TypeOK`,
`MutexInv` (who is at work holds the mutex of a session that is open) and `RunnerInv`. From
`MutexInv` it follows once and for all that a step touches only the session it is about: `StepEffect` sorts
the actions into handlers that arrive, work and leave, and a handler that works or leaves is the only
one in its session. On this rest one invariant each for `DecidedOnce` (`AcceptedInv`: every accepted
interrupt was raised earlier and is not the pending one), for `VersionIdentifiesState`
(`VersionInv`: what was told under the current version still holds, and nothing was told under the version
that a handler at work will answer with) and for `StateMirrorsDisk` (`MirrorInv`: a session that is
not torn agrees with its files, but at work for the one file just written; whatever changes a file
without a record tears its session). Their steps are proved for one
session and one handler, and `OthersKept` does the rest.

`FileToolsProofs` proves all three properties of the file tools, for any sessions, files and calls.
The invariants below `KeptUnlessTaken` say what a call knows of the others: of two calls on a file the later one has met
the earlier or begun after its end (`MetInv`), and a call finds the file as it left it, and in UTF-8, unless a rival, also a command, changed
it (`DiskInv`, `WritingInv`: of a call with such a rival nothing is claimed); `KeptInv` follows a text from its report until a later call takes it out, through the calls that have
read it and will write it again. The exceptions of the properties are those rivals. Paths and routes are arbitrary, so
that a host path may lead back to the file, to nothing or to another file, which need not be one the tools reach.

`MemoryStoreProofs` proves all five properties of the memory store, for any processes, keys and entries.
`CopiesInv` says what a process has in memory: each key once, and under its policy by the time it is written. `FilesInv`
says that a file is empty, torn or a text some process wrote, which gives `CapacityCorrect` for commands that
overlap too. Of a command that nobody overlapped the temporary file and the descriptor stay its own until the rename;
from this follow `OkIsDurable`, `AgentsFollow` and the refinement of `MemoryMap`, where a rename of the store is
the one step that is not a stutter. `PutSurvives` needs what the loop of `evict_if_needed` computes in any
number of turns: each turn takes an entry that is not the new one, and the last leaves a list under the policy;
`StampsInv` says that no entry is from the future, so that the new one is the youngest.
`FilesAssumption` says that the first command finds no file, a broken one or a store that names each key once, as earlier
commands leave it, and `PastAssumption` that no entry in it is from the future.

`PromptCacheProofs` proves all four properties of the cache, for any sessions, requests and options.
`StepsInv` says that an answer in hand is for the request its session waits for; `StoresInv` that the order of use
of a store names its keys once each; `HeldInv` that each entry of l2 is what the history has inserted
last under its key, with its time, so that hits fit and are fresh. `MissesAreExplained` needs the order: that of l2 is
the order of its uses in the history (`OrderInv`), so that what is evicted has the rest of the store behind it,
which is as many other requests as the store holds.
`RequestsAssumption` says that being idle is no request and that all requests have the same fields.
`FitCorrect` is about `SameAsk`, with the fields in `Ignored` left open.

`SubagentsProofs` proves all four properties of delegated tasks, for any depth, subagents, batches of calls, skills and
files. `StackInv` places the runs: each waits for the one above it, and a batch is served within a step. `NotesInv` says of the
lists that their items are of one run, and needs for it that `Merge`, patch by patch, keeps a list good. `MirrorInv` is stronger than
`MirrorTruthful`, which speaks of the run at the top only: what is not in the state of a run is lost or was changed by the tasks
above it, so that it comes back with them or is lost with them. Commands and late changes put what they
touch into `lost`, at whatever depth they come. `ToolsInv` adds that a task which has not loaded
skills yet has its parent's. The constants are assumed to be what the code makes of them: no subagent is registered under
the name `caller` that stands for the first run (`TypesAssumption`), batches are sequences of calls whose valid
write_todos have an input (`BatchesAssumption`), an absent state is no state (`NoneAssumption`), and a command makes and
removes files of the workspace, at once or later (`CommandsAssumption`).

`SummarizationProofs` proves all five properties of Summarization, for histories of any length and messages of any
size, for any options. Its first half is about the operators alone. `CharsTail` and `TurnsTail` say how the two
measures fall from one suffix of a conversation to the next, `CutoffFacts` what that makes of a cutoff of either policy: it
stays inside, leaves the recent messages, and what it leaves is within the limit, or is as little as the options allow.
`ViewFacts` says which message of the history stands where in a request behind an event, and `CutShows` that a
cutoff computed on that view, carried over to the history by `StateCutoff`, shows exactly what was computed: the
summary at the head of the view counts in one index space and not in the other, and the arguments trimmed before the event are trimmed after it.
`SumInv` is the inductive invariant. `HistoryInv` says that a history holds what its thread said, place by place;
`EventInv` that an event hides something, leaves a session that delegates nothing its recent messages, and that
the event of a running subagent hides at least what its parent's hides: `CutoffNeverBack` needs this one, because
that event replaces the parent's when the task is done. `ArchivedInOrder` needs `ArchiveInv`, that the archive ends where the
session's cutoff does, so that the next section lies behind all others. `RecentKept` and `RequestFits` follow from
`SumInv` and the facts about cutoffs: a request is what `before_provider_step` made of the history.
`OptionsAssumption` says that the options are numbers and flags, as their types in the code do.

`DataInduction` has the lemmas by which the proofs reach loops and recursive functions. The library's
induction theorems take an operator, which the provers cannot instantiate; these take a set of
numbers instead (`Induct`, `InductUpTo`, `LeastNumber`, `GreatestNumber`), or say that a function exists that follows a
given step for a given number of turns (`Recursion`), and rest on the library's theorem that `<` is
well-founded on the naturals. What `Upsert`, `Evicted`, `AfterInsert`, `Merge`, `Patched`, `Chars` and `Cutoff` compute is proved with them for every input.

Every safety invariant and action property that a passing run checks is stated by a theorem. Only model-checked is
what needs fairness (`RunReturns`, `Answered`, `TasksEnd`, `AnswersSettle`), which TLAPS does not reach.

## Not modelled

Not modelled: the sort of the middlewares at start-up, which keeps no state
(`RequestsPaired` rests on its putting `PatchToolCalls` behind all but a user's own); the
`tool` command's state file, one read and one write of one process (a file that cannot be
read counts as an empty state and is overwritten); the tools that only read; wording, logging,
argument parsing, HTTP encoding, command classification and manifest validation, which
transform text and keep no state.

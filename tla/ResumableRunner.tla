--------------------------- MODULE ResumableRunner ---------------------------
(***************************************************************************)
(* The resumable agent loop of crates/deepagents/src/runtime/              *)
(* resumable_runner.rs: one session's message history, the provider        *)
(* steps, the batch of tool calls being executed, the human-in-the-loop    *)
(* interrupt and its resumption.                                           *)
(*                                                                         *)
(* The code hands a batch of calls from one Vec to the next (queue,        *)
(* remaining_calls).  What is left is always a suffix of the last batch,   *)
(* so the model numbers every call the provider ever makes: `calls` keeps  *)
(* them all, `cursor` is the next one to pop, and a pending interrupt is   *)
(* the number of the call it suspends (0 for None); remaining_calls is     *)
(* then calls[cursor .. Len(calls)].                                       *)
(*                                                                         *)
(* The await points of the code are the steps: a run can be between two    *)
(* actions, in flight inside a tool, or dropped there (an HTTP client that *)
(* goes away cancels the handler's future).  AgentState, tool output and   *)
(* message text are left out; tool_calls and tool_results mirror the tool  *)
(* messages and are not repeated.                                          *)
(***************************************************************************)
EXTENDS Naturals, Sequences, FiniteSets

CONSTANTS
  ProviderIds,      \* call ids a provider may choose
  NoId,             \* call_id: None
  BlankId,          \* call_id: Some(""), which only execution repairs
  Tools,            \* tool names
  BaseTools,        \* tools registered with the agent
  MiddlewareTools,  \* tools a runtime middleware answers in handle_tool_call
  InterruptOn,      \* tools whose interrupt_on entry is true
  Args,             \* argument values, up to what the runner tells apart
  BadArgs,          \* arguments that are not a JSON object
  PartialArgs,      \* objects that lack a field validate_edit_args requires
  Verdict,          \* the approval policy: Args -> allow, deny, require_approval
  Batches,          \* batches of raw calls a provider step may carry
  SkillBatches,     \* batches the session's skills expand to
  MaxSteps,         \* config.max_steps
  ReuseIds,         \* may the provider choose an id it used before?
  CanDrop,          \* may the caller drop a future that is being awaited?
  MaxCalls,         \* bound: calls ever made
  MaxMessages       \* bound: length of the history

Verdicts == {"allow", "deny", "require_approval"}

\* A generated id "call-N" is the natural number N.
Ids == ProviderIds \cup {BlankId} \cup Nat

RawCall == [tool : Tools, args : Args, id : Ids \cup {NoId}]

ASSUME IdsAssumption == NoId \notin Ids /\ BlankId \notin ProviderIds \cup Nat
ASSUME ToolsAssumption ==
  /\ BaseTools \subseteq Tools
  /\ MiddlewareTools \subseteq Tools
  /\ InterruptOn \subseteq Tools
ASSUME ArgsAssumption ==
  /\ BadArgs \subseteq Args
  /\ PartialArgs \subseteq Args
  /\ Verdict \in [Args -> Verdicts]
ASSUME BatchesAssumption == \A b \in Batches \cup SkillBatches : b \in Seq(RawCall)
ASSUME BoundsAssumption ==
  /\ MaxSteps \in Nat /\ MaxCalls \in Nat /\ MaxMessages \in Nat
  /\ ReuseIds \in BOOLEAN /\ CanDrop \in BOOLEAN

VARIABLES
  messages,     \* self.messages
  calls,        \* every tool call handed to execute_calls, oldest first
  cursor,       \* the next call the queue pops
  pending,      \* self.pending: the suspended call, 0 when None
  nextCallId,   \* self.next_call_id
  initialized,  \* self.initialized
  pc,           \* where the run is: idle, or the await it stands at
  step,         \* iterations of the step loop begun by this run
  retried,      \* has this step already been retried after context_overflow?
  todosClash,   \* write_todos_count > 1 in the batch being executed
  output,       \* status or error code of the last RunOutput
  ran,          \* history: tool bodies started, with the arguments they got
  asked,        \* history: calls whose interrupt was returned to the caller
  decisions,    \* history: decisions applied, with the call they were about
  dropped       \* history: was a run ever dropped?

loopVars == <<pc, step, retried, todosClash>>
historyVars == <<ran, asked, decisions, dropped>>
vars == <<messages, calls, cursor, pending, nextCallId, initialized,
          loopVars, output, historyVars>>

-----------------------------------------------------------------------------
(* Values. *)

ResultStatus == {"success", "error", "rejected", "edited"}

Message == [role : {"system", "user", "assistant", "tool"},
            ids : Seq(Ids),               \* tool_calls, or the tool_call_id
            status : ResultStatus \cup {"none"},
            call : Nat]                   \* history: the call a tool message answers,
                                          \* the first one an assistant announces

\* said is the id the assistant message gave the call, NoId if none did; batch
\* (history) is the number of the first call of the provider step it came in.
Call == [tool : Tools, args : Args, id : Ids \cup {NoId}, said : Ids \cup {NoId},
         batch : Nat]

Run == [call : Nat, args : Args]

Decision == [call : Nat, about : Nat, kind : {"approve", "reject", "edit"}, args : Args]

Outputs == {"none", "completed", "interrupted", "middleware_error",
            "provider_error", "skill_error", "max_steps_exceeded",
            "interrupt_not_found", "invalid_resume"}

UserMessage == [role |-> "user", ids |-> <<>>, status |-> "none", call |-> 0]

\* The block of a middleware that has something to say: memory, skills.
SystemMessage == [role |-> "system", ids |-> <<>>, status |-> "none", call |-> 0]

AssistantMessage(ids) ==
  [role |-> "assistant", ids |-> ids, status |-> "none", call |-> Len(calls) + 1]

ToolMessage(n, id, status) ==
  [role |-> "tool", ids |-> <<id>>, status |-> status, call |-> n]

-----------------------------------------------------------------------------
(* Normalisation of calls. *)

\* normalize_provider_tool_calls: None gets a generated id, blank ids stay.
SaidId(batch, i) ==
  IF batch[i].id = NoId
    THEN nextCallId + Cardinality({j \in 1 .. (i - 1) : batch[j].id = NoId})
    ELSE batch[i].id

Announced(batch) ==
  [i \in DOMAIN batch |->
     [tool |-> batch[i].tool, args |-> batch[i].args,
      id |-> SaidId(batch, i), said |-> SaidId(batch, i), batch |-> Len(calls) + 1]]

\* A skill expands to calls that all carry the id of the skill call.
Expanded(batch, id) ==
  [i \in DOMAIN batch |->
     [tool |-> batch[i].tool, args |-> batch[i].args,
      id |-> id, said |-> NoId, batch |-> Len(calls) + 1]]

\* normalize_tool_call_for_execution: None and blank ids are generated.
Unnamed(call) == call.id \in {NoId, BlankId}

Executable(call) == IF Unnamed(call) THEN [call EXCEPT !.id = nextCallId] ELSE call

FreshIds(batch) ==
  \/ ReuseIds
  \/ /\ \A i \in DOMAIN batch, n \in DOMAIN calls :
          batch[i].id \in ProviderIds => batch[i].id # calls[n].id
     /\ \A i, j \in DOMAIN batch :
          i # j /\ batch[i].id \in ProviderIds => batch[i].id # batch[j].id

\* write_todos_count > 1, counted over the calls given to execute_calls.
MultipleTodos(s) == \E i, j \in DOMAIN s :
                      i # j /\ s[i].tool = "write_todos" /\ s[j].tool = "write_todos"

-----------------------------------------------------------------------------
(* What execute_calls does with a call. *)

NextCall == Executable(calls[cursor])

PolicyVerdict(tool, args) == IF tool = "execute" THEN Verdict[args] ELSE "allow"

RefusedOutright(call) ==
  \/ call.args \in BadArgs
  \/ todosClash /\ call.tool = "write_todos"
  \/ PolicyVerdict(call.tool, call.args) = "deny"

NeedsHuman(call) ==
  \/ PolicyVerdict(call.tool, call.args) = "require_approval"
  \/ call.tool \in InterruptOn

EditAccepted(tool, args) ==
  /\ args \notin BadArgs
  /\ tool \in {"write_file", "edit_file", "delete_file", "read_file", "execute"}
       => args \notin PartialArgs

\* queue.pop_front() and the normalisation of the popped call.
Pop ==
  /\ pc = "batch"
  /\ cursor <= Len(calls)
  /\ calls' = [calls EXCEPT ![cursor] = NextCall]
  /\ cursor' = cursor + 1
  /\ nextCallId' = IF Unnamed(calls[cursor]) THEN nextCallId + 1 ELSE nextCallId
  /\ UNCHANGED <<initialized, step, retried, todosClash, decisions, dropped>>

PushResult(n, id, status) ==
  messages' = Append(messages, ToolMessage(n, id, status))

\* Invalid arguments, parallel write_todos and a denied command answer the
\* call with an error at once.
RefuseCall ==
  /\ Pop
  /\ RefusedOutright(NextCall)
  /\ PushResult(cursor, NextCall.id, "error")
  /\ UNCHANGED <<pending, pc, output, ran, asked>>

\* Fault: the suspended call is answered as well, as a tool error.
InterruptCall_Answered ==
  /\ Pop
  /\ ~RefusedOutright(NextCall)
  /\ NeedsHuman(NextCall)
  /\ PushResult(cursor, NextCall.id, "error")
  /\ pending' = cursor
  /\ asked' = asked \cup {cursor}
  /\ pc' = "idle"
  /\ output' = "interrupted"
  /\ UNCHANGED ran

\* require_approval and interrupt_on suspend the call and return to the caller.
InterruptCall ==
  /\ Pop
  /\ ~RefusedOutright(NextCall)
  /\ NeedsHuman(NextCall)
  /\ pending' = cursor
  /\ asked' = asked \cup {cursor}
  /\ pc' = "idle"
  /\ output' = "interrupted"
  /\ UNCHANGED <<messages, ran>>

\* No middleware claims the call and the agent has no such tool.
UnknownTool ==
  /\ Pop
  /\ ~RefusedOutright(NextCall) /\ ~NeedsHuman(NextCall)
  /\ NextCall.tool \notin MiddlewareTools \cup BaseTools
  /\ PushResult(cursor, NextCall.id, "error")
  /\ UNCHANGED <<pending, pc, output, ran, asked>>

\* The call reaches a middleware or the agent's tool and is awaited.
StartTool ==
  /\ Pop
  /\ ~RefusedOutright(NextCall) /\ ~NeedsHuman(NextCall)
  /\ NextCall.tool \in MiddlewareTools \cup BaseTools
  /\ ran' = Append(ran, [call |-> cursor, args |-> NextCall.args])
  /\ pc' = "tool"
  /\ UNCHANGED <<messages, pending, output, asked>>

\* The tool returns: its effect is done, its result becomes a message.
FinishTool ==
  /\ pc \in {"tool", "edited_tool"}
  /\ \E ok \in BOOLEAN :
       PushResult(cursor - 1, calls[cursor - 1].id,
                  IF ~ok THEN "error"
                  ELSE IF pc = "tool" THEN "success" ELSE "edited")
  /\ pc' = "batch"
  /\ UNCHANGED <<calls, cursor, pending, nextCallId, initialized, step, retried,
                 todosClash, output, historyVars>>

\* The queue is empty: back to the step loop.
BatchDone ==
  /\ pc = "batch"
  /\ cursor > Len(calls)
  /\ pc' = "provider"
  /\ UNCHANGED <<messages, calls, cursor, pending, nextCallId, initialized, step,
                 retried, todosClash, output, historyVars>>

-----------------------------------------------------------------------------
(* run *)

\* Both callers push input only when no interrupt is pending.
PushUserInput ==
  /\ pc = "idle" /\ pending = 0
  /\ Len(messages) < MaxMessages
  /\ messages' = Append(messages, UserMessage)
  /\ UNCHANGED <<calls, cursor, pending, nextCallId, initialized, loopVars,
                 output, historyVars>>

\* run() on a suspended session returns the same interrupt again.
RunWhilePending ==
  /\ pc = "idle" /\ pending # 0
  /\ output' = "interrupted"
  /\ UNCHANGED <<messages, calls, cursor, pending, nextCallId, initialized,
                 loopVars, historyVars>>

StartRun ==
  /\ pc = "idle" /\ pending = 0
  /\ pc' = IF initialized THEN "provider" ELSE "before_run"
  /\ step' = 0
  /\ retried' = FALSE
  /\ UNCHANGED <<messages, calls, cursor, pending, nextCallId, initialized,
                 todosClash, output, historyVars>>

\* Every before_run succeeded: the history they return is put back, perhaps
\* with a system message at its head.
BeforeRun ==
  /\ pc = "before_run"
  /\ \/ UNCHANGED messages
     \/ messages' = <<SystemMessage>> \o messages
  /\ initialized' = TRUE
  /\ pc' = "provider"
  /\ UNCHANGED <<calls, cursor, pending, nextCallId, step, retried,
                 todosClash, output, historyVars>>

\* A before_run fails: the history it was given is gone.
BeforeRunFails ==
  /\ pc = "before_run"
  /\ messages' = <<>>
  /\ pc' = "idle"
  /\ output' = "middleware_error"
  /\ UNCHANGED <<calls, cursor, pending, nextCallId, initialized, step, retried,
                 todosClash, historyVars>>

InStep == pc = "provider" /\ step < MaxSteps

\* The step ends the run with this output.
EndRun(code) ==
  /\ pc' = "idle"
  /\ output' = code
  /\ UNCHANGED <<messages, calls, cursor, pending, nextCallId, initialized, step,
                 retried, todosClash, historyVars>>

\* before_provider_step or patch_provider_step fails.
StepMiddlewareFails == InStep /\ EndRun("middleware_error")

\* The provider fails, times out, or answers with an error step (an overflow
\* of the retried request included).
ProviderFails == InStep /\ EndRun("provider_error")

SkillFails == InStep /\ EndRun("skill_error")

\* The final text goes to the caller, not to the history.
FinalText == InStep /\ EndRun("completed")

\* Fault: an overflow of the retried request is retried as well.
ContextOverflow_Unbounded ==
  /\ InStep
  /\ retried' = ~retried
  /\ UNCHANGED <<messages, calls, cursor, pending, nextCallId, initialized, pc,
                 step, todosClash, output, historyVars>>

\* context_overflow: the middlewares run again with the summarisation forced
\* and the provider is asked once more.
ContextOverflow ==
  /\ InStep /\ ~retried
  /\ retried' = TRUE
  /\ UNCHANGED <<messages, calls, cursor, pending, nextCallId, initialized, pc,
                 step, todosClash, output, historyVars>>

AssistantText ==
  /\ InStep
  /\ Len(messages) < MaxMessages
  /\ messages' = Append(messages, AssistantMessage(<<>>))
  /\ step' = step + 1
  /\ retried' = FALSE
  /\ UNCHANGED <<calls, cursor, pending, nextCallId, initialized, pc, todosClash,
                 output, historyVars>>

\* execute_calls(batch): the batch becomes the queue.
Enqueue(batch) ==
  /\ Len(calls) + Len(batch) <= MaxCalls
  /\ calls' = calls \o batch
  /\ todosClash' = MultipleTodos(batch)
  /\ pc' = "batch"
  /\ step' = step + 1
  /\ retried' = FALSE
  /\ UNCHANGED <<cursor, pending, initialized, output, historyVars>>

ToolCalls(batch) ==
  /\ InStep
  /\ FreshIds(batch)
  /\ Enqueue(Announced(batch))
  /\ messages' = Append(messages,
                   AssistantMessage([i \in DOMAIN batch |-> SaidId(batch, i)]))
  /\ nextCallId' = nextCallId
                     + Cardinality({i \in DOMAIN batch : batch[i].id = NoId})

\* No assistant message announces the calls a skill expands to.
SkillCalls(batch, id) ==
  /\ InStep
  /\ FreshIds(<<[id |-> id]>>)
  /\ Enqueue(Expanded(batch, id))
  /\ UNCHANGED <<messages, nextCallId>>

MaxStepsExceeded ==
  /\ pc = "provider" /\ step = MaxSteps
  /\ EndRun("max_steps_exceeded")

-----------------------------------------------------------------------------
(* resume(interrupt_id, decision).  The caller answers an interrupt it was    *)
(* shown, perhaps not the last one, perhaps once more than needed: about is   *)
(* the call it was shown, and its id is all the runner is told.               *)

\* Fault: any resumption resolves whatever is pending.
Matches_AnyId(about) == pending # 0

Matches(about) == pending # 0 /\ calls[about].id = calls[pending].id

ResumeNotFound(about) ==
  /\ pc = "idle" /\ about \in asked
  /\ ~Matches(about)
  /\ output' = "interrupt_not_found"
  /\ UNCHANGED <<messages, calls, cursor, pending, nextCallId, initialized,
                 loopVars, historyVars>>

\* Fault: pending is read and not taken.
Resolve_KeepsPending(about, kind, args) ==
  /\ pc = "idle" /\ about \in asked
  /\ Matches(about)
  /\ decisions' = Append(decisions,
       [call |-> pending, about |-> about, kind |-> kind, args |-> args])
  /\ todosClash' = MultipleTodos(SubSeq(calls, cursor, Len(calls)))
  /\ step' = 0
  /\ retried' = FALSE
  /\ output' = "none"
  /\ UNCHANGED <<calls, cursor, pending, nextCallId, initialized, asked, dropped>>

\* The decision takes effect: pending is cleared, execute_calls will go on
\* with remaining_calls, and run() after it starts its step loop afresh.
Resolve(about, kind, args) ==
  /\ pc = "idle" /\ about \in asked
  /\ Matches(about)
  /\ decisions' = Append(decisions,
       [call |-> pending, about |-> about, kind |-> kind, args |-> args])
  /\ pending' = 0
  /\ todosClash' = MultipleTodos(SubSeq(calls, cursor, Len(calls)))
  /\ step' = 0
  /\ retried' = FALSE
  /\ output' = "none"
  /\ UNCHANGED <<calls, cursor, nextCallId, initialized, asked, dropped>>

\* Fault: the arguments the provider proposed run, not the ones decided on.
ExecutePending_Proposed(args, running) ==
  IF /\ PolicyVerdict(calls[pending].tool, args) = "allow"
     /\ calls[pending].tool \in BaseTools
    THEN /\ ran' = Append(ran, [call |-> pending, args |-> calls[pending].args])
         /\ pc' = running
         /\ UNCHANGED messages
    ELSE /\ PushResult(pending, calls[pending].id, "error")
         /\ pc' = "batch"
         /\ UNCHANGED ran

\* execute_pending_call: the policy is asked again, the middlewares are not.
ExecutePending(args, running) ==
  IF /\ PolicyVerdict(calls[pending].tool, args) = "allow"
     /\ calls[pending].tool \in BaseTools
    THEN /\ ran' = Append(ran, [call |-> pending, args |-> args])
         /\ pc' = running
         /\ UNCHANGED messages
    ELSE /\ PushResult(pending, calls[pending].id, "error")
         /\ pc' = "batch"
         /\ UNCHANGED ran

Approve(about) ==
  /\ Resolve(about, "approve", calls[pending].args)
  /\ ExecutePending(calls[pending].args, "tool")

\* Fault: a rejection leaves no tool message.
Reject_Silent(about) ==
  /\ Resolve(about, "reject", calls[pending].args)
  /\ pc' = "batch"
  /\ UNCHANGED <<ran, messages>>

Reject(about) ==
  /\ Resolve(about, "reject", calls[pending].args)
  /\ PushResult(pending, calls[pending].id, "rejected")
  /\ pc' = "batch"
  /\ UNCHANGED ran

Edit(about, args) ==
  /\ Resolve(about, "edit", args)
  /\ EditAccepted(calls[pending].tool, args)
  /\ ExecutePending(args, "edited_tool")

\* Fault: pending is cleared before the edit is validated.
EditInvalid_Clears(about, args) ==
  /\ pc = "idle" /\ about \in asked
  /\ Matches(about)
  /\ ~EditAccepted(calls[pending].tool, args)
  /\ output' = "invalid_resume"
  /\ pending' = 0
  /\ UNCHANGED <<messages, calls, cursor, nextCallId, initialized,
                 loopVars, historyVars>>

EditInvalid(about, args) ==
  /\ pc = "idle" /\ about \in asked
  /\ Matches(about)
  /\ ~EditAccepted(calls[pending].tool, args)
  /\ output' = "invalid_resume"
  /\ UNCHANGED <<messages, calls, cursor, pending, nextCallId, initialized,
                 loopVars, historyVars>>

\* Fault: the call in flight goes back to the queue.
Drop_Requeues ==
  /\ CanDrop
  /\ pc \in {"before_run", "provider", "tool", "edited_tool"}
  /\ pc' = "idle"
  /\ cursor' = IF pc \in {"tool", "edited_tool"} THEN cursor - 1 ELSE cursor
  /\ messages' = IF pc = "before_run" THEN <<>> ELSE messages
  /\ output' = "none"
  /\ dropped' = TRUE
  /\ UNCHANGED <<calls, pending, nextCallId, initialized, step, retried,
                 todosClash, ran, asked, decisions>>

\* The caller goes away at an await: the locals of run and execute_calls are
\* gone, and so is the history while before_run holds it.
Drop ==
  /\ CanDrop
  /\ pc \in {"before_run", "provider", "tool", "edited_tool"}
  /\ pc' = "idle"
  /\ cursor' = Len(calls) + 1
  /\ messages' = IF pc = "before_run" THEN <<>> ELSE messages
  /\ output' = "none"
  /\ dropped' = TRUE
  /\ UNCHANGED <<calls, pending, nextCallId, initialized, step, retried,
                 todosClash, ran, asked, decisions>>

-----------------------------------------------------------------------------
Init ==
  /\ messages = <<>> /\ calls = <<>> /\ cursor = 1 /\ pending = 0
  /\ nextCallId = 1 /\ initialized = FALSE
  /\ pc = "idle" /\ step = 0 /\ retried = FALSE /\ todosClash = FALSE
  /\ output = "none"
  /\ ran = <<>> /\ asked = {} /\ decisions = <<>> /\ dropped = FALSE

ExecuteStep == RefuseCall \/ InterruptCall \/ UnknownTool \/ StartTool
                 \/ FinishTool \/ BatchDone

ProviderStep ==
  \/ StepMiddlewareFails \/ ProviderFails \/ SkillFails \/ FinalText
  \/ ContextOverflow \/ AssistantText \/ MaxStepsExceeded
  \/ \E batch \in Batches : ToolCalls(batch)
  \/ \E batch \in SkillBatches, id \in ProviderIds \cup {NoId} : SkillCalls(batch, id)

\* What the runner does by itself once a run is under way.
RunnerStep == BeforeRun \/ BeforeRunFails \/ ProviderStep \/ ExecuteStep

ResumeStep ==
  \E about \in asked :
    \/ ResumeNotFound(about) \/ Approve(about) \/ Reject(about)
    \/ \E args \in Args : Edit(about, args) \/ EditInvalid(about, args)

CallerStep == PushUserInput \/ StartRun \/ RunWhilePending \/ ResumeStep \/ Drop

Next == RunnerStep \/ CallerStep

Spec == Init /\ [][Next]_vars

FairSpec == Spec /\ WF_vars(RunnerStep)
-----------------------------------------------------------------------------
(* What the runner promises. *)

\* Types, and the one fact about indices everything rests on.
TypeOK ==
  /\ messages \in Seq(Message)
  /\ calls \in Seq(Call)
  /\ cursor \in 1 .. (Len(calls) + 1)
  /\ pending \in {0, cursor - 1}
  /\ nextCallId \in Nat
  /\ initialized \in BOOLEAN
  /\ pc \in {"idle", "before_run", "provider", "batch", "tool", "edited_tool"}
  /\ step \in 0 .. MaxSteps
  /\ retried \in BOOLEAN /\ todosClash \in BOOLEAN /\ dropped \in BOOLEAN
  /\ output \in Outputs
  /\ ran \in Seq(Run)
  /\ asked \subseteq 1 .. (cursor - 1)
  /\ decisions \in Seq(Decision)

Answers(n) == {i \in DOMAIN messages : messages[i].role = "tool" /\ messages[i].call = n}

\* Tools run in the order the provider asked for them and no call runs twice,
\* whatever interrupts, resumptions, repeated runs and dropped futures come in
\* between (docs/acceptance/hitl.md: a resumed call is executed or cancelled
\* once; runner.md R-03: execution follows the order of tool_calls).
RanInOrder ==
  \A i, j \in DOMAIN ran : i < j => ran[i].call < ran[j].call

\* Tool messages enter the history in the order of the calls, and no call is
\* answered twice: the result of execution, of a refusal, of a rejection and
\* of a resumed call all go through one place in line.
AnsweredInOrder ==
  \A i, j \in DOMAIN messages :
    i < j /\ messages[i].role = "tool" /\ messages[j].role = "tool"
      => messages[i].call < messages[j].call

\* Unless a run was dropped, the provider is never asked while a call it made
\* is unanswered: an interrupt in the middle of a batch, several in one batch,
\* a rejection or a failed tool leave nothing owed.
NothingOwed ==
  /\ TypeOK
  /\ pc = "provider" /\ ~dropped => \A n \in DOMAIN calls : Answers(n) # {}

\* A call that interrupt_on or the approval policy holds back runs only after
\* a decision to approve or edit that very call, and with the arguments that
\* decision saw.
HumanGate ==
  \A i \in DOMAIN ran :
    NeedsHuman(calls[ran[i].call]) =>
      \E k \in DOMAIN decisions :
        /\ decisions[k].call = ran[i].call
        /\ decisions[k].kind \in {"approve", "edit"}
        /\ decisions[k].args = ran[i].args

\* A rejected call never runs, before or after the rejection, and is decided
\* only once.
RejectionIsFinal ==
  \A k \in DOMAIN decisions :
    /\ decisions[k].kind = "reject" =>
         \A i \in DOMAIN ran : ran[i].call # decisions[k].call
    /\ \A l \in DOMAIN decisions : decisions[l].call = decisions[k].call => l = k

\* Every decision is applied to the call whose interrupt its sender was shown.
\* interrupt_id is the call id, so this rests on ids that are never reused.
DecisionAboutShown ==
  \A k \in DOMAIN decisions : decisions[k].call = decisions[k].about

\* While a call is suspended nothing happens in the session until a decision
\* is applied: repeated runs, late or misdirected resumptions and invalid
\* edits leave the history, the batch and the pending call as they were.
SuspendedIsFrozen ==
  [][pending # 0 /\ decisions' = decisions
       => UNCHANGED <<messages, calls, cursor, pending, nextCallId, ran>>]_vars

\* Every run returns: the step budget bounds the provider steps and each batch
\* is worked off.
RunReturns == pc # "idle" ~> pc = "idle"

-----------------------------------------------------------------------------
(* The inductive invariant behind the theorems of ResumableRunnerProofs.     *)

InFlight == pc \in {"tool", "edited_tool"}

\* The last call that no longer waits for a human, and the last one answered.
Released == IF pending # 0 THEN cursor - 2 ELSE cursor - 1
Settled == IF pending # 0 \/ InFlight THEN cursor - 2 ELSE cursor - 1

\* A call is suspended only between runs, and a tool is in flight only after a
\* call was popped.
ControlInv ==
  /\ pending # 0 => pc = "idle" /\ cursor > 1
  /\ InFlight => cursor > 1
  /\ pending # 0 \/ InFlight => calls[cursor - 1].id \in Ids
  /\ pc \in {"before_run", "provider"} => cursor = Len(calls) + 1
  /\ pc = "idle" /\ pending = 0 => cursor = Len(calls) + 1

RanInv == RanInOrder /\ \A i \in DOMAIN ran : ran[i].call \in 1 .. Released

AnsweredInv ==
  /\ AnsweredInOrder
  /\ \A i \in DOMAIN messages :
       messages[i].role = "tool" => messages[i].call \in 1 .. Settled

DecidedInv ==
  /\ RejectionIsFinal
  /\ \A k \in DOMAIN decisions : decisions[k].call \in 1 .. Released

\* Only a first run goes through before_run, with no call made yet; from then
\* on every settled call keeps its answer.
OwedInv ==
  /\ pc = "before_run" => ~initialized
  /\ ~initialized => calls = <<>> /\ pc \in {"idle", "before_run"}
  /\ ~dropped => \A n \in 1 .. Settled : Answers(n) # {}

\* Ids tell calls apart: the provider chooses none twice and none that reads like
\* a generated one, and a skill expands to a single call.
IdsApart ==
  /\ ~ReuseIds /\ ProviderIds \cap Nat = {}
  /\ \A batch \in Batches : \A i \in DOMAIN batch :
       batch[i].id \in ProviderIds \cup {BlankId, NoId}
  /\ \A batch \in SkillBatches : Len(batch) <= 1

\* Then only calls that are yet to be given an id have the same one, and a
\* caller was shown none of those.
IdsInv ==
  /\ \A n \in DOMAIN calls : calls[n].id \in Nat => calls[n].id < nextCallId
  /\ \A m, n \in DOMAIN calls : calls[m].id = calls[n].id => m = n \/ Unnamed(calls[m])
  /\ pending # 0 => pending \in asked
  /\ \A n \in asked : ~Unnamed(calls[n])

OrderInv == TypeOK /\ ControlInv /\ RanInv /\ AnsweredInv

GateInv == HumanGate /\ DecidedInv /\ OwedInv

-----------------------------------------------------------------------------
(* What the documents of the repository say and the code does not do. *)

\* docs/acceptance/hitl.md: approve executes the call with its arguments.
ApprovedRuns ==
  \A k \in DOMAIN decisions :
    decisions[k].kind = "approve" /\ Answers(decisions[k].call) # {}
      => \E i \in DOMAIN ran : ran[i].call = decisions[k].call
=============================================================================

---------------------------- MODULE Summarization ----------------------------
(***************************************************************************)
(* What the provider gets to see of a long conversation:                   *)
(* crates/deepagents/src/runtime/summarization_middleware.rs, driven by the*)
(* step loops of resumable_runner.rs and simple.rs, for a session and the  *)
(* subagent it delegates a task to (subagents/middleware.rs), which gets   *)
(* the parent's state but for EXCLUDED_STATE_KEYS and whose state comes    *)
(* back the same way.                                                      *)
(*                                                                         *)
(* A history is never cut.  The event in the state says up to where it is  *)
(* hidden behind a summary.  A message is its thread, its position, its    *)
(* role and its size in characters, before and after truncate_tool_args;   *)
(* a summary is the set of messages it was built from.                     *)
(***************************************************************************)
EXTENDS Naturals, Sequences, FiniteSets, FiniteSetsExt

CONSTANTS
  Options,      \* the SummarizationOptions a session may be set up with
  SummarySize,  \* characters of a summary message
  Sizes,        \* sizes of messages
  TrimmedSize,  \* what truncate_tool_args makes of a larger call
  PersistFails, \* may the archive file not be writable?
  Tasks,        \* may the provider delegate to a subagent?
  MaxMessages,  \* bound: length of the session's history
  MaxTask       \* bound: length of a subagent's history

\* max_chars is max_char_budget, max_turns max_turns_visible, min_recent
\* min_recent_messages, keep_last truncate_tool_args_keep_last (all of a history
\* for redact_tool_args = false), compact_min max_char_budget * compact_min_ratio;
\* the policy Importance works like Budget.
SummarizationOptions ==
  [enabled : BOOLEAN, policy : {"budget", "turns"}, max_chars : Nat,
   max_turns : Nat, min_recent : Nat, keep_last : Nat, compact_min : Nat]

ASSUME OptionsAssumption == Options \subseteq SummarizationOptions
ASSUME SizesAssumption ==
  SummarySize \in Nat /\ Sizes \subseteq Nat /\ TrimmedSize \in Nat
ASSUME BoundsAssumption ==
  PersistFails \in BOOLEAN /\ Tasks \in BOOLEAN
  /\ MaxMessages \in Nat /\ MaxTask \in 1 .. MaxMessages

Threads == {"main", "child"}
Roles == {"user", "assistant", "tool"}

VARIABLES
  options,   \* self.options, the same for a session and its subagents
  history,   \* self.messages of each thread
  event,     \* state.extra["_summarization_event"] of each thread
  active,    \* the thread whose step loop runs
  pc,        \* idle, or in the step loop: ready to ask, asked, asked again after
             \* context_overflow, or at a tool call
  archive,   \* the sections of conversation_history/<thread_id>.md, each the
             \* session's own messages it holds, which are in their order
  lost,      \* history: those a failed persist left out of it
  tasked     \* history: was a task ever delegated?

vars == <<options, history, event, active, pc, archive, lost, tasked>>

Place == Threads \X (1 .. MaxMessages)

Message == [role : Roles, size : Nat, trimmed : Nat, summary : BOOLEAN,
            marked : BOOLEAN,           \* contains SUMMARY_MESSAGE_V1
            covers : SUBSET Place]      \* what it says, or sums up

Event == [cutoff : Nat, covers : SUBSET Place]

\* No event is stored with cutoff 0.
NoEvent == [cutoff |-> 0, covers |-> {}]

NewMessage(t, role, size) ==
  [role |-> role, size |-> size, trimmed |-> size,
   summary |-> FALSE, marked |-> FALSE, covers |-> {<<t, Len(history[t]) + 1>>}]

SummaryMessage(covers) ==
  [role |-> "user", size |-> SummarySize, trimmed |-> SummarySize, summary |-> TRUE,
   marked |-> TRUE, covers |-> covers]

-----------------------------------------------------------------------------
(* Effective messages. *)

\* total_chars
Chars(s) ==
  LET upTo[n \in 0 .. Len(s)] == IF n = 0 THEN 0 ELSE upTo[n - 1] + s[n].size
  IN  upTo[Len(s)]

CountTurns(s) == Cardinality({i \in DOMAIN s : i = 1 \/ s[i].role # s[i - 1].role})

\* truncate_tool_args: all but the last keep_last messages.
Trimmed(m) == [m EXCEPT !.size = m.trimmed]
Trim(s, keep_last) ==
  [i \in DOMAIN s |-> IF i + keep_last <= Len(s) THEN Trimmed(s[i]) ELSE s[i]]

\* apply_prior_event
View(messages, e) ==
  Trim(IF e = NoEvent
         THEN messages
         ELSE <<SummaryMessage(e.covers)>> \o SubSeq(messages, e.cutoff + 1, Len(messages)),
       options.keep_last)

Effective(t) == View(history[t], event[t])

ShouldSummarize(s) ==
  IF options.policy = "turns"
    THEN CountTurns(s) > options.max_turns
    ELSE Chars(s) > options.max_chars

\* Fault: one message too many is kept out of the cut.
BudgetCutoff_KeepsOneMore(s) ==
  LET keep == Min({options.min_recent + 1, Len(s)})
  IN  IF Chars(s) <= options.max_chars THEN 0
      ELSE Min({c \in 0 .. (Len(s) - keep) :
                  c = Len(s) - keep \/ Chars(SubSeq(s, c + 1, Len(s))) <= options.max_chars})

\* The fewest messages to cut to fit the budget, keeping the recent ones.
BudgetCutoff(s) ==
  LET keep == Min({options.min_recent, Len(s)})
  IN  IF Chars(s) <= options.max_chars THEN 0
      ELSE Min({c \in 0 .. (Len(s) - keep) :
                  c = Len(s) - keep \/ Chars(SubSeq(s, c + 1, Len(s))) <= options.max_chars})

\* messages.len().saturating_sub(min_recent)
KeepFloor(s) == IF options.min_recent > Len(s) THEN 0 ELSE Len(s) - options.min_recent

\* Up to the last message of the max_turns-th turn from the end.
TurnsCutoff(s) ==
  IF CountTurns(s) <= options.max_turns THEN 0
  ELSE LET last == Max({p \in DOMAIN s :
                          CountTurns(SubSeq(s, p, Len(s))) >= options.max_turns})
       IN  Min({last - 1, KeepFloor(s)})

Cutoff(s) == IF options.policy = "turns" THEN TurnsCutoff(s) ELSE BudgetCutoff(s)

\* Fault: the summary at the head of the effective messages is counted.
StateCutoff_CountsSummary(t) ==
  LET c == Cutoff(Effective(t))
  IN  IF c = 0 THEN 0 ELSE event[t].cutoff + c

\* Fault: the new cutoff is taken for one of the whole history.
StateCutoff_Effective(t) == Cutoff(Effective(t))

\* A cutoff in the effective messages, as one in the history.
StateCutoff(t) ==
  LET c == Cutoff(Effective(t))
  IN  IF c = 0 THEN 0 ELSE IF event[t] = NoEvent THEN c ELSE event[t].cutoff + c - 1

CanCut(t) == StateCutoff(t) # 0 /\ StateCutoff(t) < Len(history[t])

\* Fault: the messages behind the last summary are taken up again.
Pruned_FromStart(t) == {p \in 1 .. StateCutoff(t) : ~history[t][p].marked}

\* Fault: the summary at the head is taken for the first hidden message.
Pruned_SkipsOne(t) ==
  {p \in (event[t].cutoff + 2) .. StateCutoff(t) : ~history[t][p].marked}

\* What the new cutoff hides and the last one did not, but for messages that
\* quote a summary.
Pruned(t) == {p \in (event[t].cutoff + 1) .. StateCutoff(t) : ~history[t][p].marked}

Covered(t, places) == UNION {history[t][p].covers : p \in places}

\* A section of the archive; one that cannot be written is left out of it.
Persist(section) ==
  \/ archive' = Append(archive, section) /\ UNCHANGED lost
  \/ PersistFails /\ lost' = lost \cup section /\ UNCHANGED archive

\* persist and store_event; a failed persist is an event without a file.
Summarize(t) ==
  /\ event' = [event EXCEPT ![t] =
       [cutoff |-> StateCutoff(t), covers |-> Covered(t, Pruned(t))]]
  /\ IF t = "child" THEN UNCHANGED <<archive, lost>> ELSE Persist(Pruned(t))

SummarizeIf(t, wanted) ==
  IF wanted /\ CanCut(t) THEN Summarize(t) ELSE UNCHANGED <<event, archive, lost>>

-----------------------------------------------------------------------------
(* The step loop. *)

\* before_provider_step, then the request.
Ask ==
  /\ pc = "ready"
  /\ SummarizeIf(active, options.enabled /\ ShouldSummarize(Effective(active)))
  /\ pc' = "asked"
  /\ UNCHANGED <<options, history, active, tasked>>

\* context_overflow: before_provider_step again, forced, and another request.
AskAgain ==
  /\ pc = "asked"
  /\ SummarizeIf(active, TRUE)
  /\ pc' = "asked_again"
  /\ UNCHANGED <<options, history, active, tasked>>

\* The provider has been asked and has answered.
Asked == pc \in {"asked", "asked_again"}

Room(n) ==
  Len(history[active]) + n <= IF active = "main" THEN MaxMessages ELSE MaxTask

AssistantText ==
  /\ Asked /\ Room(1)
  /\ \E n \in Sizes :
       history' = [history EXCEPT ![active] = Append(@, NewMessage(active, "assistant", n))]
  /\ pc' = "ready"
  /\ UNCHANGED <<options, event, active, archive, lost, tasked>>

\* The assistant message of a call, and a tool message.
Calling(t, n) ==
  Append(history[t],
         [NewMessage(t, "assistant", n) EXCEPT !.trimmed = Min({n, TrimmedSize})])
Answered(t, n) == Append(history[t], NewMessage(t, "tool", n))

ToolCall ==
  /\ Asked /\ Room(2)
  /\ \E n \in Sizes : history' = [history EXCEPT ![active] = Calling(active, n)]
  /\ pc' = "tool"
  /\ UNCHANGED <<options, event, active, archive, lost, tasked>>

ToolResult ==
  /\ pc = "tool"
  /\ \E n \in Sizes : history' = [history EXCEPT ![active] = Answered(active, n)]
  /\ pc' = "ready"
  /\ UNCHANGED <<options, event, active, archive, lost, tasked>>

\* compact_conversation, which need not be enabled.  Its result quotes the
\* summary it made.
Compact ==
  /\ pc = "tool"
  /\ SummarizeIf(active, Chars(Effective(active)) >= options.compact_min)
  /\ LET compacted == Chars(Effective(active)) >= options.compact_min /\ CanCut(active)
     IN  \E n \in Sizes :
           history' = [history EXCEPT ![active] =
             Append(@, [NewMessage(active, "tool", n) EXCEPT !.marked = compacted])]
  /\ pc' = "ready"
  /\ UNCHANGED <<options, active, tasked>>

\* The run ends; its final text stays outside the history.
RunEnds ==
  /\ active = "main" /\ (pc = "ready" \/ Asked)
  /\ pc' = "idle"
  /\ UNCHANGED <<options, history, event, active, archive, lost, tasked>>

UserInput ==
  /\ pc = "idle" /\ Room(1)
  /\ \E n \in Sizes :
       history' = [history EXCEPT !.main = Append(@, NewMessage("main", "user", n))]
  /\ pc' = "ready"
  /\ UNCHANGED <<options, event, active, archive, lost, tasked>>

-----------------------------------------------------------------------------
(* task: the subagent's run, inside the tool call of its parent. *)

\* filter_state_for_child lets the event pass.
InheritedEvent == event["main"]

StartTask ==
  /\ Tasks /\ active = "main" /\ pc = "tool"
  /\ \E n \in Sizes :
       history' = [history EXCEPT !.child = <<NewMessage("child", "user", n)>>]
  /\ event' = [event EXCEPT !.child = InheritedEvent]
  /\ active' = "child" /\ pc' = "ready" /\ tasked' = TRUE
  /\ UNCHANGED <<options, archive, lost>>

\* The child is done and the parent has its answer.
LeaveChild ==
  /\ active = "child" /\ (pc = "ready" \/ Asked)
  /\ \E n \in Sizes :
       history' = [history EXCEPT !.main = Answered("main", n), !.child = <<>>]
  /\ active' = "main" /\ pc' = "ready"
  /\ UNCHANGED <<options, archive, lost, tasked>>

\* merge_child_state puts the child's event into the parent's state.
TaskDone ==
  /\ LeaveChild
  /\ event' = [event EXCEPT !.main = event["child"], !.child = NoEvent]

\* The subagent fails or has no final text: nothing is merged.
TaskFails ==
  /\ LeaveChild
  /\ event' = [event EXCEPT !.child = NoEvent]

-----------------------------------------------------------------------------
Init ==
  /\ options \in Options
  /\ history = [t \in Threads |-> <<>>]
  /\ event = [t \in Threads |-> NoEvent]
  /\ active = "main" /\ pc = "idle"
  /\ archive = <<>>
  /\ lost = {} /\ tasked = FALSE

Next ==
  \/ UserInput \/ Ask \/ AskAgain \/ AssistantText \/ RunEnds
  \/ ToolCall \/ ToolResult \/ Compact
  \/ StartTask \/ TaskDone \/ TaskFails

Spec == Init /\ [][Next]_vars
-----------------------------------------------------------------------------
(* What summarisation promises. *)

\* Types, and that a session that delegates nothing hides less than all of its
\* history.
TypeOK ==
  /\ options \in Options
  /\ history \in [Threads -> Seq(Message)]
  /\ event \in [Threads -> Event]
  /\ active \in Threads
  /\ pc \in {"idle", "ready", "asked", "asked_again", "tool"}
  /\ tasked \in BOOLEAN
  /\ archive \in Seq(SUBSET (1 .. MaxMessages))
  /\ lost \subseteq 1 .. MaxMessages
  /\ ~tasked /\ event["main"] # NoEvent => event["main"].cutoff < Len(history["main"])

\* However often the conversation is summarised, by budget, on overflow or by
\* compact_conversation, and whatever subagents and failed writes do, the
\* archive holds the messages of the session in order, and none twice
\* (docs/acceptance/summarization.md, chained summarisation and S-09).  The
\* states this is said of have their types.
ArchivedInOrder ==
  /\ TypeOK
  /\ \A i, j \in DOMAIN archive :
       i < j => \A p \in archive[i], q \in archive[j] : p < q

\* In a session that delegates nothing, every message hidden from the provider
\* is in the archive, unless it quotes a summary or its write failed.
NothingUnarchived ==
  ~tasked => \A p \in 1 .. event["main"].cutoff :
    \/ history["main"][p].marked
    \/ p \in lost
    \/ \E i \in DOMAIN archive : p \in archive[i]

\* The messages of the request the provider was asked with: what
\* before_provider_step returned.
Request == Effective(active)

\* What a request shows of the history: all but the summary at its head.
Own(s) == IF s # <<>> /\ s[1].summary THEN Tail(s) ELSE s

\* Within the limit, or no more than the recent messages.  With none demanded, a
\* last message over the limit by itself keeps all of the history.
Fits(s) ==
  \/ Len(s) <= options.min_recent
  \/ ~ShouldSummarize(s)
  \/ options.min_recent = 0 /\ ShouldSummarize(<<s[Len(s)]>>)

\* A request goes out only with its own messages within the limit, or with no
\* more of them than min_recent_messages demands, but for a last message over
\* the limit by itself.
RequestFits == Asked /\ options.enabled => Fits(Own(Request))

\* The latest min_recent_messages of the conversation are in every request of a
\* session that delegates nothing.
RecentKept ==
  Asked /\ ~tasked =>
    LET n == Len(history["main"])
    IN  \A p \in 1 .. n : p + options.min_recent > n =>
          \E i \in DOMAIN Request :
            ~Request[i].summary /\ Request[i].covers = {<<"main", p>>}

\* The session never goes back to show what it had hidden
\* (docs/acceptance/summarization.md S-03: cutoff_index does not fall back),
\* though the events of its subagents come back into its state.
CutoffNeverBack ==
  [][event["main"].cutoff <= event'["main"].cutoff]_vars

-----------------------------------------------------------------------------
(* What the actions keep, and why the above holds. *)

\* A history says what its thread said, in order, within its bound; only a
\* subagent that runs has one.
HistoryInv ==
  /\ \A t \in Threads : \A p \in DOMAIN history[t] :
       ~history[t][p].summary /\ history[t][p].covers = {<<t, p>>}
  /\ Len(history["main"]) + (IF active = "child" \/ pc = "tool" THEN 1 ELSE 0)
       <= MaxMessages
  /\ Len(history["child"]) + (IF active = "child" /\ pc = "tool" THEN 1 ELSE 0)
       <= MaxTask
  /\ active = "main" => history["child"] = <<>>
  /\ active = "child" => pc # "idle"

\* An event hides something; a subagent's hides at least what its parent's
\* hides, and a session's own leaves it the recent messages.
EventInv ==
  /\ \A t \in Threads : event[t] = NoEvent \/ event[t].cutoff > 0
  /\ active = "child" => tasked /\ event["main"].cutoff <= event["child"].cutoff
  /\ ~tasked /\ event["main"] # NoEvent =>
       event["main"].cutoff + options.min_recent <= Len(history["main"])

\* The archive ends where the session's summary does.
ArchiveInv ==
  \A i \in DOMAIN archive : \A p \in archive[i] : p <= event["main"].cutoff

SumInv ==
  HistoryInv /\ EventInv /\ ArchiveInv /\ ArchivedInOrder /\ NothingUnarchived

=============================================================================

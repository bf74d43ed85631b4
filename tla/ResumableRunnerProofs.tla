------------------------ MODULE ResumableRunnerProofs ------------------------
(***************************************************************************)
(* Theorems about ResumableRunner and about RunnerRequests, RunnerSession  *)
(* and CommandLine, which extend it, for every value of their constants:   *)
(* the runner itself first, then the request the provider is sent, then    *)
(* the session it implements, then the run command, a caller of the        *)
(* runner, of which the runner's theorems hold, and what it tells the      *)
(* human and the shell.                                                    *)
(***************************************************************************)
EXTENDS CommandLine, RunnerRequests, RunnerSession, DataInduction, SequenceTheorems,
        FiniteSetTheorems, TLAPS

-----------------------------------------------------------------------------
(* The helpers the actions are built from. *)

\* A tool message with an id in Ids is a message: what PushResult appends.
LEMMA ToolMessageType ==
  ASSUME NEW n \in Nat, NEW id \in Ids, NEW status \in ResultStatus
  PROVE  ToolMessage(n, id, status) \in Message
<1>1. <<id>> \in Seq(Ids)
  OBVIOUS
<1>. QED
  BY <1>1 DEF ToolMessage, Message

\* Popping gives the call an id and leaves its tool and arguments alone.
LEMMA PopFacts ==
  ASSUME TypeOK, Pop
  PROVE  /\ NextCall \in Call /\ NextCall.id \in Ids
         /\ NextCall.tool = calls[cursor].tool
         /\ NextCall.args = calls[cursor].args
         /\ cursor \in Nat \ {0} /\ cursor' = cursor + 1
         /\ calls' \in Seq(Call) /\ Len(calls') = Len(calls)
         /\ cursor' \in 1 .. (Len(calls') + 1)
         /\ calls'[cursor] = NextCall
         /\ \A n \in 1 .. Len(calls) : n # cursor => calls'[n] = calls[n]
         /\ nextCallId' \in Nat
<1>1. cursor \in 1 .. Len(calls) /\ calls \in Seq(Call) /\ nextCallId \in Nat
  BY DEF TypeOK, Pop
<1>2. calls[cursor] \in Call
  BY <1>1, ElementOfSeq
<1>3. NextCall \in Call /\ NextCall.id \in Ids
  BY <1>1, <1>2 DEF NextCall, Executable, Unnamed, Call, Ids
<1>4. /\ NextCall.tool = calls[cursor].tool
      /\ NextCall.args = calls[cursor].args
  BY <1>2 DEF NextCall, Executable, Call
<1>5. calls' = [calls EXCEPT ![cursor] = NextCall]
  BY DEF Pop
<1>6. calls' \in Seq(Call) /\ Len(calls') = Len(calls)
  BY <1>1, <1>3, <1>5, ExceptSeq
<1>7. /\ calls'[cursor] = NextCall
      /\ \A n \in 1 .. Len(calls) : n # cursor => calls'[n] = calls[n]
  BY <1>1, <1>5
<1>8. cursor' = cursor + 1 /\ nextCallId' \in Nat
  BY <1>1 DEF Pop
<1>. QED
  BY <1>1, <1>3, <1>4, <1>6, <1>7, <1>8

\* Announced keeps the length of a batch and gives calls of the right type.
LEMMA AnnouncedType ==
  ASSUME TypeOK, NEW batch \in Batches
  PROVE  /\ Announced(batch) \in Seq(Call)
         /\ [i \in DOMAIN batch |-> SaidId(batch, i)] \in Seq(Ids)
         /\ Cardinality({i \in DOMAIN batch : batch[i].id = NoId}) \in Nat
<1>1. batch \in Seq(RawCall) /\ nextCallId \in Nat /\ Len(calls) \in Nat
  BY BatchesAssumption DEF TypeOK
<1>2. DOMAIN batch = 1 .. Len(batch) /\ Len(batch) \in Nat
  BY <1>1
<1>3. \A i \in DOMAIN batch :
        Cardinality({j \in 1 .. (i - 1) : batch[j].id = NoId}) \in Nat
  <2>1. TAKE i \in DOMAIN batch
  <2>2. IsFiniteSet(1 .. (i - 1))
    BY <1>2, FS_Interval
  <2>3. {j \in 1 .. (i - 1) : batch[j].id = NoId} \in SUBSET (1 .. (i - 1))
    OBVIOUS
  <2>. QED
    BY <2>2, <2>3, FS_Subset, FS_CardinalityType
<1>4. Cardinality({i \in DOMAIN batch : batch[i].id = NoId}) \in Nat
  <2>1. IsFiniteSet(DOMAIN batch)
    BY <1>2, FS_Interval
  <2>2. {i \in DOMAIN batch : batch[i].id = NoId} \in SUBSET DOMAIN batch
    OBVIOUS
  <2>. QED
    BY <2>1, <2>2, FS_Subset, FS_CardinalityType
<1>5. \A i \in DOMAIN batch : batch[i] \in RawCall
  BY <1>1, <1>2, ElementOfSeq
<1>6. \A i \in DOMAIN batch : SaidId(batch, i) \in Ids
  BY <1>1, <1>3, <1>5 DEF SaidId, Ids, RawCall
<1>7. [i \in DOMAIN batch |-> SaidId(batch, i)] \in Seq(Ids)
  BY <1>2, <1>6
<1>8. Announced(batch) \in Seq(Call)
  BY <1>1, <1>2, <1>5, <1>6 DEF Announced, Call, RawCall
<1>. QED
  BY <1>4, <1>7, <1>8

\* The same for the calls of a skill.
LEMMA ExpandedType ==
  ASSUME TypeOK, NEW batch \in SkillBatches, NEW id \in ProviderIds \cup {NoId}
  PROVE  Expanded(batch, id) \in Seq(Call)
<1>1. batch \in Seq(RawCall) /\ Len(calls) \in Nat
  BY BatchesAssumption DEF TypeOK
<1>2. DOMAIN batch = 1 .. Len(batch) /\ Len(batch) \in Nat
  BY <1>1
<1>3. \A i \in DOMAIN batch : batch[i] \in RawCall
  BY <1>1, <1>2, ElementOfSeq
<1>. QED
  BY <1>1, <1>2, <1>3 DEF Expanded, Call, RawCall, Ids

-----------------------------------------------------------------------------
(* Types and control. *)

TypeInv == TypeOK /\ ControlInv

\* What every action that answers call n preserves about the history.
LEMMA PushResultType ==
  ASSUME TypeOK, NEW n \in Nat, NEW id \in Ids, NEW status \in ResultStatus,
         PushResult(n, id, status)
  PROVE  messages' \in Seq(Message)
BY ToolMessageType, AppendProperties DEF PushResult, TypeOK

LEMMA RunAppendType ==
  ASSUME TypeOK, NEW n \in Nat, NEW args \in Args,
         ran' = Append(ran, [call |-> n, args |-> args])
  PROVE  ran' \in Seq(Run)
<1>1. [call |-> n, args |-> args] \in Run
  BY DEF Run
<1>. QED
  BY <1>1, AppendProperties DEF TypeOK

\* The actions of execute_calls preserve types and control.
LEMMA ExecuteStepType == TypeInv /\ ExecuteStep => TypeInv'
<1> SUFFICES ASSUME TypeOK, ControlInv, ExecuteStep PROVE TypeInv'
  BY DEF TypeInv
<1>1. CASE RefuseCall
  <2>1. Pop
    BY <1>1 DEF RefuseCall
  <2>2. messages' \in Seq(Message)
    BY <1>1, <2>1, PopFacts, PushResultType DEF RefuseCall, ResultStatus
  <2>3. TypeOK'
    BY <1>1, <2>1, <2>2, PopFacts DEF RefuseCall, Pop, TypeOK, ControlInv
  <2>4. ControlInv'
    BY <1>1, <2>1, PopFacts DEF RefuseCall, Pop, TypeOK, ControlInv, InFlight
  <2>. QED
    BY <2>3, <2>4 DEF TypeInv
<1>2. CASE InterruptCall
  <2>1. Pop
    BY <1>2 DEF InterruptCall
  <2>2. TypeOK'
    BY <1>2, <2>1, PopFacts DEF InterruptCall, Pop, TypeOK, ControlInv, Outputs
  <2>3. ControlInv'
    BY <1>2, <2>1, PopFacts DEF InterruptCall, Pop, TypeOK, ControlInv, InFlight
  <2>. QED
    BY <2>2, <2>3 DEF TypeInv
<1>3. CASE UnknownTool
  <2>1. Pop
    BY <1>3 DEF UnknownTool
  <2>2. messages' \in Seq(Message)
    BY <1>3, <2>1, PopFacts, PushResultType DEF UnknownTool, ResultStatus
  <2>3. TypeOK'
    BY <1>3, <2>1, <2>2, PopFacts DEF UnknownTool, Pop, TypeOK, ControlInv
  <2>4. ControlInv'
    BY <1>3, <2>1, PopFacts DEF UnknownTool, Pop, TypeOK, ControlInv, InFlight
  <2>. QED
    BY <2>3, <2>4 DEF TypeInv
<1>4. CASE StartTool
  <2>1. Pop
    BY <1>4 DEF StartTool
  <2>2. ran' \in Seq(Run)
    BY <1>4, <2>1, PopFacts, RunAppendType DEF StartTool, Call
  <2>3. TypeOK'
    BY <1>4, <2>1, <2>2, PopFacts DEF StartTool, Pop, TypeOK, ControlInv
  <2>4. ControlInv'
    BY <1>4, <2>1, PopFacts DEF StartTool, Pop, TypeOK, ControlInv, InFlight
  <2>. QED
    BY <2>3, <2>4 DEF TypeInv
<1>5. CASE FinishTool
  <2>1. calls[cursor - 1].id \in Ids /\ cursor - 1 \in Nat
    BY <1>5 DEF FinishTool, TypeOK, ControlInv, InFlight
  <2>2. messages' \in Seq(Message)
    BY <1>5, <2>1, PushResultType DEF FinishTool, ResultStatus
  <2>3. TypeOK'
    BY <1>5, <2>2 DEF FinishTool, TypeOK, historyVars
  <2>4. ControlInv'
    BY <1>5 DEF FinishTool, TypeOK, ControlInv, InFlight
  <2>. QED
    BY <2>3, <2>4 DEF TypeInv
<1>6. CASE BatchDone
  <2>1. TypeOK'
    BY <1>6 DEF BatchDone, TypeOK, historyVars
  <2>2. ControlInv'
    BY <1>6, SMTT(40) DEF BatchDone, TypeOK, ControlInv, InFlight
  <2>. QED
    BY <2>1, <2>2 DEF TypeInv
<1>. QED
  BY <1>1, <1>2, <1>3, <1>4, <1>5, <1>6 DEF ExecuteStep

\* A step of the provider loop that only ends the run or asks again.
LEMMA EndRunType ==
  ASSUME TypeOK, ControlInv, pc = "provider", NEW code \in Outputs, EndRun(code)
  PROVE  TypeInv'
<1>1. TypeOK'
  BY DEF EndRun, TypeOK, historyVars
<1>2. ControlInv'
  BY DEF EndRun, TypeOK, ControlInv, InFlight
<1>. QED
  BY <1>1, <1>2 DEF TypeInv

\* The queue takes a batch: calls grows at its end, nothing is popped yet.
LEMMA EnqueueType ==
  ASSUME TypeOK, ControlInv, InStep, NEW batch \in Seq(Call), Enqueue(batch),
         messages' \in Seq(Message), nextCallId' \in Nat
  PROVE  TypeInv'
<1>1. /\ calls' \in Seq(Call) /\ Len(calls') = Len(calls) + Len(batch)
      /\ Len(calls) \in Nat /\ Len(batch) \in Nat
      /\ \A n \in 1 .. Len(calls) : calls'[n] = calls[n]
  BY ConcatProperties DEF Enqueue, TypeOK
<1>2. step' \in 0 .. MaxSteps
  BY BoundsAssumption DEF Enqueue, InStep, TypeOK
<1>3. todosClash' \in BOOLEAN /\ retried' \in BOOLEAN
  BY Zenon DEF Enqueue, MultipleTodos
<1>4. TypeOK'
  BY <1>1, <1>2, <1>3 DEF Enqueue, InStep, TypeOK, historyVars
<1>5. ControlInv'
  BY <1>1 DEF Enqueue, InStep, TypeOK, ControlInv, InFlight
<1>. QED
  BY <1>4, <1>5 DEF TypeInv

\* The actions of the step loop preserve types and control.
LEMMA ProviderStepType == TypeInv /\ ProviderStep => TypeInv'
<1> SUFFICES ASSUME TypeOK, ControlInv, ProviderStep PROVE TypeInv'
  BY DEF TypeInv
<1>1. CASE StepMiddlewareFails
  BY <1>1, EndRunType DEF StepMiddlewareFails, InStep, Outputs
<1>2. CASE ProviderFails
  BY <1>2, EndRunType DEF ProviderFails, InStep, Outputs
<1>3. CASE SkillFails
  BY <1>3, EndRunType DEF SkillFails, InStep, Outputs
<1>4. CASE FinalText
  BY <1>4, EndRunType DEF FinalText, InStep, Outputs
<1>5. CASE MaxStepsExceeded
  BY <1>5, EndRunType DEF MaxStepsExceeded, Outputs
<1>6. CASE ContextOverflow
  <2>1. TypeOK'
    BY <1>6 DEF ContextOverflow, TypeOK, historyVars
  <2>2. ControlInv'
    BY <1>6 DEF ContextOverflow, TypeOK, ControlInv, InFlight
  <2>. QED
    BY <2>1, <2>2 DEF TypeInv
<1>7. CASE AssistantText
  <2>1. AssistantMessage(<<>>) \in Message
    BY DEF AssistantMessage, Message
  <2>2. messages' \in Seq(Message)
    BY <1>7, <2>1, AppendProperties DEF AssistantText, TypeOK
  <2>3. step' \in 0 .. MaxSteps
    BY <1>7, BoundsAssumption DEF AssistantText, InStep, TypeOK
  <2>6. retried' \in BOOLEAN
    BY <1>7, Zenon DEF AssistantText
  <2>5. TypeOK'
    BY <1>7, <2>2, <2>3, <2>6 DEF AssistantText, InStep, TypeOK, historyVars
  <2>4. ControlInv'
    BY <1>7 DEF AssistantText, InStep, TypeOK, ControlInv, InFlight
  <2>. QED
    BY <2>4, <2>5 DEF TypeInv
<1>8. ASSUME NEW batch \in Batches, ToolCalls(batch) PROVE TypeInv'
  <2> DEFINE said == [i \in DOMAIN batch |-> SaidId(batch, i)]
  <2>1. said \in Seq(Ids) /\ Announced(batch) \in Seq(Call)
    BY AnnouncedType
  <2>2. AssistantMessage(said) \in Message
    BY <2>1 DEF AssistantMessage, Message
  <2>3. messages' \in Seq(Message)
    BY <1>8, <2>2, AppendProperties DEF ToolCalls, TypeOK
  <2>4. nextCallId' \in Nat
    <3>1. Cardinality({i \in DOMAIN batch : batch[i].id = NoId}) \in Nat
      BY AnnouncedType
    <3>. QED
      BY <1>8, <3>1 DEF ToolCalls, TypeOK
  <2>. QED
    BY <1>8, <2>1, <2>3, <2>4, EnqueueType DEF ToolCalls
<1>9. ASSUME NEW batch \in SkillBatches, NEW id \in ProviderIds \cup {NoId},
             SkillCalls(batch, id)
      PROVE  TypeInv'
  <2>1. messages' \in Seq(Message) /\ nextCallId' \in Nat
    BY <1>9 DEF SkillCalls, TypeOK
  <2>. QED
    BY <1>9, <2>1, ExpandedType, EnqueueType DEF SkillCalls
<1>. QED
  BY <1>1, <1>2, <1>3, <1>4, <1>5, <1>6, <1>7, <1>8, <1>9 DEF ProviderStep

\* A decision clears the interrupt: what is left of the batch is the queue.
LEMMA ResolveType ==
  ASSUME TypeOK, ControlInv, NEW about \in asked, NEW args \in Args,
         NEW kind \in {"approve", "reject", "edit"}, Resolve(about, kind, args),
         messages' \in Seq(Message), ran' \in Seq(Run),
         pc' \in {"batch", "tool", "edited_tool"}
  PROVE  TypeInv'
<1>1. pending # 0 /\ pending = cursor - 1 /\ pending \in Nat /\ about \in Nat
  BY DEF Resolve, Matches, TypeOK
<1>2. decisions' \in Seq(Decision)
  <2>1. [call |-> pending, about |-> about, kind |-> kind, args |-> args] \in Decision
    BY <1>1 DEF Decision
  <2>. QED
    BY <2>1, AppendProperties DEF Resolve, TypeOK
<1>3. todosClash' \in BOOLEAN /\ retried' \in BOOLEAN
  BY Zenon DEF Resolve, MultipleTodos
<1>4. TypeOK'
  BY <1>1, <1>2, <1>3, BoundsAssumption DEF Resolve, TypeOK, Outputs
<1>5. ControlInv'
  BY <1>1 DEF Resolve, TypeOK, ControlInv, InFlight
<1>. QED
  BY <1>4, <1>5 DEF TypeInv

\* Executing the suspended call starts its tool or answers it with an error.
LEMMA ExecutePendingType ==
  ASSUME TypeOK, ControlInv, pending # 0, NEW args \in Args,
         NEW running \in {"tool", "edited_tool"}, ExecutePending(args, running)
  PROVE  /\ messages' \in Seq(Message) /\ ran' \in Seq(Run)
         /\ pc' \in {"batch", "tool", "edited_tool"}
<1>1. pending \in Nat /\ calls[pending].id \in Ids
  BY DEF TypeOK, ControlInv
<1>2. CASE /\ ran' = Append(ran, [call |-> pending, args |-> args])
           /\ pc' = running /\ UNCHANGED messages
  BY <1>1, <1>2, RunAppendType DEF TypeOK
<1>3. CASE /\ PushResult(pending, calls[pending].id, "error")
           /\ pc' = "batch" /\ UNCHANGED ran
  BY <1>1, <1>3, PushResultType DEF TypeOK, ResultStatus
<1>. QED
  BY <1>2, <1>3 DEF ExecutePending

\* What the caller does preserves types and control.
LEMMA CallerStepType == TypeInv /\ CallerStep => TypeInv'
<1> SUFFICES ASSUME TypeOK, ControlInv, CallerStep PROVE TypeInv'
  BY DEF TypeInv
<1>1. CASE PushUserInput
  <2>1. UserMessage \in Message
    BY DEF UserMessage, Message
  <2>2. messages' \in Seq(Message)
    BY <1>1, <2>1, AppendProperties DEF PushUserInput, TypeOK
  <2>3. TypeOK'
    BY <1>1, <2>2 DEF PushUserInput, TypeOK, historyVars, loopVars
  <2>4. ControlInv'
    BY <1>1 DEF PushUserInput, TypeOK, ControlInv, InFlight, loopVars
  <2>. QED
    BY <2>3, <2>4 DEF TypeInv
<1>2. CASE StartRun
  <2>1. step' \in 0 .. MaxSteps
    BY <1>2, BoundsAssumption DEF StartRun
  <2>4. retried' \in BOOLEAN
    BY <1>2, Zenon DEF StartRun
  <2>2. TypeOK'
    BY <1>2, <2>1, <2>4 DEF StartRun, TypeOK, historyVars
  <2>3. ControlInv'
    BY <1>2 DEF StartRun, TypeOK, ControlInv, InFlight
  <2>. QED
    BY <2>2, <2>3 DEF TypeInv
<1>3. CASE RunWhilePending
  <2>1. TypeOK'
    BY <1>3 DEF RunWhilePending, TypeOK, historyVars, loopVars, Outputs
  <2>2. ControlInv'
    BY <1>3 DEF RunWhilePending, TypeOK, ControlInv, InFlight, loopVars
  <2>. QED
    BY <2>1, <2>2 DEF TypeInv
<1>4. ASSUME NEW about \in asked, ResumeNotFound(about) PROVE TypeInv'
  <2>1. TypeOK'
    BY <1>4 DEF ResumeNotFound, TypeOK, historyVars, loopVars, Outputs
  <2>2. ControlInv'
    BY <1>4 DEF ResumeNotFound, TypeOK, ControlInv, InFlight, loopVars
  <2>. QED
    BY <2>1, <2>2 DEF TypeInv
<1>5. ASSUME NEW about \in asked, NEW args \in Args, EditInvalid(about, args)
      PROVE  TypeInv'
  <2>1. TypeOK'
    BY <1>5 DEF EditInvalid, TypeOK, historyVars, loopVars, Outputs
  <2>2. ControlInv'
    BY <1>5 DEF EditInvalid, TypeOK, ControlInv, InFlight, loopVars
  <2>. QED
    BY <2>1, <2>2 DEF TypeInv
<1>6. pending # 0 => calls[pending].args \in Args
  <2>1. pending # 0 => calls \in Seq(Call) /\ pending \in 1 .. Len(calls)
    BY DEF TypeOK, ControlInv
  <2>2. pending # 0 => calls[pending] \in Call
    BY <2>1, ElementOfSeq
  <2>. QED
    BY <2>2 DEF Call
<1>7. ASSUME NEW about \in asked, Approve(about) PROVE TypeInv'
  <2>1. pending # 0
    BY <1>7 DEF Approve, Resolve, Matches
  <2>. QED
    BY <1>6, <1>7, <2>1, ResolveType, ExecutePendingType DEF Approve
<1>8. ASSUME NEW about \in asked, Reject(about) PROVE TypeInv'
  <2>1. pending # 0 /\ pending \in Nat /\ calls[pending].id \in Ids
    BY <1>8 DEF Reject, Resolve, Matches, TypeOK, ControlInv
  <2>2. messages' \in Seq(Message) /\ ran' \in Seq(Run)
    BY <1>8, <2>1, PushResultType DEF Reject, ResultStatus, TypeOK
  <2>. QED
    BY <1>6, <1>8, <2>1, <2>2, ResolveType DEF Reject
<1>9. ASSUME NEW about \in asked, NEW args \in Args, Edit(about, args)
      PROVE  TypeInv'
  <2>1. pending # 0
    BY <1>9 DEF Edit, Resolve, Matches
  <2>. QED
    BY <1>9, <2>1, ResolveType, ExecutePendingType DEF Edit
<1>10. CASE Drop
  <2>1. messages' \in Seq(Message)
    BY <1>10, EmptySeq DEF Drop, TypeOK
  <2>2. TypeOK' /\ ControlInv'
    <3>1. pending = 0
      BY <1>10 DEF Drop, ControlInv
    <3>2. asked \subseteq 1 .. Len(calls) /\ Len(calls) \in Nat
      BY DEF TypeOK
    <3>3. TypeOK'
      BY <1>10, <2>1, <3>1, <3>2 DEF Drop, TypeOK, Outputs
    <3>4. ControlInv'
      BY <1>10, <3>1, <3>2 DEF Drop, TypeOK, ControlInv, InFlight
    <3>. QED
      BY <3>3, <3>4
  <2>. QED
    BY <2>2 DEF TypeInv
<1>. QED
  BY <1>1, <1>2, <1>3, <1>4, <1>5, <1>7, <1>8, <1>9, <1>10 DEF CallerStep, ResumeStep

LEMMA InitialType == Init => TypeInv
<1> SUFFICES ASSUME Init PROVE TypeInv
  OBVIOUS
<1>3. /\ initialized \in BOOLEAN /\ retried \in BOOLEAN /\ todosClash \in BOOLEAN
      /\ dropped \in BOOLEAN
  BY Zenon DEF Init
<1>4. messages \in Seq(Message) /\ calls \in Seq(Call) /\ Len(calls) = 0
  BY EmptySeq DEF Init
<1>5. ran \in Seq(Run) /\ decisions \in Seq(Decision)
  BY EmptySeq DEF Init
<1>1. TypeOK
  BY <1>3, <1>4, <1>5, BoundsAssumption DEF Init, TypeOK, Outputs
<1>2. ControlInv
  BY DEF Init, ControlInv, InFlight
<1>. QED
  BY <1>1, <1>2 DEF TypeInv

\* An element in front of a sequence.
LEMMA PrependType ==
  ASSUME NEW S, NEW e \in S, NEW s \in Seq(S)
  PROVE  <<e>> \o s \in Seq(S)
<1>1. <<e>> \in Seq(S)
  OBVIOUS
<1>. QED
  BY <1>1

LEMMA NextType == TypeInv /\ [Next]_vars => TypeInv'
<1> SUFFICES ASSUME TypeOK, ControlInv, [Next]_vars PROVE TypeInv'
  BY DEF TypeInv
<1>1. CASE BeforeRun
  <2>0. messages' \in Seq(Message)
    <3>1. SystemMessage \in Message
      BY DEF SystemMessage, Message
    <3>2. messages \in Seq(Message)
      BY DEF TypeOK
    <3>3. <<SystemMessage>> \o messages \in Seq(Message)
      BY <3>1, <3>2, PrependType
    <3>4. \/ UNCHANGED messages
          \/ messages' = <<SystemMessage>> \o messages
      BY <1>1 DEF BeforeRun
    <3>. QED
      BY <3>2, <3>3, <3>4
  <2>1. TypeOK'
    BY <1>1, <2>0 DEF BeforeRun, TypeOK, historyVars
  <2>2. ControlInv'
    BY <1>1 DEF BeforeRun, TypeOK, ControlInv, InFlight
  <2>. QED
    BY <2>1, <2>2 DEF TypeInv
<1>2. CASE BeforeRunFails
  <2>1. TypeOK'
    BY <1>2, EmptySeq DEF BeforeRunFails, TypeOK, historyVars, Outputs
  <2>2. ControlInv'
    BY <1>2 DEF BeforeRunFails, TypeOK, ControlInv, InFlight
  <2>. QED
    BY <2>1, <2>2 DEF TypeInv
<1>3. CASE UNCHANGED vars
  <2>1. TypeOK'
    BY <1>3 DEF vars, TypeOK, historyVars, loopVars
  <2>2. ControlInv'
    BY <1>3 DEF vars, TypeOK, ControlInv, InFlight, loopVars
  <2>. QED
    BY <2>1, <2>2 DEF TypeInv
<1>. QED
  BY <1>1, <1>2, <1>3, ProviderStepType, ExecuteStepType, CallerStepType
     DEF Next, RunnerStep, TypeInv

\* In every execution the runner's state is well formed; in particular a
\* pending interrupt is always the call popped last, so remaining_calls is what
\* follows it in its batch.
THEOREM TypeCorrect == Spec => []TypeOK
<1>1. Spec => []TypeInv
  BY InitialType, NextType, PTL DEF Spec
<1>. QED
  BY <1>1, PTL DEF TypeInv

-----------------------------------------------------------------------------
(* What a step does to the tools that ran, the decisions and the calls.      *)

\* Nothing runs and nothing is decided.
Quiet == UNCHANGED <<ran, decisions>> /\ Released' >= Released

\* The queue starts the tool of a call that needs no human.
StartsTool ==
  /\ pending = 0 /\ pending' = 0 /\ cursor' = cursor + 1
  /\ calls'[cursor] = NextCall /\ ~NeedsHuman(NextCall)
  /\ ran' = Append(ran, [call |-> cursor, args |-> NextCall.args])
  /\ UNCHANGED decisions

\* A decision about the suspended call is applied and may start its tool.
Decides(kind, args) ==
  /\ pending # 0 /\ pending' = 0 /\ UNCHANGED <<cursor, calls>>
  /\ \E about \in Nat :
       decisions' = Append(decisions,
         [call |-> pending, about |-> about, kind |-> kind, args |-> args])
  /\ \/ ran' = ran
     \/ /\ kind \in {"approve", "edit"}
        /\ ran' = Append(ran, [call |-> pending, args |-> args])

\* Calls already popped keep their tool, arguments and id.
CallsKept == \A n \in 1 .. (cursor - 1) : calls'[n] = calls[n]

LEMMA ReleasedType ==
  ASSUME TypeInv
  PROVE  Released \in Nat /\ cursor \in Nat \ {0} /\ Len(calls) \in Nat
BY DEF TypeInv, TypeOK, ControlInv, Released

\* The queue's position, and what lies behind it, after a step.
LEMMA CursorFacts ==
  ASSUME NEW s \in Seq(Call), NEW c \in 1 .. (Len(s) + 1)
  PROVE  c \in Nat \ {0}
OBVIOUS

LEMMA Behind ==
  ASSUME NEW waits \in BOOLEAN, NEW c \in Nat \ {0}, waits => c > 1
  PROVE  (IF waits THEN c - 2 ELSE c - 1) \in Nat
OBVIOUS

LEMMA PositionsNext ==
  ASSUME TypeInv, [Next]_vars
  PROVE  Released' \in Nat /\ Settled' \in Nat
<1>1. TypeInv'
  BY NextType
<1>2. (pending' # 0 => cursor' > 1) /\ (InFlight' => cursor' > 1)
  BY <1>1 DEF TypeInv, TypeOK, ControlInv
<1>3. cursor' \in Nat \ {0}
  BY <1>1, CursorFacts DEF TypeInv, TypeOK
<1>4. (pending' # 0 \/ InFlight') \in BOOLEAN
  BY DEF InFlight
<1>5. Released' \in Nat
  BY <1>2, <1>3, Behind DEF Released
<1>6. Settled' \in Nat
  BY <1>2, <1>3, <1>4, Behind DEF Settled
<1>. QED
  BY <1>5, <1>6

LEMMA CallsStep == TypeInv /\ [Next]_vars => CallsKept
<1> SUFFICES ASSUME TypeInv, [Next]_vars PROVE CallsKept
  OBVIOUS
<1>1. calls \in Seq(Call) /\ cursor \in 1 .. (Len(calls) + 1) /\ Len(calls) \in Nat
  BY DEF TypeInv, TypeOK
<1>2. CASE UNCHANGED calls
  BY <1>2 DEF CallsKept
<1>3. CASE Pop
  <2>1. TypeOK
    BY DEF TypeInv
  <2>. QED
    BY <1>1, <1>3, <2>1, PopFacts DEF CallsKept
<1>4. ASSUME NEW batch \in Batches, ToolCalls(batch) PROVE CallsKept
  <2>1. Announced(batch) \in Seq(Call) /\ calls' = calls \o Announced(batch)
    BY <1>4, AnnouncedType DEF ToolCalls, Enqueue, TypeInv
  <2>. QED
    BY <1>1, <2>1, ConcatProperties DEF CallsKept
<1>5. ASSUME NEW batch \in SkillBatches, NEW id \in ProviderIds \cup {NoId},
             SkillCalls(batch, id)
      PROVE  CallsKept
  <2>1. Expanded(batch, id) \in Seq(Call) /\ calls' = calls \o Expanded(batch, id)
    BY <1>5, ExpandedType DEF SkillCalls, Enqueue, TypeInv
  <2>. QED
    BY <1>1, <2>1, ConcatProperties DEF CallsKept
<1>6. CASE ExecuteStep
  BY <1>2, <1>3, <1>6 DEF ExecuteStep, RefuseCall, InterruptCall, UnknownTool,
     StartTool, FinishTool, BatchDone
<1>7. CASE ProviderStep
  BY <1>2, <1>4, <1>5, <1>7 DEF ProviderStep, StepMiddlewareFails, ProviderFails,
     SkillFails, FinalText, ContextOverflow, AssistantText, MaxStepsExceeded, EndRun
<1>8. CASE CallerStep
  BY <1>2, <1>8 DEF CallerStep, ResumeStep, PushUserInput, StartRun,
     RunWhilePending, ResumeNotFound, Approve, Reject, Edit, EditInvalid, Resolve, Drop
<1>9. CASE BeforeRun \/ BeforeRunFails \/ UNCHANGED vars
  BY <1>2, <1>9 DEF BeforeRun, BeforeRunFails, vars
<1>. QED
  BY <1>6, <1>7, <1>8, <1>9 DEF Next, RunnerStep

\* Every step is quiet, starts a tool from the queue, or applies a decision.
LEMMA StepEffects ==
  ASSUME TypeInv, [Next]_vars
  PROVE  \/ Quiet
         \/ StartsTool
         \/ \E kind \in {"approve", "reject", "edit"}, args \in Args : Decides(kind, args)
<1>. USE DEF TypeInv
<1>0. Released \in Nat /\ cursor \in Nat \ {0} /\ Len(calls) \in Nat
  BY ReleasedType
<1>1. CASE RefuseCall \/ UnknownTool
  <2>1. pending = 0 /\ pending' = 0 /\ cursor' = cursor + 1
    BY <1>1 DEF RefuseCall, UnknownTool, Pop, ControlInv
  <2>. QED
    BY <1>0, <1>1, <2>1 DEF RefuseCall, UnknownTool, Pop, Quiet, Released
<1>2. CASE InterruptCall
  <2>1. pending = 0 /\ pending' # 0 /\ cursor' = cursor + 1
    BY <1>0, <1>2 DEF InterruptCall, Pop, ControlInv
  <2>. QED
    BY <1>0, <1>2, <2>1 DEF InterruptCall, Pop, Quiet, Released
<1>3. CASE StartTool
  <2>1. pending = 0 /\ pending' = 0 /\ cursor' = cursor + 1
    BY <1>3 DEF StartTool, Pop, ControlInv
  <2>2. calls'[cursor] = NextCall
    BY <1>3, PopFacts DEF StartTool
  <2>. QED
    BY <1>3, <2>1, <2>2 DEF StartTool, Pop, StartsTool
<1>4. CASE FinishTool \/ BatchDone
  BY <1>0, <1>4 DEF FinishTool, BatchDone, historyVars, Quiet, Released
<1>5. CASE ProviderStep
  <2>1. CASE \/ \E batch \in Batches : ToolCalls(batch)
             \/ \E batch \in SkillBatches, id \in ProviderIds \cup {NoId} :
                  SkillCalls(batch, id)
    <3>1. UNCHANGED <<cursor, pending, ran, decisions>>
      BY <2>1 DEF ToolCalls, SkillCalls, Enqueue, historyVars
    <3>. QED
      BY <1>0, <3>1 DEF Quiet, Released
  <2>2. CASE \/ StepMiddlewareFails \/ ProviderFails \/ SkillFails \/ FinalText
             \/ ContextOverflow \/ AssistantText \/ MaxStepsExceeded
    <3>1. UNCHANGED <<cursor, pending, ran, decisions>>
      BY <2>2 DEF StepMiddlewareFails, ProviderFails, SkillFails, FinalText,
         ContextOverflow, AssistantText, MaxStepsExceeded, EndRun, historyVars
    <3>. QED
      BY <1>0, <3>1 DEF Quiet, Released
  <2>. QED
    BY <1>5, <2>1, <2>2 DEF ProviderStep
<1>6. CASE BeforeRun \/ BeforeRunFails \/ UNCHANGED vars
  BY <1>0, <1>6 DEF BeforeRun, BeforeRunFails, vars, historyVars, Quiet, Released
<1>7. CASE PushUserInput \/ StartRun \/ RunWhilePending
  BY <1>0, <1>7 DEF PushUserInput, StartRun, RunWhilePending, historyVars, Quiet, Released
<1>8. CASE Drop
  <2>1. pending = 0 /\ pending' = 0 /\ cursor' = Len(calls) + 1 /\ cursor <= Len(calls) + 1
    BY <1>8 DEF Drop, TypeOK, ControlInv
  <2>. QED
    BY <1>0, <1>8, <2>1 DEF Drop, Quiet, Released
<1>9. ASSUME NEW about \in asked,
             \/ ResumeNotFound(about)
             \/ \E args \in Args : EditInvalid(about, args)
      PROVE  Quiet
  BY <1>0, <1>9 DEF ResumeNotFound, EditInvalid, historyVars, Quiet, Released
<1>10. ASSUME NEW about \in asked PROVE about \in Nat
  BY <1>10 DEF TypeOK
<1>11. pending # 0 => calls[pending].args \in Args
  <2>1. pending # 0 => calls \in Seq(Call) /\ pending \in 1 .. Len(calls)
    BY DEF TypeOK, ControlInv
  <2>2. pending # 0 => calls[pending] \in Call
    BY <2>1, ElementOfSeq
  <2>. QED
    BY <2>2 DEF Call
<1>12. ASSUME NEW about \in asked, Reject(about)
       PROVE  \E args \in Args : Decides("reject", args)
  BY <1>10, <1>11, <1>12 DEF Reject, Resolve, Matches, Decides
<1>13. ASSUME NEW about \in asked, Approve(about)
       PROVE  \E args \in Args : Decides("approve", args)
  BY <1>10, <1>11, <1>13 DEF Approve, Resolve, Matches, Decides, ExecutePending
<1>14. ASSUME NEW about \in asked, NEW args \in Args, Edit(about, args)
       PROVE  Decides("edit", args)
  BY <1>10, <1>14 DEF Edit, Resolve, Matches, Decides, ExecutePending
<1>. QED
  BY <1>1, <1>2, <1>3, <1>4, <1>5, <1>6, <1>7, <1>8, <1>9, <1>12, <1>13, <1>14
     DEF Next, RunnerStep, ExecuteStep, CallerStep, ResumeStep

-----------------------------------------------------------------------------
(* Tools run in order, once, and only past the gate. *)

LEMMA RanStep == TypeInv /\ RanInv /\ [Next]_vars => RanInv'
<1> SUFFICES ASSUME TypeInv, RanInv, [Next]_vars PROVE RanInv'
  OBVIOUS
<1>0. Released \in Nat /\ cursor \in Nat \ {0} /\ ran \in Seq(Run)
  BY ReleasedType DEF TypeInv, TypeOK
<1>1. CASE Quiet
  <2>1. Released' \in Nat
    BY PositionsNext
  <2>. QED
    BY <1>0, <1>1, <2>1 DEF Quiet, RanInv, RanInOrder
<1>2. ASSUME NEW args, ran' = Append(ran, [call |-> Released + 1, args |-> args]),
             Released' = Released + 1
      PROVE  RanInv'
  <2>1. /\ DOMAIN ran' = 1 .. (Len(ran) + 1) /\ Len(ran) \in Nat
        /\ DOMAIN ran = 1 .. Len(ran)
        /\ \A i \in 1 .. Len(ran) : ran'[i] = ran[i]
        /\ ran'[Len(ran) + 1] = [call |-> Released + 1, args |-> args]
    BY <1>0, <1>2
  <2>2. \A i \in DOMAIN ran' : ran'[i].call \in 1 .. Released'
    BY <1>0, <1>2, <2>1 DEF RanInv
  <2>3. RanInOrder'
    BY <1>0, <2>1 DEF RanInv, RanInOrder
  <2>. QED
    BY <2>2, <2>3 DEF RanInv
<1>3. CASE StartsTool
  <2>1. Released + 1 = cursor /\ Released' = Released + 1
    BY <1>0, <1>3 DEF StartsTool, Released
  <2>. QED
    BY <1>2, <1>3, <2>1 DEF StartsTool
<1>4. ASSUME NEW kind \in {"approve", "reject", "edit"}, NEW args \in Args,
             Decides(kind, args)
      PROVE  RanInv'
  <2>1. pending = Released + 1 /\ Released' = Released + 1
    BY <1>0, <1>4 DEF Decides, Released, TypeInv, TypeOK
  <2>2. CASE ran' = ran
    BY <1>0, <2>1, <2>2 DEF RanInv, RanInOrder
  <2>. QED
    BY <1>2, <1>4, <2>1, <2>2 DEF Decides
<1>. QED
  BY <1>1, <1>3, <1>4, StepEffects

\* Tools run in the order of the calls and none runs twice, for any provider,
\* any batches and any callers.
THEOREM OrderCorrect == Spec => []RanInOrder
<1>1. Init => RanInv
  BY DEF Init, RanInv, RanInOrder
<1>2. Spec => [](TypeInv /\ RanInv)
  BY <1>1, InitialType, NextType, RanStep, PTL DEF Spec
<1>. QED
  BY <1>2, PTL DEF RanInv

\* A held back call that ran has its decision: the one that started it.
LEMMA GateStep ==
  TypeInv /\ RanInv /\ HumanGate /\ [Next]_vars => HumanGate'
<1> SUFFICES ASSUME TypeInv, RanInv, HumanGate, [Next]_vars PROVE HumanGate'
  OBVIOUS
<1>0. /\ Released \in Nat /\ Released <= cursor - 1 /\ cursor \in Nat \ {0}
      /\ ran \in Seq(Run) /\ decisions \in Seq(Decision)
  BY ReleasedType DEF TypeInv, TypeOK, Released
<1>1. \A i \in DOMAIN ran : calls'[ran[i].call] = calls[ran[i].call]
  BY <1>0, CallsStep DEF CallsKept, RanInv
<1> DEFINE Allowed(c, r, ds) ==
      NeedsHuman(c) => \E k \in DOMAIN ds : /\ ds[k].call = r.call
                                           /\ ds[k].kind \in {"approve", "edit"}
                                           /\ ds[k].args = r.args
<1>2. \A i \in DOMAIN ran : Allowed(calls'[ran[i].call], ran[i], decisions)
  BY <1>1 DEF HumanGate
<1>3. SUFFICES \A i \in DOMAIN ran' : Allowed(calls'[ran'[i].call], ran'[i], decisions')
  BY DEF HumanGate, NeedsHuman
<1>4. CASE Quiet
  BY <1>2, <1>4 DEF Quiet
<1>5. CASE StartsTool
  <2>1. /\ DOMAIN ran' = DOMAIN ran \cup {Len(ran) + 1}
        /\ \A i \in DOMAIN ran : ran'[i] = ran[i]
        /\ ran'[Len(ran) + 1].call = cursor
    BY <1>0, <1>5 DEF StartsTool
  <2>2. decisions' = decisions /\ calls'[cursor] = NextCall /\ ~NeedsHuman(NextCall)
    BY <1>5 DEF StartsTool
  <2>. QED
    BY <1>2, <2>1, <2>2
<1>6. ASSUME NEW kind \in {"approve", "reject", "edit"}, NEW args \in Args,
             Decides(kind, args)
      PROVE  \A i \in DOMAIN ran' : Allowed(calls'[ran'[i].call], ran'[i], decisions')
  <2>1. PICK about \in Nat : decisions' = Append(decisions,
          [call |-> pending, about |-> about, kind |-> kind, args |-> args])
    BY <1>6 DEF Decides
  <2>2. /\ DOMAIN decisions' = DOMAIN decisions \cup {Len(decisions) + 1}
        /\ \A k \in DOMAIN decisions : decisions'[k] = decisions[k]
        /\ decisions'[Len(decisions) + 1] =
             [call |-> pending, about |-> about, kind |-> kind, args |-> args]
    BY <1>0, <2>1
  <2>3. \A i \in DOMAIN ran : Allowed(calls'[ran[i].call], ran[i], decisions')
    BY <1>2, <2>2
  <2>4. CASE ran' = ran
    BY <2>3, <2>4
  <2>5. CASE /\ kind \in {"approve", "edit"}
             /\ ran' = Append(ran, [call |-> pending, args |-> args])
    <3>1. /\ DOMAIN ran' = DOMAIN ran \cup {Len(ran) + 1}
          /\ \A i \in DOMAIN ran : ran'[i] = ran[i]
          /\ ran'[Len(ran) + 1] = [call |-> pending, args |-> args]
      BY <1>0, <2>5
    <3>2. Allowed(calls'[pending], [call |-> pending, args |-> args], decisions')
      BY <2>2, <2>5
    <3>. QED
      BY <2>3, <3>1, <3>2
  <2>. QED
    BY <1>6, <2>4, <2>5 DEF Decides
<1>. QED
  BY <1>4, <1>5, <1>6, StepEffects

\* Whatever the approval policy and interrupt_on hold back runs only after a
\* decision about that very call, with the arguments decided on.
THEOREM GateCorrect == Spec => []HumanGate
<1>1. Init => RanInv /\ HumanGate
  BY DEF Init, RanInv, RanInOrder, HumanGate
<1>2. Spec => [](TypeInv /\ RanInv /\ HumanGate)
  BY <1>1, InitialType, NextType, RanStep, GateStep, PTL DEF Spec
<1>. QED
  BY <1>2, PTL

-----------------------------------------------------------------------------
(* A rejection is final. *)

LEMMA DecidedStep ==
  TypeInv /\ RanInv /\ DecidedInv /\ [Next]_vars => DecidedInv'
<1> SUFFICES ASSUME TypeInv, RanInv, DecidedInv, [Next]_vars PROVE DecidedInv'
  OBVIOUS
<1>0. /\ Released \in Nat /\ cursor \in Nat \ {0} /\ ran \in Seq(Run)
      /\ decisions \in Seq(Decision)
  BY ReleasedType DEF TypeInv, TypeOK
<1>2. Released' \in Nat
  BY PositionsNext
<1>3. CASE Quiet
  BY <1>0, <1>2, <1>3 DEF Quiet, DecidedInv, RejectionIsFinal
<1>4. CASE StartsTool
  <2>1. Released = cursor - 1 /\ Released' = cursor
    BY <1>0, <1>4 DEF StartsTool, Released
  <2>2. /\ DOMAIN ran' = DOMAIN ran \cup {Len(ran) + 1}
        /\ \A i \in DOMAIN ran : ran'[i] = ran[i]
        /\ ran'[Len(ran) + 1].call = cursor
        /\ decisions' = decisions
    BY <1>0, <1>4 DEF StartsTool
  <2>3. \A k \in DOMAIN decisions : decisions[k].call \in 1 .. (cursor - 1)
    BY <2>1 DEF DecidedInv
  <2>4. \A k \in DOMAIN decisions : decisions[k].call # cursor
    BY <1>0, <2>3
  <2>. QED
    BY <1>0, <2>1, <2>2, <2>3, <2>4 DEF DecidedInv, RejectionIsFinal
<1>5. ASSUME NEW kind \in {"approve", "reject", "edit"}, NEW args \in Args,
             Decides(kind, args)
      PROVE  DecidedInv'
  <2>1. /\ pending = cursor - 1 /\ Released = pending - 1 /\ Released' = pending
        /\ pending \in Nat
    BY <1>0, <1>5 DEF Decides, Released, TypeInv, TypeOK
  <2>2. /\ DOMAIN decisions' = DOMAIN decisions \cup {Len(decisions) + 1}
        /\ Len(decisions) + 1 \notin DOMAIN decisions
        /\ \A k \in DOMAIN decisions : decisions'[k] = decisions[k]
        /\ decisions'[Len(decisions) + 1].call = pending
        /\ decisions'[Len(decisions) + 1].kind = kind
    BY <1>0, <1>5 DEF Decides
  <2>3. /\ \A k \in DOMAIN decisions : decisions[k].call \in 1 .. (pending - 1)
        /\ \A i \in DOMAIN ran : ran[i].call \in 1 .. (pending - 1)
    BY <2>1 DEF DecidedInv, RanInv
  <2>4. /\ \A k \in DOMAIN decisions : decisions[k].call # pending
        /\ \A i \in DOMAIN ran : ran[i].call # pending
    BY <2>1, <2>3
  <2>5. \A k \in DOMAIN decisions' : decisions'[k].call \in 1 .. Released'
    <3>1. pending \in 1 .. pending /\ 1 .. (pending - 1) \subseteq 1 .. pending
      BY <1>0, <2>1
    <3>. QED
      BY <2>1, <2>2, <2>3, <3>1
  <2>6. \A k, l \in DOMAIN decisions' :
          decisions'[l].call = decisions'[k].call => l = k
    BY <2>2, <2>4 DEF DecidedInv, RejectionIsFinal
  <2>7. ASSUME NEW k \in DOMAIN decisions', decisions'[k].kind = "reject"
        PROVE  \A i \in DOMAIN ran' : ran'[i].call # decisions'[k].call
    <3>1. CASE ran' = ran
      BY <2>2, <2>4, <2>7, <3>1 DEF DecidedInv, RejectionIsFinal
    <3>2. CASE /\ kind \in {"approve", "edit"}
               /\ ran' = Append(ran, [call |-> pending, args |-> args])
      <4>1. /\ DOMAIN ran' = DOMAIN ran \cup {Len(ran) + 1}
            /\ \A i \in DOMAIN ran : ran'[i] = ran[i]
            /\ ran'[Len(ran) + 1].call = pending
        BY <1>0, <3>2
      <4>2. k \in DOMAIN decisions
        BY <2>2, <2>7, <3>2
      <4>. QED
        BY <2>2, <2>4, <2>7, <4>1, <4>2 DEF DecidedInv, RejectionIsFinal
    <3>. QED
      BY <1>5, <3>1, <3>2 DEF Decides
  <2>. QED
    BY <2>5, <2>6, <2>7 DEF DecidedInv, RejectionIsFinal
<1>. QED
  BY <1>3, <1>4, <1>5, StepEffects

\* A rejected call never runs, and no call is decided twice.
THEOREM RejectionCorrect == Spec => []RejectionIsFinal
<1>1. Init => RanInv /\ DecidedInv
  BY DEF Init, RanInv, RanInOrder, DecidedInv, RejectionIsFinal
<1>2. Spec => [](TypeInv /\ RanInv /\ DecidedInv)
  BY <1>1, InitialType, NextType, RanStep, DecidedStep, PTL DEF Spec
<1>. QED
  BY <1>2, PTL DEF DecidedInv

-----------------------------------------------------------------------------
(* What a step does to the history. *)

\* The history stays, or grows by a message that answers no call.
KeepsAnswers ==
  /\ \/ UNCHANGED messages
     \/ \E m \in Message : m.role # "tool" /\ messages' = Append(messages, m)
  /\ Settled' >= Settled
  /\ Settled' = Settled \/ dropped'
  /\ dropped => dropped'

\* The next call in line gets its tool message.
AnswersNext ==
  /\ \E id \in Ids, status \in ResultStatus :
       messages' = Append(messages, ToolMessage(Settled + 1, id, status))
  /\ Settled' = Settled + 1
  /\ UNCHANGED dropped

\* before_run holds the history and does not give it back.
LosesHistory ==
  /\ pc = "before_run" /\ messages' = <<>>
  /\ Settled' = Settled

\* before_run puts a message that answers no call at the head.
BeginsHistory ==
  /\ pc = "before_run" /\ messages' = <<SystemMessage>> \o messages
  /\ Settled' = Settled

LEMMA SettledType ==
  ASSUME TypeInv
  PROVE  Settled \in Nat /\ cursor \in Nat \ {0} /\ Len(calls) \in Nat
BY DEF TypeInv, TypeOK, ControlInv, Settled, InFlight

\* Popping a call makes it the next in line.
LEMMA PopSettles ==
  ASSUME TypeInv, Pop
  PROVE  cursor = Settled + 1 /\ cursor' = cursor + 1 /\ UNCHANGED dropped
BY DEF TypeInv, TypeOK, ControlInv, Pop, Settled, InFlight

LEMMA HistoryEffects ==
  ASSUME TypeInv, [Next]_vars
  PROVE  KeepsAnswers \/ AnswersNext \/ LosesHistory \/ BeginsHistory
<1>. USE DEF TypeInv
<1>0. Settled \in Nat /\ cursor \in Nat \ {0} /\ Len(calls) \in Nat
  BY SettledType
<1>1. CASE RefuseCall \/ UnknownTool
  <2>1. Pop /\ messages' = Append(messages, ToolMessage(cursor, NextCall.id, "error"))
        /\ pc' = "batch" /\ pending' = 0
    BY <1>1 DEF RefuseCall, UnknownTool, PushResult, Pop, ControlInv
  <2>2. Settled' = Settled + 1 /\ NextCall.id \in Ids
    BY <1>0, <2>1, PopSettles, PopFacts DEF Settled, InFlight
  <2>. QED
    BY <2>1, <2>2, PopSettles DEF AnswersNext, ResultStatus
<1>2. CASE InterruptCall \/ StartTool
  <2>1. Pop /\ UNCHANGED messages /\ (pc' = "tool" \/ pending' # 0)
    BY <1>0, <1>2 DEF InterruptCall, StartTool
  <2>. QED
    BY <1>0, <2>1, PopSettles DEF KeepsAnswers, Settled, InFlight
<1>3. CASE FinishTool
  <2>1. /\ pc' = "batch" /\ pending = 0 /\ pending' = 0 /\ Settled = cursor - 2
        /\ calls[cursor - 1].id \in Ids /\ UNCHANGED <<cursor, dropped>>
    BY <1>3 DEF FinishTool, ControlInv, Settled, InFlight, historyVars
  <2>2. Settled' = Settled + 1 /\ cursor - 1 = Settled + 1
    BY <1>0, <2>1 DEF Settled, InFlight
  <2>. QED
    BY <1>3, <2>1, <2>2 DEF FinishTool, PushResult, AnswersNext, ResultStatus
<1>4. CASE BatchDone
  BY <1>0, <1>4 DEF BatchDone, historyVars, KeepsAnswers, Settled, InFlight
<1>5. CASE \/ \E batch \in Batches : ToolCalls(batch)
           \/ \E batch \in SkillBatches, id \in ProviderIds \cup {NoId} :
                SkillCalls(batch, id)
  <2>1. /\ UNCHANGED <<cursor, pending, dropped>> /\ pc = "provider" /\ pc' = "batch"
    BY <1>5 DEF ToolCalls, SkillCalls, Enqueue, InStep, historyVars
  <2>2. Settled' = Settled
    BY <2>1 DEF Settled, InFlight
  <2>3. ASSUME NEW batch \in Batches, ToolCalls(batch)
        PROVE  \E m \in Message : m.role # "tool" /\ messages' = Append(messages, m)
    <3> DEFINE said == [i \in DOMAIN batch |-> SaidId(batch, i)]
    <3>1. said \in Seq(Ids)
      BY AnnouncedType
    <3>2. AssistantMessage(said) \in Message /\ AssistantMessage(said).role = "assistant"
      BY <3>1 DEF AssistantMessage, Message
    <3>. QED
      BY <2>3, <3>2 DEF ToolCalls
  <2>4. (\E batch \in SkillBatches, id \in ProviderIds \cup {NoId} :
           SkillCalls(batch, id)) => UNCHANGED messages
    BY DEF SkillCalls
  <2>. QED
    BY <1>0, <1>5, <2>1, <2>2, <2>3, <2>4 DEF KeepsAnswers
<1>6. CASE \/ StepMiddlewareFails \/ ProviderFails \/ SkillFails \/ FinalText
           \/ ContextOverflow \/ MaxStepsExceeded
  <2>1. /\ UNCHANGED <<messages, cursor, pending, dropped>> /\ pc = "provider"
        /\ pc' \in {"idle", "provider"}
    BY <1>6 DEF StepMiddlewareFails, ProviderFails, SkillFails, FinalText,
       ContextOverflow, MaxStepsExceeded, EndRun, InStep, historyVars
  <2>. QED
    BY <1>0, <2>1 DEF KeepsAnswers, Settled, InFlight
<1>7. CASE AssistantText \/ PushUserInput
  <2>1. /\ UserMessage \in Message /\ UserMessage.role # "tool"
        /\ AssistantMessage(<<>>) \in Message /\ AssistantMessage(<<>>).role # "tool"
    BY DEF UserMessage, AssistantMessage, Message
  <2>2. UNCHANGED <<cursor, pending, pc, dropped>>
    BY <1>7 DEF AssistantText, PushUserInput, historyVars, loopVars
  <2>3. \E m \in Message : m.role # "tool" /\ messages' = Append(messages, m)
    BY <1>7, <2>1 DEF AssistantText, PushUserInput
  <2>. QED
    BY <1>0, <2>2, <2>3 DEF KeepsAnswers, Settled, InFlight
<1>8. CASE BeforeRun \/ StartRun \/ RunWhilePending \/ UNCHANGED vars
  <2>1. /\ UNCHANGED <<cursor, pending, dropped>>
        /\ pc' = pc \/ (pc \in {"idle", "before_run"} /\ pc' \in {"before_run", "provider"})
    BY <1>8 DEF BeforeRun, StartRun, RunWhilePending, vars, historyVars, loopVars
  <2>2. UNCHANGED Settled
    BY <2>1 DEF Settled, InFlight
  <2>3. \/ UNCHANGED messages
        \/ pc = "before_run" /\ messages' = <<SystemMessage>> \o messages
    BY <1>8 DEF BeforeRun, StartRun, RunWhilePending, vars
  <2>. QED
    BY <1>0, <2>1, <2>2, <2>3 DEF KeepsAnswers, BeginsHistory
<1>9. CASE BeforeRunFails
  BY <1>0, <1>9 DEF BeforeRunFails, LosesHistory, Settled, InFlight
<1>10. CASE Drop
  <2>1. pending = 0 /\ cursor <= Len(calls) + 1
    BY <1>10 DEF Drop, TypeOK, ControlInv
  <2>2. CASE pc = "before_run"
    <3>1. cursor = Len(calls) + 1
      BY <2>2 DEF ControlInv
    <3>. QED
      BY <1>0, <1>10, <2>1, <2>2, <3>1 DEF Drop, LosesHistory, Settled, InFlight
  <2>3. CASE pc # "before_run"
    BY <1>0, <1>10, <2>1, <2>3 DEF Drop, KeepsAnswers, Settled, InFlight
  <2>. QED
    BY <2>2, <2>3
<1>11. ASSUME NEW about \in asked,
              \/ ResumeNotFound(about)
              \/ \E args \in Args : EditInvalid(about, args)
       PROVE  KeepsAnswers
  BY <1>0, <1>11 DEF ResumeNotFound, EditInvalid, historyVars, loopVars,
     KeepsAnswers, Settled, InFlight
<1>12. ASSUME NEW about \in asked,
              Approve(about) \/ Reject(about) \/ \E args \in Args : Edit(about, args)
       PROVE  KeepsAnswers \/ AnswersNext
  <2>1. /\ pending # 0 /\ pending = Settled + 1 /\ pending' = 0
        /\ calls[pending].id \in Ids /\ UNCHANGED <<cursor, dropped>> /\ pending = cursor - 1
    <3>1. \E kind, args : Resolve(about, kind, args)
      BY <1>12 DEF Approve, Reject, Edit
    <3>2. pending # 0 /\ pending' = 0 /\ UNCHANGED <<cursor, dropped>>
      BY <3>1 DEF Resolve, Matches
    <3>3. pending = cursor - 1 /\ calls[pending].id \in Ids
      BY <3>2 DEF TypeOK, ControlInv
    <3>4. pending = Settled + 1
      BY <1>0, <3>2, <3>3 DEF Settled
    <3>. QED
      BY <3>2, <3>3, <3>4
  <2>2. CASE /\ \E status \in ResultStatus :
                  PushResult(pending, calls[pending].id, status)
             /\ pc' = "batch"
    <3>1. Settled' = Settled + 1
      BY <1>0, <2>1, <2>2 DEF Settled, InFlight
    <3>. QED
      BY <2>1, <2>2, <3>1 DEF PushResult, AnswersNext
  <2>3. CASE UNCHANGED messages /\ pc' \in {"tool", "edited_tool"}
    BY <1>0, <2>1, <2>3 DEF KeepsAnswers, Settled, InFlight
  <2>4. CASE Reject(about)
    BY <2>2, <2>4 DEF Reject, ResultStatus
  <2>5. ASSUME NEW args, NEW running \in {"tool", "edited_tool"},
               ExecutePending(args, running)
        PROVE  KeepsAnswers \/ AnswersNext
    BY <2>2, <2>3, <2>5 DEF ExecutePending, ResultStatus
  <2>. QED
    BY <1>12, <2>4, <2>5 DEF Approve, Edit
<1>. QED
  BY <1>1, <1>2, <1>3, <1>4, <1>5, <1>6, <1>7, <1>8, <1>9, <1>10, <1>11, <1>12
     DEF Next, RunnerStep, ExecuteStep, ProviderStep, CallerStep, ResumeStep

-----------------------------------------------------------------------------
(* Every call is answered in its turn and never twice.                       *)

LEMMA AnsweredStep == TypeInv /\ AnsweredInv /\ [Next]_vars => AnsweredInv'
<1> SUFFICES ASSUME TypeInv, AnsweredInv, [Next]_vars PROVE AnsweredInv'
  OBVIOUS
<1>0. Settled \in Nat /\ messages \in Seq(Message)
  BY SettledType DEF TypeInv, TypeOK
<1>1. Settled' \in Nat
  BY PositionsNext
<1>2. \A i \in DOMAIN messages : messages[i].role = "tool" => messages[i].call \in 1 .. Settled
  BY DEF AnsweredInv
<1>3. CASE KeepsAnswers
  <2>1. 1 .. Settled \subseteq 1 .. Settled'
    BY <1>0, <1>1, <1>3 DEF KeepsAnswers
  <2>2. CASE UNCHANGED messages
    BY <1>2, <2>1, <2>2 DEF AnsweredInv, AnsweredInOrder
  <2>3. ASSUME NEW m \in Message, m.role # "tool", messages' = Append(messages, m)
        PROVE  AnsweredInv'
    <3>1. /\ DOMAIN messages' = DOMAIN messages \cup {Len(messages) + 1}
          /\ \A i \in DOMAIN messages : messages'[i] = messages[i]
          /\ messages'[Len(messages) + 1].role # "tool"
      BY <1>0, <2>3
    <3>. QED
      BY <1>2, <2>1, <3>1 DEF AnsweredInv, AnsweredInOrder
  <2>. QED
    BY <1>3, <2>2, <2>3 DEF KeepsAnswers
<1>4. CASE AnswersNext
  <2>1. /\ DOMAIN messages' = DOMAIN messages \cup {Len(messages) + 1}
        /\ DOMAIN messages = 1 .. Len(messages) /\ Len(messages) \in Nat
        /\ \A i \in DOMAIN messages : messages'[i] = messages[i]
        /\ messages'[Len(messages) + 1].call = Settled + 1
    BY <1>0, <1>4 DEF AnswersNext, ToolMessage
  <2>2. \A i \in DOMAIN messages' :
          messages'[i].role = "tool" => messages'[i].call \in 1 .. (Settled + 1)
    BY <1>0, <1>2, <2>1
  <2>3. AnsweredInOrder'
    <3> SUFFICES ASSUME NEW i \in DOMAIN messages', NEW j \in DOMAIN messages', i < j,
                        messages'[i].role = "tool", messages'[j].role = "tool"
                 PROVE  messages'[i].call < messages'[j].call
      BY DEF AnsweredInOrder
    <3>1. i \in DOMAIN messages
      BY <2>1
    <3>2. CASE j \in DOMAIN messages
      BY <2>1, <3>1, <3>2 DEF AnsweredInv, AnsweredInOrder
    <3>3. CASE j = Len(messages) + 1
      BY <1>0, <1>2, <2>1, <3>1, <3>3
    <3>. QED
      BY <2>1, <3>2, <3>3
  <2>. QED
    BY <1>4, <2>2, <2>3 DEF AnswersNext, AnsweredInv
<1>5. CASE LosesHistory
  BY <1>5 DEF LosesHistory, AnsweredInv, AnsweredInOrder
<1>6. CASE BeginsHistory
  <2>1. /\ DOMAIN messages' = 1 .. (Len(messages) + 1) /\ Len(messages) \in Nat
        /\ \A i \in DOMAIN messages' :
             \/ i = 1 /\ messages'[i] = SystemMessage
             \/ i - 1 \in DOMAIN messages /\ messages'[i] = messages[i - 1]
    BY <1>0, <1>6 DEF BeginsHistory
  <2>2. SystemMessage.role # "tool"
    BY DEF SystemMessage
  <2>3. \A i \in DOMAIN messages' : messages'[i].role = "tool" =>
          /\ i - 1 \in DOMAIN messages /\ messages'[i] = messages[i - 1]
          /\ messages'[i].call \in 1 .. Settled
    BY <1>2, <2>1, <2>2
  <2>4. AnsweredInOrder'
    <3> SUFFICES ASSUME NEW i \in DOMAIN messages', NEW j \in DOMAIN messages', i < j,
                        messages'[i].role = "tool", messages'[j].role = "tool"
                 PROVE  messages'[i].call < messages'[j].call
      BY DEF AnsweredInOrder
    <3>1. i - 1 < j - 1
      BY <2>1
    <3>. QED
      BY <2>3, <3>1 DEF AnsweredInv, AnsweredInOrder
  <2>. QED
    BY <1>6, <2>3, <2>4 DEF BeginsHistory, AnsweredInv
<1>. QED
  BY <1>3, <1>4, <1>5, <1>6, HistoryEffects

\* Tool messages are in the order of the calls and no call has two of them.
THEOREM AnswersCorrect == Spec => []AnsweredInOrder
<1>1. Init => AnsweredInv
  BY DEF Init, AnsweredInv, AnsweredInOrder
<1>2. Spec => [](TypeInv /\ AnsweredInv)
  BY <1>1, InitialType, NextType, AnsweredStep, PTL DEF Spec
<1>. QED
  BY <1>2, PTL DEF AnsweredInv

\* Nothing is called before a before_run succeeds, and none is repeated.
LEMMA InitializedStep ==
  ASSUME TypeInv, OwedInv, [Next]_vars
  PROVE  /\ pc' = "before_run" => ~initialized'
         /\ ~initialized' => calls' = <<>> /\ pc' \in {"idle", "before_run"}
<1>1. /\ initialized => pc # "before_run"
      /\ ~initialized => calls = <<>> /\ pc \in {"idle", "before_run"}
      /\ initialized \in BOOLEAN
      /\ pending # 0 => calls # <<>>
  BY EmptySeq DEF OwedInv, TypeInv, TypeOK, ControlInv
<1>2. CASE ExecuteStep
  BY <1>1, <1>2 DEF ExecuteStep, RefuseCall, InterruptCall, UnknownTool, StartTool,
     Pop, FinishTool, BatchDone
<1>3. CASE ProviderStep
  BY <1>1, <1>3 DEF ProviderStep, StepMiddlewareFails, ProviderFails, SkillFails,
     FinalText, ContextOverflow, AssistantText, MaxStepsExceeded, EndRun, InStep,
     ToolCalls, SkillCalls, Enqueue
<1>4. CASE BeforeRun \/ BeforeRunFails \/ UNCHANGED vars
  BY <1>1, <1>4 DEF BeforeRun, BeforeRunFails, vars, loopVars
<1>5. CASE PushUserInput \/ StartRun \/ RunWhilePending \/ Drop
  BY <1>1, <1>5 DEF PushUserInput, StartRun, RunWhilePending, Drop, loopVars
<1>6. ASSUME NEW about \in asked,
             \/ ResumeNotFound(about)
             \/ \E args \in Args : EditInvalid(about, args)
      PROVE  UNCHANGED <<pc, initialized, calls>>
  BY <1>6 DEF ResumeNotFound, EditInvalid, loopVars
<1>7. ASSUME NEW about \in asked,
             Approve(about) \/ Reject(about) \/ \E args \in Args : Edit(about, args)
      PROVE  /\ pending # 0 /\ UNCHANGED <<initialized, calls>>
             /\ pc' \in {"batch", "tool", "edited_tool"}
  BY <1>7 DEF Approve, Reject, Edit, Resolve, Matches, ExecutePending
<1>. QED
  BY <1>1, <1>2, <1>3, <1>4, <1>5, <1>6, <1>7
     DEF Next, RunnerStep, CallerStep, ResumeStep

LEMMA OwedStep == TypeInv /\ OwedInv /\ [Next]_vars => OwedInv'
<1> SUFFICES ASSUME TypeInv, OwedInv, [Next]_vars PROVE OwedInv'
  OBVIOUS
<1>0. /\ Settled \in Nat /\ messages \in Seq(Message)
      /\ ~dropped => \A n \in 1 .. Settled : Answers(n) # {}
  BY SettledType DEF TypeInv, TypeOK, OwedInv
<1>1. SUFFICES ASSUME ~dropped' PROVE \A n \in 1 .. Settled' : Answers(n)' # {}
  BY InitializedStep DEF OwedInv
<1>2. ASSUME NEW m, messages' = Append(messages, m)
      PROVE  /\ \A n : Answers(n) \subseteq Answers(n)'
             /\ m.role = "tool" => Len(messages) + 1 \in Answers(m.call)'
  <2>1. /\ DOMAIN messages' = DOMAIN messages \cup {Len(messages) + 1}
        /\ \A i \in DOMAIN messages : messages'[i] = messages[i]
        /\ messages'[Len(messages) + 1] = m
    BY <1>0, <1>2
  <2>. QED
    BY <2>1 DEF Answers
<1>3. CASE KeepsAnswers
  <2>1. Settled' = Settled /\ ~dropped
    BY <1>1, <1>3 DEF KeepsAnswers
  <2>2. \A n : Answers(n) \subseteq Answers(n)'
    BY <1>2, <1>3 DEF KeepsAnswers, Answers
  <2>. QED
    BY <1>0, <2>1, <2>2
<1>4. CASE AnswersNext
  <2>1. \E m : m.role = "tool" /\ m.call = Settled + 1 /\ messages' = Append(messages, m)
    BY <1>4 DEF AnswersNext, ToolMessage
  <2>2. PICK m, k : /\ m.role = "tool" /\ m.call = k /\ k = Settled + 1
                    /\ messages' = Append(messages, m)
    BY <2>1
  <2>3. Settled' = k /\ ~dropped
    BY <1>1, <1>4, <2>2 DEF AnswersNext
  <2>4. (\A n : Answers(n) \subseteq Answers(n)') /\ Answers(k)' # {}
    BY <1>2, <2>2
  <2>5. \A n \in 1 .. k : n \in 1 .. Settled \/ n = k
    BY <1>0, <2>2
  <2>. QED
    BY <1>0, <2>3, <2>4, <2>5
<1>5. CASE LosesHistory \/ BeginsHistory
  <2>1. calls = <<>> /\ cursor = Len(calls) + 1 /\ pc = "before_run"
    BY <1>5 DEF LosesHistory, BeginsHistory, OwedInv, TypeInv, ControlInv
  <2>2. Settled = 0
    BY <1>0, <2>1, EmptySeq DEF Settled, TypeInv, ControlInv, InFlight
  <2>. QED
    BY <1>5, <2>2 DEF LosesHistory, BeginsHistory
<1>. QED
  BY <1>3, <1>4, <1>5, HistoryEffects

\* Whenever the provider is asked, every call it ever made has its answer,
\* unless a caller once dropped a run.
THEOREM NothingOwedCorrect == Spec => []NothingOwed
<1>1. Init => OwedInv
  BY DEF Init, OwedInv, Settled, InFlight
<1>2. TypeInv /\ OwedInv => NothingOwed
  <2> SUFFICES ASSUME TypeInv, OwedInv, pc = "provider", ~dropped, NEW n \in DOMAIN calls
               PROVE  Answers(n) # {}
    BY DEF NothingOwed, TypeInv
  <2>1. /\ cursor = Len(calls) + 1 /\ pending = 0 /\ Len(calls) \in Nat
        /\ n \in 1 .. Len(calls)
    BY DEF TypeInv, TypeOK, ControlInv
  <2>2. Settled = Len(calls)
    BY <2>1 DEF Settled, InFlight
  <2>. QED
    BY <2>1, <2>2 DEF OwedInv
<1>3. Spec => [](TypeInv /\ OwedInv)
  BY <1>1, InitialType, NextType, OwedStep, PTL DEF Spec
<1>. QED
  BY <1>2, <1>3, PTL

-----------------------------------------------------------------------------
(* A suspended session is frozen. *)

LEMMA FrozenStep ==
  TypeInv /\ [Next]_vars =>
    [pending # 0 /\ decisions' = decisions
       => UNCHANGED <<messages, calls, cursor, pending, nextCallId, ran>>]_vars
<1> SUFFICES ASSUME TypeInv, Next, pending # 0, decisions' = decisions
             PROVE  UNCHANGED <<messages, calls, cursor, pending, nextCallId, ran>>
  BY DEF vars
<1>1. pc = "idle" /\ decisions \in Seq(Decision)
  BY DEF TypeInv, TypeOK, ControlInv
<1>2. ~RunnerStep
  BY <1>1 DEF RunnerStep, BeforeRun, BeforeRunFails, ProviderStep, ExecuteStep,
     StepMiddlewareFails, ProviderFails, SkillFails, FinalText, ContextOverflow,
     AssistantText, MaxStepsExceeded, ToolCalls, SkillCalls, InStep, RefuseCall,
     InterruptCall, UnknownTool, StartTool, Pop, FinishTool, BatchDone
<1>3. ~(PushUserInput \/ StartRun \/ Drop)
  BY <1>1 DEF PushUserInput, StartRun, Drop
<1>4. \A d : Append(decisions, d) # decisions
  BY <1>1
<1>5. \A about, kind, args : ~Resolve(about, kind, args)
  BY <1>4 DEF Resolve
<1>6. \A about, args : ~Approve(about) /\ ~Reject(about) /\ ~Edit(about, args)
  BY <1>5 DEF Approve, Reject, Edit
<1>7. CASE RunWhilePending
  BY <1>7 DEF RunWhilePending, historyVars
<1>8. ASSUME NEW about \in asked,
             \/ ResumeNotFound(about)
             \/ \E args \in Args : EditInvalid(about, args)
      PROVE  UNCHANGED <<messages, calls, cursor, pending, nextCallId, ran>>
  BY <1>8 DEF ResumeNotFound, EditInvalid, historyVars
<1>. QED
  BY <1>2, <1>3, <1>6, <1>7, <1>8 DEF Next, CallerStep, ResumeStep

\* Repeated runs, late resumptions and invalid edits leave a suspended session
\* as it is: only a decision that is applied moves it.
THEOREM FrozenCorrect == Spec => SuspendedIsFrozen
<1>1. Spec => []TypeInv
  BY InitialType, NextType, PTL DEF Spec
<1>. QED
  BY <1>1, FrozenStep, PTL DEF Spec, SuspendedIsFrozen

-----------------------------------------------------------------------------
(* A decision is about the call its sender was shown.                        *)

\* The ids generated for the calls of a batch are all different, and below the
\* next one to be generated.
LEMMA SaidIdsApart ==
  ASSUME TypeOK, NEW batch \in Batches, NEW i \in DOMAIN batch, batch[i].id = NoId
  PROVE  /\ SaidId(batch, i) \in Nat /\ SaidId(batch, i) >= nextCallId
         /\ SaidId(batch, i) <
              nextCallId + Cardinality({k \in DOMAIN batch : batch[k].id = NoId})
         /\ \A j \in DOMAIN batch : i < j /\ batch[j].id = NoId
              => SaidId(batch, i) < SaidId(batch, j)
<1>. DEFINE Before(j) == {k \in 1 .. (j - 1) : batch[k].id = NoId}
            All == {k \in DOMAIN batch : batch[k].id = NoId}
<1>1. /\ batch \in Seq(RawCall) /\ nextCallId \in Nat /\ Len(batch) \in Nat
      /\ DOMAIN batch = 1 .. Len(batch) /\ i \in Nat /\ i >= 1
  BY BatchesAssumption DEF TypeOK
<1>2. \A j \in DOMAIN batch : IsFiniteSet(Before(j)) /\ Cardinality(Before(j)) \in Nat
  <2>1. TAKE j \in DOMAIN batch
  <2>2. IsFiniteSet(1 .. (j - 1))
    BY <1>1, FS_Interval
  <2>3. Before(j) \in SUBSET (1 .. (j - 1))
    OBVIOUS
  <2>. HIDE DEF Before
  <2>. QED
    BY <2>2, <2>3, FS_Subset, FS_CardinalityType
<1>3. IsFiniteSet(All) /\ Cardinality(All) \in Nat
  <2>1. IsFiniteSet(DOMAIN batch) /\ All \in SUBSET DOMAIN batch
    BY <1>1, FS_Interval
  <2>. QED
    BY <2>1, FS_Subset, FS_CardinalityType
<1>4. i \notin Before(i)
  BY <1>1
<1>5. IsFiniteSet(Before(i) \cup {i}) /\ Cardinality(Before(i) \cup {i}) = Cardinality(Before(i)) + 1
  <2>. HIDE DEF Before
  <2>. QED
    BY <1>2, <1>4, FS_AddElement
<1>6. Before(i) \cup {i} \in SUBSET All
  BY <1>1
<1>7. Cardinality(Before(i)) < Cardinality(All)
  <2>1. Cardinality(Before(i) \cup {i}) <= Cardinality(All)
    <3>. HIDE DEF Before, All
    <3>. QED
      BY <1>3, <1>6, FS_Subset
  <2>. HIDE DEF Before, All
  <2>. QED
    BY <1>2, <1>3, <1>5, <2>1
<1>8. ASSUME NEW j \in DOMAIN batch, i < j
      PROVE  Cardinality(Before(i)) < Cardinality(Before(j))
  <2>1. Before(i) \cup {i} \in SUBSET Before(j)
    BY <1>1, <1>8
  <2>2. Cardinality(Before(i) \cup {i}) <= Cardinality(Before(j))
    <3>. HIDE DEF Before
    <3>. QED
      BY <1>2, <2>1, FS_Subset
  <2>. HIDE DEF Before
  <2>. QED
    BY <1>2, <1>5, <2>2
<1>9. \A j \in DOMAIN batch : batch[j].id = NoId
        => SaidId(batch, j) = nextCallId + Cardinality(Before(j))
  BY DEF SaidId
<1>. HIDE DEF Before, All
<1>10. \A j \in DOMAIN batch : i < j /\ batch[j].id = NoId => SaidId(batch, i) < SaidId(batch, j)
  BY <1>1, <1>2, <1>8, <1>9
<1>11. /\ SaidId(batch, i) \in Nat /\ SaidId(batch, i) >= nextCallId
       /\ SaidId(batch, i) < nextCallId + Cardinality(All)
  BY <1>1, <1>2, <1>3, <1>7, <1>9
<1>. QED
  BY <1>10, <1>11 DEF All

\* What a step does to the ids: they stay, the next call gets one, or a batch
\* comes in.
KeepsIds ==
  /\ UNCHANGED <<calls, nextCallId, asked>>
  /\ pending' \in {0, pending}

NamesNext ==
  /\ Pop /\ UNCHANGED decisions
  /\ pending' \in {0, cursor} /\ asked' \in {asked, asked \cup {cursor}}
  /\ pending' = cursor => cursor \in asked'

TakesBatch ==
  /\ UNCHANGED <<asked, pending, decisions>>
  /\ \/ \E batch \in Batches : ToolCalls(batch)
     \/ \E batch \in SkillBatches, id \in ProviderIds \cup {NoId} : SkillCalls(batch, id)

LEMMA IdEffects ==
  ASSUME TypeInv, [Next]_vars
  PROVE  \/ KeepsIds /\ UNCHANGED decisions
         \/ NamesNext
         \/ TakesBatch
         \/ /\ KeepsIds
            /\ \E about \in asked, kind \in {"approve", "reject", "edit"} :
                 \E args : Resolve(about, kind, args)
<1>1. CASE RefuseCall \/ UnknownTool \/ StartTool
  <2>1. Pop /\ UNCHANGED <<pending, asked, decisions>> /\ pending = 0
    BY <1>1 DEF RefuseCall, UnknownTool, StartTool, Pop, TypeInv, ControlInv
  <2>2. 0 # cursor
    BY DEF TypeInv, TypeOK
  <2>. QED
    BY <2>1, <2>2 DEF NamesNext
<1>2. CASE InterruptCall
  BY <1>2 DEF InterruptCall, NamesNext, Pop
<1>3. CASE FinishTool \/ BatchDone
  BY <1>3 DEF FinishTool, BatchDone, historyVars, KeepsIds
<1>4. CASE \/ \E batch \in Batches : ToolCalls(batch)
           \/ \E batch \in SkillBatches, id \in ProviderIds \cup {NoId} :
                SkillCalls(batch, id)
  BY <1>4 DEF TakesBatch, ToolCalls, SkillCalls, Enqueue, historyVars
<1>5. CASE \/ StepMiddlewareFails \/ ProviderFails \/ SkillFails \/ FinalText
           \/ ContextOverflow \/ AssistantText \/ MaxStepsExceeded
  BY <1>5 DEF StepMiddlewareFails, ProviderFails, SkillFails, FinalText,
     ContextOverflow, AssistantText, MaxStepsExceeded, EndRun, historyVars, KeepsIds
<1>6. CASE BeforeRun \/ BeforeRunFails \/ UNCHANGED vars
  BY <1>6 DEF BeforeRun, BeforeRunFails, vars, historyVars, KeepsIds
<1>7. CASE PushUserInput \/ StartRun \/ RunWhilePending \/ Drop
  BY <1>7 DEF PushUserInput, StartRun, RunWhilePending, Drop, historyVars, KeepsIds
<1>8. ASSUME NEW about \in asked,
             \/ ResumeNotFound(about)
             \/ \E args \in Args : EditInvalid(about, args)
      PROVE  KeepsIds /\ UNCHANGED decisions
  BY <1>8 DEF ResumeNotFound, EditInvalid, historyVars, KeepsIds
<1>9. ASSUME NEW about \in asked, NEW kind, NEW args, Resolve(about, kind, args)
      PROVE  KeepsIds
  BY <1>9 DEF Resolve, KeepsIds
<1>10. ASSUME NEW about \in asked,
              \/ Approve(about) \/ Reject(about)
              \/ \E args \in Args : Edit(about, args)
       PROVE  \E kind \in {"approve", "reject", "edit"} : \E args : Resolve(about, kind, args)
  BY <1>10 DEF Approve, Reject, Edit
<1>. QED
  BY <1>1, <1>2, <1>3, <1>4, <1>5, <1>6, <1>7, <1>8, <1>9, <1>10
     DEF Next, RunnerStep, ExecuteStep, ProviderStep, CallerStep, ResumeStep

\* The call that is popped keeps its id or gets one that no other call has.
LEMMA NamesNextIds ==
  ASSUME TypeInv, IdsInv, NamesNext
  PROVE  IdsInv'
<1>1. /\ calls \in Seq(Call) /\ Len(calls) \in Nat /\ cursor \in 1 .. Len(calls)
      /\ nextCallId \in Nat /\ asked \subseteq 1 .. (cursor - 1)
      /\ DOMAIN calls = 1 .. Len(calls) /\ DOMAIN calls' = 1 .. Len(calls)
      /\ calls'[cursor] = NextCall
      /\ \A n \in 1 .. Len(calls) : n # cursor => calls'[n] = calls[n]
  <2>1. TypeOK /\ Pop
    BY DEF TypeInv, NamesNext
  <2>2. /\ calls \in Seq(Call) /\ Len(calls) \in Nat /\ cursor \in 1 .. Len(calls)
        /\ nextCallId \in Nat /\ asked \subseteq 1 .. (cursor - 1)
    BY <2>1 DEF TypeOK, Pop
  <2>3. calls' \in Seq(Call) /\ Len(calls') = Len(calls)
    BY <2>1, PopFacts
  <2>. QED
    BY <2>1, <2>2, <2>3, PopFacts
<1>2. cursor \notin asked /\ asked \subseteq 1 .. Len(calls)
  BY <1>1
<1>3. \A x \in Nat : x # NoId /\ x # BlankId
  BY IdsAssumption DEF Ids
<1>4. ~Unnamed(NextCall) /\ (NextCall.id \in Nat => NextCall.id < nextCallId')
      /\ nextCallId' >= nextCallId /\ nextCallId' \in Nat
  <2>0. calls[cursor] \in Call
    BY <1>1
  <2>1. CASE Unnamed(calls[cursor])
    <3>1. NextCall.id = nextCallId /\ nextCallId' = nextCallId + 1
      BY <2>0, <2>1 DEF NextCall, Executable, NamesNext, Pop, Call
    <3>. QED
      BY <1>1, <1>3, <3>1 DEF Unnamed
  <2>2. CASE ~Unnamed(calls[cursor])
    <3>1. NextCall = calls[cursor] /\ nextCallId' = nextCallId
      BY <2>2 DEF NextCall, Executable, NamesNext, Pop
    <3>. QED
      BY <1>1, <2>2, <3>1 DEF IdsInv
  <2>. QED
    BY <2>1, <2>2
<1>5. ASSUME NEW n \in 1 .. Len(calls), n # cursor PROVE calls[n].id # NextCall.id
  <2>0. calls[cursor] \in Call
    BY <1>1
  <2>1. CASE Unnamed(calls[cursor])
    <3>1. NextCall.id = nextCallId
      BY <2>0, <2>1 DEF NextCall, Executable, Call
    <3>2. calls[n].id \in Nat => calls[n].id < nextCallId
      BY <1>1 DEF IdsInv
    <3>. QED
      BY <1>1, <3>1, <3>2
  <2>2. CASE ~Unnamed(calls[cursor])
    <3>1. NextCall = calls[cursor]
      BY <2>2 DEF NextCall, Executable
    <3>. QED
      BY <1>1, <1>5, <2>2, <3>1 DEF IdsInv
  <2>. QED
    BY <2>1, <2>2
<1>6. \A n \in DOMAIN calls' : calls'[n].id \in Nat => calls'[n].id < nextCallId'
  <2>1. \A n \in 1 .. Len(calls) : calls[n].id \in Nat => calls[n].id < nextCallId
    BY <1>1 DEF IdsInv
  <2>. QED
    BY <1>1, <1>4, <2>1
<1>7. \A m, n \in DOMAIN calls' :
        calls'[m].id = calls'[n].id => m = n \/ Unnamed(calls'[m])
  BY <1>1, <1>5 DEF IdsInv
<1>8. pending' # 0 => pending' \in asked'
  BY DEF NamesNext
<1>9. \A n \in asked' : ~Unnamed(calls'[n])
  <2>1. \A n \in asked : calls'[n] = calls[n] /\ ~Unnamed(calls[n])
    BY <1>1, <1>2 DEF IdsInv
  <2>2. asked' \in {asked, asked \cup {cursor}}
    BY DEF NamesNext
  <2>. QED
    BY <1>1, <1>4, <2>1, <2>2
<1>. QED
  BY <1>6, <1>7, <1>8, <1>9 DEF IdsInv, Unnamed

\* The ids of a batch are new, but for the blank ones.
LEMMA TakesBatchIds ==
  ASSUME IdsApart, TypeInv, IdsInv, TakesBatch
  PROVE  IdsInv'
<1>1. /\ calls \in Seq(Call) /\ Len(calls) \in Nat /\ nextCallId \in Nat
      /\ DOMAIN calls = 1 .. Len(calls) /\ asked \subseteq 1 .. Len(calls)
      /\ TypeOK
  BY DEF TypeInv, TypeOK
<1>2. /\ \A x \in Nat : x # NoId /\ x # BlankId
      /\ \A x \in ProviderIds : x \notin Nat /\ x # NoId /\ x # BlankId
  BY IdsAssumption DEF Ids, IdsApart
<1>3. PICK new \in Seq(Call) :
        /\ calls' = calls \o new /\ nextCallId' \in Nat /\ nextCallId' >= nextCallId
        /\ \A i \in DOMAIN new :
             \/ new[i].id \in Nat /\ new[i].id >= nextCallId /\ new[i].id < nextCallId'
             \/ new[i].id \in ProviderIds /\ \A n \in DOMAIN calls : new[i].id # calls[n].id
             \/ new[i].id \in {NoId, BlankId}
        /\ \A i, j \in DOMAIN new : new[i].id = new[j].id => i = j \/ Unnamed(new[i])
  <2>1. ASSUME NEW batch \in Batches, ToolCalls(batch)
        PROVE  \E new \in Seq(Call) :
                 /\ calls' = calls \o new /\ nextCallId' \in Nat /\ nextCallId' >= nextCallId
                 /\ \A i \in DOMAIN new :
                      \/ new[i].id \in Nat /\ new[i].id >= nextCallId /\ new[i].id < nextCallId'
                      \/ /\ new[i].id \in ProviderIds
                         /\ \A n \in DOMAIN calls : new[i].id # calls[n].id
                      \/ new[i].id \in {NoId, BlankId}
                 /\ \A i, j \in DOMAIN new : new[i].id = new[j].id => i = j \/ Unnamed(new[i])
    <3>1. PICK new : new = Announced(batch)
      OBVIOUS
    <3>2. new \in Seq(Call) /\ calls' = calls \o new
      BY <1>1, <2>1, <3>1, AnnouncedType DEF ToolCalls, Enqueue
    <3>3. nextCallId' \in Nat /\ nextCallId' >= nextCallId
          /\ nextCallId' = nextCallId + Cardinality({k \in DOMAIN batch : batch[k].id = NoId})
      BY <1>1, <2>1, AnnouncedType DEF ToolCalls
    <3>4. DOMAIN new = DOMAIN batch /\ \A i \in DOMAIN batch : new[i].id = SaidId(batch, i)
      BY <3>1 DEF Announced
    <3>5. /\ \A i \in DOMAIN batch, n \in DOMAIN calls :
               batch[i].id \in ProviderIds => batch[i].id # calls[n].id
          /\ \A i, j \in DOMAIN batch :
               i # j /\ batch[i].id \in ProviderIds => batch[i].id # batch[j].id
          /\ \A i \in DOMAIN batch : batch[i].id \in ProviderIds \cup {BlankId, NoId}
      BY <2>1 DEF ToolCalls, FreshIds, IdsApart
    <3>6. \A i \in DOMAIN batch : batch[i].id # NoId => new[i].id = batch[i].id
      BY <3>4 DEF SaidId
    <3>7. \A i \in DOMAIN batch : batch[i].id = NoId =>
            /\ new[i].id \in Nat /\ new[i].id >= nextCallId /\ new[i].id < nextCallId'
            /\ \A j \in DOMAIN batch : i < j /\ batch[j].id = NoId => new[i].id < new[j].id
      BY <1>1, <3>3, <3>4, SaidIdsApart
    <3>8. ASSUME NEW i \in DOMAIN new
          PROVE  \/ new[i].id \in Nat /\ new[i].id >= nextCallId /\ new[i].id < nextCallId'
                 \/ /\ new[i].id \in ProviderIds
                    /\ \A n \in DOMAIN calls : new[i].id # calls[n].id
                 \/ new[i].id \in {NoId, BlankId}
      BY <3>4, <3>5, <3>6, <3>7
    <3>9. ASSUME NEW i \in DOMAIN new, NEW j \in DOMAIN new, new[i].id = new[j].id, i # j
          PROVE  Unnamed(new[i])
      <4>1. i \in DOMAIN batch /\ j \in DOMAIN batch /\ (i < j \/ j < i)
        <5>1. batch \in Seq(RawCall)
          BY BatchesAssumption
        <5>. QED
          BY <3>4, <3>9, <5>1
      <4>2. CASE batch[i].id = NoId /\ batch[j].id = NoId
        BY <3>7, <3>9, <4>1, <4>2
      <4>3. CASE batch[i].id = NoId /\ batch[j].id # NoId
        BY <1>2, <3>5, <3>6, <3>7, <3>9, <4>1, <4>3
      <4>4. CASE batch[i].id # NoId /\ batch[j].id = NoId
        BY <1>2, <3>5, <3>6, <3>7, <3>9, <4>1, <4>4
      <4>5. CASE batch[i].id # NoId /\ batch[j].id # NoId
        BY <3>5, <3>6, <3>9, <4>1, <4>5 DEF Unnamed
      <4>. QED
        BY <4>2, <4>3, <4>4, <4>5
    <3>. QED
      BY <3>2, <3>3, <3>8, <3>9
  <2>2. ASSUME NEW batch \in SkillBatches, NEW id \in ProviderIds \cup {NoId},
               SkillCalls(batch, id)
        PROVE  \E new \in Seq(Call) :
                 /\ calls' = calls \o new /\ nextCallId' \in Nat /\ nextCallId' >= nextCallId
                 /\ \A i \in DOMAIN new :
                      \/ new[i].id \in Nat /\ new[i].id >= nextCallId /\ new[i].id < nextCallId'
                      \/ /\ new[i].id \in ProviderIds
                         /\ \A n \in DOMAIN calls : new[i].id # calls[n].id
                      \/ new[i].id \in {NoId, BlankId}
                 /\ \A i, j \in DOMAIN new : new[i].id = new[j].id => i = j \/ Unnamed(new[i])
    <3>1. PICK new : new = Expanded(batch, id)
      OBVIOUS
    <3>2. new \in Seq(Call) /\ calls' = calls \o new /\ nextCallId' = nextCallId
      BY <1>1, <2>2, <3>1, ExpandedType DEF SkillCalls, Enqueue
    <3>3. DOMAIN new = DOMAIN batch /\ \A i \in DOMAIN batch : new[i].id = id
      BY <3>1 DEF Expanded
    <3>4. \A i, j \in DOMAIN batch : i = j
      <4>1. batch \in Seq(RawCall) /\ Len(batch) <= 1
        BY BatchesAssumption DEF IdsApart
      <4>. QED
        BY <4>1
    <3>5. id \in ProviderIds => \A n \in DOMAIN calls : id # calls[n].id
      <4>1. PICK one : one = <<[id |-> id]>>
        OBVIOUS
      <4>2. 1 \in DOMAIN one /\ one[1].id = id
        BY <4>1
      <4>3. FreshIds(one) /\ ~ReuseIds
        BY <2>2, <4>1 DEF SkillCalls, IdsApart
      <4>. QED
        BY <4>2, <4>3 DEF FreshIds
    <3>6. \A i \in DOMAIN new :
            \/ /\ new[i].id \in ProviderIds
               /\ \A n \in DOMAIN calls : new[i].id # calls[n].id
            \/ new[i].id \in {NoId, BlankId}
      BY <3>3, <3>5
    <3>7. \A i, j \in DOMAIN new : i = j
      BY <3>3, <3>4
    <3>8. nextCallId' \in Nat /\ nextCallId' >= nextCallId
      BY <1>1, <3>2
    <3>. QED
      BY <3>2, <3>6, <3>7, <3>8
  <2>. QED
    BY <2>1, <2>2 DEF TakesBatch
<1>4. /\ Len(new) \in Nat /\ DOMAIN new = 1 .. Len(new)
      /\ DOMAIN calls' = 1 .. Len(calls) + Len(new)
      /\ \A n \in DOMAIN calls : calls'[n] = calls[n]
      /\ \A n \in DOMAIN calls' \ DOMAIN calls :
           n - Len(calls) \in DOMAIN new /\ calls'[n] = new[n - Len(calls)]
  <2>1. calls' = calls \o new /\ new \in Seq(Call)
    BY <1>3
  <2>2. /\ Len(new) \in Nat /\ DOMAIN new = 1 .. Len(new)
        /\ DOMAIN calls' = 1 .. Len(calls) + Len(new)
    BY <1>1, <2>1
  <2>3. ASSUME NEW n \in 1 .. Len(calls) PROVE calls'[n] = calls[n]
    BY <1>1, <2>1
  <2>4. ASSUME NEW n \in 1 .. Len(calls) + Len(new), n \notin 1 .. Len(calls)
        PROVE  n - Len(calls) \in 1 .. Len(new) /\ calls'[n] = new[n - Len(calls)]
    BY <1>1, <2>1, <2>2, <2>4
  <2>. QED
    BY <1>1, <2>2, <2>3, <2>4
<1>5. ASSUME NEW n \in DOMAIN calls', calls'[n].id \in Nat
      PROVE  calls'[n].id < nextCallId'
  <2>1. CASE n \in DOMAIN calls
    BY <1>1, <1>3, <1>4, <1>5, <2>1 DEF IdsInv
  <2>2. CASE n \notin DOMAIN calls
    <3>1. PICK i \in DOMAIN new : calls'[n] = new[i]
      BY <1>4, <2>2
    <3>2. new[i].id \in Nat /\ new[i].id \notin ProviderIds /\ new[i].id \notin {NoId, BlankId}
      BY <1>2, <1>5, <3>1
    <3>. QED
      BY <1>3, <3>1, <3>2
  <2>. QED
    BY <2>1, <2>2
<1>6. ASSUME NEW m \in DOMAIN calls, NEW i \in DOMAIN new
      PROVE  calls[m].id = new[i].id => Unnamed(new[i])
  BY <1>1, <1>2, <1>3 DEF IdsInv, Unnamed
<1>7. ASSUME NEW m \in DOMAIN calls', NEW n \in DOMAIN calls', m # n,
             calls'[m].id = calls'[n].id
      PROVE  Unnamed(calls'[m])
  <2>1. CASE m \in DOMAIN calls /\ n \in DOMAIN calls
    BY <1>4, <1>7, <2>1 DEF IdsInv
  <2>2. CASE m \in DOMAIN calls /\ n \notin DOMAIN calls
    BY <1>4, <1>6, <1>7, <2>2 DEF Unnamed
  <2>3. CASE m \notin DOMAIN calls /\ n \in DOMAIN calls
    BY <1>4, <1>6, <1>7, <2>3 DEF Unnamed
  <2>4. CASE m \notin DOMAIN calls /\ n \notin DOMAIN calls
    <3>1. m - Len(calls) # n - Len(calls)
      BY <1>1, <1>4, <1>7
    <3>. QED
      BY <1>3, <1>4, <1>7, <2>4, <3>1
  <2>. QED
    BY <2>1, <2>2, <2>3, <2>4
<1>8. UNCHANGED <<asked, pending>> /\ \A n \in asked : n \in DOMAIN calls
  BY <1>1 DEF TakesBatch
<1>9. \A n \in asked' : ~Unnamed(calls'[n])
  BY <1>4, <1>8 DEF IdsInv
<1>10. pending' # 0 => pending' \in asked'
  BY <1>8 DEF IdsInv
<1>. QED
  BY <1>5, <1>7, <1>9, <1>10 DEF IdsInv, Unnamed

LEMMA ShownStep ==
  ASSUME IdsApart, TypeInv, IdsInv, DecisionAboutShown, [Next]_vars
  PROVE  IdsInv' /\ DecisionAboutShown'
<1>1. ASSUME KeepsIds PROVE IdsInv'
  BY <1>1 DEF KeepsIds, IdsInv
<1>2. ASSUME UNCHANGED decisions PROVE DecisionAboutShown'
  BY <1>2 DEF DecisionAboutShown
<1>3. ASSUME NEW about \in asked, NEW kind \in {"approve", "reject", "edit"}, NEW args,
             Resolve(about, kind, args)
      PROVE  DecisionAboutShown'
  <2>1. /\ decisions \in Seq(Decision) /\ pending # 0 /\ pending \in asked
        /\ asked \subseteq DOMAIN calls /\ calls[about].id = calls[pending].id
    BY <1>3 DEF Resolve, Matches, TypeInv, TypeOK, IdsInv
  <2>2. about = pending
    BY <2>1 DEF IdsInv
  <2>3. PICK d : /\ d = [call |-> pending, about |-> about, kind |-> kind, args |-> args]
                 /\ decisions' = Append(decisions, d)
    BY <1>3 DEF Resolve
  <2>4. d.call = d.about
    BY <2>2, <2>3
  <2>5. /\ DOMAIN decisions' = DOMAIN decisions \cup {Len(decisions) + 1}
        /\ \A k \in DOMAIN decisions : decisions'[k] = decisions[k]
        /\ decisions'[Len(decisions) + 1] = d
    BY <2>1, <2>3
  <2>. QED
    BY <2>4, <2>5 DEF DecisionAboutShown
<1>4. ASSUME NamesNext \/ TakesBatch PROVE IdsInv' /\ UNCHANGED decisions
  BY <1>4, NamesNextIds, TakesBatchIds DEF NamesNext, TakesBatch
<1>. QED
  BY <1>1, <1>2, <1>3, <1>4, IdEffects

\* Where ids tell calls apart, every decision is about the call whose interrupt its
\* sender was shown, for all batches, callers and dropped futures, late and
\* repeated answers included.
THEOREM ShownCorrect == ASSUME IdsApart PROVE Spec => []DecisionAboutShown
<1>1. Init => IdsInv /\ DecisionAboutShown
  BY DEF Init, IdsInv, DecisionAboutShown
<1>2. TypeInv /\ IdsInv /\ DecisionAboutShown /\ [Next]_vars => IdsInv' /\ DecisionAboutShown'
  BY ShownStep
<1>3. Spec => [](TypeInv /\ IdsInv /\ DecisionAboutShown)
  BY <1>1, <1>2, InitialType, NextType, PTL DEF Spec
<1>. QED
  BY <1>3, PTL

-----------------------------------------------------------------------------
(* The request that patching makes of a history. *)

IsFlat(seqs, f) ==
  f = [i \in 1 .. Len(seqs) |-> IF i = 1 THEN seqs[i] ELSE f[i - 1] \o seqs[i]]

\* What the first n sequences make up, for each n.
Builds(seqs, E, f) ==
  /\ f \in [0 .. Len(seqs) -> Seq(E)] /\ f[0] = <<>>
  /\ \A n \in 1 .. Len(seqs) : f[n] = f[n - 1] \o seqs[n]

LEMMA BuildsExist ==
  ASSUME NEW E, NEW seqs \in Seq(Seq(E))
  PROVE  \E f : Builds(seqs, E, f)
<1>. DEFINE N == Len(seqs)
            add == [x \in (1 .. N) \X Seq(E) |-> x[2] \o seqs[x[1]]]
<1>1. N \in Nat /\ \A n \in 1 .. N : seqs[n] \in Seq(E)
  OBVIOUS
<1>2. add \in [(1 .. N) \X Seq(E) -> Seq(E)]
  <2>1. \A x \in (1 .. N) \X Seq(E) : x[2] \o seqs[x[1]] \in Seq(E)
    BY <1>1, ConcatProperties
  <2>. QED
    BY <2>1
<1>3. <<>> \in Seq(E)
  OBVIOUS
<1>4. PICK f : Iterates(f, N, Seq(E), <<>>, add)
  <2>. HIDE DEF add, N
  <2>. QED
    BY <1>1, <1>2, <1>3, Recursion
<1>5. ASSUME NEW n \in 1 .. N PROVE f[n] = f[n - 1] \o seqs[n]
  <2>1. n - 1 \in 0 .. N
    BY <1>1
  <2>2. f[n - 1] \in Seq(E)
    BY <1>4, <2>1 DEF Iterates
  <2>3. <<n, f[n - 1]>> \in (1 .. N) \X Seq(E)
    BY <2>2
  <2>4. f[n] = add[<<n, f[n - 1]>>]
    BY <1>4 DEF Iterates
  <2>. QED
    BY <2>3, <2>4
<1>. QED
  BY <1>4, <1>5 DEF Builds, Iterates

LEMMA FlatPrefix ==
  ASSUME NEW E, NEW seqs \in Seq(Seq(E))
  PROVE  \E f : Builds(seqs, E, f) /\ FlattenSeq(seqs) = f[Len(seqs)]
<1>. DEFINE N == Len(seqs)
<1>1. PICK f : Builds(seqs, E, f)
  BY BuildsExist
<1>2. N \in Nat /\ \A n \in 1 .. N : seqs[n] \in Seq(E)
  OBVIOUS
<1>3. CASE N = 0
  <2>1. seqs = <<>> /\ FlattenSeq(seqs) = seqs
    BY <1>3 DEF FlattenSeq
  <2>. QED
    BY <1>1, <1>3, <2>1 DEF Builds
<1>4. CASE N # 0
  <2>. DEFINE h == [i \in 1 .. N |-> f[i]]
  <2>1. IsFlat(seqs, h)
    <3>1. ASSUME NEW i \in 1 .. N
          PROVE  f[i] = IF i = 1 THEN seqs[i] ELSE h[i - 1] \o seqs[i]
      <4>1. f[i] = f[i - 1] \o seqs[i]
        BY <1>1 DEF Builds
      <4>2. CASE i = 1
        <5>0. i - 1 = 0 /\ f[0] = <<>>
          BY <1>1, <4>2 DEF Builds
        <5>1. f[i] = <<>> \o seqs[i]
          BY <4>1, <5>0
        <5>. QED
          BY <1>2, <4>2, <5>1
      <4>3. CASE i # 1
        <5>1. i - 1 \in 1 .. N
          BY <1>2, <4>3
        <5>. QED
          BY <4>1, <4>3, <5>1
      <4>. QED
        BY <4>2, <4>3
    <3>. HIDE DEF N
    <3>2. h = [i \in 1 .. N |-> IF i = 1 THEN seqs[i] ELSE h[i - 1] \o seqs[i]]
      BY <3>1
    <3>. QED
      BY <3>2 DEF IsFlat, N
  <2>2. PICK g : g = (CHOOSE flatten : IsFlat(seqs, flatten))
    OBVIOUS
  <2>3. IsFlat(seqs, g) /\ FlattenSeq(seqs) = g[N]
    <3>1. IsFlat(seqs, g)
      BY <2>1, <2>2
    <3>. QED
      BY <1>4, <2>2, <3>1 DEF FlattenSeq, IsFlat
  <2>4. \A n \in 0 .. N : n = 0 \/ g[n] = f[n]
    <3>. DEFINE S == {n \in 0 .. N : n = 0 \/ g[n] = f[n]}
    <3>1. 0 \in S
      BY <1>2
    <3>2. ASSUME NEW n \in 0 .. N - 1, n \in S PROVE n + 1 \in S
      <4>1. n + 1 \in 1 .. N /\ (n + 1) - 1 = n
        BY <1>2
      <4>2. f[n + 1] = f[n] \o seqs[n + 1]
        BY <1>1, <4>1 DEF Builds
      <4>3. g[n + 1] = IF n + 1 = 1 THEN seqs[n + 1] ELSE g[n] \o seqs[n + 1]
        BY <2>3, <4>1 DEF IsFlat
      <4>4. CASE n = 0
        <5>1. f[n + 1] = <<>> \o seqs[n + 1]
          BY <1>1, <4>2, <4>4 DEF Builds
        <5>. QED
          BY <1>2, <4>1, <4>3, <4>4, <5>1
      <4>5. CASE n # 0
        <5>1. n + 1 # 1 /\ g[n] = f[n]
          BY <1>2, <3>2, <4>5
        <5>2. g[n + 1] = g[n] \o seqs[n + 1]
          BY <4>3, <5>1
        <5>3. g[n + 1] = f[n + 1]
          BY <4>2, <5>1, <5>2
        <5>. QED
          BY <4>1, <5>3
      <4>. QED
        BY <4>4, <4>5
    <3>. HIDE DEF S, N
    <3>3. 0 .. N \subseteq S
      BY <1>2, <3>1, <3>2, InductUpTo
    <3>. QED
      BY <3>3 DEF S
  <2>. QED
    BY <1>1, <1>2, <1>4, <2>3, <2>4
<1>. QED
  BY <1>3, <1>4

\* The n-th part stands behind the first upTo[n - 1] elements, and every element
\* belongs to a part.
Flattened(seqs, flat, upTo) ==
  /\ upTo \in [0 .. Len(seqs) -> Nat] /\ upTo[0] = 0 /\ upTo[Len(seqs)] = Len(flat)
  /\ \A n \in 1 .. Len(seqs) : upTo[n] = upTo[n - 1] + Len(seqs[n])
  /\ \A n \in 1 .. Len(seqs) : \A k \in 1 .. Len(seqs[n]) :
       upTo[n - 1] + k \in DOMAIN flat /\ flat[upTo[n - 1] + k] = seqs[n][k]
  /\ \A i \in DOMAIN flat :
       \E n \in 1 .. Len(seqs) : \E k \in 1 .. Len(seqs[n]) : i = upTo[n - 1] + k

LEMMA FlatFacts ==
  ASSUME NEW E, NEW seqs \in Seq(Seq(E))
  PROVE  /\ FlattenSeq(seqs) \in Seq(E)
         /\ \E upTo : Flattened(seqs, FlattenSeq(seqs), upTo)
<1>. DEFINE flat == FlattenSeq(seqs)
            N == Len(seqs)
<1>1. PICK f : Builds(seqs, E, f) /\ flat = f[N]
  BY FlatPrefix
<1>2. N \in Nat /\ \A n \in 1 .. N : seqs[n] \in Seq(E)
  OBVIOUS
<1>3. /\ f \in [0 .. N -> Seq(E)] /\ f[0] = <<>>
      /\ \A n \in 1 .. N : f[n] = f[n - 1] \o seqs[n]
  BY <1>1 DEF Builds
<1>. DEFINE upTo == [n \in 0 .. N |-> Len(f[n])]
<1>. HIDE DEF N, flat
<1>4. \A n \in 0 .. N : f[n] \in Seq(E) /\ Len(f[n]) \in Nat
  <2>1. \A n \in 0 .. N : f[n] \in Seq(E)
    BY <1>3
  <2>. QED
    BY <2>1, LenProperties
<1>5. upTo \in [0 .. N -> Nat] /\ upTo[0] = 0 /\ upTo[N] = Len(flat) /\ flat \in Seq(E)
  <2>1. upTo \in [0 .. N -> Nat]
    BY <1>4
  <2>2. 0 \in 0 .. N /\ N \in 0 .. N /\ Len(<<>>) = 0
    BY <1>2
  <2>. QED
    BY <1>1, <1>3, <1>4, <2>1, <2>2
<1>6. ASSUME NEW n \in 1 .. N
      PROVE  /\ n - 1 \in 0 .. N /\ n \in 0 .. N
             /\ Len(f[n]) = Len(f[n - 1]) + Len(seqs[n])
             /\ \A i \in 1 .. Len(f[n - 1]) : f[n][i] = f[n - 1][i]
             /\ \A k \in 1 .. Len(seqs[n]) : f[n][Len(f[n - 1]) + k] = seqs[n][k]
  <2>1. n - 1 \in 0 .. N /\ n \in 0 .. N
    BY <1>2
  <2>2. f[n] = f[n - 1] \o seqs[n] /\ f[n - 1] \in Seq(E) /\ seqs[n] \in Seq(E)
    BY <1>2, <1>3, <1>4, <2>1
  <2>3. PICK s \in Seq(E), t \in Seq(E) : s = f[n - 1] /\ t = seqs[n]
    BY <2>2
  <2>4. /\ Len(s \o t) = Len(s) + Len(t)
        /\ \A i \in 1 .. Len(s) : (s \o t)[i] = s[i]
        /\ \A k \in 1 .. Len(t) : (s \o t)[Len(s) + k] = t[k]
    OBVIOUS
  <2>. QED
    BY <2>1, <2>2, <2>3, <2>4
\* What the first n parts make up begins flat.
<1>7. \A m \in 0 .. N : \A n \in 0 .. m :
        Len(f[n]) <= Len(f[m]) /\ \A i \in 1 .. Len(f[n]) : f[m][i] = f[n][i]
  <2>. DEFINE Begins(n, m) ==
                Len(f[n]) <= Len(f[m]) /\ \A i \in 1 .. Len(f[n]) : f[m][i] = f[n][i]
              S == {m \in 0 .. N : \A n \in 0 .. m : Begins(n, m)}
  <2>1. 0 \in S
    <3>1. 0 \in 0 .. N /\ \A n \in 0 .. 0 : n = 0
      BY <1>2
    <3>. QED
      BY <1>4, <3>1
  <2>2. ASSUME NEW m \in 0 .. N - 1, m \in S PROVE m + 1 \in S
    <3>1. m + 1 \in 1 .. N /\ (m + 1) - 1 = m /\ m \in 0 .. N /\ m + 1 \in 0 .. N
      BY <1>2
    <3>2. /\ Len(f[m + 1]) = Len(f[m]) + Len(seqs[m + 1])
          /\ \A i \in 1 .. Len(f[m]) : f[m + 1][i] = f[m][i]
      <4>1. PICK p \in 1 .. N : p = m + 1 /\ p - 1 = m
        BY <3>1
      <4>2. /\ Len(f[p]) = Len(f[p - 1]) + Len(seqs[p])
            /\ \A i \in 1 .. Len(f[p - 1]) : f[p][i] = f[p - 1][i]
        BY <1>6
      <4>. QED
        BY <4>1, <4>2
    <3>3. Len(f[m]) \in Nat /\ Len(seqs[m + 1]) \in Nat /\ Len(f[m + 1]) \in Nat
      BY <1>2, <1>4, <3>1, LenProperties
    <3>4. ASSUME NEW n \in 0 .. (m + 1) PROVE Begins(n, m + 1)
      <4>1. CASE n = m + 1
        BY <3>3, <4>1
      <4>2. CASE n # m + 1
        <5>1. n \in 0 .. m /\ n \in 0 .. N
          BY <1>2, <4>2
        <5>2. Begins(n, m)
          BY <2>2, <5>1
        <5>3. Len(f[n]) \in Nat
          BY <1>4, <5>1
        <5>4. Len(f[n]) <= Len(f[m + 1]) /\ \A i \in 1 .. Len(f[n]) : i \in 1 .. Len(f[m])
          <6>1. \A a, b, c \in Nat : a <= b => a <= b + c /\ \A i \in 1 .. a : i \in 1 .. b
            OBVIOUS
          <6>. QED
            BY <3>2, <3>3, <5>2, <5>3, <6>1
        <5>. QED
          BY <3>2, <5>2, <5>4
      <4>. QED
        BY <4>1, <4>2
    <3>. HIDE DEF Begins
    <3>. QED
      BY <3>1, <3>4
  <2>. HIDE DEF S
  <2>3. 0 .. N \subseteq S
    BY <1>2, <2>1, <2>2, InductUpTo
  <2>. QED
    BY <2>3 DEF S
<1>8. ASSUME NEW n \in 1 .. N, NEW k \in 1 .. Len(seqs[n])
      PROVE  upTo[n - 1] + k \in DOMAIN flat /\ flat[upTo[n - 1] + k] = seqs[n][k]
  <2>1. /\ n - 1 \in 0 .. N /\ n \in 0 .. N /\ n \in 0 .. N
        /\ Len(f[n]) = Len(f[n - 1]) + Len(seqs[n])
        /\ f[n][Len(f[n - 1]) + k] = seqs[n][k]
    BY <1>6
  <2>2. N \in 0 .. N /\ Len(f[n]) <= Len(flat) /\ \A i \in 1 .. Len(f[n]) : flat[i] = f[n][i]
    <3>1. N \in 0 .. N /\ n \in 0 .. N
      BY <1>2, <2>1
    <3>2. Len(f[n]) <= Len(f[N]) /\ \A i \in 1 .. Len(f[n]) : f[N][i] = f[n][i]
      BY <1>7, <3>1
    <3>. QED
      BY <1>1, <3>1, <3>2
  <2>3. Len(seqs[n]) \in Nat /\ Len(f[n - 1]) \in Nat /\ Len(flat) \in Nat
    BY <1>2, <1>4, <1>5, <2>1, LenProperties
  <2>4. Len(f[n - 1]) + k \in 1 .. Len(f[n]) /\ Len(f[n - 1]) + k \in 1 .. Len(flat)
    <3>1. \A a, b, c, d \in Nat :
            a = b + c /\ a <= d => \A j \in 1 .. c : b + j \in 1 .. a /\ b + j \in 1 .. d
      OBVIOUS
    <3>2. Len(f[n]) \in Nat
      BY <1>4, <2>1
    <3>. QED
      BY <2>1, <2>2, <2>3, <3>1, <3>2
  <2>5. DOMAIN flat = 1 .. Len(flat)
    BY <1>5
  <2>. QED
    BY <2>1, <2>2, <2>4, <2>5
<1>9. ASSUME NEW i \in DOMAIN flat
      PROVE  \E n \in 1 .. N : \E k \in 1 .. Len(seqs[n]) : i = upTo[n - 1] + k
  <2>. DEFINE S == {n \in 0 .. N : i <= Len(f[n])}
  <2>1. i \in 1 .. Len(flat) /\ Len(flat) \in Nat
    BY <1>5
  <2>2. N \in S /\ S \in SUBSET Nat
    BY <1>1, <1>2, <2>1
  <2>3. PICK n \in S : \A m \in S : n <= m
    <3>. HIDE DEF S
    <3>. QED
      BY <2>2, LeastNumber
  <2>4. n \in 1 .. N
    BY <1>2, <1>3, <2>1, <2>3
  <2>5. n - 1 \in 0 .. N /\ Len(f[n]) = Len(f[n - 1]) + Len(seqs[n])
    BY <1>6, <2>4
  <2>6. ~(i <= Len(f[n - 1]))
    <3>1. n - 1 \notin S
      BY <2>3, <2>4
    <3>. QED
      BY <2>5, <3>1
  <2>7. Len(seqs[n]) \in Nat /\ Len(f[n - 1]) \in Nat /\ i <= Len(f[n])
    BY <1>2, <1>4, <2>3, <2>4, <2>5, LenProperties
  <2>8. i - Len(f[n - 1]) \in 1 .. Len(seqs[n])
    <3>1. \A j, a, b, c \in Nat : a = b + c /\ j <= a /\ ~(j <= b) => j - b \in 1 .. c
      OBVIOUS
    <3>2. Len(f[n]) \in Nat /\ i \in Nat
      BY <1>4, <2>1, <2>4
    <3>. QED
      BY <2>5, <2>6, <2>7, <3>1, <3>2
  <2>9. i = upTo[n - 1] + (i - Len(f[n - 1]))
    BY <2>1, <2>5, <2>7
  <2>. QED
    BY <2>4, <2>8, <2>9
<1>10. \A n \in 1 .. N : upTo[n] = upTo[n - 1] + Len(seqs[n])
  BY <1>6
<1>. HIDE DEF upTo
<1>11. Flattened(seqs, flat, upTo)
  BY <1>5, <1>8, <1>9, <1>10 DEF Flattened, N
<1>. QED
  BY <1>5, <1>11 DEF flat

\* Messages of a set E with ids of a set U, the synthetic answers among them.
Patchable(E, U) ==
  (\A m \in E : m.ids \in Seq(U)) /\ (\A id \in U : PatchedAnswer(id) \in E)

\* Where the synthetic answers to a message stand.
Gaps(s, i, at) ==
  /\ \A x \in DOMAIN Missing(s, i) : \E k \in DOMAIN s[i].ids :
       /\ x = at[k] /\ ~AnsweredLater(s, i, s[i].ids[k])
       /\ Missing(s, i)[x] = PatchedAnswer(s[i].ids[k])
  /\ \A k \in DOMAIN s[i].ids : ~AnsweredLater(s, i, s[i].ids[k]) =>
       at[k] \in DOMAIN Missing(s, i) /\ Missing(s, i)[at[k]] = PatchedAnswer(s[i].ids[k])

LEMMA MissingFacts ==
  ASSUME NEW U, NEW E, Patchable(E, U), NEW s \in Seq(E), NEW i \in DOMAIN s,
         s[i].role = "assistant"
  PROVE  Missing(s, i) \in Seq(E) /\ \E at : Gaps(s, i, at)
<1>. DEFINE ids == s[i].ids
            Open(k) == ~AnsweredLater(s, i, ids[k])
            parts == [k \in DOMAIN ids |-> IF Open(k) THEN <<PatchedAnswer(ids[k])>> ELSE <<>>]
<1>1. ids \in Seq(U) /\ Len(ids) \in Nat /\ DOMAIN ids = 1 .. Len(ids)
  <2>1. s[i] \in E
    OBVIOUS
  <2>. QED
    BY <2>1 DEF Patchable
<1>2. Missing(s, i) = FlattenSeq(parts)
  <2>1. parts = [k \in DOMAIN s[i].ids |->
                   LET id == s[i].ids[k]
                   IN  IF AnsweredLater(s, i, id) THEN <<>> ELSE <<PatchedAnswer(id)>>]
    <3>1. \A k \in DOMAIN ids :
            parts[k] = IF AnsweredLater(s, i, ids[k]) THEN <<>> ELSE <<PatchedAnswer(ids[k])>>
      OBVIOUS
    <3>. QED
      BY <3>1
  <2>. QED
    BY <2>1 DEF Missing
<1>. HIDE DEF ids
<1>3. \A k \in DOMAIN ids : PatchedAnswer(ids[k]) \in E
  BY <1>1 DEF Patchable
<1>4. parts \in Seq(Seq(E)) /\ Len(parts) = Len(ids)
  <2>1. \A k \in 1 .. Len(ids) : parts[k] \in Seq(E)
    BY <1>1, <1>3
  <2>2. parts \in [1 .. Len(ids) -> Seq(E)]
    BY <1>1, <2>1
  <2>. HIDE DEF parts
  <2>. QED
    BY <1>1, <2>2
<1>5. /\ \A k \in 1 .. Len(ids) : Open(k) =>
           Len(parts[k]) = 1 /\ parts[k][1] = PatchedAnswer(ids[k])
      /\ \A k \in 1 .. Len(ids) : ~Open(k) => Len(parts[k]) = 0
  BY <1>1
<1>6. PICK gap : gap = Missing(s, i)
  OBVIOUS
<1>. HIDE DEF parts, Open
<1>7. gap \in Seq(E) /\ \E upTo : Flattened(parts, gap, upTo)
  BY <1>2, <1>4, <1>6, FlatFacts
<1>8. PICK upTo \in [0 .. Len(ids) -> Nat] :
        /\ \A k \in 1 .. Len(ids) : \A x \in 1 .. Len(parts[k]) :
             upTo[k - 1] + x \in DOMAIN gap /\ gap[upTo[k - 1] + x] = parts[k][x]
        /\ \A y \in DOMAIN gap : \E k \in 1 .. Len(ids) : \E x \in 1 .. Len(parts[k]) :
             y = upTo[k - 1] + x
  <2>1. PICK upTo : Flattened(parts, gap, upTo)
    BY <1>7
  <2>2. /\ upTo \in [0 .. Len(ids) -> Nat]
        /\ \A k \in 1 .. Len(ids) : \A x \in 1 .. Len(parts[k]) :
             upTo[k - 1] + x \in DOMAIN gap /\ gap[upTo[k - 1] + x] = parts[k][x]
    BY <1>4, <2>1 DEF Flattened
  <2>3. \A y \in DOMAIN gap : \E k \in 1 .. Len(ids) : \E x \in 1 .. Len(parts[k]) :
          y = upTo[k - 1] + x
    <3>1. \A y \in DOMAIN gap :
            \E k \in 1 .. Len(parts) : \E x \in 1 .. Len(parts[k]) : y = upTo[k - 1] + x
      BY <2>1 DEF Flattened
    <3>. QED
      BY <1>4, <3>1
  <2>. QED
    BY <2>2, <2>3
<1>. DEFINE at == [k \in 1 .. Len(ids) |-> upTo[k - 1] + 1]
<1>9. ASSUME NEW k \in 1 .. Len(ids), Open(k)
      PROVE  at[k] \in DOMAIN gap /\ gap[at[k]] = PatchedAnswer(ids[k])
  <2>1. 1 \in 1 .. Len(parts[k])
    BY <1>5, <1>9
  <2>2. upTo[k - 1] + 1 \in DOMAIN gap /\ gap[upTo[k - 1] + 1] = parts[k][1]
    BY <1>8, <2>1
  <2>. QED
    BY <1>5, <1>9, <2>2
<1>10. ASSUME NEW y \in DOMAIN gap
      PROVE  \E k \in 1 .. Len(ids) : y = at[k] /\ Open(k) /\ gap[y] = PatchedAnswer(ids[k])
  <2>0. PICK k \in 1 .. Len(ids) : \E x \in 1 .. Len(parts[k]) : y = upTo[k - 1] + x
    BY <1>8
  <2>1. PICK x \in 1 .. Len(parts[k]) : y = upTo[k - 1] + x
    BY <2>0
  <2>2. Open(k)
    BY <1>5, <2>1
  <2>3. x = 1
    <3>1. Len(parts[k]) = 1
      BY <1>5, <2>2
    <3>. QED
      BY <2>1, <3>1
  <2>. QED
    BY <1>9, <2>1, <2>2, <2>3
<1>. HIDE DEF at
<1>11. Gaps(s, i, at)
  BY <1>1, <1>6, <1>9, <1>10 DEF Gaps, ids, Open
<1>. QED
  BY <1>6, <1>7, <1>11

\* Where the messages of a history stand in the request that patching makes.
Placed(s, request, at) ==
  /\ \A p \in DOMAIN s : at[p] \in Nat /\ at[p] \in DOMAIN request /\ request[at[p]] = s[p]
  /\ \A p \in DOMAIN s : \A x \in DOMAIN Missing(s, p) :
       at[p] + x \in DOMAIN request /\ request[at[p] + x] = Missing(s, p)[x]
  /\ \A i \in DOMAIN request : \E p \in DOMAIN s :
       i = at[p] \/ \E x \in DOMAIN Missing(s, p) : i = at[p] + x
  /\ \A p, q \in DOMAIN s : p < q => at[p] + Len(Missing(s, p)) < at[q]

LEMMA PatchedFacts ==
  ASSUME NEW U, NEW E, Patchable(E, U), NEW s \in Seq(E)
  PROVE  /\ Patched(s) \in Seq(E)
         /\ \A p \in DOMAIN s : Missing(s, p) \in Seq(E)
         /\ \E at : Placed(s, Patched(s), at)
<1>. DEFINE parts == [p \in DOMAIN s |-> <<s[p]>> \o Missing(s, p)]
            N == Len(s)
<1>1. N \in Nat /\ DOMAIN s = 1 .. N /\ \A p \in 1 .. N : s[p] \in E
  OBVIOUS
<1>2. ASSUME NEW p \in DOMAIN s PROVE Missing(s, p) \in Seq(E)
  <2>1. CASE s[p].role = "assistant"
    BY <2>1, MissingFacts
  <2>2. CASE s[p].role # "assistant"
    BY <2>2 DEF Missing
  <2>. QED
    BY <2>1, <2>2
<1>3. ASSUME NEW p \in 1 .. N
      PROVE  LET gap == Missing(s, p)
             IN  /\ parts[p] \in Seq(E) /\ Len(gap) \in Nat /\ DOMAIN gap = 1 .. Len(gap)
                 /\ Len(parts[p]) = 1 + Len(gap)
                 /\ parts[p][1] = s[p]
                 /\ \A x \in DOMAIN gap :
                      x + 1 \in 1 .. Len(parts[p]) /\ parts[p][x + 1] = gap[x]
  <2>1. PICK m \in E, gap \in Seq(E) : m = s[p] /\ gap = Missing(s, p)
    BY <1>1, <1>2
  <2>2. parts[p] = <<m>> \o gap
    BY <1>1, <2>1
  <2>3. /\ <<m>> \o gap \in Seq(E) /\ Len(<<m>> \o gap) = 1 + Len(gap)
        /\ (<<m>> \o gap)[1] = m /\ Len(gap) \in Nat /\ DOMAIN gap = 1 .. Len(gap)
    OBVIOUS
  <2>4. \A x \in 1 .. Len(gap) : x + 1 \in 1 .. 1 + Len(gap) /\ (<<m>> \o gap)[x + 1] = gap[x]
    OBVIOUS
  <2>. HIDE DEF parts
  <2>. QED
    BY <2>1, <2>2, <2>3, <2>4
<1>4. parts \in Seq(Seq(E)) /\ Len(parts) = N
  <2>1. parts \in [1 .. N -> Seq(E)]
    BY <1>1, <1>3
  <2>. HIDE DEF parts, N
  <2>. QED
    BY <1>1, <2>1
<1>5. Patched(s) = FlattenSeq(parts)
  BY DEF Patched
<1>. HIDE DEF parts, N
<1>6. PICK request : request = Patched(s)
  OBVIOUS
<1>7. request \in Seq(E) /\ \E upTo : Flattened(parts, request, upTo)
  BY <1>4, <1>5, <1>6, FlatFacts
<1>8. PICK upTo \in [0 .. N -> Nat] :
        /\ \A p \in 1 .. N : upTo[p] = upTo[p - 1] + Len(parts[p])
        /\ \A p \in 1 .. N : \A x \in 1 .. Len(parts[p]) :
             upTo[p - 1] + x \in DOMAIN request /\ request[upTo[p - 1] + x] = parts[p][x]
        /\ \A i \in DOMAIN request : \E p \in 1 .. N : \E x \in 1 .. Len(parts[p]) :
             i = upTo[p - 1] + x
  BY <1>4, <1>7 DEF Flattened
<1>. DEFINE at == [p \in 1 .. N |-> upTo[p - 1] + 1]
<1>9. \A p \in 1 .. N : p - 1 \in 0 .. N /\ upTo[p - 1] \in Nat /\ at[p] \in Nat
                         /\ at[p] = upTo[p - 1] + 1
  <2>1. \A p \in 1 .. N : p - 1 \in 0 .. N
    BY <1>1
  <2>. QED
    BY <1>8, <2>1
<1>. HIDE DEF at
<1>10. ASSUME NEW p \in 1 .. N
      PROVE  /\ at[p] \in DOMAIN request /\ request[at[p]] = s[p]
             /\ \A x \in DOMAIN Missing(s, p) :
                  at[p] + x \in DOMAIN request /\ request[at[p] + x] = Missing(s, p)[x]
  <2>1. 1 \in 1 .. Len(parts[p])
    BY <1>3
  <2>2. at[p] \in DOMAIN request /\ request[at[p]] = s[p]
    <3>1. /\ upTo[p - 1] + 1 \in DOMAIN request /\ request[upTo[p - 1] + 1] = parts[p][1]
          /\ at[p] = upTo[p - 1] + 1 /\ parts[p][1] = s[p]
      BY <1>3, <1>8, <1>9, <2>1
    <3>. QED
      BY <3>1
  <2>3. ASSUME NEW x \in DOMAIN Missing(s, p)
        PROVE  at[p] + x \in DOMAIN request /\ request[at[p] + x] = Missing(s, p)[x]
    <3>1. /\ x + 1 \in 1 .. Len(parts[p]) /\ parts[p][x + 1] = Missing(s, p)[x] /\ x \in Nat
      BY <1>3
    <3>2. /\ upTo[p - 1] + (x + 1) \in DOMAIN request
          /\ request[upTo[p - 1] + (x + 1)] = parts[p][x + 1]
      BY <1>8, <3>1
    <3>3. upTo[p - 1] + (x + 1) = at[p] + x
      <4>1. \A a, b \in Nat : a + (b + 1) = (a + 1) + b
        OBVIOUS
      <4>2. upTo[p - 1] \in Nat /\ at[p] = upTo[p - 1] + 1
        BY <1>9
      <4>. QED
        BY <3>1, <4>1, <4>2
    <3>. QED
      BY <3>1, <3>2, <3>3
  <2>. QED
    BY <2>2, <2>3
<1>11. ASSUME NEW i \in DOMAIN request
       PROVE  \E p \in 1 .. N : i = at[p] \/ \E x \in DOMAIN Missing(s, p) : i = at[p] + x
  <2>0. PICK p \in 1 .. N : \E x \in 1 .. Len(parts[p]) : i = upTo[p - 1] + x
    BY <1>8
  <2>1. PICK x \in 1 .. Len(parts[p]) : i = upTo[p - 1] + x
    BY <2>0
  <2>2. /\ Len(Missing(s, p)) \in Nat /\ DOMAIN Missing(s, p) = 1 .. Len(Missing(s, p))
        /\ Len(parts[p]) = 1 + Len(Missing(s, p))
    BY <1>3
  <2>3. x = 1 \/ x - 1 \in DOMAIN Missing(s, p)
    BY <2>2
  <2>4. upTo[p - 1] + x = at[p] + (x - 1)
    BY <1>9, <2>2
  <2>. QED
    BY <1>9, <2>1, <2>3, <2>4
<1>12. \A p, q \in 1 .. N : p < q => at[p] + Len(Missing(s, p)) < at[q]
  <2>1. SUFFICES ASSUME NEW p \in 1 .. N
                 PROVE  \A q \in 1 .. N : p < q => at[p] + Len(Missing(s, p)) < at[q]
    OBVIOUS
  <2>. DEFINE S == {q \in 0 .. N : p <= q => upTo[p] <= upTo[q]}
  <2>2. 0 \in S
    BY <1>1
  <2>3. ASSUME NEW q \in 0 .. N - 1, q \in S PROVE q + 1 \in S
    <3>1. PICK r \in 1 .. N : r = q + 1 /\ r - 1 = q
      BY <1>1
    <3>2. upTo[r] = upTo[q] + Len(parts[r])
      BY <1>8, <3>1
    <3>3. Len(parts[r]) \in Nat /\ upTo[q] \in Nat /\ upTo[p] \in Nat /\ upTo[r] \in Nat
          /\ q \in Nat /\ r \in 0 .. N
      <4>1. Len(parts[r]) \in Nat
        BY <1>3
      <4>2. q \in 0 .. N /\ p \in 0 .. N /\ r \in 0 .. N
        BY <1>1
      <4>3. upTo[q] \in Nat /\ upTo[p] \in Nat /\ upTo[r] \in Nat
        BY <1>8, <4>2
      <4>. QED
        BY <1>1, <4>1, <4>2, <4>3
    <3>4. p <= r => upTo[p] <= upTo[r]
      <4>1. CASE p = r
        BY <3>3, <4>1
      <4>2. CASE p # r
        <5>1. p <= r => p <= q
          BY <1>1, <3>1, <4>2
        <5>. QED
          BY <2>3, <3>2, <3>3, <5>1
      <4>. QED
        BY <4>1, <4>2
    <3>. QED
      BY <3>1, <3>3, <3>4
  <2>. HIDE DEF S
  <2>4. 0 .. N \subseteq S
    BY <1>1, <2>2, <2>3, InductUpTo
  <2>5. ASSUME NEW q \in 1 .. N, p < q PROVE at[p] + Len(Missing(s, p)) < at[q]
    <3>1. q - 1 \in 0 .. N /\ p <= q - 1
      BY <1>1, <2>5
    <3>2. upTo[p] <= upTo[q - 1]
      BY <2>4, <3>1 DEF S
    <3>3. /\ upTo[p] = upTo[p - 1] + (1 + Len(Missing(s, p))) /\ Len(Missing(s, p)) \in Nat
          /\ upTo[p - 1] \in Nat /\ upTo[q - 1] \in Nat
      BY <1>3, <1>8, <1>9
    <3>. QED
      BY <1>9, <3>2, <3>3
  <2>. QED
    BY <2>5
<1>13. Placed(s, request, at)
  <2>1. DOMAIN s = 1 .. N
    BY <1>1
  <2>2. \A p \in DOMAIN s :
          at[p] \in Nat /\ at[p] \in DOMAIN request /\ request[at[p]] = s[p]
    BY <1>9, <1>10, <2>1
  <2>3. \A p \in DOMAIN s : \A x \in DOMAIN Missing(s, p) :
          at[p] + x \in DOMAIN request /\ request[at[p] + x] = Missing(s, p)[x]
    BY <1>10, <2>1
  <2>4. \A i \in DOMAIN request : \E p \in DOMAIN s :
          i = at[p] \/ \E x \in DOMAIN Missing(s, p) : i = at[p] + x
    BY <1>11, <2>1
  <2>5. \A p, q \in DOMAIN s : p < q => at[p] + Len(Missing(s, p)) < at[q]
    BY <1>12, <2>1
  <2>. QED
    BY <2>2, <2>3, <2>4, <2>5 DEF Placed
<1>. QED
  BY <1>2, <1>6, <1>7, <1>13

\* Every message of a request but those of the history is a synthetic answer.
LEMMA GapFacts ==
  ASSUME NEW U, NEW E, Patchable(E, U), NEW s \in Seq(E), NEW p \in DOMAIN s
  PROVE  /\ Len(Missing(s, p)) \in Nat /\ DOMAIN Missing(s, p) = 1 .. Len(Missing(s, p))
         /\ \A x \in DOMAIN Missing(s, p) :
              s[p].role = "assistant" /\ Missing(s, p)[x].role = "tool"
<1>1. Missing(s, p) \in Seq(E)
  BY PatchedFacts
<1>2. Len(Missing(s, p)) \in Nat /\ DOMAIN Missing(s, p) = 1 .. Len(Missing(s, p))
  BY <1>1
<1>3. CASE s[p].role = "assistant"
  <2>1. PICK at : Gaps(s, p, at)
    BY <1>3, MissingFacts
  <2>2. \A x \in DOMAIN Missing(s, p) : Missing(s, p)[x].role = "tool"
    BY <2>1 DEF Gaps, PatchedAnswer
  <2>. QED
    BY <1>2, <1>3, <2>2
<1>4. CASE s[p].role # "assistant"
  <2>1. Missing(s, p) = <<>>
    BY <1>4 DEF Missing
  <2>. QED
    BY <1>2, <2>1
<1>. QED
  BY <1>3, <1>4

\* A place of the request behind that of the p-th message belongs to that or to
\* a later one.
LEMMA PlaceBehind ==
  ASSUME NEW U, NEW E, Patchable(E, U), NEW s \in Seq(E),
         NEW request, NEW at, Placed(s, request, at),
         NEW p \in DOMAIN s, NEW i \in DOMAIN request, at[p] < i, i \in Nat
  PROVE  \/ \E x \in DOMAIN Missing(s, p) : i = at[p] + x
         \/ \E r \in DOMAIN s :
              /\ p < r
              /\ i = at[r] \/ \E x \in DOMAIN Missing(s, r) : i = at[r] + x
<1>1. PICK r \in DOMAIN s : i = at[r] \/ \E x \in DOMAIN Missing(s, r) : i = at[r] + x
  BY DEF Placed
<1>2. p \in Nat /\ r \in Nat /\ at[p] \in Nat /\ at[r] \in Nat
  BY DEF Placed
<1>3. Len(Missing(s, r)) \in Nat /\ DOMAIN Missing(s, r) = 1 .. Len(Missing(s, r))
  BY GapFacts
<1>4. ~(r < p)
  <2>1. r < p => at[r] + Len(Missing(s, r)) < at[p]
    BY DEF Placed
  <2>2. i <= at[r] + Len(Missing(s, r))
    BY <1>1, <1>2, <1>3
  <2>. QED
    BY <1>2, <1>3, <2>1, <2>2
<1>5. CASE r = p
  BY <1>1, <1>2, <1>5
<1>6. CASE p < r
  BY <1>1, <1>6
<1>. QED
  BY <1>2, <1>4, <1>5, <1>6

\* The block behind an assistant message in the request: the synthetic answers to
\* it, then its block in the history.
LEMMA BlockFacts ==
  ASSUME NEW U, NEW E, Patchable(E, U), NEW s \in Seq(E),
         NEW request \in Seq(E), NEW at, Placed(s, request, at),
         NEW p \in DOMAIN s, s[p].role = "assistant"
  PROVE  /\ \A x \in DOMAIN Missing(s, p) : InBlock(request, at[p], at[p] + x)
         /\ \A q \in DOMAIN s : InBlock(s, p, q) => InBlock(request, at[p], at[q])
         /\ \A i \in DOMAIN request : InBlock(request, at[p], i) =>
              \/ \E x \in DOMAIN Missing(s, p) : i = at[p] + x
              \/ \E q \in DOMAIN s : i = at[q] /\ InBlock(s, p, q)
<1>1. /\ \A r \in DOMAIN s : r \in Nat /\ at[r] \in Nat /\ at[r] \in DOMAIN request
                             /\ request[at[r]] = s[r]
      /\ DOMAIN request = 1 .. Len(request) /\ Len(request) \in Nat
      /\ DOMAIN s = 1 .. Len(s) /\ Len(s) \in Nat
  <2>1. /\ DOMAIN request = 1 .. Len(request) /\ Len(request) \in Nat
        /\ DOMAIN s = 1 .. Len(s) /\ Len(s) \in Nat
    OBVIOUS
  <2>2. \A r \in DOMAIN s : at[r] \in Nat /\ at[r] \in DOMAIN request /\ request[at[r]] = s[r]
    BY DEF Placed
  <2>. QED
    BY <2>1, <2>2
<1>2. \A r \in DOMAIN s :
        /\ Len(Missing(s, r)) \in Nat /\ DOMAIN Missing(s, r) = 1 .. Len(Missing(s, r))
        /\ \A x \in DOMAIN Missing(s, r) :
             /\ s[r].role = "assistant" /\ Missing(s, r)[x].role = "tool"
             /\ at[r] + x \in DOMAIN request
             /\ request[at[r] + x] = Missing(s, r)[x]
  BY GapFacts DEF Placed
<1>3. \A r, q \in DOMAIN s : r < q => at[r] + Len(Missing(s, r)) < at[q]
  BY DEF Placed
<1>4. ASSUME NEW x \in DOMAIN Missing(s, p) PROVE InBlock(request, at[p], at[p] + x)
  <2>1. ASSUME NEW m \in (at[p] + 1) .. (at[p] + x) PROVE request[m].role = "tool"
    <3>1. PICK y \in 1 .. Len(Missing(s, p)) : m = at[p] + y
      <4>1. m - at[p] \in 1 .. Len(Missing(s, p)) /\ m = at[p] + (m - at[p])
        BY <1>1, <1>2
      <4>. QED
        BY <4>1
    <3>. QED
      BY <1>2, <3>1
  <2>2. at[p] < at[p] + x
    BY <1>1, <1>2
  <2>. QED
    BY <1>1, <2>1, <2>2 DEF InBlock, Unbroken
<1>5. ASSUME NEW q \in DOMAIN s, InBlock(s, p, q) PROVE InBlock(request, at[p], at[q])
  <2>1. p < q /\ \A m \in (p + 1) .. q : s[m].role = "tool"
    BY <1>5 DEF InBlock, Unbroken
  <2>2. at[p] < at[q]
    BY <1>1, <1>2, <1>3, <2>1
  <2>3. ASSUME NEW m \in (at[p] + 1) .. at[q] PROVE request[m].role = "tool"
    <3>1. m \in DOMAIN request /\ m \in Nat /\ at[p] < m
      BY <1>1
    <3>2. CASE \E x \in DOMAIN Missing(s, p) : m = at[p] + x
      BY <1>2, <3>2
    <3>3. ASSUME NEW r \in DOMAIN s, p < r,
                 m = at[r] \/ \E x \in DOMAIN Missing(s, r) : m = at[r] + x
          PROVE  request[m].role = "tool"
      <4>1. r <= q
        <5>1. q < r => at[q] + Len(Missing(s, q)) < at[r]
          BY <1>3
        <5>2. at[r] <= m
          BY <1>1, <1>2, <3>3
        <5>. QED
          BY <1>1, <1>2, <5>1, <5>2
      <4>2. s[r].role = "tool"
        BY <1>1, <2>1, <3>3, <4>1
      <4>3. m = at[r]
        BY <1>2, <3>3, <4>2
      <4>. QED
        BY <1>1, <4>2, <4>3
    <3>. QED
      BY <3>1, <3>2, <3>3, PlaceBehind
  <2>. QED
    BY <1>1, <2>2, <2>3 DEF InBlock, Unbroken
<1>6. ASSUME NEW i \in DOMAIN request, InBlock(request, at[p], i)
      PROVE  \/ \E x \in DOMAIN Missing(s, p) : i = at[p] + x
             \/ \E q \in DOMAIN s : i = at[q] /\ InBlock(s, p, q)
  <2>1. at[p] < i /\ i \in Nat /\ \A m \in (at[p] + 1) .. i : request[m].role = "tool"
    BY <1>1, <1>6 DEF InBlock, Unbroken
  <2>2. ASSUME NEW q \in DOMAIN s, p < q, at[q] <= i PROVE InBlock(s, p, q)
    <3>1. ASSUME NEW m \in (p + 1) .. q PROVE s[m].role = "tool"
      <4>1. m \in DOMAIN s /\ p < m /\ m <= q
        BY <1>1, <2>2
      <4>2. at[p] < at[m] /\ at[m] <= at[q]
        <5>1. at[p] + Len(Missing(s, p)) < at[m]
          BY <1>3, <4>1
        <5>2. m = q \/ at[m] + Len(Missing(s, m)) < at[q]
          <6>1. m = q \/ m < q
            BY <1>1, <4>1
          <6>. QED
            BY <1>3, <4>1, <6>1
        <5>3. at[p] \in Nat /\ at[m] \in Nat /\ at[q] \in Nat
          BY <1>1, <4>1
        <5>4. Len(Missing(s, p)) \in Nat /\ Len(Missing(s, m)) \in Nat
          BY <1>2, <4>1
        <5>5. \A a, b, c, g, h \in Nat : a + g < b /\ (b = c \/ b + h < c) => a < b /\ b <= c
          OBVIOUS
        <5>6. m = q => at[m] = at[q]
          OBVIOUS
        <5>. QED
          BY <5>1, <5>2, <5>3, <5>4, <5>5, <5>6
      <4>3. at[m] \in (at[p] + 1) .. i
        BY <1>1, <2>1, <2>2, <4>1, <4>2
      <4>. QED
        BY <1>1, <2>1, <4>1, <4>3
    <3>. QED
      BY <2>2, <3>1 DEF InBlock, Unbroken
  <2>3. ASSUME NEW r \in DOMAIN s, p < r,
               i = at[r] \/ \E x \in DOMAIN Missing(s, r) : i = at[r] + x
        PROVE  i = at[r] /\ InBlock(s, p, r)
    <3>1. at[r] <= i
      BY <1>1, <1>2, <2>3
    <3>2. InBlock(s, p, r)
      BY <2>2, <2>3, <3>1
    <3>3. s[r].role = "tool"
      BY <1>1, <2>3, <3>2 DEF InBlock, Unbroken
    <3>. QED
      BY <1>2, <2>3, <3>2, <3>3
  <2>. QED
    BY <2>1, <2>3, PlaceBehind
<1>. QED
  BY <1>4, <1>5, <1>6

\* A history whose assistant messages announce each id once and have at most one
\* answer to it behind them, which stands in their block.
Pairable(s) ==
  \A p \in DOMAIN s : s[p].role = "assistant" =>
    \A k \in DOMAIN s[p].ids :
      /\ \A l \in DOMAIN s[p].ids : s[p].ids[k] = s[p].ids[l] => k = l
      /\ \A j \in DOMAIN s :
           p < j /\ s[j].role = "tool" /\ s[j].ids = <<s[p].ids[k]>> => InBlock(s, p, j)
      /\ \A i, j \in AnswersTo(s, p, s[p].ids[k]) : i = j

\* Patching gives such a history exactly one answer to each announced id.
LEMMA PatchedOnce ==
  ASSUME NEW U, NEW E, Patchable(E, U), NEW s \in Seq(E), Pairable(s)
  PROVE  AnsweredOnce(Patched(s))
<1> SUFFICES ASSUME NEW i \in DOMAIN Patched(s), Patched(s)[i].role = "assistant",
                    NEW k \in DOMAIN Patched(s)[i].ids
             PROVE  \E j \in DOMAIN Patched(s) :
                      AnswersTo(Patched(s), i, Patched(s)[i].ids[k]) = {j}
  BY DEF AnsweredOnce
<1>0. PICK at : Placed(s, Patched(s), at)
  BY PatchedFacts
<1>1. PICK request \in Seq(E) : request = Patched(s) /\ Placed(s, request, at)
  BY <1>0, PatchedFacts
<1>2. PICK p \in DOMAIN s : i = at[p] \/ \E x \in DOMAIN Missing(s, p) : i = at[p] + x
  BY <1>1 DEF Placed
<1>3. /\ Len(Missing(s, p)) \in Nat /\ DOMAIN Missing(s, p) = 1 .. Len(Missing(s, p))
      /\ \A x \in DOMAIN Missing(s, p) :
           /\ Missing(s, p)[x].role = "tool" /\ at[p] + x \in DOMAIN request
           /\ request[at[p] + x] = Missing(s, p)[x]
      /\ \A q \in DOMAIN s : at[q] \in Nat /\ at[q] \in DOMAIN request /\ request[at[q]] = s[q]
  <2>1. \A x \in DOMAIN Missing(s, p) :
          at[p] + x \in DOMAIN request /\ request[at[p] + x] = Missing(s, p)[x]
    BY <1>1 DEF Placed
  <2>2. \A q \in DOMAIN s : at[q] \in Nat /\ at[q] \in DOMAIN request /\ request[at[q]] = s[q]
    BY <1>1 DEF Placed
  <2>. QED
    BY <2>1, <2>2, GapFacts
<1>4. i = at[p] /\ s[p].role = "assistant" /\ request[i] = s[p]
  BY <1>1, <1>2, <1>3
<1>5. PICK id : id = s[p].ids[k]
  OBVIOUS
<1>6. k \in DOMAIN s[p].ids /\ s[p].ids \in Seq(U) /\ id \in U
  <2>1. s[p] \in E /\ k \in DOMAIN s[p].ids
    BY <1>1, <1>4
  <2>. QED
    BY <1>5, <2>1 DEF Patchable
<1>7. /\ \A l \in DOMAIN s[p].ids : id = s[p].ids[l] => k = l
      /\ \A j \in DOMAIN s : p < j /\ s[j].role = "tool" /\ s[j].ids = <<id>> => InBlock(s, p, j)
      /\ \A j, l \in AnswersTo(s, p, id) : l = j
  BY <1>4, <1>5, <1>6 DEF Pairable
<1>8. PICK gap : Gaps(s, p, gap)
  BY <1>4, MissingFacts
<1>9. /\ \A x \in DOMAIN Missing(s, p) : InBlock(request, at[p], at[p] + x)
      /\ \A q \in DOMAIN s : InBlock(s, p, q) => InBlock(request, at[p], at[q])
      /\ \A j \in DOMAIN request : InBlock(request, at[p], j) =>
           \/ \E x \in DOMAIN Missing(s, p) : j = at[p] + x
           \/ \E q \in DOMAIN s : j = at[q] /\ InBlock(s, p, q)
  BY <1>1, <1>4, BlockFacts
\* A synthetic answer to id is that to the k-th call, and there is one only where
\* the history has none.
<1>10. \A x \in DOMAIN Missing(s, p) : Missing(s, p)[x].ids = <<id>> =>
         x = gap[k] /\ ~AnsweredLater(s, p, id)
  <2>1. SUFFICES ASSUME NEW x \in DOMAIN Missing(s, p), Missing(s, p)[x].ids = <<id>>
                 PROVE  x = gap[k] /\ ~AnsweredLater(s, p, id)
    OBVIOUS
  <2>2. PICK l \in DOMAIN s[p].ids :
          /\ x = gap[l] /\ ~AnsweredLater(s, p, s[p].ids[l])
          /\ Missing(s, p)[x] = PatchedAnswer(s[p].ids[l])
    BY <1>8 DEF Gaps
  <2>3. s[p].ids[l] = id
    BY <2>1, <2>2 DEF PatchedAnswer
  <2>. QED
    BY <1>7, <2>2, <2>3
<1>11. \A j \in AnswersTo(request, i, id) :
         \/ j = at[p] + gap[k] /\ ~AnsweredLater(s, p, id)
         \/ \E q \in AnswersTo(s, p, id) : j = at[q]
  <2>1. SUFFICES ASSUME NEW j \in DOMAIN request, InBlock(request, at[p], j),
                        request[j].ids = <<id>>
                 PROVE  \/ j = at[p] + gap[k] /\ ~AnsweredLater(s, p, id)
                        \/ \E q \in AnswersTo(s, p, id) : j = at[q]
    BY <1>4 DEF AnswersTo
  <2>2. CASE \E x \in DOMAIN Missing(s, p) : j = at[p] + x
    BY <1>3, <1>10, <2>1, <2>2
  <2>3. ASSUME NEW q \in DOMAIN s, j = at[q], InBlock(s, p, q)
        PROVE  q \in AnswersTo(s, p, id)
    BY <1>3, <2>1, <2>3 DEF AnswersTo
  <2>. QED
    BY <1>9, <2>1, <2>2, <2>3
<1>12. \A q \in AnswersTo(s, p, id) : AnsweredLater(s, p, id)
  <2>1. SUFFICES ASSUME NEW q \in DOMAIN s, InBlock(s, p, q), s[q].ids = <<id>>
                 PROVE  AnsweredLater(s, p, id)
    BY DEF AnswersTo
  <2>2. p < q /\ q \in (p + 1) .. q /\ q \in (p + 1) .. Len(s)
    BY <2>1 DEF InBlock
  <2>3. s[q].role = "tool"
    BY <2>1, <2>2 DEF InBlock, Unbroken
  <2>. QED
    BY <2>1, <2>2, <2>3 DEF AnsweredLater
<1>13. CASE AnsweredLater(s, p, id)
  <2>1. PICK q \in (p + 1) .. Len(s) : s[q].role = "tool" /\ s[q].ids = <<id>>
    BY <1>13 DEF AnsweredLater
  <2>2. q \in DOMAIN s /\ p < q
    BY <2>1
  <2>3. InBlock(s, p, q) /\ q \in AnswersTo(s, p, id)
    BY <1>7, <2>1, <2>2 DEF AnswersTo
  <2>4. at[q] \in AnswersTo(request, i, id)
    BY <1>3, <1>4, <1>9, <2>1, <2>2, <2>3 DEF AnswersTo
  <2>5. \A j \in AnswersTo(request, i, id) : j = at[q]
    BY <1>7, <1>11, <1>13, <2>3
  <2>6. AnswersTo(request, i, id) = {at[q]}
    BY <2>4, <2>5
  <2>. QED
    BY <1>1, <1>3, <1>4, <1>5, <2>2, <2>6
<1>14. CASE ~AnsweredLater(s, p, id)
  <2>1. gap[k] \in DOMAIN Missing(s, p) /\ Missing(s, p)[gap[k]] = PatchedAnswer(id)
    BY <1>5, <1>6, <1>8, <1>14 DEF Gaps
  <2>2. at[p] + gap[k] \in AnswersTo(request, i, id)
    BY <1>3, <1>4, <1>9, <2>1 DEF AnswersTo, PatchedAnswer
  <2>3. \A j \in AnswersTo(request, i, id) : j = at[p] + gap[k]
    BY <1>11, <1>12, <1>14
  <2>4. AnswersTo(request, i, id) = {at[p] + gap[k]}
    BY <2>2, <2>3
  <2>. QED
    BY <1>1, <1>3, <1>4, <1>5, <2>1, <2>4
<1>. QED
  BY <1>13, <1>14

\* An answer that stands in the block of its announcement in the history stands in
\* it in the request.
LEMMA PatchedBehind ==
  ASSUME NEW U, NEW E, Patchable(E, U), NEW s \in Seq(E),
         NEW j \in DOMAIN Patched(s), Patched(s)[j].role = "tool", Patched(s)[j].call # 0
  PROVE  \E q \in DOMAIN s :
           /\ Patched(s)[j] = s[q]
           /\ \A a \in DOMAIN s : InBlock(s, a, q) =>
                \E i \in 1 .. (j - 1) : Patched(s)[i] = s[a] /\ InBlock(Patched(s), i, j)
<1>0. PICK at : Placed(s, Patched(s), at)
  BY PatchedFacts
<1>1. PICK request \in Seq(E) : request = Patched(s) /\ Placed(s, request, at)
  BY <1>0, PatchedFacts
<1>2. PICK q \in DOMAIN s : j = at[q] \/ \E x \in DOMAIN Missing(s, q) : j = at[q] + x
  BY <1>1 DEF Placed
<1>3. j = at[q] /\ request[j] = s[q]
  <2>1. ASSUME NEW x \in DOMAIN Missing(s, q), j = at[q] + x PROVE FALSE
    <3>1. s[q].role = "assistant" /\ request[j] = Missing(s, q)[x]
      BY <1>1, <2>1, GapFacts DEF Placed
    <3>2. PICK gap : Gaps(s, q, gap)
      BY <3>1, MissingFacts
    <3>3. Missing(s, q)[x].call = 0
      BY <3>2 DEF Gaps, PatchedAnswer
    <3>. QED
      BY <1>1, <3>1, <3>3
  <2>. QED
    BY <1>1, <1>2, <2>1 DEF Placed
<1>4. ASSUME NEW a \in DOMAIN s, InBlock(s, a, q)
      PROVE  \E i \in 1 .. (j - 1) : request[i] = s[a] /\ InBlock(request, i, j)
  <2>1. s[a].role = "assistant"
    BY <1>4 DEF InBlock, Unbroken
  <2>2. InBlock(request, at[a], at[q])
    BY <1>1, <1>4, <2>1, BlockFacts
  <2>3. at[a] \in DOMAIN request /\ request[at[a]] = s[a] /\ at[a] < j
    BY <1>1, <1>3, <2>2 DEF Placed, InBlock
  <2>4. at[a] \in 1 .. (j - 1)
    BY <1>1, <2>3
  <2>. QED
    BY <1>3, <2>2, <2>3, <2>4
<1>. QED
  BY <1>1, <1>3, <1>4

-----------------------------------------------------------------------------
(* What a step does to the history and to the ids in it.                     *)

\* What the calls were announced as stays, and so does the id of an announced one.
SaidKept ==
  /\ Len(calls') >= Len(calls)
  /\ \A n \in DOMAIN calls :
       /\ calls'[n].said = calls[n].said
       /\ calls[n].said \notin {NoId, BlankId} /\ calls[n].id = calls[n].said
            => calls'[n].id = calls[n].id

\* The new calls, from the queue of a batch.
Gained(batch) ==
  /\ batch \in Seq(Call) /\ calls' = calls \o batch
  /\ UNCHANGED <<cursor, pending, initialized>> /\ pc = "provider" /\ pc' = "batch"

LEMMA GainedFacts ==
  ASSUME TypeInv, NEW batch, Gained(batch)
  PROVE  /\ Len(calls') = Len(calls) + Len(batch)
         /\ Len(calls) \in Nat /\ Len(batch) \in Nat /\ Len(calls') \in Nat
         /\ DOMAIN calls = 1 .. Len(calls) /\ DOMAIN calls' = 1 .. Len(calls')
         /\ DOMAIN batch = 1 .. Len(batch)
         /\ \A n \in DOMAIN calls : calls'[n] = calls[n]
         /\ \A k \in DOMAIN batch : calls'[Len(calls) + k] = batch[k]
         /\ Settled = Len(calls) /\ Settled' = Len(calls)
<1>1. calls \in Seq(Call) /\ cursor = Len(calls) + 1 /\ pending = 0
  BY DEF TypeInv, TypeOK, ControlInv, Gained
<1>2. batch \in Seq(Call) /\ calls' = calls \o batch
  BY DEF Gained
<1>3. /\ Len(calls') = Len(calls) + Len(batch)
      /\ Len(calls) \in Nat /\ Len(batch) \in Nat /\ Len(calls') \in Nat
      /\ DOMAIN calls = 1 .. Len(calls) /\ DOMAIN calls' = 1 .. Len(calls')
      /\ DOMAIN batch = 1 .. Len(batch)
      /\ \A n \in DOMAIN calls : calls'[n] = calls[n]
      /\ \A k \in DOMAIN batch : calls'[Len(calls) + k] = batch[k]
  BY <1>1, <1>2
<1>4. Settled = Len(calls) /\ Settled' = Len(calls)
  BY <1>1, <1>3 DEF Gained, Settled, InFlight
<1>. QED
  BY <1>3, <1>4

\* A batch is announced by the message behind which it is executed.
AnnouncesBatch ==
  \E batch, ids :
    /\ Gained(batch)
    /\ ids \in Seq(Ids) /\ Len(ids) = Len(batch)
    /\ \A k \in DOMAIN batch : batch[k].said = ids[k] /\ batch[k].id = ids[k]
    /\ messages' = Append(messages, AssistantMessage(ids))

\* The calls of a skill are announced by nothing.
ExpandsSkill ==
  /\ \E batch : Gained(batch) /\ \A k \in DOMAIN batch : batch[k].said = NoId
  /\ UNCHANGED messages

\* The user's input, or the model's text, where no call is under way.
Speaks ==
  /\ \/ messages' = Append(messages, UserMessage)
     \/ initialized /\ messages' = Append(messages, AssistantMessage(<<>>))
  /\ UNCHANGED <<calls, initialized>> /\ Settled = Len(calls) /\ UNCHANGED Settled

\* The next call in line is answered under its id.
AnswersInTurn ==
  /\ \E status \in ResultStatus :
       messages' = Append(messages,
                     ToolMessage(Settled + 1, calls'[Settled + 1].id, status))
  /\ Settled' = Settled + 1 /\ Settled + 1 \in DOMAIN calls
  /\ Len(calls') = Len(calls) /\ UNCHANGED initialized

\* The history stays.
Listens ==
  /\ UNCHANGED <<messages, initialized>> /\ Settled' >= Settled
  /\ Len(calls') = Len(calls)

\* A first run, before any call is made.
BeginsRun ==
  /\ ~initialized /\ UNCHANGED calls /\ calls = <<>>
  /\ \/ UNCHANGED messages /\ initialized'
     \/ messages' = <<SystemMessage>> \o messages /\ initialized'
     \/ messages' = <<>>

LEMMA PopSaid ==
  ASSUME TypeOK, Pop
  PROVE  /\ calls'[cursor].said = calls[cursor].said
         /\ calls[cursor].said \notin {NoId, BlankId} /\ calls[cursor].id = calls[cursor].said
              => calls'[cursor].id = calls[cursor].id
<1>1. cursor \in 1 .. Len(calls) /\ calls[cursor] \in Call
  <2>1. cursor \in 1 .. Len(calls) /\ calls \in Seq(Call)
    BY DEF TypeOK, Pop
  <2>. QED
    BY <2>1, ElementOfSeq
<1>2. calls'[cursor] = NextCall
  BY PopFacts
<1>3. NextCall.said = calls[cursor].said
  BY <1>1 DEF NextCall, Executable, Call
<1>4. ~Unnamed(calls[cursor]) => NextCall.id = calls[cursor].id
  BY DEF NextCall, Executable
<1>. QED
  BY <1>2, <1>3, <1>4 DEF Unnamed

LEMMA ToolCallsGain ==
  ASSUME TypeInv, NEW batch \in Batches, ToolCalls(batch)
  PROVE  AnnouncesBatch /\ SaidKept
<1>. DEFINE ids == [i \in DOMAIN batch |-> SaidId(batch, i)]
            new == Announced(batch)
<1>1. batch \in Seq(RawCall) /\ DOMAIN batch = 1 .. Len(batch) /\ Len(batch) \in Nat
  BY BatchesAssumption
<1>2. new \in Seq(Call) /\ ids \in Seq(Ids)
  BY AnnouncedType DEF TypeInv
<1>3. DOMAIN new = DOMAIN batch /\ DOMAIN ids = DOMAIN batch
  BY DEF Announced
<1>4. \A k \in DOMAIN new : new[k].said = ids[k] /\ new[k].id = ids[k]
  BY <1>3 DEF Announced
<1>. HIDE DEF new, ids
<1>5. Len(ids) = Len(new)
  BY <1>1, <1>2, <1>3
<1>6. Gained(new) /\ messages' = Append(messages, AssistantMessage(ids))
  BY <1>2 DEF ToolCalls, Enqueue, InStep, Gained, new, ids
<1>7. SaidKept
  BY <1>6, GainedFacts DEF SaidKept
<1>. QED
  BY <1>2, <1>4, <1>5, <1>6, <1>7 DEF AnnouncesBatch

LEMMA SkillCallsGain ==
  ASSUME TypeInv, NEW batch \in SkillBatches, NEW id \in ProviderIds \cup {NoId},
         SkillCalls(batch, id)
  PROVE  ExpandsSkill /\ SaidKept
<1>1. Expanded(batch, id) \in Seq(Call)
  BY ExpandedType DEF TypeInv
<1>2. Gained(Expanded(batch, id)) /\ UNCHANGED messages
  BY <1>1 DEF SkillCalls, Enqueue, InStep, Gained
<1>3. \A k \in DOMAIN Expanded(batch, id) : Expanded(batch, id)[k].said = NoId
  BY DEF Expanded
<1>4. SaidKept
  BY <1>2, GainedFacts DEF SaidKept
<1>. QED
  BY <1>2, <1>3, <1>4 DEF ExpandsSkill

LEMMA SaidStep == TypeInv /\ [Next]_vars => SaidKept
<1> SUFFICES ASSUME TypeInv, [Next]_vars PROVE SaidKept
  OBVIOUS
<1>1. calls \in Seq(Call) /\ cursor \in 1 .. (Len(calls) + 1) /\ Len(calls) \in Nat
  BY DEF TypeInv, TypeOK
<1>2. CASE UNCHANGED calls
  BY <1>1, <1>2 DEF SaidKept
<1>3. CASE Pop
  <2>1. TypeOK
    BY DEF TypeInv
  <2>. QED
    BY <1>1, <1>3, <2>1, PopFacts, PopSaid DEF SaidKept
<1>4. ASSUME NEW batch \in Batches, ToolCalls(batch) PROVE SaidKept
  BY <1>4, ToolCallsGain
<1>5. ASSUME NEW batch \in SkillBatches, NEW id \in ProviderIds \cup {NoId},
             SkillCalls(batch, id)
      PROVE  SaidKept
  BY <1>5, SkillCallsGain
<1>6. CASE ExecuteStep
  BY <1>2, <1>3, <1>6 DEF ExecuteStep, RefuseCall, InterruptCall, UnknownTool,
     StartTool, FinishTool, BatchDone
<1>7. CASE ProviderStep
  BY <1>2, <1>4, <1>5, <1>7 DEF ProviderStep, StepMiddlewareFails, ProviderFails,
     SkillFails, FinalText, ContextOverflow, AssistantText, MaxStepsExceeded, EndRun
<1>8. CASE CallerStep
  BY <1>2, <1>8 DEF CallerStep, ResumeStep, PushUserInput, StartRun,
     RunWhilePending, ResumeNotFound, Approve, Reject, Edit, EditInvalid, Resolve, Drop
<1>9. CASE BeforeRun \/ BeforeRunFails \/ UNCHANGED vars
  BY <1>2, <1>9 DEF BeforeRun, BeforeRunFails, vars
<1>. QED
  BY <1>6, <1>7, <1>8, <1>9 DEF Next, RunnerStep

LEMMA RequestEffects ==
  ASSUME TypeInv, OwedInv, [Next]_vars
  PROVE  \/ AnnouncesBatch \/ ExpandsSkill \/ Speaks \/ AnswersInTurn
         \/ Listens \/ BeginsRun
<1>. USE DEF TypeInv
<1>0. /\ Settled \in Nat /\ cursor \in Nat \ {0} /\ Len(calls) \in Nat
      /\ cursor <= Len(calls) + 1 /\ calls \in Seq(Call) /\ DOMAIN calls = 1 .. Len(calls)
  BY SettledType DEF TypeOK
<1>1. CASE RefuseCall \/ UnknownTool
  <2>1. /\ Pop /\ messages' = Append(messages, ToolMessage(cursor, NextCall.id, "error"))
        /\ pc' = "batch" /\ pending' = 0 /\ UNCHANGED initialized
    BY <1>1 DEF RefuseCall, UnknownTool, PushResult, Pop, ControlInv
  <2>2. /\ Settled' = Settled + 1 /\ cursor = Settled + 1
        /\ calls'[cursor] = NextCall /\ Len(calls') = Len(calls) /\ cursor \in DOMAIN calls
    BY <1>0, <2>1, PopSettles, PopFacts DEF Settled, InFlight, Pop
  <2>. QED
    BY <2>1, <2>2 DEF AnswersInTurn, ResultStatus
<1>2. CASE InterruptCall \/ StartTool
  <2>1. /\ Pop /\ UNCHANGED <<messages, initialized>> /\ (pc' = "tool" \/ pending' # 0)
    BY <1>0, <1>2 DEF InterruptCall, StartTool, Pop
  <2>2. Len(calls') = Len(calls)
    BY <2>1, PopFacts
  <2>. QED
    BY <1>0, <2>1, <2>2, PopSettles DEF Listens, Settled, InFlight
<1>3. CASE FinishTool
  <2>1. /\ pc' = "batch" /\ pending = 0 /\ pending' = 0 /\ Settled = cursor - 2
        /\ UNCHANGED <<cursor, calls, initialized>> /\ cursor > 1
    BY <1>3 DEF FinishTool, ControlInv, Settled, InFlight
  <2>2. Settled' = Settled + 1 /\ cursor - 1 = Settled + 1 /\ Settled + 1 \in DOMAIN calls
    BY <1>0, <2>1 DEF Settled, InFlight
  <2>3. \E status \in ResultStatus :
          messages' = Append(messages, ToolMessage(cursor - 1, calls[cursor - 1].id, status))
    BY <1>3 DEF FinishTool, PushResult, ResultStatus
  <2>. QED
    BY <2>1, <2>2, <2>3 DEF AnswersInTurn
<1>4. CASE BatchDone
  BY <1>0, <1>4 DEF BatchDone, Listens, Settled, InFlight
<1>5. ASSUME \/ \E batch \in Batches : ToolCalls(batch)
             \/ \E batch \in SkillBatches, id \in ProviderIds \cup {NoId} :
                  SkillCalls(batch, id)
      PROVE  AnnouncesBatch \/ ExpandsSkill
  BY <1>5, ToolCallsGain, SkillCallsGain
<1>6. CASE \/ StepMiddlewareFails \/ ProviderFails \/ SkillFails \/ FinalText
           \/ ContextOverflow \/ MaxStepsExceeded
  <2>1. /\ UNCHANGED <<messages, calls, cursor, pending, initialized>> /\ pc = "provider"
        /\ pc' \in {"idle", "provider"}
    BY <1>6 DEF StepMiddlewareFails, ProviderFails, SkillFails, FinalText,
       ContextOverflow, MaxStepsExceeded, EndRun, InStep
  <2>. QED
    BY <1>0, <2>1 DEF Listens, Settled, InFlight
<1>7. CASE AssistantText \/ PushUserInput
  <2>1. /\ UNCHANGED <<calls, cursor, pending, pc, initialized>>
        /\ \/ pc = "provider" /\ messages' = Append(messages, AssistantMessage(<<>>))
           \/ pc = "idle" /\ pending = 0 /\ messages' = Append(messages, UserMessage)
    <3>1. CASE AssistantText
      BY <3>1 DEF AssistantText, InStep
    <3>2. CASE PushUserInput
      BY <3>2 DEF PushUserInput, loopVars
    <3>. QED
      BY <1>7, <3>1, <3>2
  <2>2. cursor = Len(calls) + 1 /\ pending = 0 /\ ~InFlight
    BY <2>1 DEF ControlInv, InFlight
  <2>3. Settled = Len(calls) /\ UNCHANGED Settled
    BY <1>0, <2>1, <2>2 DEF Settled, InFlight
  <2>4. pc = "provider" => initialized
    BY DEF OwedInv
  <2>. QED
    BY <2>1, <2>3, <2>4 DEF Speaks
<1>8. CASE StartRun \/ RunWhilePending \/ UNCHANGED vars
  <2>1. /\ UNCHANGED <<messages, calls, cursor, pending, initialized>>
        /\ pc' = pc \/ (pc = "idle" /\ pc' \in {"before_run", "provider"})
    BY <1>8 DEF StartRun, RunWhilePending, vars, loopVars
  <2>. QED
    BY <1>0, <2>1 DEF Listens, Settled, InFlight
<1>9. CASE BeforeRun \/ BeforeRunFails
  BY <1>9 DEF BeforeRun, BeforeRunFails, BeginsRun, OwedInv
<1>10. CASE Drop
  <2>1. pending = 0 /\ UNCHANGED <<pending, calls, initialized>> /\ cursor' = Len(calls) + 1
    BY <1>10 DEF Drop, ControlInv
  <2>2. CASE pc = "before_run"
    BY <1>10, <2>1, <2>2 DEF Drop, BeginsRun, OwedInv
  <2>3. CASE pc # "before_run"
    BY <1>0, <1>10, <2>1, <2>3 DEF Drop, Listens, Settled, InFlight
  <2>. QED
    BY <2>2, <2>3
<1>11. ASSUME NEW about \in asked,
              \/ ResumeNotFound(about)
              \/ \E args \in Args : EditInvalid(about, args)
       PROVE  Listens
  BY <1>0, <1>11 DEF ResumeNotFound, EditInvalid, loopVars, Listens, Settled, InFlight
<1>12. ASSUME NEW about \in asked,
              Approve(about) \/ Reject(about) \/ \E args \in Args : Edit(about, args)
       PROVE  Listens \/ AnswersInTurn
  <2>1. /\ pending # 0 /\ pending = Settled + 1 /\ pending' = 0
        /\ UNCHANGED <<cursor, calls, initialized>> /\ pending = cursor - 1
    <3>1. \E kind, args : Resolve(about, kind, args)
      BY <1>12 DEF Approve, Reject, Edit
    <3>2. pending # 0 /\ pending' = 0 /\ UNCHANGED <<cursor, calls, initialized>>
      BY <3>1 DEF Resolve, Matches
    <3>3. pending = cursor - 1
      BY <3>2 DEF TypeOK, ControlInv
    <3>4. pending = Settled + 1
      BY <1>0, <3>2, <3>3 DEF Settled
    <3>. QED
      BY <3>2, <3>3, <3>4
  <2>2. CASE /\ \E status \in ResultStatus :
                  PushResult(pending, calls[pending].id, status)
             /\ pc' = "batch"
    <3>1. Settled' = Settled + 1 /\ pending \in DOMAIN calls
      BY <1>0, <2>1, <2>2 DEF Settled, InFlight
    <3>. QED
      BY <2>1, <2>2, <3>1 DEF PushResult, AnswersInTurn
  <2>3. CASE UNCHANGED messages /\ pc' \in {"tool", "edited_tool"}
    BY <1>0, <2>1, <2>3 DEF Listens, Settled, InFlight
  <2>4. CASE Reject(about)
    BY <2>2, <2>4 DEF Reject, ResultStatus
  <2>5. ASSUME NEW args, NEW running \in {"tool", "edited_tool"},
               ExecutePending(args, running)
        PROVE  Listens \/ AnswersInTurn
    BY <2>2, <2>3, <2>5 DEF ExecutePending, ResultStatus
  <2>. QED
    BY <1>12, <2>4, <2>5 DEF Approve, Edit
<1>. QED
  BY <1>1, <1>2, <1>3, <1>4, <1>5, <1>6, <1>7, <1>8, <1>9, <1>10, <1>11, <1>12
     DEF Next, RunnerStep, ExecuteStep, ProviderStep, CallerStep, ResumeStep

\* What MessagesInv says of a message by itself, of the calls made so far.
Fits(m, made) ==
  /\ m.role = "tool" => m.ids = <<made[m.call].id>>
  /\ m.role = "assistant" =>
       /\ m.call > 0 /\ m.call + Len(m.ids) <= Len(made) + 1
       /\ \A k \in DOMAIN m.ids : m.ids[k] = made[m.call + k - 1].said

LEMMA MessagesFit ==
  MessagesInv <=>
    /\ \A i \in DOMAIN messages :
         (~initialized => messages[i].role = "user") /\ Fits(messages[i], calls)
    /\ \A a, b \in DOMAIN messages :
         a < b /\ messages[a].role = "assistant" /\ messages[b].role = "assistant"
           => messages[a].call + Len(messages[a].ids) <= messages[b].call
BY DEF MessagesInv, Fits

LEMMA SaidInvStep ==
  ASSUME TypeInv, OwedInv, SaidInv, [Next]_vars
  PROVE  SaidInv'
<1> SUFFICES ASSUME NEW n \in DOMAIN calls', calls'[n].said \notin {NoId, BlankId}
             PROVE  calls'[n].id = calls'[n].said
  BY DEF SaidInv
<1>1. SaidKept
  BY SaidStep
<1>2. CASE n \in DOMAIN calls
  BY <1>1, <1>2 DEF SaidKept, SaidInv
<1>3. ASSUME NEW batch, Gained(batch), n \notin DOMAIN calls
      PROVE  \E k \in DOMAIN batch : calls'[n] = batch[k]
  <2>1. n - Len(calls) \in DOMAIN batch /\ n = Len(calls) + (n - Len(calls))
    BY <1>3, GainedFacts
  <2>. QED
    BY <1>3, <2>1, GainedFacts
<1>4. CASE n \notin DOMAIN calls /\ AnnouncesBatch
  BY <1>3, <1>4 DEF AnnouncesBatch
<1>5. CASE n \notin DOMAIN calls /\ ExpandsSkill
  BY <1>3, <1>5 DEF ExpandsSkill
<1>6. CASE AnswersInTurn \/ Listens \/ Speaks \/ BeginsRun
  <2>1. Len(calls') = Len(calls)
    BY <1>6 DEF AnswersInTurn, Listens, Speaks, BeginsRun
  <2>2. calls \in Seq(Call) /\ calls' \in Seq(Call)
    BY NextType DEF TypeInv, TypeOK
  <2>3. DOMAIN calls' = DOMAIN calls
    BY <2>1, <2>2
  <2>. QED
    BY <1>2, <2>3
<1>. QED
  BY <1>2, <1>4, <1>5, <1>6, RequestEffects

\* A message that was true of the calls stays so.
LEMMA FitsKept ==
  ASSUME TypeInv, AnsweredInv, MessagesInv, [Next]_vars
  PROVE  \A i \in DOMAIN messages : Fits(messages[i], calls')
<1> SUFFICES ASSUME NEW i \in DOMAIN messages PROVE Fits(messages[i], calls')
  OBVIOUS
<1>0. Fits(messages[i], calls)
  BY MessagesFit
<1>1. /\ calls \in Seq(Call) /\ DOMAIN calls = 1 .. Len(calls) /\ Len(calls) \in Nat
      /\ calls' \in Seq(Call) /\ Len(calls') \in Nat
      /\ messages[i] \in Message /\ Settled \in Nat /\ cursor \in Nat /\ Settled <= cursor - 1
      /\ cursor <= Len(calls) + 1
  <2>1. TypeOK /\ TypeOK'
    BY NextType DEF TypeInv
  <2>2. messages[i] \in Message
    BY <2>1, ElementOfSeq DEF TypeOK
  <2>3. calls \in Seq(Call) /\ calls' \in Seq(Call) /\ cursor \in 1 .. (Len(calls) + 1)
    BY <2>1 DEF TypeOK
  <2>4. Settled <= cursor - 1
    BY <2>3, SettledType DEF Settled
  <2>. QED
    BY <2>2, <2>3, <2>4, SettledType
<1>2. SaidKept /\ CallsKept
  BY SaidStep, CallsStep
<1>3. ASSUME messages[i].role = "tool"
      PROVE  messages[i].ids = <<calls'[messages[i].call].id>>
  <2>1. messages[i].call \in 1 .. Settled
    BY <1>3 DEF AnsweredInv
  <2>2. messages[i].call \in 1 .. (cursor - 1)
    BY <1>1, <2>1
  <2>. QED
    BY <1>0, <1>2, <1>3, <2>2 DEF CallsKept, Fits
<1>4. ASSUME messages[i].role = "assistant"
      PROVE  /\ messages[i].call > 0
             /\ messages[i].call + Len(messages[i].ids) <= Len(calls') + 1
             /\ \A k \in DOMAIN messages[i].ids :
                  messages[i].ids[k] = calls'[messages[i].call + k - 1].said
  <2>1. /\ messages[i].call \in Nat /\ messages[i].ids \in Seq(Ids)
        /\ Len(messages[i].ids) \in Nat /\ DOMAIN messages[i].ids = 1 .. Len(messages[i].ids)
    BY <1>1 DEF Message
  <2>2. /\ messages[i].call > 0
        /\ messages[i].call + Len(messages[i].ids) <= Len(calls) + 1
        /\ \A k \in DOMAIN messages[i].ids :
             messages[i].ids[k] = calls[messages[i].call + k - 1].said
    BY <1>0, <1>4 DEF Fits
  <2>3. Len(calls') >= Len(calls) /\ \A n \in DOMAIN calls : calls'[n].said = calls[n].said
    BY <1>2 DEF SaidKept
  <2>4. \A k \in DOMAIN messages[i].ids : messages[i].call + k - 1 \in DOMAIN calls
    BY <1>1, <2>1, <2>2
  <2>. QED
    BY <1>1, <2>1, <2>2, <2>3, <2>4
<1>. QED
  BY <1>3, <1>4 DEF Fits

\* A message that comes to the end of the history.
LEMMA AppendedFits ==
  ASSUME TypeInv, NEW m \in Message, messages' = Append(messages, m), Fits(m, calls'),
         MessagesInv, \A i \in DOMAIN messages : Fits(messages[i], calls'),
         initialized' = initialized, m.role # "user" => initialized,
         m.role = "assistant" =>
           \A a \in DOMAIN messages : messages[a].role = "assistant" =>
             messages[a].call + Len(messages[a].ids) <= m.call
  PROVE  MessagesInv'
<1>0. messages \in Seq(Message)
  BY DEF TypeInv, TypeOK
<1>1. /\ DOMAIN messages' = DOMAIN messages \cup {Len(messages) + 1}
      /\ DOMAIN messages = 1 .. Len(messages) /\ Len(messages) \in Nat
      /\ \A i \in DOMAIN messages : messages'[i] = messages[i]
      /\ messages'[Len(messages) + 1] = m
  BY <1>0
<1>2. /\ \A i \in DOMAIN messages : ~initialized => messages[i].role = "user"
      /\ \A a, b \in DOMAIN messages :
           a < b /\ messages[a].role = "assistant" /\ messages[b].role = "assistant"
             => messages[a].call + Len(messages[a].ids) <= messages[b].call
  BY DEF MessagesInv
<1>3. \A i \in DOMAIN messages' :
        (~initialized' => messages'[i].role = "user") /\ Fits(messages'[i], calls')
  BY <1>1, <1>2
<1>4. ASSUME NEW a \in DOMAIN messages', NEW b \in DOMAIN messages', a < b,
             messages'[a].role = "assistant", messages'[b].role = "assistant"
      PROVE  messages'[a].call + Len(messages'[a].ids) <= messages'[b].call
  <2>1. a \in DOMAIN messages
    BY <1>1, <1>4
  <2>2. CASE b \in DOMAIN messages
    BY <1>1, <1>2, <1>4, <2>1, <2>2
  <2>3. CASE b = Len(messages) + 1
    BY <1>1, <1>4, <2>1, <2>3
  <2>. QED
    BY <1>1, <2>2, <2>3
<1>. QED
  BY <1>3, <1>4 DEF MessagesInv, Fits

LEMMA MessagesInvStep ==
  ASSUME TypeInv, OwedInv, AnsweredInv, MessagesInv, [Next]_vars
  PROVE  MessagesInv'
<1>0. \A i \in DOMAIN messages : Fits(messages[i], calls')
  BY FitsKept
<1>1. /\ messages \in Seq(Message) /\ calls \in Seq(Call) /\ Len(calls) \in Nat
      /\ DOMAIN calls = 1 .. Len(calls) /\ Settled \in Nat
      /\ messages' \in Seq(Message)
  <2>1. TypeOK /\ TypeOK'
    BY NextType DEF TypeInv
  <2>. QED
    BY <2>1, SettledType DEF TypeOK
<1>2. CASE Listens \/ ExpandsSkill
  <2>1. UNCHANGED <<messages, initialized>>
    BY <1>2 DEF Listens, ExpandsSkill, Gained
  <2>. QED
    BY <1>0, <2>1 DEF MessagesInv, Fits
<1>3. CASE BeginsRun
  <2>1. /\ ~initialized /\ calls' = <<>>
        /\ \A i \in DOMAIN messages : messages[i].role = "user"
    BY <1>3 DEF BeginsRun, MessagesInv
  <2>2. \A i \in DOMAIN messages' :
          /\ messages'[i].role \in {"user", "system"}
          /\ ~initialized' => messages'[i].role = "user"
    <3>1. CASE messages' = <<SystemMessage>> \o messages /\ initialized'
      <4>1. \A i \in DOMAIN messages' :
              \/ i = 1 /\ messages'[i] = SystemMessage
              \/ i - 1 \in DOMAIN messages /\ messages'[i] = messages[i - 1]
        BY <1>1, <3>1
      <4>. QED
        BY <2>1, <3>1, <4>1 DEF SystemMessage
    <3>. QED
      BY <1>3, <2>1, <3>1 DEF BeginsRun
  <2>. QED
    BY <2>2 DEF MessagesInv
<1>4. CASE AnnouncesBatch
  <2>1. PICK batch, ids :
          /\ Gained(batch) /\ ids \in Seq(Ids) /\ Len(ids) = Len(batch)
          /\ \A k \in DOMAIN batch : batch[k].said = ids[k] /\ batch[k].id = ids[k]
          /\ messages' = Append(messages, AssistantMessage(ids))
    BY <1>4 DEF AnnouncesBatch
  <2>2. /\ AssistantMessage(ids).role = "assistant" /\ AssistantMessage(ids).ids = ids
        /\ AssistantMessage(ids).call = Len(calls) + 1
        /\ AssistantMessage(ids) \in Message
    BY <1>1, <2>1 DEF AssistantMessage, Message
  <2>3. DOMAIN ids = DOMAIN batch
    BY <2>1, GainedFacts
  <2>4. Fits(AssistantMessage(ids), calls')
    <3>1. /\ Len(calls') = Len(calls) + Len(ids) /\ Len(ids) \in Nat
          /\ \A k \in DOMAIN ids : calls'[Len(calls) + k] = batch[k] /\ k \in Nat
      BY <2>1, <2>3, GainedFacts
    <3>2. \A k \in DOMAIN ids : Len(calls) + 1 + k - 1 = Len(calls) + k
      BY <1>1, <3>1
    <3>. QED
      BY <1>1, <2>1, <2>2, <2>3, <3>1, <3>2 DEF Fits
  <2>5. initialized /\ initialized' = initialized
    BY <2>1 DEF Gained, OwedInv
  <2>6. \A a \in DOMAIN messages : messages[a].role = "assistant" =>
          messages[a].call + Len(messages[a].ids) <= Len(calls) + 1
    BY DEF MessagesInv
  <2>. QED
    BY <1>0, <2>1, <2>2, <2>4, <2>5, <2>6, AppendedFits
<1>5. CASE Speaks
  <2>1. ASSUME messages' = Append(messages, UserMessage) PROVE MessagesInv'
    <3>1. UserMessage \in Message /\ UserMessage.role = "user"
      BY DEF UserMessage, Message
    <3>2. Fits(UserMessage, calls') /\ initialized' = initialized
      BY <1>5, <3>1 DEF Fits, Speaks
    <3>. QED
      BY <1>0, <2>1, <3>1, <3>2, AppendedFits
  <2>2. ASSUME initialized, messages' = Append(messages, AssistantMessage(<<>>))
        PROVE  MessagesInv'
    <3>1. /\ AssistantMessage(<<>>).role = "assistant" /\ AssistantMessage(<<>>).ids = <<>>
          /\ AssistantMessage(<<>>).call = Len(calls) + 1
          /\ AssistantMessage(<<>>) \in Message
      BY <1>1 DEF AssistantMessage, Message
    <3>2. Fits(AssistantMessage(<<>>), calls') /\ initialized' = initialized
      BY <1>1, <1>5, <3>1 DEF Fits, Speaks
    <3>3. \A a \in DOMAIN messages : messages[a].role = "assistant" =>
            messages[a].call + Len(messages[a].ids) <= Len(calls) + 1
      BY DEF MessagesInv
    <3>. QED
      BY <1>0, <2>2, <3>1, <3>2, <3>3, AppendedFits
  <2>. QED
    BY <1>5, <2>1, <2>2 DEF Speaks
<1>6. CASE AnswersInTurn
  <2>1. PICK status \in ResultStatus :
          messages' = Append(messages,
                        ToolMessage(Settled + 1, calls'[Settled + 1].id, status))
    BY <1>6 DEF AnswersInTurn
  <2>. DEFINE m == ToolMessage(Settled + 1, calls'[Settled + 1].id, status)
  <2>2. m.role = "tool" /\ m.ids = <<calls'[m.call].id>>
    BY DEF ToolMessage
  <2>3. m \in Message
    <3>1. Len(messages') \in DOMAIN messages' /\ messages'[Len(messages')] = m
      BY <1>1, <2>1
    <3>. QED
      BY <1>1, <3>1, ElementOfSeq
  <2>4. Fits(m, calls')
    BY <2>2 DEF Fits
  <2>5. initialized /\ initialized' = initialized
    BY <1>1, <1>6 DEF AnswersInTurn, OwedInv
  <2>. HIDE DEF m
  <2>. QED
    BY <1>0, <2>1, <2>2, <2>3, <2>4, <2>5, AppendedFits DEF m
<1>. QED
  BY <1>2, <1>3, <1>4, <1>5, <1>6, RequestEffects

\* An assistant message keeps its block when the history grows, and a tool message
\* at the end goes on with the last one.
LEMMA BlockGrows ==
  ASSUME messages \in Seq(Message), NEW m, messages' = Append(messages, m)
  PROVE  \A n : \A a \in DOMAIN messages : Announces(a, n) =>
           /\ a \in DOMAIN messages' /\ Announces(a, n)'
           /\ \A j \in DOMAIN messages :
                InBlock(messages, a, j) => InBlock(messages', a, j)
           /\ m.role = "tool" /\ Unbroken(messages, a, Len(messages)) =>
                /\ Unbroken(messages', a, Len(messages) + 1)
                /\ InBlock(messages', a, Len(messages) + 1)
<1>1. /\ DOMAIN messages' = DOMAIN messages \cup {Len(messages) + 1}
      /\ DOMAIN messages = 1 .. Len(messages) /\ Len(messages) \in Nat
      /\ \A i \in DOMAIN messages : messages'[i] = messages[i]
      /\ messages'[Len(messages) + 1] = m
  OBVIOUS
<1> SUFFICES ASSUME NEW n, NEW a \in DOMAIN messages, Announces(a, n)
             PROVE  /\ a \in DOMAIN messages' /\ Announces(a, n)'
                    /\ \A j \in DOMAIN messages :
                         InBlock(messages, a, j) => InBlock(messages', a, j)
                    /\ m.role = "tool" /\ Unbroken(messages, a, Len(messages)) =>
                         /\ Unbroken(messages', a, Len(messages) + 1)
                         /\ InBlock(messages', a, Len(messages) + 1)
  OBVIOUS
<1>2. a \in DOMAIN messages' /\ Announces(a, n)' /\ messages'[a].role = "assistant"
  BY <1>1 DEF Announces
<1>3. ASSUME NEW j \in DOMAIN messages, InBlock(messages, a, j)
      PROVE  InBlock(messages', a, j)
  <2>1. \A k \in (a + 1) .. j : k \in DOMAIN messages
    BY <1>1
  <2>. QED
    BY <1>1, <1>2, <1>3, <2>1 DEF InBlock, Unbroken
<1>4. ASSUME m.role = "tool", Unbroken(messages, a, Len(messages))
      PROVE  Unbroken(messages', a, Len(messages) + 1)
  <2>1. \A k \in (a + 1) .. (Len(messages) + 1) :
          k = Len(messages) + 1 \/ (k \in (a + 1) .. Len(messages) /\ k \in DOMAIN messages)
    BY <1>1
  <2>. QED
    BY <1>1, <1>2, <1>4, <2>1 DEF Unbroken
<1>5. a < Len(messages) + 1
  BY <1>1
<1>. QED
  BY <1>2, <1>3, <1>4, <1>5 DEF InBlock

LEMMA BlockInvStep ==
  ASSUME TypeInv, OwedInv, AnsweredInv, BlockInv, [Next]_vars
  PROVE  BlockInv'
<1>0. /\ messages \in Seq(Message) /\ calls \in Seq(Call) /\ Len(calls) \in Nat
      /\ calls' \in Seq(Call)
      /\ DOMAIN calls = 1 .. Len(calls) /\ Settled \in Nat /\ Settled' \in Nat
      /\ DOMAIN messages = 1 .. Len(messages) /\ Len(messages) \in Nat
  <2>1. TypeOK /\ TypeOK'
    BY NextType DEF TypeInv
  <2>. QED
    BY <2>1, SettledType, PositionsNext DEF TypeOK
<1>1. \A n \in DOMAIN calls : calls'[n].said = calls[n].said
  BY SaidStep DEF SaidKept
<1>2. Len(calls') = Len(calls) => DOMAIN calls' = DOMAIN calls
  BY <1>0
<1>3. CASE Listens
  <2>1. UNCHANGED messages /\ Settled' >= Settled /\ DOMAIN calls' = DOMAIN calls
    BY <1>2, <1>3 DEF Listens
  <2>2. \A n \in DOMAIN calls : n > Settled' => n > Settled
    BY <1>0, <2>1
  <2>. QED
    BY <1>1, <2>1, <2>2 DEF BlockInv, Answers, Announces
<1>4. CASE ExpandsSkill
  <2>1. PICK batch : Gained(batch) /\ \A k \in DOMAIN batch : batch[k].said = NoId
    BY <1>4 DEF ExpandsSkill
  <2>2. UNCHANGED messages
    BY <1>4 DEF ExpandsSkill
  <2>3. ASSUME NEW n \in DOMAIN calls', calls'[n].said # NoId
        PROVE  n \in DOMAIN calls /\ ~(n > Settled')
    <3>1. /\ n \in 1 .. (Len(calls) + Len(batch)) /\ Len(batch) \in Nat
          /\ DOMAIN batch = 1 .. Len(batch) /\ Settled' = Len(calls)
          /\ \A k \in DOMAIN batch : calls'[Len(calls) + k] = batch[k]
      BY <2>1, GainedFacts
    <3>2. ASSUME n > Len(calls) PROVE FALSE
      <4>1. n - Len(calls) \in DOMAIN batch /\ n = Len(calls) + (n - Len(calls))
        BY <1>0, <3>1, <3>2
      <4>. QED
        BY <2>1, <2>3, <3>1, <4>1
    <3>. QED
      BY <1>0, <3>1, <3>2
  <2>. QED
    BY <1>1, <2>2, <2>3 DEF BlockInv, Answers, Announces
<1>5. CASE BeginsRun
  <2>1. DOMAIN calls' = {}
    BY <1>5 DEF BeginsRun
  <2>. QED
    BY <2>1 DEF BlockInv
\* The history grows by m: the old answers stay in their blocks.
<1>6. ASSUME NEW m, messages' = Append(messages, m),
             NEW n \in DOMAIN calls, calls'[n].said # NoId,
             NEW j \in Answers(n)', j \in DOMAIN messages
      PROVE  \E a \in DOMAIN messages' : Announces(a, n)' /\ InBlock(messages', a, j)
  <2>1. j \in Answers(n)
    BY <1>0, <1>6 DEF Answers
  <2>2. PICK a \in DOMAIN messages : Announces(a, n) /\ InBlock(messages, a, j)
    BY <1>1, <1>6, <2>1 DEF BlockInv
  <2>. QED
    BY <1>0, <1>6, <2>2, BlockGrows
<1>7. ASSUME NEW m, messages' = Append(messages, m), NEW n, NEW j \in Answers(n)'
      PROVE  /\ j \in DOMAIN messages'
             /\ j \in DOMAIN messages \/ (j = Len(messages) + 1 /\ m.role = "tool" /\ m.call = n)
  BY <1>0, <1>7 DEF Answers
<1>8. CASE Speaks
  <2>1. PICK m : messages' = Append(messages, m) /\ m.role # "tool"
    BY <1>8 DEF Speaks, UserMessage, AssistantMessage
  <2>2. DOMAIN calls' = DOMAIN calls /\ \A n \in DOMAIN calls : ~(n > Settled')
    BY <1>0, <1>8 DEF Speaks
  <2>3. \A n : \A j \in Answers(n)' : j \in DOMAIN messages
    BY <1>7, <2>1
  <2>. QED
    BY <1>6, <2>1, <2>2, <2>3 DEF BlockInv
<1>9. CASE AnnouncesBatch
  <2>1. PICK batch, ids :
          /\ Gained(batch) /\ ids \in Seq(Ids) /\ Len(ids) = Len(batch)
          /\ messages' = Append(messages, AssistantMessage(ids))
    BY <1>9 DEF AnnouncesBatch
  <2>2. PICK m : /\ m = AssistantMessage(ids) /\ messages' = Append(messages, m)
                 /\ m.role = "assistant" /\ m.ids = ids /\ m.call = Len(calls) + 1
    BY <2>1 DEF AssistantMessage
  <2>3. \A n : \A j \in Answers(n)' : j \in DOMAIN messages
    BY <1>7, <2>2
  <2>4. ASSUME NEW n \in DOMAIN calls, calls'[n].said # NoId
        PROVE  /\ \A j \in Answers(n)' :
                    \E a \in DOMAIN messages' : Announces(a, n)' /\ InBlock(messages', a, j)
               /\ ~(n > Settled')
    <3>1. Settled' = Len(calls)
      BY <2>1, GainedFacts
    <3>2. ~(n > Settled')
      BY <1>0, <3>1
    <3>. QED
      BY <1>6, <2>2, <2>3, <2>4, <3>2
  <2>5. ASSUME NEW n \in DOMAIN calls', n \notin DOMAIN calls
        PROVE  /\ Answers(n)' = {}
               /\ \E a \in DOMAIN messages' :
                    Announces(a, n)' /\ Unbroken(messages', a, Len(messages'))
    <3>1. Len(calls') = Len(calls) + Len(ids) /\ Len(ids) \in Nat /\ DOMAIN calls' = 1 .. Len(calls')
          /\ Settled = Len(calls)
      BY <2>1, GainedFacts
    <3>2. n \in (Len(calls) + 1) .. (Len(calls) + Len(ids))
      BY <1>0, <2>5, <3>1
    <3>3. ASSUME NEW j \in Answers(n)' PROVE FALSE
      <4>1. j \in DOMAIN messages /\ messages'[j] = messages[j]
        BY <1>0, <2>2, <2>3, <3>3
      <4>2. messages[j].role = "tool" /\ messages[j].call = n
        BY <3>3, <4>1 DEF Answers
      <4>. QED
        BY <1>0, <3>1, <3>2, <4>1, <4>2 DEF AnsweredInv
    <3>4. /\ Len(messages') = Len(messages) + 1 /\ Len(messages) + 1 \in DOMAIN messages'
          /\ messages'[Len(messages) + 1] = m
      BY <1>0, <2>2
    <3>5. \A a : a = Len(messages) + 1 => Announces(a, n)'
      BY <1>0, <2>2, <3>1, <3>2, <3>4 DEF Announces
    <3>6. Unbroken(messages', Len(messages) + 1, Len(messages'))
      BY <1>0, <2>2, <3>4 DEF Unbroken
    <3>. QED
      BY <3>3, <3>4, <3>5, <3>6
  <2>. QED
    BY <2>4, <2>5 DEF BlockInv
<1>10. CASE AnswersInTurn
  <2>1. PICK m : /\ messages' = Append(messages, m) /\ m.role = "tool"
                 /\ m.call = Settled + 1
    BY <1>10 DEF AnswersInTurn, ToolMessage
  <2>2. /\ Settled' = Settled + 1 /\ DOMAIN calls' = DOMAIN calls
        /\ Len(messages') = Len(messages) + 1
    BY <1>0, <1>2, <1>10, <2>1 DEF AnswersInTurn
  <2>3. ASSUME NEW n \in DOMAIN calls, calls'[n].said # NoId, n > Settled
        PROVE  \E a \in DOMAIN messages' :
                 /\ Announces(a, n)' /\ InBlock(messages', a, Len(messages) + 1)
                 /\ Unbroken(messages', a, Len(messages) + 1)
    <3>1. PICK a \in DOMAIN messages : Announces(a, n) /\ Unbroken(messages, a, Len(messages))
      BY <1>1, <2>3 DEF BlockInv
    <3>. QED
      BY <1>0, <2>1, <3>1, BlockGrows
  <2>4. ASSUME NEW n \in DOMAIN calls, calls'[n].said # NoId, NEW j \in Answers(n)'
        PROVE  \E a \in DOMAIN messages' : Announces(a, n)' /\ InBlock(messages', a, j)
    <3>1. CASE j \in DOMAIN messages
      BY <1>6, <2>1, <2>4, <3>1
    <3>2. CASE j = Len(messages) + 1 /\ n = Settled + 1
      BY <1>0, <2>3, <2>4, <3>2
    <3>. QED
      BY <1>7, <2>1, <2>4, <3>1, <3>2
  <2>5. ASSUME NEW n \in DOMAIN calls, calls'[n].said # NoId, n > Settled'
        PROVE  \E a \in DOMAIN messages' :
                 Announces(a, n)' /\ Unbroken(messages', a, Len(messages'))
    <3>1. n > Settled
      BY <1>0, <2>2, <2>5
    <3>. QED
      BY <2>2, <2>3, <2>5, <3>1
  <2>. QED
    BY <2>2, <2>4, <2>5 DEF BlockInv
<1>. QED
  BY <1>3, <1>4, <1>5, <1>8, <1>9, <1>10, RequestEffects

-----------------------------------------------------------------------------
(* The request is paired. *)

LEMMA RequestStep ==
  TypeInv /\ OwedInv /\ AnsweredInv /\ RequestInv /\ [Next]_vars => RequestInv'
BY SaidInvStep, MessagesInvStep, BlockInvStep DEF RequestInv

\* The history when the provider is asked and ids tell calls apart: an answer
\* belongs to the one call whose id it bears, and that call has one announcement.
LEMMA HistoryPaired ==
  ASSUME TypeInv, AnsweredInv, RequestInv, pc = "provider", DistinctIds
  PROVE  /\ Pairable(messages)
         /\ \A q \in DOMAIN messages :
              messages[q].role = "tool" /\ calls[messages[q].call].said # NoId =>
                \E a \in DOMAIN messages :
                  /\ InBlock(messages, a, q)
                  /\ \E k \in DOMAIN messages[a].ids :
                       messages[q].ids = <<messages[a].ids[k]>>
<1>1. /\ messages \in Seq(Message) /\ calls \in Seq(Call) /\ Len(calls) \in Nat
      /\ DOMAIN calls = 1 .. Len(calls) /\ Settled = Len(calls)
      /\ DOMAIN messages = 1 .. Len(messages)
  <2>1. cursor = Len(calls) + 1 /\ pending = 0
    BY DEF TypeInv, TypeOK, ControlInv
  <2>. QED
    BY <2>1, SettledType DEF TypeInv, TypeOK, Settled, InFlight
<1>2. SaidInv /\ MessagesInv /\ BlockInv
  BY DEF RequestInv
<1>3. \A i \in DOMAIN messages :
        /\ messages[i].call \in Nat /\ messages[i].ids \in Seq(Ids)
        /\ Len(messages[i].ids) \in Nat /\ DOMAIN messages[i].ids = 1 .. Len(messages[i].ids)
  <2>1. \A i \in DOMAIN messages : messages[i] \in Message
    BY <1>1
  <2>. QED
    BY <2>1 DEF Message
\* Answers belong to the call whose id they bear.
<1>4. ASSUME NEW q \in DOMAIN messages, messages[q].role = "tool"
      PROVE  /\ messages[q].call \in DOMAIN calls /\ q \in Answers(messages[q].call)
             /\ messages[q].ids = <<calls[messages[q].call].id>>
  <2>1. messages[q].call \in DOMAIN calls
    BY <1>1, <1>4 DEF AnsweredInv
  <2>2. messages[q].ids = <<calls[messages[q].call].id>>
    BY <1>2, <1>4 DEF MessagesInv
  <2>. QED
    BY <1>4, <2>1, <2>2 DEF Answers
\* What an assistant message announces.
<1>5. ASSUME NEW a \in DOMAIN messages, messages[a].role = "assistant",
             NEW k \in DOMAIN messages[a].ids
      PROVE  \E n \in DOMAIN calls :
               /\ n = messages[a].call + k - 1 /\ Announces(a, n)
               /\ messages[a].ids[k] = calls[n].said /\ calls[n].id = calls[n].said
               /\ calls[n].said # NoId
  <2>1. /\ messages[a].call > 0 /\ messages[a].call + Len(messages[a].ids) <= Len(calls) + 1
        /\ messages[a].ids[k] = calls[messages[a].call + k - 1].said
    BY <1>2, <1>5 DEF MessagesInv
  <2>2. PICK n \in Nat : n = messages[a].call + k - 1
    BY <1>3, <2>1
  <2>3. n \in DOMAIN calls /\ Announces(a, n)
    <3>1. /\ messages[a].call \in Nat /\ Len(messages[a].ids) \in Nat
          /\ k \in 1 .. Len(messages[a].ids)
      BY <1>3
    <3>2. n \in messages[a].call .. (messages[a].call + Len(messages[a].ids) - 1)
      BY <2>2, <3>1
    <3>3. n \in 1 .. Len(calls)
      BY <1>1, <2>1, <2>2, <3>1
    <3>. QED
      BY <1>1, <1>5, <3>2, <3>3 DEF Announces
  <2>4. messages[a].ids[k] \in Ids
    BY <1>3
  <2>5. calls[n].said \notin {NoId, BlankId}
    BY <2>1, <2>2, <2>3, <2>4, IdsAssumption DEF DistinctIds
  <2>. QED
    BY <1>2, <2>1, <2>2, <2>3, <2>5 DEF SaidInv
<1>6. ASSUME NEW n, NEW a \in DOMAIN messages, NEW b \in DOMAIN messages,
             Announces(a, n), Announces(b, n), a < b
      PROVE  FALSE
  <2>1. messages[a].call + Len(messages[a].ids) <= messages[b].call
    BY <1>2, <1>6 DEF MessagesInv, Announces
  <2>2. n \in Nat /\ n < messages[a].call + Len(messages[a].ids) /\ messages[b].call <= n
    BY <1>3, <1>6 DEF Announces
  <2>. QED
    BY <1>3, <2>1, <2>2
<1>7. \A n : \A a, b \in DOMAIN messages : Announces(a, n) /\ Announces(b, n) => a = b
  BY <1>1, <1>6
<1>8. Pairable(messages)
  <2>1. SUFFICES ASSUME NEW p \in DOMAIN messages, messages[p].role = "assistant",
                        NEW k \in DOMAIN messages[p].ids
                 PROVE  /\ \A l \in DOMAIN messages[p].ids :
                             messages[p].ids[k] = messages[p].ids[l] => k = l
                        /\ \A j \in DOMAIN messages :
                             /\ p < j /\ messages[j].role = "tool"
                             /\ messages[j].ids = <<messages[p].ids[k]>>
                             => InBlock(messages, p, j)
                        /\ \A i, j \in AnswersTo(messages, p, messages[p].ids[k]) : i = j
    BY DEF Pairable
  <2>2. PICK n \in DOMAIN calls :
          /\ n = messages[p].call + k - 1 /\ Announces(p, n)
          /\ messages[p].ids[k] = calls[n].id /\ calls[n].said # NoId
    BY <1>5, <2>1
  <2>3. ASSUME NEW j \in DOMAIN messages, messages[j].role = "tool",
               messages[j].ids = <<messages[p].ids[k]>>
        PROVE  messages[j].call = n /\ j \in Answers(n)
    BY <1>4, <2>2, <2>3 DEF DistinctIds
  <2>4. ASSUME NEW l \in DOMAIN messages[p].ids, messages[p].ids[k] = messages[p].ids[l]
        PROVE  k = l
    <3>1. PICK o \in DOMAIN calls :
            o = messages[p].call + l - 1 /\ messages[p].ids[l] = calls[o].id
      BY <1>5, <2>1
    <3>2. o = n
      BY <2>2, <2>4, <3>1 DEF DistinctIds
    <3>. QED
      BY <1>3, <2>2, <3>1, <3>2
  <2>5. ASSUME NEW j \in DOMAIN messages, messages[j].role = "tool",
               messages[j].ids = <<messages[p].ids[k]>>
        PROVE  InBlock(messages, p, j)
    <3>1. PICK a \in DOMAIN messages : Announces(a, n) /\ InBlock(messages, a, j)
      BY <1>2, <2>2, <2>3, <2>5 DEF BlockInv
    <3>. QED
      BY <1>7, <2>2, <3>1
  <2>6. ASSUME NEW i \in AnswersTo(messages, p, messages[p].ids[k]),
               NEW j \in AnswersTo(messages, p, messages[p].ids[k])
        PROVE  i = j
    <3>1. \A x \in AnswersTo(messages, p, messages[p].ids[k]) :
            /\ x \in DOMAIN messages /\ messages[x].role = "tool"
            /\ messages[x].ids = <<messages[p].ids[k]>>
      <4>1. \A x \in DOMAIN messages : InBlock(messages, p, x) => x \in (p + 1) .. x
        BY <1>1 DEF InBlock
      <4>. QED
        BY <4>1 DEF AnswersTo, InBlock, Unbroken
    <3>2. messages[i].call = n /\ messages[j].call = n
      BY <2>3, <2>6, <3>1
    <3>3. i \in DOMAIN messages /\ j \in DOMAIN messages
          /\ messages[i].role = "tool" /\ messages[j].role = "tool"
      BY <2>6, <3>1
    <3>4. ~(i < j) /\ ~(j < i)
      BY <1>1, <3>2, <3>3 DEF AnsweredInv, AnsweredInOrder
    <3>. QED
      BY <1>1, <3>3, <3>4
  <2>. QED
    BY <2>4, <2>5, <2>6
<1>9. ASSUME NEW q \in DOMAIN messages, messages[q].role = "tool",
             calls[messages[q].call].said # NoId
      PROVE  \E a \in DOMAIN messages :
               /\ InBlock(messages, a, q)
               /\ \E k \in DOMAIN messages[a].ids :
                    messages[q].ids = <<messages[a].ids[k]>>
  <2>1. PICK n \in DOMAIN calls : /\ n = messages[q].call /\ q \in Answers(n)
                                  /\ messages[q].ids = <<calls[n].id>>
    BY <1>4, <1>9
  <2>2. PICK a \in DOMAIN messages : Announces(a, n) /\ InBlock(messages, a, q)
    BY <1>2, <1>9, <2>1 DEF BlockInv
  <2>3. PICK k \in DOMAIN messages[a].ids : n = messages[a].call + k - 1
    <3>1. n - messages[a].call + 1 \in DOMAIN messages[a].ids
          /\ n = messages[a].call + (n - messages[a].call + 1) - 1
      BY <1>3, <2>2 DEF Announces
    <3>. QED
      BY <3>1
  <2>4. messages[a].ids[k] = calls[n].id
    BY <1>5, <2>2, <2>3 DEF Announces
  <2>. QED
    BY <2>1, <2>2, <2>4
<1>. QED
  BY <1>8, <1>9

LEMMA RequestIsPaired ==
  ASSUME TypeInv, AnsweredInv, RequestInv
  PROVE  RequestsPaired
<1> SUFFICES ASSUME pc = "provider", DistinctIds
             PROVE  /\ AnsweredOnce(Request)
                    /\ \A j \in DOMAIN Request : AnswersModel(Request[j]) =>
                         \E i \in 1 .. (j - 1) :
                           /\ InBlock(Request, i, j)
                           /\ \E k \in DOMAIN Request[i].ids :
                                Request[j].ids = <<Request[i].ids[k]>>
  BY DEF RequestsPaired
<1>. DEFINE E == Message \cup {PatchedAnswer(id) : id \in Ids}
<1>1. Patchable(E, Ids)
  <2>1. \A m \in Message : m.ids \in Seq(Ids)
    BY DEF Message
  <2>2. \A id \in Ids : PatchedAnswer(id).ids \in Seq(Ids)
    BY DEF PatchedAnswer
  <2>. QED
    BY <2>1, <2>2 DEF Patchable
<1>2. messages \in Seq(E)
  BY DEF TypeInv, TypeOK
<1>. HIDE DEF E
<1>3. Pairable(messages)
  BY HistoryPaired
<1>4. AnsweredOnce(Request)
  BY <1>1, <1>2, <1>3, PatchedOnce DEF Request
<1>5. ASSUME NEW j \in DOMAIN Request, AnswersModel(Request[j])
      PROVE  \E i \in 1 .. (j - 1) :
               /\ InBlock(Request, i, j)
               /\ \E k \in DOMAIN Request[i].ids : Request[j].ids = <<Request[i].ids[k]>>
  <2>1. /\ Request[j].role = "tool" /\ Request[j].call # 0
        /\ calls[Request[j].call].said # NoId
    BY <1>5 DEF AnswersModel
  <2>2. PICK q \in DOMAIN messages :
          /\ Request[j] = messages[q]
          /\ \A a \in DOMAIN messages : InBlock(messages, a, q) =>
               \E i \in 1 .. (j - 1) : Request[i] = messages[a] /\ InBlock(Request, i, j)
    BY <1>1, <1>2, <2>1, PatchedBehind DEF Request
  <2>3. PICK a \in DOMAIN messages :
          /\ InBlock(messages, a, q)
          /\ \E k \in DOMAIN messages[a].ids : messages[q].ids = <<messages[a].ids[k]>>
    BY <2>1, <2>2, HistoryPaired
  <2>4. PICK i \in 1 .. (j - 1) : Request[i] = messages[a] /\ InBlock(Request, i, j)
    BY <2>2, <2>3
  <2>. QED
    BY <2>2, <2>3, <2>4
<1>. QED
  BY <1>4, <1>5

\* Whenever the provider is asked, and ids tell calls apart, the request is one it
\* takes: the history's answers stand in the blocks of their announcements, which
\* end the history until they are complete or given up, and patching fills each
\* block up where it begins. This holds whatever was interrupted, rejected,
\* resumed or dropped.
THEOREM RequestsCorrect == Spec => []RequestsPaired
<1>1. Init => OwedInv /\ AnsweredInv /\ RequestInv
  BY DEF Init, OwedInv, Settled, InFlight, AnsweredInv, AnsweredInOrder,
     RequestInv, SaidInv, MessagesInv, BlockInv
<1>2. Spec => [](TypeInv /\ OwedInv /\ AnsweredInv /\ RequestInv)
  BY <1>1, InitialType, NextType, OwedStep, AnsweredStep, RequestStep, PTL DEF Spec
<1>3. TypeInv /\ AnsweredInv /\ RequestInv => RequestsPaired
  BY RequestIsPaired
<1>. QED
  BY <1>2, <1>3, PTL

-----------------------------------------------------------------------------
(* The runner is a session.                                                  *)

\* The tool in flight is that of the call popped last.
FlightInv == InFlight => HasRun(cursor - 1)

SessionInv == TypeInv /\ RanInv /\ AnsweredInv /\ OwedInv /\ FlightInv

\* The fates of calls by where they stand: behind the queue's position, at it, and
\* before it.
FateFacts ==
  /\ \A n \in DOMAIN calls : n >= cursor => Fate(n) = "waiting"
  /\ \A n \in Nat : n # 0 /\ n = pending => Fate(n) = "suspended"
  /\ \A n \in Nat : InFlight /\ n = cursor - 1 => Fate(n) = "running"
  /\ \A n \in 1 .. Settled :
       Fate(n) = IF Answers(n) = {} THEN "abandoned"
                 ELSE IF HasRun(n) THEN "answered" ELSE "refused"

LEMMA FatesPlaced == TypeInv /\ AnsweredInv => FateFacts
<1> SUFFICES ASSUME TypeInv, AnsweredInv PROVE FateFacts
  OBVIOUS
<1>1. /\ cursor \in Nat \ {0} /\ Len(calls) \in Nat /\ Settled \in Nat /\ Settled <= cursor - 1
      /\ pending \in {0, cursor - 1} /\ DOMAIN calls = 1 .. Len(calls)
      /\ pending # 0 \/ InFlight => Settled = cursor - 2 /\ ~(pending # 0 /\ InFlight)
  <2>1. pending # 0 => ~InFlight
    BY DEF TypeInv, ControlInv, InFlight
  <2>2. cursor \in Nat \ {0} /\ Len(calls) \in Nat /\ Settled \in Nat
    BY SettledType
  <2>3. pending \in {0, cursor - 1} /\ DOMAIN calls = 1 .. Len(calls)
    BY DEF TypeInv, TypeOK
  <2>. QED
    BY <2>1, <2>2, <2>3 DEF Settled
<1>2. ASSUME NEW n \in Nat, n > Settled PROVE Answers(n) = {}
  <2>1. \A i \in DOMAIN messages : messages[i].role = "tool" => messages[i].call \in 1 .. Settled
    BY DEF AnsweredInv
  <2>. QED
    BY <1>1, <1>2, <2>1 DEF Answers
<1>3. ASSUME NEW n \in DOMAIN calls, n >= cursor PROVE Fate(n) = "waiting"
  <2>1. Answers(n) = {}
    BY <1>1, <1>2, <1>3
  <2>. QED
    BY <1>1, <1>3, <2>1 DEF Fate
<1>4. ASSUME NEW n \in Nat, n # 0, n = pending PROVE Fate(n) = "suspended"
  <2>1. Answers(n) = {} /\ n < cursor /\ ~(n >= cursor)
    BY <1>1, <1>2, <1>4
  <2>. QED
    BY <1>4, <2>1 DEF Fate
<1>5. ASSUME NEW n \in Nat, InFlight, n = cursor - 1 PROVE Fate(n) = "running"
  <2>1. Answers(n) = {} /\ n < cursor /\ ~(n >= cursor) /\ n # pending
    BY <1>1, <1>2, <1>5
  <2>. QED
    BY <1>5, <2>1 DEF Fate
<1>6. ASSUME NEW n \in 1 .. Settled
      PROVE  Fate(n) = IF Answers(n) = {} THEN "abandoned"
                       ELSE IF HasRun(n) THEN "answered" ELSE "refused"
  <2>1. n < cursor /\ ~(n >= cursor) /\ n # pending /\ ~(InFlight /\ n = cursor - 1)
    BY <1>1
  <2>. QED
    BY <2>1 DEF Fate
<1>. QED
  BY <1>3, <1>4, <1>5, <1>6 DEF FateFacts

LEMMA FatesPlacedNext == TypeInv' /\ AnsweredInv' => FateFacts'
BY FatesPlaced, PTL

\* A step changes the fate of no settled call, and unsettles none.
LEMMA SettledFates ==
  ASSUME TypeInv, RanInv, AnsweredInv, OwedInv, [Next]_vars
  PROVE  /\ Settled' >= Settled
         /\ \A n \in 1 .. Settled : Fate(n)' = Fate(n)
<1>0. /\ messages \in Seq(Message) /\ ran \in Seq(Run)
      /\ Settled \in Nat /\ Settled' \in Nat /\ Released \in Nat /\ Settled <= Released
      /\ cursor \in Nat \ {0} /\ Settled <= cursor - 1 /\ Len(calls) \in Nat
  <2>1. Settled <= Released /\ Settled <= cursor - 1
    BY SettledType DEF Settled, Released
  <2>. QED
    BY <2>1, SettledType, ReleasedType, PositionsNext DEF TypeInv, TypeOK
<1>1. TypeInv' /\ AnsweredInv'
  BY NextType, AnsweredStep
<1>2. ASSUME NEW n \in 1 .. Settled PROVE HasRun(n)' <=> HasRun(n)
  <2>1. ASSUME NEW r, ran' = Append(ran, r), r.call > Settled
        PROVE  HasRun(n)' <=> HasRun(n)
    <3>1. /\ DOMAIN ran' = DOMAIN ran \cup {Len(ran) + 1}
          /\ \A i \in DOMAIN ran : ran'[i] = ran[i]
          /\ ran'[Len(ran) + 1] = r
      BY <1>0, <2>1
    <3>2. r.call # n
      BY <1>0, <2>1
    <3>. QED
      BY <3>1, <3>2 DEF HasRun
  <2>2. CASE UNCHANGED ran
    BY <2>2 DEF HasRun
  <2>3. CASE StartsTool
    <3>1. PICK r : ran' = Append(ran, r) /\ r.call = cursor
      BY <2>3 DEF StartsTool
    <3>. QED
      BY <1>0, <2>1, <3>1
  <2>4. ASSUME NEW kind, NEW args, Decides(kind, args) PROVE HasRun(n)' <=> HasRun(n)
    <3>1. CASE ran' = Append(ran, [call |-> pending, args |-> args])
      <4>1. PICK r : ran' = Append(ran, r) /\ r.call = pending
        BY <3>1
      <4>2. pending > Settled
        BY <1>0, <2>4 DEF Decides, TypeInv, TypeOK, Settled
      <4>. QED
        BY <2>1, <4>1, <4>2
    <3>. QED
      BY <2>2, <2>4, <3>1 DEF Decides
  <2>. QED
    BY <2>2, <2>3, <2>4, StepEffects DEF Quiet
<1>3. ASSUME NEW n \in 1 .. Settled
      PROVE  Settled' >= Settled /\ (Answers(n)' = {} <=> Answers(n) = {})
  <2>1. ASSUME NEW m, messages' = Append(messages, m), m.role = "tool" => m.call > Settled
        PROVE  Answers(n)' = Answers(n)
    <3>1. /\ DOMAIN messages' = DOMAIN messages \cup {Len(messages) + 1}
          /\ \A i \in DOMAIN messages : messages'[i] = messages[i]
          /\ messages'[Len(messages) + 1] = m
      BY <1>0, <2>1
    <3>2. ~(m.role = "tool" /\ m.call = n)
      BY <1>0, <2>1
    <3>. QED
      BY <3>1, <3>2 DEF Answers
  <2>2. CASE Listens
    BY <2>2 DEF Listens, Answers
  <2>3. CASE ExpandsSkill
    BY <1>0, <2>3, GainedFacts DEF ExpandsSkill, Answers
  <2>4. CASE AnnouncesBatch
    <3>1. PICK batch : Gained(batch)
      BY <2>4 DEF AnnouncesBatch
    <3>2. Settled' = Settled
      BY <3>1, GainedFacts
    <3>3. PICK m : messages' = Append(messages, m) /\ m.role # "tool"
      BY <2>4 DEF AnnouncesBatch, AssistantMessage
    <3>. QED
      BY <1>0, <2>1, <3>2, <3>3
  <2>5. CASE Speaks
    <3>1. PICK m : messages' = Append(messages, m) /\ m.role # "tool"
      BY <2>5 DEF Speaks, UserMessage, AssistantMessage
    <3>. QED
      BY <1>0, <2>1, <2>5, <3>1 DEF Speaks
  <2>6. CASE AnswersInTurn
    <3>1. PICK m : messages' = Append(messages, m) /\ m.call = Settled + 1
      BY <2>6 DEF AnswersInTurn, ToolMessage
    <3>. QED
      BY <1>0, <2>1, <2>6, <3>1 DEF AnswersInTurn
  <2>7. CASE BeginsRun
    <3>1. Len(calls) = 0
      BY <2>7 DEF BeginsRun
    <3>2. cursor <= Len(calls) + 1
      BY DEF TypeInv, TypeOK
    <3>. QED
      BY <1>0, <3>1, <3>2
  <2>. QED
    BY <2>2, <2>3, <2>4, <2>5, <2>6, <2>7, RequestEffects
<1>4. Settled' >= Settled
  BY <1>0, <1>3
<1>5. ASSUME NEW n \in 1 .. Settled PROVE Fate(n)' = Fate(n)
  <2>1. n \in 1 .. Settled'
    BY <1>0, <1>4
  <2>2. FateFacts /\ FateFacts'
    BY <1>1, FatesPlaced, FatesPlacedNext
  <2>3. Fate(n) = IF Answers(n) = {} THEN "abandoned"
                  ELSE IF HasRun(n) THEN "answered" ELSE "refused"
    BY <2>2 DEF FateFacts
  <2>4. Fate(n)' = IF Answers(n)' = {} THEN "abandoned"
                   ELSE IF HasRun(n)' THEN "answered" ELSE "refused"
    BY <2>1, <2>2 DEF FateFacts
  <2>. QED
    BY <1>2, <1>3, <2>3, <2>4
<1>. QED
  BY <1>4, <1>5

\* A call keeps its tool and its arguments, and with them who may let it run.
ToolsKept ==
  \A n \in DOMAIN calls :
    calls'[n].tool = calls[n].tool /\ calls'[n].args = calls[n].args

LEMMA ToolsStep == TypeInv /\ [Next]_vars => ToolsKept
<1> SUFFICES ASSUME TypeInv, [Next]_vars PROVE ToolsKept
  OBVIOUS
<1>1. CASE UNCHANGED calls
  BY <1>1 DEF ToolsKept
<1>2. CASE Pop
  <2>1. TypeOK /\ calls \in Seq(Call) /\ DOMAIN calls = 1 .. Len(calls)
    BY DEF TypeInv, TypeOK
  <2>. QED
    BY <1>2, <2>1, PopFacts DEF ToolsKept
<1>3. ASSUME NEW batch, Gained(batch) PROVE ToolsKept
  BY <1>3, GainedFacts DEF ToolsKept
<1>4. ASSUME \/ \E batch \in Batches : ToolCalls(batch)
             \/ \E batch \in SkillBatches, id \in ProviderIds \cup {NoId} :
                  SkillCalls(batch, id)
      PROVE  ToolsKept
  BY <1>3, <1>4, ToolCallsGain, SkillCallsGain DEF AnnouncesBatch, ExpandsSkill
<1>5. CASE ExecuteStep
  BY <1>1, <1>2, <1>5 DEF ExecuteStep, RefuseCall, InterruptCall, UnknownTool,
     StartTool, FinishTool, BatchDone
<1>6. CASE ProviderStep
  BY <1>1, <1>4, <1>6 DEF ProviderStep, StepMiddlewareFails, ProviderFails,
     SkillFails, FinalText, ContextOverflow, AssistantText, MaxStepsExceeded, EndRun
<1>7. CASE CallerStep
  BY <1>1, <1>7 DEF CallerStep, ResumeStep, PushUserInput, StartRun,
     RunWhilePending, ResumeNotFound, Approve, Reject, Edit, EditInvalid, Resolve, Drop
<1>8. CASE BeforeRun \/ BeforeRunFails \/ UNCHANGED vars
  BY <1>1, <1>8 DEF BeforeRun, BeforeRunFails, vars
<1>. QED
  BY <1>5, <1>6, <1>7, <1>8 DEF Next, RunnerStep

LEMMA HeldKept ==
  ASSUME TypeInv, [Next]_vars
  PROVE  /\ \A n \in DOMAIN calls : n \in Held' <=> n \in Held
         /\ Len(calls') = Len(calls) => Held' = Held
<1>1. calls \in Seq(Call) /\ calls' \in Seq(Call) /\ TypeInv'
  BY NextType DEF TypeInv, TypeOK
<1>2. \A n \in DOMAIN calls : n \in DOMAIN calls'
  BY <1>1, SaidStep DEF SaidKept
<1>3. \A n \in DOMAIN calls : NeedsHuman(calls'[n]) <=> NeedsHuman(calls[n])
  BY ToolsStep DEF ToolsKept, NeedsHuman, PolicyVerdict
<1>4. \A n \in DOMAIN calls : n \in Held' <=> n \in Held
  BY <1>2, <1>3 DEF Held
<1>5. ASSUME Len(calls') = Len(calls) PROVE Held' = Held
  <2>1. DOMAIN calls' = DOMAIN calls
    BY <1>1, <1>5
  <2>. QED
    BY <1>4, <2>1 DEF Held
<1>. QED
  BY <1>4, <1>5

LEMMA FatesForm ==
  ASSUME TypeInv
  PROVE  /\ DOMAIN SessionFates = DOMAIN calls /\ DOMAIN calls = 1 .. Len(calls)
         /\ Len(SessionFates) = Len(calls) /\ Len(calls) \in Nat
         /\ \A n \in DOMAIN calls : SessionFates[n] = Fate(n)
         /\ SessionFates = [n \in 1 .. Len(calls) |-> Fate(n)]
<1>1. DOMAIN calls = 1 .. Len(calls) /\ Len(calls) \in Nat
  BY DEF TypeInv, TypeOK
<1>2. /\ SessionFates = [n \in 1 .. Len(calls) |-> Fate(n)]
      /\ DOMAIN SessionFates = 1 .. Len(calls)
  BY <1>1 DEF SessionFates
<1>3. Len(SessionFates) = Len(calls)
  BY <1>1, <1>2
<1>. QED
  BY <1>1, <1>2, <1>3 DEF SessionFates

\* The same of the next state.
LEMMA FatesFormNext ==
  ASSUME TypeInv, [Next]_vars
  PROVE  /\ DOMAIN calls' = 1 .. Len(calls') /\ Len(calls') \in Nat
         /\ SessionFates' = [n \in 1 .. Len(calls') |-> Fate(n)']
<1>1. calls' \in Seq(Call)
  BY NextType DEF TypeInv, TypeOK
<1>2. DOMAIN calls' = 1 .. Len(calls') /\ Len(calls') \in Nat
  BY <1>1
<1>. QED
  BY <1>2 DEF SessionFates

\* A step that moves only the first unsettled call serves that one in its turn.
LEMMA ServedInTurn ==
  ASSUME TypeInv, RanInv, AnsweredInv, OwedInv, [Next]_vars,
         NEW n \in DOMAIN calls, n = Settled + 1, Len(calls') = Len(calls),
         n + 1 >= cursor, cursor' = n + 1
  PROVE  /\ SessionFates' = [SessionFates EXCEPT ![n] = Fate(n)']
         /\ SessionFates[n] = Fate(n) /\ n \in DOMAIN SessionFates
         /\ Fate(n) \in {"waiting", "suspended", "running"} => Abstract!InTurn(n)
<1>0. /\ Settled \in Nat /\ cursor \in Nat /\ cursor' \in Nat
      /\ TypeInv' /\ AnsweredInv'
  <2>1. TypeInv' /\ AnsweredInv'
    BY NextType, AnsweredStep
  <2>2. cursor \in Nat /\ cursor' \in Nat
    BY SettledType DEF TypeInv, TypeOK
  <2>. QED
    BY <2>1, <2>2, SettledType
<1>1. FateFacts /\ FateFacts'
  BY <1>0, FatesPlaced, FatesPlacedNext
<1>2. /\ DOMAIN SessionFates = 1 .. Len(calls) /\ DOMAIN calls = 1 .. Len(calls)
      /\ Len(calls) \in Nat
      /\ \A m \in 1 .. Len(calls) : SessionFates[m] = Fate(m)
      /\ SessionFates = [m \in 1 .. Len(calls) |-> Fate(m)]
      /\ SessionFates' = [m \in 1 .. Len(calls) |-> Fate(m)']
      /\ DOMAIN calls' = DOMAIN calls
  BY FatesForm, FatesFormNext
<1>3. ASSUME NEW m \in 1 .. Len(calls), m # n PROVE Fate(m)' = Fate(m)
  <2>1. CASE m <= Settled
    BY <2>1, <1>0, SettledFates
  <2>2. CASE m > n
    <3>1. m >= cursor /\ m >= cursor'
      BY <1>0, <1>2, <2>2
    <3>. QED
      BY <1>1, <1>2, <3>1 DEF FateFacts
  <2>. QED
    BY <1>0, <1>3, <2>1, <2>2
<1>4. SessionFates' = [SessionFates EXCEPT ![n] = Fate(n)']
  BY <1>2, <1>3
<1>5. ASSUME Fate(n) \in {"waiting", "suspended", "running"} PROVE Abstract!InTurn(n)
  <2>1. \A m \in 1 .. Len(calls) : m < n => Fate(m) \notin {"waiting", "suspended", "running"}
    BY <1>0, <1>1 DEF FateFacts
  <2>2. \A m \in Abstract!Open : n <= m
    BY <1>0, <1>2, <2>1 DEF Abstract!Open
  <2>3. n \in Abstract!Open
    BY <1>2, <1>5 DEF Abstract!Open
  <2>. QED
    BY <2>2, <2>3 DEF Abstract!InTurn
<1>. QED
  BY <1>2, <1>4, <1>5

\* What a step appends is there.
LEMMA ResultAnswers ==
  ASSUME TypeInv, NEW n, NEW id, NEW status, PushResult(n, id, status)
  PROVE  Answers(n)' # {}
<1>1. PICK m : messages' = Append(messages, m) /\ m.role = "tool" /\ m.call = n
  BY DEF PushResult, ToolMessage
<1>2. messages \in Seq(Message)
  BY DEF TypeInv, TypeOK
<1>3. Len(messages) + 1 \in DOMAIN messages' /\ messages'[Len(messages) + 1] = m
  BY <1>1, <1>2
<1>. QED
  BY <1>1, <1>3 DEF Answers

LEMMA StartRuns ==
  ASSUME TypeInv, NEW n, NEW args, ran' = Append(ran, [call |-> n, args |-> args])
  PROVE  HasRun(n)'
<1>1. PICK r : ran' = Append(ran, r) /\ r.call = n
  OBVIOUS
<1>2. ran \in Seq(Run)
  BY DEF TypeInv, TypeOK
<1>3. Len(ran) + 1 \in DOMAIN ran' /\ ran'[Len(ran) + 1] = r
  BY <1>1, <1>2
<1>. QED
  BY <1>1, <1>3 DEF HasRun

\* A call that is not released has not run.
LEMMA NotRun ==
  ASSUME TypeInv, RanInv, NEW n \in Nat, n > Released, UNCHANGED ran
  PROVE  ~HasRun(n)'
<1>1. \A i \in DOMAIN ran : ran[i].call \in 1 .. Released
  BY DEF RanInv
<1>. QED
  BY <1>1, ReleasedType DEF HasRun

\* Popping serves the first unsettled call.
LEMMA PopInTurn ==
  ASSUME SessionInv, [Next]_vars, Pop, NEW n, n = cursor
  PROVE  /\ n \in DOMAIN calls /\ n = Settled + 1 /\ cursor' = n + 1
         /\ n \in Nat /\ n > Released /\ pending = 0
         /\ SessionFates' = [SessionFates EXCEPT ![n] = Fate(n)']
         /\ SessionFates[n] = "waiting" /\ n \in DOMAIN SessionFates
         /\ Abstract!InTurn(n)
         /\ (n \in Held <=> NeedsHuman(NextCall)) /\ Held' = Held
         /\ UNCHANGED Decided
<1>0. TypeInv /\ TypeOK /\ RanInv /\ AnsweredInv /\ OwedInv
  BY DEF SessionInv, TypeInv
<1>1. /\ n \in DOMAIN calls /\ n = Settled + 1 /\ cursor' = n + 1 /\ n \in Nat
      /\ Len(calls') = Len(calls) /\ pending = 0 /\ n > Released
  <2>1. cursor = Settled + 1 /\ cursor' = cursor + 1 /\ cursor \in Nat
    BY <1>0, PopSettles, SettledType
  <2>2. cursor \in DOMAIN calls /\ Len(calls') = Len(calls) /\ pending = 0
    BY <1>0, PopFacts DEF Pop, TypeOK, TypeInv, ControlInv
  <2>3. cursor > Released
    BY <2>1, <2>2 DEF Released
  <2>. QED
    BY <2>1, <2>2, <2>3
<1>2. Fate(n) = "waiting"
  BY <1>0, <1>1, FatesPlaced DEF FateFacts
<1>3. /\ SessionFates' = [SessionFates EXCEPT ![n] = Fate(n)']
      /\ SessionFates[n] = Fate(n) /\ n \in DOMAIN SessionFates
      /\ Abstract!InTurn(n)
  BY <1>0, <1>1, <1>2, ServedInTurn
<1>4. (n \in Held <=> NeedsHuman(NextCall)) /\ Held' = Held
  <2>1. NextCall.tool = calls[n].tool /\ NextCall.args = calls[n].args
    BY <1>0, PopFacts
  <2>. QED
    BY <1>0, <1>1, <2>1, HeldKept DEF Held, NeedsHuman, PolicyVerdict
<1>5. UNCHANGED Decided
  BY DEF Pop, Decided
<1>. QED
  BY <1>1, <1>2, <1>3, <1>4, <1>5

\* What the queue does with a call.
LEMMA QueueServes ==
  ASSUME SessionInv, [Next]_vars, RefuseCall \/ UnknownTool \/ InterruptCall \/ StartTool
  PROVE  Abstract!Next
<1>0. /\ TypeInv /\ TypeInv' /\ RanInv /\ AnsweredInv'
      /\ Pop
  BY NextType, AnsweredStep
     DEF SessionInv, RefuseCall, UnknownTool, InterruptCall, StartTool
<1>1. FateFacts'
  BY <1>0, FatesPlacedNext
<1>2. PICK n : n = cursor
  OBVIOUS
<1>3. /\ n \in DOMAIN calls /\ cursor' = n + 1 /\ n \in Nat /\ n # 0 /\ n > Released
      /\ pending = 0
      /\ SessionFates' = [SessionFates EXCEPT ![n] = Fate(n)']
      /\ SessionFates[n] = "waiting" /\ n \in DOMAIN SessionFates
      /\ Abstract!InTurn(n)
      /\ (n \in Held <=> NeedsHuman(NextCall)) /\ Held' = Held
      /\ UNCHANGED Decided
  <2>1. DOMAIN calls = 1 .. Len(calls)
    BY <1>0, FatesForm
  <2>. QED
    BY <1>0, <1>2, <2>1, PopInTurn
<1>4. CASE RefuseCall \/ UnknownTool
  <2>1. PICK id : PushResult(n, id, "error")
    BY <1>2, <1>4 DEF RefuseCall, UnknownTool
  <2>2. UNCHANGED ran
    BY <1>4 DEF RefuseCall, UnknownTool
  <2>3. Answers(n)' # {} /\ ~HasRun(n)'
    BY <1>0, <1>3, <2>1, <2>2, ResultAnswers, NotRun
  <2>4. Fate(n)' = "refused"
    BY <2>3 DEF Fate
  <2>5. Abstract!Refuse(n)
    BY <1>3, <2>4 DEF Abstract!Refuse, Abstract!Becomes
  <2>. QED
    BY <1>3, <2>5 DEF Abstract!Next, Abstract!Serve
<1>5. CASE InterruptCall
  <2>1. pending' = n /\ n \in Held
    BY <1>2, <1>3, <1>5 DEF InterruptCall
  <2>2. Fate(n)' = "suspended"
    BY <1>1, <1>3, <2>1 DEF FateFacts
  <2>3. Abstract!Suspend(n)
    BY <1>3, <2>1, <2>2 DEF Abstract!Suspend, Abstract!Becomes
  <2>. QED
    BY <1>3, <2>3 DEF Abstract!Next, Abstract!Serve
<1>6. CASE StartTool
  <2>1. InFlight' /\ n = cursor' - 1 /\ n \notin Held
    BY <1>3, <1>6 DEF StartTool, InFlight
  <2>2. Fate(n)' = "running"
    BY <1>1, <1>3, <2>1 DEF FateFacts
  <2>3. Abstract!Start(n)
    BY <1>3, <2>1, <2>2 DEF Abstract!Start, Abstract!Becomes
  <2>. QED
    BY <1>3, <2>3 DEF Abstract!Next, Abstract!Serve
<1>. QED
  BY <1>4, <1>5, <1>6

\* A tool that returns answers the call in turn.
LEMMA FinishServes ==
  ASSUME SessionInv, [Next]_vars, FinishTool
  PROVE  Abstract!Next
<1>0. /\ TypeInv /\ TypeOK /\ RanInv /\ AnsweredInv /\ OwedInv /\ InFlight /\ FateFacts
      /\ UNCHANGED <<calls, cursor, pending, ran, decisions>>
  BY FatesPlaced DEF SessionInv, TypeInv, FinishTool, InFlight, historyVars
<1>1. PICK n : n = cursor - 1
  OBVIOUS
<1>2. /\ n \in DOMAIN calls /\ n \in Nat /\ n = Settled + 1 /\ cursor = n + 1
      /\ cursor' = n + 1 /\ Len(calls') = Len(calls) /\ n + 1 >= cursor
  <2>1. cursor > 1 /\ cursor \in 1 .. (Len(calls) + 1) /\ Len(calls) \in Nat
        /\ DOMAIN calls = 1 .. Len(calls)
    BY <1>0, FatesForm DEF TypeInv, TypeOK, ControlInv
  <2>2. Settled = cursor - 2
    BY <1>0 DEF Settled
  <2>. QED
    BY <1>0, <1>1, <2>1, <2>2
<1>3. Fate(n) = "running"
  BY <1>0, <1>1, <1>2 DEF FateFacts
<1>4. Fate(n)' = "answered"
  <2>1. PICK id, status : PushResult(n, id, status)
    BY <1>1 DEF FinishTool
  <2>2. Answers(n)' # {}
    BY <1>0, <2>1, ResultAnswers
  <2>3. HasRun(n)
    BY <1>0, <1>1 DEF SessionInv, FlightInv
  <2>4. HasRun(n)'
    BY <1>0, <2>3 DEF HasRun
  <2>. QED
    BY <2>2, <2>4 DEF Fate
<1>5. /\ SessionFates' = [SessionFates EXCEPT ![n] = Fate(n)']
      /\ SessionFates[n] = Fate(n) /\ n \in DOMAIN SessionFates
      /\ Abstract!InTurn(n)
  BY <1>0, <1>2, <1>3, ServedInTurn
<1>6. UNCHANGED <<Held, Decided>>
  BY <1>0, <1>2, HeldKept DEF Decided
<1>7. Abstract!Finish(n)
  BY <1>3, <1>4, <1>5, <1>6 DEF Abstract!Finish, Abstract!Becomes
<1>. QED
  BY <1>5, <1>7 DEF Abstract!Next, Abstract!Serve

\* What runs by a decision or off the queue is the call popped last.
LEMMA FlightStep == SessionInv /\ [Next]_vars => FlightInv'
<1> SUFFICES ASSUME SessionInv, [Next]_vars PROVE FlightInv'
  OBVIOUS
<1>0. TypeInv /\ FlightInv /\ cursor \in Nat
  BY DEF SessionInv, TypeInv, TypeOK
<1>1. CASE StartTool
  <2>1. PICK n : n = cursor
    OBVIOUS
  <2>2. HasRun(n)' /\ n = cursor' - 1
    BY <1>0, <1>1, <2>1, StartRuns DEF StartTool, Pop
  <2>. QED
    BY <2>2 DEF FlightInv, HasRun
<1>2. ASSUME NEW about \in asked, NEW kind, NEW args, NEW running,
             Resolve(about, kind, args), ExecutePending(args, running)
      PROVE  FlightInv'
  <2>1. pending = cursor - 1 /\ cursor' = cursor
    BY <1>0, <1>2 DEF TypeInv, TypeOK, Resolve, Matches
  <2>2. CASE pc' = "batch"
    BY <2>2 DEF FlightInv, InFlight
  <2>3. CASE ran' = Append(ran, [call |-> pending, args |-> args])
    <3>1. PICK n : n = pending
      OBVIOUS
    <3>2. HasRun(n)' /\ n = cursor' - 1
      BY <1>0, <2>1, <2>3, <3>1, StartRuns
    <3>. QED
      BY <3>2 DEF FlightInv, HasRun
  <2>. QED
    BY <1>2, <2>2, <2>3 DEF ExecutePending
<1>3. CASE UNCHANGED <<pc, ran, cursor>>
  BY <1>0, <1>3 DEF FlightInv, InFlight, HasRun
<1>4. CASE pc' \notin {"tool", "edited_tool"}
  BY <1>4 DEF FlightInv, InFlight
<1>5. CASE ExecuteStep
  BY <1>1, <1>3, <1>4, <1>5 DEF ExecuteStep, RefuseCall, InterruptCall, UnknownTool,
     FinishTool, BatchDone, Pop
<1>6. CASE ProviderStep
  <2>1. pc' \notin {"tool", "edited_tool"}
    BY <1>6 DEF ProviderStep, StepMiddlewareFails, ProviderFails, SkillFails, FinalText,
       ContextOverflow, AssistantText, MaxStepsExceeded, EndRun, ToolCalls, SkillCalls,
       Enqueue, InStep
  <2>. QED
    BY <1>4, <2>1
<1>7. CASE CallerStep
  <2>1. ASSUME NEW about \in asked,
               \/ Approve(about)
               \/ \E args \in Args : Edit(about, args)
        PROVE  FlightInv'
    BY <1>2, <2>1 DEF Approve, Edit
  <2>2. ASSUME NEW about \in asked,
               \/ ResumeNotFound(about) \/ Reject(about)
               \/ \E args \in Args : EditInvalid(about, args)
        PROVE  FlightInv'
    <3>1. pc' \notin {"tool", "edited_tool"}
      BY <2>2 DEF ResumeNotFound, Reject, EditInvalid, loopVars
    <3>. QED
      BY <1>4, <3>1
  <2>3. CASE PushUserInput \/ StartRun \/ RunWhilePending \/ Drop
    <3>1. pc' \notin {"tool", "edited_tool"}
      BY <2>3 DEF PushUserInput, StartRun, RunWhilePending, Drop, loopVars
    <3>. QED
      BY <1>4, <3>1
  <2>. QED
    BY <1>7, <2>1, <2>2, <2>3 DEF CallerStep, ResumeStep
<1>8. CASE BeforeRun \/ BeforeRunFails \/ UNCHANGED vars
  BY <1>3, <1>4, <1>8 DEF BeforeRun, BeforeRunFails, vars, loopVars, historyVars
<1>. QED
  BY <1>5, <1>6, <1>7, <1>8 DEF Next, RunnerStep

LEMMA SessionStep == SessionInv /\ [Next]_vars => SessionInv'
BY NextType, RanStep, AnsweredStep, OwedStep, FlightStep DEF SessionInv

\* A decision serves the suspended call.
LEMMA DecisionServes ==
  ASSUME SessionInv, [Next]_vars, NEW about \in asked, NEW kind, NEW args,
         Resolve(about, kind, args),
         \/ ExecutePending(args, "tool") \/ ExecutePending(args, "edited_tool")
         \/ /\ PushResult(pending, calls[pending].id, "rejected")
            /\ pc' = "batch" /\ UNCHANGED ran
  PROVE  Abstract!Next
<1>0. /\ TypeInv /\ TypeOK /\ TypeInv' /\ RanInv /\ AnsweredInv /\ AnsweredInv' /\ OwedInv
      /\ FateFacts /\ FateFacts' /\ pending # 0
      /\ UNCHANGED <<calls, cursor>> /\ pending' = 0
  BY FatesPlaced, FatesPlacedNext, NextType, AnsweredStep
     DEF SessionInv, TypeInv, Resolve, Matches
<1>1. PICK n : n = pending
  OBVIOUS
<1>2. /\ n \in DOMAIN calls /\ n \in Nat /\ n # 0 /\ n = Settled + 1 /\ cursor = n + 1
      /\ cursor' = n + 1 /\ Len(calls') = Len(calls) /\ n + 1 >= cursor /\ n > Released
      /\ n = cursor' - 1
  <2>1. /\ cursor > 1 /\ cursor \in 1 .. (Len(calls) + 1) /\ Len(calls) \in Nat
        /\ DOMAIN calls = 1 .. Len(calls) /\ pending = cursor - 1
    BY <1>0, FatesForm DEF TypeInv, TypeOK, ControlInv
  <2>2. Settled = cursor - 2 /\ Released = cursor - 2
    BY <1>0 DEF Settled, Released
  <2>. QED
    BY <1>0, <1>1, <2>1, <2>2
<1>3. Fate(n) = "suspended"
  BY <1>0, <1>1, <1>2 DEF FateFacts
<1>4. Fate(n)' \in {"running", "refused"}
  <2>1. CASE InFlight'
    BY <1>0, <1>2, <2>1 DEF FateFacts
  <2>2. ASSUME NEW id, NEW status, PushResult(n, id, status), UNCHANGED ran
        PROVE  Fate(n)' = "refused"
    <3>1. Answers(n)' # {} /\ ~HasRun(n)'
      BY <1>0, <1>2, <2>2, ResultAnswers, NotRun
    <3>. QED
      BY <3>1 DEF Fate
  <2>. QED
    BY <1>1, <2>1, <2>2 DEF ExecutePending, InFlight
<1>5. /\ SessionFates' = [SessionFates EXCEPT ![n] = Fate(n)']
      /\ SessionFates[n] = Fate(n) /\ n \in DOMAIN SessionFates
      /\ Abstract!InTurn(n)
  BY <1>0, <1>2, <1>3, ServedInTurn
<1>6. Held' = Held
  BY <1>0, <1>2, HeldKept
<1>7. Decided' = Decided \cup {n}
  <2>1. PICK d : decisions' = Append(decisions, d) /\ d.call = n
    BY <1>1 DEF Resolve
  <2>2. decisions \in Seq(Decision)
    BY <1>0 DEF TypeOK
  <2>3. /\ DOMAIN decisions' = DOMAIN decisions \cup {Len(decisions) + 1}
        /\ \A k \in DOMAIN decisions : decisions'[k] = decisions[k]
        /\ decisions'[Len(decisions) + 1] = d
    BY <2>1, <2>2
  <2>. QED
    BY <2>1, <2>3 DEF Decided
<1>8. Abstract!Decide(n)
  BY <1>3, <1>4, <1>5, <1>6, <1>7 DEF Abstract!Decide, Abstract!Becomes
<1>. QED
  BY <1>5, <1>8 DEF Abstract!Next, Abstract!Serve

\* A batch asks for its calls when none is open.
LEMMA GainAsks ==
  ASSUME SessionInv, [Next]_vars, NEW batch, Gained(batch), Len(calls') <= MaxCalls,
         UNCHANGED decisions
  PROVE  Abstract!Next
<1>0. /\ TypeInv /\ TypeInv' /\ RanInv /\ AnsweredInv /\ AnsweredInv' /\ OwedInv
      /\ FateFacts /\ FateFacts'
  BY FatesPlaced, FatesPlacedNext, NextType, AnsweredStep DEF SessionInv
<1>1. /\ Len(calls') = Len(calls) + Len(batch)
      /\ Len(calls) \in Nat /\ Len(batch) \in Nat /\ Len(calls') \in Nat
      /\ DOMAIN calls = 1 .. Len(calls) /\ DOMAIN calls' = 1 .. Len(calls')
      /\ Settled = Len(calls) /\ Settled' = Len(calls)
      /\ cursor' = Len(calls) + 1
  BY <1>0, GainedFacts DEF Gained, TypeInv, ControlInv
<1>2. PICK size : size = Len(batch)
  OBVIOUS
<1>3. /\ SessionFates = [n \in 1 .. Len(calls) |-> Fate(n)]
      /\ SessionFates' = [n \in 1 .. Len(calls') |-> Fate(n)']
      /\ DOMAIN SessionFates = 1 .. Len(calls) /\ Len(SessionFates) = Len(calls)
      /\ \A n \in 1 .. Len(calls) : SessionFates[n] = Fate(n)
  BY <1>0, FatesForm, FatesFormNext
<1>4. Abstract!Open = {}
  <2>1. \A n \in 1 .. Len(calls) : Fate(n) \notin {"waiting", "suspended", "running"}
    BY <1>0, <1>1 DEF FateFacts
  <2>. QED
    BY <1>3, <2>1 DEF Abstract!Open
<1>5. SessionFates' = SessionFates \o [i \in 1 .. size |-> "waiting"]
  <2>1. ASSUME NEW n \in 1 .. Len(calls') PROVE Fate(n)' =
          IF n <= Len(calls) THEN SessionFates[n] ELSE "waiting"
    <3>1. CASE n <= Len(calls)
      BY <1>0, <1>1, <1>3, <3>1, SettledFates
    <3>2. CASE n > Len(calls)
      <4>1. n >= cursor'
        BY <1>1, <3>2
      <4>2. \A m \in DOMAIN calls' : m >= cursor' => Fate(m)' = "waiting"
        BY <1>0 DEF FateFacts
      <4>3. Fate(n)' = "waiting"
        BY <1>1, <4>1, <4>2
      <4>. QED
        BY <1>1, <3>2, <4>3
    <3>. QED
      BY <1>1, <3>1, <3>2
  <2>2. SessionFates \in Seq({Fate(n) : n \in 1 .. Len(calls)})
    BY <1>1, <1>3
  <2>3. SessionFates \o [i \in 1 .. size |-> "waiting"] =
          [n \in 1 .. (Len(calls) + size) |->
             IF n <= Len(calls) THEN SessionFates[n]
             ELSE [i \in 1 .. size |-> "waiting"][n - Len(calls)]]
    BY <1>1, <1>2, <1>3, <2>2
  <2>4. \A n \in 1 .. (Len(calls) + size) :
          (IF n <= Len(calls) THEN SessionFates[n]
           ELSE [i \in 1 .. size |-> "waiting"][n - Len(calls)])
          = Fate(n)'
    BY <1>1, <1>2, <2>1
  <2>5. SessionFates' = [n \in 1 .. (Len(calls) + size) |-> Fate(n)']
    BY <1>1, <1>2, <1>3
  <2>. QED
    BY <2>3, <2>4, <2>5
<1>6. \E more \in SUBSET ((Len(SessionFates) + 1) .. (Len(SessionFates) + size)) :
        Held' = Held \cup more
  <2>1. \A n \in 1 .. Len(calls) : n \in Held' <=> n \in Held
    BY <1>0, <1>1, HeldKept
  <2>2. Held \subseteq 1 .. Len(calls) /\ Held' \subseteq 1 .. Len(calls')
    BY <1>1 DEF Held
  <2>3. Held' \ Held \subseteq (Len(SessionFates) + 1) .. (Len(SessionFates) + size)
    BY <1>1, <1>2, <1>3, <2>1, <2>2
  <2>4. Held' = Held \cup (Held' \ Held)
    BY <1>1, <2>1, <2>2
  <2>. QED
    BY <2>3, <2>4
<1>7. size \in 0 .. MaxCalls /\ UNCHANGED Decided
  BY <1>1, <1>2, BoundsAssumption DEF Decided
<1>8. Abstract!Ask(size)
  BY <1>4, <1>5, <1>6, <1>7 DEF Abstract!Ask
<1>. QED
  BY <1>7, <1>8 DEF Abstract!Next

LEMMA BatchAsks ==
  ASSUME SessionInv, [Next]_vars,
         \/ \E batch \in Batches : ToolCalls(batch)
         \/ \E batch \in SkillBatches, id \in ProviderIds \cup {NoId} : SkillCalls(batch, id)
  PROVE  Abstract!Next
<1>1. TypeInv
  BY DEF SessionInv
<1>2. PICK batch : Gained(batch)
  BY <1>1, ToolCallsGain, SkillCallsGain DEF AnnouncesBatch, ExpandsSkill
<1>3. Len(calls') = Len(calls) + Len(batch)
  BY <1>1, <1>2, GainedFacts
<1>4. UNCHANGED decisions
  BY DEF ToolCalls, SkillCalls, Enqueue, historyVars
<1>5. Len(calls') <= MaxCalls
  <2>1. ASSUME NEW more \in Seq(Call), Enqueue(more) PROVE Len(calls') <= MaxCalls
    BY <1>1, <2>1 DEF Enqueue, TypeInv, TypeOK
  <2>2. ASSUME NEW b \in Batches, ToolCalls(b) PROVE Len(calls') <= MaxCalls
    BY <1>1, <2>1, <2>2, AnnouncedType DEF ToolCalls, TypeInv
  <2>3. ASSUME NEW b \in SkillBatches, NEW id \in ProviderIds \cup {NoId}, SkillCalls(b, id)
        PROVE  Len(calls') <= MaxCalls
    BY <1>1, <2>1, <2>3, ExpandedType DEF SkillCalls, TypeInv
  <2>. QED
    BY <2>2, <2>3
<1>. QED
  BY <1>2, <1>4, <1>5, GainAsks

\* A dropped run gives up what is open.
LEMMA DropGivesUp == SessionInv /\ [Next]_vars /\ Drop => Abstract!Next
<1> SUFFICES ASSUME SessionInv, [Next]_vars, Drop PROVE Abstract!Next
  OBVIOUS
<1>0. /\ TypeInv /\ TypeOK /\ TypeInv' /\ RanInv /\ AnsweredInv /\ AnsweredInv' /\ OwedInv
      /\ FateFacts /\ FateFacts'
  BY FatesPlaced, FatesPlacedNext, NextType, AnsweredStep DEF SessionInv, TypeInv
<1>1. /\ calls' = calls /\ Len(calls) \in Nat /\ DOMAIN calls = 1 .. Len(calls)
      /\ Settled \in Nat /\ Settled' = Len(calls) /\ pending = 0
      /\ cursor \in Nat /\ cursor <= Len(calls) + 1
      /\ UNCHANGED decisions
  <2>1. pending = 0 /\ calls' = calls /\ pending' = pending /\ cursor' = Len(calls) + 1
        /\ pc' = "idle" /\ UNCHANGED decisions
    BY <1>0 DEF Drop, TypeInv, ControlInv
  <2>2. Len(calls) \in Nat /\ DOMAIN calls = 1 .. Len(calls)
        /\ cursor \in Nat /\ cursor <= Len(calls) + 1
    BY <1>0, FatesForm DEF TypeOK
  <2>3. Settled' = Len(calls)
    BY <2>1, <2>2 DEF Settled, InFlight
  <2>. QED
    BY <1>0, <2>1, <2>2, <2>3, SettledType
<1>2. /\ SessionFates = [n \in 1 .. Len(calls) |-> Fate(n)]
      /\ SessionFates' = [n \in 1 .. Len(calls) |-> Fate(n)']
      /\ DOMAIN SessionFates = 1 .. Len(calls)
      /\ \A n \in 1 .. Len(calls) : SessionFates[n] = Fate(n)
  BY <1>0, <1>1, FatesForm, FatesFormNext
<1>3. ASSUME NEW n \in 1 .. Len(calls), n <= Settled
      PROVE  /\ Fate(n) \in {"answered", "refused", "abandoned"}
             /\ Fate(n)' = Fate(n)
  <2>1. n \in 1 .. Settled
    BY <1>1, <1>3
  <2>2. Fate(n)' = Fate(n)
    BY <1>0, <2>1, SettledFates
  <2>. QED
    BY <1>0, <2>1, <2>2 DEF FateFacts
<1>4. ASSUME NEW n \in 1 .. Len(calls), n > Settled
      PROVE  Fate(n) \in {"waiting", "running"} /\ Fate(n)' = "abandoned"
  <2>1. n >= cursor \/ (InFlight /\ n = cursor - 1)
    <3>1. Settled = IF InFlight THEN cursor - 2 ELSE cursor - 1
      BY <1>1 DEF Settled
    <3>2. n \in Nat /\ cursor \in Nat
      BY <1>1
    <3>. QED
      BY <1>4, <3>1, <3>2
  <2>2. Fate(n) \in {"waiting", "running"}
    BY <1>0, <1>1, <2>1 DEF FateFacts
  <2>3. Answers(n) = {}
    BY <1>0, <1>1, <1>4 DEF AnsweredInv, Answers
  <2>4. Answers(n)' = {}
    BY <2>3 DEF Answers, Drop
  <2>5. n \in 1 .. Settled'
    BY <1>1
  <2>. QED
    BY <1>0, <2>2, <2>4, <2>5 DEF FateFacts
<1>5. \A n \in 1 .. Len(calls) :
        /\ Fate(n) # "suspended"
        /\ Fate(n)' = IF n \in Abstract!Open THEN "abandoned" ELSE Fate(n)
  <2>1. Abstract!Open = {n \in 1 .. Len(calls) :
                           Fate(n) \in {"waiting", "suspended", "running"}}
    BY <1>2 DEF Abstract!Open
  <2>. TAKE n \in 1 .. Len(calls)
  <2>2. CASE n <= Settled
    BY <1>3, <2>1, <2>2
  <2>3. CASE n > Settled
    BY <1>4, <2>1, <2>3
  <2>. QED
    BY <1>1, <2>2, <2>3
<1>6. SessionFates' = [n \in DOMAIN SessionFates |->
                         IF n \in Abstract!Open THEN "abandoned" ELSE SessionFates[n]]
  BY <1>2, <1>5
<1>7. UNCHANGED <<Held, Decided>>
  BY <1>0, <1>1, HeldKept DEF Decided
<1>8. Abstract!GiveUp
  BY <1>2, <1>5, <1>6, <1>7 DEF Abstract!GiveUp
<1>. QED
  BY <1>8 DEF Abstract!Next

\* Of a session only calls, decisions and their places are seen.
SessionStill == UNCHANGED <<SessionFates, Held, Decided>>

LEMMA Still ==
  ASSUME SessionInv, [Next]_vars, UNCHANGED <<calls, cursor, pending, decisions>>,
         InFlight' <=> InFlight
  PROVE  SessionStill
<1>0. /\ TypeInv /\ TypeInv' /\ RanInv /\ AnsweredInv /\ AnsweredInv' /\ OwedInv
      /\ FateFacts /\ FateFacts'
  BY FatesPlaced, FatesPlacedNext, NextType, AnsweredStep DEF SessionInv
<1>1. /\ Len(calls) \in Nat /\ DOMAIN calls = 1 .. Len(calls) /\ DOMAIN calls' = DOMAIN calls
      /\ cursor \in Nat \ {0} /\ Settled \in Nat
      /\ SessionFates = [n \in 1 .. Len(calls) |-> Fate(n)]
      /\ SessionFates' = [n \in 1 .. Len(calls) |-> Fate(n)']
      /\ pending \in {0, cursor - 1}
  BY <1>0, FatesForm, FatesFormNext, SettledType DEF TypeInv, TypeOK
<1>2. ASSUME NEW n \in 1 .. Len(calls) PROVE Fate(n)' = Fate(n)
  <2>1. CASE n <= Settled
    BY <1>0, <1>1, <2>1, SettledFates
  <2>2. CASE n >= cursor
    BY <1>0, <1>1, <2>2 DEF FateFacts
  <2>3. CASE n > Settled /\ n < cursor
    <3>1. n = cursor - 1 /\ (pending # 0 \/ InFlight)
      BY <1>1, <2>3 DEF Settled
    <3>2. n = pending \/ InFlight
      BY <1>1, <3>1
    <3>. QED
      BY <1>0, <1>1, <3>1, <3>2 DEF FateFacts
  <2>. QED
    BY <1>1, <2>1, <2>2, <2>3
<1>3. UNCHANGED <<Held, Decided>>
  BY <1>0, HeldKept DEF Decided
<1>. QED
  BY <1>1, <1>2, <1>3 DEF SessionStill

\* Every step of the runner is one of a session or changes nothing in it.
LEMMA SessionServes ==
  SessionInv /\ [Next]_vars => Abstract!Next \/ SessionStill
<1> SUFFICES ASSUME SessionInv, [Next]_vars PROVE Abstract!Next \/ SessionStill
  OBVIOUS
<1>1. CASE ExecuteStep
  <2>1. CASE BatchDone
    <3>1. UNCHANGED <<calls, cursor, pending, decisions>> /\ (InFlight' <=> InFlight)
      BY <2>1 DEF BatchDone, InFlight, historyVars
    <3>. QED
      BY <3>1, Still
  <2>. QED
    BY <1>1, <2>1, QueueServes, FinishServes DEF ExecuteStep
<1>2. CASE ProviderStep
  <2>1. CASE \/ StepMiddlewareFails \/ ProviderFails \/ SkillFails \/ FinalText
             \/ ContextOverflow \/ AssistantText \/ MaxStepsExceeded
    <3>1. UNCHANGED <<calls, cursor, pending, decisions>> /\ (InFlight' <=> InFlight)
      BY <2>1 DEF StepMiddlewareFails, ProviderFails, SkillFails, FinalText,
         ContextOverflow, AssistantText, MaxStepsExceeded, EndRun, InStep, InFlight,
         historyVars
    <3>. QED
      BY <3>1, Still
  <2>. QED
    BY <1>2, <2>1, BatchAsks DEF ProviderStep
<1>3. CASE PushUserInput \/ StartRun \/ RunWhilePending \/ BeforeRun \/ BeforeRunFails
             \/ UNCHANGED vars
  <2>1. UNCHANGED <<calls, cursor, pending, decisions>> /\ (InFlight' <=> InFlight)
    BY <1>3 DEF PushUserInput, StartRun, RunWhilePending, BeforeRun, BeforeRunFails,
       InFlight, vars, loopVars, historyVars
  <2>. QED
    BY <2>1, Still
<1>4. CASE Drop
  BY <1>4, DropGivesUp
<1>5. CASE ResumeStep
  <2>1. ASSUME NEW about \in asked,
               ResumeNotFound(about) \/ \E args \in Args : EditInvalid(about, args)
        PROVE  SessionStill
    <3>1. UNCHANGED <<calls, cursor, pending, decisions>> /\ (InFlight' <=> InFlight)
      BY <2>1 DEF ResumeNotFound, EditInvalid, InFlight, loopVars, historyVars
    <3>. QED
      BY <3>1, Still
  <2>2. ASSUME NEW about \in asked, Approve(about) \/ Reject(about)
        PROVE  Abstract!Next
    BY <2>2, DecisionServes DEF Approve, Reject
  <2>3. ASSUME NEW about \in asked, NEW args \in Args, Edit(about, args)
        PROVE  Abstract!Next
    BY <2>3, DecisionServes DEF Edit
  <2>. QED
    BY <1>5, <2>1, <2>2, <2>3 DEF ResumeStep
<1>. QED
  BY <1>1, <1>2, <1>3, <1>4, <1>5 DEF Next, RunnerStep, CallerStep

\* Every run of the runner is one of Session: whatever is interrupted, resumed,
\* refused, dropped or failed, calls are served in the order they were asked
\* for, one at a time, what a human must decide waits for that decision, and a
\* call with its answer stays as it is.
THEOREM SessionCorrect == Spec => ImplementsSession
<1>1. Init => SessionInv
  <2> SUFFICES ASSUME Init PROVE SessionInv
    OBVIOUS
  <2>. QED
    BY InitialType DEF SessionInv, RanInv, RanInOrder, AnsweredInv, AnsweredInOrder, OwedInv,
       FlightInv, Init, InFlight, Settled
<1>2. Init => Abstract!Init
  BY DEF Init, Abstract!Init, SessionFates, Held, Decided
<1>3. SessionInv /\ [Next]_vars => SessionInv'
  BY SessionStep
<1>4. SessionInv /\ [Next]_vars => [Abstract!Next]_<<SessionFates, Held, Decided>>
  BY SessionServes DEF SessionStill
<1>. QED
  BY <1>1, <1>2, <1>3, <1>4, PTL DEF Spec, ImplementsSession, Abstract!Spec

-----------------------------------------------------------------------------
(* The command drives the runner through the runner's own operations.        *)

\* A typed line reaches the runner as a resumption of an interrupt that was
\* returned, or as nothing at all.
LEMMA HumanStepRefines == HumanStep => Next \/ UNCHANGED vars
<1> SUFFICES ASSUME HumanStep PROVE Next \/ UNCHANGED vars
  OBVIOUS
<1>1. CASE TypeApprove
  <2>1. Approve(shown) \/ ResumeNotFound(shown)
    BY <1>1 DEF TypeApprove
  <2>2. shown \in asked
    BY <2>1 DEF Approve, Resolve, ResumeNotFound
  <2>. QED
    BY <2>1, <2>2 DEF Next, CallerStep, ResumeStep
<1>2. CASE TypeReject
  <2>1. Reject(shown) \/ ResumeNotFound(shown)
    BY <1>2 DEF TypeReject
  <2>2. shown \in asked
    BY <2>1 DEF Reject, Resolve, ResumeNotFound
  <2>. QED
    BY <2>1, <2>2 DEF Next, CallerStep, ResumeStep
<1>3. CASE TypeArgs
  <2>1. PICK args \in Args :
          Edit(shown, args) \/ EditInvalid(shown, args) \/ ResumeNotFound(shown)
    BY <1>3 DEF TypeArgs
  <2>2. shown \in asked
    BY <2>1 DEF Edit, EditInvalid, Resolve, ResumeNotFound
  <2>. QED
    BY <2>1, <2>2 DEF Next, CallerStep, ResumeStep
<1>4. CASE TypeEdit \/ ArgsInvalid \/ LineUnreadable
  BY <1>4 DEF TypeEdit, ArgsInvalid, LineUnreadable, Exit
<1>. QED
  BY <1>1, <1>2, <1>3, <1>4 DEF HumanStep

LEMMA StepRefines == [CliNext]_allVars => [Next]_vars
<1> SUFFICES ASSUME [CliNext]_allVars PROVE Next \/ UNCHANGED vars
  OBVIOUS
<1>1. CASE PushInput \/ FirstRun \/ Await
  BY <1>1 DEF PushInput, FirstRun, Await, Next, CallerStep
<1>2. CASE Ask \/ Finish
  BY <1>2 DEF Ask, Finish, Exit
<1>3. CASE HumanStep
  BY <1>3, HumanStepRefines
<1>4. CASE Exited \/ UNCHANGED allVars
  BY <1>4 DEF Exited, allVars
<1>. QED
  BY <1>1, <1>2, <1>3, <1>4 DEF CliNext, ProcessStep

\* The run command never leaves the runner's protocol: whatever the human
\* types, its behaviours are behaviours of ResumableRunner.
THEOREM CommandIsACaller == CliSpec => Spec
<1>1. CliInit => Init
  BY DEF CliInit
<1>. QED
  BY <1>1, StepRefines, PTL DEF CliSpec, Spec

-----------------------------------------------------------------------------
(* The runner under this caller.                                             *)

\* Calls asked about stay asked about, and the runner counts with numbers.
LEMMA RunnerFacts ==
  ASSUME TypeInv
  PROVE  /\ pending \in Nat /\ cursor \in Nat \ {0}
         /\ decisions \in Seq(Decision) /\ Len(decisions) \in Nat
         /\ pending # 0 => pc = "idle"
BY DEF TypeInv, TypeOK, ControlInv

\* By itself the runner decides nothing, and only an interrupt suspends it.
LEMMA OwnStep ==
  ASSUME TypeInv, RunnerInv, RunnerStep
  PROVE  /\ pc # "idle" /\ UNCHANGED decisions /\ asked \subseteq asked'
         /\ RunnerInv'
<1>1. pc # "idle" /\ pending = 0 /\ output # "interrupted" /\ cursor # 0
  <2>1. pc # "idle"
    BY DEF RunnerStep, BeforeRun, BeforeRunFails, ProviderStep, ExecuteStep,
       StepMiddlewareFails, ProviderFails, SkillFails, FinalText, ContextOverflow,
       AssistantText, MaxStepsExceeded, ToolCalls, SkillCalls, InStep, RefuseCall,
       InterruptCall, UnknownTool, StartTool, Pop, FinishTool, BatchDone
  <2>. QED
    BY <2>1, RunnerFacts DEF RunnerInv
<1>2. CASE InterruptCall
  <2>1. /\ pending' = cursor /\ asked' = asked \cup {cursor} /\ pc' = "idle"
        /\ output' = "interrupted" /\ UNCHANGED <<decisions, dropped>>
    BY <1>2 DEF InterruptCall, Pop
  <2>. QED
    BY <1>1, <2>1 DEF RunnerInv
<1>3. CASE UNCHANGED <<decisions, asked, dropped, pending>> /\ output' # "interrupted"
  BY <1>1, <1>3 DEF RunnerInv
<1>4. CASE RefuseCall \/ UnknownTool \/ StartTool \/ FinishTool \/ BatchDone
  <2>1. UNCHANGED <<decisions, asked, dropped, pending, output>>
    BY <1>4 DEF RefuseCall, UnknownTool, StartTool, Pop, FinishTool, BatchDone, historyVars
  <2>. QED
    BY <1>1, <1>3, <2>1
<1>5. CASE BeforeRun \/ BeforeRunFails
  BY <1>1, <1>3, <1>5 DEF BeforeRun, BeforeRunFails, historyVars
<1>6. CASE ProviderStep
  BY <1>1, <1>3, <1>6 DEF ProviderStep, StepMiddlewareFails, ProviderFails, SkillFails,
     FinalText, ContextOverflow, AssistantText, MaxStepsExceeded, EndRun, ToolCalls,
     SkillCalls, Enqueue, historyVars
<1>. QED
  BY <1>2, <1>4, <1>5, <1>6 DEF RunnerStep, ExecuteStep

\* Nor does it decide anything when the command pushes its input and starts it.
LEMMA StartStep ==
  ASSUME TypeInv, RunnerInv, PushUserInput \/ StartRun
  PROVE  /\ pc = "idle" /\ UNCHANGED <<decisions, asked>> /\ RunnerInv'
<1>1. /\ pc = "idle" /\ pending = 0
      /\ UNCHANGED <<decisions, asked, dropped, pending, output>>
  BY DEF PushUserInput, StartRun, historyVars
<1>. QED
  BY <1>1 DEF RunnerInv

\* A decision that is applied is the next one, about the pending call.
LEMMA ResolveStep ==
  ASSUME TypeInv, RunnerInv, NEW about, NEW kind, NEW args, Resolve(about, kind, args)
  PROVE  /\ decisions' = Append(decisions,
              [call |-> pending, about |-> about, kind |-> kind, args |-> args])
         /\ UNCHANGED asked /\ RunnerInv'
<1>1. /\ pending # 0 /\ pending' = 0 /\ output' = "none" /\ UNCHANGED <<asked, dropped>>
      /\ decisions' = Append(decisions,
           [call |-> pending, about |-> about, kind |-> kind, args |-> args])
  BY DEF Resolve, Matches
<1>2. decisions \in Seq(Decision) /\ Len(decisions) \in Nat
  BY RunnerFacts
<1>3. /\ DOMAIN decisions' = DOMAIN decisions \cup {Len(decisions) + 1}
      /\ \A k \in DOMAIN decisions : decisions'[k] = decisions[k]
      /\ decisions'[Len(decisions) + 1].call = pending
  BY <1>1, <1>2
<1>4. {decisions'[k].call : k \in DOMAIN decisions'}
        = {decisions[k].call : k \in DOMAIN decisions} \cup {pending}
  BY <1>2, <1>3
<1>. QED
  BY <1>1, <1>4 DEF RunnerInv

\* A resumption that is refused changes nothing but the output.
LEMMA RefusedStep ==
  ASSUME TypeInv, RunnerInv, NEW about, NEW args, EditInvalid(about, args)
  PROVE  /\ UNCHANGED <<decisions, asked, pc, pending>> /\ output' = "invalid_resume"
         /\ RunnerInv'
<1>1. /\ UNCHANGED <<decisions, asked, dropped, pc, pending>>
      /\ output' = "invalid_resume"
  BY DEF EditInvalid, historyVars, loopVars
<1>. QED
  BY <1>1 DEF RunnerInv

-----------------------------------------------------------------------------
(* The dialogue.                                                             *)

\* An answer that is applied becomes the decision of the same number.
LEMMA AppliedAnswer ==
  ASSUME TypeInv, DialogueInv, Asking, NEW args \in Args,
         NEW kind \in {"approve", "reject", "edit"},
         Resolve(shown, kind, args), Answer(kind, args)
  PROVE  DialogueInv'
<1>1. /\ decisions' = Append(decisions,
           [call |-> pending, about |-> shown, kind |-> kind, args |-> args])
      /\ UNCHANGED asked /\ RunnerInv'
  BY ResolveStep DEF DialogueInv
<1>2. /\ decisions \in Seq(Decision) /\ answers \in Seq(Answered)
      /\ Len(answers) = Len(decisions) /\ Len(decisions) \in Nat
      /\ shown = pending /\ pending \in Nat /\ mode = "interactive"
  BY RunnerFacts DEF DialogueInv, ScreenInv, Asking
<1>3. /\ answers' = Append(answers, [call |-> shown, kind |-> kind, args |-> args])
      /\ cli' = "awaiting" /\ UNCHANGED <<mode, shown, exit>>
  BY DEF Answer
<1>4. [call |-> shown, kind |-> kind, args |-> args] \in Answered
  BY <1>2 DEF Answered
<1>5. answers' \in Seq(Answered) /\ Len(answers') = Len(decisions')
  BY <1>1, <1>2, <1>3, <1>4
<1>6. ScreenInv'
  BY <1>1, <1>3, <1>2, <1>5 DEF DialogueInv, ScreenInv, Asking
<1>7. TypedInv'
  <2>1. ASSUME NEW k \in DOMAIN decisions'
        PROVE  /\ k \in DOMAIN answers'
               /\ [call |-> decisions'[k].call, kind |-> decisions'[k].kind,
                   args |-> decisions'[k].args] = answers'[k]
    <3>1. CASE k \in DOMAIN decisions
      <4>1. decisions'[k] = decisions[k] /\ answers'[k] = answers[k] /\ k \in DOMAIN answers'
        BY <1>1, <1>2, <1>3, <3>1
      <4>. QED
        BY <3>1, <4>1 DEF DialogueInv, TypedInv
    <3>2. CASE k = Len(decisions) + 1
      <4>1. /\ decisions'[k] = [call |-> pending, about |-> shown, kind |-> kind, args |-> args]
            /\ answers'[k] = [call |-> shown, kind |-> kind, args |-> args]
            /\ k \in DOMAIN answers'
        BY <1>1, <1>2, <1>3, <3>2
      <4>. QED
        BY <1>2, <4>1
    <3>. QED
      BY <1>1, <1>2, <2>1, <3>1, <3>2
  <2>. QED
    BY <2>1 DEF TypedInv
<1>. QED
  BY <1>1, <1>6, <1>7 DEF DialogueInv

\* An edit that is refused is the answer too many, and the last one.
LEMMA RefusedAnswer ==
  ASSUME TypeInv, DialogueInv, Asking, NEW args \in Args,
         EditInvalid(shown, args), Answer("edit", args)
  PROVE  DialogueInv'
<1>1. /\ UNCHANGED <<decisions, asked, pc, pending>> /\ output' = "invalid_resume"
      /\ RunnerInv'
  BY RefusedStep DEF DialogueInv
<1>2. /\ answers \in Seq(Answered) /\ Len(answers) = Len(decisions)
      /\ Len(decisions) \in Nat /\ pc = "idle" /\ shown = pending /\ pending \in Nat
      /\ mode = "interactive"
  BY RunnerFacts DEF DialogueInv, ScreenInv, Asking
<1>3. /\ answers' = Append(answers, [call |-> shown, kind |-> "edit", args |-> args])
      /\ cli' = "awaiting" /\ UNCHANGED <<mode, shown, exit>>
  BY DEF Answer
<1>4. [call |-> shown, kind |-> "edit", args |-> args] \in Answered
  BY <1>2 DEF Answered
<1>5. /\ answers' \in Seq(Answered) /\ Len(answers') = Len(decisions') + 1
      /\ \A k \in DOMAIN answers : k \in DOMAIN answers' /\ answers'[k] = answers[k]
  BY <1>1, <1>2, <1>3, <1>4
<1>6. ScreenInv'
  BY <1>1, <1>2, <1>3, <1>5 DEF DialogueInv, ScreenInv, Asking
<1>7. TypedInv'
  BY <1>1, <1>5 DEF DialogueInv, TypedInv
<1>. QED
  BY <1>1, <1>6, <1>7 DEF DialogueInv

\* The interrupt on the screen is the pending one: it is always found.
LEMMA ScreenFound ==
  ASSUME DialogueInv, Asking, NEW about, about = shown
  PROVE  ~ResumeNotFound(about)
BY DEF DialogueInv, ScreenInv, Asking, ResumeNotFound, Matches

LEMMA DialogueHuman ==
  ASSUME TypeInv, DialogueInv, HumanStep
  PROVE  DialogueInv'
<1>0. Asking
  BY DEF HumanStep, TypeApprove, TypeReject, TypeEdit, TypeArgs, ArgsInvalid,
     LineUnreadable, Asking
<1>1. ~ResumeNotFound(shown)
  BY <1>0, ScreenFound
<1>2. calls[shown].args \in Args /\ calls[pending].args = calls[shown].args
  <2>1. shown = pending /\ pending \in 1 .. Len(calls) /\ calls \in Seq(Call)
    BY <1>0 DEF DialogueInv, ScreenInv, TypeInv, TypeOK
  <2>2. calls[pending] \in Call
    BY <2>1, ElementOfSeq
  <2>. QED
    BY <2>1, <2>2 DEF Call
<1>3. CASE TypeApprove
  <2>1. Resolve(shown, "approve", calls[shown].args) /\ Answer("approve", calls[shown].args)
    BY <1>1, <1>2, <1>3 DEF TypeApprove, Approve
  <2>. QED
    BY <1>0, <1>2, <2>1, AppliedAnswer
<1>4. CASE TypeReject
  <2>1. Resolve(shown, "reject", calls[shown].args) /\ Answer("reject", calls[shown].args)
    BY <1>1, <1>2, <1>4 DEF TypeReject, Reject
  <2>. QED
    BY <1>0, <1>2, <2>1, AppliedAnswer
<1>5. CASE TypeArgs
  <2>1. PICK args \in Args : Answer("edit", args)
                             /\ (Edit(shown, args) \/ EditInvalid(shown, args))
    BY <1>1, <1>5 DEF TypeArgs
  <2>2. CASE Edit(shown, args)
    <3>1. Resolve(shown, "edit", args)
      BY <2>2 DEF Edit
    <3>. QED
      BY <1>0, <2>1, <3>1, AppliedAnswer
  <2>3. CASE EditInvalid(shown, args)
    BY <1>0, <2>1, <2>3, RefusedAnswer
  <2>. QED
    BY <2>1, <2>2, <2>3
<1>6. CASE TypeEdit \/ ArgsInvalid \/ LineUnreadable
  <2>1. /\ UNCHANGED <<decisions, asked, pending, output, dropped, pc, mode, shown, answers>>
        /\ cli' \in {"decision", "edit", "exited"}
        /\ cli' # "exited" => UNCHANGED exit
    BY <1>6 DEF TypeEdit, ArgsInvalid, LineUnreadable, Exit, vars, loopVars, historyVars
  <2>2. Len(answers) = Len(decisions) /\ exit = "none"
    BY <1>0 DEF DialogueInv, ScreenInv, Asking
  <2>3. RunnerInv' /\ TypedInv'
    BY <2>1 DEF DialogueInv, RunnerInv, TypedInv
  <2>4. ScreenInv'
    BY <1>0, <2>1, <2>2 DEF DialogueInv, ScreenInv, Asking
  <2>. QED
    BY <2>3, <2>4 DEF DialogueInv
<1>. QED
  BY <1>3, <1>4, <1>5, <1>6 DEF HumanStep

LEMMA DialogueProcess ==
  ASSUME TypeInv, DialogueInv, ProcessStep
  PROVE  DialogueInv'
<1>0. /\ Len(answers) \in Nat /\ Len(decisions) \in Nat
      /\ pc # "idle" \/ cli = "start" => Len(answers) = Len(decisions)
  BY RunnerFacts DEF DialogueInv, ScreenInv
<1>1. CASE PushInput \/ FirstRun
  <2>1. /\ UNCHANGED <<decisions, asked, mode, shown, answers, exit>> /\ RunnerInv'
        /\ cli = "start" /\ cli' \in {"start", "awaiting"}
    BY <1>1, StartStep DEF PushInput, FirstRun, DialogueInv, cliVars
  <2>2. ScreenInv'
    BY <1>0, <2>1 DEF DialogueInv, ScreenInv, Asking
  <2>. QED
    BY <2>1, <2>2 DEF DialogueInv, TypedInv
<1>2. CASE Await
  <2>1. /\ cli = "awaiting" /\ UNCHANGED <<mode, cli, shown, answers, exit>>
        /\ pc # "idle" /\ UNCHANGED decisions /\ asked \subseteq asked' /\ RunnerInv'
    BY <1>2, OwnStep DEF Await, DialogueInv, cliVars
  <2>2. ScreenInv'
    BY <1>0, <2>1 DEF DialogueInv, ScreenInv, Asking
  <2>. QED
    BY <2>1, <2>2 DEF DialogueInv, TypedInv
<1>3. CASE Ask
  <2>1. /\ UNCHANGED <<decisions, asked, pending, output, dropped, pc, mode, answers, exit>>
        /\ mode = "interactive" /\ output = "interrupted" /\ pc = "idle"
        /\ cli' = "decision" /\ shown' = pending /\ cli = "awaiting"
    BY <1>3 DEF Ask, Returned, vars, loopVars, historyVars
  <2>2. pending # 0 /\ pending \in asked /\ Len(answers) = Len(decisions)
    BY <2>1 DEF DialogueInv, RunnerInv, ScreenInv
  <2>3. RunnerInv' /\ TypedInv'
    BY <2>1 DEF DialogueInv, RunnerInv, TypedInv
  <2>4. ScreenInv'
    BY <2>1, <2>2 DEF DialogueInv, ScreenInv, Asking
  <2>. QED
    BY <2>3, <2>4 DEF DialogueInv
<1>4. CASE Finish
  <2>1. /\ UNCHANGED <<decisions, asked, pending, output, dropped, pc, mode, shown, answers>>
        /\ cli = "awaiting" /\ cli' = "exited"
    BY <1>4 DEF Finish, Returned, Exit, vars, loopVars, historyVars
  <2>2. RunnerInv' /\ TypedInv'
    BY <2>1 DEF DialogueInv, RunnerInv, TypedInv
  <2>3. ScreenInv'
    BY <2>1 DEF DialogueInv, ScreenInv, Asking
  <2>. QED
    BY <2>2, <2>3 DEF DialogueInv
<1>. QED
  BY <1>1, <1>2, <1>3, <1>4 DEF ProcessStep

LEMMA DialogueStep == TypeInv /\ DialogueInv /\ [CliNext]_allVars => DialogueInv'
<1> SUFFICES ASSUME TypeInv, DialogueInv, [CliNext]_allVars PROVE DialogueInv'
  OBVIOUS
<1>1. CASE Exited \/ UNCHANGED allVars
  BY <1>1 DEF Exited, allVars, vars, cliVars, loopVars, historyVars, DialogueInv,
     RunnerInv, ScreenInv, TypedInv, Asking
<1>. QED
  BY <1>1, DialogueProcess, DialogueHuman DEF CliNext

LEMMA InitialDialogue == CliInit => DialogueInv
<1> SUFFICES ASSUME CliInit PROVE DialogueInv
  OBVIOUS
<1>1. /\ answers = <<>> /\ decisions = <<>> /\ asked = {} /\ pending = 0
      /\ output = "none" /\ cli = "start" /\ shown = 0 /\ exit = "none"
      /\ mode \in Modes /\ ~dropped
  BY Zenon DEF CliInit, Init
<1>2. answers \in Seq(Answered)
  BY <1>1, EmptySeq
<1>3. RunnerInv
  BY <1>1 DEF RunnerInv
<1>4. ScreenInv
  BY <1>1, <1>2 DEF ScreenInv, Asking
<1>. QED
  BY <1>1, <1>3, <1>4 DEF DialogueInv, TypedInv

-----------------------------------------------------------------------------
(* The end of the process.                                                   *)

ExitTold == ExitHonest /\ exit \in {"none", "0", "1", "2"}

\* A session that ends between two runs and is not suspended owes no answer.
LEMMA NothingLeft ==
  ASSUME TypeInv, OwedInv, DialogueInv, pc = "idle", pending = 0
  PROVE  \A n \in DOMAIN calls : Answers(n) # {}
<1>1. Settled = Len(calls) /\ DOMAIN calls = 1 .. Len(calls)
  BY DEF TypeInv, TypeOK, ControlInv, Settled, InFlight
<1>. QED
  BY <1>1 DEF OwedInv, DialogueInv, RunnerInv

LEMMA ExitStep ==
  TypeInv /\ OwedInv /\ DialogueInv /\ ExitTold /\ [CliNext]_allVars => ExitTold'
<1> SUFFICES ASSUME TypeInv, OwedInv, DialogueInv, ExitTold, [CliNext]_allVars
             PROVE  ExitTold'
  OBVIOUS
<1>1. CASE exit' = "none"
  BY <1>1 DEF ExitTold, ExitHonest
<1>2. CASE Finish
  <2>1. /\ UNCHANGED <<vars, mode, answers, unread>> /\ pc = "idle" /\ exit' = Code
        /\ output # "interrupted" \/ mode = "non_interactive"
    BY <1>2 DEF Finish, Returned, Exit
  <2>2. UNCHANGED <<messages, calls, pending, asked, decisions, output>>
    BY <2>1 DEF vars, historyVars
  <2>3. CASE output = "interrupted"
    <3>1. exit' = "2" /\ pending # 0 /\ mode = "non_interactive" /\ answers = <<>>
      BY <2>1, <2>3 DEF Code, DialogueInv, RunnerInv, ScreenInv
    <3>. QED
      BY <2>1, <2>2, <3>1 DEF ExitTold, ExitHonest
  <2>4. CASE output = "completed"
    <3>1. exit' = "0" /\ pending = 0
      BY <2>1, <2>4 DEF Code, DialogueInv, RunnerInv
    <3>2. asked = {decisions[k].call : k \in DOMAIN decisions}
      BY <3>1 DEF DialogueInv, RunnerInv
    <3>3. \A n \in DOMAIN calls : Answers(n)' # {}
      BY <2>1, <2>2, <3>1, NothingLeft DEF Answers
    <3>. QED
      BY <2>2, <3>1, <3>2, <3>3 DEF ExitTold, ExitHonest
  <2>5. CASE output \notin {"interrupted", "completed"}
    <3>1. exit' = "1" /\ (pending # 0 => output = "invalid_resume")
      BY <2>1, <2>5 DEF Code, DialogueInv, RunnerInv
    <3>. QED
      BY <2>2, <3>1 DEF ExitTold, ExitHonest
  <2>. QED
    BY <2>3, <2>4, <2>5
<1>3. CASE LineUnreadable
  BY <1>3 DEF LineUnreadable, Exit, ExitTold, ExitHonest
<1>4. CASE Exited \/ UNCHANGED allVars
  BY <1>4 DEF Exited, allVars, vars, cliVars, historyVars, ExitTold, ExitHonest, Answers
<1>5. CASE cli # "exited" /\ UNCHANGED exit
  BY <1>1, <1>5 DEF DialogueInv, ScreenInv
<1>6. CASE PushInput \/ FirstRun \/ Await \/ Ask
  BY <1>5, <1>6 DEF PushInput, FirstRun, Await, Ask, Returned, cliVars
<1>7. CASE TypeApprove \/ TypeReject \/ TypeEdit \/ TypeArgs \/ ArgsInvalid
  BY <1>5, <1>7 DEF TypeApprove, TypeReject, TypeEdit, TypeArgs, ArgsInvalid, Answer
<1>. QED
  BY <1>2, <1>3, <1>4, <1>6, <1>7 DEF CliNext, ProcessStep, HumanStep

\* The dialogue's invariant, beside the runner's own.
LEMMA DialogueAlways == CliSpec => [](TypeInv /\ OwedInv /\ DialogueInv /\ ExitTold)
<1>1. CliInit => TypeInv /\ OwedInv /\ DialogueInv /\ ExitTold
  BY InitialType, InitialDialogue
     DEF CliInit, Init, OwedInv, Settled, InFlight, ExitTold, ExitHonest
<1>2. TypeInv /\ OwedInv /\ DialogueInv /\ ExitTold /\ [CliNext]_allVars
        => TypeInv' /\ OwedInv' /\ DialogueInv' /\ ExitTold'
  BY StepRefines, NextType, OwedStep, DialogueStep, ExitStep
<1>. QED
  BY <1>1, <1>2, PTL DEF CliSpec

\* Every decision the runner applies is the answer typed to the call on the
\* screen, in order and once, whatever ids the provider repeats.
THEOREM DecisionsCorrect == CliSpec => []DecisionsAsTyped
<1>1. TypeInv /\ DialogueInv /\ ExitTold => DecisionsAsTyped
  <2> SUFFICES ASSUME TypeInv, DialogueInv, ExitTold PROVE DecisionsAsTyped
    OBVIOUS
  <2>1. shown \in 0 .. Len(calls)
    BY DEF DialogueInv, ScreenInv, TypeInv, TypeOK
  <2>2. CliTypeOK
    BY <2>1 DEF DialogueInv, ScreenInv, ExitTold, CliTypeOK
  <2>3. Len(answers) \in Nat /\ Len(decisions) \in Nat
    BY RunnerFacts DEF DialogueInv, ScreenInv
  <2>. QED
    BY <2>2, <2>3 DEF DialogueInv, ScreenInv, TypedInv, DecisionsAsTyped
<1>. QED
  BY <1>1, DialogueAlways, PTL

\* The exit code tells a shell what became of the session and of its calls.
THEOREM ExitCorrect == CliSpec => []ExitHonest
BY DialogueAlways, PTL DEF ExitTold
=============================================================================

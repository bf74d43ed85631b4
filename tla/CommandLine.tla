------------------------------ MODULE CommandLine ------------------------------
(***************************************************************************)
(* The run command of crates/deepagents-cli/src/main.rs: one process, one  *)
(* ResumableRunner, one input.  In interactive mode the human at the       *)
(* terminal is asked about every interrupt and the runner is resumed with  *)
(* the answer; else the first interrupt ends the process.                  *)
(*                                                                         *)
(* Nobody else calls the runner: of its caller's operations only those of  *)
(* this module happen.  A line that is no decision is asked for again,     *)
(* which changes nothing and is left out.                                  *)
(***************************************************************************)
EXTENDS ResumableRunner

CONSTANTS
  Modes,     \* of ExecutionMode
  Flagged    \* the tools named by --interrupt-on

\* Without a flag the interactive mode holds back what changes something.
Interrupting(mode) ==
  IF Flagged = {} /\ mode = "interactive"
    THEN {"write_file", "edit_file", "delete_file", "execute"} ELSE Flagged

ASSUME CommandAssumption ==
  /\ Modes \subseteq {"interactive", "non_interactive"}
  /\ \A mode \in Modes : InterruptOn = Interrupting(mode)

VARIABLES
  mode,
  cli,       \* where the process is
  shown,     \* the suspended call whose interrupt is on the screen, 0 for none
  answers,   \* history: the answers given, each with the call it was about
  unread,    \* history: could a line not be read?
  exit       \* the exit code, "none" before

cliVars == <<mode, cli, shown, answers, unread, exit>>
allVars == <<vars, cliVars>>

-----------------------------------------------------------------------------
(* The process. *)

CliInit ==
  /\ Init
  /\ mode \in Modes
  /\ cli = "start" /\ shown = 0 /\ answers = <<>> /\ unread = FALSE /\ exit = "none"

PushInput ==
  /\ cli = "start" /\ messages = <<>>
  /\ PushUserInput
  /\ UNCHANGED cliVars

FirstRun ==
  /\ cli = "start" /\ messages # <<>>
  /\ StartRun
  /\ cli' = "awaiting"
  /\ UNCHANGED <<mode, shown, answers, unread, exit>>

\* What the runner does while the process awaits it.
Await == cli = "awaiting" /\ RunnerStep /\ UNCHANGED cliVars

Returned == cli = "awaiting" /\ pc = "idle"

\* Fault: the question is about the interrupt of the first run.
Ask_First ==
  /\ Returned /\ mode = "interactive" /\ output = "interrupted"
  /\ cli' = "decision"
  /\ shown' = IF shown = 0 THEN pending ELSE shown
  /\ UNCHANGED <<vars, mode, answers, unread, exit>>

Ask ==
  /\ Returned /\ mode = "interactive" /\ output = "interrupted"
  /\ cli' = "decision"
  /\ shown' = pending
  /\ UNCHANGED <<vars, mode, answers, unread, exit>>

\* The runner is resumed with the answer, under the id of the interrupt shown.
Answer(kind, args) ==
  /\ answers' = Append(answers, [call |-> shown, kind |-> kind, args |-> args])
  /\ cli' = "awaiting"
  /\ UNCHANGED <<mode, shown, unread, exit>>

TypeApprove ==
  /\ cli = "decision"
  /\ Answer("approve", calls[shown].args)
  /\ Approve(shown) \/ ResumeNotFound(shown)

TypeReject ==
  /\ cli = "decision"
  /\ Answer("reject", calls[shown].args)
  /\ Reject(shown) \/ ResumeNotFound(shown)

TypeEdit ==
  /\ cli = "decision"
  /\ cli' = "edit"
  /\ UNCHANGED <<vars, mode, shown, answers, unread, exit>>

TypeArgs ==
  /\ cli = "edit"
  /\ \E args \in Args :
       /\ Answer("edit", args)
       /\ Edit(shown, args) \/ EditInvalid(shown, args) \/ ResumeNotFound(shown)

\* Arguments that are no JSON, the end of the input among them.
ArgsInvalid ==
  /\ cli = "edit"
  /\ cli' = "decision"
  /\ UNCHANGED <<vars, mode, shown, answers, unread, exit>>

Exit(code) ==
  /\ cli' = "exited" /\ exit' = code
  /\ UNCHANGED <<vars, mode, shown, answers>>

\* A line that cannot be read ends the process.
LineUnreadable == cli \in {"decision", "edit"} /\ Exit("1") /\ unread' = TRUE

\* Fault: whatever is no error is success.
Code_NoError == IF output \in {"completed", "interrupted"} THEN "0" ELSE "1"

Code ==
  IF output = "interrupted" THEN "2"
  ELSE IF output = "completed" THEN "0" ELSE "1"

\* No interrupt to ask about, or nobody to ask.
Finish ==
  /\ Returned
  /\ output # "interrupted" \/ mode = "non_interactive"
  /\ Exit(Code)
  /\ UNCHANGED unread

\* What a shell sees of the process when it has ended.
Exited == cli = "exited" /\ UNCHANGED allVars

ProcessStep == PushInput \/ FirstRun \/ Await \/ Ask \/ Finish

HumanStep == TypeApprove \/ TypeReject \/ TypeEdit \/ TypeArgs \/ ArgsInvalid \/ LineUnreadable

CliNext == ProcessStep \/ HumanStep \/ Exited

CliSpec == CliInit /\ [][CliNext]_allVars /\ WF_allVars(ProcessStep)

-----------------------------------------------------------------------------
(* What the command promises. *)

CliTypeOK ==
  /\ mode \in Modes
  /\ cli \in {"start", "awaiting", "decision", "edit", "exited"}
  /\ shown \in 0 .. Len(calls)
  /\ exit \in {"none", "0", "1", "2"}

\* The runner's decisions are the human's answers, each about the call on the
\* screen when it was typed, in order and none twice, also when the provider
\* uses an id again and the id of the screen no longer tells calls apart. One
\* answer at most is still without effect, the last one: an edit the runner
\* has refused.
DecisionsAsTyped ==
  /\ CliTypeOK
  /\ \A k \in DOMAIN decisions :
       /\ k \in DOMAIN answers
       /\ [call |-> decisions[k].call, kind |-> decisions[k].kind,
           args |-> decisions[k].args] = answers[k]
  /\ Len(answers) <= Len(decisions) + 1
  /\ Len(answers) > Len(decisions) => output = "invalid_resume"

\* The exit code tells the truth about the session: 0 only when no call is
\* suspended, every call has its answer and every interrupt shown its
\* decision; 2 only when a call waits for a human whom nobody asked; and a
\* call is given up with code 1 only after an edit the runner refuses or a
\* line that cannot be read.
ExitHonest ==
  /\ exit = "0" => /\ pending = 0 /\ asked = {decisions[k].call : k \in DOMAIN decisions}
                 /\ \A n \in DOMAIN calls : Answers(n) # {}
  /\ exit = "2" => pending # 0 /\ answers = <<>> /\ mode = "non_interactive"
  /\ exit = "1" /\ pending # 0 => unread \/ output = "invalid_resume"

\* The process is never stuck by itself: after every answer it asks again or
\* ends, as long as the provider and the tools return.
AnswersSettle == cli = "awaiting" ~> cli # "awaiting"
-----------------------------------------------------------------------------
(* The inductive invariant behind the theorems of ResumableRunnerProofs.     *)

Asking == cli \in {"decision", "edit"}

Answered == [call : Nat, kind : {"approve", "reject", "edit"}, args : Args]

\* The last output and the pending call tell the same story, and a call was
\* asked about exactly if it is decided or pending.
RunnerInv ==
  /\ output = "interrupted" => pc = "idle" /\ pending # 0
  /\ pending # 0 => output \in {"interrupted", "invalid_resume"}
  /\ asked = {decisions[k].call : k \in DOMAIN decisions} \cup ({pending} \ {0})
  /\ ~dropped

\* The screen shows the pending call while a decision is typed, and only a
\* refused edit leaves an answer without its decision.
ScreenInv ==
  /\ mode \in Modes
  /\ cli \in {"start", "awaiting", "decision", "edit", "exited"}
  /\ shown \in {0} \cup asked
  /\ answers \in Seq(Answered)
  /\ Asking => mode = "interactive" /\ pc = "idle" /\ pending # 0 /\ shown = pending
  /\ cli # "exited" => exit = "none"
  /\ answers # <<>> => mode = "interactive"
  /\ Len(answers) # Len(decisions) =>
       /\ Len(answers) = Len(decisions) + 1
       /\ cli \in {"awaiting", "exited"} /\ pc = "idle" /\ output = "invalid_resume"

TypedInv ==
  \A k \in DOMAIN decisions :
    /\ k \in DOMAIN answers
    /\ [call |-> decisions[k].call, kind |-> decisions[k].kind,
        args |-> decisions[k].args] = answers[k]

DialogueInv == RunnerInv /\ ScreenInv /\ TypedInv
=============================================================================

------------------------------ MODULE AcpServer ------------------------------
(***************************************************************************)
(* The HTTP server of crates/deepagents-acp/src/server.rs: sessions behind *)
(* a map, each with a mutex of its own; the handlers of concurrent clients;*)
(* the session's AgentState and its version, next to the copy its runner   *)
(* works on.                                                               *)
(*                                                                         *)
(* A state is what its filesystem mirror says: for every file the number   *)
(* of the write it shows, 0 when it has no record.  The runner is what     *)
(* ResumableRunner promises of it: it works for a while, writes files, and *)
(* ends with or without a pending interrupt, whose id is new each time.    *)
(* The steps between awaits are the actions, so a client that goes away    *)
(* (Drop) leaves its handler's work where it stands; a file write that was *)
(* already handed to the blocking pool (tokio::fs::write) lands later.     *)
(* A command is taken for the change it makes to one file.                 *)
(***************************************************************************)
EXTENDS Naturals, Sequences, FiniteSets

CONSTANTS
  Clients,      \* connections, each with one request in flight
  Sessions,     \* session ids the server may hand out
  Files,        \* file paths
  None,         \* no client, no file, no runner
  CanDrop,      \* may a client go away before its answer?
  MaxRequests,  \* bound: requests sent in all, and interrupts of one session
  MaxWrites     \* bound: files written in all; it also ends every run

ASSUME NoneAssumption ==
  None \notin Clients \cup Sessions \cup Files /\ None \notin [Files -> Nat]
ASSUME BoundsAssumption ==
  MaxRequests \in Nat /\ MaxWrites \in Nat /\ CanDrop \in BOOLEAN

VARIABLES
  known,      \* the sessions in the map
  queue,      \* clients waiting for a session's mutex, first come first served
  holder,     \* the client that holds it
  closed,     \* session.closed
  state,      \* session.state
  version,    \* session.state_version
  runner,     \* the state of session.runner, None before the first run
  pending,    \* the pending interrupt of the runner, 0 when there is none
  asked,      \* interrupts the runner has raised so far
  disk,       \* the files, as the file tools of this session left them
  writing,    \* the write a tool is at: its file and its number, 0 for none
  late,       \* writes and commands nobody waits for that are not done yet
  pc,         \* where each client's handler is
  req,        \* its request
  sent,       \* requests sent
  written,    \* writes made
  seen,       \* history: the states and versions clients were told
  accepted,   \* history: the interrupt ids by which decisions were accepted
  torn,       \* history: sessions with a change their working copy has not
  behind      \* history: sessions whose runner worked on without a report

sessionVars == <<closed, state, version, runner, pending, asked, disk, writing, late>>
historyVars == <<seen, accepted, torn, behind>>
vars == <<known, queue, holder, sessionVars, pc, req, sent, written, historyVars>>

State == [Files -> Nat]
Kinds == {"new_session", "call_tool", "run", "resume", "get", "end"}
Write == [file : Files \cup {None}, number : Nat]
NoWrite == [file |-> None, number |-> 0]
Request == [kind : Kinds, session : Sessions \cup {None}, interrupt : Nat]
Seen == [session : Sessions, version : Nat, state : State, pending : Nat, told : BOOLEAN]

-----------------------------------------------------------------------------
(* Arriving, waiting, leaving. *)

\* A client names a session and, to resume it, an interrupt: the current one,
\* an older one, or one that never was.
Send(c) ==
  /\ pc[c] = "idle" /\ sent < MaxRequests
  /\ sent' = sent + 1
  /\ \E kind \in Kinds, s \in Sessions \cup {None}, i \in 0 .. MaxRequests :
       /\ (kind = "new_session") <=> (s = None)
       /\ kind # "resume" => i = 0
       /\ kind = "resume" => i \in 1 .. (asked[s] + 1)
       /\ req' = [req EXCEPT ![c] = [kind |-> kind, session |-> s, interrupt |-> i]]
  /\ pc' = [pc EXCEPT ![c] = "sent"]
  /\ UNCHANGED <<known, queue, holder, sessionVars, written, historyVars>>

NewSession(c) ==
  /\ pc[c] = "sent" /\ req[c].kind = "new_session"
  /\ \E s \in Sessions \ known : known' = known \cup {s}
  /\ pc' = [pc EXCEPT ![c] = "idle"]
  /\ UNCHANGED <<queue, holder, sessionVars, req, sent, written, historyVars>>

\* A refused root, or no id left in Sessions.
NewSessionFails(c) ==
  /\ pc[c] = "sent" /\ req[c].kind = "new_session"
  /\ pc' = [pc EXCEPT ![c] = "idle"]
  /\ UNCHANGED <<known, queue, holder, sessionVars, req, sent, written, historyVars>>

NotFound(c) ==
  /\ pc[c] = "sent" /\ req[c].kind # "new_session"
  /\ req[c].session \notin known
  /\ pc' = [pc EXCEPT ![c] = "idle"]
  /\ UNCHANGED <<known, queue, holder, sessionVars, req, sent, written, historyVars>>

\* sessions.get(..).cloned(), then session.lock().
Wait(c) ==
  /\ pc[c] = "sent" /\ req[c].session \in known
  /\ queue' = [queue EXCEPT ![req[c].session] = Append(@, c)]
  /\ pc' = [pc EXCEPT ![c] = "waiting"]
  /\ UNCHANGED <<known, holder, sessionVars, req, sent, written, historyVars>>

Lock(c) ==
  LET s == req[c].session
  IN  /\ pc[c] = "waiting"
      /\ holder[s] = None /\ queue[s] # <<>> /\ Head(queue[s]) = c
      /\ holder' = [holder EXCEPT ![s] = c]
      /\ queue' = [queue EXCEPT ![s] = Tail(@)]
      /\ pc' = [pc EXCEPT ![c] = "locked"]
      /\ UNCHANGED <<known, sessionVars, req, sent, written, historyVars>>

\* The handler answers and its guard is dropped.
Return(c) ==
  /\ pc' = [pc EXCEPT ![c] = "idle"]
  /\ holder' = [holder EXCEPT ![req[c].session] = None]
  /\ UNCHANGED <<known, queue, req, sent>>

Gone(c) ==
  /\ pc[c] = "locked" /\ req[c].kind # "end"
  /\ closed[req[c].session]
  /\ Return(c)
  /\ UNCHANGED <<sessionVars, written, historyVars>>

\* Fault: closed was checked before the lock was taken, not after.
Serving_Unchecked(c, kind) ==
  pc[c] = "locked" /\ req[c].kind = kind

\* The handler holds the mutex and the session is open.
Serving(c, kind) ==
  pc[c] = "locked" /\ req[c].kind = kind /\ ~closed[req[c].session]

\* What an answer tells its client about the session.
Tell(s, told) ==
  seen' = seen \cup {[session |-> s, version |-> version'[s], state |-> state'[s],
                      pending |-> IF told THEN pending'[s] ELSE 0, told |-> told]}

\* Fault: the version counts only what succeeded.
NextVersion_Lazy(s) == UNCHANGED version

NextVersion(s) == version' = [version EXCEPT ![s] = @ + 1]

-----------------------------------------------------------------------------
(* call_tool *)

\* Denied, waiting for an approval call_tool cannot ask for, refused by the
\* tool, or a tool that changes no file.
CallToolReads(c) ==
  LET s == req[c].session
  IN  /\ Serving(c, "call_tool")
      /\ NextVersion(s)
      /\ UNCHANGED <<closed, state, runner, pending, asked, disk, writing, late,
                     accepted, torn, behind>>
      /\ Tell(s, FALSE)
      /\ Return(c)
      /\ UNCHANGED written

\* A tool of the session begins to change a file: it hands a write to the
\* blocking pool, or starts a command.
BeginWrite(s, f) ==
  /\ written < MaxWrites
  /\ written' = written + 1
  /\ writing' = [writing EXCEPT ![s] = [file |-> f, number |-> written + 1]]

CallToolWrites(c) ==
  LET s == req[c].session
  IN  /\ Serving(c, "call_tool")
      /\ NextVersion(s)
      /\ \E f \in Files : BeginWrite(s, f)
      /\ pc' = [pc EXCEPT ![c] = "tool"]
      /\ UNCHANGED <<known, queue, holder, closed, state, runner, pending, asked, disk,
                     late, req, sent, historyVars>>

\* The write is done; the mirror learns of it when the tool has returned.
FileWritten(c) ==
  LET s == req[c].session
      w == writing[s]
  IN  /\ pc[c] \in {"tool", "runner_tool"}
      /\ disk' = [disk EXCEPT ![s][w.file] = w.number]
      /\ pc' = [pc EXCEPT ![c] = IF @ = "tool" THEN "tool_done" ELSE "runner_tool_done"]
      /\ UNCHANGED <<known, queue, holder, closed, state, version, runner, pending, asked,
                     writing, late, req, sent, written, historyVars>>

\* The tool ends without a record. A write fails before it has opened its file,
\* or when it has truncated it, or the file cannot be read back; no command is
\* ever recorded, and it goes on when execute gives up on it.
Unrecorded(s) ==
  /\ writing' = [writing EXCEPT ![s] = NoWrite]
  /\ \/ UNCHANGED <<disk, late, torn>>
     \/ /\ disk' = [disk EXCEPT ![s][writing[s].file] = writing[s].number]
        /\ torn' = torn \cup {s} /\ UNCHANGED late
     \/ /\ late' = late \cup {[session |-> s, write |-> writing[s]]}
        /\ torn' = torn \cup {s} /\ UNCHANGED disk

\* call_tool answers with the output of the command, or with the error.
CallToolUnrecorded(c) ==
  LET s == req[c].session
  IN  /\ pc[c] = "tool"
      /\ Unrecorded(s)
      /\ UNCHANGED <<closed, state, version, runner, pending, asked, accepted, behind>>
      /\ Tell(s, FALSE)
      /\ Return(c)
      /\ UNCHANGED written

\* The write is recorded in session.state.  The runner's copy is not told.
CallToolDone(c) ==
  LET s == req[c].session
      f == writing[s].file
  IN  /\ pc[c] = "tool_done"
      /\ state' = [state EXCEPT ![s][f] = disk[s][f]]
      /\ writing' = [writing EXCEPT ![s] = NoWrite]
      /\ torn' = IF runner[s] = None THEN torn ELSE torn \cup {s}
      /\ UNCHANGED <<closed, version, runner, pending, asked, disk, late, accepted, behind>>
      /\ Tell(s, FALSE)
      /\ Return(c)
      /\ UNCHANGED written

-----------------------------------------------------------------------------
(* run and resume *)

\* No runner yet, and the request names no provider or script to make one.
RunInvalid(c) ==
  /\ Serving(c, "run")
  /\ runner[req[c].session] = None
  /\ Return(c)
  /\ UNCHANGED <<sessionVars, written, historyVars>>

\* The first run gives the runner a copy of the session's state.
Run(c) ==
  LET s == req[c].session
  IN  /\ Serving(c, "run")
      /\ pending[s] = 0
      /\ NextVersion(s)
      /\ runner' = [runner EXCEPT ![s] = IF @ = None THEN state[s] ELSE @]
      /\ pc' = [pc EXCEPT ![c] = "running"]
      /\ UNCHANGED <<known, queue, holder, closed, state, pending, asked, disk, writing,
                     late, req, sent, written, historyVars>>

\* Fault: the runner's state is not taken over when it only reports.
Report_Forgets(c) ==
  LET s == req[c].session
  IN  /\ UNCHANGED state
      /\ behind' = behind \ {s}
      /\ Tell(s, TRUE)
      /\ Return(c)

\* The output is answered and its state becomes the session's.
Report(c) ==
  LET s == req[c].session
  IN  /\ state' = [state EXCEPT ![s] = IF runner[s] = None THEN @ ELSE runner[s]]
      /\ behind' = behind \ {s}
      /\ Tell(s, TRUE)
      /\ Return(c)

\* A run of a suspended session answers with its interrupt; the input is not
\* used.
RunSuspended(c) ==
  /\ Serving(c, "run")
  /\ pending[req[c].session] # 0
  /\ NextVersion(req[c].session)
  /\ UNCHANGED <<closed, runner, pending, asked, disk, writing, late, accepted, torn>>
  /\ Report(c)
  /\ UNCHANGED written

\* Fault: any resumption of a suspended session counts.
Matches_AnyId(c) == pending[req[c].session] # 0

Matches(c) ==
  /\ pending[req[c].session] # 0
  /\ req[c].interrupt = pending[req[c].session]

\* No runner, nothing pending, another interrupt, or an edit that is not valid.
ResumeRefused(c) ==
  /\ Serving(c, "resume")
  /\ NextVersion(req[c].session)
  /\ UNCHANGED <<closed, runner, pending, asked, disk, writing, late, accepted, torn>>
  /\ Report(c)
  /\ UNCHANGED written

Resume(c) ==
  LET s == req[c].session
  IN  /\ Serving(c, "resume")
      /\ Matches(c)
      /\ NextVersion(s)
      /\ pending' = [pending EXCEPT ![s] = 0]
      /\ accepted' = [accepted EXCEPT ![s] = Append(@, req[c].interrupt)]
      /\ pc' = [pc EXCEPT ![c] = "running"]
      /\ UNCHANGED <<known, queue, holder, closed, state, runner, asked, disk, writing,
                     late, req, sent, written, seen, torn, behind>>

RunnerWrites(c) ==
  LET s == req[c].session
  IN  /\ pc[c] = "running"
      /\ \E f \in Files : BeginWrite(s, f)
      /\ pc' = [pc EXCEPT ![c] = "runner_tool"]
      /\ UNCHANGED <<known, queue, holder, closed, state, version, runner, pending,
                     asked, disk, late, req, sent, historyVars>>

RunnerRecords(c) ==
  LET s == req[c].session
      f == writing[s].file
  IN  /\ pc[c] = "runner_tool_done"
      /\ runner' = [runner EXCEPT ![s][f] = disk[s][f]]
      /\ writing' = [writing EXCEPT ![s] = NoWrite]
      /\ pc' = [pc EXCEPT ![c] = "running"]
      /\ UNCHANGED <<known, queue, holder, closed, state, version, pending, asked,
                     disk, late, req, sent, written, historyVars>>

RunnerUnrecorded(c) ==
  /\ pc[c] = "runner_tool"
  /\ Unrecorded(req[c].session)
  /\ pc' = [pc EXCEPT ![c] = "running"]
  /\ UNCHANGED <<known, queue, holder, closed, state, version, runner, pending, asked,
                 req, sent, written, seen, accepted, behind>>

\* The run ends, with a new interrupt or without.
RunnerEnds(c) ==
  LET s == req[c].session
  IN  /\ pc[c] = "running"
      /\ \/ UNCHANGED <<pending, asked>>
         \/ /\ asked[s] < MaxRequests
            /\ asked' = [asked EXCEPT ![s] = @ + 1]
            /\ pending' = [pending EXCEPT ![s] = asked[s] + 1]
      /\ UNCHANGED <<closed, version, runner, disk, writing, late, accepted, torn>>
      /\ Report(c)
      /\ UNCHANGED written

-----------------------------------------------------------------------------
(* session_state, end_session, and clients that go away. *)

GetState(c) ==
  /\ Serving(c, "get")
  /\ UNCHANGED <<sessionVars, accepted, torn, behind>>
  /\ Tell(req[c].session, TRUE)
  /\ Return(c)
  /\ UNCHANGED written

EndSession(c) ==
  /\ pc[c] = "locked" /\ req[c].kind = "end"
  /\ closed' = [closed EXCEPT ![req[c].session] = TRUE]
  /\ Return(c)
  /\ UNCHANGED <<state, version, runner, pending, asked, disk, writing, late,
                 written, historyVars>>

\* What a dropped handler's session is left with: its write still to land, or
\* landed and never recorded; its runner's work not reported.
LeaveHalfDone(c) ==
  LET s == req[c].session
  IN  /\ writing' = [writing EXCEPT ![s] = NoWrite]
      /\ late' = IF pc[c] \in {"tool", "runner_tool"}
                   THEN late \cup {[session |-> s, write |-> writing[s]]} ELSE late
      /\ torn' = IF pc[c] \in {"tool", "tool_done", "runner_tool", "runner_tool_done"}
                   THEN torn \cup {s} ELSE torn
      /\ behind' = IF pc[c] \in {"running", "runner_tool", "runner_tool_done"}
                     THEN behind \cup {s} ELSE behind

\* The handler's future is dropped before it got to the session.
DropUnserved(c) ==
  /\ CanDrop
  /\ \/ pc[c] = "sent" /\ UNCHANGED queue
     \/ /\ pc[c] = "waiting"
        /\ \E i \in DOMAIN queue[req[c].session] :
             /\ queue[req[c].session][i] = c
             /\ queue' = [queue EXCEPT ![req[c].session] =
                            SubSeq(@, 1, i - 1) \o SubSeq(@, i + 1, Len(@))]
  /\ pc' = [pc EXCEPT ![c] = "idle"]
  /\ UNCHANGED <<known, holder, sessionVars, req, sent, written, historyVars>>

\* Fault: a dropped handler keeps the mutex.
Drop_KeepsLock(c) ==
  /\ CanDrop /\ pc[c] \notin {"idle", "sent", "waiting"}
  /\ pc' = [pc EXCEPT ![c] = "idle"]
  /\ LeaveHalfDone(c)
  /\ UNCHANGED <<known, queue, holder, closed, state, version, runner, pending, asked, disk,
                 req, sent, written, seen, accepted>>

\* The handler's future is dropped with the mutex, which it releases.
Drop(c) ==
  /\ CanDrop /\ pc[c] \notin {"idle", "sent", "waiting"}
  /\ pc' = [pc EXCEPT ![c] = "idle"]
  /\ holder' = [holder EXCEPT ![req[c].session] = None]
  /\ LeaveHalfDone(c)
  /\ UNCHANGED <<known, queue, closed, state, version, runner, pending, asked, disk,
                 req, sent, written, seen, accepted>>

\* A write or a command that nobody waits for is done after all.
LateWrite(w) ==
  /\ late' = late \ {w}
  /\ disk' = [disk EXCEPT ![w.session][w.write.file] = w.write.number]
  /\ UNCHANGED <<known, queue, holder, closed, state, version, runner, pending, asked,
                 writing, pc, req, sent, written, historyVars>>

-----------------------------------------------------------------------------
Init ==
  /\ known = {}
  /\ queue = [s \in Sessions |-> <<>>]
  /\ holder = [s \in Sessions |-> None]
  /\ closed = [s \in Sessions |-> FALSE]
  /\ state = [s \in Sessions |-> [f \in Files |-> 0]]
  /\ version = [s \in Sessions |-> 0]
  /\ runner = [s \in Sessions |-> None]
  /\ pending = [s \in Sessions |-> 0]
  /\ asked = [s \in Sessions |-> 0]
  /\ disk = [s \in Sessions |-> [f \in Files |-> 0]]
  /\ writing = [s \in Sessions |-> NoWrite] /\ late = {}
  /\ pc = [c \in Clients |-> "idle"]
  /\ req = [c \in Clients |-> [kind |-> "new_session", session |-> None, interrupt |-> 0]]
  /\ sent = 0 /\ written = 0
  /\ seen = {} /\ accepted = [s \in Sessions |-> <<>>]
  /\ torn = {} /\ behind = {}

\* What the server does about a request once it is sent.
Handle(c) ==
  \/ NewSession(c) \/ NewSessionFails(c) \/ NotFound(c) \/ Wait(c) \/ Lock(c) \/ Gone(c)
  \/ CallToolReads(c) \/ CallToolWrites(c) \/ FileWritten(c) \/ CallToolDone(c)
  \/ CallToolUnrecorded(c) \/ RunnerUnrecorded(c)
  \/ RunInvalid(c) \/ Run(c) \/ RunSuspended(c) \/ ResumeRefused(c) \/ Resume(c)
  \/ RunnerWrites(c) \/ RunnerRecords(c) \/ RunnerEnds(c)
  \/ GetState(c) \/ EndSession(c)

Next ==
  \/ \E c \in Clients : Send(c) \/ Handle(c) \/ DropUnserved(c) \/ Drop(c)
  \/ \E w \in late : LateWrite(w)

Spec == Init /\ [][Next]_vars

FairSpec == Spec /\ \A c \in Clients : WF_vars(Handle(c))
-----------------------------------------------------------------------------
(* What the server promises. *)

TypeOK ==
  /\ known \subseteq Sessions
  /\ queue \in [Sessions -> Seq(Clients)]
  /\ holder \in [Sessions -> Clients \cup {None}]
  /\ closed \in [Sessions -> BOOLEAN]
  /\ state \in [Sessions -> State]
  /\ version \in [Sessions -> Nat]
  /\ runner \in [Sessions -> State \cup {None}]
  /\ pending \in [Sessions -> Nat]
  /\ asked \in [Sessions -> Nat]
  /\ disk \in [Sessions -> State]
  /\ writing \in [Sessions -> Write]
  /\ late \subseteq [session : Sessions, write : Write]
  /\ pc \in [Clients -> {"idle", "sent", "waiting", "locked", "tool", "running",
                         "tool_done", "runner_tool", "runner_tool_done"}]
  /\ req \in [Clients -> Request]
  /\ sent \in Nat /\ written \in Nat
  /\ seen \subseteq Seen
  /\ accepted \in [Sessions -> Seq(Nat)]
  /\ torn \subseteq Sessions /\ behind \subseteq Sessions

\* Two answers with the same state_version show the same state and the same
\* pending interrupt, whoever asked, and even if handlers were dropped midway:
\* docs/e2e/E2E_PHASE3_ACP.md lets clients synchronise and retry by version.
\* The states this is said of have their types.
VersionIdentifiesState ==
  /\ TypeOK
  /\ \A a, b \in seen :
       a.session = b.session /\ a.version = b.version
         => a.state = b.state /\ (a.told /\ b.told => a.pending = b.pending)

\* An interrupt is decided at most once, however many clients answer it and
\* however late.
DecidedOnce ==
  \A s \in Sessions : \A i, j \in DOMAIN accepted[s] :
    i # j => accepted[s][i] # accepted[s][j]

\* The copy the session's tools work on, the runner's once there is one, shows
\* the disk whenever nobody is at work, and so does the state that clients
\* get; unless a handler was dropped between a write and its record, a write
\* failed when it had touched its file or could not be read back, a command
\* changed a file, or call_tool wrote behind the runner's back.  Tools that
\* fail and leave the files alone do no harm, and a run that was dropped and
\* had nothing half done is made good by the next report.
StateMirrorsDisk ==
  \A s \in Sessions : holder[s] = None /\ s \notin torn =>
    /\ runner[s] # None => runner[s] = disk[s]
    /\ s \notin behind => state[s] = disk[s]

\* Nothing happens in a closed session: a handler that was already waiting for
\* the mutex when the session was closed finds it closed.  Only a write whose
\* client is gone or a command that timed out may still reach the disk.
ClosedIsFinal ==
  [][\A s \in Sessions : closed[s] =>
       /\ closed'[s]
       /\ UNCHANGED <<state[s], version[s], runner[s], pending[s]>>
       /\ disk'[s] = disk[s] \/ \E w \in late : w.session = s]_vars

\* Every request is answered, unless its client goes away: no handler keeps a
\* session's mutex, and the queue for it is served in order.
Answered == \A c \in Clients : pc[c] # "idle" ~> pc[c] = "idle"

-----------------------------------------------------------------------------
(* What the documents of the repository say and the code does not do. *)

\* docs/e2e/E2E_PHASE3_ACP.md, STATE-004: the state evolves without going back
\* or losing entries.
StateEvolves ==
  [][\A s \in Sessions, f \in Files : state[s][f] <= state'[s][f]]_vars
-----------------------------------------------------------------------------
(* The inductive invariant behind the theorems of AcpServerProofs.           *)

InRun == {"running", "runner_tool", "runner_tool_done"}
Working == InRun \cup {"tool", "tool_done"}

\* The mutex: who is served holds it, and nobody works in a closed session.
MutexInv ==
  \A c \in Clients :
    /\ pc[c] = "waiting" => req[c].session \in Sessions
    /\ pc[c] \in Working \cup {"locked"} =>
         req[c].session \in Sessions /\ holder[req[c].session] = c
    /\ pc[c] \in Working => ~closed[req[c].session]
    /\ pc[c] \in Working \ {"running"} => writing[req[c].session].file \in Files

\* Only a runner has something pending or falls behind, and none that runs
\* is suspended.
RunnerInv ==
  /\ \A s \in Sessions : pending[s] # 0 \/ s \in behind => runner[s] # None
  /\ \A c \in Clients :
       pc[c] \in InRun => runner[req[c].session] # None /\ pending[req[c].session] = 0

\* Every interrupt that was accepted was raised before, and none is pending.
AcceptedInv ==
  /\ DecidedOnce
  /\ \A s \in Sessions :
       /\ pending[s] <= asked[s]
       /\ \A i \in DOMAIN accepted[s] :
            accepted[s][i] \in 1 .. asked[s] /\ accepted[s][i] # pending[s]

\* What was told under the current version still holds, and nothing was told
\* under the version that a handler at work will answer with.
VersionInv ==
  /\ VersionIdentifiesState
  /\ \A a \in seen : a.version <= version[a.session]
  /\ \A a \in seen : a.version = version[a.session] =>
       a.state = state[a.session] /\ (a.told => a.pending = pending[a.session])
  /\ \A c \in Clients, a \in seen :
       pc[c] \in Working /\ a.session = req[c].session => a.version < version[a.session]

\* A session that is not torn shows its files: at rest both copies do, and at
\* work they lack the file just written or, the state, what the run has done.
Rests(s) == \A c \in Clients : pc[c] \in Working => req[c].session # s

Mirrored(s) ==
  /\ runner[s] # None => runner[s] = disk[s]
  /\ s \notin behind => state[s] = disk[s]

MirroredBut(copy, s) ==
  \A f \in Files : f # writing[s].file => copy[f] = disk[s][f]

MirrorInv ==
  /\ \A w \in late : w.session \in torn
  /\ \A s \in Sessions \ torn : Rests(s) => Mirrored(s)
  /\ \A c \in Clients :
       LET s == req[c].session
       IN  s \notin torn =>
             /\ pc[c] = "tool" => Mirrored(s)
             /\ pc[c] = "tool_done" /\ s \notin behind => MirroredBut(state[s], s)
             /\ pc[c] \in {"running", "runner_tool"} => runner[s] = disk[s]
             /\ pc[c] = "runner_tool_done" => MirroredBut(runner[s], s)
=============================================================================

---------------------------- MODULE AcpServerProofs ----------------------------
(***************************************************************************)
(* Theorems about AcpServer, for any numbers of clients, sessions, files,  *)
(* requests and writes.                                                    *)
(***************************************************************************)
EXTENDS AcpServer, SequenceTheorems, TLAPS

-----------------------------------------------------------------------------
(* Types. *)

BaseInv == TypeOK /\ MutexInv /\ RunnerInv

\* A handler before it has the mutex changes no session.
LEMMA ArriveType ==
  ASSUME TypeOK, MutexInv, NEW c \in Clients,
         \/ Send(c) \/ NewSession(c) \/ NewSessionFails(c) \/ NotFound(c) \/ Wait(c)
         \/ Lock(c) \/ DropUnserved(c)
  PROVE  TypeOK'
<1>1. CASE Send(c)
  <2>1. PICK kind \in Kinds, s \in Sessions \cup {None}, i \in 0 .. MaxRequests :
          req' = [req EXCEPT ![c] = [kind |-> kind, session |-> s, interrupt |-> i]]
    BY <1>1 DEF Send
  <2>2. [kind |-> kind, session |-> s, interrupt |-> i] \in Request
    BY BoundsAssumption DEF Request
  <2>. QED
    BY <1>1, <2>1, <2>2 DEF Send, TypeOK, sessionVars, historyVars
<1>2. CASE NewSession(c) \/ NewSessionFails(c) \/ NotFound(c)
  BY <1>2 DEF NewSession, NewSessionFails, NotFound, TypeOK, sessionVars, historyVars
<1>3. CASE Wait(c)
  <2>1. Append(queue[req[c].session], c) \in Seq(Clients)
    BY <1>3 DEF Wait, TypeOK
  <2>. QED
    BY <1>3, <2>1 DEF Wait, TypeOK, sessionVars, historyVars
<1>4. CASE Lock(c)
  <2>1. req[c].session \in Sessions
    BY <1>4 DEF Lock, MutexInv
  <2>2. Tail(queue[req[c].session]) \in Seq(Clients)
    BY <1>4, <2>1 DEF Lock, TypeOK
  <2>. QED
    BY <1>4, <2>1, <2>2 DEF Lock, TypeOK, sessionVars, historyVars
<1>5. CASE DropUnserved(c)
  <2>1. queue' \in [Sessions -> Seq(Clients)]
    <3>1. CASE UNCHANGED queue
      BY <3>1 DEF TypeOK
    <3>2. ASSUME NEW s \in Sessions, NEW i \in DOMAIN queue[s],
                 queue' = [queue EXCEPT ![s] =
                             SubSeq(queue[s], 1, i - 1)
                               \o SubSeq(queue[s], i + 1, Len(queue[s]))]
          PROVE  queue' \in [Sessions -> Seq(Clients)]
      <4>1. queue[s] \in Seq(Clients) /\ i \in 1 .. Len(queue[s])
        BY DEF TypeOK
      <4>2. /\ SubSeq(queue[s], 1, i - 1) \in Seq(Clients)
            /\ SubSeq(queue[s], i + 1, Len(queue[s])) \in Seq(Clients)
        BY <4>1
      <4>. QED
        BY <3>2, <4>2, ConcatProperties DEF TypeOK
    <3>. QED
      BY <1>5, <3>1, <3>2 DEF DropUnserved, MutexInv
  <2>. QED
    BY <1>5, <2>1 DEF DropUnserved, TypeOK, sessionVars, historyVars
<1>. QED
  BY <1>1, <1>2, <1>3, <1>4, <1>5

\* What a served client is told is an answer about its session.
LEMMA TellType ==
  ASSUME NEW s \in Sessions, seen \subseteq Seen, version' \in [Sessions -> Nat],
         state' \in [Sessions -> State], pending' \in [Sessions -> Nat],
         NEW told \in BOOLEAN, Tell(s, told)
  PROVE  seen' \subseteq Seen
BY DEF Tell, Seen

\* Report hands on what its session's runner works on.
LEMMA ReportType ==
  ASSUME TypeOK, NEW c \in Clients, req[c].session \in Sessions,
         version' \in [Sessions -> Nat], pending' \in [Sessions -> Nat], Report(c)
  PROVE  /\ state' \in [Sessions -> State] /\ seen' \subseteq Seen
         /\ behind' \subseteq Sessions
<1>1. state' \in [Sessions -> State] /\ behind' \subseteq Sessions
  BY DEF Report, TypeOK
<1>. QED
  BY <1>1, TellType DEF Report, TypeOK

\* Handlers with the mutex that answer without having run anything.
LEMMA AnswerType ==
  ASSUME TypeOK, MutexInv, NEW c \in Clients,
         \/ Gone(c) \/ CallToolReads(c) \/ RunInvalid(c) \/ RunSuspended(c)
         \/ ResumeRefused(c) \/ GetState(c) \/ EndSession(c)
  PROVE  TypeOK'
<1>0. req[c].session \in Sessions
  BY DEF Gone, CallToolReads, RunInvalid, RunSuspended, ResumeRefused, GetState,
     EndSession, Serving, MutexInv
<1>1. holder' \in [Sessions -> Clients \cup {None}] /\ UNCHANGED <<known, queue, req, sent>>
      /\ pc' = [pc EXCEPT ![c] = "idle"]
  BY <1>0 DEF Gone, CallToolReads, RunInvalid, RunSuspended, ResumeRefused, GetState,
     EndSession, Return, Report, TypeOK
<1>2. CASE Gone(c) \/ RunInvalid(c)
  BY <1>1, <1>2 DEF Gone, RunInvalid, TypeOK, sessionVars, historyVars
<1>3. CASE EndSession(c)
  BY <1>0, <1>1, <1>3 DEF EndSession, TypeOK, historyVars
<1>4. CASE GetState(c)
  <2>1. seen' \subseteq Seen
    BY <1>0, <1>4, TellType DEF GetState, sessionVars, TypeOK
  <2>. QED
    BY <1>1, <1>4, <2>1 DEF GetState, TypeOK, sessionVars
<1>5. CASE CallToolReads(c)
  <2>1. version' \in [Sessions -> Nat]
    BY <1>0, <1>5 DEF CallToolReads, NextVersion, TypeOK
  <2>2. seen' \subseteq Seen
    BY <1>0, <1>5, <2>1, TellType DEF CallToolReads, TypeOK
  <2>. QED
    BY <1>1, <1>5, <2>1, <2>2 DEF CallToolReads, TypeOK
<1>6. CASE RunSuspended(c) \/ ResumeRefused(c)
  <2>1. version' \in [Sessions -> Nat]
    BY <1>0, <1>6, SMTT(40) DEF RunSuspended, ResumeRefused, NextVersion, TypeOK
  <2>2. /\ state' \in [Sessions -> State] /\ seen' \subseteq Seen
        /\ behind' \subseteq Sessions
    BY <1>0, <1>6, <2>1, ReportType DEF RunSuspended, ResumeRefused, TypeOK
  <2>. QED
    BY <1>1, <1>6, <2>1, <2>2 DEF RunSuspended, ResumeRefused, TypeOK
<1>. QED
  BY <1>2, <1>3, <1>4, <1>5, <1>6

\* A file write is at a file of the session.
LEMMA BeginWriteType ==
  ASSUME TypeOK, NEW s \in Sessions, NEW f \in Files, BeginWrite(s, f)
  PROVE  writing' \in [Sessions -> Write] /\ written' \in Nat /\ writing'[s].file = f
<1>1. [file |-> f, number |-> written + 1] \in Write
  BY DEF Write, TypeOK
<1>. QED
  BY <1>1 DEF BeginWrite, TypeOK

\* A tool that ends without a record, with its change done, late or not at all.
LEMMA UnrecordedType ==
  ASSUME TypeOK, NEW s \in Sessions, Unrecorded(s)
  PROVE  /\ writing' \in [Sessions -> Write] /\ disk' \in [Sessions -> State]
         /\ late' \subseteq [session : Sessions, write : Write]
         /\ torn' \subseteq Sessions
<1>1. writing[s] \in Write /\ writing[s].number \in Nat
  BY DEF TypeOK, Write
<1>2. [disk[s] EXCEPT ![writing[s].file] = writing[s].number] \in State
  BY <1>1 DEF TypeOK, State
<1>3. NoWrite \in Write
  BY DEF NoWrite, Write
<1>4. disk' \in [Sessions -> State]
  BY <1>2 DEF Unrecorded, TypeOK
<1>5. [session |-> s, write |-> writing[s]] \in [session : Sessions, write : Write]
  BY <1>1
<1>6. late' \subseteq [session : Sessions, write : Write]
  BY <1>5 DEF Unrecorded, TypeOK
<1>. QED
  BY <1>3, <1>4, <1>6 DEF Unrecorded, TypeOK

\* Handlers with the mutex at work.
LEMMA WorkType ==
  ASSUME BaseInv, NEW c \in Clients,
         \/ CallToolWrites(c) \/ FileWritten(c) \/ CallToolDone(c) \/ Run(c) \/ Resume(c)
         \/ RunnerWrites(c) \/ RunnerRecords(c) \/ RunnerEnds(c)
         \/ CallToolUnrecorded(c) \/ RunnerUnrecorded(c)
  PROVE  TypeOK'
<1>. DEFINE s == req[c].session
<1>0. s \in Sessions /\ TypeOK
  BY DEF BaseInv, CallToolWrites, FileWritten, CallToolDone, Run, Resume, RunnerWrites,
     RunnerRecords, RunnerEnds, CallToolUnrecorded, RunnerUnrecorded, Serving, MutexInv,
     Working, InRun
<1>1. CASE CallToolWrites(c)
  <2>1. writing' \in [Sessions -> Write] /\ written' \in Nat
    BY <1>0, <1>1, BeginWriteType DEF CallToolWrites
  <2>2. version' \in [Sessions -> Nat]
    BY <1>0, <1>1 DEF CallToolWrites, NextVersion, TypeOK
  <2>. QED
    BY <1>0, <1>1, <2>1, <2>2 DEF CallToolWrites, TypeOK, historyVars
<1>2. CASE FileWritten(c)
  <2>1. writing[s].number \in Nat
    BY <1>0 DEF TypeOK, Write
  <2>2. [disk[s] EXCEPT ![writing[s].file] = writing[s].number] \in State
    BY <1>0, <2>1 DEF TypeOK, State
  <2>3. disk' \in [Sessions -> State]
    BY <1>0, <1>2, <2>2 DEF FileWritten, TypeOK
  <2>. QED
    BY <1>0, <1>2, <2>3 DEF FileWritten, TypeOK, historyVars
<1>3. CASE CallToolDone(c)
  <2>1. writing[s].file \in Files
    BY <1>3 DEF BaseInv, MutexInv, CallToolDone, Working, InRun
  <2>2. [state[s] EXCEPT ![writing[s].file] = disk[s][writing[s].file]] \in State
    BY <1>0, <2>1 DEF TypeOK, State
  <2>3. state' \in [Sessions -> State]
    BY <1>0, <1>3, <2>2 DEF CallToolDone, TypeOK
  <2>4. seen' \subseteq Seen
    BY <1>0, <1>3, <2>3, TellType DEF CallToolDone, TypeOK
  <2>5. NoWrite \in Write
    BY DEF NoWrite, Write
  <2>. QED
    BY <1>0, <1>3, <2>3, <2>4, <2>5 DEF CallToolDone, Return, TypeOK
<1>4. CASE Run(c)
  BY SMTT(30), <1>0, <1>4 DEF Run, NextVersion, TypeOK, historyVars
<1>5. CASE Resume(c)
  <2>1. req[c].interrupt \in Nat
    BY <1>0 DEF TypeOK, Request
  <2>2. Append(accepted[s], req[c].interrupt) \in Seq(Nat)
    BY <1>0, <2>1 DEF TypeOK
  <2>3. accepted' \in [Sessions -> Seq(Nat)]
    BY <1>0, <1>5, <2>2 DEF Resume, TypeOK
  <2>4. version' \in [Sessions -> Nat] /\ pending' \in [Sessions -> Nat]
    BY <1>0, <1>5 DEF Resume, NextVersion, TypeOK
  <2>5. pc' \in [Clients -> {"idle", "sent", "waiting", "locked", "tool", "running",
                          "tool_done", "runner_tool", "runner_tool_done"}]
    <3>1. pc \in [Clients -> {"idle", "sent", "waiting", "locked", "tool", "running",
                             "tool_done", "runner_tool", "runner_tool_done"}]
      BY <1>0 DEF TypeOK
    <3>2. pc' = [pc EXCEPT ![c] = "running"]
      BY <1>5 DEF Resume
    <3>. QED
      BY <3>1, <3>2
  <2>. QED
    BY <1>0, <1>5, <2>3, <2>4, <2>5 DEF Resume, TypeOK
<1>6. CASE RunnerWrites(c)
  <2>1. writing' \in [Sessions -> Write] /\ written' \in Nat
    BY <1>0, <1>6, BeginWriteType DEF RunnerWrites
  <2>. QED
    BY <1>0, <1>6, <2>1 DEF RunnerWrites, TypeOK, historyVars
<1>7. CASE RunnerRecords(c)
  <2>1. writing[s].file \in Files /\ runner[s] # None
    BY <1>7 DEF BaseInv, MutexInv, RunnerInv, RunnerRecords, Working, InRun
  <2>2. [runner[s] EXCEPT ![writing[s].file] = disk[s][writing[s].file]] \in State
    BY <1>0, <2>1 DEF TypeOK, State
  <2>3. runner' \in [Sessions -> State \cup {None}]
    BY <1>0, <1>7, <2>2 DEF RunnerRecords, TypeOK
  <2>4. NoWrite \in Write
    BY DEF NoWrite, Write
  <2>. QED
    BY <1>0, <1>7, <2>3, <2>4 DEF RunnerRecords, TypeOK, historyVars
<1>8. CASE RunnerEnds(c)
  <2>1. pending' \in [Sessions -> Nat] /\ asked' \in [Sessions -> Nat]
    <3>1. \/ UNCHANGED <<pending, asked>>
          \/ /\ asked' = [asked EXCEPT ![s] = @ + 1]
             /\ pending' = [pending EXCEPT ![s] = asked[s] + 1]
      BY <1>8 DEF RunnerEnds
    <3>2. /\ pending \in [Sessions -> Nat] /\ asked \in [Sessions -> Nat]
          /\ asked[s] + 1 \in Nat
      BY <1>0 DEF TypeOK
    <3>. QED
      BY <1>0, <3>1, <3>2
  <2>2. /\ state' \in [Sessions -> State] /\ seen' \subseteq Seen
        /\ behind' \subseteq Sessions
    BY <1>0, <1>8, <2>1, ReportType DEF RunnerEnds, TypeOK
  <2>. QED
    BY <1>0, <1>8, <2>1, <2>2 DEF RunnerEnds, Report, Return, TypeOK
<1>9. CASE CallToolUnrecorded(c)
  <2>1. /\ writing' \in [Sessions -> Write] /\ disk' \in [Sessions -> State]
        /\ late' \subseteq [session : Sessions, write : Write]
        /\ torn' \subseteq Sessions
    BY <1>0, <1>9, UnrecordedType DEF CallToolUnrecorded
  <2>2. seen' \subseteq Seen
    BY <1>0, <1>9, TellType DEF CallToolUnrecorded, TypeOK
  <2>. QED
    BY <1>0, <1>9, <2>1, <2>2 DEF CallToolUnrecorded, Return, TypeOK
<1>10. CASE RunnerUnrecorded(c)
  <2>1. /\ writing' \in [Sessions -> Write] /\ disk' \in [Sessions -> State]
        /\ late' \subseteq [session : Sessions, write : Write]
        /\ torn' \subseteq Sessions
    BY <1>0, <1>10, UnrecordedType DEF RunnerUnrecorded
  <2>. QED
    BY <1>0, <1>10, <2>1 DEF RunnerUnrecorded, TypeOK
<1>. QED
  BY <1>1, <1>2, <1>3, <1>4, <1>5, <1>6, <1>7, <1>8, <1>9, <1>10

\* A handler whose client is gone, and the write it leaves behind.
LEMMA DropType ==
  ASSUME TypeOK, MutexInv, NEW c \in Clients, Drop(c) PROVE TypeOK'
<1>. DEFINE s == req[c].session
<1>1. s \in Sessions
  BY DEF Drop, MutexInv, TypeOK, Working, InRun
<1>2. [session |-> s, write |-> writing[s]] \in [session : Sessions, write : Write]
  BY <1>1 DEF TypeOK
<1>3. NoWrite \in Write
  BY DEF NoWrite, Write
<1>4. late' \subseteq [session : Sessions, write : Write]
  BY <1>2 DEF Drop, LeaveHalfDone, TypeOK
<1>. QED
  BY <1>1, <1>3, <1>4 DEF Drop, LeaveHalfDone, TypeOK

LEMMA LateType ==
  ASSUME TypeOK, NEW w \in late, LateWrite(w) PROVE TypeOK'
<1>1. w.session \in Sessions /\ w.write.number \in Nat
  BY DEF TypeOK, Write
<1>2. [disk[w.session] EXCEPT ![w.write.file] = w.write.number] \in State
  BY <1>1 DEF TypeOK, State
<1>. QED
  BY <1>1, <1>2 DEF LateWrite, TypeOK, historyVars

LEMMA StepType == BaseInv /\ [Next]_vars => TypeOK'
<1> SUFFICES ASSUME BaseInv, [Next]_vars PROVE TypeOK'
  OBVIOUS
<1>1. CASE UNCHANGED vars
  BY <1>1 DEF BaseInv, TypeOK, vars, sessionVars, historyVars
<1>2. ASSUME NEW c \in Clients, Handle(c) PROVE TypeOK'
  BY <1>2, ArriveType, AnswerType, WorkType DEF Handle, BaseInv
<1>. QED
  BY <1>1, <1>2, ArriveType, DropType, LateType DEF Next, BaseInv

-----------------------------------------------------------------------------
(* What a step does to whom: a client is on its way to the mutex, or it does *)
(* something to its own session and to no other.                             *)

Serviced == Working \cup {"locked"}

\* Nothing changes but, perhaps, session s and what is known of it.
OnlySession(s) ==
  /\ \A r \in Sessions \ {s} :
       /\ closed'[r] = closed[r] /\ state'[r] = state[r] /\ version'[r] = version[r]
       /\ runner'[r] = runner[r] /\ pending'[r] = pending[r] /\ asked'[r] = asked[r]
       /\ disk'[r] = disk[r] /\ writing'[r] = writing[r] /\ accepted'[r] = accepted[r]
       /\ (r \in torn') = (r \in torn) /\ (r \in behind') = (r \in behind)
  /\ \A a \in seen' : a \in seen \/ a.session = s
  /\ \A w \in late' : w \in late \/ w.session = s

Arrives(c) ==
  /\ UNCHANGED <<sessionVars, historyVars>>
  /\ pc[c] \notin Serviced /\ pc' = [pc EXCEPT ![c] = pc'[c]]
  /\ \A d \in Clients \ {c} : req'[d] = req[d]
  /\ pc'[c] \in Serviced \cup {"waiting"} => UNCHANGED req /\ req[c].session \in Sessions
  /\ \/ UNCHANGED holder /\ pc'[c] \in {"idle", "sent", "waiting"}
     \/ /\ holder[req[c].session] = None /\ pc'[c] = "locked"
        /\ holder' = [holder EXCEPT ![req[c].session] = c]

Leaves(c) ==
  /\ pc[c] \in Serviced /\ req[c].session \in Sessions
  /\ pc' = [pc EXCEPT ![c] = "idle"] /\ UNCHANGED req
  /\ holder' = [holder EXCEPT ![req[c].session] = None]
  /\ OnlySession(req[c].session)

Works(c) ==
  /\ pc[c] \in Serviced /\ req[c].session \in Sessions
  /\ pc' = [pc EXCEPT ![c] = pc'[c]] /\ pc'[c] \in Working
  /\ UNCHANGED <<holder, req, closed>> /\ ~closed[req[c].session]
  /\ pc'[c] # "running" => writing'[req[c].session].file \in Files
  /\ OnlySession(req[c].session)

ArriveStep(c) ==
  \/ Send(c) \/ NewSession(c) \/ NewSessionFails(c) \/ NotFound(c) \/ Wait(c)
  \/ Lock(c) \/ DropUnserved(c)

LeaveStep(c) ==
  \/ Gone(c) \/ CallToolReads(c) \/ RunInvalid(c) \/ RunSuspended(c)
  \/ ResumeRefused(c) \/ GetState(c) \/ EndSession(c)
  \/ CallToolDone(c) \/ CallToolUnrecorded(c) \/ RunnerEnds(c) \/ Drop(c)

WorkStep(c) ==
  \/ CallToolWrites(c) \/ FileWritten(c) \/ Run(c) \/ Resume(c)
  \/ RunnerWrites(c) \/ RunnerRecords(c) \/ RunnerUnrecorded(c)

LEMMA ArriveEffect ==
  ASSUME TypeOK, MutexInv, NEW c \in Clients, ArriveStep(c)
  PROVE  Arrives(c)
<1>. USE DEF ArriveStep
<1>0. pc \in [Clients -> {"idle", "sent", "waiting", "locked", "tool", "running",
                         "tool_done", "runner_tool", "runner_tool_done"}]
      /\ req \in [Clients -> Request] /\ known \subseteq Sessions
  BY DEF TypeOK
<1>1. CASE Send(c)
  BY <1>0, <1>1 DEF Send, Arrives, Serviced, Working, InRun
<1>2. CASE NewSession(c) \/ NewSessionFails(c) \/ NotFound(c)
  BY <1>0, <1>2 DEF NewSession, NewSessionFails, NotFound, Arrives, Serviced, Working, InRun
<1>3. CASE Wait(c)
  BY <1>0, <1>3 DEF Wait, Arrives, Serviced, Working, InRun
<1>4. CASE Lock(c)
  BY <1>0, <1>4 DEF Lock, MutexInv, Arrives, Serviced, Working, InRun
<1>5. CASE DropUnserved(c)
  BY <1>0, <1>5 DEF DropUnserved, Arrives, Serviced, Working, InRun
<1>. QED
  BY <1>1, <1>2, <1>3, <1>4, <1>5

LEMMA LeaveEffect ==
  ASSUME TypeOK, MutexInv, NEW c \in Clients, LeaveStep(c)
  PROVE  Leaves(c)
<1>. USE DEF LeaveStep
<1>. DEFINE s == req[c].session
<1>1. pc[c] \in Serviced
  BY DEF Gone, CallToolReads, RunInvalid, RunSuspended, ResumeRefused, GetState,
     EndSession, Serving, CallToolDone, CallToolUnrecorded, RunnerEnds, Drop, Serviced,
     Working, InRun, TypeOK
<1>2. s \in Sessions
  BY <1>1 DEF MutexInv, Serviced
<1>3. /\ pc' = [pc EXCEPT ![c] = "idle"] /\ UNCHANGED req
      /\ holder' = [holder EXCEPT ![s] = None]
  BY DEF Gone, CallToolReads, RunInvalid, RunSuspended, ResumeRefused, GetState,
     EndSession, CallToolDone, CallToolUnrecorded, RunnerEnds, Drop, Return, Report
<1>4. OnlySession(s)
  <2>1. CASE Gone(c) \/ RunInvalid(c)
    BY <2>1 DEF Gone, RunInvalid, OnlySession, sessionVars, historyVars
  <2>2. CASE CallToolReads(c)
    BY <1>2, <2>2 DEF CallToolReads, NextVersion, Tell, OnlySession, TypeOK
  <2>3. CASE RunSuspended(c) \/ ResumeRefused(c)
    <3>1. /\ UNCHANGED <<closed, runner, pending, asked, disk, writing, late, accepted, torn>>
          /\ behind' = behind \ {s}
      BY <2>3 DEF RunSuspended, ResumeRefused, Report
    <3>2. \A r \in Sessions \ {s} : version'[r] = version[r]
      BY <1>2, <2>3 DEF RunSuspended, ResumeRefused, NextVersion, TypeOK
    <3>3. \A r \in Sessions \ {s} : state'[r] = state[r]
      BY <1>2, <2>3 DEF RunSuspended, ResumeRefused, Report, TypeOK
    <3>4. \A a \in seen' : a \in seen \/ a.session = s
      <4>1. Tell(s, TRUE)
        BY <2>3 DEF RunSuspended, ResumeRefused, Report
      <4>. QED
        BY ONLY <4>1 DEF Tell
    <3>. QED
      BY <3>1, <3>2, <3>3, <3>4 DEF OnlySession
  <2>4. CASE GetState(c)
    BY <2>4 DEF GetState, Tell, OnlySession, sessionVars
  <2>5. CASE EndSession(c)
    BY <1>2, <2>5 DEF EndSession, OnlySession, TypeOK, historyVars
  <2>6. CASE CallToolDone(c)
    <3>1. /\ UNCHANGED <<closed, version, runner, pending, asked, disk, late, accepted, behind>>
          /\ torn' = torn \/ torn' = torn \cup {s}
      BY <2>6 DEF CallToolDone
    <3>2. \A r \in Sessions \ {s} : state'[r] = state[r] /\ writing'[r] = writing[r]
      BY <1>2, <2>6 DEF CallToolDone, TypeOK
    <3>3. \A a \in seen' : a \in seen \/ a.session = s
      <4>1. Tell(s, FALSE)
        BY <2>6 DEF CallToolDone
      <4>. QED
        BY ONLY <4>1 DEF Tell
    <3>. QED
      BY <3>1, <3>2, <3>3 DEF OnlySession
  <2>7. CASE RunnerEnds(c)
    <3>1. /\ UNCHANGED <<closed, version, runner, disk, writing, late, accepted, torn>>
          /\ behind' = behind \ {s}
      BY <2>7 DEF RunnerEnds, Report
    <3>2. \A r \in Sessions \ {s} : state'[r] = state[r]
      BY <1>2, <2>7 DEF RunnerEnds, Report, TypeOK
    <3>3. \A r \in Sessions \ {s} : pending'[r] = pending[r] /\ asked'[r] = asked[r]
      BY <1>2, <2>7 DEF RunnerEnds, TypeOK
    <3>4. \A a \in seen' : a \in seen \/ a.session = s
      BY <2>7 DEF RunnerEnds, Report, Tell
    <3>. QED
      BY <3>1, <3>2, <3>3, <3>4 DEF OnlySession
  <2>8. CASE Drop(c)
    BY <1>2, <2>8 DEF Drop, LeaveHalfDone, OnlySession, TypeOK
  <2>9. CASE CallToolUnrecorded(c)
    BY <1>2, <2>9 DEF CallToolUnrecorded, Unrecorded, Tell, OnlySession, TypeOK
  <2>. QED
    BY <2>1, <2>2, <2>3, <2>4, <2>5, <2>6, <2>7, <2>8, <2>9
<1>. QED
  BY <1>1, <1>2, <1>3, <1>4 DEF Leaves

LEMMA WorkEffect ==
  ASSUME TypeOK, MutexInv, NEW c \in Clients, WorkStep(c)
  PROVE  Works(c)
<1>. USE DEF WorkStep
<1>. DEFINE s == req[c].session
<1>1. pc[c] \in Serviced
  BY DEF CallToolWrites, FileWritten, Run, Resume, RunnerWrites, RunnerRecords,
     RunnerUnrecorded, Serving, Serviced, Working, InRun
<1>2. s \in Sessions
  BY <1>1 DEF MutexInv, Serviced
<1>3. ~closed[s]
  BY DEF CallToolWrites, FileWritten, Run, Resume, RunnerWrites, RunnerRecords,
     RunnerUnrecorded, Serving, Working, InRun, MutexInv
<1>4. /\ UNCHANGED <<holder, req, closed>>
      /\ pc' = [pc EXCEPT ![c] = pc'[c]] /\ pc'[c] \in Working
  <2>1. pc \in [Clients -> {"idle", "sent", "waiting", "locked", "tool", "running",
                           "tool_done", "runner_tool", "runner_tool_done"}]
    BY DEF TypeOK
  <2>. QED
    BY <2>1 DEF CallToolWrites, FileWritten, Run, Resume, RunnerWrites, RunnerRecords,
       RunnerUnrecorded, Working, InRun
<1>5. OnlySession(s) /\ (pc'[c] # "running" => writing'[s].file \in Files)
  <2>1. CASE CallToolWrites(c)
    BY <1>2, <2>1, BeginWriteType
       DEF CallToolWrites, NextVersion, BeginWrite, OnlySession, TypeOK, historyVars
  <2>2. CASE FileWritten(c)
    BY <1>2, <2>2 DEF FileWritten, OnlySession, TypeOK, historyVars, MutexInv, Working, InRun
  <2>3. CASE Run(c)
    BY <1>2, <2>3 DEF Run, NextVersion, OnlySession, TypeOK, historyVars
  <2>4. CASE Resume(c)
    BY <1>2, <2>4 DEF Resume, NextVersion, OnlySession, TypeOK
  <2>5. CASE RunnerWrites(c)
    BY <1>2, <2>5, BeginWriteType
       DEF RunnerWrites, BeginWrite, OnlySession, TypeOK, historyVars
  <2>6. CASE RunnerRecords(c)
    BY <1>2, <2>6 DEF RunnerRecords, OnlySession, TypeOK, historyVars
  <2>7. CASE RunnerUnrecorded(c)
    BY SMTT(30), <1>2, <2>7 DEF RunnerUnrecorded, Unrecorded, OnlySession, TypeOK
  <2>. QED
    BY <2>1, <2>2, <2>3, <2>4, <2>5, <2>6, <2>7
<1>. QED
  BY <1>1, <1>2, <1>3, <1>4, <1>5 DEF Works

LEMMA StepEffect ==
  ASSUME TypeOK, MutexInv, [Next]_vars
  PROVE  \/ UNCHANGED vars
         \/ \E c \in Clients :
              \/ Arrives(c)
              \/ Leaves(c) /\ LeaveStep(c)
              \/ Works(c) /\ WorkStep(c)
         \/ \E w \in late : LateWrite(w)
<1>1. \/ UNCHANGED vars
      \/ \E c \in Clients : ArriveStep(c) \/ LeaveStep(c) \/ WorkStep(c)
      \/ \E w \in late : LateWrite(w)
  <2>1. ASSUME NEW c \in Clients, Send(c) \/ Handle(c) \/ DropUnserved(c) \/ Drop(c)
        PROVE  ArriveStep(c) \/ LeaveStep(c) \/ WorkStep(c)
    BY <2>1 DEF Handle, ArriveStep, LeaveStep, WorkStep
  <2>. QED
    BY <2>1 DEF Next
<1>2. CASE UNCHANGED vars
  BY <1>2
<1>3. CASE \E w \in late : LateWrite(w)
  BY <1>3
<1>4. CASE \E c \in Clients : ArriveStep(c) \/ LeaveStep(c) \/ WorkStep(c)
  <2>1. PICK c \in Clients : ArriveStep(c) \/ LeaveStep(c) \/ WorkStep(c)
    BY <1>4
  <2>2. CASE ArriveStep(c)
    BY <2>2, ArriveEffect
  <2>3. CASE LeaveStep(c)
    BY <2>3, LeaveEffect
  <2>4. CASE WorkStep(c)
    BY <2>4, WorkEffect
  <2>. QED
    BY <2>1, <2>2, <2>3, <2>4
<1>. QED
  BY <1>1, <1>2, <1>3, <1>4

-----------------------------------------------------------------------------
(* One handler at a time, and none in a closed session.                      *)

\* Two clients that are served are served by two sessions.
LEMMA Alone ==
  ASSUME MutexInv, NEW c \in Clients, NEW d \in Clients, c # d,
         pc[c] \in Serviced, pc[d] \in Serviced
  PROVE  req[c].session # req[d].session
BY DEF MutexInv, Serviced

LEMMA PcType ==
  ASSUME TypeOK, NEW c \in Clients, NEW p, pc' = [pc EXCEPT ![c] = p]
  PROVE  pc'[c] = p /\ \A d \in Clients : d # c => pc'[d] = pc[d]
BY DEF TypeOK

LEMMA MutexStep == TypeOK /\ MutexInv /\ [Next]_vars => MutexInv'
<1> SUFFICES ASSUME TypeOK, MutexInv, [Next]_vars PROVE MutexInv'
  OBVIOUS
<1>1. CASE UNCHANGED vars
  BY <1>1 DEF MutexInv, vars, sessionVars
<1>2. ASSUME NEW w \in late, LateWrite(w) PROVE MutexInv'
  BY <1>2 DEF LateWrite, MutexInv
<1>3. ASSUME NEW c \in Clients, Arrives(c) PROVE MutexInv'
  <2>1. \A d \in Clients : d # c => pc'[d] = pc[d] /\ req'[d] = req[d]
    BY <1>3, PcType DEF Arrives
  <2>2. \A d \in Clients : d # c /\ pc[d] \in Serviced =>
          holder'[req[d].session] = holder[req[d].session]
    BY SMTT(30), <1>3, NoneAssumption DEF Arrives, MutexInv, Serviced, TypeOK
  <2>3. /\ pc'[c] \notin Working
        /\ pc'[c] = "waiting" => req'[c].session \in Sessions
        /\ pc'[c] = "locked" => /\ req'[c].session \in Sessions
                                /\ holder'[req'[c].session] = c
    BY <1>3 DEF Arrives, Serviced, TypeOK, Working, InRun
  <2>. QED
    BY <1>3, <2>1, <2>2, <2>3 DEF Arrives, MutexInv, sessionVars, Serviced
<1>4. ASSUME NEW c \in Clients, Leaves(c) PROVE MutexInv'
  <2>1. /\ pc'[c] = "idle" /\ req' = req
        /\ \A d \in Clients : d # c => pc'[d] = pc[d]
    BY <1>4, PcType DEF Leaves
  <2>2. ASSUME NEW d \in Clients, d # c, pc[d] \in Serviced
        PROVE  /\ holder'[req[d].session] = holder[req[d].session]
               /\ closed'[req[d].session] = closed[req[d].session]
               /\ writing'[req[d].session] = writing[req[d].session]
    <3>1. req[d].session \in Sessions /\ req[d].session # req[c].session
      BY <1>4, <2>2, Alone DEF Leaves, MutexInv, Serviced
    <3>. QED
      BY <1>4, <3>1 DEF Leaves, OnlySession, TypeOK
  <2>3. pc'[c] \notin Serviced \cup {"waiting"}
    BY <2>1 DEF Serviced, Working, InRun
  <2>. QED
    BY <2>1, <2>2, <2>3 DEF MutexInv, Serviced
<1>5. ASSUME NEW c \in Clients, Works(c) PROVE MutexInv'
  <2>1. \A d \in Clients : d # c => pc'[d] = pc[d]
    BY <1>5, PcType DEF Works
  <2>2. ASSUME NEW d \in Clients, d # c, pc[d] \in Serviced
        PROVE  writing'[req[d].session] = writing[req[d].session]
    <3>1. req[d].session \in Sessions /\ req[d].session # req[c].session
      BY <1>5, <2>2, Alone DEF Works, MutexInv, Serviced
    <3>. QED
      BY <1>5, <3>1 DEF Works, OnlySession
  <2>3. pc'[c] # "waiting" /\ holder[req[c].session] = c
    BY <1>5 DEF Works, Working, InRun, MutexInv, Serviced
  <2>. QED
    BY <1>5, <2>1, <2>2, <2>3 DEF Works, MutexInv, Serviced
<1>. QED
  BY <1>1, <1>2, <1>3, <1>4, <1>5, StepEffect

-----------------------------------------------------------------------------
(* The runner is there for whatever is said of it.                           *)

\* What RunnerInv says of one session.
RunnerOf(s) ==
  /\ pending[s] # 0 \/ s \in behind => runner[s] # None
  /\ \A c \in Clients :
       pc[c] \in InRun /\ req[c].session = s => runner[s] # None /\ pending[s] = 0

LEMMA RunnerSessions ==
  ASSUME MutexInv PROVE RunnerInv <=> \A s \in Sessions : RunnerOf(s)
BY DEF RunnerInv, RunnerOf, MutexInv, Working

\* A served client leaves the other sessions as they are, and the clients there.
LEMMA OthersKept ==
  ASSUME TypeOK, MutexInv, NEW c \in Clients, Leaves(c) \/ Works(c),
         NEW r \in Sessions \ {req[c].session}
  PROVE  /\ state'[r] = state[r] /\ version'[r] = version[r] /\ runner'[r] = runner[r]
         /\ pending'[r] = pending[r] /\ disk'[r] = disk[r] /\ writing'[r] = writing[r]
         /\ (r \in torn') = (r \in torn) /\ (r \in behind') = (r \in behind)
         /\ \A d \in Clients : req[d].session = r => pc'[d] = pc[d]
         /\ req' = req
<1>1. OnlySession(req[c].session) /\ req' = req
  BY DEF Leaves, Works
<1>2. \A d \in Clients : d # c => pc'[d] = pc[d]
  BY PcType DEF Leaves, Works
<1>. QED
  BY <1>1, <1>2 DEF OnlySession

\* Nobody else is served by its session.
LEMMA OthersWait ==
  ASSUME TypeOK, MutexInv, NEW c \in Clients, Leaves(c) \/ Works(c),
         NEW d \in Clients, d # c, req[d].session = req[c].session
  PROVE  pc'[d] \notin Serviced
BY Alone, PcType DEF Leaves, Works

\* What a handler's step may break is what is said of its own session.
LEMMA RunnerHandled ==
  ASSUME BaseInv, NEW c \in Clients,
         (Leaves(c) /\ LeaveStep(c)) \/ (Works(c) /\ WorkStep(c))
  PROVE  RunnerOf(req[c].session)'
<1>. DEFINE s == req[c].session
<1>0. TypeOK /\ MutexInv /\ RunnerInv
  BY DEF BaseInv
<1>1. s \in Sessions /\ req' = req /\ pc[c] \in Serviced
  BY DEF Leaves, Works
<1>2. \A d \in Clients : d # c /\ req[d].session = s => pc'[d] \notin InRun
  BY <1>0, OthersWait DEF Serviced, Working
<1>3. (pending[s] # 0 \/ s \in behind => runner[s] # None)
      /\ (pc[c] \in InRun => runner[s] # None /\ pending[s] = 0)
  BY <1>0, <1>1 DEF RunnerInv
<1>4. SUFFICES /\ pending'[s] # 0 \/ s \in behind' => runner'[s] # None
               /\ pc'[c] \in InRun => runner'[s] # None /\ pending'[s] = 0
  BY <1>1, <1>2 DEF RunnerOf
<1>5. CASE LeaveStep(c)
  <2>1. pc'[c] \notin InRun
    BY <1>0, <1>5, PcType, LeaveEffect DEF Leaves, InRun
  <2>2. CASE Gone(c) \/ RunInvalid(c) \/ CallToolReads(c) \/ GetState(c) \/ EndSession(c)
             \/ CallToolDone(c) \/ CallToolUnrecorded(c)
    <3>1. UNCHANGED <<pending, runner, behind>>
      BY <2>2 DEF Gone, RunInvalid, CallToolReads, GetState, EndSession, CallToolDone,
         CallToolUnrecorded, sessionVars, historyVars
    <3>. QED
      BY <1>3, <2>1, <3>1
  <2>3. CASE RunSuspended(c) \/ ResumeRefused(c)
    <3>1. UNCHANGED <<pending, runner>> /\ behind' = behind \ {s}
      BY <2>3 DEF RunSuspended, ResumeRefused, Report
    <3>. QED
      BY <1>3, <2>1, <3>1
  <2>4. CASE RunnerEnds(c)
    <3>1. UNCHANGED runner /\ behind' = behind \ {s} /\ pc[c] \in InRun
      BY <2>4 DEF RunnerEnds, Report, InRun
    <3>. QED
      BY <1>3, <2>1, <3>1
  <2>5. CASE Drop(c)
    <3>1. UNCHANGED <<pending, runner>>
          /\ behind' = IF pc[c] \in InRun THEN behind \cup {s} ELSE behind
      BY <2>5 DEF Drop, LeaveHalfDone, InRun
    <3>. QED
      BY <1>3, <2>1, <3>1
  <2>. QED
    BY <1>5, <2>2, <2>3, <2>4, <2>5 DEF LeaveStep
<1>6. CASE WorkStep(c)
  <2>0. pending \in [Sessions -> Nat] /\ runner \in [Sessions -> State \cup {None}]
        /\ pc \in [Clients -> {"idle", "sent", "waiting", "locked", "tool", "running",
                              "tool_done", "runner_tool", "runner_tool_done"}]
    BY <1>0 DEF TypeOK
  <2>1. CASE CallToolWrites(c) \/ FileWritten(c) \/ RunnerWrites(c) \/ RunnerUnrecorded(c)
    <3>1. UNCHANGED <<pending, runner, behind>> /\ (pc'[c] \in InRun => pc[c] \in InRun)
      BY <2>0, <2>1 DEF CallToolWrites, FileWritten, RunnerWrites, RunnerUnrecorded,
         historyVars, InRun
    <3>. QED
      BY <1>3, <3>1
  <2>2. CASE Run(c)
    <3>1. /\ UNCHANGED <<pending, behind>> /\ pending[s] = 0
          /\ runner' = [runner EXCEPT ![s] = IF @ = None THEN state[s] ELSE @]
      BY <2>2 DEF Run, historyVars
    <3>2. state[s] # None
      BY <1>0, <1>1, NoneAssumption DEF TypeOK, State
    <3>. QED
      BY <1>1, <2>0, <3>1, <3>2
  <2>3. CASE Resume(c)
    <3>1. /\ UNCHANGED <<runner, behind>> /\ pending[s] # 0
          /\ pending' = [pending EXCEPT ![s] = 0]
      BY <2>3 DEF Resume, Matches
    <3>. QED
      BY <1>1, <1>3, <2>0, <3>1
  <2>4. CASE RunnerRecords(c)
    <3>1. /\ UNCHANGED <<pending, behind>> /\ pc[c] \in InRun
          /\ runner' = [runner EXCEPT ![s][writing[s].file] = disk[s][writing[s].file]]
      BY <2>4 DEF RunnerRecords, historyVars, InRun
    <3>2. runner'[s] # None
      <4>1. writing[s].file \in Files /\ runner[s] \in State /\ disk[s] \in State
        BY <1>0, <1>1, <1>3, <2>0, <2>4, <3>1 DEF MutexInv, RunnerRecords, TypeOK, Working, InRun
      <4>2. runner'[s] \in State
        BY <1>1, <2>0, <3>1, <4>1 DEF State
      <4>. QED
        BY <4>2, NoneAssumption DEF State
    <3>. QED
      BY <1>3, <3>1, <3>2
  <2>. QED
    BY <1>6, <2>1, <2>2, <2>3, <2>4 DEF WorkStep
<1>. QED
  BY <1>5, <1>6

LEMMA RunnerStepInv == BaseInv /\ [Next]_vars => RunnerInv'
<1> SUFFICES ASSUME BaseInv, [Next]_vars PROVE RunnerInv'
  OBVIOUS
<1>0. TypeOK /\ MutexInv /\ RunnerInv
  BY DEF BaseInv
<1>1. CASE UNCHANGED vars
  BY <1>0, <1>1 DEF RunnerInv, vars, sessionVars, historyVars
<1>2. ASSUME NEW w \in late, LateWrite(w) PROVE RunnerInv'
  BY <1>0, <1>2 DEF LateWrite, RunnerInv, historyVars
<1>3. ASSUME NEW c \in Clients, Arrives(c) PROVE RunnerInv'
  <2>1. \A d \in Clients : d # c => pc'[d] = pc[d] /\ req'[d] = req[d]
    BY <1>0, <1>3, PcType DEF Arrives
  <2>2. pc'[c] \notin InRun
    BY <1>3 DEF Arrives, InRun
  <2>. QED
    BY <1>0, <1>3, <2>1, <2>2 DEF Arrives, RunnerInv, sessionVars, historyVars
<1>4. ASSUME NEW c \in Clients, Leaves(c) \/ Works(c), RunnerOf(req[c].session)'
      PROVE  RunnerInv'
  <2>1. req[c].session \in Sessions
    BY <1>4 DEF Leaves, Works
  <2>2. MutexInv' /\ req' = req
    BY <1>0, <1>4, MutexStep DEF Leaves, Works
  <2>3. \A r \in Sessions \ {req[c].session} : RunnerOf(r)
    BY <1>0, RunnerSessions
  <2>4. \A r \in Sessions \ {req[c].session} : RunnerOf(r)'
    BY <1>0, <1>4, <2>3, OthersKept DEF RunnerOf
  <2>5. \A r \in Sessions : RunnerOf(r)'
    BY <1>4, <2>2, <2>4
  <2>. QED
    BY <2>2, <2>5 DEF RunnerInv, RunnerOf, MutexInv, Working
<1>5. ASSUME NEW c \in Clients,
             (Leaves(c) /\ LeaveStep(c)) \/ (Works(c) /\ WorkStep(c))
      PROVE  RunnerInv'
  <2>1. RunnerOf(req[c].session)'
    BY <1>5, RunnerHandled
  <2>. QED
    BY <1>4, <1>5, <2>1
<1>. QED
  BY <1>0, <1>1, <1>2, <1>3, <1>5, StepEffect

LEMMA InitialBase == Init => BaseInv
<1> SUFFICES ASSUME Init PROVE BaseInv
  OBVIOUS
<1>1. TypeOK
  <2>1. [f \in Files |-> 0] \in State
    BY DEF State
  <2>2. NoWrite \in Write
    BY DEF NoWrite, Write
  <2>3. [kind |-> "new_session", session |-> None, interrupt |-> 0] \in Request
    BY DEF Request, Kinds
  <2>4. /\ queue \in [Sessions -> Seq(Clients)] /\ accepted \in [Sessions -> Seq(Nat)]
    BY DEF Init
  <2>. QED
    BY <2>1, <2>2, <2>3, <2>4 DEF Init, TypeOK
<1>2. MutexInv /\ RunnerInv
  BY DEF Init, MutexInv, RunnerInv, Working, InRun
<1>. QED
  BY <1>1, <1>2 DEF BaseInv

LEMMA BaseStep == BaseInv /\ [Next]_vars => BaseInv'
BY StepType, MutexStep, RunnerStepInv DEF BaseInv

-----------------------------------------------------------------------------
(* Decisions. *)

\* What AcceptedInv says of one session.
AcceptedOf(s) ==
  /\ pending[s] <= asked[s]
  /\ \A i \in DOMAIN accepted[s] :
       accepted[s][i] \in 1 .. asked[s] /\ accepted[s][i] # pending[s]
  /\ \A i, j \in DOMAIN accepted[s] : i # j => accepted[s][i] # accepted[s][j]

LEMMA AcceptedSessions == AcceptedInv <=> \A s \in Sessions : AcceptedOf(s)
BY DEF AcceptedInv, AcceptedOf, DecidedOnce

\* An interrupt that is pending was raised after all that were decided, so a
\* second answer to one of those finds another one, or none.
LEMMA AcceptedStep == BaseInv /\ AcceptedInv /\ [Next]_vars => AcceptedInv'
<1> SUFFICES ASSUME BaseInv, AcceptedInv, [Next]_vars, NEW r \in Sessions
             PROVE  AcceptedOf(r)'
  BY DEF AcceptedInv, AcceptedOf, DecidedOnce
<1>0. /\ pending \in [Sessions -> Nat] /\ asked \in [Sessions -> Nat]
      /\ accepted \in [Sessions -> Seq(Nat)]
      /\ AcceptedOf(r)
  BY AcceptedSessions DEF BaseInv, TypeOK
<1>1. CASE /\ pending'[r] \in {0, pending[r]} /\ asked'[r] = asked[r]
           /\ accepted'[r] = accepted[r]
  BY <1>0, <1>1 DEF AcceptedOf
<1>2. ASSUME NEW c \in Clients, Resume(c) PROVE AcceptedOf(r)'
  <2>. DEFINE s == req[c].session
  <2>1. /\ pending[s] # 0 /\ req[c].interrupt = pending[s] /\ asked' = asked
        /\ pending' = [pending EXCEPT ![s] = 0]
        /\ accepted' = [accepted EXCEPT ![s] = Append(@, req[c].interrupt)]
    BY <1>2 DEF Resume, Matches
  <2>2. CASE r = s
    <3>1. /\ accepted'[r] = Append(accepted[r], pending[r])
          /\ pending'[r] = 0 /\ asked'[r] = asked[r]
          /\ pending[r] # 0
      BY <1>0, <2>1, <2>2
    <3>2. /\ accepted[r] \in Seq(Nat) /\ pending[r] \in Nat /\ asked[r] \in Nat
      BY <1>0
    <3>3. \A i \in DOMAIN accepted'[r] :
             accepted'[r][i] = IF i \in DOMAIN accepted[r] THEN accepted[r][i] ELSE pending[r]
      BY <3>1, <3>2
    <3>4. \A i, j \in DOMAIN accepted'[r] :
             i # j => i \in DOMAIN accepted[r] \/ j \in DOMAIN accepted[r]
      BY <3>1, <3>2
    <3>5. \A i \in DOMAIN accepted'[r] : accepted'[r][i] \in 1 .. asked[r]
      BY <1>0, <3>1, <3>2, <3>3 DEF AcceptedOf
    <3>6. \A i, j \in DOMAIN accepted'[r] : i # j => accepted'[r][i] # accepted'[r][j]
      <4>1. \A i \in DOMAIN accepted[r] : accepted[r][i] # pending[r]
        BY <1>0 DEF AcceptedOf
      <4>2. \A i, j \in DOMAIN accepted[r] : i # j => accepted[r][i] # accepted[r][j]
        BY <1>0 DEF AcceptedOf
      <4>. QED
        BY <3>3, <3>4, <4>1, <4>2
    <3>. QED
      BY <3>1, <3>2, <3>5, <3>6 DEF AcceptedOf
  <2>. QED
    BY <1>0, <1>1, <2>1, <2>2
<1>3. ASSUME NEW c \in Clients, RunnerEnds(c) PROVE AcceptedOf(r)'
  <2>. DEFINE s == req[c].session
  <2>1. /\ accepted' = accepted
        /\ \/ UNCHANGED <<pending, asked>>
           \/ /\ asked' = [asked EXCEPT ![s] = @ + 1]
              /\ pending' = [pending EXCEPT ![s] = asked[s] + 1]
    BY <1>3 DEF RunnerEnds
  <2>2. CASE r = s /\ asked'[r] = asked[r] + 1 /\ pending'[r] = asked[r] + 1
    <3>1. \A i \in DOMAIN accepted[r] : accepted[r][i] <= asked[r]
      BY <1>0 DEF AcceptedOf
    <3>2. /\ asked[r] \in Nat /\ asked'[r] = asked[r] + 1 /\ pending'[r] = asked[r] + 1
          /\ accepted'[r] = accepted[r]
      BY <1>0, <2>1, <2>2 DEF AcceptedOf, TypeOK
    <3>3. \A i, j \in DOMAIN accepted[r] : i # j => accepted[r][i] # accepted[r][j]
      BY <1>0 DEF AcceptedOf
    <3>4. \A i \in DOMAIN accepted[r] : accepted[r][i] \in Nat \ {0}
      BY <1>0 DEF TypeOK, AcceptedOf
    <3>5. \A i \in DOMAIN accepted[r] :
            accepted[r][i] \in 1 .. asked'[r] /\ accepted[r][i] # pending'[r]
      BY <3>1, <3>2, <3>4
    <3>. QED
      BY <1>0, <3>2, <3>3, <3>5 DEF AcceptedOf
  <2>. QED
    BY <1>0, <1>1, <2>1, <2>2
<1>4. CASE UNCHANGED <<pending, asked, accepted>>
  BY <1>0, <1>1, <1>4
<1>5. ASSUME NEW c \in Clients, Send(c) \/ Handle(c) \/ DropUnserved(c) \/ Drop(c)
      PROVE  AcceptedOf(r)'
  BY <1>2, <1>3, <1>4, <1>5 DEF Handle, Send, DropUnserved, Drop, NewSession,
     NewSessionFails, NotFound, Wait, Lock, Gone, CallToolReads, CallToolWrites,
     FileWritten, CallToolDone, RunInvalid, Run, RunSuspended, ResumeRefused,
     CallToolUnrecorded, RunnerWrites, RunnerRecords, RunnerUnrecorded, GetState,
     EndSession, sessionVars, historyVars
<1>. QED
  BY <1>4, <1>5 DEF Next, LateWrite, vars, sessionVars, historyVars

\* However many clients answer an interrupt, and however late or often, it is
\* decided once.
THEOREM DecidedOnceCorrect == Spec => []DecidedOnce
<1>1. Init => AcceptedInv
  BY DEF Init, AcceptedInv, DecidedOnce
<1>2. Spec => [](BaseInv /\ AcceptedInv)
  BY <1>1, InitialBase, BaseStep, AcceptedStep, PTL DEF Spec
<1>. QED
  BY <1>2, PTL DEF AcceptedInv

\* Every variable keeps its type, the sequence of decisions and the files of a
\* dropped handler included.
THEOREM TypeCorrect == Spec => []TypeOK
BY InitialBase, BaseStep, PTL DEF Spec, BaseInv

-----------------------------------------------------------------------------
(* A closed session. *)

\* What ClosedIsFinal says of one session.
StaysClosed(s) ==
  closed[s] =>
    /\ closed'[s]
    /\ UNCHANGED <<state[s], version[s], runner[s], pending[s]>>
    /\ disk'[s] = disk[s] \/ \E w \in late : w.session = s

LEMMA ClosedStep ==
  ASSUME BaseInv, [Next]_vars, NEW s \in Sessions PROVE StaysClosed(s)
<1>0. TypeOK /\ MutexInv
  BY DEF BaseInv
<1>1. CASE UNCHANGED vars
  BY <1>1 DEF StaysClosed, vars, sessionVars
<1>2. ASSUME NEW w \in late, LateWrite(w) PROVE StaysClosed(s)
  <2>1. s # w.session => disk'[s] = disk[s]
    BY <1>2 DEF LateWrite
  <2>. QED
    BY <1>2, <2>1 DEF LateWrite, StaysClosed
<1>3. ASSUME NEW c \in Clients, Arrives(c) PROVE StaysClosed(s)
  BY <1>3 DEF Arrives, StaysClosed, sessionVars
<1>4. ASSUME NEW c \in Clients, Leaves(c) \/ Works(c), req[c].session # s
      PROVE  StaysClosed(s)
  BY <1>4 DEF Leaves, Works, OnlySession, StaysClosed
<1>5. ASSUME NEW c \in Clients, Works(c), req[c].session = s PROVE StaysClosed(s)
  BY <1>5 DEF Works, StaysClosed
<1>6. ASSUME NEW c \in Clients, LeaveStep(c), req[c].session = s PROVE StaysClosed(s)
  <2>1. SUFFICES ASSUME closed[s] PROVE StaysClosed(s)
    BY DEF StaysClosed
  <2>2. pc[c] \notin Working
    BY <1>0, <1>6, <2>1 DEF MutexInv
  <2>3. Gone(c) \/ EndSession(c) \/ Drop(c)
    BY <1>6, <2>1, <2>2 DEF LeaveStep, CallToolReads, RunInvalid, RunSuspended,
       ResumeRefused, GetState, CallToolDone, CallToolUnrecorded, RunnerEnds, Serving,
       Working, InRun
  <2>4. closed'[s] /\ UNCHANGED <<state, version, runner, pending, disk>>
    BY <1>0, <1>6, <2>1, <2>3 DEF Gone, EndSession, Drop, TypeOK, sessionVars
  <2>. QED
    BY <2>4 DEF StaysClosed
<1>. QED
  BY <1>0, <1>1, <1>2, <1>3, <1>4, <1>5, <1>6, StepEffect

\* A handler that waited for the mutex while its session was closed finds it
\* closed: only a write whose client is gone, or a command that execute gave up
\* on, still reaches the disk.
THEOREM ClosedCorrect == Spec => ClosedIsFinal
<1>1. Spec => []BaseInv
  BY InitialBase, BaseStep, PTL DEF Spec
<1>2. BaseInv /\ [Next]_vars =>
        [\A s \in Sessions : closed[s] =>
           /\ closed'[s]
           /\ UNCHANGED <<state[s], version[s], runner[s], pending[s]>>
           /\ disk'[s] = disk[s] \/ \E w \in late : w.session = s]_vars
  BY ClosedStep DEF StaysClosed
<1>. QED
  BY <1>1, <1>2, PTL DEF Spec, ClosedIsFinal

-----------------------------------------------------------------------------
(* Versions. *)

\* What VersionInv says of one session.
SameTold(a, b) ==
  a.version = b.version =>
    a.state = b.state /\ (a.told /\ b.told => a.pending = b.pending)

ToldOf(s) ==
  /\ \A a, b \in seen : a.session = s /\ b.session = s => SameTold(a, b)
  /\ \A a \in seen : a.session = s => a.version <= version[s]
  /\ \A a \in seen : a.session = s /\ a.version = version[s] =>
       a.state = state[s] /\ (a.told => a.pending = pending[s])
  /\ \A c \in Clients, a \in seen :
       pc[c] \in Working /\ req[c].session = s /\ a.session = s
         => a.version < version[s]

LEMMA VersionSessions ==
  ASSUME TypeOK PROVE VersionInv <=> \A s \in Sessions : ToldOf(s)
<1>1. \A a \in seen : a.session \in Sessions
  BY DEF TypeOK, Seen
<1>. QED
  BY <1>1 DEF VersionInv, VersionIdentifiesState, ToldOf, SameTold

LEMMA VersionSessionsNext ==
  ASSUME TypeOK', \A s \in Sessions : ToldOf(s)' PROVE VersionInv'
<1>1. \A a \in seen' : a.session \in Sessions
  BY DEF TypeOK, Seen
<1>. QED
  BY <1>1 DEF VersionInv, VersionIdentifiesState, ToldOf, SameTold

\* Whoever answers tells what its session has come to, under a version that
\* nobody was told before, or that says the same.
LEMMA AnswerTold ==
  ASSUME TypeOK, TypeOK', NEW s \in Sessions, NEW told \in BOOLEAN, Tell(s, told),
         \A a, b \in seen : a.session = s /\ b.session = s => SameTold(a, b),
         \A a \in seen : a.session = s =>
           /\ a.version <= version'[s]
           /\ a.version = version'[s] =>
                a.state = state'[s] /\ (a.told => a.pending = pending'[s]),
         \A c \in Clients : req'[c].session = s => pc'[c] \notin Working
  PROVE  ToldOf(s)'
<1>. DEFINE new == [session |-> s, version |-> version'[s], state |-> state'[s],
                    pending |-> IF told THEN pending'[s] ELSE 0, told |-> told]
<1>1. seen' = seen \cup {new}
  BY DEF Tell
<1>2. /\ new.session = s /\ new.version = version'[s] /\ new.state = state'[s]
      /\ new.told = told /\ (told => new.pending = pending'[s])
  OBVIOUS
<1>3. version'[s] \in Nat /\ \A a \in seen : a.version \in Nat
  BY DEF TypeOK, Seen
<1>. HIDE DEF new
<1>4. ASSUME NEW a \in seen', a.session = s
      PROVE  /\ a.version <= version'[s]
             /\ a.version = version'[s] => a.state = state'[s] /\ (a.told => a.pending = pending'[s])
  <2>1. CASE a \in seen
    BY <1>3, <1>4, <2>1
  <2>2. CASE a = new
    BY <1>2, <1>3, <2>2
  <2>. QED
    BY <1>1, <1>4, <2>1, <2>2
<1>5. ASSUME NEW a \in seen', NEW b \in seen', a.session = s, b.session = s
      PROVE  SameTold(a, b)
  <2>1. CASE a \in seen /\ b \in seen
    BY <1>5, <2>1
  <2>2. CASE a = new \/ b = new
    BY <1>2, <1>4, <1>5, <2>2 DEF SameTold
  <2>. QED
    BY <1>1, <2>1, <2>2
<1>. QED
  BY <1>4, <1>5 DEF ToldOf

LEMMA VersionHandled ==
  ASSUME BaseInv, BaseInv', NEW c \in Clients, ToldOf(req[c].session),
         (Leaves(c) /\ LeaveStep(c)) \/ (Works(c) /\ WorkStep(c))
  PROVE  ToldOf(req[c].session)'
<1>. DEFINE s == req[c].session
<1>0. /\ TypeOK /\ TypeOK' /\ MutexInv /\ s \in Sessions /\ req' = req
      /\ version \in [Sessions -> Nat] /\ version[s] \in Nat /\ version'[s] \in Nat
      /\ \A a \in seen : a.version \in Nat
  BY DEF BaseInv, Leaves, Works, TypeOK, Seen
<1>1. /\ \A a, b \in seen : a.session = s /\ b.session = s => SameTold(a, b)
      /\ \A a \in seen : a.session = s => a.version <= version[s]
      /\ \A a \in seen : a.session = s /\ a.version = version[s] =>
           a.state = state[s] /\ (a.told => a.pending = pending[s])
      /\ pc[c] \in Working => \A a \in seen : a.session = s => a.version < version[s]
  BY DEF ToldOf
<1>2. \A d \in Clients : d # c /\ req[d].session = s => pc'[d] \notin Working
  BY <1>0, OthersWait DEF Serviced
<1>3. CASE LeaveStep(c)
  <2>1. \A d \in Clients : req'[d].session = s => pc'[d] \notin Working
    <3>1. pc' = [pc EXCEPT ![c] = "idle"] /\ req' = req
      BY <1>0, <1>3, LeaveEffect DEF Leaves
    <3>2. pc'[c] = "idle"
      BY <1>0, <3>1, PcType
    <3>3. "idle" \notin Working
      BY DEF Working, InRun
    <3>. QED
      BY <1>2, <3>1, <3>2, <3>3
  <2>2. CASE Gone(c) \/ RunInvalid(c) \/ EndSession(c) \/ Drop(c)
    <3>1. UNCHANGED <<seen, version, state, pending>>
      BY <2>2 DEF Gone, RunInvalid, EndSession, Drop, sessionVars, historyVars
    <3>. QED
      BY <1>0, <1>1, <2>1, <3>1 DEF ToldOf
  <2>3. CASE CallToolReads(c) \/ RunSuspended(c) \/ ResumeRefused(c)
    <3>1. version'[s] = version[s] + 1 /\ (Tell(s, TRUE) \/ Tell(s, FALSE))
      BY <1>0, <2>3 DEF CallToolReads, RunSuspended, ResumeRefused, NextVersion, Report
    <3>2. \A a \in seen : a.session = s => a.version < version'[s]
      BY <1>0, <1>1, <3>1
    <3>3. PICK told \in BOOLEAN : Tell(s, told)
      BY <3>1
    <3>4. \A a \in seen : a.session = s => a.version <= version'[s] /\ a.version # version'[s]
      BY <1>0, <3>2
    <3>. QED
      BY <1>0, <1>1, <2>1, <3>3, <3>4, AnswerTold
  <2>4. CASE GetState(c)
    <3>1. UNCHANGED <<version, state, pending>> /\ Tell(s, TRUE)
      BY <2>4 DEF GetState, sessionVars
    <3>. QED
      BY <1>0, <1>1, <2>1, <3>1, AnswerTold
  <2>5. CASE CallToolDone(c) \/ CallToolUnrecorded(c) \/ RunnerEnds(c)
    <3>1. UNCHANGED version /\ (Tell(s, TRUE) \/ Tell(s, FALSE)) /\ pc[c] \in Working
      BY <2>5 DEF CallToolDone, CallToolUnrecorded, RunnerEnds, Report, Working, InRun
    <3>2. \A a \in seen : a.session = s => a.version < version'[s]
      BY <1>1, <3>1
    <3>3. PICK told \in BOOLEAN : Tell(s, told)
      BY <3>1
    <3>4. \A a \in seen : a.session = s => a.version <= version'[s] /\ a.version # version'[s]
      BY <1>0, <3>2
    <3>. QED
      BY <1>0, <1>1, <2>1, <3>3, <3>4, AnswerTold
  <2>. QED
    BY <1>3, <2>2, <2>3, <2>4, <2>5 DEF LeaveStep
<1>4. CASE WorkStep(c)
  <2>1. seen' = seen
    BY <1>4 DEF WorkStep, CallToolWrites, FileWritten, Run, Resume, RunnerWrites,
       RunnerRecords, RunnerUnrecorded, historyVars
  <2>2. \A a \in seen : a.session = s => a.version < version'[s]
    <3>1. CASE CallToolWrites(c) \/ Run(c) \/ Resume(c)
      <4>1. version'[s] = version[s] + 1
        BY <1>0, <3>1 DEF CallToolWrites, Run, Resume, NextVersion
      <4>. QED
        BY <1>0, <1>1, <4>1
    <3>2. CASE FileWritten(c) \/ RunnerWrites(c) \/ RunnerRecords(c) \/ RunnerUnrecorded(c)
      BY <1>1, <3>2 DEF FileWritten, RunnerWrites, RunnerRecords, RunnerUnrecorded,
         Working, InRun
    <3>. QED
      BY <1>4, <3>1, <3>2 DEF WorkStep
  <2>. QED
    BY <1>0, <1>1, <2>1, <2>2 DEF ToldOf
<1>. QED
  BY <1>3, <1>4

LEMMA VersionStep == BaseInv /\ VersionInv /\ [Next]_vars => VersionInv'
<1> SUFFICES ASSUME BaseInv, VersionInv, [Next]_vars PROVE VersionInv'
  OBVIOUS
<1>0. TypeOK /\ MutexInv /\ BaseInv' /\ TypeOK' /\ \A s \in Sessions : ToldOf(s)
  BY BaseStep, VersionSessions DEF BaseInv
<1>1. CASE UNCHANGED vars
  BY <1>0, <1>1 DEF VersionInv, VersionIdentifiesState, vars, sessionVars, historyVars
<1>2. ASSUME NEW w \in late, LateWrite(w) PROVE VersionInv'
  BY <1>0, <1>2 DEF LateWrite, VersionInv, VersionIdentifiesState, historyVars
<1>3. ASSUME NEW c \in Clients, Arrives(c) PROVE VersionInv'
  <2>1. /\ \A d \in Clients : d # c => pc'[d] = pc[d] /\ req'[d] = req[d]
        /\ pc'[c] \notin Working
    BY <1>0, <1>3, PcType DEF Arrives, Working, InRun
  <2>. QED
    BY <1>0, <1>3, <2>1 DEF Arrives, VersionInv, VersionIdentifiesState, sessionVars, historyVars
<1>4. ASSUME NEW c \in Clients,
             (Leaves(c) /\ LeaveStep(c)) \/ (Works(c) /\ WorkStep(c))
      PROVE  VersionInv'
  <2>1. req[c].session \in Sessions /\ OnlySession(req[c].session) /\ req' = req
    BY <1>4 DEF Leaves, Works
  <2>2. ToldOf(req[c].session)'
    BY <1>0, <1>4, <2>1, VersionHandled
  <2>3. ASSUME NEW r \in Sessions \ {req[c].session} PROVE ToldOf(r)'
    <3>1. \A a \in seen' : a.session = r => a \in seen
      BY <2>1 DEF OnlySession
    <3>2. /\ state'[r] = state[r] /\ version'[r] = version[r] /\ pending'[r] = pending[r]
          /\ \A d \in Clients : req[d].session = r => pc'[d] = pc[d]
          /\ req' = req
      BY <1>0, <1>4, OthersKept
    <3>. QED
      BY <1>0, <3>1, <3>2 DEF ToldOf
  <2>4. \A s \in Sessions : ToldOf(s)'
    BY <2>1, <2>2, <2>3
  <2>. QED
    BY <1>0, <2>4, VersionSessionsNext
<1>. QED
  BY <1>0, <1>1, <1>2, <1>3, <1>4, StepEffect

\* A version stands for one state and one pending interrupt, whoever asks and
\* whichever handlers were dropped midway.
THEOREM VersionCorrect == Spec => []VersionIdentifiesState
<1>1. Init => VersionInv
  BY InitialBase DEF BaseInv, Init, VersionInv, VersionIdentifiesState
<1>2. Spec => [](BaseInv /\ VersionInv)
  BY <1>1, InitialBase, BaseStep, VersionStep, PTL DEF Spec
<1>. QED
  BY <1>2, PTL DEF VersionInv

-----------------------------------------------------------------------------
(* The mirrors of the files. *)

\* What MirrorInv says of one session.
MirrorOf(s) ==
  s \notin torn =>
    /\ Rests(s) => Mirrored(s)
    /\ \A c \in Clients : req[c].session = s =>
         /\ pc[c] = "tool" => Mirrored(s)
         /\ pc[c] = "tool_done" /\ s \notin behind => MirroredBut(state[s], s)
         /\ pc[c] \in {"running", "runner_tool"} => runner[s] = disk[s]
         /\ pc[c] = "runner_tool_done" => MirroredBut(runner[s], s)

LateTorn == \A w \in late : w.session \in torn

LEMMA MirrorSessions ==
  ASSUME MutexInv
  PROVE  MirrorInv <=> LateTorn /\ \A s \in Sessions : MirrorOf(s)
BY DEF MirrorInv, MirrorOf, LateTorn, MutexInv, Working, InRun

LEMMA MirrorSessionsNext ==
  ASSUME MutexInv', LateTorn', \A s \in Sessions : MirrorOf(s)' PROVE MirrorInv'
BY DEF MirrorInv, MirrorOf, LateTorn, MutexInv, Working, InRun

\* Two mirrors that agree but for a file agree when that file is copied.
LEMMA CopyFile ==
  ASSUME NEW copy \in State, NEW files \in State, NEW f \in Files,
         \A g \in Files : g # f => copy[g] = files[g]
  PROVE  [copy EXCEPT ![f] = files[f]] = files
BY DEF State

LEMMA MirrorHandled ==
  ASSUME BaseInv, BaseInv', NEW c \in Clients, NEW s \in Sessions, s = req[c].session,
         MirrorOf(s), s \notin torn',
         (Leaves(c) /\ LeaveStep(c)) \/ (Works(c) /\ WorkStep(c))
  PROVE  /\ pc'[c] \notin Working \/ pc'[c] = "tool" => Mirrored(s)'
         /\ pc'[c] = "tool_done" /\ s \notin behind' => MirroredBut(state[s], s)'
         /\ pc'[c] \in {"running", "runner_tool"} => runner'[s] = disk'[s]
         /\ pc'[c] = "runner_tool_done" => MirroredBut(runner[s], s)'
<1>0. /\ TypeOK /\ MutexInv /\ RunnerInv /\ pc[c] \in Serviced
      /\ state \in [Sessions -> State] /\ runner \in [Sessions -> State \cup {None}]
      /\ disk \in [Sessions -> State]
      /\ pc \in [Clients -> {"idle", "sent", "waiting", "locked", "tool", "running",
                            "tool_done", "runner_tool", "runner_tool_done"}]
  BY DEF BaseInv, Leaves, Works, TypeOK
<1>1. /\ s \notin torn
      /\ pc[c] \in Working \ {"running"} => writing[s].file \in Files
      /\ pc[c] \in InRun => runner[s] # None
      /\ pending[s] # 0 \/ s \in behind => runner[s] # None
  <2>1. torn \subseteq torn'
    BY DEF LeaveStep, WorkStep, Gone, CallToolReads, RunInvalid, RunSuspended, ResumeRefused,
       GetState, EndSession, CallToolDone, CallToolUnrecorded, RunnerEnds, Drop,
       LeaveHalfDone, CallToolWrites, FileWritten, Run, Resume, RunnerWrites, RunnerRecords,
       RunnerUnrecorded, Unrecorded, historyVars
  <2>. QED
    BY <1>0, <2>1 DEF MutexInv, RunnerInv
<1>2. pc[c] = "locked" => Rests(s)
  BY <1>0, Alone DEF Rests, Serviced, Working, InRun
<1>3. /\ pc[c] \in {"locked", "tool"} => Mirrored(s)
      /\ pc[c] = "tool_done" /\ s \notin behind => MirroredBut(state[s], s)
      /\ pc[c] \in {"running", "runner_tool"} => runner[s] = disk[s]
      /\ pc[c] = "runner_tool_done" => MirroredBut(runner[s], s)
  BY <1>1, <1>2 DEF MirrorOf
<1>4. CASE LeaveStep(c)
  <2>0. pc'[c] = "idle"
    BY <1>0, <1>4, LeaveEffect, PcType DEF Leaves
  <2>1. SUFFICES Mirrored(s)'
    BY <2>0 DEF Working, InRun
  <2>2. CASE Gone(c) \/ CallToolReads(c) \/ RunInvalid(c) \/ GetState(c) \/ EndSession(c)
    <3>1. UNCHANGED <<state, runner, disk, behind>> /\ pc[c] = "locked"
      BY <2>2 DEF Gone, CallToolReads, RunInvalid, GetState, EndSession, Serving,
         sessionVars, historyVars
    <3>. QED
      BY <1>3, <3>1 DEF Mirrored
  <2>3. CASE RunSuspended(c) \/ ResumeRefused(c)
    <3>1. /\ UNCHANGED <<runner, disk>> /\ pc[c] = "locked" /\ behind' = behind \ {s}
          /\ state'[s] = IF runner[s] = None THEN state[s] ELSE runner[s]
      BY <1>0, <2>3 DEF RunSuspended, ResumeRefused, Serving, Report
    <3>. QED
      BY <1>1, <1>3, <3>1 DEF Mirrored
  <2>4. CASE RunnerEnds(c)
    <3>1. /\ UNCHANGED <<runner, disk>> /\ pc[c] = "running" /\ behind' = behind \ {s}
          /\ state'[s] = IF runner[s] = None THEN state[s] ELSE runner[s]
      BY <1>0, <2>4 DEF RunnerEnds, Report
    <3>. QED
      BY <1>1, <1>3, <3>1 DEF Mirrored, InRun
  <2>5. CASE CallToolDone(c)
    <3>1. /\ UNCHANGED <<runner, disk, behind>> /\ pc[c] = "tool_done" /\ runner[s] = None
          /\ state'[s] = [state[s] EXCEPT ![writing[s].file] = disk[s][writing[s].file]]
      BY <1>0, <2>5 DEF CallToolDone
    <3>2. s \notin behind /\ writing[s].file \in Files
      BY <1>1, <3>1 DEF Working
    <3>3. \A f \in Files : f # writing[s].file => state[s][f] = disk[s][f]
      BY <1>3, <3>1, <3>2 DEF MirroredBut
    <3>4. state[s] \in State /\ disk[s] \in State
      BY <1>0
    <3>5. PICK f \in Files : f = writing[s].file
      BY <3>2
    <3>6. [state[s] EXCEPT ![f] = disk[s][f]] = disk[s]
      <4>1. \A g \in Files : g # f => state[s][g] = disk[s][g]
        BY <3>3, <3>5
      <4>. QED
        BY <3>4, <4>1, CopyFile
    <3>7. state'[s] = disk[s]
      BY <3>1, <3>5, <3>6
    <3>. QED
      BY <3>1, <3>7 DEF Mirrored
  <2>6. CASE Drop(c)
    <3>1. /\ UNCHANGED <<state, runner, disk>> /\ pc[c] \in {"locked", "running"}
          /\ pc[c] = "running" => s \in behind'
          /\ pc[c] = "locked" => behind' = behind
      BY <1>0, <2>6 DEF Drop, LeaveHalfDone, Serviced, Working, InRun
    <3>. QED
      BY <1>1, <1>3, <3>1 DEF Mirrored
  <2>7. CASE CallToolUnrecorded(c)
    <3>1. UNCHANGED <<state, runner, disk, behind>> /\ pc[c] = "tool"
      BY <2>7 DEF CallToolUnrecorded, Unrecorded
    <3>. QED
      BY <1>3, <3>1 DEF Mirrored
  <2>. QED
    BY <1>4, <2>2, <2>3, <2>4, <2>5, <2>6, <2>7 DEF LeaveStep
<1>5. CASE WorkStep(c)
  <2>1. CASE CallToolWrites(c)
    <3>1. UNCHANGED <<state, runner, disk, behind>> /\ pc[c] = "locked" /\ pc'[c] = "tool"
      BY <1>0, <2>1 DEF CallToolWrites, Serving, historyVars
    <3>. QED
      BY <1>3, <3>1 DEF Mirrored
  <2>2. CASE FileWritten(c)
    <3>1. /\ UNCHANGED <<state, runner, behind, writing>>
          /\ \/ pc[c] = "tool" /\ pc'[c] = "tool_done"
             \/ pc[c] = "runner_tool" /\ pc'[c] = "runner_tool_done"
          /\ disk'[s] = [disk[s] EXCEPT ![writing[s].file] = writing[s].number]
      BY <1>0, <2>2 DEF FileWritten, historyVars
    <3>2. \A f \in Files : f # writing[s].file => disk'[s][f] = disk[s][f]
      BY <1>0, <3>1 DEF State
    <3>3. CASE pc[c] = "tool"
      <4>1. s \notin behind => state[s] = disk[s]
        BY <1>3, <3>3 DEF Mirrored
      <4>2. s \notin behind => \A f \in Files : f # writing[s].file => state'[s][f] = disk'[s][f]
        BY <3>1, <3>2, <4>1
      <4>3. (s \notin behind => MirroredBut(state[s], s))'
        BY <3>1, <4>2 DEF MirroredBut
      <4>. QED
        BY <3>1, <3>3, <4>3 DEF Working, InRun
    <3>4. CASE pc[c] = "runner_tool"
      <4>1. runner[s] = disk[s]
        BY <1>3, <3>4
      <4>2. \A f \in Files : f # writing[s].file => runner'[s][f] = disk'[s][f]
        BY <3>1, <3>2, <4>1
      <4>3. MirroredBut(runner[s], s)'
        BY <3>1, <4>2 DEF MirroredBut
      <4>. QED
        BY <3>1, <3>4, <4>3 DEF Working, InRun
    <3>. QED
      BY <3>1, <3>3, <3>4
  <2>3. CASE Run(c)
    <3>1. /\ UNCHANGED disk /\ pc[c] = "locked" /\ pc'[c] = "running"
          /\ runner'[s] = IF runner[s] = None THEN state[s] ELSE runner[s]
      BY <1>0, <2>3 DEF Run, Serving
    <3>. QED
      BY <1>1, <1>3, <3>1 DEF Mirrored, Working, InRun
  <2>4. CASE Resume(c)
    <3>1. UNCHANGED <<disk, runner>> /\ pc[c] = "locked" /\ pc'[c] = "running" /\ pending[s] # 0
      BY <1>0, <2>4 DEF Resume, Serving, Matches
    <3>. QED
      BY <1>1, <1>3, <3>1 DEF Mirrored, Working, InRun
  <2>5. CASE RunnerWrites(c)
    <3>1. UNCHANGED <<disk, runner>> /\ pc[c] = "running" /\ pc'[c] = "runner_tool"
      BY <1>0, <2>5 DEF RunnerWrites
    <3>. QED
      BY <1>3, <3>1 DEF Working, InRun
  <2>6. CASE RunnerRecords(c)
    <3>1. /\ UNCHANGED disk /\ pc[c] = "runner_tool_done" /\ pc'[c] = "running"
          /\ runner'[s] = [runner[s] EXCEPT ![writing[s].file] = disk[s][writing[s].file]]
      BY <1>0, <2>6 DEF RunnerRecords
    <3>2. runner[s] \in State /\ writing[s].file \in Files
      BY <1>0, <1>1, <3>1 DEF Working, InRun
    <3>3. \A f \in Files : f # writing[s].file => runner[s][f] = disk[s][f]
      BY <1>3, <3>1 DEF MirroredBut
    <3>4. disk[s] \in State
      BY <1>0
    <3>5. PICK f \in Files : f = writing[s].file
      BY <3>2
    <3>6. [runner[s] EXCEPT ![f] = disk[s][f]] = disk[s]
      BY <3>3, <3>4, <3>5, <3>2, CopyFile
    <3>7. runner'[s] = disk[s]
      BY <3>1, <3>5, <3>6
    <3>. QED
      BY <3>1, <3>7 DEF Working, InRun
  <2>7. CASE RunnerUnrecorded(c)
    <3>1. UNCHANGED <<runner, disk>> /\ pc[c] = "runner_tool" /\ pc'[c] = "running"
      BY <1>0, <2>7 DEF RunnerUnrecorded, Unrecorded
    <3>. QED
      BY <1>3, <3>1 DEF Working, InRun
  <2>. QED
    BY <1>5, <2>1, <2>2, <2>3, <2>4, <2>5, <2>6, <2>7 DEF WorkStep
<1>. QED
  BY <1>4, <1>5

\* A change is late only if its handler was dropped or execute gave up on it,
\* and such a session is torn.
LEMMA LateStep == BaseInv /\ LateTorn /\ [Next]_vars => LateTorn'
<1> SUFFICES ASSUME BaseInv, LateTorn, [Next]_vars PROVE LateTorn'
  OBVIOUS
<1>0. TypeOK /\ MutexInv
  BY DEF BaseInv
<1>1. ASSUME late' \subseteq late, torn \subseteq torn' PROVE LateTorn'
  BY <1>1 DEF LateTorn
<1>2. ASSUME NEW c \in Clients, LeaveStep(c) PROVE LateTorn'
  <2>1. CASE Drop(c)
    BY <2>1 DEF Drop, LeaveHalfDone, LateTorn
  <2>2. CASE CallToolUnrecorded(c)
    BY <2>2 DEF CallToolUnrecorded, Unrecorded, LateTorn
  <2>. QED
    BY <1>1, <1>2, <2>1, <2>2 DEF LeaveStep, Gone, CallToolReads, RunInvalid, RunSuspended,
       ResumeRefused, GetState, EndSession, CallToolDone, RunnerEnds, sessionVars, historyVars
<1>3. ASSUME NEW c \in Clients, WorkStep(c) PROVE LateTorn'
  <2>1. CASE RunnerUnrecorded(c)
    BY <2>1 DEF RunnerUnrecorded, Unrecorded, LateTorn
  <2>. QED
    BY <1>1, <1>3, <2>1 DEF WorkStep, CallToolWrites, FileWritten, Run, Resume,
       RunnerWrites, RunnerRecords, historyVars
<1>4. ASSUME NEW c \in Clients, Arrives(c) PROVE LateTorn'
  BY <1>1, <1>4 DEF Arrives, sessionVars, historyVars
<1>5. ASSUME NEW w \in late, LateWrite(w) PROVE LateTorn'
  BY <1>1, <1>5 DEF LateWrite, historyVars
<1>6. CASE UNCHANGED vars
  BY <1>1, <1>6 DEF vars, sessionVars, historyVars
<1>. QED
  BY <1>0, <1>2, <1>3, <1>4, <1>5, <1>6, StepEffect

LEMMA MirrorStep == BaseInv /\ MirrorInv /\ [Next]_vars => MirrorInv'
<1> SUFFICES ASSUME BaseInv, MirrorInv, [Next]_vars PROVE MirrorInv'
  OBVIOUS
<1>0. /\ TypeOK /\ MutexInv /\ BaseInv' /\ MutexInv'
      /\ LateTorn /\ \A s \in Sessions : MirrorOf(s)
  BY BaseStep, MirrorSessions DEF BaseInv
<1>1. SUFFICES ASSUME NEW s \in Sessions PROVE MirrorOf(s)'
  <2>1. LateTorn'
    BY <1>0, LateStep
  <2>. QED
    BY <1>0, <1>1, <2>1, MirrorSessionsNext
<1>2. MirrorOf(s)
  BY <1>0
<1>3. CASE UNCHANGED vars
  BY <1>2, <1>3 DEF MirrorOf, Rests, Mirrored, MirroredBut, vars, sessionVars, historyVars
<1>4. ASSUME NEW w \in late, LateWrite(w) PROVE MirrorOf(s)'
  <2>1. s \in torn \/ disk'[s] = disk[s]
    BY <1>0, <1>4 DEF LateWrite, LateTorn, TypeOK
  <2>2. UNCHANGED <<state, runner, behind, writing, torn, pc, req>>
    BY <1>4 DEF LateWrite, historyVars
  <2>. QED
    BY <1>2, <2>1, <2>2 DEF MirrorOf, Rests, Mirrored, MirroredBut
<1>5. ASSUME NEW c \in Clients, Arrives(c) PROVE MirrorOf(s)'
  <2>1. /\ \A d \in Clients : d # c => pc'[d] = pc[d] /\ req'[d] = req[d]
        /\ pc[c] \notin Working /\ pc'[c] \notin Working
    BY <1>0, <1>5, PcType DEF Arrives, Serviced, Working, InRun
  <2>2. UNCHANGED <<state, runner, disk, behind, writing, torn>>
    BY <1>5 DEF Arrives, sessionVars, historyVars
  <2>3. Rests(s)' => Rests(s)
    BY <2>1 DEF Rests
  <2>. QED
    BY <1>2, <2>1, <2>2, <2>3 DEF MirrorOf, Mirrored, MirroredBut, Working, InRun
<1>6. ASSUME NEW c \in Clients,
             (Leaves(c) /\ LeaveStep(c)) \/ (Works(c) /\ WorkStep(c))
      PROVE  MirrorOf(s)'
  <2>1. req' = req
    BY <1>6 DEF Leaves, Works
  <2>2. CASE req[c].session = s
    <3>1. SUFFICES ASSUME s \notin torn'
                   PROVE  MirrorOf(s)'
      BY DEF MirrorOf
    <3>2. \A d \in Clients : d # c /\ req[d].session = s => pc'[d] \notin Working
      BY <1>0, <1>6, <2>2, OthersWait DEF Serviced
    <3>3. /\ pc'[c] \notin Working \/ pc'[c] = "tool" => Mirrored(s)'
          /\ pc'[c] = "tool_done" /\ s \notin behind' => MirroredBut(state[s], s)'
          /\ pc'[c] \in {"running", "runner_tool"} => runner'[s] = disk'[s]
          /\ pc'[c] = "runner_tool_done" => MirroredBut(runner[s], s)'
      BY <1>0, <1>2, <1>6, <2>2, <3>1, MirrorHandled
    <3>. QED
      BY <2>1, <2>2, <3>2, <3>3 DEF MirrorOf, Rests, Working, InRun
  <2>3. CASE req[c].session # s
    <3>1. /\ state'[s] = state[s] /\ runner'[s] = runner[s] /\ disk'[s] = disk[s]
          /\ writing'[s] = writing[s]
          /\ (s \in torn') = (s \in torn) /\ (s \in behind') = (s \in behind)
          /\ \A d \in Clients : req[d].session = s => pc'[d] = pc[d]
      BY <1>0, <1>6, <2>3, OthersKept
    <3>. QED
      BY <1>2, <2>1, <3>1 DEF MirrorOf, Rests, Mirrored, MirroredBut
  <2>. QED
    BY <2>2, <2>3
<1>. QED
  BY <1>0, <1>3, <1>4, <1>5, <1>6, StepEffect

\* The copy the tools work on shows the disk whenever nobody is at work, and so
\* does the state clients get, but for the handlers that were dropped between a
\* write and its record, the writes that failed when they had touched their file,
\* the commands, and the call_tool writes a runner was not told of.
THEOREM MirrorCorrect == Spec => []StateMirrorsDisk
<1>1. Init => MirrorInv
  BY DEF Init, MirrorInv, Mirrored, Working, InRun
<1>2. MutexInv /\ MirrorInv => StateMirrorsDisk
  <2> SUFFICES ASSUME MutexInv, MirrorInv, NEW s \in Sessions, holder[s] = None,
                      s \notin torn
               PROVE  Mirrored(s)
    BY DEF StateMirrorsDisk, Mirrored
  <2>1. Rests(s)
    BY NoneAssumption DEF Rests, MutexInv
  <2>. QED
    BY <2>1 DEF MirrorInv
<1>3. Spec => [](BaseInv /\ MirrorInv)
  BY <1>1, InitialBase, BaseStep, MirrorStep, PTL DEF Spec
<1>4. BaseInv => MutexInv
  BY DEF BaseInv
<1>. QED
  BY <1>2, <1>3, <1>4, PTL
=============================================================================

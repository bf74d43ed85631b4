------------------------------- MODULE FileTools -------------------------------
(***************************************************************************)
(* The file tools of several sessions on one workspace: the calls that     *)
(* change files (crates/deepagents/src/tools/std_tools.rs) through the     *)
(* agent (agent.rs), which reads a written file back into its session's    *)
(* state (middleware/filesystem.rs, state.rs), on LocalSandbox             *)
(* (backends/local.rs) behind the routes of a CompositeBackend.            *)
(*                                                                         *)
(* Nothing locks a file.  A call checks, waits for the blocking pool, and  *)
(* works on what it finds then: tokio::fs::write truncates a file, writes  *)
(* it, and goes on when its caller is gone; a command outlives its         *)
(* timeout.  The calls are numbered, and the text that the n-th call puts  *)
(* into a file is n: the content of a file is the set of its texts, 0 what *)
(* was there at the start.  A call that only reads changes nothing.  A     *)
(* command is taken for the one change that it makes to one file.          *)
(***************************************************************************)
EXTENDS BackendPaths, FiniteSets

CONSTANTS
  Sessions,
  Paths,       \* the paths the tools are given
  Existing,    \* the files there at the start
  Nowhere,     \* no file, no inode; in a state, a deleted file
  Bytes,       \* what makes a file no UTF-8
  NoRecord,    \* a path not in state.filesystem
  MaxCalls     \* bound: calls ever made

ASSUME FilesAssumption ==
  /\ Nowhere \notin Nat /\ Bytes \notin Nat /\ MaxCalls \in Nat
  /\ Existing \subseteq {Located(path) : path \in Paths}

\* The files the tools reach, by their path on the host, and those that such a
\* path leads to when it is taken for the path of a tool once more.
Reached == {Located(path) : path \in Paths}
Files == Reached \cup {Located(file) : file \in Reached}

VARIABLES
  calls,    \* the calls made so far, the ended ones too
  disk,     \* Files -> the file there
  records   \* Sessions -> (Files -> the record in state.filesystem)

vars == <<calls, disk, records>>

-----------------------------------------------------------------------------
(* Values. *)

Texts == 0 .. MaxCalls
NoFile == [inode |-> Nowhere, texts |-> {}]
Exists(file) == disk[file] # NoFile

\* read_to_string fails on a file that is gone or no UTF-8.
Readable(file) == Exists(file) /\ Bytes \notin disk[file].texts

Phases == {"read", "open", "write", "read_back", "remove", "record", "command", "ended"}

\* result is what the session is told, "none" while it waits or when it left;
\* changed and broke (history) say that the call touched its file, and that
\* its write failed; met are the calls on its file under way while it was.
CallRecord ==
  [session : Sessions, tool : {"write_file", "edit_file", "delete_file", "execute"},
   file : Reached, old : Texts, keep : BOOLEAN, phase : Phases, awaited : BOOLEAN,
   result : {"none", "ok", "failed"}, inode : Texts \cup {Nowhere}, texts : SUBSET Texts,
   changed : BOOLEAN, broke : BOOLEAN, met : SUBSET Texts]

UnderWay == {n \in DOMAIN calls : calls[n].phase # "ended"}

Busy(s) == \E n \in UnderWay : calls[n].session = s /\ calls[n].awaited

-----------------------------------------------------------------------------
(* The beginning of a call: what is checked before the first wait. *)

\* Call s makes begins in this phase; one that has ended at once has failed.
Begin(s, tool, path, old, keep, phase) ==
  LET n      == Len(calls) + 1
      others == {m \in UnderWay : calls[m].file = Located(path)}
  IN  /\ n <= MaxCalls /\ ~Busy(s)
      /\ calls' = Append(
           [m \in DOMAIN calls |->
              IF m \in others THEN [calls[m] EXCEPT !.met = @ \cup {n}] ELSE calls[m]],
           [session |-> s, tool |-> tool, file |-> Located(path), old |-> old, keep |-> keep,
            phase |-> phase, awaited |-> phase # "ended",
            result |-> IF phase = "ended" THEN "failed" ELSE "none",
            inode |-> Nowhere, texts |-> {n}, changed |-> FALSE, broke |-> FALSE,
            met |-> others])
      /\ UNCHANGED <<disk, records>>

\* Fault: a file that exists is written again.
BeginWrite_Overwrites(s, path) == Begin(s, "write_file", path, 0, TRUE, "open")

\* write_file creates a file, and fails on one that exists.
BeginWrite(s, path) ==
  Begin(s, "write_file", path, 0, TRUE, IF Exists(Located(path)) THEN "ended" ELSE "open")

\* An edit replaces the text `old`, or adds to it when keep.
BeginEdit(s, path, old, keep) ==
  Begin(s, "edit_file", path, old, keep, IF Exists(Located(path)) THEN "read" ELSE "ended")

BeginDelete(s, path) ==
  Begin(s, "delete_file", path, 0, TRUE, IF Exists(Located(path)) THEN "remove" ELSE "ended")

\* A command that changes the file: it can name any file of the host.
BeginExecute(s, path) == Begin(s, "execute", path, 0, TRUE, "command")

-----------------------------------------------------------------------------
(* Its steps. *)

Update(n, call) == calls' = [calls EXCEPT ![n] = call]

\* The call is over, with this result for a session that still waits.
Ended(call, result) ==
  [call EXCEPT !.phase = "ended", !.awaited = FALSE, !.inode = Nowhere,
               !.result = IF call.awaited THEN result ELSE @]

At(n, phase) == n \in DOMAIN calls /\ calls[n].phase = phase

\* Fault: an edit opens the file for writing before it looks for the text.
ReadForEdit_OpensFirst(n) ==
  LET call  == calls[n]
      file  == disk[call.file]
      found == Readable(call.file) /\ call.old \in file.texts
  IN  /\ At(n, "read")
      /\ Update(n, IF found
                     THEN [call EXCEPT !.phase = "open", !.texts =
                             {n} \cup IF call.keep THEN file.texts ELSE file.texts \ {call.old}]
                     ELSE Ended([call EXCEPT !.changed = Exists(call.file)], "failed"))
      /\ disk' = IF found \/ ~Exists(call.file) THEN disk
                 ELSE [disk EXCEPT ![call.file].texts = {}]
      /\ UNCHANGED records

\* edit_file reads the file, and fails if it is gone or lacks the text.
ReadForEdit(n) ==
  LET call  == calls[n]
      texts == disk[call.file].texts
  IN  /\ At(n, "read")
      /\ Update(n, IF Readable(call.file) /\ call.old \in texts
                     THEN [call EXCEPT !.phase = "open", !.texts =
                             {n} \cup IF call.keep THEN texts ELSE texts \ {call.old}]
                     ELSE Ended(call, "failed"))
      /\ UNCHANGED <<disk, records>>

\* tokio::fs::write creates the file or truncates the one that is there.
Open(n) ==
  LET call  == calls[n]
      inode == IF Exists(call.file) THEN disk[call.file].inode ELSE n
  IN  /\ At(n, "open")
      /\ disk' = [disk EXCEPT ![call.file] = [inode |-> inode, texts |-> {}]]
      /\ Update(n, [call EXCEPT !.phase = "write", !.inode = inode, !.changed = TRUE])
      /\ UNCHANGED records

\* The file cannot be opened.
OpenFails(n) ==
  /\ At(n, "open")
  /\ Update(n, Ended(calls[n], "failed"))
  /\ UNCHANGED <<disk, records>>

\* What may stay of these texts behind a shorter one: a tail, which a write can
\* cut inside a character.
Tails(texts) == IF texts = {} THEN {{}} ELSE {{}, texts, texts \cup {Bytes}}

\* The write starts at the head of the file it opened: of what another writer
\* put there a tail may stay. Without an awaiting session nobody reads it back.
Write(n) ==
  LET call == calls[n]
      file == disk[call.file]
  IN  /\ At(n, "write")
      /\ IF file.inode = call.inode
           THEN \E tail \in Tails(file.texts) :
                  disk' = [disk EXCEPT ![call.file].texts = call.texts \cup tail]
           ELSE UNCHANGED disk
      /\ Update(n, IF call.awaited THEN [call EXCEPT !.phase = "read_back"]
                                   ELSE Ended(call, "ok"))
      /\ UNCHANGED records

\* The disk is full: the file stays as opening it left it.
WriteFails(n) ==
  /\ At(n, "write")
  /\ Update(n, Ended([calls[n] EXCEPT !.broke = TRUE], "failed"))
  /\ UNCHANGED <<disk, records>>

\* remove_file fails when another call was faster.
Remove(n) ==
  LET call == calls[n]
  IN  /\ At(n, "remove")
      /\ disk' = [disk EXCEPT ![call.file] = NoFile]
      /\ Update(n, IF ~Exists(call.file) THEN Ended(call, "failed")
                   ELSE IF call.awaited THEN [call EXCEPT !.phase = "record", !.changed = TRUE]
                   ELSE Ended([call EXCEPT !.changed = TRUE], "ok"))
      /\ UNCHANGED records

\* Fault: a deletion is not recorded.
RecordDelete_Forgets(n) ==
  /\ At(n, "record")
  /\ Update(n, Ended(calls[n], "ok"))
  /\ UNCHANGED <<disk, records>>

RecordDelete(n) ==
  /\ At(n, "record")
  /\ records' = [records EXCEPT ![calls[n].session][calls[n].file] = Nowhere]
  /\ Update(n, Ended(calls[n], "ok"))
  /\ UNCHANGED disk

\* The host path the tool reported leads through the routes once more: it is
\* under no prefix, and the file is found again only below the default root.
FoundAgain(file) == Located(file) = file

\* after_tool reads what this path leads to, the file or another one. If it
\* cannot, the call has failed, whatever the tool reported.
ReadBack(n) ==
  LET call  == calls[n]
      found == Located(call.file)
  IN  /\ At(n, "read_back")
      /\ records' = [records EXCEPT ![call.session][call.file] =
                       IF Readable(found) THEN disk[found].texts ELSE @]
      /\ Update(n, Ended(call, IF Readable(found) THEN "ok" ELSE "failed"))
      /\ UNCHANGED disk

\* The command removes or renames the file, or writes it, in place or as a new
\* file under its name, in UTF-8 or not. It is known to nobody's state.
Command(n) ==
  LET call == calls[n]
      file == disk[call.file]
  IN  /\ At(n, "command")
      /\ \/ disk' = [disk EXCEPT ![call.file] = NoFile]
         \/ \E inode \in {file.inode, n} \ {Nowhere},
               texts \in {{n}, {n, Bytes}, file.texts \cup {n}} :
              disk' = [disk EXCEPT ![call.file] = [inode |-> inode, texts |-> texts]]
      /\ Update(n, Ended([call EXCEPT !.changed = TRUE], "ok"))
      /\ UNCHANGED records

\* execute gives up on the command, which goes on.
Timeout(n) ==
  /\ At(n, "command") /\ calls[n].awaited
  /\ Update(n, [calls[n] EXCEPT !.awaited = FALSE, !.result = "failed"])
  /\ UNCHANGED <<disk, records>>

\* The session goes away. What the blocking pool and the shell have begun goes
\* on; what only the call itself would have done does not happen.
Drop(n) ==
  /\ n \in UnderWay /\ calls[n].awaited
  /\ Update(n, [calls[n] EXCEPT !.awaited = FALSE,
                  !.phase = IF @ \in {"read", "read_back", "record"} THEN "ended" ELSE @])
  /\ UNCHANGED <<disk, records>>

-----------------------------------------------------------------------------
Init ==
  /\ calls = <<>>
  /\ disk = [file \in Files |->
               IF file \in Existing THEN [inode |-> 0, texts |-> {0}] ELSE NoFile]
  /\ records = [s \in Sessions |-> [file \in Files |-> NoRecord]]

CallTool(s, path) ==
  \/ BeginWrite(s, path) \/ BeginDelete(s, path) \/ BeginExecute(s, path)
  \/ \E old \in 0 .. Len(calls), keep \in BOOLEAN : BeginEdit(s, path, old, keep)

Step(n) ==
  \/ ReadForEdit(n) \/ Open(n) \/ OpenFails(n) \/ Write(n) \/ WriteFails(n) \/ Remove(n)
  \/ RecordDelete(n) \/ ReadBack(n) \/ Command(n) \/ Timeout(n) \/ Drop(n)

Next ==
  \/ \E s \in Sessions, path \in Paths : CallTool(s, path)
  \/ \E n \in DOMAIN calls : Step(n)

Spec == Init /\ [][Next]_vars

-----------------------------------------------------------------------------
(* What sessions that share a workspace can rely on. *)

TypeOK ==
  /\ calls \in Seq(CallRecord) /\ Len(calls) <= MaxCalls
  /\ disk \in [Files -> [inode : Texts \cup {Nowhere},
                          texts : SUBSET (Texts \cup {Bytes})]]
  /\ records \in [Sessions -> [Files -> (SUBSET Texts) \cup {NoRecord, Nowhere}]]

\* The calls at work with the n-th one that change its file.
Rivals(n) == {m \in calls[n].met : calls[m].changed}

Later(n) == {m \in DOMAIN calls : m > n /\ calls[m].file = calls[n].file /\ calls[m].changed}

\* What a call wrote and reported is in the file until a later call takes it
\* out: a deletion, a command, an edit of that very text, or a write that
\* failed half way or is half way. Else it is lost only to a call that was
\* under way at the same time, never to a write_file or an edit of another
\* part that came after, whatever they overlap with.
KeptUnlessTaken ==
  TypeOK /\
  \A n \in DOMAIN calls :
    calls[n].result = "ok" /\ calls[n].tool \in {"write_file", "edit_file"} =>
      \/ n \in disk[calls[n].file].texts
      \/ Rivals(n) # {}
      \/ \E m \in Later(n) :
           \/ calls[m].tool \in {"delete_file", "execute"}
           \/ calls[m].old = n /\ ~calls[m].keep
           \/ calls[m].broke \/ calls[m].phase = "write"

\* A call that a session is told has failed has changed nothing, but for the
\* four cases in which it has: a write the disk could not take; a command that
\* outlives its timeout; a file whose route leads out of the root, which is
\* looked for in another place; and a file that another call, also a command,
\* changed at the same time, so that it was gone or no UTF-8 when read back.
FailedChangedNothing ==
  \A n \in DOMAIN calls :
    calls[n].result = "failed" /\ calls[n].changed =>
      \/ calls[n].broke
      \/ calls[n].tool = "execute"
      \/ ~FoundAgain(calls[n].file)
      \/ Rivals(n) # {}

\* A session's record of a file is what the last call that it saw succeed made
\* of the file, unless another call changed the file at the same time, and
\* stays so whatever the session's own calls fail at afterwards. What was
\* written behind a route that leads out of the root is excepted: the record
\* then holds what another file does.
RecordExact ==
  \A s \in Sessions, n \in DOMAIN calls :
    /\ calls[n].session = s /\ calls[n].result = "ok" /\ calls[n].tool # "execute"
    /\ Rivals(n) = {}
    /\ calls[n].tool = "delete_file" \/ FoundAgain(calls[n].file)
    /\ \A m \in DOMAIN calls :
         m > n /\ calls[m].session = s /\ calls[m].file = calls[n].file
           => calls[m].tool = "execute" \/ calls[m].result # "ok"
    => records[s][calls[n].file] =
         IF calls[n].tool = "delete_file" THEN Nowhere ELSE calls[n].texts
-----------------------------------------------------------------------------
(* The inductive invariant behind the theorems of FileToolsProofs.           *)

ToolOf ==
  [read |-> {"edit_file"}, open |-> {"write_file", "edit_file"},
   write |-> {"write_file", "edit_file"}, read_back |-> {"write_file", "edit_file"},
   remove |-> {"delete_file"}, record |-> {"delete_file"}, command |-> {"execute"},
   ended |-> {"write_file", "edit_file", "delete_file", "execute"}]

\* How far a call has come and what it has done; a session awaits its last one.
CallsInv ==
  \A n \in DOMAIN calls :
    LET call == calls[n]
    IN  /\ call.tool \in ToolOf[call.phase]
        /\ call.phase \in {"read", "open", "remove", "command"} => ~call.changed
        /\ call.phase \in {"write", "read_back", "record"} => call.changed
        /\ call.phase \in {"read_back", "record"} => call.awaited
        /\ call.awaited => call.phase # "ended" /\ call.result = "none"
        /\ call.result = "ok" => call.phase = "ended"
        /\ call.result = "failed" => call.phase = "ended" \/ call.tool = "execute"
        /\ call.phase = "write" => call.inode # Nowhere
        /\ n \in call.texts
        /\ \A m \in 1 .. (n - 1) : calls[m].session = call.session => ~calls[m].awaited

\* Of two calls on a file the earlier one has ended before the later one
\* began, or each has met the other.
MetInv ==
  /\ \A n \in DOMAIN calls : \A m \in calls[n].met :
       m \in DOMAIN calls \ {n} /\ calls[m].file = calls[n].file
  /\ \A n \in DOMAIN calls : \A m \in 1 .. (n - 1) :
       calls[m].file = calls[n].file =>
         /\ m \in calls[n].met <=> n \in calls[m].met
         /\ m \in calls[n].met \/ calls[m].phase = "ended"

DiskInv == \A file \in Files : Exists(file) => disk[file].inode # Nowhere

\* A call whose rivals have changed nothing finds the file as it left it.
WritingInv ==
  \A n \in DOMAIN calls :
    LET call == calls[n]
        file == disk[call.file]
    IN  Rivals(n) = {} =>
          /\ call.phase = "write" => file = [inode |-> call.inode, texts |-> {}]
          /\ call.phase = "read_back" => Exists(call.file) /\ file.texts = call.texts

\* A later call took the text of the n-th one out of the file for good.
Taken(n) ==
  \E m \in Later(n) :
    \/ calls[m].tool \in {"delete_file", "execute"}
    \/ calls[m].old = n /\ ~calls[m].keep
    \/ calls[m].broke

\* Until then the file holds the text, or a later call has just truncated it;
\* and later calls have read it and will write it again.
KeptInv ==
  \A n \in DOMAIN calls :
    /\ calls[n].result = "ok" /\ calls[n].tool \in {"write_file", "edit_file"}
    /\ Rivals(n) = {} /\ ~Taken(n)
    => LET file == disk[calls[n].file]
       IN  /\ Exists(calls[n].file)
           /\ \/ n \in file.texts
              \/ file.texts = {} /\ \E m \in Later(n) : calls[m].phase = "write"
           /\ \A m \in DOMAIN calls \ calls[n].met :
                m > n /\ calls[m].file = calls[n].file =>
                  /\ calls[m].phase \in {"open", "write"} =>
                       n \in calls[m].texts \/ (calls[m].old = n /\ ~calls[m].keep)
                  /\ calls[m].phase = "write" => calls[m].inode = file.inode
=============================================================================

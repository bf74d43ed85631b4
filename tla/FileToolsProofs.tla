---------------------------- MODULE FileToolsProofs ----------------------------
(***************************************************************************)
(* Proofs about FileTools, for any sessions, paths, routes and number of   *)
(* calls: what a session may believe of a success, of a failure and of its *)
(* records while others change the same files.  The inductive invariant is *)
(* TypeOK with CallsInv, MetInv, DiskInv, WritingInv and KeptInv.          *)
(***************************************************************************)
EXTENDS FileTools, TLAPS

-----------------------------------------------------------------------------
(* The shape of a step. *)

FileRecord == [inode : Texts \cup {Nowhere}, texts : SUBSET (Texts \cup {Bytes})]

BeginStep ==
  \E s \in Sessions, path \in Paths : CallTool(s, path)

LEMMA LocatedFile == \A path \in Paths : Located(path) \in Reached
BY DEF Reached

\* Every call begins in one of these ways.
Beginning(tool, file, phase) ==
  \/ tool = "write_file" /\ phase \in {"open", "ended"} /\ (phase = "open" => ~Exists(file))
  \/ tool = "edit_file" /\ phase \in {"read", "ended"}
  \/ tool = "delete_file" /\ phase \in {"remove", "ended"}
  \/ tool = "execute" /\ phase = "command"

LEMMA BeginForm ==
  ASSUME TypeOK, NEW s \in Sessions, NEW path \in Paths, CallTool(s, path)
  PROVE  \E tool, old, keep, phase :
           /\ Begin(s, tool, path, old, keep, phase)
           /\ Beginning(tool, Located(path), phase)
           /\ old \in 0 .. Len(calls) /\ keep \in BOOLEAN
           /\ tool # "edit_file" => keep
<1>. DEFINE Form(tool, old, keep, phase) ==
              /\ Begin(s, tool, path, old, keep, phase)
              /\ Beginning(tool, Located(path), phase)
              /\ old \in 0 .. Len(calls) /\ keep \in BOOLEAN
              /\ tool # "edit_file" => keep
<1>0. 0 \in 0 .. Len(calls)
  BY DEF TypeOK
<1>1. CASE BeginWrite(s, path)
  <2>1. Form("write_file", 0, TRUE, IF Exists(Located(path)) THEN "ended" ELSE "open")
    BY <1>0, <1>1 DEF BeginWrite, Beginning
  <2>. QED
    BY <2>1
<1>2. CASE BeginDelete(s, path)
  <2>1. Form("delete_file", 0, TRUE, IF Exists(Located(path)) THEN "remove" ELSE "ended")
    BY <1>0, <1>2 DEF BeginDelete, Beginning
  <2>. QED
    BY <2>1
<1>3. CASE BeginExecute(s, path)
  <2>1. Form("execute", 0, TRUE, "command")
    BY <1>0, <1>3 DEF BeginExecute, Beginning
  <2>. QED
    BY <2>1
<1>4. ASSUME NEW old \in 0 .. Len(calls), NEW keep \in BOOLEAN, BeginEdit(s, path, old, keep)
      PROVE  \E o, k, phase : Form("edit_file", o, k, phase)
  <2>1. Form("edit_file", old, keep, IF Exists(Located(path)) THEN "read" ELSE "ended")
    BY <1>4 DEF BeginEdit, Beginning
  <2>. QED
    BY <2>1
<1>. QED
  BY <1>1, <1>2, <1>3, <1>4 DEF CallTool

\* A new call leaves everything as it was but for what the others have met.
Begun(n, s, tool, file, old, keep, phase) ==
  LET new == calls'[n]
  IN  /\ UNCHANGED <<disk, records>> /\ ~Busy(s)
      /\ n = Len(calls) + 1 /\ Len(calls) \in Nat /\ n \in Texts
      /\ Len(calls') = n /\ DOMAIN calls' = 1 .. n /\ DOMAIN calls = 1 .. Len(calls)
      /\ new.session = s /\ new.tool = tool /\ new.file = file
      /\ new.old = old /\ new.keep = keep /\ new.phase = phase
      /\ new.awaited = (phase # "ended") /\ new.texts = {n}
      /\ new.result = (IF phase = "ended" THEN "failed" ELSE "none")
      /\ ~new.changed /\ ~new.broke
      /\ new.met = {m \in UnderWay : calls[m].file = file}
      /\ \A m \in DOMAIN calls :
           calls'[m] = IF m \in new.met THEN [calls[m] EXCEPT !.met = @ \cup {n}] ELSE calls[m]

LEMMA BeginEffect ==
  ASSUME TypeOK, NEW s \in Sessions, NEW path \in Paths,
         NEW tool, NEW old \in 0 .. Len(calls), NEW keep \in BOOLEAN, NEW phase,
         Begin(s, tool, path, old, keep, phase), Beginning(tool, Located(path), phase)
  PROVE  TypeOK' /\ Begun(Len(calls) + 1, s, tool, Located(path), old, keep, phase)
<1>. DEFINE n == Len(calls) + 1
            others == {m \in UnderWay : calls[m].file = Located(path)}
            older == [m \in DOMAIN calls |->
                        IF m \in others THEN [calls[m] EXCEPT !.met = @ \cup {n}] ELSE calls[m]]
            new == [session |-> s, tool |-> tool, file |-> Located(path), old |-> old,
                    keep |-> keep, phase |-> phase, awaited |-> phase # "ended",
                    result |-> IF phase = "ended" THEN "failed" ELSE "none",
                    inode |-> Nowhere, texts |-> {n}, changed |-> FALSE, broke |-> FALSE,
                    met |-> others]
<1>1. calls' = Append(older, new) /\ n <= MaxCalls /\ UNCHANGED <<disk, records>> /\ ~Busy(s)
  BY DEF Begin
<1>2. /\ calls \in Seq(CallRecord) /\ DOMAIN calls = 1 .. Len(calls) /\ Len(calls) \in Nat
      /\ n \in Texts /\ 0 .. Len(calls) \subseteq Texts /\ others \subseteq Texts
  BY <1>1, FilesAssumption DEF TypeOK, Texts, UnderWay
<1>3. new \in CallRecord
  <2>1. Located(path) \in Reached
    BY LocatedFile
  <2>2. tool \in {"write_file", "edit_file", "delete_file", "execute"} /\ phase \in Phases
    BY DEF Beginning, Phases
  <2>. QED
    BY <1>2, <2>1, <2>2 DEF CallRecord
<1>4. \A m \in DOMAIN calls : older[m] \in CallRecord
  <2>1. \A m \in DOMAIN calls : calls[m] \in CallRecord
    BY <1>2
  <2>. QED
    BY SMTT(30), <1>2, <2>1 DEF CallRecord
<1>5. older \in Seq(CallRecord) /\ Len(older) = Len(calls)
  BY <1>2, <1>4
<1>6. /\ calls' \in Seq(CallRecord) /\ Len(calls') = n /\ DOMAIN calls' = 1 .. n
      /\ calls'[n] = new /\ \A m \in DOMAIN calls : calls'[m] = older[m]
  <2>. HIDE DEF older, new
  <2>. QED
    BY <1>1, <1>2, <1>3, <1>5
<1>7. TypeOK'
  BY <1>1, <1>6 DEF TypeOK
<1>. QED
  BY <1>1, <1>2, <1>4, <1>6, <1>7 DEF Begun

\* A step is one call's: it changes that call, its file and its session's
\* record of the file.
LEMMA UpdateEffect ==
  ASSUME calls \in Seq(CallRecord), NEW n \in DOMAIN calls, NEW call \in CallRecord,
         Update(n, call)
  PROVE  /\ calls' \in Seq(CallRecord) /\ Len(calls') = Len(calls)
         /\ DOMAIN calls' = DOMAIN calls /\ calls'[n] = call
         /\ \A m \in DOMAIN calls \ {n} : calls'[m] = calls[m]
BY DEF Update

\* What no step of a call changes, and what it never takes back.
Same(n) ==
  /\ calls' \in Seq(CallRecord) /\ Len(calls') = Len(calls) /\ DOMAIN calls' = DOMAIN calls
  /\ \A m \in DOMAIN calls \ {n} : calls'[m] = calls[m]
  /\ calls'[n].session = calls[n].session /\ calls'[n].tool = calls[n].tool
  /\ calls'[n].file = calls[n].file /\ calls'[n].old = calls[n].old
  /\ calls'[n].keep = calls[n].keep /\ calls'[n].met = calls[n].met
  /\ calls[n].changed => calls'[n].changed
  /\ calls[n].broke => calls'[n].broke
  /\ calls[n].phase # "ended"
  /\ \A file \in Files \ {calls[n].file} : disk'[file] = disk[file]

LEMMA CallFields ==
  ASSUME TypeOK, NEW n \in DOMAIN calls
  PROVE  /\ calls[n] \in CallRecord /\ n \in Texts /\ n \in Nat /\ n # 0
         /\ calls[n].session \in Sessions /\ calls[n].file \in Reached
         /\ calls[n].file \in Files /\ Located(calls[n].file) \in Files
         /\ calls[n].phase \in Phases /\ calls[n].awaited \in BOOLEAN
         /\ calls[n].texts \in SUBSET Texts /\ calls[n].changed \in BOOLEAN
         /\ calls[n].broke \in BOOLEAN /\ calls[n].keep \in BOOLEAN
         /\ calls[n].result \in {"none", "ok", "failed"}
         /\ calls[n].inode \in Texts \cup {Nowhere} /\ calls[n].old \in Texts
         /\ disk[calls[n].file].inode \in Texts \cup {Nowhere}
         /\ disk[calls[n].file].texts \in SUBSET (Texts \cup {Bytes})
         /\ disk[calls[n].file] \in FileRecord /\ disk[Located(calls[n].file)] \in FileRecord
<1>1. calls[n] \in CallRecord
  BY DEF TypeOK
<1>2. n \in Texts /\ n \in Nat /\ n # 0
  BY FilesAssumption DEF TypeOK, Texts
<1>3. calls[n].file \in Reached /\ calls[n].file \in Files /\ Located(calls[n].file) \in Files
  BY <1>1 DEF CallRecord, Files
<1>4. disk[calls[n].file] \in FileRecord /\ disk[Located(calls[n].file)] \in FileRecord
  BY <1>3 DEF TypeOK, FileRecord
<1>. QED
  BY <1>1, <1>2, <1>3, <1>4 DEF CallRecord, FileRecord

LEMMA EndedCall ==
  ASSUME NEW call \in CallRecord, NEW result \in {"none", "ok", "failed"}
  PROVE  /\ Ended(call, result) \in CallRecord
         /\ Ended(call, result).phase = "ended" /\ ~Ended(call, result).awaited
         /\ Ended(call, result).result = IF call.awaited THEN result ELSE call.result
         /\ Ended(call, result).session = call.session /\ Ended(call, result).tool = call.tool
         /\ Ended(call, result).file = call.file /\ Ended(call, result).old = call.old
         /\ Ended(call, result).keep = call.keep /\ Ended(call, result).met = call.met
         /\ Ended(call, result).texts = call.texts
         /\ Ended(call, result).changed = call.changed
         /\ Ended(call, result).broke = call.broke
BY ZenonT(30) DEF Ended, CallRecord, Phases

Read(n) ==
  LET call == calls[n]
      new == calls'[n]
  IN  /\ UNCHANGED <<disk, records>>
      /\ call.phase = "read" /\ new.changed = call.changed /\ new.broke = call.broke
      /\ n \in call.texts => n \in new.texts
      /\ \/ /\ new.phase = "open" /\ new.awaited = call.awaited
            /\ new.result = call.result /\ call.old \in disk[call.file].texts
            /\ \A text \in disk[call.file].texts :
                 text \in new.texts \/ (call.old = text /\ ~call.keep)
         \/ /\ new.phase = "ended" /\ ~new.awaited
            /\ new.result = IF call.awaited THEN "failed" ELSE call.result

LEMMA ReadForEditEffect ==
  ASSUME TypeOK, NEW n \in DOMAIN calls, ReadForEdit(n)
  PROVE  TypeOK' /\ Same(n) /\ Read(n)
<1>. DEFINE call == calls[n]
            texts == disk[call.file].texts
            found == Readable(call.file) /\ call.old \in texts
            opened == [call EXCEPT !.phase = "open", !.texts =
                             {n} \cup IF call.keep THEN texts ELSE texts \ {call.old}]
<1>. USE DEF Read
<1>0. call \in CallRecord /\ n \in Texts /\ texts \in SUBSET (Texts \cup {Bytes})
  BY CallFields
<1>1. /\ call.phase = "read" /\ UNCHANGED <<disk, records>>
      /\ Update(n, IF found THEN opened ELSE Ended(call, "failed"))
  BY DEF ReadForEdit, At
<1>3. CASE found
  <2>0. opened \in CallRecord
    <3>1. texts \in SUBSET Texts
      BY <1>0, <1>3 DEF Readable
    <3>. QED
      BY <1>0, <3>1 DEF CallRecord, Phases
  <2>1. Update(n, opened)
    BY <1>1, <1>3
  <2>2. /\ calls' \in Seq(CallRecord) /\ Len(calls') = Len(calls)
        /\ DOMAIN calls' = DOMAIN calls /\ calls'[n] = opened
        /\ \A m \in DOMAIN calls \ {n} : calls'[m] = calls[m]
    <3>. HIDE DEF opened
    <3>. QED
      BY <2>0, <2>1, UpdateEffect DEF TypeOK
  <2>. QED
    BY <1>0, <1>1, <1>3, <2>2 DEF TypeOK, Same, CallRecord
<1>4. CASE ~found
  <2>1. Update(n, Ended(call, "failed"))
    BY <1>1, <1>4
  <2>2. /\ calls' \in Seq(CallRecord) /\ Len(calls') = Len(calls)
        /\ DOMAIN calls' = DOMAIN calls /\ calls'[n] = Ended(call, "failed")
        /\ \A m \in DOMAIN calls \ {n} : calls'[m] = calls[m]
    BY <1>0, <2>1, UpdateEffect, EndedCall DEF TypeOK
  <2>. QED
    BY <1>0, <1>1, <2>2, EndedCall DEF TypeOK, Same
<1>. QED
  BY <1>3, <1>4

LEMMA DiskEffect ==
  ASSUME TypeOK, NEW file \in Files, NEW new \in FileRecord, disk' = [disk EXCEPT ![file] = new]
  PROVE  /\ disk' \in [Files -> FileRecord] /\ disk'[file] = new
         /\ \A other \in Files \ {file} : disk'[other] = disk[other]
BY DEF TypeOK, FileRecord

\* The inode an open file has.
Inode(n) == IF Exists(calls[n].file) THEN disk[calls[n].file].inode ELSE n

Opened(n) ==
  LET call == calls[n]
      new == calls'[n]
  IN  /\ UNCHANGED records
      /\ call.phase = "open" /\ new.phase = "write" /\ new.changed
      /\ new.awaited = call.awaited /\ new.result = call.result
      /\ new.broke = call.broke /\ new.texts = call.texts /\ new.inode = Inode(n)
      /\ disk'[call.file] = [inode |-> Inode(n), texts |-> {}]

LEMMA OpenEffect ==
  ASSUME TypeOK, NEW n \in DOMAIN calls, Open(n)
  PROVE  TypeOK' /\ Same(n) /\ Opened(n)
<1>. DEFINE call == calls[n]
            file == [inode |-> Inode(n), texts |-> {}]
            new == [call EXCEPT !.phase = "write", !.inode = Inode(n), !.changed = TRUE]
<1>0. call \in CallRecord /\ n \in Texts /\ call.file \in Files
  BY CallFields
<1>1. /\ call.phase = "open" /\ UNCHANGED records
      /\ disk' = [disk EXCEPT ![call.file] = file] /\ Update(n, new)
  BY DEF Open, At, Inode
<1>2. Inode(n) \in Texts \cup {Nowhere}
  BY <1>0, CallFields DEF Inode
<1>3. new \in CallRecord /\ file \in FileRecord
  BY <1>0, <1>2 DEF CallRecord, Phases, FileRecord
<1>4. /\ disk' \in [Files -> FileRecord] /\ disk'[call.file] = file
      /\ \A other \in Files \ {call.file} : disk'[other] = disk[other]
  <2>. HIDE DEF file
  <2>. QED
    BY <1>0, <1>1, <1>3, DiskEffect
<1>5. /\ calls' \in Seq(CallRecord) /\ Len(calls') = Len(calls)
      /\ DOMAIN calls' = DOMAIN calls /\ calls'[n] = new
      /\ \A m \in DOMAIN calls \ {n} : calls'[m] = calls[m]
  <2>. HIDE DEF new
  <2>. QED
    BY <1>1, <1>3, UpdateEffect DEF TypeOK
<1>6. TypeOK'
  BY <1>1, <1>4, <1>5 DEF TypeOK, FileRecord
<1>. QED
  BY <1>0, <1>1, <1>4, <1>5, <1>6 DEF Same, CallRecord, Opened

\* The steps that end a call and leave the disk alone, and the session's record
\* but for a file read back or a deletion.
Failed(n) ==
  LET call == calls[n]
      new == calls'[n]
  IN  /\ UNCHANGED <<disk, records>>
      /\ new.phase = "ended" /\ ~new.awaited /\ new.changed = call.changed
      /\ new.result = (IF call.awaited THEN "failed" ELSE call.result)
      /\ new.texts = call.texts
      /\ \/ call.phase = "open" /\ new.broke = call.broke
         \/ call.phase = "write" /\ new.broke

LEMMA FailEffect ==
  ASSUME TypeOK, NEW n \in DOMAIN calls, OpenFails(n) \/ WriteFails(n)
  PROVE  TypeOK' /\ Same(n) /\ Failed(n)
<1>. DEFINE call == calls[n]
            broken == [call EXCEPT !.broke = TRUE]
<1>. USE DEF Failed
<1>0. call \in CallRecord
  BY CallFields
<1>1. broken \in CallRecord
  BY <1>0 DEF CallRecord
<1>2. CASE OpenFails(n)
  <2>1. call.phase = "open" /\ Update(n, Ended(call, "failed")) /\ UNCHANGED <<disk, records>>
    BY <1>2 DEF OpenFails, At
  <2>2. /\ calls' \in Seq(CallRecord) /\ Len(calls') = Len(calls)
        /\ DOMAIN calls' = DOMAIN calls /\ calls'[n] = Ended(call, "failed")
        /\ \A m \in DOMAIN calls \ {n} : calls'[m] = calls[m]
    BY <1>0, <2>1, UpdateEffect, EndedCall DEF TypeOK
  <2>. QED
    BY <1>0, <2>1, <2>2, EndedCall DEF TypeOK, Same
<1>3. CASE WriteFails(n)
  <2>1. call.phase = "write" /\ Update(n, Ended(broken, "failed")) /\ UNCHANGED <<disk, records>>
    BY <1>3 DEF WriteFails, At
  <2>2. /\ broken.session = call.session /\ broken.tool = call.tool /\ broken.file = call.file
        /\ broken.old = call.old /\ broken.keep = call.keep /\ broken.met = call.met
        /\ broken.awaited = call.awaited /\ broken.result = call.result
        /\ broken.changed = call.changed /\ broken.texts = call.texts /\ broken.broke
    BY <1>0 DEF CallRecord
  <2>. HIDE DEF broken
  <2>3. /\ calls' \in Seq(CallRecord) /\ Len(calls') = Len(calls)
        /\ DOMAIN calls' = DOMAIN calls /\ calls'[n] = Ended(broken, "failed")
        /\ \A m \in DOMAIN calls \ {n} : calls'[m] = calls[m]
    BY <1>1, <2>1, UpdateEffect, EndedCall DEF TypeOK
  <2>. QED
    BY <1>1, <2>1, <2>2, <2>3, EndedCall DEF TypeOK, Same
<1>. QED
  BY <1>2, <1>3

Written(n) ==
  LET call == calls[n]
      new == calls'[n]
      file == disk[call.file]
  IN  /\ UNCHANGED records
      /\ call.phase = "write" /\ new.changed = call.changed /\ new.broke = call.broke
      /\ new.result = call.result /\ new.texts = call.texts
      /\ IF call.awaited THEN new.phase = "read_back" /\ new.awaited
                         ELSE new.phase = "ended" /\ ~new.awaited
      /\ IF file.inode = call.inode
           THEN \E tail \in Tails(file.texts) :
                  disk'[call.file] = [inode |-> file.inode, texts |-> call.texts \cup tail]
           ELSE disk'[call.file] = file

LEMMA WriteEffect ==
  ASSUME TypeOK, NEW n \in DOMAIN calls, Write(n)
  PROVE  TypeOK' /\ Same(n) /\ Written(n)
<1>. DEFINE call == calls[n]
            file == disk[call.file]
            back == [call EXCEPT !.phase = "read_back"]
<1>0. /\ call \in CallRecord /\ call.file \in Files /\ file \in FileRecord
      /\ call.texts \in SUBSET Texts
  BY CallFields
<1>1. /\ call.phase = "write" /\ UNCHANGED records
      /\ Update(n, IF call.awaited THEN back ELSE Ended(call, "ok"))
      /\ IF file.inode = call.inode
           THEN \E tail \in Tails(file.texts) :
                  disk' = [disk EXCEPT ![call.file].texts = call.texts \cup tail]
           ELSE UNCHANGED disk
  BY DEF Write, At
<1>2. /\ disk' \in [Files -> FileRecord]
      /\ \A other \in Files \ {call.file} : disk'[other] = disk[other]
      /\ IF file.inode = call.inode
           THEN \E tail \in Tails(file.texts) :
                  disk'[call.file] = [inode |-> file.inode, texts |-> call.texts \cup tail]
           ELSE disk'[call.file] = file
  <2>1. CASE file.inode = call.inode
    <3>1. PICK tail \in Tails(file.texts) :
            disk' = [disk EXCEPT ![call.file].texts = call.texts \cup tail]
      BY <1>1, <2>1
    <3>. DEFINE new == [inode |-> file.inode, texts |-> call.texts \cup tail]
    <3>2. disk' = [disk EXCEPT ![call.file] = new]
      <4>1. [file EXCEPT !.texts = call.texts \cup tail] = new
        BY SMTT(30), <1>0 DEF FileRecord
      <4>2. disk' = [disk EXCEPT ![call.file] = [file EXCEPT !.texts = call.texts \cup tail]]
        BY <3>1
      <4>. QED
        BY <4>1, <4>2
    <3>3. new \in FileRecord
      BY <1>0, <3>1 DEF FileRecord, Tails
    <3>4. /\ disk' \in [Files -> FileRecord] /\ disk'[call.file] = new
          /\ \A other \in Files \ {call.file} : disk'[other] = disk[other]
      <4>. HIDE DEF new
      <4>. QED
        BY <1>0, <3>2, <3>3, DiskEffect
    <3>. QED
      BY <2>1, <3>1, <3>4
  <2>2. CASE file.inode # call.inode
    BY <1>1, <2>2 DEF TypeOK, FileRecord
  <2>. QED
    BY <2>1, <2>2
<1>3. /\ calls' \in Seq(CallRecord) /\ Len(calls') = Len(calls) /\ DOMAIN calls' = DOMAIN calls
      /\ calls'[n] = (IF call.awaited THEN back ELSE Ended(call, "ok"))
      /\ \A m \in DOMAIN calls \ {n} : calls'[m] = calls[m]
  <2>1. back \in CallRecord
    BY <1>0 DEF CallRecord, Phases
  <2>. HIDE DEF back
  <2>2. (IF call.awaited THEN back ELSE Ended(call, "ok")) \in CallRecord
    BY <1>0, <2>1, EndedCall
  <2>. QED
    BY <1>1, <2>2, UpdateEffect DEF TypeOK
<1>4. TypeOK'
  BY <1>1, <1>2, <1>3 DEF TypeOK, FileRecord
<1>5. /\ calls'[n].session = call.session /\ calls'[n].tool = call.tool
      /\ calls'[n].file = call.file /\ calls'[n].old = call.old /\ calls'[n].keep = call.keep
      /\ calls'[n].met = call.met /\ calls'[n].texts = call.texts
      /\ calls'[n].changed = call.changed /\ calls'[n].broke = call.broke
      /\ calls'[n].result = call.result
      /\ IF call.awaited THEN calls'[n].phase = "read_back" /\ calls'[n].awaited
         ELSE calls'[n].phase = "ended" /\ ~calls'[n].awaited
  <2>1. CASE call.awaited
    BY <1>0, <1>3, <2>1 DEF CallRecord
  <2>2. CASE ~call.awaited
    BY <1>0, <1>3, <2>2, EndedCall
  <2>. QED
    BY <2>1, <2>2
<1>. QED
  BY <1>1, <1>2, <1>3, <1>4, <1>5 DEF Same, Written

Removed(n) ==
  LET call == calls[n]
      new == calls'[n]
  IN  /\ UNCHANGED records
      /\ call.phase = "remove" /\ disk'[call.file] = NoFile
      /\ new.broke = call.broke /\ new.texts = call.texts
      /\ IF Exists(call.file) THEN new.changed ELSE new.changed = call.changed
      /\ \/ /\ new.phase = "ended" /\ ~new.awaited
            /\ new.result = IF call.awaited THEN "failed" ELSE call.result
            /\ call.awaited => ~Exists(call.file)
         \/ /\ new.phase = "record" /\ new.awaited /\ call.awaited
            /\ new.result = call.result /\ Exists(call.file)

LEMMA RemoveEffect ==
  ASSUME TypeOK, NEW n \in DOMAIN calls, Remove(n)
  PROVE  TypeOK' /\ Same(n) /\ Removed(n)
<1>. DEFINE call == calls[n]
            removed == [call EXCEPT !.changed = TRUE]
            record == [call EXCEPT !.phase = "record", !.changed = TRUE]
            new == IF ~Exists(call.file) THEN Ended(call, "failed")
                   ELSE IF call.awaited THEN record ELSE Ended(removed, "ok")
<1>0. call \in CallRecord /\ call.file \in Files
  BY CallFields
<1>1. /\ call.phase = "remove" /\ UNCHANGED records
      /\ disk' = [disk EXCEPT ![call.file] = NoFile] /\ Update(n, new)
  BY DEF Remove, At
<1>2. removed \in CallRecord /\ record \in CallRecord
  BY <1>0 DEF CallRecord, Phases
<1>3. /\ disk' \in [Files -> FileRecord] /\ disk'[call.file] = NoFile
      /\ \A other \in Files \ {call.file} : disk'[other] = disk[other]
  <2>1. NoFile \in FileRecord
    BY DEF NoFile, FileRecord
  <2>. QED
    BY <1>0, <1>1, <2>1, DiskEffect
<1>4. /\ new \in CallRecord
      /\ new.session = call.session /\ new.tool = call.tool /\ new.file = call.file
      /\ new.old = call.old /\ new.keep = call.keep /\ new.met = call.met
      /\ new.broke = call.broke /\ new.texts = call.texts
      /\ IF Exists(call.file) THEN new.changed ELSE new.changed = call.changed
      /\ \/ /\ new.phase = "ended" /\ ~new.awaited
            /\ new.result = IF call.awaited THEN "failed" ELSE call.result
            /\ call.awaited => ~Exists(call.file)
         \/ /\ new.phase = "record" /\ new.awaited /\ call.awaited
            /\ new.result = call.result /\ Exists(call.file)
  <2>1. CASE ~Exists(call.file)
    BY <1>0, <2>1, EndedCall
  <2>2. CASE Exists(call.file) /\ call.awaited
    <3>1. new = record
      BY <2>2
    <3>. QED
      BY <1>0, <1>2, <2>2, <3>1 DEF CallRecord
  <2>3. CASE Exists(call.file) /\ ~call.awaited
    <3>1. new = Ended(removed, "ok")
      BY <2>3
    <3>2. /\ removed.session = call.session /\ removed.tool = call.tool
          /\ removed.file = call.file /\ removed.old = call.old /\ removed.keep = call.keep
          /\ removed.met = call.met /\ removed.broke = call.broke
          /\ removed.texts = call.texts /\ removed.changed
          /\ removed.awaited = call.awaited /\ removed.result = call.result
      BY <1>0 DEF CallRecord
    <3>. HIDE DEF removed, new
    <3>. QED
      BY <1>2, <2>3, <3>1, <3>2, EndedCall
  <2>. QED
    BY <2>1, <2>2, <2>3
<1>5. /\ calls' \in Seq(CallRecord) /\ Len(calls') = Len(calls)
      /\ DOMAIN calls' = DOMAIN calls /\ calls'[n] = new
      /\ \A m \in DOMAIN calls \ {n} : calls'[m] = calls[m]
  <2>. HIDE DEF new
  <2>. QED
    BY <1>1, <1>4, UpdateEffect DEF TypeOK
<1>6. TypeOK'
  <2>. HIDE DEF new
  <2>. QED
    BY <1>1, <1>3, <1>5 DEF TypeOK, FileRecord
<1>. HIDE DEF new
<1>. QED
  BY <1>0, <1>1, <1>3, <1>4, <1>5, <1>6 DEF Same, Removed

\* What a session sees of a file in its record, and the record itself.
Recorded(n) ==
  LET call == calls[n]
      new == calls'[n]
      found == Located(call.file)
  IN  /\ UNCHANGED disk
      /\ new.phase = "ended" /\ ~new.awaited /\ new.texts = call.texts
      /\ new.changed = call.changed /\ new.broke = call.broke
      /\ \A s \in Sessions, file \in Files :
           s # call.session \/ file # call.file => records'[s][file] = records[s][file]
      /\ \/ /\ call.phase = "record"
            /\ new.result = IF call.awaited THEN "ok" ELSE call.result
            /\ records'[call.session][call.file] = Nowhere
         \/ /\ call.phase = "read_back" /\ Readable(found)
            /\ new.result = IF call.awaited THEN "ok" ELSE call.result
            /\ records'[call.session][call.file] = disk[found].texts
         \/ /\ call.phase = "read_back" /\ ~Readable(found) /\ UNCHANGED records
            /\ new.result = IF call.awaited THEN "failed" ELSE call.result

LEMMA RecordEffect ==
  ASSUME TypeOK, NEW n \in DOMAIN calls, RecordDelete(n) \/ ReadBack(n)
  PROVE  TypeOK' /\ Same(n) /\ Recorded(n)
<1>. DEFINE call == calls[n]
            found == Located(call.file)
            read == Readable(found)
            result == IF At(n, "record") \/ read THEN "ok" ELSE "failed"
            recorded == IF At(n, "record") THEN Nowhere
                        ELSE IF read THEN disk[found].texts
                        ELSE records[call.session][call.file]
<1>0. /\ call \in CallRecord /\ call.file \in Files /\ call.session \in Sessions
      /\ disk[found] \in FileRecord
  BY CallFields
<1>1. /\ call.phase = "record" \/ call.phase = "read_back"
      /\ records' = [records EXCEPT ![call.session][call.file] = recorded]
      /\ Update(n, Ended(call, result)) /\ UNCHANGED disk
  BY DEF RecordDelete, ReadBack, At
<1>2. /\ calls' \in Seq(CallRecord) /\ Len(calls') = Len(calls)
      /\ DOMAIN calls' = DOMAIN calls /\ calls'[n] = Ended(call, result)
      /\ \A m \in DOMAIN calls \ {n} : calls'[m] = calls[m]
  BY <1>0, <1>1, UpdateEffect, EndedCall DEF TypeOK
<1>3. recorded \in (SUBSET Texts) \cup {NoRecord, Nowhere}
  <2>1. records[call.session][call.file] \in (SUBSET Texts) \cup {NoRecord, Nowhere}
    BY <1>0 DEF TypeOK
  <2>2. read => disk[found].texts \in SUBSET Texts
    BY <1>0 DEF Readable, FileRecord
  <2>. QED
    BY <2>1, <2>2
<1>4. /\ records' \in [Sessions -> [Files -> (SUBSET Texts) \cup {NoRecord, Nowhere}]]
      /\ records'[call.session][call.file] = recorded
      /\ \A s \in Sessions, file \in Files :
           s # call.session \/ file # call.file => records'[s][file] = records[s][file]
  <2>. HIDE DEF recorded
  <2>. QED
    BY <1>0, <1>1, <1>3 DEF TypeOK
<1>5. TypeOK'
  BY <1>1, <1>2, <1>4 DEF TypeOK
<1>6. call.phase = "read_back" /\ ~read => UNCHANGED records
  BY <1>0, <1>1 DEF At, TypeOK
<1>7. At(n, "record") <=> call.phase = "record"
  BY DEF At
<1>8. /\ calls'[n].phase = "ended" /\ ~calls'[n].awaited
      /\ calls'[n].result = IF call.awaited THEN result ELSE call.result
      /\ calls'[n].session = call.session /\ calls'[n].tool = call.tool
      /\ calls'[n].file = call.file /\ calls'[n].old = call.old
      /\ calls'[n].keep = call.keep /\ calls'[n].met = call.met
      /\ calls'[n].texts = call.texts /\ calls'[n].changed = call.changed
      /\ calls'[n].broke = call.broke
  <2>1. result \in {"none", "ok", "failed"}
    OBVIOUS
  <2>. HIDE DEF result, call
  <2>. QED
    BY <1>0, <1>2, <2>1, EndedCall
<1>9. Same(n)
  BY <1>1, <1>2, <1>8 DEF Same
<1>10. Recorded(n)
  BY <1>1, <1>4, <1>6, <1>7, <1>8 DEF Recorded
<1>. QED
  BY <1>5, <1>9, <1>10

Commanded(n) ==
  LET call == calls[n]
      new == calls'[n]
  IN  /\ UNCHANGED records
      /\ call.phase = "command" /\ new.phase = "ended" /\ ~new.awaited
      /\ new.changed /\ new.broke = call.broke /\ new.texts = call.texts
      /\ new.result = (IF call.awaited THEN "ok" ELSE call.result)
      /\ disk'[call.file] = NoFile \/ disk'[call.file].inode # Nowhere

LEMMA CommandEffect ==
  ASSUME TypeOK, NEW n \in DOMAIN calls, Command(n)
  PROVE  TypeOK' /\ Same(n) /\ Commanded(n)
<1>. DEFINE call == calls[n]
            file == disk[call.file]
            done == [call EXCEPT !.changed = TRUE]
<1>0. call \in CallRecord /\ n \in Texts /\ call.file \in Files /\ file \in FileRecord
  BY CallFields
<1>1. /\ call.phase = "command" /\ UNCHANGED records /\ Update(n, Ended(done, "ok"))
      /\ \/ disk' = [disk EXCEPT ![call.file] = NoFile]
         \/ \E inode \in {file.inode, n} \ {Nowhere},
               texts \in {{n}, {n, Bytes}, file.texts \cup {n}} :
              disk' = [disk EXCEPT ![call.file] = [inode |-> inode, texts |-> texts]]
  BY DEF Command, At
<1>2. PICK now \in FileRecord :
        disk' = [disk EXCEPT ![call.file] = now] /\ (now = NoFile \/ now.inode # Nowhere)
  <2>1. CASE disk' = [disk EXCEPT ![call.file] = NoFile]
    <3>1. NoFile \in FileRecord
      BY DEF NoFile, FileRecord
    <3>. QED
      BY <2>1, <3>1
  <2>2. ASSUME NEW inode \in {file.inode, n} \ {Nowhere},
               NEW texts \in {{n}, {n, Bytes}, file.texts \cup {n}},
               disk' = [disk EXCEPT ![call.file] = [inode |-> inode, texts |-> texts]]
        PROVE  \E now \in FileRecord :
                 disk' = [disk EXCEPT ![call.file] = now] /\ (now = NoFile \/ now.inode # Nowhere)
    <3>1. [inode |-> inode, texts |-> texts] \in FileRecord
      BY <1>0, <2>2 DEF FileRecord
    <3>. QED
      BY <2>2, <3>1
  <2>. QED
    BY <1>1, <2>1, <2>2
<1>3. /\ done \in CallRecord
      /\ done.session = call.session /\ done.tool = call.tool /\ done.file = call.file
      /\ done.old = call.old /\ done.keep = call.keep /\ done.met = call.met
      /\ done.broke = call.broke /\ done.texts = call.texts /\ done.changed
      /\ done.awaited = call.awaited /\ done.result = call.result
  BY <1>0 DEF CallRecord
<1>4. /\ disk' \in [Files -> FileRecord] /\ disk'[call.file] = now
      /\ \A other \in Files \ {call.file} : disk'[other] = disk[other]
  BY <1>0, <1>2, DiskEffect
<1>. HIDE DEF done
<1>5. /\ calls' \in Seq(CallRecord) /\ Len(calls') = Len(calls)
      /\ DOMAIN calls' = DOMAIN calls /\ calls'[n] = Ended(done, "ok")
      /\ \A m \in DOMAIN calls \ {n} : calls'[m] = calls[m]
  BY <1>1, <1>3, UpdateEffect, EndedCall DEF TypeOK
<1>6. TypeOK'
  BY <1>1, <1>4, <1>5 DEF TypeOK, FileRecord
<1>. QED
  BY <1>1, <1>2, <1>3, <1>4, <1>5, <1>6, EndedCall DEF Same, Commanded

Left(n) ==
  LET call == calls[n]
      new == calls'[n]
  IN  /\ UNCHANGED <<disk, records>>
      /\ call.awaited /\ ~new.awaited
      /\ new.changed = call.changed /\ new.broke = call.broke
      /\ new.texts = call.texts /\ new.inode = call.inode
      /\ \/ call.phase = "command" /\ new.phase = "command" /\ new.result = "failed"
         \/ /\ new.result = call.result
            /\ new.phase = IF call.phase \in {"read", "read_back", "record"}
                             THEN "ended" ELSE call.phase

LEMMA LeaveEffect ==
  ASSUME TypeOK, NEW n \in DOMAIN calls, Timeout(n) \/ Drop(n)
  PROVE  TypeOK' /\ Same(n) /\ Left(n)
<1>. DEFINE call == calls[n]
            late == [call EXCEPT !.awaited = FALSE, !.result = "failed"]
            gone == [call EXCEPT !.awaited = FALSE,
                       !.phase = IF @ \in {"read", "read_back", "record"} THEN "ended" ELSE @]
<1>. USE DEF Left
<1>0. call \in CallRecord
  BY CallFields
<1>1. late \in CallRecord /\ gone \in CallRecord
  BY ZenonT(30), <1>0 DEF CallRecord, Phases
<1>2. CASE Timeout(n)
  <2>1. call.phase = "command" /\ call.awaited /\ Update(n, late) /\ UNCHANGED <<disk, records>>
    BY <1>2 DEF Timeout, At
  <2>2. /\ calls' \in Seq(CallRecord) /\ Len(calls') = Len(calls)
        /\ DOMAIN calls' = DOMAIN calls /\ calls'[n] = late
        /\ \A m \in DOMAIN calls \ {n} : calls'[m] = calls[m]
    <3>. HIDE DEF late
    <3>. QED
      BY <1>1, <2>1, UpdateEffect DEF TypeOK
  <2>. QED
    BY <1>0, <2>1, <2>2 DEF TypeOK, Same, CallRecord
<1>3. CASE Drop(n)
  <2>1. /\ call.phase # "ended" /\ call.awaited /\ Update(n, gone)
        /\ UNCHANGED <<disk, records>>
    BY <1>3 DEF Drop, UnderWay
  <2>2. /\ calls' \in Seq(CallRecord) /\ Len(calls') = Len(calls)
        /\ DOMAIN calls' = DOMAIN calls /\ calls'[n] = gone
        /\ \A m \in DOMAIN calls \ {n} : calls'[m] = calls[m]
    <3>. HIDE DEF gone
    <3>. QED
      BY <1>1, <2>1, UpdateEffect DEF TypeOK
  <2>. QED
    BY <1>0, <2>1, <2>2 DEF TypeOK, Same, CallRecord
<1>. QED
  BY <1>2, <1>3

-----------------------------------------------------------------------------
(* Types and the course of a call. *)

LEMMA StepEffect ==
  ASSUME TypeOK, NEW n \in DOMAIN calls, Step(n)
  PROVE  TypeOK' /\ Same(n)
BY ReadForEditEffect, OpenEffect, FailEffect, WriteEffect, RemoveEffect, RecordEffect,
   CommandEffect, LeaveEffect DEF Step

LEMMA TypeStep == TypeOK /\ [Next]_vars => TypeOK'
<1> SUFFICES ASSUME TypeOK, [Next]_vars PROVE TypeOK'
  OBVIOUS
<1>1. ASSUME NEW s \in Sessions, NEW path \in Paths, CallTool(s, path) PROVE TypeOK'
  BY <1>1, BeginForm, BeginEffect
<1>2. ASSUME NEW n \in DOMAIN calls, Step(n) PROVE TypeOK'
  BY <1>2, StepEffect
<1>3. CASE UNCHANGED vars
  BY <1>3 DEF vars, TypeOK
<1>. QED
  BY <1>1, <1>2, <1>3 DEF Next

\* What CallsInv says of one call.
CallOf(n) ==
  /\ calls[n].tool \in ToolOf[calls[n].phase]
  /\ calls[n].phase \in {"read", "open", "remove", "command"} => ~calls[n].changed
  /\ calls[n].phase \in {"write", "read_back", "record"} => calls[n].changed
  /\ calls[n].phase \in {"read_back", "record"} => calls[n].awaited
  /\ calls[n].awaited => calls[n].phase # "ended" /\ calls[n].result = "none"
  /\ calls[n].result = "ok" => calls[n].phase = "ended"
  /\ calls[n].result = "failed" => calls[n].phase = "ended" \/ calls[n].tool = "execute"
  /\ calls[n].phase = "write" => calls[n].inode # Nowhere
  /\ n \in calls[n].texts

LastAwaited ==
  \A n \in DOMAIN calls : \A m \in 1 .. (n - 1) :
    calls[m].session = calls[n].session => ~calls[m].awaited

LEMMA CallsParts == CallsInv <=> (\A n \in DOMAIN calls : CallOf(n)) /\ LastAwaited
BY DEF CallsInv, CallOf, LastAwaited

LEMMA InodeThere ==
  ASSUME TypeOK, DiskInv, NEW n \in DOMAIN calls PROVE Inode(n) # Nowhere
BY CallFields, FilesAssumption DEF DiskInv, Inode, Texts

LEMMA BeginCase ==
  ASSUME TypeOK, NEW s \in Sessions, NEW path \in Paths, CallTool(s, path)
  PROVE  \E n, tool, file, old, keep, phase :
           /\ Begun(n, s, tool, file, old, keep, phase) /\ Beginning(tool, file, phase)
           /\ file \in Files
           /\ old \in 0 .. Len(calls) /\ keep \in BOOLEAN /\ (tool # "edit_file" => keep)
<1>1. PICK tool, old, keep, phase :
        /\ Begin(s, tool, path, old, keep, phase) /\ Beginning(tool, Located(path), phase)
        /\ old \in 0 .. Len(calls) /\ keep \in BOOLEAN /\ (tool # "edit_file" => keep)
  BY BeginForm
<1>2. Begun(Len(calls) + 1, s, tool, Located(path), old, keep, phase)
  BY <1>1, BeginEffect
<1>. QED
  BY <1>1, <1>2, LocatedFile DEF Files

LEMMA StepCase ==
  ASSUME TypeOK, NEW n \in DOMAIN calls, Step(n)
  PROVE  /\ TypeOK' /\ Same(n)
         /\ \/ Read(n) \/ Opened(n) \/ Failed(n) \/ Written(n) \/ Removed(n)
            \/ Recorded(n) \/ Commanded(n) \/ Left(n)
BY ReadForEditEffect, OpenEffect, FailEffect, WriteEffect, RemoveEffect, RecordEffect,
   CommandEffect, LeaveEffect DEF Step

\* What a beginning leaves alone of the calls there are.
LEMMA BegunOthers ==
  ASSUME TypeOK, NEW n, NEW s, NEW tool, NEW file, NEW old, NEW keep, NEW phase,
         Begun(n, s, tool, file, old, keep, phase), NEW m \in DOMAIN calls
  PROVE  /\ m \in DOMAIN calls' /\ m # n /\ m < n /\ m \in Nat /\ n \in Nat
         /\ calls'[m].session = calls[m].session /\ calls'[m].tool = calls[m].tool
         /\ calls'[m].file = calls[m].file /\ calls'[m].old = calls[m].old
         /\ calls'[m].keep = calls[m].keep /\ calls'[m].phase = calls[m].phase
         /\ calls'[m].awaited = calls[m].awaited /\ calls'[m].result = calls[m].result
         /\ calls'[m].inode = calls[m].inode /\ calls'[m].texts = calls[m].texts
         /\ calls'[m].changed = calls[m].changed /\ calls'[m].broke = calls[m].broke
         /\ calls'[m].met = calls[m].met \cup (IF m \in calls'[n].met THEN {n} ELSE {})
<1>1. calls[m] \in CallRecord
  BY CallFields
<1>2. /\ calls'[m] = IF m \in calls'[n].met THEN [calls[m] EXCEPT !.met = @ \cup {n}] ELSE calls[m]
      /\ m \in DOMAIN calls' /\ m # n /\ m < n /\ m \in Nat /\ n \in Nat
  BY DEF Begun
<1>. QED
  BY <1>1, <1>2 DEF CallRecord

\* The steps keep what is said of their call.
LEMMA CallStep ==
  ASSUME TypeOK, DiskInv, NEW n \in DOMAIN calls, CallOf(n), Step(n)
  PROVE  CallOf(n)' /\ (calls'[n].awaited => calls[n].awaited)
<1>. USE DEF CallOf, ToolOf
<1>0. Same(n) /\ calls[n].awaited \in BOOLEAN
  BY StepCase, CallFields
<1>1. CASE Read(n)
  BY <1>0, <1>1 DEF Same, Read
<1>2. CASE Opened(n)
  BY <1>0, <1>2, InodeThere DEF Same, Opened
<1>3. CASE Failed(n)
  BY <1>0, <1>3 DEF Same, Failed
<1>4. CASE Written(n)
  BY <1>0, <1>4 DEF Same, Written
<1>5. CASE Removed(n)
  BY <1>0, <1>5 DEF Same, Removed
<1>6. CASE Recorded(n)
  BY <1>0, <1>6 DEF Same, Recorded
<1>7. CASE Commanded(n)
  BY <1>0, <1>7 DEF Same, Commanded
<1>8. CASE Left(n)
  BY <1>0, <1>8 DEF Same, Left
<1>. QED
  BY <1>1, <1>2, <1>3, <1>4, <1>5, <1>6, <1>7, <1>8, StepCase

LEMMA CallBegins ==
  ASSUME TypeOK, CallsInv, NEW s \in Sessions, NEW path \in Paths, CallTool(s, path)
  PROVE  CallsInv'
<1>1. PICK n, tool, file, old, keep, phase :
        /\ Begun(n, s, tool, file, old, keep, phase) /\ Beginning(tool, file, phase)
        /\ old \in 0 .. Len(calls) /\ keep \in BOOLEAN /\ file \in Files
  BY BeginCase
<1>2. /\ ~Busy(s) /\ DOMAIN calls' = 1 .. n /\ DOMAIN calls = 1 .. (n - 1) /\ n \in Nat
      /\ calls'[n].session = s /\ calls'[n].tool = tool /\ calls'[n].phase = phase
      /\ calls'[n].awaited = (phase # "ended") /\ calls'[n].texts = {n}
      /\ calls'[n].result = (IF phase = "ended" THEN "failed" ELSE "none")
      /\ ~calls'[n].changed
  BY <1>1 DEF Begun
<1>3. \A m \in DOMAIN calls' : CallOf(m)'
  <2>1. ASSUME NEW m \in DOMAIN calls PROVE CallOf(m)'
    BY <1>1, BegunOthers, CallsParts DEF CallOf
  <2>2. CallOf(n)'
    <3>1. tool \in ToolOf[phase] /\ phase \notin {"write", "read_back", "record"}
      BY <1>1 DEF ToolOf, Beginning
    <3>2. CASE phase = "ended"
      BY <1>2, <3>1, <3>2 DEF CallOf
    <3>3. CASE phase # "ended"
      BY <1>2, <3>1, <3>3 DEF CallOf
    <3>. QED
      BY <3>2, <3>3
  <2>. QED
    BY <1>2, <2>1, <2>2
<1>4. LastAwaited'
  <2>1. \A m \in DOMAIN calls : calls[m].session = s => ~calls[m].awaited
    BY <1>2, CallsParts DEF Busy, UnderWay, CallOf
  <2>2. \A m \in DOMAIN calls :
          calls'[m].session = calls[m].session /\ calls'[m].awaited = calls[m].awaited
    BY <1>1, BegunOthers
  <2>3. LastAwaited
    BY CallsParts
  <2>. QED
    BY <1>2, <2>1, <2>2, <2>3 DEF LastAwaited
<1>. QED
  BY <1>3, <1>4 DEF CallsInv, CallOf, LastAwaited

LEMMA CallsStep == TypeOK /\ CallsInv /\ DiskInv /\ [Next]_vars => CallsInv'
<1> SUFFICES ASSUME TypeOK, CallsInv, DiskInv, [Next]_vars PROVE CallsInv'
  OBVIOUS
<1>1. ASSUME NEW n \in DOMAIN calls, Step(n) PROVE CallsInv'
  <2>1. Same(n) /\ CallOf(n)' /\ (calls'[n].awaited => calls[n].awaited)
    BY <1>1, StepCase, CallStep, CallsParts
  <2>2. \A m \in DOMAIN calls' : CallOf(m)'
    BY <2>1, CallsParts DEF Same, CallOf
  <2>3. LastAwaited'
    <3>1. DOMAIN calls = 1 .. Len(calls) /\ Len(calls) \in Nat /\ LastAwaited
      BY CallsParts DEF TypeOK
    <3>2. ASSUME NEW m \in DOMAIN calls
          PROVE  /\ calls'[m].session = calls[m].session
                 /\ calls'[m].awaited => calls[m].awaited
      BY <2>1, <3>2 DEF Same
    <3>. QED
      BY <2>1, <3>1, <3>2 DEF Same, LastAwaited
  <2>. QED
    BY <2>2, <2>3 DEF CallsInv, CallOf, LastAwaited
<1>2. CASE UNCHANGED vars
  BY <1>2 DEF vars, CallsInv
<1>. QED
  BY <1>1, <1>2, CallBegins DEF Next

\* What a step does to its file.
NewFile(n) ==
  LET file == calls[n].file
  IN  \/ disk'[file] = disk[file] /\ UNCHANGED disk
      \/ Opened(n) /\ disk'[file] = [inode |-> Inode(n), texts |-> {}]
      \/ Commanded(n) /\ (disk'[file] = NoFile \/ disk'[file].inode # Nowhere)
      \/ Removed(n) /\ disk'[file] = NoFile
      \/ /\ Written(n) /\ calls[n].phase = "write" /\ disk[file].inode = calls[n].inode
         /\ \E tail \in Tails(disk[file].texts) :
              disk'[file] = [inode |-> disk[file].inode, texts |-> calls[n].texts \cup tail]
      \/ Written(n) /\ calls[n].phase = "write" /\ disk'[file] = disk[file]
           /\ disk[file].inode # calls[n].inode

LEMMA DiskCase ==
  ASSUME TypeOK, NEW n \in DOMAIN calls, Step(n) PROVE NewFile(n)
<1>1. CASE Opened(n)
  BY <1>1 DEF Opened, NewFile
<1>2. CASE Commanded(n)
  BY <1>2 DEF Commanded, NewFile
<1>3. CASE Removed(n)
  BY <1>3 DEF Removed, NewFile
<1>4. CASE Written(n)
  <2>1. calls[n].phase = "write"
    BY <1>4 DEF Written
  <2>2. CASE disk[calls[n].file].inode = calls[n].inode
    BY <1>4, <2>1, <2>2 DEF Written, NewFile
  <2>3. CASE disk[calls[n].file].inode # calls[n].inode
    BY <1>4, <2>1, <2>3 DEF Written, NewFile
  <2>. QED
    BY <2>2, <2>3
<1>5. CASE Read(n) \/ Failed(n) \/ Recorded(n) \/ Left(n)
  BY <1>5 DEF Read, Failed, Recorded, Left, NewFile
<1>. QED
  BY <1>1, <1>2, <1>3, <1>4, <1>5, StepCase

LEMMA DiskStep == TypeOK /\ CallsInv /\ DiskInv /\ [Next]_vars => DiskInv'
<1> SUFFICES ASSUME TypeOK, CallsInv, DiskInv, [Next]_vars PROVE DiskInv'
  OBVIOUS
<1>1. ASSUME NEW n \in DOMAIN calls, Step(n) PROVE DiskInv'
  <2>. DEFINE file == calls[n].file
  <2>1. Same(n) /\ NewFile(n) /\ file \in Files
    BY <1>1, StepCase, DiskCase, CallFields
  <2>2. calls[n].phase = "write" => calls[n].inode # Nowhere
    BY CallsParts DEF CallOf
  <2>3. Inode(n) # Nowhere
    BY InodeThere
  <2>4. disk'[file] # NoFile => disk'[file].inode # Nowhere
    <3>1. disk[file] # NoFile => disk[file].inode # Nowhere
      BY <2>1 DEF DiskInv, Exists
    <3>2. CASE disk'[file].inode = calls[n].inode /\ calls[n].phase = "write"
      BY <2>2, <3>2
    <3>3. CASE disk'[file].inode = Inode(n)
      BY <2>3, <3>3
    <3>4. \/ disk'[file] = disk[file] \/ disk'[file] = NoFile \/ disk'[file].inode # Nowhere
          \/ disk'[file].inode = calls[n].inode /\ calls[n].phase = "write"
          \/ disk'[file].inode = Inode(n)
      <4>1. CASE \/ disk'[file] = disk[file] \/ disk'[file] = NoFile
                 \/ disk'[file].inode # Nowhere
        BY <4>1
      <4>2. CASE disk'[file] = [inode |-> Inode(n), texts |-> {}]
        BY <4>2
      <4>3. ASSUME calls[n].phase = "write", disk[file].inode = calls[n].inode,
                   NEW tail \in Tails(disk[file].texts),
                   disk'[file] = [inode |-> disk[file].inode,
                                  texts |-> calls[n].texts \cup tail]
            PROVE  disk'[file].inode = calls[n].inode
        BY <4>3
      <4>. QED
        BY <2>1, <4>1, <4>2, <4>3 DEF NewFile
    <3>. QED
      BY <3>1, <3>2, <3>3, <3>4
  <2>. QED
    BY <2>1, <2>4 DEF DiskInv, Exists, Same
<1>2. CASE UNCHANGED disk
  BY <1>2 DEF DiskInv, Exists
<1>3. ASSUME NEW s \in Sessions, NEW path \in Paths, CallTool(s, path) PROVE UNCHANGED disk
  BY <1>3, BeginCase DEF Begun
<1>. QED
  BY <1>1, <1>2, <1>3 DEF Next, vars

-----------------------------------------------------------------------------
(* Calls that meet. *)

\* What a step of the n-th call leaves alone of any call.
LEMMA StepOthers ==
  ASSUME TypeOK, NEW n \in DOMAIN calls, Same(n), NEW m \in DOMAIN calls
  PROVE  /\ m \in DOMAIN calls' /\ calls'[m].session = calls[m].session
         /\ calls'[m].tool = calls[m].tool /\ calls'[m].file = calls[m].file
         /\ calls'[m].old = calls[m].old /\ calls'[m].keep = calls[m].keep
         /\ calls'[m].met = calls[m].met
         /\ calls[m].changed => calls'[m].changed
         /\ calls[m].broke => calls'[m].broke
         /\ calls[m].phase = "ended" => calls'[m] = calls[m] /\ m # n
         /\ calls[m].file # calls[n].file =>
              calls'[m] = calls[m] /\ disk'[calls[m].file] = disk[calls[m].file]
<1>1. calls[m].file \in Files
  BY CallFields
<1>2. CASE m = n
  BY <1>2 DEF Same
<1>3. CASE m # n
  BY <1>1, <1>3 DEF Same
<1>. QED
  BY <1>2, <1>3

MetFile ==
  \A n \in DOMAIN calls : \A m \in calls[n].met :
    m \in DOMAIN calls \ {n} /\ calls[m].file = calls[n].file

MetPair ==
  \A n \in DOMAIN calls : \A m \in 1 .. (n - 1) :
    calls[m].file = calls[n].file =>
      /\ m \in calls[n].met <=> n \in calls[m].met
      /\ m \in calls[n].met \/ calls[m].phase = "ended"

LEMMA MetParts == MetInv <=> MetFile /\ MetPair
BY DEF MetInv, MetFile, MetPair

LEMMA MetStep == TypeOK /\ MetInv /\ [Next]_vars => MetInv'
<1> SUFFICES ASSUME TypeOK, MetInv, [Next]_vars PROVE MetInv'
  OBVIOUS
<1>0. MetFile /\ MetPair /\ Len(calls) \in Nat /\ DOMAIN calls = 1 .. Len(calls)
  BY MetParts DEF TypeOK
<1>1. ASSUME NEW s \in Sessions, NEW path \in Paths, CallTool(s, path) PROVE MetInv'
  <2>1. PICK n, tool, file, old, keep, phase : Begun(n, s, tool, file, old, keep, phase)
    BY <1>1, BeginCase
  <2>2. /\ n \in Nat /\ n \notin DOMAIN calls /\ DOMAIN calls' = DOMAIN calls \cup {n}
        /\ DOMAIN calls = 1 .. (n - 1) /\ calls'[n].file = file
        /\ calls'[n].met = {m \in UnderWay : calls[m].file = file}
    BY <2>1, <1>0 DEF Begun
  <2>3. ASSUME NEW m \in DOMAIN calls
        PROVE  /\ calls'[m].file = calls[m].file /\ calls'[m].phase = calls[m].phase
               /\ calls'[m].met = calls[m].met \cup (IF m \in calls'[n].met THEN {n} ELSE {})
    BY <2>1, BegunOthers
  <2>4. MetFile'
    BY <1>0, <2>2, <2>3 DEF MetFile, UnderWay
  <2>5. MetPair'
    <3>1. ASSUME NEW m \in DOMAIN calls, calls[m].file = file
          PROVE  /\ m \in calls'[n].met <=> n \in calls'[m].met
                 /\ m \in calls'[n].met \/ calls'[m].phase = "ended"
      <4>1. n \notin calls[m].met
        BY <1>0, <2>2 DEF MetFile
      <4>. QED
        BY <2>2, <2>3, <3>1, <4>1 DEF UnderWay
    <3>2. ASSUME NEW k \in DOMAIN calls, NEW m \in 1 .. (k - 1), calls[m].file = calls[k].file
          PROVE  /\ m \in calls'[k].met <=> k \in calls'[m].met
                 /\ m \in calls'[k].met \/ calls'[m].phase = "ended"
      <4>1. m \in DOMAIN calls /\ m # n /\ k # n
        BY <1>0, <2>2
      <4>. QED
        BY <1>0, <2>3, <3>2, <4>1 DEF MetPair
    <3>. QED
      BY <2>2, <2>3, <3>1, <3>2, <1>0 DEF MetPair
  <2>. QED
    BY <2>4, <2>5 DEF MetInv, MetFile, MetPair
<1>2. ASSUME NEW n \in DOMAIN calls, Step(n) PROVE MetInv'
  <2>1. Same(n) /\ DOMAIN calls' = DOMAIN calls /\ calls[n].phase # "ended"
    BY <1>2, StepCase DEF Same
  <2>2. ASSUME NEW m \in DOMAIN calls
        PROVE  /\ calls'[m].file = calls[m].file /\ calls'[m].met = calls[m].met
               /\ calls[m].phase = "ended" => calls'[m].phase = "ended"
    BY <2>1, StepOthers
  <2>3. MetFile'
    BY <1>0, <2>1, <2>2 DEF MetFile
  <2>4. MetPair'
    BY <1>0, <2>1, <2>2 DEF MetPair
  <2>. QED
    BY <2>3, <2>4 DEF MetInv, MetFile, MetPair
<1>3. CASE UNCHANGED vars
  BY <1>3 DEF vars, MetInv
<1>. QED
  BY <1>1, <1>2, <1>3 DEF Next

\* Two calls under way on a file have met.
LEMMA UnderWayMet ==
  ASSUME TypeOK, MetInv, NEW n \in DOMAIN calls, NEW m \in DOMAIN calls, m # n,
         calls[m].file = calls[n].file, calls[n].phase # "ended",
         calls[m].phase # "ended" \/ m > n
  PROVE  n \in calls[m].met /\ m \in calls[n].met
<1>1. Len(calls) \in Nat /\ DOMAIN calls = 1 .. Len(calls) /\ MetPair
  BY MetParts DEF TypeOK
<1>2. CASE m < n
  <2>1. m \in 1 .. (n - 1)
    BY <1>1, <1>2
  <2>. QED
    BY <1>1, <1>2, <2>1 DEF MetPair
<1>3. CASE n < m
  <2>1. n \in 1 .. (m - 1)
    BY <1>1, <1>3
  <2>. QED
    BY <1>1, <1>3, <2>1 DEF MetPair
<1>. QED
  BY <1>1, <1>2, <1>3

\* The rivals of a call only become more.
LEMMA RivalsGrow ==
  ASSUME TypeOK, MetInv, NEW n \in DOMAIN calls, Same(n), NEW m \in DOMAIN calls
  PROVE  Rivals(m) \subseteq Rivals(m)'
<1>1. ASSUME NEW k \in Rivals(m) PROVE k \in Rivals(m)'
  <2>1. k \in DOMAIN calls /\ k \in calls[m].met /\ calls[k].changed
    BY MetParts DEF MetFile, Rivals
  <2>2. calls'[m].met = calls[m].met /\ calls'[k].changed
    BY <2>1, StepOthers
  <2>. QED
    BY <2>1, <2>2 DEF Rivals
<1>. QED
  BY <1>1

LEMMA RivalsBegin ==
  ASSUME TypeOK, MetInv, NEW n, NEW s, NEW tool, NEW file, NEW old, NEW keep, NEW phase,
         Begun(n, s, tool, file, old, keep, phase), NEW m \in DOMAIN calls
  PROVE  Rivals(m)' = Rivals(m)
<1>1. calls'[m].met = calls[m].met \cup (IF m \in calls'[n].met THEN {n} ELSE {})
  BY BegunOthers
<1>2. ~calls'[n].changed /\ n \notin DOMAIN calls
  BY DEF Begun
<1>3. \A k \in calls[m].met : k \in DOMAIN calls /\ calls'[k].changed = calls[k].changed
  BY MetParts, BegunOthers DEF MetFile
<1>. QED
  BY <1>1, <1>2, <1>3 DEF Rivals

\* Who changes a file has changed it.
LEMMA Touching ==
  ASSUME TypeOK, CallsInv, DiskInv, NEW n \in DOMAIN calls, Step(n)
  PROVE  disk'[calls[n].file] = disk[calls[n].file] \/ calls'[n].changed
<1>1. Same(n) /\ NewFile(n) /\ CallOf(n)
  BY StepCase, DiskCase, CallsParts
<1>2. CASE UNCHANGED disk
  BY <1>2
<1>3. CASE Opened(n) \/ Commanded(n)
  BY <1>3 DEF Opened, Commanded
<1>4. CASE Removed(n)
  BY <1>4 DEF Removed, Exists
<1>5. CASE Written(n)
  BY <1>1, <1>5 DEF CallOf, Written
<1>. QED
  BY <1>1, <1>2, <1>3, <1>4, <1>5 DEF NewFile

-----------------------------------------------------------------------------
(* What a call under way finds of its file. *)

\* What WritingInv says of one call.
WritingOf(n) ==
  Rivals(n) = {} =>
    /\ calls[n].phase = "write" =>
         disk[calls[n].file] = [inode |-> calls[n].inode, texts |-> {}]
    /\ calls[n].phase = "read_back" =>
         Exists(calls[n].file) /\ disk[calls[n].file].texts = calls[n].texts

LEMMA WritingParts == WritingInv <=> \A n \in DOMAIN calls : WritingOf(n)
BY DEF WritingInv, WritingOf

\* For the call that makes the step.
LEMMA WritingOwn ==
  ASSUME TypeOK, CallsInv, DiskInv, MetInv, NEW n \in DOMAIN calls, WritingOf(n), Step(n)
  PROVE  WritingOf(n)'
<1>. DEFINE file == calls[n].file
<1>0. /\ Same(n) /\ CallOf(n) /\ calls'[n].file = file /\ Rivals(n) \subseteq Rivals(n)'
  BY StepCase, CallsParts, RivalsGrow DEF Same
<1>1. CASE calls'[n].phase \notin {"write", "read_back"}
  BY <1>1 DEF WritingOf
<1>2. CASE Opened(n)
  <2>1. /\ disk'[file] = [inode |-> Inode(n), texts |-> {}]
        /\ calls'[n].phase = "write" /\ calls'[n].inode = Inode(n)
    BY <1>2 DEF Opened
  <2>. QED
    BY <1>0, <2>1 DEF WritingOf
<1>3. CASE Written(n)
  <2>1. /\ calls[n].phase = "write" /\ calls[n].inode # Nowhere
        /\ calls'[n].phase # "write" /\ calls'[n].texts = calls[n].texts
    BY <1>0, <1>3 DEF CallOf, Written
  <2>2. ASSUME Rivals(n) = {}
        PROVE  disk'[file] # NoFile /\ disk'[file].texts = calls'[n].texts
    <3>1. disk[file].inode = calls[n].inode /\ disk[file].texts = {}
      BY <2>1, <2>2 DEF WritingOf
    <3>2. PICK tail \in Tails(disk[file].texts) :
            disk'[file] = [inode |-> disk[file].inode, texts |-> calls[n].texts \cup tail]
      BY <1>3, <3>1 DEF Written
    <3>3. tail = {}
      BY <3>1 DEF Tails
    <3>. QED
      BY <2>1, <3>1, <3>2, <3>3 DEF NoFile
  <2>. QED
    BY <1>0, <2>1, <2>2 DEF WritingOf, Exists
<1>4. CASE Left(n)
  <2>1. /\ UNCHANGED disk /\ calls'[n].inode = calls[n].inode
        /\ calls'[n].texts = calls[n].texts
        /\ calls'[n].phase \in {"write", "read_back"} => calls'[n].phase = calls[n].phase
    BY <1>4 DEF Left
  <2>. QED
    BY <1>0, <2>1 DEF WritingOf, Exists
<1>5. CASE Read(n) \/ Failed(n) \/ Removed(n) \/ Recorded(n) \/ Commanded(n)
  <2>1. calls'[n].phase \notin {"write", "read_back"}
    BY <1>5 DEF Read, Failed, Removed, Recorded, Commanded
  <2>. QED
    BY <1>1, <2>1
<1>. QED
  BY <1>2, <1>3, <1>4, <1>5, StepCase

\* For a call that is not the one that makes the step.
LEMMA WritingOther ==
  ASSUME TypeOK, CallsInv, DiskInv, MetInv, NEW n \in DOMAIN calls, Step(n),
         NEW m \in DOMAIN calls \ {n}, WritingOf(m)
  PROVE  WritingOf(m)'
<1>. DEFINE file == calls[m].file
<1>0. /\ Same(n) /\ calls'[m] = calls[m] /\ Rivals(m) \subseteq Rivals(m)'
  BY StepCase, RivalsGrow DEF Same
<1>1. CASE disk'[file] = disk[file]
  BY <1>0, <1>1 DEF WritingOf, Exists
<1>2. CASE disk'[file] # disk[file] /\ calls[m].phase \in {"write", "read_back"}
  <2>1. calls[n].file = file
    BY <1>0, <1>2, StepOthers
  <2>2. calls[n].phase # "ended"
    BY <1>0 DEF Same
  <2>3. n \in calls[m].met
    BY <1>2, <2>1, <2>2, UnderWayMet
  <2>4. calls'[n].changed
    BY <1>2, <2>1, Touching
  <2>5. n \in Rivals(m)'
    BY <1>0, <2>3, <2>4 DEF Rivals
  <2>. QED
    BY <2>5 DEF WritingOf
<1>3. CASE calls[m].phase \notin {"write", "read_back"}
  BY <1>0, <1>3 DEF WritingOf
<1>. QED
  BY <1>1, <1>2, <1>3

LEMMA WritingStep ==
  TypeOK /\ CallsInv /\ DiskInv /\ MetInv /\ WritingInv /\ [Next]_vars => WritingInv'
<1> SUFFICES ASSUME TypeOK, CallsInv, DiskInv, MetInv, WritingInv, [Next]_vars
             PROVE  \A n \in DOMAIN calls' : WritingOf(n)'
  BY DEF WritingInv, WritingOf
<1>0. \A n \in DOMAIN calls : WritingOf(n)
  BY WritingParts
<1>1. ASSUME NEW s \in Sessions, NEW path \in Paths, CallTool(s, path),
             NEW m \in DOMAIN calls' PROVE WritingOf(m)'
  <2>1. PICK n, tool, file, old, keep, phase :
          Begun(n, s, tool, file, old, keep, phase) /\ Beginning(tool, file, phase)
    BY <1>1, BeginCase
  <2>2. UNCHANGED disk
    BY <2>1 DEF Begun
  <2>3. CASE m \in DOMAIN calls
    <3>1. /\ calls'[m].file = calls[m].file /\ calls'[m].phase = calls[m].phase
          /\ calls'[m].inode = calls[m].inode /\ calls'[m].texts = calls[m].texts
      BY <2>1, <2>3, BegunOthers
    <3>2. Rivals(m)' = Rivals(m)
      BY <2>1, <2>3, RivalsBegin
    <3>. QED
      BY <1>0, <2>2, <2>3, <3>1, <3>2 DEF WritingOf, Exists
  <2>4. CASE m = n
    <3>1. calls'[m].phase \notin {"write", "read_back"}
      BY <2>1, <2>4 DEF Begun, Beginning
    <3>. QED
      BY <3>1 DEF WritingOf
  <2>5. m \in DOMAIN calls \/ m = n
    BY <1>1, <2>1 DEF Begun
  <2>. QED
    BY <2>3, <2>4, <2>5
<1>2. ASSUME NEW n \in DOMAIN calls, Step(n), NEW m \in DOMAIN calls' PROVE WritingOf(m)'
  <2>1. m \in DOMAIN calls
    BY <1>2, StepCase DEF Same
  <2>. QED
    BY <1>0, <1>2, <2>1, WritingOwn, WritingOther
<1>3. CASE UNCHANGED vars
  BY <1>0, <1>3 DEF vars, WritingOf, Exists, Rivals
<1>. QED
  BY <1>1, <1>2, <1>3 DEF Next

-----------------------------------------------------------------------------
(* What a failure says. *)

FailedOf(n) ==
  calls[n].result = "failed" /\ calls[n].changed =>
    \/ calls[n].broke
    \/ calls[n].tool = "execute"
    \/ ~FoundAgain(calls[n].file)
    \/ Rivals(n) # {}

LEMMA FailedOwn ==
  ASSUME TypeOK, CallsInv, MetInv, NEW n \in DOMAIN calls, WritingOf(n), FailedOf(n), Step(n)
  PROVE  FailedOf(n)'
<1>. SUFFICES ASSUME calls'[n].result = "failed", calls'[n].changed, ~calls'[n].broke,
                     calls'[n].tool # "execute", FoundAgain(calls'[n].file)
              PROVE  Rivals(n)' # {}
  BY DEF FailedOf, FoundAgain
<1>0. /\ Same(n) /\ CallOf(n) /\ calls[n].broke \in BOOLEAN /\ calls[n].changed \in BOOLEAN
      /\ Rivals(n) \subseteq Rivals(n)' /\ calls[n].texts \in SUBSET Texts
  BY StepCase, CallsParts, RivalsGrow, CallFields
<1>1. /\ calls[n].phase # "ended" /\ calls[n].tool # "execute" /\ calls[n].result # "failed"
      /\ FoundAgain(calls[n].file)
  BY <1>0 DEF Same, CallOf
<1>2. CASE Recorded(n)
  <2>1. calls[n].phase = "read_back" /\ ~Readable(calls[n].file)
    BY <1>1, <1>2 DEF Recorded, FoundAgain
  <2>2. Bytes \notin calls[n].texts
    BY <1>0, FilesAssumption DEF Texts
  <2>. QED
    BY <1>0, <2>1, <2>2 DEF WritingOf, Readable
<1>3. CASE Removed(n)
  <2>1. calls[n].phase = "remove" /\ ~calls[n].changed
    BY <1>0, <1>3 DEF Removed, CallOf
  <2>2. calls[n].awaited /\ ~Exists(calls[n].file)
    BY <1>1, <1>3 DEF Removed
  <2>. QED
    BY <1>3, <2>1, <2>2 DEF Removed
<1>4. CASE Read(n)
  BY <1>0, <1>4 DEF Read, CallOf
<1>5. CASE Failed(n)
  BY <1>0, <1>5 DEF Failed, CallOf
<1>6. CASE Opened(n)
  BY <1>1, <1>6 DEF Opened
<1>7. CASE Written(n)
  BY <1>1, <1>7 DEF Written
<1>8. CASE Commanded(n) \/ Left(n)
  BY <1>0, <1>1, <1>8 DEF Commanded, Left, CallOf, ToolOf
<1>. QED
  BY <1>2, <1>3, <1>4, <1>5, <1>6, <1>7, <1>8, StepCase

LEMMA FailedStep ==
  /\ TypeOK /\ CallsInv /\ MetInv /\ WritingInv /\ FailedChangedNothing /\ [Next]_vars
  => FailedChangedNothing'
<1> SUFFICES ASSUME TypeOK, CallsInv, MetInv, WritingInv, FailedChangedNothing, [Next]_vars
             PROVE  \A n \in DOMAIN calls' : FailedOf(n)'
  BY DEF FailedChangedNothing, FailedOf
<1>0. \A n \in DOMAIN calls : FailedOf(n) /\ WritingOf(n)
  BY WritingParts DEF FailedChangedNothing, FailedOf
<1>1. ASSUME NEW s \in Sessions, NEW path \in Paths, CallTool(s, path),
             NEW m \in DOMAIN calls' PROVE FailedOf(m)'
  <2>1. PICK n, tool, file, old, keep, phase : Begun(n, s, tool, file, old, keep, phase)
    BY <1>1, BeginCase
  <2>2. CASE m \in DOMAIN calls
    <3>1. /\ calls'[m].file = calls[m].file /\ calls'[m].tool = calls[m].tool
          /\ calls'[m].result = calls[m].result /\ calls'[m].changed = calls[m].changed
          /\ calls'[m].broke = calls[m].broke
      BY <2>1, <2>2, BegunOthers
    <3>2. Rivals(m)' = Rivals(m)
      BY <2>1, <2>2, RivalsBegin
    <3>. QED
      BY <1>0, <2>2, <3>1, <3>2 DEF FailedOf, FoundAgain
  <2>3. CASE m = n
    BY <2>1, <2>3 DEF Begun, FailedOf
  <2>4. m \in DOMAIN calls \/ m = n
    BY <1>1, <2>1 DEF Begun
  <2>. QED
    BY <2>2, <2>3, <2>4
<1>2. ASSUME NEW n \in DOMAIN calls, Step(n), NEW m \in DOMAIN calls' PROVE FailedOf(m)'
  <2>1. Same(n) /\ m \in DOMAIN calls
    BY <1>2, StepCase DEF Same
  <2>2. CASE m # n
    <3>1. calls'[m] = calls[m] /\ Rivals(m) \subseteq Rivals(m)'
      BY <2>1, <2>2, RivalsGrow DEF Same
    <3>. QED
      BY <1>0, <2>1, <3>1 DEF FailedOf, FoundAgain
  <2>. QED
    BY <1>0, <1>2, <2>1, <2>2, FailedOwn
<1>3. CASE UNCHANGED vars
  BY <1>0, <1>3 DEF vars, FailedOf, FoundAgain, Rivals
<1>. QED
  BY <1>1, <1>2, <1>3 DEF Next

-----------------------------------------------------------------------------
(* What a record says. *)

\* The n-th call is what session s knows of its file last.
KnownLast(s, n) ==
  /\ calls[n].session = s /\ calls[n].result = "ok" /\ calls[n].tool # "execute"
  /\ Rivals(n) = {}
  /\ calls[n].tool = "delete_file" \/ FoundAgain(calls[n].file)
  /\ \A m \in DOMAIN calls :
       m > n /\ calls[m].session = s /\ calls[m].file = calls[n].file
         => calls[m].tool = "execute" \/ calls[m].result # "ok"

Recalled(s, n) ==
  records[s][calls[n].file] =
    IF calls[n].tool = "delete_file" THEN Nowhere ELSE calls[n].texts

LEMMA RecordParts ==
  RecordExact <=> \A s \in Sessions, n \in DOMAIN calls : KnownLast(s, n) => Recalled(s, n)
BY DEF RecordExact, KnownLast, Recalled

\* The call that has just succeeded.
LEMMA RecordOwn ==
  ASSUME TypeOK, CallsInv, MetInv, NEW n \in DOMAIN calls, WritingOf(n), Step(n),
         NEW s \in Sessions, KnownLast(s, n)'
  PROVE  Recalled(s, n)'
<1>0. /\ Same(n) /\ CallOf(n) /\ Rivals(n) \subseteq Rivals(n)'
      /\ calls[n].session \in Sessions /\ calls[n].file \in Files
  BY StepCase, CallsParts, RivalsGrow, CallFields
<1>1. /\ calls'[n].result = "ok" /\ calls[n].tool # "execute" /\ Rivals(n) = {}
      /\ calls[n].session = s /\ calls[n].result # "ok"
  BY <1>0 DEF KnownLast, Same, CallOf
<1>2. Recorded(n)
  <2>1. ~Commanded(n)
    BY <1>0, <1>1 DEF Commanded, CallOf, ToolOf
  <2>. QED
    BY <1>1, <2>1, StepCase DEF Read, Opened, Failed, Written, Removed, Left
<1>3. /\ \/ /\ calls[n].phase = "record" /\ records'[s][calls[n].file] = Nowhere
         \/ /\ calls[n].phase = "read_back"
            /\ records'[s][calls[n].file] = disk[calls[n].file].texts
      /\ calls'[n].texts = calls[n].texts
  <2>1. calls[n].phase = "read_back" => Located(calls[n].file) = calls[n].file
    BY <1>0, <1>1 DEF KnownLast, FoundAgain, Same, CallOf, ToolOf
  <2>. QED
    BY <1>1, <1>2, <2>1 DEF Recorded
<1>. QED
  BY <1>0, <1>1, <1>3 DEF Recalled, Same, CallOf, ToolOf, WritingOf

\* A call that has succeeded before.
LEMMA RecordOther ==
  ASSUME TypeOK, CallsInv, MetInv, NEW n \in DOMAIN calls, Step(n),
         NEW m \in DOMAIN calls \ {n}, NEW s \in Sessions,
         KnownLast(s, m) => Recalled(s, m), KnownLast(s, m)'
  PROVE  Recalled(s, m)'
<1>0. /\ Same(n) /\ CallOf(n) /\ Rivals(m) \subseteq Rivals(m)' /\ calls'[m] = calls[m]
      /\ calls[m].file \in Files /\ calls[n].session \in Sessions
  BY StepCase, CallsParts, RivalsGrow, CallFields DEF Same
<1>1. KnownLast(s, m)
  <2>1. ASSUME NEW k \in DOMAIN calls, k > m, calls[k].session = s,
               calls[k].file = calls[m].file
        PROVE  calls[k].tool = "execute" \/ calls[k].result # "ok"
    <3>1. CASE k = n
      BY <1>0, <3>1 DEF CallOf, Same
    <3>2. CASE k # n
      <4>1. calls'[k] = calls[k] /\ k \in DOMAIN calls'
        BY <1>0, <3>2 DEF Same
      <4>. QED
        BY <1>0, <2>1, <4>1 DEF KnownLast
    <3>. QED
      BY <3>1, <3>2
  <2>. QED
    BY <1>0, <2>1 DEF KnownLast
<1>2. records'[s][calls[m].file] = records[s][calls[m].file]
  <2>1. CASE Recorded(n) /\ calls[n].session = s /\ calls[n].file = calls[m].file
    <3>1. calls[n].awaited /\ calls[n].tool # "execute"
      BY <1>0, <2>1 DEF Recorded, CallOf, ToolOf
    <3>2. ~(n > m) \/ calls'[n].result # "ok"
      BY <1>0, <2>1, <3>1 DEF KnownLast, Same
    <3>3. n > m
      <4>1. LastAwaited /\ Len(calls) \in Nat /\ DOMAIN calls = 1 .. Len(calls)
        BY CallsParts DEF TypeOK
      <4>2. calls[m].session = s
        BY <1>1 DEF KnownLast
      <4>3. ~(n < m)
        BY <2>1, <3>1, <4>1, <4>2 DEF LastAwaited
      <4>. QED
        BY <4>1, <4>3
    <3>4. UNCHANGED records
      BY <2>1, <3>1, <3>2, <3>3 DEF Recorded
    <3>. QED
      BY <3>4
  <2>2. CASE Recorded(n) /\ (calls[n].session # s \/ calls[n].file # calls[m].file)
    BY <1>0, <2>2 DEF Recorded
  <2>3. CASE ~Recorded(n)
    BY <2>3, StepCase DEF Read, Opened, Failed, Written, Removed, Commanded, Left
  <2>. QED
    BY <2>1, <2>2, <2>3
<1>. QED
  BY <1>0, <1>1, <1>2 DEF Recalled

LEMMA RecordStep ==
  TypeOK /\ CallsInv /\ MetInv /\ WritingInv /\ RecordExact /\ [Next]_vars => RecordExact'
<1> SUFFICES ASSUME TypeOK, CallsInv, MetInv, WritingInv, RecordExact, [Next]_vars
             PROVE  \A s \in Sessions, n \in DOMAIN calls' : KnownLast(s, n)' => Recalled(s, n)'
  BY DEF RecordExact, KnownLast, Recalled
<1>0. /\ \A n \in DOMAIN calls : WritingOf(n)
      /\ \A s \in Sessions, n \in DOMAIN calls : KnownLast(s, n) => Recalled(s, n)
  BY WritingParts, RecordParts
<1>1. ASSUME NEW t \in Sessions, NEW path \in Paths, CallTool(t, path),
             NEW s \in Sessions, NEW m \in DOMAIN calls', KnownLast(s, m)'
      PROVE  Recalled(s, m)'
  <2>1. PICK n, tool, file, old, keep, phase : Begun(n, t, tool, file, old, keep, phase)
    BY <1>1, BeginCase
  <2>2. calls'[n].result # "ok" /\ UNCHANGED records /\ DOMAIN calls' = DOMAIN calls \cup {n}
    BY <2>1 DEF Begun
  <2>3. m \in DOMAIN calls
    BY <1>1, <2>2 DEF KnownLast
  <2>4. \A k \in DOMAIN calls :
          /\ k \in DOMAIN calls'
          /\ calls'[k].session = calls[k].session /\ calls'[k].result = calls[k].result
          /\ calls'[k].tool = calls[k].tool /\ calls'[k].file = calls[k].file
          /\ calls'[k].texts = calls[k].texts
    BY <2>1, BegunOthers
  <2>5. Rivals(m)' = Rivals(m)
    BY <2>1, <2>3, RivalsBegin
  <2>6. KnownLast(s, m)
    BY <1>1, <2>3, <2>4, <2>5 DEF KnownLast
  <2>. QED
    BY <1>0, <2>2, <2>3, <2>4, <2>6 DEF Recalled
<1>2. ASSUME NEW n \in DOMAIN calls, Step(n), NEW s \in Sessions, NEW m \in DOMAIN calls',
             KnownLast(s, m)'
      PROVE  Recalled(s, m)'
  <2>1. m \in DOMAIN calls
    BY <1>2, StepCase DEF Same
  <2>. QED
    BY <1>0, <1>2, <2>1, RecordOwn, RecordOther
<1>3. CASE UNCHANGED vars
  BY <1>0, <1>3 DEF vars, KnownLast, Recalled, Rivals
<1>. QED
  BY <1>1, <1>2, <1>3 DEF Next

-----------------------------------------------------------------------------
(* What a success leaves in the file. *)

\* The n-th call wrote its text with nobody at work on the file beside it, and
\* nobody took it out since.
Kept(n) ==
  /\ calls[n].result = "ok" /\ calls[n].tool \in {"write_file", "edit_file"}
  /\ Rivals(n) = {} /\ ~Taken(n)

Held(n) ==
  LET file == disk[calls[n].file]
  IN  /\ Exists(calls[n].file)
      /\ \/ n \in file.texts
         \/ file.texts = {} /\ \E m \in Later(n) : calls[m].phase = "write"

\* The m-th call, which began after the n-th had ended, will write its text too.
Passed(n, m) ==
  m \notin calls[n].met /\ m > n /\ calls[m].file = calls[n].file =>
    /\ calls[m].phase \in {"open", "write"} =>
         n \in calls[m].texts \/ (calls[m].old = n /\ ~calls[m].keep)
    /\ calls[m].phase = "write" => calls[m].inode = disk[calls[n].file].inode

KeptOf(n) == Kept(n) => Held(n) /\ \A m \in DOMAIN calls : Passed(n, m)

LEMMA KeptParts == KeptInv <=> \A n \in DOMAIN calls : KeptOf(n)
BY DEF KeptInv, KeptOf, Kept, Held, Passed

\* What was kept after a step of another call was kept before it.
LEMMA KeptBefore ==
  ASSUME TypeOK, MetInv, NEW n \in DOMAIN calls, NEW k \in DOMAIN calls \ {n}, Same(k), Kept(n)'
  PROVE  Kept(n) /\ Later(n) \subseteq Later(n)'
<1>1. calls'[n] = calls[n] /\ Rivals(n) \subseteq Rivals(n)'
  BY RivalsGrow DEF Same
<1>2. \A m \in DOMAIN calls :
        /\ m \in DOMAIN calls' /\ calls'[m].file = calls[m].file
        /\ calls'[m].tool = calls[m].tool /\ calls'[m].old = calls[m].old
        /\ calls'[m].keep = calls[m].keep
        /\ calls[m].changed => calls'[m].changed
        /\ calls[m].broke => calls'[m].broke
  BY StepOthers
<1>3. Later(n) \subseteq Later(n)' /\ Later(n) \subseteq DOMAIN calls
  BY <1>1, <1>2 DEF Later
<1>4. Taken(n) => Taken(n)'
  BY <1>2, <1>3 DEF Taken
<1>. QED
  BY <1>1, <1>3, <1>4 DEF Kept

\* The call that has just succeeded has its text in the file, and whoever it
\* has not met will find it there.
LEMMA KeptOwn ==
  ASSUME TypeOK, CallsInv, MetInv, NEW n \in DOMAIN calls, WritingOf(n), Step(n), Kept(n)'
  PROVE  Held(n)' /\ \A m \in DOMAIN calls' : Passed(n, m)'
<1>0. /\ Same(n) /\ CallOf(n) /\ Rivals(n) \subseteq Rivals(n)'
      /\ DOMAIN calls' = DOMAIN calls /\ calls[n].phase # "ended"
      /\ calls'[n].file = calls[n].file /\ calls'[n].met = calls[n].met
  BY StepCase, CallsParts, RivalsGrow DEF Same
<1>1. /\ calls'[n].result = "ok" /\ calls[n].tool \in {"write_file", "edit_file"}
      /\ Rivals(n) = {} /\ calls[n].result # "ok"
  BY <1>0 DEF Kept, Same, CallOf
<1>2. Recorded(n)
  <2>1. ~Commanded(n)
    BY <1>0, <1>1 DEF Commanded, CallOf, ToolOf
  <2>. QED
    BY <1>1, <2>1, StepCase DEF Read, Opened, Failed, Written, Removed, Left
<1>3. calls[n].phase = "read_back" /\ Exists(calls[n].file) /\ UNCHANGED disk
  BY <1>0, <1>1, <1>2 DEF Recorded, CallOf, ToolOf, WritingOf
<1>4. Held(n)'
  BY <1>0, <1>1, <1>3 DEF Held, WritingOf, CallOf, Exists
<1>5. ASSUME NEW m \in DOMAIN calls, m > n, calls'[m].file = calls'[n].file PROVE m \in calls'[n].met
  <2>1. m # n /\ calls[m].file = calls[n].file
    BY <1>0, <1>5, CallFields DEF Same
  <2>. QED
    BY <1>0, <1>5, <2>1, UnderWayMet
<1>. QED
  BY <1>0, <1>4, <1>5 DEF Passed

\* A step on another file, or of a call that has met the n-th one.
LEMMA KeptAside ==
  ASSUME TypeOK, CallsInv, DiskInv, MetInv, NEW n \in DOMAIN calls, NEW k \in DOMAIN calls \ {n},
         Step(k), KeptOf(n), Kept(n)', calls[k].file # calls[n].file \/ k \in calls[n].met
  PROVE  Held(n)' /\ \A m \in DOMAIN calls' : Passed(n, m)'
<1>0. /\ Same(k) /\ calls'[n] = calls[n] /\ DOMAIN calls' = DOMAIN calls
      /\ \A m \in DOMAIN calls \ {k} : calls'[m] = calls[m]
  BY StepCase DEF Same
<1>1. Held(n) /\ (\A m \in DOMAIN calls : Passed(n, m)) /\ Later(n) \subseteq Later(n)'
  BY <1>0, KeptBefore DEF KeptOf
<1>2. disk'[calls[n].file] = disk[calls[n].file] /\ k \notin Later(n)
  <2>1. CASE calls[k].file # calls[n].file
    BY <1>0, <2>1, StepOthers DEF Later
  <2>2. CASE calls[k].file = calls[n].file /\ k \in calls[n].met
    <3>1. ~calls'[k].changed
      BY <1>0, <2>2 DEF Kept, Rivals
    <3>2. ~calls[k].changed
      BY <1>0, <3>1 DEF Same
    <3>. QED
      BY <2>2, <3>1, <3>2, Touching DEF Later
  <2>. QED
    BY <2>1, <2>2
<1>3. Held(n)'
  <2>1. ASSUME NEW m \in Later(n), calls[m].phase = "write"
        PROVE  m \in Later(n)' /\ calls'[m].phase = "write"
    BY <1>0, <1>1, <1>2, <2>1 DEF Later
  <2>. QED
    BY <1>0, <1>1, <1>2, <2>1 DEF Held, Exists
<1>4. ASSUME NEW m \in DOMAIN calls PROVE Passed(n, m)'
  <2>1. CASE m = k
    BY <1>0, <2>1 DEF Passed, Same
  <2>2. CASE m # k
    BY <1>0, <1>1, <1>2, <2>2 DEF Passed
  <2>. QED
    BY <2>1, <2>2
<1>. QED
  BY <1>0, <1>3, <1>4

\* A step of a call that began when the n-th one had ended.
LEMMA KeptAfter ==
  ASSUME TypeOK, CallsInv, DiskInv, MetInv, NEW n \in DOMAIN calls, NEW k \in DOMAIN calls \ {n},
         Step(k), KeptOf(n), Kept(n)', calls[k].file = calls[n].file, k \notin calls[n].met
  PROVE  Held(n)' /\ \A m \in DOMAIN calls' : Passed(n, m)'
<1>. DEFINE file == calls[n].file
            now == disk'[file]
            before == disk[file]
<1>0. /\ Same(k) /\ CallOf(k) /\ NewFile(k) /\ calls'[n] = calls[n] /\ DOMAIN calls' = DOMAIN calls
      /\ \A m \in DOMAIN calls \ {k} : calls'[m] = calls[m]
      /\ calls[k].keep \in BOOLEAN /\ calls[k].phase # "ended"
  BY StepCase, DiskCase, CallsParts, CallFields DEF Same
<1>1. /\ Held(n) /\ (\A m \in DOMAIN calls : Passed(n, m)) /\ Later(n) \subseteq Later(n)'
      /\ calls[n].result = "ok" /\ before # NoFile /\ before.inode # Nowhere
  <2>1. Held(n) /\ (\A m \in DOMAIN calls : Passed(n, m)) /\ Later(n) \subseteq Later(n)'
    BY <1>0, KeptBefore DEF KeptOf
  <2>. QED
    BY <1>0, <2>1, CallFields DEF Kept, Held, Exists, DiskInv
<1>2. k > n
  <2>1. k \in Nat /\ n \in Nat /\ calls[n].phase = "ended"
    BY <1>1, CallFields, CallsParts DEF CallOf
  <2>2. ~(k < n)
    BY <1>0, <2>1, UnderWayMet
  <2>. QED
    BY <2>1, <2>2
<1>3. calls'[k].changed =>
        /\ k \in Later(n)' /\ calls[k].tool \notin {"delete_file", "execute"}
        /\ ~(calls[k].old = n /\ ~calls[k].keep) /\ ~calls'[k].broke
  <2>1. ASSUME calls'[k].changed PROVE k \in Later(n)'
    BY <1>0, <1>2, <2>1 DEF Later, Same
  <2>. QED
    BY <1>0, <2>1 DEF Kept, Taken, Same
<1>4. Passed(n, k)
  BY <1>1
\* It is enough to look at the file and at the k-th call.
<1>5. ASSUME now.inode = before.inode, now # NoFile, Passed(n, k)',
             \/ n \in now.texts
             \/ now.texts = {} /\ \E m \in Later(n)' : calls'[m].phase = "write"
      PROVE  Held(n)' /\ \A m \in DOMAIN calls' : Passed(n, m)'
  <2>1. Held(n)'
    BY <1>0, <1>5 DEF Held, Exists, NoFile
  <2>2. ASSUME NEW m \in DOMAIN calls PROVE Passed(n, m)'
    <3>1. CASE m # k
      BY <1>0, <1>1, <1>5, <3>1 DEF Passed
    <3>. QED
      BY <1>5, <3>1
  <2>. QED
    BY <1>0, <2>1, <2>2
<1>6. ASSUME now = before, Passed(n, k)', calls[k].phase = "write" => calls'[k].phase = "write"
      PROVE  Held(n)' /\ \A m \in DOMAIN calls' : Passed(n, m)'
  <2>1. ASSUME NEW m \in Later(n), calls[m].phase = "write"
        PROVE  m \in Later(n)' /\ calls'[m].phase = "write"
    BY <1>0, <1>1, <1>6, <2>1 DEF Later
  <2>2. \/ n \in now.texts
        \/ now.texts = {} /\ \E m \in Later(n)' : calls'[m].phase = "write"
    BY <1>1, <1>6, <2>1 DEF Held
  <2>. QED
    BY <1>1, <1>5, <1>6, <2>2
<1>7. CASE Read(k)
  <2>1. /\ now = before /\ calls[k].phase = "read" /\ calls'[k].phase # "write"
        /\ calls'[k].old = calls[k].old /\ calls'[k].keep = calls[k].keep
    BY <1>0, <1>7 DEF Read, Same
  <2>2. calls'[k].phase = "open" => n \in calls'[k].texts \/ (calls[k].old = n /\ ~calls[k].keep)
    <3>1. ASSUME calls'[k].phase = "open"
          PROVE  /\ calls[k].old \in before.texts
                 /\ \A text \in before.texts :
                      text \in calls'[k].texts \/ (calls[k].old = text /\ ~calls[k].keep)
      BY <1>7, <3>1 DEF Read
    <3>2. n \in before.texts \/ before.texts = {}
      BY <1>1 DEF Held
    <3>. QED
      BY <3>1, <3>2
  <2>. QED
    BY <1>6, <2>1, <2>2 DEF Passed
<1>8. CASE Opened(k)
  <2>1. /\ calls[k].phase = "open" /\ calls'[k].changed /\ calls'[k].phase = "write"
        /\ calls'[k].texts = calls[k].texts /\ calls'[k].inode = before.inode
        /\ now = [inode |-> before.inode, texts |-> {}]
    BY <1>1, <1>8 DEF Opened, Inode, Exists
  <2>2. n \in calls'[k].texts
    BY <1>2, <1>3, <1>4, <2>1 DEF Passed
  <2>3. Passed(n, k)'
    BY <1>0, <2>1, <2>2 DEF Passed
  <2>4. now.inode = before.inode /\ now.texts = {} /\ now # NoFile
    BY <1>1, <2>1 DEF NoFile
  <2>. QED
    BY <1>3, <1>5, <2>1, <2>3, <2>4
<1>9. CASE Written(k)
  <2>1. /\ calls[k].phase = "write" /\ calls'[k].changed /\ calls[k].inode = before.inode
        /\ calls'[k].phase \notin {"open", "write"}
    BY <1>0, <1>2, <1>4, <1>9 DEF Written, CallOf, Passed
  <2>2. n \in calls[k].texts
    BY <1>2, <1>3, <1>4, <2>1 DEF Passed
  <2>3. PICK tail \in Tails(before.texts) :
          now = [inode |-> before.inode, texts |-> calls[k].texts \cup tail]
    BY <1>9, <2>1 DEF Written
  <2>4. now.inode = before.inode /\ n \in now.texts /\ now # NoFile
    BY <1>1, <2>2, <2>3 DEF NoFile
  <2>5. Passed(n, k)'
    BY <2>1 DEF Passed
  <2>. QED
    BY <1>5, <2>4, <2>5
<1>10. CASE Failed(k)
  <2>1. /\ calls[k].phase = "open" /\ UNCHANGED disk /\ calls'[k].phase \notin {"open", "write"}
    BY <1>0, <1>3, <1>10 DEF Failed, CallOf
  <2>2. Passed(n, k)'
    BY <2>1 DEF Passed
  <2>. QED
    BY <1>6, <2>1, <2>2
<1>11. CASE Removed(k)
  <2>1. calls'[k].changed /\ calls[k].tool = "delete_file"
    BY <1>0, <1>1, <1>11 DEF Removed, Exists, CallOf, ToolOf
  <2>. QED
    BY <1>3, <2>1
<1>12. CASE Commanded(k)
  <2>1. calls'[k].changed /\ calls[k].tool = "execute"
    BY <1>0, <1>12 DEF Commanded, CallOf, ToolOf
  <2>. QED
    BY <1>3, <2>1
<1>13. CASE Recorded(k)
  <2>1. /\ UNCHANGED disk /\ calls[k].phase # "write" /\ calls'[k].phase \notin {"open", "write"}
    BY <1>13 DEF Recorded
  <2>2. Passed(n, k)'
    BY <2>1 DEF Passed
  <2>. QED
    BY <1>6, <2>1, <2>2
<1>14. CASE Left(k)
  <2>1. /\ UNCHANGED disk /\ calls'[k].texts = calls[k].texts /\ calls'[k].inode = calls[k].inode
        /\ calls[k].phase = "write" => calls'[k].phase = "write"
        /\ calls'[k].phase \in {"open", "write"} => calls'[k].phase = calls[k].phase
    BY <1>14 DEF Left
  <2>2. Passed(n, k)'
    BY <1>0, <1>4, <2>1 DEF Passed, Same
  <2>. QED
    BY <1>6, <2>1, <2>2
<1>. QED
  BY <1>7, <1>8, <1>9, <1>10, <1>11, <1>12, <1>13, <1>14, StepCase

\* A new write_file does not begin on a file that is there, and nothing else
\* begins with a write.
LEMMA KeptBegins ==
  ASSUME TypeOK, CallsInv, MetInv, NEW s \in Sessions, NEW path \in Paths, CallTool(s, path),
         NEW n \in DOMAIN calls, KeptOf(n), Kept(n)'
  PROVE  Held(n)' /\ \A m \in DOMAIN calls' : Passed(n, m)'
<1>1. PICK k, tool, file, old, keep, phase :
        Begun(k, s, tool, file, old, keep, phase) /\ Beginning(tool, file, phase)
  BY BeginCase
<1>2. /\ UNCHANGED disk /\ ~calls'[k].changed /\ DOMAIN calls' = DOMAIN calls \cup {k}
      /\ calls'[k].phase = phase /\ calls'[k].file = file /\ k \notin DOMAIN calls
      /\ Rivals(n)' = Rivals(n)
  BY <1>1, RivalsBegin DEF Begun
<1>3. \A m \in DOMAIN calls :
        /\ calls'[m].tool = calls[m].tool /\ calls'[m].file = calls[m].file
        /\ calls'[m].old = calls[m].old /\ calls'[m].keep = calls[m].keep
        /\ calls'[m].phase = calls[m].phase /\ calls'[m].result = calls[m].result
        /\ calls'[m].inode = calls[m].inode /\ calls'[m].texts = calls[m].texts
        /\ calls'[m].changed = calls[m].changed /\ calls'[m].broke = calls[m].broke
        /\ calls[m].met \subseteq calls'[m].met /\ calls'[m].met \subseteq calls[m].met \cup {k}
  BY <1>1, BegunOthers
<1>4. Later(n)' = Later(n) /\ Later(n) \subseteq DOMAIN calls
  BY <1>2, <1>3 DEF Later
<1>5. Kept(n)
  BY <1>2, <1>3, <1>4 DEF Kept, Taken
<1>6. Held(n) /\ \A m \in DOMAIN calls : Passed(n, m)
  BY <1>5 DEF KeptOf
<1>7. Held(n)'
  BY <1>2, <1>3, <1>4, <1>6 DEF Held, Exists
<1>8. ASSUME NEW m \in DOMAIN calls PROVE Passed(n, m)'
  BY <1>2, <1>3, <1>6 DEF Passed
<1>9. Passed(n, k)'
  <2>1. calls'[k].file = calls'[n].file => Exists(file)
    BY <1>2, <1>3, <1>6 DEF Held
  <2>2. calls'[k].file = calls'[n].file => calls'[k].phase \notin {"open", "write"}
    BY <1>1, <1>2, <2>1 DEF Beginning
  <2>. QED
    BY <2>2 DEF Passed
<1>. QED
  BY <1>2, <1>7, <1>8, <1>9

LEMMA KeptStep ==
  /\ TypeOK /\ CallsInv /\ DiskInv /\ MetInv /\ WritingInv /\ KeptInv /\ [Next]_vars
  => KeptInv'
<1> SUFFICES ASSUME TypeOK, CallsInv, DiskInv, MetInv, WritingInv, KeptInv, [Next]_vars
             PROVE  \A n \in DOMAIN calls' : KeptOf(n)'
  BY DEF KeptInv, KeptOf, Kept, Held, Passed
<1>0. \A n \in DOMAIN calls : KeptOf(n) /\ WritingOf(n)
  BY KeptParts, WritingParts
<1>1. ASSUME NEW s \in Sessions, NEW path \in Paths, CallTool(s, path), NEW n \in DOMAIN calls'
      PROVE  KeptOf(n)'
  <2>1. PICK k, tool, file, old, keep, phase : Begun(k, s, tool, file, old, keep, phase)
    BY <1>1, BeginCase
  <2>2. CASE n \in DOMAIN calls
    BY <1>0, <1>1, <2>2, KeptBegins DEF KeptOf
  <2>3. CASE n \notin DOMAIN calls
    <3>1. n = k /\ calls'[k].result # "ok"
      BY <2>1, <2>3, <1>1 DEF Begun
    <3>. QED
      BY <3>1 DEF KeptOf, Kept
  <2>. QED
    BY <2>2, <2>3
<1>2. ASSUME NEW k \in DOMAIN calls, Step(k), NEW n \in DOMAIN calls' PROVE KeptOf(n)'
  <2>1. n \in DOMAIN calls
    BY <1>2, StepCase DEF Same
  <2>2. ASSUME Kept(n)' PROVE Held(n)' /\ \A m \in DOMAIN calls' : Passed(n, m)'
    BY <1>0, <1>2, <2>1, <2>2, KeptOwn, KeptAside, KeptAfter
  <2>. QED
    BY <2>2 DEF KeptOf
<1>3. CASE UNCHANGED vars
  BY <1>0, <1>3 DEF vars, KeptOf, Kept, Held, Passed, Exists, Rivals, Later, Taken
<1>. QED
  BY <1>1, <1>2, <1>3 DEF Next

-----------------------------------------------------------------------------
(* The theorems. *)

LEMMA FilesInit ==
  Init => /\ TypeOK /\ CallsInv /\ MetInv /\ DiskInv /\ WritingInv /\ KeptInv
          /\ FailedChangedNothing /\ RecordExact
<1> SUFFICES ASSUME Init
             PROVE  /\ TypeOK /\ CallsInv /\ MetInv /\ DiskInv /\ WritingInv /\ KeptInv
                    /\ FailedChangedNothing /\ RecordExact
  OBVIOUS
<1>1. calls = <<>> /\ DOMAIN calls = {} /\ Len(calls) = 0 /\ calls \in Seq(CallRecord)
  BY DEF Init
<1>2. 0 \in Texts /\ MaxCalls \in Nat /\ Nowhere # 0
  BY FilesAssumption DEF Texts
<1>3. TypeOK
  BY <1>1, <1>2 DEF Init, TypeOK, NoFile
<1>4. DiskInv
  BY <1>2 DEF Init, DiskInv, Exists, NoFile
<1>. QED
  BY <1>1, <1>3, <1>4 DEF CallsInv, MetInv, WritingInv, KeptInv, FailedChangedNothing, RecordExact

\* Every variable has its type; a session awaits one call at a time; of two
\* calls on a file the later one has met the earlier one or begun after its
\* end; and a call finds the file as it left it unless a rival changed it.
THEOREM TypeCorrect == Spec => [](TypeOK /\ CallsInv /\ MetInv /\ DiskInv /\ WritingInv)
<1>1. /\ TypeOK /\ CallsInv /\ MetInv /\ DiskInv /\ WritingInv /\ [Next]_vars
      => (TypeOK /\ CallsInv /\ MetInv /\ DiskInv /\ WritingInv)'
  BY TypeStep, CallsStep, MetStep, DiskStep, WritingStep
<1>. QED
  BY <1>1, FilesInit, PTL DEF Spec

\* A session that is told that a call has failed can rely on the file, but for
\* the cases FailedChangedNothing names.
THEOREM FailedCorrect == Spec => []FailedChangedNothing
<1>1. /\ TypeOK /\ CallsInv /\ MetInv /\ DiskInv /\ WritingInv /\ FailedChangedNothing /\ [Next]_vars
      => FailedChangedNothing'
  BY FailedStep
<1>. QED
  BY <1>1, FilesInit, TypeCorrect, PTL DEF Spec

\* A session's record of a file is what its last success made of it, unless
\* another call was at work on the file, or its path leads to another one.
THEOREM RecordCorrect == Spec => []RecordExact
<1>1. /\ TypeOK /\ CallsInv /\ MetInv /\ DiskInv /\ WritingInv /\ RecordExact /\ [Next]_vars
      => RecordExact'
  BY RecordStep
<1>. QED
  BY <1>1, FilesInit, TypeCorrect, PTL DEF Spec

\* What a call wrote and reported is in the file until a later call takes it
\* out, whatever overlaps with what.
THEOREM KeptCorrect == Spec => []KeptUnlessTaken
<1>1. /\ TypeOK /\ CallsInv /\ MetInv /\ DiskInv /\ WritingInv /\ KeptInv /\ [Next]_vars
      => KeptInv'
  BY KeptStep
<1>2. TypeOK /\ KeptInv => KeptUnlessTaken
  <2> SUFFICES ASSUME TypeOK, KeptInv, NEW n \in DOMAIN calls,
                      calls[n].result = "ok", calls[n].tool \in {"write_file", "edit_file"},
                      Rivals(n) = {}, n \notin disk[calls[n].file].texts
               PROVE  \E m \in Later(n) :
                        \/ calls[m].tool \in {"delete_file", "execute"}
                        \/ calls[m].old = n /\ ~calls[m].keep
                        \/ calls[m].broke \/ calls[m].phase = "write"
    BY DEF KeptUnlessTaken
  <2>1. Taken(n) \/ Held(n)
    BY KeptParts DEF KeptOf, Kept
  <2>. QED
    BY <2>1 DEF Taken, Held
<1>. QED
  BY <1>1, <1>2, FilesInit, TypeCorrect, PTL DEF Spec
=============================================================================

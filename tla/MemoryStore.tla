----------------------------- MODULE MemoryStore -----------------------------
(***************************************************************************)
(* `deepagents memory put | query | compact`: processes that share         *)
(* memory_store.json and AGENTS.md.  A process reads the store into        *)
(* memory, changes its copy, and replaces each file through a temporary    *)
(* one, whose name is the same for every process.  Any step may fail or    *)
(* be the last of its process, and the clock may pass between two steps.   *)
(***************************************************************************)
EXTENDS MemoryEntries, FiniteSets

CONSTANTS Procs, Keys, Sizes,
          DefaultPolicy,
          InitialFiles,      \* what memory_store.json may be before the first command
          MaxCommands,       \* bound on the commands started
          MaxTime            \* bound on the clock

ASSUME BoundsAssumption ==
    /\ MaxCommands \in Nat
    /\ MaxTime \in Nat
    /\ Sizes \subseteq Nat

VARIABLES
    file, tmp,    \* what stands under each name, and under its temporary name
    pc,           \* where a process is; "off" before and after
    cmd,          \* the command of a process
    mem,          \* the copy of the store in a process: `InMemory`
    target,       \* the file a process is writing
    fd,           \* where the file a process has open stands by now
    status,       \* how the last command of a process ended
    now,
    commands,     \* how many commands were started
    shared,       \* history: two processes have run at once
    behind        \* history: the store was replaced and AGENTS.md not yet

vars == <<file, tmp, pc, cmd, mem, target, fd, status, now, commands,
          shared, behind>>
-----------------------------------------------------------------------------
Absent == [is |-> "absent"]
Empty  == [is |-> "empty"]     \* opened, which truncates, and not written
Torn   == [is |-> "torn"]      \* does not parse
Store(policy, entries) == [is |-> "store", policy |-> policy, entries |-> entries]

\* The section of AGENTS.md: the keys and values in the order of the entries.
Rendering(entries) ==
    [is |-> "agents",
     entries |-> [i \in DOMAIN entries |->
        [key |-> entries[i].key, value |-> entries[i].value, size |-> entries[i].size]]]

Names == {"store", "agents"}
Values == 1..MaxCommands

Entries == Seq([key : Keys, value : 0..MaxCommands, size : Sizes,
                created : 0..MaxTime, updated : 0..MaxTime, accessed : 0..MaxTime])

\* An entry list names each key once.
Distinct(entries) ==
    \A i, j \in DOMAIN entries : entries[i].key = entries[j].key => i = j

Policies == [max_entries : Nat, max_bytes : Nat, eviction : {"fifo", "lru", "ttl"}, ttl : Nat]

ASSUME FilesAssumption ==
    /\ DefaultPolicy \in Policies
    /\ \A f \in InitialFiles :
          \/ f \in {Absent, Empty, Torn}
          \/ /\ f = Store(f.policy, f.entries)
             /\ f.policy \in Policies /\ f.entries \in Entries /\ Distinct(f.entries)

\* No entry has a time that is yet to come.
Stamped(entries, t) ==
    \A i \in DOMAIN entries :
        entries[i].created =< t /\ entries[i].updated =< t /\ entries[i].accessed =< t

\* The clock starts after whoever wrote the file that the commands find.
ASSUME PastAssumption == \A f \in InitialFiles : f.is = "store" => Stamped(f.entries, 0)

NoStore == [policy |-> DefaultPolicy, entries |-> <<>>]

NoCmd == [op |-> "none"]
Commands ==
    [op : {"put"}, key : Keys, value : Values, size : Sizes]
    \cup {[op |-> "query"], [op |-> "compact"]}

Init ==
    /\ \E f \in InitialFiles :
          file = [n \in Names |-> IF n = "store" THEN f
                                  ELSE IF f.is = "store" THEN Rendering(f.entries)
                                  ELSE Absent]
    /\ tmp = [n \in Names |-> Absent]
    /\ pc = [p \in Procs |-> "off"]
    /\ cmd = [p \in Procs |-> NoCmd]
    /\ mem = [p \in Procs |-> NoStore]
    /\ target = [p \in Procs |-> "store"]
    /\ fd = [p \in Procs |-> "none"]
    /\ status = [p \in Procs |-> "none"]
    /\ now = 0
    /\ commands = 0
    /\ shared = FALSE
    /\ behind = FALSE
-----------------------------------------------------------------------------
\* A process that ends loses its copy and closes its file.
Leave(p, how) ==
    /\ pc' = [pc EXCEPT ![p] = "off"]
    /\ cmd' = [cmd EXCEPT ![p] = NoCmd]
    /\ mem' = [mem EXCEPT ![p] = NoStore]
    /\ target' = [target EXCEPT ![p] = "store"]
    /\ status' = [status EXCEPT ![p] = how]

Close(p) == fd' = [fd EXCEPT ![p] = "none"]

Start(p) ==
    /\ pc[p] = "off"
    /\ commands < MaxCommands
    /\ commands' = commands + 1
    /\ \E c \in Commands :
          /\ c.op = "put" => c.value = commands'
          /\ cmd' = [cmd EXCEPT ![p] = c]
    /\ pc' = [pc EXCEPT ![p] = "load"]
    /\ status' = [status EXCEPT ![p] = "none"]
    /\ shared' = (shared \/ \E q \in Procs : pc[q] # "off")
    /\ UNCHANGED <<file, tmp, mem, target, fd, now, behind>>

\* Fault: a file that does not parse is taken for an empty store.
Load_Forgives(p) ==
    /\ pc[p] = "load"
    /\ mem' = [mem EXCEPT ![p] =
          IF file["store"].is # "store" THEN NoStore
          ELSE [policy |-> file["store"].policy, entries |-> file["store"].entries]]
    /\ pc' = [pc EXCEPT ![p] = "work"]
    /\ UNCHANGED <<file, tmp, cmd, target, fd, status, now, commands, shared, behind>>

(***************************************************************************)
(* `ensure_loaded`: a missing file is an empty store under the default     *)
(* policy; one that does not parse ends the command.                       *)
(***************************************************************************)
Loadable == file["store"].is \in {"absent", "store"}

Load(p) ==
    /\ pc[p] = "load"
    /\ Loadable
    /\ mem' = [mem EXCEPT ![p] =
          IF file["store"] = Absent THEN NoStore
          ELSE [policy |-> file["store"].policy, entries |-> file["store"].entries]]
    /\ pc' = [pc EXCEPT ![p] = "work"]
    /\ UNCHANGED <<file, tmp, cmd, target, fd, status, now, commands, shared, behind>>

LoadCorrupt(p) ==
    /\ pc[p] = "load"
    /\ ~Loadable
    /\ Leave(p, "corrupt")
    /\ UNCHANGED <<file, tmp, fd, now, commands, shared, behind>>

(***************************************************************************)
(* `evict_if_needed` as the last thing a command does to its copy.         *)
(***************************************************************************)
EvictAndReport(p, entries) ==
    /\ mem' = [mem EXCEPT ![p].entries = Evicted(entries, mem[p].policy, now)]
    /\ pc' = [pc EXCEPT ![p] = "open"]
    /\ UNCHANGED <<file, tmp, cmd, target, fd, status, now, commands, shared, behind>>

\* The entries of the copy with the entry of a put in them.
WithPut(p) == Upsert(mem[p].entries, cmd[p].key, cmd[p].value, cmd[p].size, now)

\* The method `put` evicts already, before the command calls evict_if_needed.
Put(p) ==
    /\ pc[p] = "work"
    /\ cmd[p].op = "put"
    /\ EvictAndReport(p, Evicted(WithPut(p), mem[p].policy, now))

Compact(p) ==
    /\ pc[p] = "work"
    /\ cmd[p].op = "compact"
    /\ EvictAndReport(p, mem[p].entries)

(***************************************************************************)
(* `query` stamps the entries it returns in its own copy, which ends with  *)
(* the process: the command never flushes.                                 *)
(***************************************************************************)
Query(p) ==
    /\ pc[p] = "work"
    /\ cmd[p].op = "query"
    /\ Leave(p, "ok")
    /\ UNCHANGED <<file, tmp, fd, now, commands, shared, behind>>
-----------------------------------------------------------------------------
(***************************************************************************)
(* `write_atomic`, first for the store (`flush`), then for AGENTS.md       *)
(* (`render_agents_md`, whose failure the command ignores).  The temporary *)
(* file is opened and truncated, written, and renamed.  A process that has *)
(* the file open writes to it wherever it stands by then.                  *)
(***************************************************************************)
Text(p) ==
    IF target[p] = "store" THEN Store(mem[p].policy, mem[p].entries)
    ELSE Rendering(mem[p].entries)

Size(text) == IF text.is \in {"store", "agents"} THEN BytesTotal(text.entries) ELSE 0

\* Both write from the start of the file: the end of a longer old text stays.
Overlay(old, new) ==
    IF old.is # "torn" /\ Size(old) =< Size(new) THEN new ELSE Torn

WriteTo(p, new) ==
    LET n == target[p] IN
    /\ tmp'  = IF fd[p] = "tmp"  THEN [tmp  EXCEPT ![n] = Overlay(@, new)] ELSE tmp
    /\ file' = IF fd[p] = "file" THEN [file EXCEPT ![n] = Overlay(@, new)] ELSE file

\* Fault: the temporary file is opened without truncating it.
Open_Appends(p) ==
    /\ pc[p] = "open"
    /\ tmp' = [tmp EXCEPT ![target[p]] = IF @ = Absent THEN Empty ELSE @]
    /\ fd' = [fd EXCEPT ![p] = "tmp"]
    /\ pc' = [pc EXCEPT ![p] = "write"]
    /\ UNCHANGED <<file, cmd, mem, target, status, now, commands, shared, behind>>

Open(p) ==
    /\ pc[p] = "open"
    /\ tmp' = [tmp EXCEPT ![target[p]] = Empty]
    /\ fd' = [fd EXCEPT ![p] = "tmp"]
    /\ pc' = [pc EXCEPT ![p] = "write"]
    /\ UNCHANGED <<file, cmd, mem, target, status, now, commands, shared, behind>>

Write(p) ==
    /\ pc[p] = "write"
    /\ WriteTo(p, Text(p))
    /\ Close(p)
    /\ pc' = [pc EXCEPT ![p] = "rename"]
    /\ UNCHANGED <<cmd, mem, target, status, now, commands, shared, behind>>

\* The old file is unlinked; who has either of the two open keeps it.
Move(n) ==
    /\ tmp[n] # Absent
    /\ file' = [file EXCEPT ![n] = tmp[n]]
    /\ tmp' = [tmp EXCEPT ![n] = Absent]
    /\ fd' = [q \in Procs |->
                CASE target[q] = n /\ fd[q] = "tmp"  -> "file"
                  [] target[q] = n /\ fd[q] = "file" -> "gone"
                  [] OTHER -> fd[q]]

RenameStore(p) ==
    /\ pc[p] = "rename"
    /\ target[p] = "store"
    /\ Move("store")
    /\ target' = [target EXCEPT ![p] = "agents"]
    /\ pc' = [pc EXCEPT ![p] = "open"]
    /\ behind' = TRUE
    /\ UNCHANGED <<cmd, mem, status, now, commands, shared>>

RenameAgents(p) ==
    /\ pc[p] = "rename"
    /\ target[p] = "agents"
    /\ Move("agents")
    /\ Leave(p, "ok")
    /\ behind' = FALSE
    /\ UNCHANGED <<now, commands, shared>>

\* What a write that is cut short does to the files.
CutShort(p) ==
    \/ UNCHANGED <<file, tmp>>
    \/ pc[p] = "write" /\ WriteTo(p, Torn)

\* Fault: the command ignores a failed flush, as it ignores a failed rendering.
Fails_Quietly(p) ==
    /\ pc[p] \in {"load", "open", "write", "rename"}
    /\ CutShort(p)
    /\ Leave(p, "ok")
    /\ Close(p)
    /\ UNCHANGED <<now, commands, shared, behind>>

(***************************************************************************)
(* A read, an open, a write or a rename fails, the rename always when      *)
(* another process has renamed the temporary file already.  The command    *)
(* ends with an error if this was the store, and well if it was AGENTS.md. *)
(***************************************************************************)
Fails(p) ==
    /\ pc[p] \in {"load", "open", "write", "rename"}
    /\ CutShort(p)
    /\ Leave(p, IF target[p] = "store" THEN "io_error" ELSE "ok")
    /\ Close(p)
    /\ UNCHANGED <<now, commands, shared, behind>>

\* The process is killed, or the machine stops, between any two steps.
Crash(p) ==
    /\ pc[p] # "off"
    /\ CutShort(p)
    /\ Leave(p, "crashed")
    /\ Close(p)
    /\ UNCHANGED <<now, commands, shared, behind>>

Tick ==
    /\ now < MaxTime
    /\ now' = now + 1
    /\ UNCHANGED <<file, tmp, pc, cmd, mem, target, fd, status, commands,
                   shared, behind>>

Next ==
    \/ \E p \in Procs :
          \/ Start(p) \/ Load(p) \/ LoadCorrupt(p)
          \/ Put(p) \/ Compact(p) \/ Query(p)
          \/ Open(p) \/ Write(p) \/ RenameStore(p) \/ RenameAgents(p)
          \/ Fails(p) \/ Crash(p)
    \/ Tick

Spec == Init /\ [][Next]_vars
-----------------------------------------------------------------------------
NoText == {Absent, Empty, Torn}

(***************************************************************************)
(* Every variable has its type, and a process has a file open only while   *)
(* it writes it.                                                           *)
(***************************************************************************)
TypeOK ==
    /\ \A n \in Names : file[n] \in NoText \/ file[n].is = n
    /\ \A n \in Names : tmp[n] \in NoText \/ tmp[n].is = n
    /\ pc \in [Procs -> {"off", "load", "work", "open", "write", "rename"}]
    /\ \A p \in Procs : cmd[p] \in Commands \cup {NoCmd}
    /\ \A p \in Procs : mem[p].entries \in Entries
    /\ target \in [Procs -> Names]
    /\ fd \in [Procs -> {"none", "tmp", "file", "gone"}]
    /\ \A p \in Procs : fd[p] # "none" <=> pc[p] = "write"
    /\ status \in [Procs -> {"none", "ok", "corrupt", "io_error", "crashed"}]
    /\ now \in 0..MaxTime
    /\ commands \in 0..MaxCommands
    /\ shared \in BOOLEAN
    /\ behind \in BOOLEAN

(***************************************************************************)
(* Commands that follow one another change the store as MemoryMap says:    *)
(* by one whole put or compact at a time, whatever fails or crashes where, *)
(* and a store that cannot be read stays as it is.                         *)
(***************************************************************************)
StoreIn(f) ==
    CASE f.is = "absent" -> Store(DefaultPolicy, <<>>)
      [] f.is = "store"  -> f
      [] OTHER           -> Torn

Map == INSTANCE MemoryMap WITH
    Times <- 0..MaxTime,
    Unreadable <- Torn,
    InitialStores <- {StoreIn(f) : f \in InitialFiles},
    store <- StoreIn(file["store"]),
    alone <- ~shared

ImplementsMap == Map!Spec

(***************************************************************************)
(* Also with several processes at once, a store that can be read names     *)
(* every key once and is under its policy, unless no command has written   *)
(* it yet: flush never runs before evict_if_needed.  The states this is    *)
(* said of have their types.                                               *)
(***************************************************************************)
CapacityKept ==
    LET f == file["store"] IN
    /\ TypeOK
    /\ f.is = "store" /\ f \notin InitialFiles =>
          /\ ~Over(f.entries, f.policy)
          /\ Cardinality(KeysOf(f.entries)) = Len(f.entries)

(***************************************************************************)
(* A command that nobody overlapped and that reports success has left in   *)
(* the file the store as it has it in memory, also when AGENTS.md failed.  *)
(***************************************************************************)
OkIsDurable ==
    [][\A p \in Procs :
          /\ pc[p] # "off" /\ pc'[p] = "off" /\ status'[p] = "ok" /\ ~shared'
          /\ cmd[p].op # "query"
          => file'["store"] = Store(mem[p].policy, mem[p].entries)]_vars

(***************************************************************************)
(* When every command that replaced the store got to replace AGENTS.md     *)
(* too, AGENTS.md shows the store; a crash in between, or an earlier       *)
(* half-written temporary file, is made good by the next command.          *)
(***************************************************************************)
AgentsFollow ==
    ~shared /\ ~behind /\ file["store"].is = "store" =>
        file["agents"] = Rendering(file["store"].entries)

(***************************************************************************)
(* A put keeps the entry it was called for, as long as the entry fits by   *)
(* itself: for a new key under every policy, for a known one under lru     *)
(* when the others were used in an earlier second.  (Within one second, or *)
(* under fifo, the eviction that a longer value causes may take the entry  *)
(* just written.)                                                          *)
(***************************************************************************)
PutFits(p) ==
    /\ mem[p].policy.max_entries > 0
    /\ cmd[p].size =< mem[p].policy.max_bytes

PutIsSafe(p) ==
    \/ cmd[p].key \notin KeysOf(mem[p].entries)
    \/ /\ mem[p].policy.eviction = "lru"
       /\ \A i \in DOMAIN mem[p].entries :
             mem[p].entries[i].key # cmd[p].key => mem[p].entries[i].accessed < now

PutSurvives ==
    [][\A p \in Procs :
          /\ pc[p] = "work" /\ pc'[p] = "open" /\ cmd[p].op = "put"
          /\ PutFits(p) /\ PutIsSafe(p)
          => \E i \in DOMAIN mem'[p].entries :
                /\ mem'[p].entries[i].key = cmd[p].key
                /\ mem'[p].entries[i].value = cmd[p].value]_vars
-----------------------------------------------------------------------------
(***************************************************************************)
(* The inductive invariant behind the theorems of MemoryStoreProofs.       *)
(***************************************************************************)
Lists == {entries \in Entries : Distinct(entries)}

StoreTexts == [is : {"store"}, policy : Policies, entries : Lists]
AgentsTexts ==
    [is : {"agents"}, entries : Seq([key : Keys, value : 0..MaxCommands, size : Sizes])]
Texts == NoText \cup StoreTexts \cup AgentsTexts

\* A store as a command writes it: under its policy.
Tidy(f) == f \in StoreTexts /\ ~Over(f.entries, f.policy)

\* The stages in which a process writes its copy.
Writing == {"open", "write", "rename"}

CopiesInv ==
    /\ cmd \in [Procs -> Commands \cup {NoCmd}]
    /\ mem \in [Procs -> [policy : Policies, entries : Lists]]
    /\ \A p \in Procs :
        /\ pc[p] \in Writing => ~Over(mem[p].entries, mem[p].policy)
        /\ pc[p] # "off" <=> cmd[p].op # "none"
        /\ pc[p] \in Writing => cmd[p].op \in {"put", "compact"}
        /\ target[p] = "agents" => pc[p] \in Writing

FilesInv ==
    /\ file \in [Names -> Texts] /\ tmp \in [Names -> Texts]
    /\ file["store"] \in NoText \cup InitialFiles \/ Tidy(file["store"])
    /\ tmp["store"] \in NoText \/ Tidy(tmp["store"])

StampsInv ==
    /\ \A p \in Procs : Stamped(mem[p].entries, now)
    /\ file["store"].is = "store" => Stamped(file["store"].entries, now)
    /\ tmp["store"].is = "store" => Stamped(tmp["store"].entries, now)

\* What a command that is alone will make of the store.
Changed(p) ==
    LET old == StoreIn(file["store"])
    IN  /\ old # Torn
        /\ mem[p].policy = old.policy
        /\ \E t \in 0..MaxTime :
              \/ /\ cmd[p].op = "put"
                 /\ mem[p].entries =
                      Evicted(Upsert(old.entries, cmd[p].key, cmd[p].value, cmd[p].size, t),
                              old.policy, t)
              \/ cmd[p].op = "compact" /\ mem[p].entries = Evicted(old.entries, old.policy, t)

\* How far a command that is alone has got with the two files.
Progress(p) ==
    /\ pc[p] = "work" => StoreIn(file["store"]) = Store(mem[p].policy, mem[p].entries)
    /\ pc[p] \in Writing /\ target[p] = "store" => Changed(p)
    /\ target[p] = "agents" => file["store"] = Store(mem[p].policy, mem[p].entries)
    /\ pc[p] = "write" => fd[p] = "tmp" /\ tmp[target[p]] = Empty
    /\ pc[p] = "rename" => tmp[target[p]] = Text(p)

AloneInv ==
    ~shared =>
        /\ \A p, q \in Procs : pc[p] # "off" /\ pc[q] # "off" => p = q
        /\ \A p \in Procs : Progress(p)
=============================================================================

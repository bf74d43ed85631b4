--------------------------- MODULE SubagentsProofs ---------------------------
(***************************************************************************)
(* Theorems about Subagents, and about the todo lists of TodoList.         *)
(***************************************************************************)
EXTENDS Subagents, DataInduction

-----------------------------------------------------------------------------
(* Todo lists. *)

Good(todos, by) == todos \in Seq(TodoItem) /\ Noted(todos, by)

LEMMA PatchGood ==
  ASSUME NEW todos, NEW by \in Nat, Good(todos, by), NEW p \in TodoPatch
  PROVE  Good(Patch(todos, p, by), by)
<1>0. /\ todos \in Seq(TodoItem) /\ DOMAIN todos = 1 .. Len(todos) /\ Len(todos) \in Nat
      /\ p.id \in TodoIds /\ p.status \in TodoStatuses
  BY DEF Good, TodoPatch
<1>1. CASE IndexOf(todos, p.id) = {}
  <2>1. PICK item, new : /\ item = [id |-> p.id, status |-> p.status, by |-> by]
                         /\ new = Append(todos, item)
    OBVIOUS
  <2>2. item \in TodoItem /\ item.id = p.id /\ item.by = by
    BY <1>0, <2>1 DEF TodoItem
  <2>3. /\ new \in Seq(TodoItem) /\ DOMAIN new = 1 .. Len(todos) + 1
        /\ new[Len(todos) + 1] = item /\ \A i \in DOMAIN todos : new[i] = todos[i]
        /\ \A i \in DOMAIN new : i \in DOMAIN todos \/ i = Len(todos) + 1
    BY <1>0, <2>1, <2>2
  <2>4. \A i \in DOMAIN todos : todos[i].id # p.id
    BY <1>1 DEF IndexOf
  <2>5. Noted(new, by)
    BY <2>2, <2>3, <2>4 DEF Good, Noted
  <2>. QED
    BY <1>1, <2>1, <2>3, <2>5 DEF Patch, Good
<1>2. CASE IndexOf(todos, p.id) # {}
  <2>1. PICK new : new = [i \in DOMAIN todos |->
            IF todos[i].id = p.id /\ p.status # ""
              THEN [todos[i] EXCEPT !.status = p.status] ELSE todos[i]]
    OBVIOUS
  <2>2. ASSUME NEW i \in DOMAIN todos
        PROVE  new[i] \in TodoItem /\ new[i].id = todos[i].id /\ new[i].by = todos[i].by
    <3>1. todos[i] \in TodoItem
      BY <1>0
    <3>. QED
      BY <1>0, <2>1, <3>1 DEF TodoItem
  <2>3. new \in Seq(TodoItem) /\ DOMAIN new = DOMAIN todos
    <3>1. new = [i \in 1 .. Len(todos) |-> new[i]] /\ DOMAIN new = DOMAIN todos
      BY <1>0, <2>1
    <3>. QED
      BY <1>0, <2>2, <3>1
  <2>4. Noted(new, by)
    BY <2>2, <2>3 DEF Good, Noted
  <2>. QED
    BY <1>2, <2>1, <2>3, <2>4 DEF Patch, Good
<1>. QED
  BY <1>1, <1>2

IsMerged(todos, patches, by, merged) ==
  merged = [n \in 0 .. Len(patches) |->
              IF n = 0 THEN todos ELSE Patch(merged[n - 1], patches[n], by)]

LEMMA MergedExists ==
  ASSUME NEW todos, NEW by \in Nat, Good(todos, by), NEW patches \in Seq(TodoPatch)
  PROVE  \E merged : IsMerged(todos, patches, by, merged)
<1>. DEFINE N == Len(patches)
            V == {list \in Seq(TodoItem) : Good(list, by)}
            next == [x \in (1 .. N) \X V |-> Patch(x[2], patches[x[1]], by)]
<1>1. N \in Nat /\ todos \in V
  BY DEF Good
<1>2. ASSUME NEW n \in 1 .. N, NEW list \in V PROVE Patch(list, patches[n], by) \in V
  <2>1. patches[n] \in TodoPatch
    OBVIOUS
  <2>2. Good(Patch(list, patches[n], by), by)
    BY <2>1, PatchGood
  <2>. QED
    BY <2>2 DEF Good
<1>. HIDE DEF N, V
<1>3. next \in [(1 .. N) \X V -> V]
  BY <1>2
<1>4. PICK f : Iterates(f, N, V, todos, next)
  <2>. HIDE DEF next
  <2>. QED
    BY <1>1, <1>3, Recursion
<1>5. ASSUME NEW n \in 1 .. N PROVE f[n] = Patch(f[n - 1], patches[n], by)
  <2>1. f[n - 1] \in V /\ <<n, f[n - 1]>> \in (1 .. N) \X V
    BY <1>1, <1>4 DEF Iterates
  <2>2. f[n] = next[<<n, f[n - 1]>>]
    BY <1>4 DEF Iterates
  <2>. QED
    BY <2>1, <2>2
<1>6. DOMAIN f = 0 .. N /\ f[0] = todos /\ f = [n \in 0 .. N |-> f[n]]
  BY <1>4 DEF Iterates
<1>7. f = [n \in 0 .. N |-> IF n = 0 THEN todos ELSE Patch(f[n - 1], patches[n], by)]
  <2>1. \A n \in 0 .. N : n = 0 \/ n \in 1 .. N
    BY <1>1
  <2>. QED
    BY <1>5, <1>6, <2>1
<1>8. IsMerged(todos, patches, by, f)
  BY <1>7 DEF IsMerged, N
<1>. QED
  BY <1>8

LEMMA MergeGood ==
  ASSUME NEW todos, NEW by \in Nat, Good(todos, by), NEW patches \in Seq(TodoPatch)
  PROVE  Good(Merge(todos, patches, by), by)
<1>. DEFINE N == Len(patches)
<1>1. PICK merged : IsMerged(todos, patches, by, merged) /\ Merge(todos, patches, by) = merged[N]
  <2>1. \E merged : IsMerged(todos, patches, by, merged)
    BY MergedExists
  <2>2. Merge(todos, patches, by) = (CHOOSE merged : IsMerged(todos, patches, by, merged))[N]
    BY DEF Merge, IsMerged
  <2>. QED
    BY <2>1, <2>2
<1>. DEFINE S == {n \in 0 .. N : Good(merged[n], by)}
<1>2. 0 \in S
  BY <1>1 DEF IsMerged
<1>3. ASSUME NEW n \in 0 .. N - 1, n \in S PROVE n + 1 \in S
  <2>1. n + 1 \in 0 .. N /\ n + 1 # 0 /\ (n + 1) - 1 = n /\ patches[n + 1] \in TodoPatch
    OBVIOUS
  <2>2. merged[n + 1] = Patch(merged[n], patches[n + 1], by)
    BY <1>1, <2>1 DEF IsMerged
  <2>3. Good(merged[n + 1], by)
    BY <1>3, <2>1, <2>2, PatchGood
  <2>. QED
    BY <2>1, <2>3
<1>4. N \in S
  <2>1. N \in Nat /\ N \in 0 .. N
    OBVIOUS
  <2>. HIDE DEF S, N
  <2>. QED
    BY <1>2, <1>3, <2>1, InductUpTo
<1>. QED
  BY <1>1, <1>4

\* A list stays the list of its run, whatever write_todos is given.
LEMMA WriteGood ==
  ASSUME NEW todos, NEW by \in Nat, Good(todos, by), NEW input \in WriteTodosInput
  PROVE  Good(AfterWriteTodos(todos, input, by), by)
<1>0. input.todos \in Seq(TodoPatch)
  BY DEF WriteTodosInput
<1>1. CASE Accepted(todos, input, by) /\ input.merge
  BY <1>0, <1>1, MergeGood DEF AfterWriteTodos, Written
<1>2. CASE Accepted(todos, input, by) /\ ~input.merge
  <2>1. PICK patches, new : patches = input.todos /\ new = Replacement(patches, by)
    OBVIOUS
  <2>2. /\ patches \in Seq(TodoPatch) /\ Len(patches) \in Nat
        /\ DOMAIN patches = 1 .. Len(patches)
    BY <1>0, <2>1
  <2>3. ASSUME NEW i \in DOMAIN patches
        PROVE  new[i] \in TodoItem /\ new[i].id = patches[i].id /\ new[i].by = by
    <3>1. patches[i] \in TodoPatch
      BY <2>2
    <3>. QED
      BY <2>1, <3>1 DEF Replacement, TodoPatch, TodoItem
  <2>4. DOMAIN new = 1 .. Len(patches) /\ new = [i \in 1 .. Len(patches) |-> new[i]]
    BY <2>1, <2>2 DEF Replacement
  <2>5. new \in Seq(TodoItem)
    BY <2>2, <2>3, <2>4
  <2>6. \A i, j \in DOMAIN patches : patches[i].id = patches[j].id => i = j
    BY <1>2, <2>1 DEF Accepted, Valid
  <2>7. Noted(new, by)
    BY <2>2, <2>3, <2>4, <2>6 DEF Noted
  <2>. QED
    BY <1>2, <2>1, <2>5, <2>7 DEF AfterWriteTodos, Written, Good
<1>3. CASE ~Accepted(todos, input, by)
  BY <1>3 DEF AfterWriteTodos
<1>. QED
  BY <1>1, <1>2, <1>3

-----------------------------------------------------------------------------
(***************************************************************************)
(* The stack.                                                              *)
(***************************************************************************)
Inv == StackInv /\ NotesInv /\ MirrorInv /\ ToolsInv

LEMMA Tops ==
  ASSUME StackInv, stack # <<>>
  PROVE  /\ stack \in Seq(Frames) /\ Len(stack) \in Nat \ {0}
         /\ DOMAIN stack = 1 .. Len(stack) /\ Len(stack) \in DOMAIN stack
         /\ Top = stack[Len(stack)] /\ Top \in Frames /\ Placed(Len(stack))
         /\ \A i \in DOMAIN stack : Placed(i) /\ stack[i] \in Frames
<1>1. stack \in Seq(Frames) /\ \A i \in DOMAIN stack : Placed(i)
  BY DEF StackInv, ValuesInv
<1>2. /\ Len(stack) \in Nat \ {0} /\ DOMAIN stack = 1 .. Len(stack)
      /\ Len(stack) \in DOMAIN stack
  BY <1>1
<1>3. \A i \in DOMAIN stack : stack[i] \in Frames
  BY <1>1
<1>. QED
  BY <1>1, <1>2, <1>3 DEF Top

\* The stack is cut to k runs, the last of which becomes f.
Becomes(k, f) ==
  /\ stack' \in Seq(Frames) /\ Len(stack') = k /\ DOMAIN stack' = 1 .. k
  /\ stack'[k] = f /\ \A i \in 1 .. k - 1 : stack'[i] = stack[i]

LEMMA WithBecomes ==
  ASSUME StackInv, stack # <<>>, NEW f \in Frames, stack' = With(f)
  PROVE  Becomes(Len(stack), f)
<1>1. /\ stack \in Seq(Frames) /\ Len(stack) \in Nat \ {0} /\ DOMAIN stack = 1 .. Len(stack)
      /\ stack' = [stack EXCEPT ![Len(stack)] = f]
  BY Tops DEF With
<1>2. stack' \in Seq(Frames) /\ Len(stack') = Len(stack)
  BY <1>1
<1>3. stack'[Len(stack)] = f
  BY <1>1
<1>4. ASSUME NEW i \in 1 .. Len(stack) - 1 PROVE stack'[i] = stack[i]
  <2>1. PICK n : n = Len(stack) /\ n \in Nat /\ DOMAIN stack = 1 .. n /\ i \in 1 .. n - 1
    BY <1>1
  <2>2. i \in 1 .. n /\ i # n
    BY ONLY <2>1
  <2>. QED
    BY <1>1, <2>1, <2>2
<1>. QED
  BY <1>1, <1>2, <1>3, <1>4 DEF Becomes

LEMMA AppendBecomes ==
  ASSUME StackInv, stack # <<>>, NEW f \in Frames, NEW k \in 1 .. Len(stack),
         stack' = Append(SubSeq(stack, 1, k - 1), f)
  PROVE  Becomes(k, f)
<1>1. stack \in Seq(Frames) /\ Len(stack) \in Nat /\ k \in Nat \ {0}
  BY Tops
<1>2. PICK below : below = SubSeq(stack, 1, k - 1)
  OBVIOUS
<1>3. /\ below \in Seq(Frames) /\ Len(below) = k - 1
      /\ \A i \in 1 .. k - 1 : below[i] = stack[i]
  BY <1>1, <1>2
<1>4. /\ stack' \in Seq(Frames) /\ Len(stack') = k /\ DOMAIN stack' = 1 .. k /\ stack'[k] = f
      /\ \A i \in 1 .. k - 1 : stack'[i] = below[i]
  BY <1>1, <1>2, <1>3
<1>. QED
  BY <1>3, <1>4 DEF Becomes

\* The last run goes on, or the one before it does when the last has ended.
LEMMA StackBecomes ==
  ASSUME StackInv, NEW k \in DOMAIN stack, NEW f \in Frames, Becomes(k, f),
         f.run = stack[k].run, f.type = stack[k].type, f.depth = stack[k].depth,
         f.pc # "task", f.pc = "batch" => f.step < MaxSteps,
         runs' = runs, saved' = saved,
         disk' \in [Names -> Content \cup {Absent}], loaded' \in Versions \cup {None},
         loose' \in SUBSET Changes, lost' \in SUBSET Names
  PROVE  StackInv'
<1>1. stack # <<>>
  BY DEF StackInv, ValuesInv
<1>2. /\ Len(stack) \in Nat /\ DOMAIN stack = 1 .. Len(stack) /\ k \in Nat
      /\ \A i \in DOMAIN stack : Placed(i)
  BY <1>1, Tops
<1>3. ValuesInv'
  BY DEF ValuesInv, StackInv, Becomes
<1>4. ASSUME NEW i \in DOMAIN stack' PROVE Placed(i)'
  <2>1. i \in 1 .. k /\ i \in DOMAIN stack /\ Len(stack') = k
    BY <1>2 DEF Becomes
  <2>2. Placed(i) /\ (i > 1 => i - 1 \in 1 .. k - 1)
    BY <1>2, <2>1
  <2>3. i > 1 => stack'[i - 1] = stack[i - 1]
    BY <2>2 DEF Becomes
  <2>4. CASE i = k
    <3>1. stack'[i] = f /\ (i > 1 => stack'[i - 1].run = stack[i - 1].run)
      BY <2>3, <2>4 DEF Becomes
    <3>2. /\ stack[i].depth = i - 1 /\ i - 1 <= MaxTaskDepth
          /\ (stack[i].type = "caller") <=> (i = 1)
          /\ stack[i].run <= runs /\ (i > 1 => stack[i].run > stack[i - 1].run)
      BY <2>2 DEF Placed
    <3>. QED
      BY <1>2, <2>1, <2>4, <3>1, <3>2 DEF Placed
  <2>5. CASE i # k
    <3>1. stack'[i] = stack[i] /\ i < k
      BY <1>2, <2>1, <2>5 DEF Becomes
    <3>2. i < Len(stack)
      <4>1. i \in Int /\ k \in Int /\ k <= Len(stack) /\ Len(stack) \in Int
        BY <1>2, <2>1
      <4>. QED
        BY <3>1, <4>1
    <3>. QED
      BY <2>1, <2>2, <2>3, <3>1, <3>2 DEF Placed
  <2>. QED
    BY <2>4, <2>5
<1>. QED
  BY <1>3, <1>4 DEF StackInv

LEMMA NotesBecome ==
  ASSUME StackInv, NotesInv, NEW k \in DOMAIN stack, NEW f \in Frames, Becomes(k, f),
         Noted(f.state.todos, Author(f)), saved' = saved
  PROVE  NotesInv'
<1>1. k \in Nat /\ DOMAIN stack = 1 .. Len(stack) /\ Len(stack) \in Nat
  BY DEF StackInv, ValuesInv
<1>2. ASSUME NEW i \in DOMAIN stack' PROVE Noted(stack'[i].state.todos, Author(stack'[i]))
  <2>1. CASE i = k
    BY <2>1 DEF Becomes
  <2>2. CASE i # k
    <3>1. i \in DOMAIN stack /\ stack'[i] = stack[i]
      BY <1>1, <2>2 DEF Becomes
    <3>. QED
      BY <3>1 DEF NotesInv
  <2>. QED
    BY <2>1, <2>2
<1>3. saved' # None => Noted(saved'.todos, 0)
  BY DEF NotesInv
<1>. QED
  BY <1>2, <1>3 DEF NotesInv

\* The files that change without a record are lost.
LEMMA MirrorBecomes ==
  ASSUME StackInv, MirrorInv, stack # <<>>, NEW f \in Frames, Becomes(Len(stack), f),
         f.state.mirror = Top.state.mirror, f.touched = Top.touched,
         lost \subseteq lost', \A p \in Names \ lost' : disk'[p] = disk[p]
  PROVE  MirrorInv'
<1>1. PICK n : n = Len(stack)
  OBVIOUS
<1>2. n \in Nat \ {0} /\ DOMAIN stack = 1 .. n /\ DOMAIN stack' = 1 .. n /\ Top = stack[n]
  BY <1>1, Tops DEF Becomes
<1>3. ASSUME NEW i \in 1 .. n
      PROVE  /\ stack'[i].touched = stack[i].touched
             /\ stack'[i].state.mirror = stack[i].state.mirror
  <2>1. CASE i = n
    BY <1>1, <1>2, <2>1 DEF Becomes
  <2>2. CASE i # n
    <3>1. i \in 1 .. n - 1
      BY <1>2, <2>2
    <3>. QED
      BY <1>1, <3>1 DEF Becomes
  <2>. QED
    BY <2>1, <2>2
<1>4. \A i \in 1 .. n : \A p \in Names \ lost :
        \/ disk[p] = Recorded(stack[i].state, p)
        \/ \E j \in 1 .. n : j > i /\ p \in stack[j].touched
  BY <1>2 DEF MirrorInv
<1>5. \A i \in 1 .. n : \A p \in Names \ lost' :
        \/ disk'[p] = Recorded(stack'[i].state, p)
        \/ \E j \in 1 .. n : j > i /\ p \in stack'[j].touched
  <2>1. ASSUME NEW i \in 1 .. n, NEW p PROVE Recorded(stack'[i].state, p) = Recorded(stack[i].state, p)
    BY <1>3 DEF Recorded
  <2>. QED
    BY <1>3, <1>4, <2>1
<1>6. stack' # <<>>
  BY <1>2 DEF Becomes
<1>. QED
  BY <1>2, <1>5, <1>6 DEF MirrorInv, Recorded

\* The runs below the last have not changed, and they are at their tasks.
LEMMA ToolsBecome ==
  ASSUME StackInv, ToolsInv, NEW k \in DOMAIN stack, NEW f \in Frames, Becomes(k, f),
         f.pc # "before_run", f.state.tools # None,
         ~f.stale => f.state.tools = loaded'
  PROVE  ToolsInv'
<1>0. stack # <<>>
  BY DEF StackInv, ValuesInv
<1>1. PICK n : n = Len(stack)
  OBVIOUS
<1>2. n \in Nat /\ k \in 1 .. n /\ DOMAIN stack = 1 .. n
  BY <1>0, <1>1, Tops
<1>3. Len(stack') = k /\ DOMAIN stack' = 1 .. k /\ stack'[k] = f
  BY DEF Becomes
<1>4. ASSUME NEW i \in 1 .. k, i # k
      PROVE  /\ stack'[i] = stack[i] /\ stack[i].pc = "task" /\ stack[i].state.tools # None
  <2>1. i \in 1 .. k - 1 /\ i \in 1 .. n /\ i < n
    BY <1>2, <1>4
  <2>2. stack[i].pc = "task"
    BY <1>0, <1>1, <1>2, <2>1, Tops DEF Placed
  <2>3. stack[i].state.tools # None
    BY <1>2, <2>1, <2>2 DEF ToolsInv
  <2>. QED
    BY <2>1, <2>2, <2>3 DEF Becomes
<1>. QED
  BY <1>3, <1>4 DEF ToolsInv

\* A step that changes no file, no skill and no other run than the last.
LEMMA QuietStep ==
  ASSUME Inv, stack # <<>>, NEW f \in Frames, Becomes(Len(stack), f),
         f.run = Top.run, f.type = Top.type, f.depth = Top.depth, f.stale = Top.stale,
         f.state.mirror = Top.state.mirror, f.touched = Top.touched,
         f.state.tools = Top.state.tools, Noted(f.state.todos, Author(f)),
         Top.pc # "before_run", f.pc \in {"provider", "batch"},
         f.pc = "batch" => f.step < MaxSteps,
         UNCHANGED <<runs, saved, disk, loaded, loose, lost>>
  PROVE  Inv'
<1>1. /\ StackInv /\ NotesInv /\ MirrorInv /\ ToolsInv
      /\ Len(stack) \in DOMAIN stack /\ Top = stack[Len(stack)]
  BY Tops DEF Inv
<1>2. /\ disk' \in [Names -> Content \cup {Absent}] /\ loaded' \in Versions \cup {None}
      /\ loose' \in SUBSET Changes /\ lost' \in SUBSET Names
  BY <1>1 DEF StackInv, ValuesInv
<1>3. StackInv'
  BY <1>1, <1>2, StackBecomes
<1>4. NotesInv'
  BY <1>1, NotesBecome
<1>5. MirrorInv'
  BY <1>1, MirrorBecomes
<1>6. ToolsInv'
  <2>1. f.state.tools # None /\ (~f.stale => f.state.tools = loaded')
    BY <1>1 DEF ToolsInv
  <2>. QED
    BY <1>1, <2>1, ToolsBecome
<1>. QED
  BY <1>3, <1>4, <1>5, <1>6 DEF Inv

-----------------------------------------------------------------------------
(* The steps that stay within a run. *)

\* A frame that differs from the last in what its own step needs.
Alike(f) ==
  /\ f.run = Top.run /\ f.type = Top.type /\ f.depth = Top.depth /\ f.stale = Top.stale
  /\ f.state = Top.state /\ f.touched = Top.touched

LEMMA AlikeStep ==
  ASSUME Inv, stack # <<>>, NEW f \in Frames, Becomes(Len(stack), f), Alike(f),
         Top.pc # "before_run", f.pc \in {"provider", "batch"},
         f.pc = "batch" => f.step < MaxSteps,
         UNCHANGED <<runs, saved, disk, loaded, loose, lost>>
  PROVE  Inv'
<1>1. Noted(Top.state.todos, Author(Top))
  BY Tops DEF Inv, NotesInv
<1>2. Author(f) = Author(Top)
  BY DEF Author, Alike
<1>. QED
  BY <1>1, <1>2, QuietStep DEF Alike

\* The next call is taken from the batch of a run within its steps.
LEMMA CallTaken ==
  ASSUME StackInv, At("batch"), Top.batch # <<>>
  PROVE  /\ stack # <<>> /\ Top.pc = "batch" /\ Top.step < MaxSteps
         /\ Call \in Calls
         /\ Answered \in Frames /\ Alike(Answered) /\ Answered.pc = "batch"
         /\ Answered.step = Top.step
<1>1. /\ stack # <<>> /\ Top.pc = "batch" /\ Top \in Frames
      /\ Top = stack[Len(stack)] /\ Placed(Len(stack))
  BY Tops DEF At
<1>2. Top.step < MaxSteps
  BY <1>1 DEF Placed
<1>3. Top.batch \in Seq(Calls) /\ Head(Top.batch) \in Calls /\ Tail(Top.batch) \in Seq(Calls)
  <2>1. Top.batch \in Seq(Calls)
    BY <1>1 DEF Frames
  <2>. QED
    BY <2>1
<1>4. Answered \in Frames
  <2>1. Top.nextId + 1 \in Nat \ {0}
    BY <1>1 DEF Frames
  <2>. QED
    BY <1>1, <1>3, <2>1 DEF Answered, Frames
<1>5. Alike(Answered) /\ Answered.pc = "batch" /\ Answered.step = Top.step
  BY <1>1 DEF Answered, Frames, Alike
<1>. QED
  BY <1>1, <1>2, <1>3, <1>4, <1>5 DEF Call

LEMMA ProviderQuiet ==
  ASSUME Inv, ContextOverflow \/ AssistantText \/ (\E batch \in Batches : ToolCalls(batch))
  PROVE  Inv'
<1>0. /\ StackInv /\ stack # <<>> /\ Top.pc = "provider" /\ Top.step < MaxSteps
      /\ UNCHANGED <<runs, saved, disk, loaded, loose, lost>>
  BY DEF Inv, InStep, At, ContextOverflow, AssistantText, ToolCalls
<1>1. Top \in Frames /\ Top.step \in Nat /\ MaxSteps \in Nat
  BY <1>0, Tops, DepthAssumption DEF Frames
<1>2. ASSUME ContextOverflow PROVE Inv'
  <2>1. PICK f : f = [Top EXCEPT !.retried = TRUE]
    OBVIOUS
  <2>2. f \in Frames /\ Alike(f) /\ f.pc = "provider"
    BY <1>0, <1>1, <2>1 DEF Frames, Alike
  <2>3. Becomes(Len(stack), f)
    BY <1>0, <1>2, <2>1, <2>2, WithBecomes DEF ContextOverflow
  <2>. QED
    BY <1>0, <2>2, <2>3, AlikeStep
<1>3. ASSUME AssistantText PROVE Inv'
  <2>1. PICK f : f = [Top EXCEPT !.step = @ + 1, !.retried = FALSE]
    OBVIOUS
  <2>2. f \in Frames /\ Alike(f) /\ f.pc = "provider"
    <3>1. Top.step + 1 \in 0 .. MaxSteps
      BY <1>0, <1>1
    <3>. QED
      BY <1>0, <1>1, <2>1, <3>1 DEF Frames, Alike
  <2>3. Becomes(Len(stack), f)
    BY <1>0, <1>3, <2>1, <2>2, WithBecomes DEF AssistantText
  <2>. QED
    BY <1>0, <2>2, <2>3, AlikeStep
<1>4. ASSUME NEW batch \in Batches, ToolCalls(batch) PROVE Inv'
  <2>1. PICK f : f = [Top EXCEPT !.pc = "batch", !.batch = batch, !.retried = FALSE,
                                 !.clash = ParallelTodos(batch)]
    OBVIOUS
  <2>2. batch \in Seq(Calls) /\ ParallelTodos(batch) \in BOOLEAN
    BY BatchesAssumption DEF ParallelTodos
  <2>3. f \in Frames
    <3>. HIDE DEF ParallelTodos
    <3>. QED
      BY <1>1, <2>1, <2>2 DEF Frames
  <2>4. Alike(f) /\ f.pc = "batch" /\ f.step = Top.step
    BY <1>1, <2>1 DEF Frames, Alike
  <2>5. Becomes(Len(stack), f)
    BY <1>0, <1>4, <2>1, <2>3, WithBecomes DEF ToolCalls
  <2>. QED
    BY <1>0, <2>3, <2>4, <2>5, AlikeStep
<1>. QED
  BY <1>2, <1>3, <1>4

LEMMA BatchQuiet ==
  ASSUME Inv, BatchDone \/ RefuseCall \/ RefuseTask
  PROVE  Inv'
<1>0. StackInv /\ UNCHANGED <<runs, saved, disk, loaded, loose, lost>>
  BY DEF Inv, BatchDone, RefuseCall, RefuseTask
<1>1. ASSUME BatchDone PROVE Inv'
  <2>1. /\ stack # <<>> /\ Top.pc = "batch" /\ Top \in Frames
        /\ Top = stack[Len(stack)] /\ Placed(Len(stack))
    BY <1>0, <1>1, Tops DEF BatchDone, At
  <2>2. Top.step < MaxSteps /\ Top.step \in Nat /\ MaxSteps \in Nat
    BY <2>1, DepthAssumption DEF Placed, Frames
  <2>3. PICK f : f = [Top EXCEPT !.pc = "provider", !.step = @ + 1]
    OBVIOUS
  <2>4. f \in Frames /\ Alike(f) /\ f.pc = "provider"
    <3>1. Top.step + 1 \in 0 .. MaxSteps
      BY <2>2
    <3>. QED
      BY <2>1, <2>3, <3>1 DEF Frames, Alike
  <2>5. Becomes(Len(stack), f)
    BY <1>0, <1>1, <2>1, <2>3, <2>4, WithBecomes DEF BatchDone
  <2>. QED
    BY <1>0, <2>1, <2>4, <2>5, AlikeStep
<1>2. ASSUME RefuseCall \/ RefuseTask PROVE Inv'
  <2>1. At("batch") /\ Top.batch # <<>> /\ stack' = With(Answered)
    BY <1>2 DEF RefuseCall, RefuseTask, Takes
  <2>2. Becomes(Len(stack), Answered)
    BY <1>0, <2>1, CallTaken, WithBecomes
  <2>. QED
    BY <1>0, <2>1, <2>2, CallTaken, AlikeStep
<1>. QED
  BY <1>1, <1>2

\* The run notes what it does on its own list.
LEMMA WriteTodosStep ==
  ASSUME Inv, WriteTodos
  PROVE  Inv'
<1>0. /\ StackInv /\ NotesInv /\ At("batch") /\ Top.batch # <<>>
      /\ Call.valid /\ Call.tool = "write_todos"
      /\ UNCHANGED <<runs, saved, disk, loaded, loose, lost>>
  BY DEF Inv, WriteTodos, Takes, Refused
<1>1. PICK g, by, todos : /\ g = Answered /\ by = Author(Top)
                          /\ todos = AfterWriteTodos(Top.state.todos, Call.arg, by)
  OBVIOUS
<1>2. /\ stack # <<>> /\ Call \in Calls /\ g \in Frames /\ Alike(g) /\ g.pc = "batch"
      /\ g.step < MaxSteps
  BY <1>0, <1>1, CallTaken
<1>3. Top \in Frames /\ Top = stack[Len(stack)] /\ Len(stack) \in DOMAIN stack
  BY <1>0, <1>2, Tops
<1>4. /\ Top.state \in AgentState /\ Top.state.todos \in Seq(TodoItem)
      /\ by \in Nat
  BY <1>1, <1>3 DEF Frames, AgentState, Author
<1>5. Noted(Top.state.todos, by)
  BY <1>0, <1>1, <1>3 DEF NotesInv
<1>6. todos \in Seq(TodoItem) /\ Noted(todos, by)
  BY <1>0, <1>1, <1>2, <1>4, <1>5, BatchesAssumption, WriteGood DEF Good
<1>7. PICK f : f = [g EXCEPT !.state.todos = todos]
  OBVIOUS
<1>8. stack' = With(f)
  <2>1. f = [Answered EXCEPT !.state.todos = AfterWriteTodos(@, Call.arg, Author(Top))]
    BY <1>1, <1>2, <1>7 DEF Alike
  <2>. QED
    BY <2>1 DEF WriteTodos
<1>9. PICK state : state = [Top.state EXCEPT !.todos = todos]
  OBVIOUS
<1>10. /\ state \in AgentState /\ state.todos = todos
       /\ state.mirror = Top.state.mirror /\ state.tools = Top.state.tools
  BY <1>4, <1>6, <1>9 DEF AgentState
<1>11. f = [g EXCEPT !.state = state]
  BY <1>2, <1>7, <1>9 DEF Alike
<1>12. /\ f \in Frames /\ f.state = state /\ f.run = g.run /\ f.type = g.type /\ f.depth = g.depth
       /\ f.stale = g.stale /\ f.touched = g.touched /\ f.pc = g.pc /\ f.step = g.step
  BY <1>2, <1>10, <1>11 DEF Frames
<1>13. Author(f) = by
  BY <1>1, <1>2, <1>12 DEF Author, Alike
<1>14. Becomes(Len(stack), f)
  BY <1>0, <1>2, <1>8, <1>12, WithBecomes
<1>15. /\ f.run = Top.run /\ f.type = Top.type /\ f.depth = Top.depth /\ f.stale = Top.stale
       /\ f.state.mirror = Top.state.mirror /\ f.touched = Top.touched
       /\ f.state.tools = Top.state.tools /\ Noted(f.state.todos, Author(f))
       /\ f.pc = "batch" /\ f.step < MaxSteps
  BY <1>2, <1>6, <1>10, <1>12, <1>13 DEF Alike
<1>16. Top.pc # "before_run"
  BY <1>0 DEF At
<1>. QED
  BY <1>0, <1>2, <1>12, <1>14, <1>15, <1>16, QuietStep

-----------------------------------------------------------------------------
(* Changes of files. *)

LEMMA ChangeStep ==
  ASSUME Inv, At("batch"), Top.batch # <<>>,
         NEW paths \in SUBSET Names, NEW recorded \in SUBSET paths,
         NEW content \in Content \cup {Absent}, Change(paths, recorded, content),
         loose' \in SUBSET Changes
  PROVE  Inv'
<1>0. /\ StackInv /\ NotesInv /\ MirrorInv /\ ToolsInv /\ ValuesInv
      /\ UNCHANGED <<runs, saved, loaded>>
      /\ disk' = [p \in Names |-> IF p \in paths THEN content ELSE disk[p]]
      /\ lost' = (lost \ recorded) \cup (paths \ recorded)
  BY DEF Inv, StackInv, Change
<1>1. PICK g, n : g = Answered /\ n = Len(stack)
  OBVIOUS
<1>2. /\ stack # <<>> /\ g \in Frames /\ Alike(g) /\ g.pc = "batch" /\ g.step < MaxSteps
  BY <1>0, <1>1, CallTaken
<1>3. /\ n \in Nat \ {0} /\ DOMAIN stack = 1 .. n /\ n \in DOMAIN stack
      /\ Top = stack[n] /\ Top \in Frames
      /\ \A i \in DOMAIN stack : stack[i] \in Frames
  BY <1>0, <1>1, <1>2, Tops
<1>4. PICK mirror, state, f :
        /\ mirror = [p \in Names |-> IF p \in recorded THEN content ELSE Top.state.mirror[p]]
        /\ state = [Top.state EXCEPT !.mirror = mirror]
        /\ f = [g EXCEPT !.touched = @ \cup paths, !.state = state]
  OBVIOUS
<1>5. stack' = With(f)
  <2>1. f = [Answered EXCEPT
       !.touched = @ \cup paths,
       !.state.mirror = [p \in Names |-> IF p \in recorded THEN content ELSE @[p]]]
    BY <1>1, <1>2, <1>4 DEF Alike, Frames
  <2>. QED
    BY <2>1 DEF Change
<1>6. /\ Top.state \in AgentState /\ Top.touched \in SUBSET Names
  BY <1>3 DEF Frames
<1>7. /\ Top.state.mirror \in [Names -> Content \cup {Absent, NoRecord}]
  BY <1>6 DEF AgentState
<1>8. mirror \in [Names -> Content \cup {Absent, NoRecord}]
  BY <1>4, <1>7
<1>9. /\ state \in AgentState /\ state.mirror = mirror /\ state.tools = Top.state.tools
      /\ state.todos = Top.state.todos
  BY <1>4, <1>6, <1>8 DEF AgentState
<1>10. /\ f \in Frames /\ f.state = state /\ f.run = Top.run /\ f.type = Top.type
       /\ f.depth = Top.depth /\ f.stale = Top.stale /\ f.touched = Top.touched \cup paths
       /\ f.pc = "batch" /\ f.step < MaxSteps
  BY <1>2, <1>4, <1>6, <1>9 DEF Frames, Alike
<1>11. Becomes(n, f)
  BY <1>0, <1>1, <1>2, <1>5, <1>10, WithBecomes
<1>12. StackInv'
  <2>1. /\ disk' \in [Names -> Content \cup {Absent}] /\ loaded' \in Versions \cup {None}
        /\ loose' \in SUBSET Changes /\ lost' \in SUBSET Names
    BY <1>0 DEF ValuesInv
  <2>. QED
    BY <1>0, <1>3, <1>10, <1>11, <2>1, StackBecomes
<1>13. NotesInv'
  <2>1. Noted(f.state.todos, Author(f))
    BY <1>0, <1>3, <1>9, <1>10 DEF NotesInv, Author
  <2>. QED
    BY <1>0, <1>3, <1>10, <1>11, <2>1, NotesBecome
<1>14. ToolsInv'
  <2>1. f.state.tools # None /\ (~f.stale => f.state.tools = loaded')
    BY <1>0, <1>1, <1>3, <1>9, <1>10 DEF ToolsInv, At
  <2>. QED
    BY <1>0, <1>3, <1>10, <1>11, <2>1, ToolsBecome
<1>15. MirrorInv'
  <2>1. stack' # <<>> /\ DOMAIN stack' = 1 .. n
    BY <1>3, <1>11 DEF Becomes
  <2>2. ASSUME NEW i \in 1 .. n
        PROVE  stack[i].touched \subseteq stack'[i].touched /\ stack'[n] = f
               /\ (i # n => stack'[i] = stack[i])
    <3>1. i # n => i \in 1 .. n - 1
      BY <1>3
    <3>. QED
      BY <1>3, <1>10, <1>11, <3>1 DEF Becomes
  <2>3. ASSUME NEW i \in 1 .. n, NEW p \in Names \ lost', p \notin paths
        PROVE  \/ disk'[p] = Recorded(stack'[i].state, p)
               \/ \E j \in 1 .. n : j > i /\ p \in stack'[j].touched
    <3>1. disk'[p] = disk[p] /\ p \notin lost
      BY <1>0, <2>3
    <3>2. Recorded(stack'[i].state, p) = Recorded(stack[i].state, p)
      <4>1. CASE i = n
        <5>1. mirror[p] = stack[n].state.mirror[p]
          BY <1>3, <1>4, <2>3
        <5>. QED
          BY <1>9, <1>10, <2>2, <4>1, <5>1 DEF Recorded
      <4>2. CASE i # n
        BY <2>2, <4>2 DEF Recorded
      <4>. QED
        BY <4>1, <4>2
    <3>3. \/ disk[p] = Recorded(stack[i].state, p)
          \/ \E j \in 1 .. n : j > i /\ p \in stack[j].touched
      BY <1>0, <1>3, <3>1 DEF MirrorInv
    <3>. QED
      BY <2>2, <3>1, <3>2, <3>3
  <2>4. ASSUME NEW i \in 1 .. n, NEW p \in Names \ lost', p \in paths
        PROVE  \/ disk'[p] = Recorded(stack'[i].state, p)
               \/ \E j \in 1 .. n : j > i /\ p \in stack'[j].touched
    <3>1. disk'[p] = content /\ p \in recorded
      BY <1>0, <2>4
    <3>2. CASE i = n
      <4>1. mirror[p] = content /\ content # NoRecord
        BY <1>4, <3>1, FilesAssumption DEF Content
      <4>. QED
        BY <1>9, <1>10, <2>2, <3>1, <3>2, <4>1 DEF Recorded
    <3>3. CASE i # n
      <4>1. n \in 1 .. n /\ n > i
        BY <1>3, <3>3
      <4>2. p \in stack'[n].touched
        BY <1>10, <2>2, <2>4
      <4>. QED
        BY <4>1, <4>2
    <3>. QED
      BY <3>2, <3>3
  <2>. QED
    BY <2>1, <2>3, <2>4 DEF MirrorInv, Recorded
<1>. QED
  BY <1>12, <1>13, <1>14, <1>15 DEF Inv

\* The steps of a skill up to one that is refused.
SkillEnd(steps) ==
  CHOOSE n \in 0 .. Len(steps) :
    /\ \A i \in 1 .. n : steps[i] # Refusal
    /\ n < Len(steps) => steps[n + 1] = Refusal

LEMMA SkillEndNames ==
  ASSUME NEW steps \in Seq(Names \cup {Refusal})
  PROVE  /\ SkillEnd(steps) \in 0 .. Len(steps)
         /\ \A i \in 1 .. SkillEnd(steps) : steps[i] \in Names
<1>. DEFINE N == Len(steps)
            S == {n \in 0 .. N : n = N \/ steps[n + 1] = Refusal}
<1>0. N \in Nat /\ \A i \in 1 .. N : steps[i] \in Names \cup {Refusal}
  OBVIOUS
<1>1. \E n \in 0 .. N : /\ \A i \in 1 .. n : steps[i] # Refusal
                        /\ n < N => steps[n + 1] = Refusal
  <2>1. S \in SUBSET Nat /\ N \in S
    BY <1>0
  <2>2. PICK n \in S : \A m \in S : n <= m
    <3>. HIDE DEF S
    <3>. QED
      BY <2>1, LeastNumber
  <2>3. ASSUME NEW i \in 1 .. n PROVE steps[i] # Refusal
    <3>1. i - 1 \in 0 .. N /\ i - 1 # N /\ i - 1 < n /\ (i - 1) + 1 = i
      BY <1>0, <2>2
    <3>2. i - 1 \notin S
      <4>1. ASSUME i - 1 \in S PROVE FALSE
        <5>1. n <= i - 1
          BY <2>2, <4>1
        <5>2. n \in Int /\ i \in Int
          BY <1>0, <2>2
        <5>. QED
          BY <3>1, <5>1, <5>2
      <4>. QED
        BY <4>1
    <3>. QED
      BY <3>1, <3>2
  <2>. QED
    BY <1>0, <2>2, <2>3
<1>2. PICK end : end = SkillEnd(steps)
  OBVIOUS
<1>3. end \in 0 .. N /\ \A i \in 1 .. end : steps[i] # Refusal
  BY <1>1, <1>2 DEF SkillEnd
<1>4. \A i \in 1 .. end : i \in 1 .. N
  BY <1>0, <1>3
<1>. QED
  BY <1>0, <1>2, <1>3, <1>4

LEMMA FilesStep ==
  ASSUME Inv, WriteFile \/ DeleteFile \/ RunSkill
  PROVE  Inv'
<1>0. /\ At("batch") /\ Top.batch # <<>> /\ StackInv /\ stack # <<>>
      /\ loose \in SUBSET Changes
  BY DEF WriteFile, DeleteFile, RunSkill, Takes, At, Inv, StackInv, ValuesInv
<1>1. Top.run \in Content
  BY <1>0, Tops DEF Frames, Content
<1>2. ASSUME WriteFile PROVE Inv'
  <2>1. PICK new, done, recorded :
           /\ new = {Call.arg} \cap {p \in Names : disk[p] = Absent}
           /\ done \in {{}, new} /\ recorded \subseteq done
           /\ Change(done, recorded, Top.run) /\ loose' = loose
    BY <1>2 DEF WriteFile
  <2>2. done \in SUBSET Names
    BY <2>1
  <2>. QED
    BY <1>0, <1>1, <2>1, <2>2, ChangeStep
<1>3. ASSUME DeleteFile PROVE Inv'
  <2>1. PICK old, done : /\ old = {Call.arg} \cap {p \in Names : disk[p] # Absent}
                         /\ done \in {{}, old}
                         /\ Change(done, done, Absent) /\ loose' = loose
    BY <1>3 DEF DeleteFile
  <2>2. done \in SUBSET Names
    BY <2>1
  <2>. QED
    BY <1>0, <2>1, <2>2, ChangeStep
<1>4. ASSUME RunSkill PROVE Inv'
  <2>. DEFINE steps == SkillSteps[loaded]
              made(n) == {p \in {steps[i] : i \in 1 .. n} : disk[p] = Absent}
              left(n) == [file : made(n) \ made(n - 1), content : {Top.run}]
  <2>1. steps \in Seq(Names \cup {Refusal})
    BY <1>4, SkillsAssumption DEF RunSkill, HasSkill
  <2>2. PICK n \in 0 .. SkillEnd(steps) :
          \/ Change(made(n), made(n), Top.run) /\ loose' = loose
          \/ n > 0 /\ Change(made(n), made(n - 1), Top.run) /\ loose' = loose
          \/ n > 0 /\ Change(made(n - 1), made(n - 1), Top.run) /\ loose' = loose \cup left(n)
    BY <1>4 DEF RunSkill, SkillEnd
  <2>3. SkillEnd(steps) \in Nat /\ \A i \in 1 .. SkillEnd(steps) : steps[i] \in Names
    <3>1. Len(steps) \in Nat
      BY <2>1
    <3>. QED
      BY <2>1, <3>1, SkillEndNames
  <2>. HIDE DEF steps
  <2>4. \A i \in 1 .. n : i \in 1 .. SkillEnd(steps) /\ steps[i] \in Names
    BY <2>3
  <2>5. made(n) \in SUBSET Names
    BY <2>4
  <2>6. n > 0 => made(n - 1) \in SUBSET made(n)
    <3>1. n > 0 => \A i \in 1 .. n - 1 : i \in 1 .. n
      BY <2>3
    <3>. QED
      BY <3>1
  <2>. HIDE DEF made
  <2>7. left(n) \in SUBSET Changes
    BY <1>1, <2>5 DEF Changes
  <2>. HIDE DEF left
  <2>8. PICK all, recorded : /\ all \in SUBSET Names /\ recorded \in SUBSET all
                             /\ Change(all, recorded, Top.run)
    BY <2>2, <2>5, <2>6
  <2>9. loose' \in SUBSET Changes
    BY <1>0, <2>2, <2>7
  <2>. QED
    BY <1>0, <1>1, <2>8, <2>9, ChangeStep
<1>. QED
  BY <1>2, <1>3, <1>4

\* A command changes files without a record, and its call is answered.
LEMMA CommandStep ==
  ASSUME Inv, Execute
  PROVE  Inv'
<1>0. /\ StackInv /\ NotesInv /\ MirrorInv /\ ToolsInv /\ ValuesInv
      /\ At("batch") /\ Top.batch # <<>> /\ UNCHANGED <<runs, saved, loaded>>
  BY DEF Inv, StackInv, Execute, Takes
<1>1. PICK f : /\ f = Answered \/ f = [Answered EXCEPT !.ref = Top.nextId]
               /\ stack' = Append(SubSeq(stack, 1, Len(stack) - 1), f)
  BY DEF Execute, Answer
<1>2. /\ stack # <<>> /\ Top.pc = "batch" /\ Top = stack[Len(stack)] /\ Top \in Frames
      /\ Len(stack) \in DOMAIN stack /\ Len(stack) \in 1 .. Len(stack)
  BY <1>0, CallTaken, Tops
<1>3. f \in Frames /\ Alike(f) /\ f.pc = "batch" /\ f.step < MaxSteps
  <2>1. PICK g : g = Answered
    OBVIOUS
  <2>2. g \in Frames /\ Alike(g) /\ g.pc = "batch" /\ g.step < MaxSteps
    BY <1>0, <2>1, CallTaken
  <2>3. f = g \/ f = [g EXCEPT !.ref = Top.nextId]
    BY <1>1, <2>1
  <2>4. Top.nextId \in Nat
    BY <1>2 DEF Frames
  <2>. QED
    BY <2>2, <2>3, <2>4 DEF Frames, Alike
<1>4. Becomes(Len(stack), f)
  BY <1>0, <1>1, <1>2, <1>3, AppendBecomes
<1>5. /\ disk' \in [Names -> Content \cup {Absent}]
      /\ loose' \in SUBSET Changes /\ lost' \in SUBSET Names
      /\ lost \subseteq lost' /\ \A p \in Names \ lost' : disk'[p] = disk[p]
  <2>1. CASE Command
    <3>1. PICK command \in Commands :
            LET touched    == command.made \cup command.removed
                now        == touched \ command.later
                content(p) == IF p \in command.made THEN Top.run ELSE Absent
            IN  /\ disk' = [p \in Names |-> IF p \in now THEN content(p) ELSE disk[p]]
                /\ lost' = lost \cup now
                /\ loose' = loose \cup
                     {[file |-> p, content |-> content(p)] : p \in touched \ now}
      BY <2>1, Zenon DEF Command
    <3>. DEFINE touched == command.made \cup command.removed
                now     == touched \ command.later
    <3>2. touched \in SUBSET Names /\ now \in SUBSET Names
      BY <3>1, CommandsAssumption
    <3>3. Top.run \in Content
      BY <1>2 DEF Frames, Content
    <3>4. \A p \in touched :
            [file |-> p, content |-> IF p \in command.made THEN Top.run ELSE Absent] \in Changes
      BY <3>2, <3>3 DEF Changes
    <3>5. loose' \in SUBSET Changes
      BY <1>0, <3>1, <3>4 DEF ValuesInv
    <3>. QED
      BY <1>0, <3>1, <3>2, <3>3, <3>5 DEF ValuesInv
  <2>2. CASE UNCHANGED <<disk, loose, lost>>
    BY <1>0, <2>2 DEF ValuesInv
  <2>. QED
    BY <2>1, <2>2 DEF Execute
<1>6. StackInv'
  <2>1. loaded' \in Versions \cup {None}
    BY <1>0 DEF ValuesInv
  <2>. QED
    BY <1>0, <1>2, <1>3, <1>4, <1>5, <2>1, StackBecomes DEF Alike
<1>7. NotesInv'
  <2>1. Noted(f.state.todos, Author(f))
    BY <1>0, <1>2, <1>3 DEF NotesInv, Author, Alike
  <2>. QED
    BY <1>0, <1>2, <1>3, <1>4, <2>1, NotesBecome
<1>8. MirrorInv'
  BY <1>0, <1>2, <1>3, <1>4, <1>5, MirrorBecomes DEF Alike
<1>9. ToolsInv'
  <2>1. f.state.tools # None /\ (~f.stale => f.state.tools = loaded')
    BY <1>0, <1>2, <1>3 DEF ToolsInv, Alike
  <2>. QED
    BY <1>0, <1>2, <1>3, <1>4, <2>1, ToolsBecome
<1>. QED
  BY <1>6, <1>7, <1>8, <1>9 DEF Inv

\* What was left behind is lost when it is done.
LEMMA LateChangeStep ==
  ASSUME Inv, NEW change \in loose, LateChange(change)
  PROVE  Inv'
<1>0. /\ StackInv /\ NotesInv /\ MirrorInv /\ ToolsInv /\ ValuesInv
      /\ UNCHANGED <<stack, runs, saved, loaded>> /\ loose' = loose \ {change}
      /\ disk' = [disk EXCEPT ![change.file] = change.content]
      /\ lost' = lost \cup {change.file}
  BY DEF Inv, StackInv, LateChange
<1>1. change.file \in Names /\ change.content \in Content \cup {Absent}
  BY <1>0 DEF ValuesInv, Changes
<1>2. ValuesInv'
  BY <1>0, <1>1 DEF ValuesInv
<1>3. StackInv'
  BY <1>0, <1>2 DEF StackInv, Placed
<1>4. NotesInv'
  BY <1>0 DEF NotesInv
<1>5. MirrorInv'
  <2>1. \A p \in Names \ lost' : disk'[p] = disk[p] /\ p \in Names \ lost
    BY <1>0, <1>1 DEF ValuesInv
  <2>. QED
    BY <1>0, <2>1 DEF MirrorInv, Returned, Recorded
<1>6. ToolsInv'
  BY <1>0 DEF ToolsInv
<1>. QED
  BY <1>3, <1>4, <1>5, <1>6 DEF Inv

-----------------------------------------------------------------------------
(* Runs that begin. *)

LEMMA BeforeRunStep ==
  ASSUME Inv, BeforeRun
  PROVE  Inv'
<1>0. /\ StackInv /\ NotesInv /\ MirrorInv /\ ToolsInv /\ ValuesInv
      /\ stack # <<>> /\ Top.pc = "before_run" /\ UNCHANGED <<runs, saved, disk, loose, lost>>
  BY DEF Inv, StackInv, BeforeRun, At
<1>1. PICK n : n = Len(stack)
  OBVIOUS
<1>2. n \in Nat \ {0} /\ n \in DOMAIN stack /\ Top = stack[n] /\ Top \in Frames
  BY <1>0, <1>1, Tops
<1>3. Top.state \in AgentState /\ Top.state.tools \in Versions \cup {None}
  BY <1>2 DEF Frames, AgentState
<1>4. PICK version \in IF MustLoad(Top.state) THEN Versions ELSE {Top.state.tools} :
        /\ loaded' = version
        /\ stack' = With([Top EXCEPT
              !.pc = "provider", !.stale = FALSE, !.state.tools = version,
              !.state.meta = IF MustLoad(Top.state) THEN version ELSE @])
  BY DEF BeforeRun
<1>5. version \in Versions /\ version # None
  BY <1>3, <1>4, SkillsAssumption DEF MustLoad
<1>6. PICK meta, state, f :
        /\ meta = IF MustLoad(Top.state) THEN version ELSE Top.state.meta
        /\ state = [Top.state EXCEPT !.tools = version, !.meta = meta]
        /\ f = [Top EXCEPT !.pc = "provider", !.stale = FALSE, !.state = state]
  OBVIOUS
<1>7. meta \in Versions \cup {None}
  BY <1>3, <1>5, <1>6 DEF AgentState
<1>8. /\ state \in AgentState /\ state.tools = version /\ state.mirror = Top.state.mirror
      /\ state.todos = Top.state.todos
  BY <1>3, <1>5, <1>6, <1>7 DEF AgentState
<1>9. stack' = With(f)
  <2>1. f = [Top EXCEPT
              !.pc = "provider", !.stale = FALSE, !.state.tools = version,
              !.state.meta = IF MustLoad(Top.state) THEN version ELSE @]
    BY <1>2, <1>3, <1>6 DEF Frames, AgentState
  <2>. QED
    BY <1>4, <2>1
<1>10. /\ f \in Frames /\ f.state = state /\ f.run = Top.run /\ f.type = Top.type
       /\ f.depth = Top.depth /\ f.stale = FALSE /\ f.touched = Top.touched /\ f.pc = "provider"
  BY <1>2, <1>6, <1>8 DEF Frames
<1>11. Becomes(n, f)
  BY <1>0, <1>1, <1>9, <1>10, WithBecomes
<1>12. StackInv'
  <2>1. /\ disk' \in [Names -> Content \cup {Absent}] /\ loaded' \in Versions \cup {None}
        /\ loose' \in SUBSET Changes /\ lost' \in SUBSET Names
    BY <1>0, <1>4, <1>5 DEF ValuesInv
  <2>. QED
    BY <1>0, <1>2, <1>10, <1>11, <2>1, StackBecomes
<1>13. NotesInv'
  <2>1. Noted(f.state.todos, Author(f))
    BY <1>0, <1>2, <1>8, <1>10 DEF NotesInv, Author
  <2>. QED
    BY <1>0, <1>2, <1>10, <1>11, <2>1, NotesBecome
<1>14. MirrorInv'
  BY <1>0, <1>1, <1>8, <1>10, <1>11, MirrorBecomes
<1>15. ToolsInv'
  BY <1>0, <1>2, <1>4, <1>5, <1>8, <1>10, <1>11, ToolsBecome
<1>. QED
  BY <1>12, <1>13, <1>14, <1>15 DEF Inv

\* A frame for a run that is yet to load its skills.
LEMMA NewFrameOf ==
  ASSUME runs \in 0 .. MaxRuns, runs < MaxRuns, NEW type \in Types \cup {"caller"},
         NEW depth \in Nat, NEW state \in AgentState, NEW stale \in BOOLEAN,
         NEW f, f = NewFrame(type, depth, state, stale)
  PROVE  /\ f \in Frames /\ f.run = runs + 1 /\ f.type = type /\ f.depth = depth
         /\ f.state = state /\ f.pc = "before_run" /\ f.step = 0
         /\ f.touched = {} /\ f.stale = stale
<1>1. runs + 1 \in 1 .. MaxRuns /\ 0 \in 0 .. MaxSteps /\ 1 \in Nat \ {0}
  BY DepthAssumption
<1>2. <<>> \in Seq(Calls)
  OBVIOUS
<1>. QED
  BY <1>1, <1>2 DEF NewFrame, Frames

LEMMA StartRunStep ==
  ASSUME Inv, StartRun
  PROVE  Inv'
<1>0. /\ NotesInv /\ MirrorInv /\ ValuesInv
      /\ stack = <<>> /\ runs \in 0 .. MaxRuns /\ runs < MaxRuns
      /\ runs' = runs + 1 /\ loaded' = None /\ UNCHANGED <<saved, disk, loose, lost>>
  BY DEF Inv, StackInv, ValuesInv, StartRun
<1>1. Returned \in AgentState /\ Noted(Returned.todos, 0)
  <2>1. DefaultState \in AgentState /\ DefaultState.todos = <<>>
    BY DEF DefaultState, AgentState
  <2>2. Noted(<<>>, 0)
    BY DEF Noted
  <2>. QED
    BY <1>0, <2>1, <2>2 DEF ValuesInv, NotesInv, Returned
<1>2. PICK f : f = NewFrame("caller", 0, Returned, FALSE)
  OBVIOUS
<1>3. /\ f \in Frames /\ f.run = runs + 1 /\ f.type = "caller" /\ f.depth = 0
      /\ f.state = Returned /\ f.pc = "before_run" /\ f.step = 0
  <2>2. PICK type, depth, stale : type = "caller" /\ depth = 0 /\ stale = FALSE
    OBVIOUS
  <2>3. PICK state : state = Returned
    OBVIOUS
  <2>4. /\ f = NewFrame(type, depth, state, stale) /\ type \in Types \cup {"caller"}
        /\ depth \in Nat /\ stale \in BOOLEAN /\ state \in AgentState
    BY <1>1, <1>2, <2>2, <2>3
  <2>5. /\ f \in Frames /\ f.run = runs + 1 /\ f.type = type /\ f.depth = depth
        /\ f.state = state /\ f.pc = "before_run" /\ f.step = 0
    <3>1. runs \in 0 .. MaxRuns /\ runs < MaxRuns
      BY <1>0
    <3>. QED
      BY ONLY <2>4, <3>1, NewFrameOf
  <2>. QED
    BY <2>2, <2>3, <2>5
<1>4. stack' = <<f>>
  BY <1>2 DEF StartRun, Returned
<1>5. /\ stack' \in Seq(Frames) /\ Len(stack') = 1 /\ DOMAIN stack' = {1} /\ stack'[1] = f
      /\ stack' # <<>>
  BY <1>3, <1>4
<1>6. StackInv'
  <2>1. runs + 1 \in 0 .. MaxRuns
    BY <1>0, DepthAssumption
  <2>2. ValuesInv'
    BY <1>0, <1>5, <2>1 DEF ValuesInv
  <2>3. Placed(1)'
    <3>1. runs \in Nat /\ 0 <= MaxTaskDepth
      BY <1>0, DepthAssumption
    <3>. QED
      BY <1>0, <1>3, <1>5, <3>1 DEF Placed
  <2>. QED
    BY <1>5, <2>2, <2>3 DEF StackInv
<1>7. NotesInv'
  BY <1>0, <1>1, <1>3, <1>5 DEF NotesInv, Author
<1>8. MirrorInv'
  BY <1>0, <1>3, <1>5 DEF MirrorInv, Recorded
<1>9. ToolsInv'
  BY <1>3, <1>5 DEF ToolsInv
<1>. QED
  BY <1>6, <1>7, <1>8, <1>9 DEF Inv

\* A task starts from its parent's files and skills, and from no todos.
LEMMA StartTaskStep ==
  ASSUME Inv, StartTask
  PROVE  Inv'
<1>0. /\ StackInv /\ NotesInv /\ MirrorInv /\ ToolsInv /\ ValuesInv
      /\ At("batch") /\ Top.batch # <<>> /\ ChildDepth(Top) <= MaxTaskDepth /\ Call.arg \in Types
      /\ runs \in 0 .. MaxRuns /\ runs < MaxRuns
      /\ runs' = runs + 1 /\ UNCHANGED <<saved, disk, loaded, loose, lost>>
  BY DEF Inv, StackInv, ValuesInv, StartTask, Takes, TaskAllowed
<1>1. PICK g, n : g = Answered /\ n = Len(stack)
  OBVIOUS
<1>2. /\ stack # <<>> /\ g \in Frames /\ Alike(g) /\ g.step < MaxSteps
  BY <1>0, <1>1, CallTaken
<1>3. /\ n \in Nat \ {0} /\ DOMAIN stack = 1 .. n /\ n \in DOMAIN stack /\ stack \in Seq(Frames)
      /\ Top = stack[n] /\ Top \in Frames /\ Top.depth = n - 1
      /\ \A i \in DOMAIN stack : Placed(i)
  BY <1>0, <1>1, <1>2, Tops DEF Placed
<1>4. PICK f : f = [g EXCEPT !.pc = "task"]
  OBVIOUS
<1>5. /\ f \in Frames /\ f.pc = "task" /\ f.run = Top.run /\ f.type = Top.type
      /\ f.depth = Top.depth /\ f.stale = Top.stale /\ f.state = Top.state
      /\ f.touched = Top.touched /\ f.step < MaxSteps
  BY <1>2, <1>4 DEF Frames, Alike
<1>6. PICK start, depth, child :
        /\ start = ForChild(Top.state) /\ depth = ChildDepth(Top)
        /\ child = NewFrame(Call.arg, depth, start, Top.stale)
  OBVIOUS
<1>7. /\ start \in AgentState /\ start.todos = <<>> /\ start.mirror = Top.state.mirror
      /\ start.tools = Top.state.tools
  <2>1. PICK state : state = Top.state
    OBVIOUS
  <2>2. state \in AgentState
    BY <1>3, <2>1 DEF Frames
  <2>3. <<>> \in Seq(TodoItem) /\ None \in Versions \cup {None}
    OBVIOUS
  <2>4. start = [state EXCEPT !.todos = <<>>, !.meta = None]
    BY <1>6, <2>1 DEF ForChild
  <2>. QED
    BY <2>1, <2>2, <2>3, <2>4 DEF AgentState
<1>8. /\ child \in Frames /\ child.run = runs + 1 /\ child.type = Call.arg /\ child.depth = n
      /\ child.state = start /\ child.pc = "before_run" /\ child.step = 0
      /\ child.touched = {} /\ child.stale = Top.stale
  <2>1. depth = n /\ depth \in Nat /\ Top.stale \in BOOLEAN
    BY <1>3, <1>6 DEF ChildDepth, Frames
  <2>2. Call.arg \in Types \cup {"caller"}
    BY <1>0
  <2>. QED
    BY <1>0, <1>6, <1>7, <2>1, <2>2, NewFrameOf
<1>9. stack' = Append([stack EXCEPT ![n] = f], child)
  BY <1>1, <1>4, <1>6 DEF StartTask, With
<1>10. /\ stack' \in Seq(Frames) /\ Len(stack') = n + 1 /\ DOMAIN stack' = 1 .. n + 1
       /\ stack'[n] = f /\ stack'[n + 1] = child
       /\ \A i \in 1 .. n - 1 : stack'[i] = stack[i]
  <2>1. PICK below : below = [stack EXCEPT ![n] = f]
    OBVIOUS
  <2>2. below \in Seq(Frames) /\ Len(below) = n /\ below[n] = f
    BY <1>1, <1>3, <1>5, <2>1
  <2>3. ASSUME NEW i \in 1 .. n - 1 PROVE below[i] = stack[i]
    <3>1. i \in 1 .. n /\ i # n
      BY <1>3
    <3>. QED
      BY <1>3, <2>1, <3>1
  <2>4. stack' = Append(below, child)
    BY <1>9, <2>1
  <2>. QED
    BY <1>3, <1>8, <2>2, <2>3, <2>4
<1>11. \A i \in 1 .. n + 1 : i \in 1 .. n - 1 \/ i = n \/ i = n + 1
  BY <1>3
<1>12. n + 1 \notin 1 .. n /\ \A i \in 1 .. n - 1 : i \in 1 .. n /\ i < n /\ i < n + 1
  BY <1>3
<1>13. StackInv'
  <2>1. runs + 1 \in 0 .. MaxRuns /\ runs \in Nat
    BY <1>0, DepthAssumption
  <2>2. ValuesInv'
    BY <1>0, <1>10, <2>1 DEF ValuesInv
  <2>3. ASSUME NEW i \in 1 .. n PROVE Placed(i)'
    <3>1. /\ stack'[i].depth = stack[i].depth /\ stack'[i].type = stack[i].type
          /\ stack'[i].run = stack[i].run
          /\ stack'[i].pc = "task" /\ stack'[i].step < MaxSteps
      <4>1. CASE i = n
        BY <1>3, <1>5, <1>10, <4>1
      <4>2. CASE i \in 1 .. n - 1
        <5>1. stack[i].pc = "task" /\ stack[i].step < MaxSteps
          BY <1>1, <1>3, <1>12, <4>2 DEF Placed
        <5>. QED
          BY <1>10, <4>2, <5>1
      <4>. QED
        BY <1>3, <4>1, <4>2
    <3>2. i > 1 => stack'[i - 1].run = stack[i - 1].run
      <4>1. i > 1 => i - 1 \in 1 .. n - 1
        BY <1>3
      <4>. QED
        BY <1>10, <4>1
    <3>3. Placed(i) /\ stack[i].run \in Nat /\ i < n + 1
      <4>1. i \in DOMAIN stack /\ stack[i] \in Frames /\ i < n + 1
        BY <1>3
      <4>2. stack[i].run \in Nat
        BY ONLY <4>1 DEF Frames
      <4>. QED
        BY <1>3, <4>1, <4>2
    <3>4. stack[i].run <= runs + 1
      BY <2>1, <3>3 DEF Placed
    <3>. QED
      BY <1>0, <1>10, <3>1, <3>2, <3>3, <3>4 DEF Placed
  <2>4. Placed(n + 1)'
    <3>1. stack[n].run <= runs /\ stack[n].run \in Nat
      <4>1. Placed(n) /\ stack[n] \in Frames
        BY <1>3
      <4>. QED
        BY <4>1 DEF Placed, Frames
    <3>2. runs + 1 > stack[n].run /\ (n + 1) - 1 = n /\ n + 1 > 1 /\ n + 1 # 1
      BY <1>3, <2>1, <3>1
    <3>3. n <= MaxTaskDepth
      BY <1>0, <1>3, DepthAssumption DEF ChildDepth
    <3>4. child.type # "caller" /\ child.pc # "task" /\ child.pc # "batch"
      BY <1>0, <1>8, TypesAssumption
    <3>. QED
      BY <1>0, <1>3, <1>5, <1>8, <1>10, <2>1, <3>2, <3>3, <3>4 DEF Placed
  <2>5. \A i \in 1 .. n + 1 : Placed(i)'
    BY <1>3, <2>3, <2>4
  <2>. QED
    BY <1>10, <2>2, <2>5 DEF StackInv
<1>14. NotesInv'
  <2>1. Noted(child.state.todos, Author(child))
    BY <1>7, <1>8 DEF Noted
  <2>2. Noted(f.state.todos, Author(f))
    BY <1>0, <1>3, <1>5 DEF NotesInv, Author
  <2>3. \A i \in 1 .. n - 1 : Noted(stack'[i].state.todos, Author(stack'[i]))
    BY <1>0, <1>3, <1>10, <1>12 DEF NotesInv
  <2>4. \A i \in 1 .. n + 1 : Noted(stack'[i].state.todos, Author(stack'[i]))
    BY <1>10, <1>11, <2>1, <2>2, <2>3
  <2>. QED
    BY <1>0, <1>10, <2>4 DEF NotesInv
<1>15. MirrorInv'
  <2>1. ASSUME NEW i \in 1 .. n
        PROVE  /\ stack'[i].touched = stack[i].touched
               /\ stack'[i].state.mirror = stack[i].state.mirror
    <3>1. CASE i = n
      BY <1>3, <1>5, <1>10, <3>1
    <3>2. CASE i # n
      <4>1. i \in 1 .. n - 1
        BY <1>3, <3>2
      <4>. QED
        BY <1>10, <4>1
    <3>. QED
      BY <3>1, <3>2
  <2>2. ASSUME NEW i \in 1 .. n, NEW p \in Names \ lost
        PROVE  \/ disk[p] = Recorded(stack'[i].state, p)
               \/ \E j \in 1 .. n + 1 : j > i /\ p \in stack'[j].touched
    <3>1. \/ disk[p] = Recorded(stack[i].state, p)
          \/ \E j \in 1 .. n : j > i /\ p \in stack[j].touched
      BY <1>0, <1>3 DEF MirrorInv
    <3>2. \A j \in 1 .. n : j \in 1 .. n + 1
      BY <1>3
    <3>. QED
      BY <2>1, <3>1, <3>2 DEF Recorded
  <2>3. ASSUME NEW p \in Names \ lost PROVE disk[p] = Recorded(child.state, p)
    <3>1. \/ disk[p] = Recorded(stack[n].state, p)
          \/ \E j \in 1 .. n : j > n /\ p \in stack[j].touched
      BY <1>0, <1>3 DEF MirrorInv
    <3>2. \A j \in 1 .. n : ~(j > n)
      BY <1>3
    <3>. QED
      BY <1>3, <1>7, <1>8, <3>1, <3>2 DEF Recorded
  <2>4. \A i \in 1 .. n + 1 : i \in 1 .. n \/ i = n + 1
    BY <1>3
  <2>5. stack' # <<>>
    BY <1>3, <1>10
  <2>6. \A i \in 1 .. n + 1 : \A p \in Names \ lost :
           \/ disk[p] = Recorded(stack'[i].state, p)
           \/ \E j \in 1 .. n + 1 : j > i /\ p \in stack'[j].touched
    BY <1>10, <2>2, <2>3, <2>4
  <2>. QED
    BY <1>0, <1>10, <2>5, <2>6 DEF MirrorInv, Recorded
<1>16. ToolsInv'
  <2>1. Top.state.tools # None /\ (~Top.stale => Top.state.tools = loaded)
    BY <1>0, <1>1, <1>3 DEF ToolsInv, At
  <2>2. \A i \in 1 .. n - 1 : stack'[i].pc = "task" /\ stack'[i].state.tools # None
    <3>1. ASSUME NEW i \in 1 .. n - 1 PROVE stack[i].pc = "task" /\ stack[i].state.tools # None
      <4>1. i \in DOMAIN stack /\ stack[i].pc = "task"
        BY <1>1, <1>3, <1>12 DEF Placed
      <4>. QED
        BY <1>0, <4>1 DEF ToolsInv
    <3>. QED
      BY <1>10, <3>1
  <2>3. (n + 1) - 1 = n /\ n # n + 1 /\ \A i \in 1 .. n - 1 : i # n + 1
    BY <1>3
  <2>4. stack'[n].pc = "task" /\ stack'[n].state.tools = Top.state.tools
    BY <1>5, <1>10
  <2>5. /\ stack'[n + 1].state.tools = Top.state.tools
        /\ ~stack'[n + 1].stale => Top.state.tools = loaded
    BY <1>7, <1>8, <1>10, <2>1
  <2>6. ASSUME NEW i \in 1 .. n + 1
        PROVE  /\ stack'[i].state.tools # None
               /\ stack'[i].pc = "before_run" => stack'[i].state.tools = stack'[i - 1].state.tools
               /\ i = n + 1 /\ ~stack'[i].stale => stack'[i].state.tools = loaded
    <3>1. CASE i \in 1 .. n - 1
      BY <2>2, <2>3, <3>1
    <3>2. CASE i = n
      BY <2>1, <2>3, <2>4, <3>2
    <3>3. CASE i = n + 1
      BY <2>1, <2>3, <2>4, <2>5, <3>3
    <3>. QED
      BY <1>11, <3>1, <3>2, <3>3
  <2>. QED
    BY <1>0, <1>10, <2>6 DEF ToolsInv
<1>. QED
  BY <1>13, <1>14, <1>15, <1>16 DEF Inv

-----------------------------------------------------------------------------
(* Runs that end. *)

LEMMA CallerEnds ==
  ASSUME Inv, stack # <<>>, Len(stack) = 1, stack' = <<>>, saved' = Top.state,
         UNCHANGED <<runs, disk, loaded, loose, lost>>
  PROVE  Inv'
<1>0. /\ StackInv /\ NotesInv /\ MirrorInv /\ ValuesInv
      /\ DOMAIN stack = {1} /\ Top = stack[1] /\ Top \in Frames /\ Placed(1)
  BY Tops DEF Inv, StackInv
<1>1. saved' \in AgentState /\ saved' # None /\ Author(Top) = 0
  <2>1. Top.state \in AgentState
    BY <1>0 DEF Frames
  <2>2. Top.depth = 0
    BY <1>0 DEF Placed
  <2>. QED
    BY <2>1, <2>2, NoneAssumption DEF Author
<1>2. DOMAIN stack' = {} /\ stack' \in Seq(Frames)
  OBVIOUS
<1>3. StackInv'
  BY <1>0, <1>1, <1>2 DEF StackInv, ValuesInv
<1>4. NotesInv'
  BY <1>0, <1>1, <1>2 DEF NotesInv
<1>5. MirrorInv'
  <2>1. ASSUME NEW p \in Names \ lost PROVE disk[p] = Recorded(Top.state, p)
    <3>1. \/ disk[p] = Recorded(stack[1].state, p)
          \/ \E j \in {1} : j > 1 /\ p \in stack[j].touched
      BY <1>0 DEF MirrorInv
    <3>. QED
      BY <1>0, <3>1
  <2>2. Returned' = Top.state
    BY <1>1 DEF Returned
  <2>. QED
    BY <1>2, <2>1, <2>2 DEF MirrorInv, Recorded
<1>6. ToolsInv'
  BY <1>2 DEF ToolsInv
<1>. QED
  BY <1>3, <1>4, <1>5, <1>6 DEF Inv

\* The parent takes over what its task leaves, and the task's files with it.
LEMMA ChildStep ==
  ASSUME Inv, stack # <<>>, Len(stack) # 1, Top.pc \in {"before_run", "provider"},
         NEW text, ChildEnds(text), UNCHANGED <<runs, disk, loaded, loose>>
  PROVE  Inv'
<1>0. /\ StackInv /\ NotesInv /\ MirrorInv /\ ToolsInv /\ ValuesInv /\ saved' = saved
  BY DEF Inv, StackInv, ChildEnds
<1>1. PICK n, k, child, parent :
        n = Len(stack) /\ k = n - 1 /\ child = stack[n] /\ parent = stack[k]
  OBVIOUS
<1>2. /\ n \in Nat \ {0} /\ k \in 1 .. n - 1 /\ k \in 1 .. n /\ k # n /\ k = n - 1 /\ k + 1 = n
      /\ DOMAIN stack = 1 .. n /\ n \in 1 .. n /\ Top = child
  <2>1. n \in Nat \ {0} /\ DOMAIN stack = 1 .. n /\ n # 1 /\ Top = child
    BY <1>0, <1>1, Tops
  <2>. QED
    BY <1>1, <2>1
<1>3. Placed(n) /\ Placed(k) /\ child \in Frames /\ parent \in Frames
  BY <1>0, <1>1, <1>2, Tops
<1>4. parent.pc = "task" /\ parent.step < MaxSteps
  BY <1>1, <1>2, <1>3 DEF Placed
<1>5. PICK kept, touched, state, stale, after, ref :
        /\ kept = (TaskText(child, text) # "empty")
        /\ touched = parent.touched \cup child.touched
        /\ state = IF kept THEN Merged(parent.state, child.state) ELSE parent.state
        /\ stale = IF kept THEN child.stale
                   ELSE parent.stale \/ child.pc # "before_run" \/ child.stale
        /\ after = [parent EXCEPT !.pc = "batch", !.touched = touched, !.state = state,
                                  !.stale = stale]
        /\ ref = after.nextId - 1
  OBVIOUS
<1>6. /\ state \in AgentState /\ state.todos = parent.state.todos
      /\ (kept => state.mirror = child.state.mirror)
      /\ (kept => state.tools = IF child.state.tools = None THEN parent.state.tools
                                                          ELSE child.state.tools)
  <2>1. PICK mine, its : mine = parent.state /\ its = child.state
    OBVIOUS
  <2>2. mine \in AgentState /\ its \in AgentState
    BY <1>3, <2>1 DEF Frames
  <2>3. PICK tools : tools = IF its.tools = None THEN mine.tools ELSE its.tools
    OBVIOUS
  <2>4. tools \in Versions \cup {None}
    BY <2>2, <2>3 DEF AgentState
  <2>5. Merged(mine, its) = [mine EXCEPT !.mirror = its.mirror, !.tools = tools]
    BY <2>2, <2>3 DEF Merged, AgentState
  <2>6. state = IF kept THEN Merged(mine, its) ELSE mine
    BY <1>5, <2>1
  <2>. QED
    BY <2>1, <2>2, <2>3, <2>4, <2>5, <2>6 DEF AgentState
<1>7. /\ after \in Frames /\ after.pc = "batch" /\ after.touched = touched
      /\ after.state = state /\ after.stale = stale /\ after.run = parent.run
      /\ after.type = parent.type /\ after.depth = parent.depth /\ after.step = parent.step
  <2>1. touched \in SUBSET Names
    BY <1>3, <1>5 DEF Frames
  <2>2. stale \in BOOLEAN
    BY <1>3, <1>5 DEF Frames
  <2>3. state \in AgentState /\ parent \in Frames
    BY <1>3, <1>6
  <2>4. after = [parent EXCEPT !.pc = "batch", !.touched = touched, !.state = state,
                               !.stale = stale]
    BY <1>5
  <2>. QED
    BY ONLY <2>1, <2>2, <2>3, <2>4 DEF Frames
<1>8. PICK f : /\ f = after \/ f = [after EXCEPT !.ref = ref]
               /\ stack' = Append(SubSeq(stack, 1, k - 1), f)
               /\ lost' = IF kept THEN lost ELSE lost \cup child.touched
  <2>1. after = [parent EXCEPT
                   !.pc = "batch",
                   !.touched = @ \cup child.touched,
                   !.state = IF kept THEN Merged(@, child.state) ELSE @,
                   !.stale = IF kept THEN child.stale
                                     ELSE @ \/ child.pc # "before_run" \/ child.stale]
    <3>1. /\ parent \in Frames /\ touched = parent.touched \cup child.touched
          /\ state = IF kept THEN Merged(parent.state, child.state) ELSE parent.state
          /\ stale = IF kept THEN child.stale
                     ELSE parent.stale \/ child.pc # "before_run" \/ child.stale
          /\ after = [parent EXCEPT !.pc = "batch", !.touched = touched, !.state = state,
                                    !.stale = stale]
      BY <1>3, <1>5
    <3>. QED
      BY ONLY <3>1 DEF Frames
  <2>2. Len(stack) - 2 = k - 1 /\ Len(stack) - 1 = k
    BY <1>1, <1>2
  <2>3. /\ Answer(SubSeq(stack, 1, k - 1), after, ref, TaskText(child, text) = "long")
        /\ lost' = IF kept THEN lost ELSE lost \cup child.touched
    <3>1. /\ kept = (TaskText(child, text) # "empty") /\ ref = after.nextId - 1
          /\ Top = child /\ stack[k] = parent
      BY <1>1, <1>2, <1>5
    <3>. QED
      BY ONLY ChildEnds(text), <2>1, <2>2, <3>1 DEF ChildEnds
  <2>. QED
    BY <2>3 DEF Answer
<1>9. /\ f \in Frames /\ f.pc = "batch" /\ f.touched = touched
      /\ f.state = state /\ f.stale = stale /\ f.run = parent.run
      /\ f.type = parent.type /\ f.depth = parent.depth /\ f.step = parent.step
  <2>1. ref \in Nat
    <3>1. after.nextId \in Nat \ {0}
      BY <1>7 DEF Frames
    <3>. QED
      BY <1>5, <3>1
  <2>. QED
    BY <1>7, <1>8, <2>1 DEF Frames
<1>10. Becomes(k, f)
  BY <1>0, <1>1, <1>2, <1>8, <1>9, AppendBecomes
<1>11. StackInv'
  <2>1. lost' \in SUBSET Names
    BY <1>0, <1>3, <1>8 DEF ValuesInv, Frames
  <2>2. /\ disk' \in [Names -> Content \cup {Absent}] /\ loaded' \in Versions \cup {None}
        /\ loose' \in SUBSET Changes
    BY <1>0 DEF ValuesInv
  <2>3. f.pc # "task" /\ f.step < MaxSteps /\ k \in DOMAIN stack
    BY <1>2, <1>4, <1>9
  <2>4. f.run = stack[k].run /\ f.type = stack[k].type /\ f.depth = stack[k].depth
    BY <1>1, <1>9
  <2>. QED
    BY <1>0, <1>9, <1>10, <2>1, <2>2, <2>3, <2>4, StackBecomes
<1>12. NotesInv'
  <2>1. Noted(parent.state.todos, Author(parent))
    BY <1>0, <1>1, <1>2 DEF NotesInv
  <2>2. Author(f) = Author(parent) /\ f.state.todos = parent.state.todos
    BY <1>6, <1>9 DEF Author
  <2>3. k \in DOMAIN stack /\ Noted(f.state.todos, Author(f))
    BY <1>2, <2>1, <2>2
  <2>. QED
    BY <1>0, <1>9, <1>10, <2>3, NotesBecome
<1>13. MirrorInv'
  <2>0. /\ DOMAIN stack' = 1 .. k /\ stack' # <<>> /\ stack'[k] = f
        /\ \A i \in 1 .. k - 1 : stack'[i] = stack[i]
    BY <1>2, <1>10 DEF Becomes
  <2>1. \A p \in Names \ lost' : p \in Names \ lost /\ (~kept => p \notin child.touched)
    BY <1>8
  <2>2. ASSUME NEW i \in 1 .. n, NEW p \in Names \ lost'
        PROVE  \/ disk[p] = Recorded(stack[i].state, p)
               \/ \E j \in 1 .. n : j > i /\ p \in stack[j].touched
    BY <1>0, <1>2, <2>1 DEF MirrorInv
  <2>3. ASSUME NEW i \in 1 .. k - 1, NEW p \in Names \ lost'
        PROVE  \/ disk[p] = Recorded(stack'[i].state, p)
               \/ \E j \in 1 .. k : j > i /\ p \in stack'[j].touched
    <3>1. i \in 1 .. n /\ k > i /\ k \in 1 .. k
      BY <1>2
    <3>2. CASE disk[p] = Recorded(stack[i].state, p)
      BY <2>0, <3>2
    <3>3. ASSUME NEW j \in 1 .. n, j > i, p \in stack[j].touched
          PROVE  \E l \in 1 .. k : l > i /\ p \in stack'[l].touched
      <4>1. CASE j \in 1 .. k - 1
        <5>1. j \in 1 .. k
          BY <1>2, <4>1
        <5>. QED
          BY <2>0, <3>3, <4>1, <5>1
      <4>2. CASE j = k \/ j = n
        <5>1. p \in f.touched
          BY <1>1, <1>5, <1>9, <3>3, <4>2
        <5>. QED
          BY <2>0, <3>1, <5>1
      <4>3. j \in 1 .. k - 1 \/ j = k \/ j = n
        BY <1>2
      <4>. QED
        BY <4>1, <4>2, <4>3
    <3>. QED
      BY <2>2, <3>1, <3>2, <3>3
  <2>4. ASSUME NEW p \in Names \ lost' PROVE disk[p] = Recorded(f.state, p)
    <3>1. CASE kept
      <4>1. \A j \in 1 .. n : ~(j > n)
        BY <1>2
      <4>2. disk[p] = Recorded(child.state, p)
        BY <1>1, <1>2, <2>2, <4>1
      <4>. QED
        BY <1>6, <1>9, <3>1, <4>2 DEF Recorded
    <3>2. CASE ~kept
      <4>1. \A j \in 1 .. n : j > k => j = n
        BY <1>2
      <4>2. p \notin stack[n].touched
        BY <1>1, <2>1, <3>2
      <4>3. disk[p] = Recorded(parent.state, p)
        BY <1>1, <1>2, <2>2, <4>1, <4>2
      <4>. QED
        BY <1>5, <1>9, <3>2, <4>3
    <3>. QED
      BY <3>1, <3>2
  <2>5. \A i \in 1 .. k : i \in 1 .. k - 1 \/ i = k
    BY <1>2
  <2>6. \A i \in 1 .. k : \A p \in Names \ lost' :
          \/ disk[p] = Recorded(stack'[i].state, p)
          \/ \E j \in 1 .. k : j > i /\ p \in stack'[j].touched
    BY <2>0, <2>3, <2>4, <2>5
  <2>. QED
    BY <2>0, <2>6 DEF MirrorInv, Recorded
<1>14. ToolsInv'
  <2>1. parent.state.tools # None
    BY <1>0, <1>1, <1>2, <1>4 DEF ToolsInv
  <2>2. /\ child.state.tools # None
        /\ child.pc = "before_run" => child.state.tools = parent.state.tools
        /\ ~child.stale => child.state.tools = loaded
    <3>1. n \in DOMAIN stack /\ n > 1 /\ n - 1 = k
      BY <1>2
    <3>. QED
      BY <1>0, <1>1, <3>1 DEF ToolsInv
  <2>3. f.state.tools # None
    BY <1>5, <1>6, <1>9, <2>1, <2>2
  <2>4. ~f.stale => f.state.tools = loaded'
    <3>1. CASE kept
      BY <1>5, <1>6, <1>9, <2>2, <3>1
    <3>2. CASE ~kept
      BY <1>5, <1>9, <2>2, <3>2
    <3>. QED
      BY <3>1, <3>2
  <2>5. k \in DOMAIN stack /\ f.pc # "before_run"
    BY <1>2, <1>9
  <2>. QED
    BY <1>0, <1>9, <1>10, <2>3, <2>4, <2>5, ToolsBecome
<1>. QED
  BY <1>11, <1>12, <1>13, <1>14 DEF Inv

LEMMA EndStep ==
  ASSUME Inv, BeforeRunFails \/ RunFails \/ FinalText
  PROVE  Inv'
<1>1. PICK text : EndRun(text)
  BY DEF BeforeRunFails, RunFails, FinalText
<1>2. stack # <<>> /\ Top.pc \in {"before_run", "provider"}
  BY DEF BeforeRunFails, RunFails, FinalText, InStep, At
<1>3. UNCHANGED <<runs, disk, loaded, loose>>
  BY <1>1 DEF EndRun
<1>4. CASE Len(stack) = 1
  BY <1>1, <1>2, <1>3, <1>4, CallerEnds DEF EndRun
<1>5. CASE Len(stack) # 1
  <2>1. ChildEnds(text)
    BY <1>1, <1>5 DEF EndRun
  <2>. QED
    BY <1>2, <1>3, <1>5, <2>1, ChildStep
<1>. QED
  BY <1>4, <1>5

-----------------------------------------------------------------------------
(***************************************************************************)
(* The theorems.                                                           *)
(***************************************************************************)
LEMMA InitInv == Init => Inv
<1>. SUFFICES ASSUME Init PROVE Inv
  OBVIOUS
<1>1. /\ stack = <<>> /\ runs = 0 /\ saved = None /\ disk = Original /\ loaded = None
      /\ loose = {} /\ lost = {} /\ DOMAIN stack = {} /\ stack \in Seq(Frames)
  BY DEF Init
<1>2. 0 \in 0 .. MaxRuns
  BY DepthAssumption
<1>3. Original \in [Names -> Content \cup {Absent}]
  BY <1>2 DEF Original, Content
<1>4. StackInv
  BY <1>1, <1>2, <1>3 DEF StackInv, ValuesInv
<1>5. NotesInv
  BY <1>1 DEF NotesInv
<1>6. MirrorInv
  BY <1>1 DEF MirrorInv, Returned, Recorded, DefaultState
<1>7. ToolsInv
  BY <1>1 DEF ToolsInv
<1>. QED
  BY <1>4, <1>5, <1>6, <1>7 DEF Inv

LEMMA NextInv == Inv /\ [Next]_vars => Inv'
<1>. SUFFICES ASSUME Inv, [Next]_vars PROVE Inv'
  OBVIOUS
<1>1. ASSUME BeforeRun PROVE Inv'
  BY <1>1, BeforeRunStep
<1>2. ASSUME BeforeRunFails \/ RunFails \/ FinalText PROVE Inv'
  BY <1>2, EndStep
<1>3. ASSUME ContextOverflow \/ AssistantText \/ (\E batch \in Batches : ToolCalls(batch))
      PROVE  Inv'
  BY <1>3, ProviderQuiet
<1>4. ASSUME BatchDone \/ RefuseCall \/ RefuseTask PROVE Inv'
  BY <1>4, BatchQuiet
<1>5. ASSUME WriteTodos PROVE Inv'
  BY <1>5, WriteTodosStep
<1>6. ASSUME WriteFile \/ DeleteFile \/ RunSkill PROVE Inv'
  BY <1>6, FilesStep
<1>7. ASSUME StartTask PROVE Inv'
  BY <1>7, StartTaskStep
<1>8. ASSUME StartRun PROVE Inv'
  BY <1>8, StartRunStep
<1>9. ASSUME Execute PROVE Inv'
  BY <1>9, CommandStep
<1>10. ASSUME NEW change \in loose, LateChange(change) PROVE Inv'
  BY <1>10, LateChangeStep
<1>11. ASSUME UNCHANGED vars PROVE Inv'
  BY <1>11 DEF vars, Inv, StackInv, ValuesInv, Placed, NotesInv, MirrorInv, Returned,
              Recorded, ToolsInv
<1>. QED
  BY <1>1, <1>2, <1>3, <1>4, <1>5, <1>6, <1>7, <1>8, <1>9, <1>10, <1>11
  DEF Next, RunStep, ProviderStep, ExecuteStep

LEMMA InvariantHolds == Spec => []Inv
<1>1. Init => Inv
  BY InitInv
<1>2. Inv /\ [Next]_vars => Inv'
  BY NextInv
<1>. QED
  BY <1>1, <1>2, PTL DEF Spec

\* FramesInv: the stack is one of runs that wait for their tasks, each a task one
\* deeper than the run that gave it and none deeper than max_task_depth.
THEOREM FramesCorrect == Spec => []FramesInv
<1>1. Inv => FramesInv
  <2>. SUFFICES ASSUME Inv PROVE FramesInv
    OBVIOUS
  <2>1. /\ runs \in 0 .. MaxRuns /\ stack \in Seq(Frames) /\ Len(stack) \in Nat
        /\ DOMAIN stack = 1 .. Len(stack) /\ MaxTaskDepth \in Nat
    BY DepthAssumption DEF Inv, StackInv, ValuesInv
  <2>2. Len(stack) <= MaxTaskDepth + 1
    <3>1. CASE stack = <<>>
      BY <2>1, <3>1
    <3>2. CASE stack # <<>>
      <4>1. Placed(Len(stack))
        BY <3>2, Tops DEF Inv
      <4>. QED
        BY <2>1, <4>1 DEF Placed
    <3>. QED
      BY <3>1, <3>2
  <2>3. ASSUME NEW i \in DOMAIN stack
        PROVE  /\ stack[i].depth = i - 1
               /\ stack[i].state \in AgentState
               /\ (stack[i].type = "caller") <=> (i = 1)
               /\ (stack[i].pc = "task") <=> (i < Len(stack))
               /\ stack[i].step \in 0 .. MaxSteps
               /\ i > 1 => stack[i].run > stack[i - 1].run
    <3>1. stack[i] \in Frames /\ Placed(i)
      BY <2>1 DEF Inv, StackInv
    <3>. QED
      BY <3>1 DEF Placed, Frames
  <2>. QED
    BY <2>1, <2>2, <2>3 DEF FramesInv
<1>. QED
  BY <1>1, InvariantHolds, PTL

\* TodosBelong: a todo list holds the items of its own run and no id twice, at any
\* depth of tasks and whatever write_todos is given.
THEOREM TodosCorrect == Spec => []TodosBelong
<1>1. Inv => TodosBelong
  BY DEF Inv, NotesInv, Noted, TodosBelong
<1>. QED
  BY <1>1, InvariantHolds, PTL

\* MirrorTruthful: whenever a run asks its provider, its state records what is on
\* disk, but for the files of commands, of tasks without result, of skills that
\* timed out and of writes that failed half way.
THEOREM MirrorCorrect == Spec => []MirrorTruthful
<1>1. Inv => MirrorTruthful
  <2>. SUFFICES ASSUME Inv, At("provider"), NEW p \in Names \ lost
                PROVE  disk[p] = Recorded(Top.state, p)
    BY DEF MirrorTruthful
  <2>1. /\ Len(stack) \in DOMAIN stack /\ DOMAIN stack = 1 .. Len(stack)
        /\ Top = stack[Len(stack)] /\ Len(stack) \in Nat
    BY Tops DEF Inv, At
  <2>2. \A j \in DOMAIN stack : ~(j > Len(stack))
    BY <2>1
  <2>. QED
    BY <2>1, <2>2 DEF Inv, MirrorInv
<1>. QED
  BY <1>1, InvariantHolds, PTL

\* SkillsAsOffered: the skills a run offers its provider are the ones its calls are
\* served from, unless a task without result has loaded others since.
THEOREM SkillsCorrect == Spec => []SkillsAsOffered
<1>1. Inv => SkillsAsOffered
  <2>. SUFFICES ASSUME Inv, At("provider"), ~Top.stale
                PROVE  Top.state.tools = loaded
    BY DEF SkillsAsOffered
  <2>1. Len(stack) \in DOMAIN stack /\ Top = stack[Len(stack)] /\ Top.pc = "provider"
    BY Tops DEF Inv, At
  <2>. QED
    BY <2>1 DEF Inv, ToolsInv
<1>. QED
  BY <1>1, InvariantHolds, PTL
=============================================================================

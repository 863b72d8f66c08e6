------------------------------- MODULE GcMark -------------------------------
(***************************************************************************)
(* gc_collect (main.c, py/gc.c): mark what the roots reach with a stack of *)
(* bounded size, scan the whole heap again as long as it has overflowed,   *)
(* and sweep.  The program is stopped meanwhile: its words do not change.  *)
(***************************************************************************)
EXTENDS GcBlocks, SequencesExt

CONSTANTS StackSize,     \* MICROPY_ALLOC_GC_STACK_SIZE
          RootWords,     \* how many words gc_collect_root looks at
          Heaps          \* the heaps to collect: table, words and root words

ASSUME MarkAssumption ==
  /\ StackSize \in Nat /\ RootWords \in Nat
  /\ Heaps \subseteq [kind  : [Block -> {FREE, HEAD, TAIL}],
                      ptrs  : [Block -> Pointer],
                      roots : [1..RootWords -> Pointer]]
  /\ \A h \in Heaps : WellFormed(h.kind)

VARIABLES
  kind,          \* the allocation table
  ptrs, roots,   \* the words of the blocks, and the root words in their order
  pc,            \* which function is running
  i,             \* gc_collect_root: how many roots were looked at
  block,         \* gc_mark_subtree: the block whose word comes next
  caller,        \* gc_mark_subtree: where it returns to
  gc_stack, gc_stack_overflow,
  scan           \* gc_deal_with_stack_overflow: its loop variable

vars == <<kind, ptrs, roots, pc, i, block, caller, gc_stack, gc_stack_overflow, scan>>

Init ==
  /\ \E h \in Heaps : kind = h.kind /\ ptrs = h.ptrs /\ roots = h.roots
  /\ pc = "roots" /\ i = 0 /\ block = 0 /\ caller = "roots"
  /\ gc_stack = <<>> /\ gc_stack_overflow = FALSE /\ scan = 0

\* VERIFY_PTR, and the test for an unmarked head.
Unmarked(ptr) == ptr # NULL /\ kind[ptr] = HEAD

\* gc_collect_root: the next root word.
CollectRoot ==
  /\ pc = "roots" /\ i < RootWords
  /\ i' = i + 1
  /\ IF Unmarked(roots[i + 1])
       THEN /\ kind' = [kind EXCEPT ![roots[i + 1]] = MARK]
            /\ block' = roots[i + 1]
            /\ pc' = "mark" /\ caller' = "roots"
       ELSE UNCHANGED <<kind, block, pc, caller>>
  /\ UNCHANGED <<ptrs, roots, gc_stack, gc_stack_overflow, scan>>

\* Whether gc_stack takes one more block; bug: one too many.
RoomForOneMore == Len(gc_stack) <= StackSize
Room == Len(gc_stack) < StackSize

\* gc_mark_subtree: one word.  After the last word of a chunk the next chunk is
\* taken from the stack.
MarkWord ==
  /\ pc = "mark"
  /\ LET child  == ptrs[block]
         pushed == IF Unmarked(child) /\ Room THEN Append(gc_stack, child) ELSE gc_stack
     IN /\ kind' = IF Unmarked(child) THEN [kind EXCEPT ![child] = MARK] ELSE kind
        /\ gc_stack_overflow' = (gc_stack_overflow \/ (Unmarked(child) /\ ~Room))
        /\ \/ /\ block + 1 \in Block /\ kind[block + 1] = TAIL
              /\ block' = block + 1
              /\ gc_stack' = pushed /\ pc' = pc
           \/ /\ ~(block + 1 \in Block /\ kind[block + 1] = TAIL)
              /\ IF pushed = <<>>
                   THEN pc' = caller /\ block' = block /\ gc_stack' = pushed
                   ELSE pc' = pc /\ block' = Last(pushed) /\ gc_stack' = Front(pushed)
  /\ UNCHANGED <<ptrs, roots, i, caller, scan>>

\* gc_collect_end follows the last root.
RootsDone ==
  /\ pc = "roots" /\ i = RootWords
  /\ pc' = "overflow"
  /\ UNCHANGED <<kind, ptrs, roots, i, block, caller, gc_stack, gc_stack_overflow, scan>>

\* gc_deal_with_stack_overflow: its outer loop.  Bug: the flag stays set.
OverflowKept ==
  /\ pc = "overflow"
  /\ IF gc_stack_overflow THEN pc' = "rescan" ELSE pc' = "sweep"
  /\ scan' = 0
  /\ UNCHANGED <<kind, ptrs, roots, i, block, caller, gc_stack, gc_stack_overflow>>

DealWithOverflow ==
  /\ pc = "overflow"
  /\ IF gc_stack_overflow THEN pc' = "rescan" ELSE pc' = "sweep"
  /\ gc_stack_overflow' = FALSE
  /\ scan' = 0
  /\ UNCHANGED <<kind, ptrs, roots, i, block, caller, gc_stack>>

\* Its inner loop: every marked block is traced again.  Bug: one pass is enough.
RescanOnce ==
  /\ pc = "rescan"
  /\ IF scan = N
       THEN pc' = "sweep" /\ UNCHANGED <<scan, block, caller>>
       ELSE /\ scan' = scan + 1
            /\ IF kind[scan] = MARK
                 THEN pc' = "mark" /\ block' = scan /\ caller' = "rescan"
                 ELSE UNCHANGED <<pc, block, caller>>
  /\ UNCHANGED <<kind, ptrs, roots, i, gc_stack, gc_stack_overflow>>

Rescan ==
  /\ pc = "rescan"
  /\ IF scan = N
       THEN pc' = "overflow" /\ UNCHANGED <<scan, block, caller>>
       ELSE /\ scan' = scan + 1
            /\ IF kind[scan] = MARK
                 THEN pc' = "mark" /\ block' = scan /\ caller' = "rescan"
                 ELSE UNCHANGED <<pc, block, caller>>
  /\ UNCHANGED <<kind, ptrs, roots, i, gc_stack, gc_stack_overflow>>

\* gc_sweep: free_tail, when the loop comes to block b.  Bug: a marked head does
\* not reset it.
FreeTailStays(b) == \E c \in 0..(b - 1) : kind[c] = HEAD
FreeTail(b) == \E c \in 0..(b - 1) : kind[c] = HEAD /\ \A d \in c..(b - 1) : kind[d] # MARK

Sweep ==
  /\ pc = "sweep"
  /\ kind' = [b \in Block |-> CASE kind[b] = MARK -> HEAD
                                [] kind[b] = HEAD -> FREE
                                [] kind[b] = FREE -> FREE
                                [] kind[b] = TAIL -> IF FreeTail(b) THEN FREE ELSE TAIL]
  /\ pc' = "done"
  /\ UNCHANGED <<ptrs, roots, i, block, caller, gc_stack, gc_stack_overflow, scan>>

Done == pc = "done" /\ UNCHANGED vars

Next == CollectRoot \/ MarkWord \/ RootsDone \/ DealWithOverflow \/ Rescan \/ Sweep \/ Done

Spec == Init /\ [][Next]_vars /\ WF_vars(Next)

-----------------------------------------------------------------------------
TypeOK ==
  /\ kind \in [Block -> Kind] /\ ptrs \in [Block -> Pointer]
  /\ roots \in [1..RootWords -> Pointer]
  /\ pc \in {"roots", "mark", "overflow", "rescan", "sweep", "done"}
  /\ i \in 0..RootWords /\ block \in Block /\ caller \in {"roots", "rescan"}
  /\ gc_stack \in Seq(Block) /\ Len(gc_stack) <= StackSize
  /\ gc_stack_overflow \in BOOLEAN /\ scan \in 0..N

\* The heap as the program sees it.
Plain == [b \in Block |-> IF kind[b] = MARK THEN HEAD ELSE kind[b]]
RootSet == {roots[r] : r \in 1..RootWords}

\* What is marked when the sweep starts is what the program can reach, though
\* the stack of the traversal is bounded and drops what it has no room for.
MarkedIsReachable ==
  pc = "sweep" => {b \in Block : kind[b] = MARK} = Reachable(kind, ptrs, RootSet)

\* A collection is one step that frees the chunks the program cannot reach and
\* no other (gc.c:260, gc.c:274).
Whole == INSTANCE Collection
  WITH kind <- Plain, roots <- RootSet, collected <- (pc = "done")
CollectsExactly == Whole!Spec

\* Scanning the heap again and again comes to an end (gc.c:261).
CollectionEnds == <>(pc = "done")
=============================================================================

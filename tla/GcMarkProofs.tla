---------------------------- MODULE GcMarkProofs ----------------------------
(***************************************************************************)
(* Proofs about GcMark, for heaps and stacks of every size: what is marked *)
(* when the sweep starts is what can be reached, and a collection frees    *)
(* the rest and nothing else.                                              *)
(***************************************************************************)
EXTENDS GcMark, SequenceTheorems, WellFoundedInduction, TLAPS

Marked == {b \in Block : kind[b] = MARK}

\* Every pointer of the chunk of h was followed.
Traced(h) == \A b \in Chain(kind, h) : ~Unmarked(ptrs[b])

\* gc_mark_subtree is in the chunk of h, and done with its words before block.
Scanning(h) == /\ pc = "mark" /\ kind[h] = MARK /\ block \in Chain(kind, h)
               /\ \A b \in Chain(kind, h) : b < block => ~Unmarked(ptrs[b])

Rescanning == pc = "rescan" \/ (pc = "mark" /\ caller = "rescan")

Stacked(h) == \E n \in 1..Len(gc_stack) : gc_stack[n] = h

\* Nothing is marked that every closed set would not hold too.
MarkedBelowClosed == \A S \in Closed(kind, ptrs, RootSet) : Marked \subseteq S

StackMarked == \A n \in 1..Len(gc_stack) : kind[gc_stack[n]] = MARK

\* A marked chunk that is not traced is still to come: it is on the stack, in
\* work, ahead of the scan of the heap, or the heap will be scanned again.
NoneForgotten ==
  \A h \in Marked : \/ Traced(h) \/ Stacked(h) \/ Scanning(h)
                    \/ gc_stack_overflow
                    \/ Rescanning /\ h >= scan

RootsSeen == /\ \A r \in 1..RootWords : r <= i => ~Unmarked(roots[r])
             /\ (pc \in {"overflow", "rescan", "sweep"} \/ Rescanning) => i = RootWords

Phases == /\ pc = "mark" => \E h \in Block : Scanning(h)
          /\ pc # "mark" => gc_stack = <<>>
          /\ pc = "sweep" => ~gc_stack_overflow
          /\ pc # "done" => WellFormed(kind)

Marking == MarkedBelowClosed /\ StackMarked /\ NoneForgotten /\ RootsSeen

IInv == TypeOK /\ Phases /\ (pc # "done" => Marking)

-----------------------------------------------------------------------------
(* Marking a head changes nothing about the chunks.                        *)

SameShape(k, k2) ==
  \A b \in Block : /\ k[b] = TAIL <=> k2[b] = TAIL
                   /\ k[b] = FREE <=> k2[b] = FREE

\* The chunks and what is reachable depend on the shape of the table only.
LEMMA Shape ==
  ASSUME NEW k \in [Block -> Kind], NEW k2 \in [Block -> Kind], SameShape(k, k2),
         NEW p, NEW r
  PROVE  /\ Heads(k) = Heads(k2)
         /\ \A h \in Block : Chain(k, h) = Chain(k2, h)
         /\ Closed(k, p, r) = Closed(k2, p, r)
         /\ Reachable(k, p, r) = Reachable(k2, p, r)
         /\ WellFormed(k) => WellFormed(k2)
<1>1. Heads(k) = Heads(k2)
  BY DEF SameShape, Heads, Kind, FREE, HEAD, TAIL, MARK
<1>2. ASSUME NEW h \in Block PROVE Chain(k, h) = Chain(k2, h)
  BY BlocksAssumption DEF SameShape, Chain, Block
<1>3. ASSUME NEW h \in Block PROVE Children(k, p, h) = Children(k2, p, h)
  BY <1>1, <1>2 DEF Children
<1>4. Rooted(k, r) = Rooted(k2, r)
  BY <1>1 DEF Rooted
<1>5. Closed(k, p, r) = Closed(k2, p, r)
  <2>1. ASSUME NEW S \in SUBSET Heads(k), NEW h \in S PROVE Children(k, p, h) = Children(k2, p, h)
    BY <1>3 DEF Heads
  <2> QED BY <1>1, <1>4, <2>1 DEF Closed
<1>6. Reachable(k, p, r) = Reachable(k2, p, r)
  BY <1>1, <1>5 DEF Reachable
<1>7. WellFormed(k) => WellFormed(k2)
  BY DEF WellFormed, SameShape
<1> QED BY <1>1, <1>2, <1>5, <1>6, <1>7

\* What a step that marks does to the table.
Marks == /\ kind' \in [Block -> Kind] /\ SameShape(kind, kind')
         /\ \A b \in Block : kind[b] = MARK => kind'[b] = MARK
         /\ \A b \in Block : kind'[b] = HEAD => kind[b] = HEAD
         /\ UNCHANGED <<ptrs, roots>>

LEMMA MarkOne ==
  ASSUME kind \in [Block -> Kind], UNCHANGED <<ptrs, roots>>,
         NEW c \in Block, kind[c] = HEAD, kind' = [kind EXCEPT ![c] = MARK]
  PROVE  Marks
BY DEF Marks, SameShape, Kind, FREE, HEAD, TAIL, MARK

LEMMA MarkNone ==
  ASSUME kind \in [Block -> Kind], UNCHANGED <<kind, ptrs, roots>>
  PROVE  Marks
BY DEF Marks, SameShape

\* A step that marks keeps what was known.
LEMMA MarksKeep ==
  ASSUME TypeOK, Marks
  PROVE  /\ \A h \in Block : Chain(kind', h) = Chain(kind, h)
         /\ Closed(kind', ptrs', RootSet') = Closed(kind, ptrs, RootSet)
         /\ Heads(kind') = Heads(kind)
         /\ WellFormed(kind) => WellFormed(kind')
         /\ \A q \in Pointer : Unmarked(q)' => Unmarked(q)
         /\ \A h \in Block : Traced(h) => Traced(h)'
<1>1. kind \in [Block -> Kind] /\ kind' \in [Block -> Kind] /\ SameShape(kind, kind')
  BY DEF TypeOK, Marks
<1>2. RootSet' = RootSet /\ ptrs' = ptrs
  BY DEF Marks, RootSet
<1>3. /\ \A h \in Block : Chain(kind', h) = Chain(kind, h)
      /\ Closed(kind', ptrs', RootSet') = Closed(kind, ptrs, RootSet)
      /\ Heads(kind') = Heads(kind)
      /\ WellFormed(kind) => WellFormed(kind')
  BY <1>1, <1>2, Shape
<1>4. \A q \in Pointer : Unmarked(q)' => Unmarked(q)
  BY DEF Marks, Unmarked, Pointer
<1>5. ASSUME NEW h \in Block, Traced(h) PROVE Traced(h)'
  <2>1. \A b \in Chain(kind, h) : ptrs[b] \in Pointer
    BY DEF TypeOK, Chain, Block
  <2> QED BY <1>2, <1>3, <1>4, <1>5, <2>1 DEF Traced
<1> QED BY <1>3, <1>4, <1>5

-----------------------------------------------------------------------------
(* The invariant.                                                          *)

LEMMA StackFacts ==
  ASSUME NEW s \in Seq(Block)
  PROVE  /\ \A c \in Block : /\ Append(s, c) \in Seq(Block)
                            /\ Len(Append(s, c)) = Len(s) + 1
                            /\ Append(s, c) # <<>>
                            /\ \A n \in 1..Len(s) : Append(s, c)[n] = s[n]
                            /\ Append(s, c)[Len(s) + 1] = c
         /\ s # <<>> => /\ Last(s) \in Block /\ Last(s) = s[Len(s)] /\ Len(s) \in 1..Len(s)
                        /\ Front(s) \in Seq(Block) /\ Len(Front(s)) = Len(s) - 1
                        /\ \A n \in 1..(Len(s) - 1) : Front(s)[n] = s[n]
<1>1. /\ Len(s) \in Nat /\ s # <<>> => Len(s) > 0
      /\ \A n \in 1..Len(s) : s[n] \in Block
  OBVIOUS
<1>2. ASSUME NEW c \in Block
      PROVE  /\ Append(s, c) \in Seq(Block) /\ Len(Append(s, c)) = Len(s) + 1
             /\ Append(s, c) # <<>>
             /\ \A n \in 1..Len(s) : Append(s, c)[n] = s[n]
             /\ Append(s, c)[Len(s) + 1] = c
  BY AppendProperties
<1>3. ASSUME s # <<>>
      PROVE  /\ Last(s) \in Block /\ Last(s) = s[Len(s)] /\ Len(s) \in 1..Len(s)
             /\ Front(s) \in Seq(Block) /\ Len(Front(s)) = Len(s) - 1
             /\ \A n \in 1..(Len(s) - 1) : Front(s)[n] = s[n]
  <2>1. Len(s) \in 1..Len(s) /\ Len(s) - 1 \in Nat
    BY <1>1, <1>3
  <2>2. Last(s) = s[Len(s)]
    BY DEF Last
  <2>3. Front(s) = SubSeq(s, 1, Len(s) - 1)
    BY DEF Front
  <2> DEFINE n == Len(s) - 1
  <2>4. n \in Nat /\ n <= Len(s) /\ \A m \in 1..n : s[m] \in Block
    BY <1>1, <2>1
  <2> HIDE DEF n
  <2>5. /\ SubSeq(s, 1, n) \in Seq(Block)
        /\ Len(SubSeq(s, 1, n)) = IF 1 <= n THEN n - 1 + 1 ELSE 0
        /\ \A m \in 1..(n - 1 + 1) : SubSeq(s, 1, n)[m] = s[1 + m - 1]
    BY <2>4, SubSeqProperties
  <2>6. Len(SubSeq(s, 1, n)) = n /\ \A m \in 1..n : SubSeq(s, 1, n)[m] = s[m]
    BY <2>4, <2>5
  <2> QED BY <1>1, <2>1, <2>2, <2>3, <2>5, <2>6 DEF n
<1> QED BY <1>2, <1>3

LEMMA InitInv == Init => IInv
<1> SUFFICES ASSUME Init PROVE IInv
  OBVIOUS
<1>1. PICK h \in Heaps : kind = h.kind /\ ptrs = h.ptrs /\ roots = h.roots
  BY DEF Init
<1>2. /\ kind \in [Block -> {FREE, HEAD, TAIL}] /\ ptrs \in [Block -> Pointer]
      /\ roots \in [1..RootWords -> Pointer] /\ WellFormed(kind)
  BY <1>1, MarkAssumption
<1>3. kind \in [Block -> Kind] /\ \A b \in Block : kind[b] # MARK
  BY <1>2 DEF Kind, FREE, HEAD, TAIL, MARK
<1>4. TypeOK
  BY <1>2, <1>3, BlocksAssumption, MarkAssumption DEF Init, TypeOK, Block
<1>5. Phases
  BY <1>2 DEF Init, Phases
<1>6. Marked = {}
  BY <1>3 DEF Marked
<1>7. Marking
  BY <1>6, MarkAssumption DEF Init, Marking, MarkedBelowClosed, StackMarked, NoneForgotten, RootsSeen, Rescanning
<1> QED BY <1>4, <1>5, <1>7 DEF IInv

\* The table is only written by marking, until the sweep.
LEMMA StepMarks ==
  ASSUME TypeOK, CollectRoot \/ MarkWord \/ RootsDone \/ DealWithOverflow \/ Rescan
  PROVE  Marks
<1>0. kind \in [Block -> Kind]
  BY DEF TypeOK
<1>1. CASE CollectRoot
  <2>1. CASE Unmarked(roots[i + 1])
    <3>1. roots[i + 1] \in Block /\ kind[roots[i + 1]] = HEAD
      BY <1>1, <2>1, MarkAssumption DEF TypeOK, CollectRoot, Unmarked, Pointer
    <3> QED BY <1>0, <1>1, <2>1, <3>1, MarkOne DEF CollectRoot
  <2>2. CASE ~Unmarked(roots[i + 1])
    BY <1>0, <1>1, <2>2, MarkNone DEF CollectRoot
  <2> QED BY <2>1, <2>2
<1>2. CASE MarkWord
  <2>1. CASE Unmarked(ptrs[block])
    <3>1. ptrs[block] \in Block /\ kind[ptrs[block]] = HEAD
      BY <2>1 DEF TypeOK, Unmarked, Pointer
    <3> QED BY <1>0, <1>2, <2>1, <3>1, MarkOne DEF MarkWord
  <2>2. CASE ~Unmarked(ptrs[block])
    BY <1>0, <1>2, <2>2, MarkNone DEF MarkWord
  <2> QED BY <2>1, <2>2
<1>3. CASE RootsDone \/ DealWithOverflow \/ Rescan
  BY <1>0, <1>3, MarkNone DEF RootsDone, DealWithOverflow, Rescan
<1> QED BY <1>1, <1>2, <1>3

\* What gc_mark_subtree does with the stack in one step.
Pushed == IF Unmarked(ptrs[block]) /\ Room THEN Append(gc_stack, ptrs[block]) ELSE gc_stack

LEMMA PushedFacts ==
  ASSUME TypeOK
  PROVE  /\ Pushed \in Seq(Block) /\ Len(Pushed) <= StackSize
         /\ \A n \in 1..Len(gc_stack) : n \in 1..Len(Pushed) /\ Pushed[n] = gc_stack[n]
         /\ \A n \in 1..Len(Pushed) :
               \/ n \in 1..Len(gc_stack) /\ Pushed[n] = gc_stack[n]
               \/ Unmarked(ptrs[block]) /\ Pushed[n] = ptrs[block]
         /\ Unmarked(ptrs[block]) /\ Room =>
               \E n \in 1..Len(Pushed) : Pushed[n] = ptrs[block]
<1>1. gc_stack \in Seq(Block) /\ Len(gc_stack) \in Nat /\ Len(gc_stack) <= StackSize /\ StackSize \in Nat
  BY MarkAssumption DEF TypeOK
<1>2. CASE Unmarked(ptrs[block]) /\ Room
  <2> DEFINE c == ptrs[block]
  <2>1. c \in Block
    BY <1>2 DEF TypeOK, Unmarked, Pointer
  <2>2. Pushed = Append(gc_stack, c)
    BY <1>2 DEF Pushed
  <2>3. /\ Append(gc_stack, c) \in Seq(Block)
        /\ Len(Append(gc_stack, c)) = Len(gc_stack) + 1
        /\ \A n \in 1..Len(gc_stack) : Append(gc_stack, c)[n] = gc_stack[n]
        /\ Append(gc_stack, c)[Len(gc_stack) + 1] = c
    BY <1>1, <2>1, StackFacts
  <2>4. Len(gc_stack) + 1 <= StackSize
    BY <1>1, <1>2 DEF Room
  <2> HIDE DEF c
  <2>5. \A n \in 1..Len(gc_stack) + 1 : n \in 1..Len(gc_stack) \/ n = Len(gc_stack) + 1
    BY <1>1
  <2>6. Len(gc_stack) + 1 \in 1..Len(gc_stack) + 1 /\ \A n \in 1..Len(gc_stack) : n \in 1..Len(gc_stack) + 1
    BY <1>1
  <2> QED BY <1>2, <2>2, <2>3, <2>4, <2>5, <2>6 DEF c
<1>3. CASE ~(Unmarked(ptrs[block]) /\ Room)
  BY <1>1, <1>3 DEF Pushed
<1> QED BY <1>2, <1>3

LEMMA MarkWordCases ==
  ASSUME TypeOK, MarkWord
  PROVE  \/ /\ block + 1 \in Block /\ kind[block + 1] = TAIL
            /\ block' = block + 1 /\ gc_stack' = Pushed /\ pc' = "mark"
         \/ /\ ~(block + 1 \in Block /\ kind[block + 1] = TAIL)
            /\ Pushed = <<>> /\ pc' = caller /\ block' = block /\ gc_stack' = <<>>
         \/ /\ ~(block + 1 \in Block /\ kind[block + 1] = TAIL)
            /\ Pushed # <<>> /\ pc' = "mark"
            /\ block' = Last(Pushed) /\ gc_stack' = Front(Pushed)
<1> DEFINE more == block + 1 \in Block /\ kind[block + 1] = TAIL
<1>1. \/ more /\ block' = block + 1 /\ gc_stack' = Pushed /\ pc' = pc
      \/ ~more /\ IF Pushed = <<>>
                     THEN pc' = caller /\ block' = block /\ gc_stack' = Pushed
                     ELSE pc' = pc /\ block' = Last(Pushed) /\ gc_stack' = Front(Pushed)
  BY DEF MarkWord, Pushed
<1>2. pc = "mark"
  BY DEF MarkWord
<1> HIDE DEF more
<1>3. \/ more /\ block' = block + 1 /\ gc_stack' = Pushed /\ pc' = "mark"
      \/ ~more /\ Pushed = <<>> /\ pc' = caller /\ block' = block /\ gc_stack' = <<>>
      \/ ~more /\ Pushed # <<>> /\ pc' = "mark" /\ block' = Last(Pushed) /\ gc_stack' = Front(Pushed)
  BY <1>1, <1>2
<1> QED BY <1>3 DEF more

LEMMA TypeStep ==
  ASSUME TypeOK, Next
  PROVE  TypeOK'
<1> USE DEF TypeOK
<1>1. CASE CollectRoot
  <2>1. Marks
    BY <1>1, StepMarks
  <2>2. i + 1 \in 1..RootWords /\ i + 1 \in 0..RootWords
    BY <1>1, MarkAssumption DEF CollectRoot
  <2>3. block' \in Block
    BY <1>1, <2>2 DEF CollectRoot, Unmarked, Pointer
  <2>4. pc' \in {"roots", "mark"} /\ caller' \in {"roots", "rescan"}
    BY <1>1 DEF CollectRoot
  <2> QED BY <1>1, <2>1, <2>2, <2>3, <2>4 DEF CollectRoot, Marks
<1>2. CASE MarkWord
  <2>1. Marks
    BY <1>2, StepMarks
  <2>2. Pushed \in Seq(Block) /\ Len(Pushed) <= StackSize
    BY PushedFacts
  <2>3. StackSize \in Nat /\ Len(<<>>) <= StackSize /\ <<>> \in Seq(Block)
    BY MarkAssumption
  <2>4. Pushed # <<>> => /\ Last(Pushed) \in Block /\ Front(Pushed) \in Seq(Block)
                         /\ Len(Front(Pushed)) <= StackSize
    BY <2>2, <2>3, StackFacts
  <2>5. gc_stack' \in Seq(Block) /\ Len(gc_stack') <= StackSize /\ block' \in Block
    BY <1>2, <2>2, <2>3, <2>4, MarkWordCases
  <2>6. pc' \in {"mark", "roots", "rescan"}
    BY <1>2, MarkWordCases
  <2>7. gc_stack_overflow' \in BOOLEAN
    BY <1>2 DEF MarkWord
  <2> QED BY <1>2, <2>1, <2>5, <2>6, <2>7 DEF MarkWord, Marks
<1>3. CASE RootsDone
  BY <1>3 DEF RootsDone
<1>4. CASE DealWithOverflow
  <2>1. scan' = 0 /\ gc_stack_overflow' = FALSE
    BY <1>4 DEF DealWithOverflow
  <2>3. 0 \in 0..N
    BY BlocksAssumption
  <2>2. pc' \in {"rescan", "sweep"}
    BY <1>4 DEF DealWithOverflow
  <2> QED BY <1>4, <2>1, <2>2, <2>3 DEF DealWithOverflow
<1>5. CASE Rescan
  <2>1. scan' \in 0..N
    BY <1>5, BlocksAssumption DEF Rescan
  <2>2. scan # N => scan \in Block
    BY BlocksAssumption DEF Block
  <2>3. block' \in Block /\ pc' \in {"overflow", "mark", "rescan"} /\ caller' \in {"roots", "rescan"}
    BY <1>5, <2>2 DEF Rescan
  <2> QED BY <1>5, <2>1, <2>3 DEF Rescan
<1>6. CASE Sweep
  <2>1. kind' \in [Block -> Kind]
    BY <1>6 DEF Sweep, Kind, FREE, HEAD, TAIL, MARK
  <2> QED BY <1>6, <2>1 DEF Sweep
<1>7. CASE Done
  BY <1>7 DEF Done, vars
<1> QED BY <1>1, <1>2, <1>3, <1>4, <1>5, <1>6, <1>7 DEF Next

-----------------------------------------------------------------------------
(* gc_mark_subtree, word by word.                                          *)

LEMMA StartScan ==
  ASSUME NEW h \in Block, pc' = "mark", block' = h, kind'[h] = MARK
  PROVE  Scanning(h)'
<1>1. h \in Chain(kind', h)
  BY BlocksAssumption DEF Chain, Block
<1>2. \A b \in Chain(kind', h) : ~(b < h)
  BY BlocksAssumption DEF Chain, Block
<1> QED BY <1>1, <1>2 DEF Scanning

\* After its last word a chunk is traced.
LEMMA ScanOn ==
  ASSUME TypeOK, MarkWord, NEW h \in Block, Scanning(h)
  PROVE  /\ block + 1 \in Block /\ kind[block + 1] = TAIL => Scanning(h)'
         /\ ~(block + 1 \in Block /\ kind[block + 1] = TAIL) => Traced(h)'
<1>1. Marks
  BY StepMarks
<1>2. Chain(kind', h) = Chain(kind, h) /\ (\A q \in Pointer : Unmarked(q)' => Unmarked(q)) /\ ptrs' = ptrs
  BY <1>1, MarksKeep DEF Marks
<1>3. block \in Block /\ ptrs[block] \in Pointer /\ \A b \in Chain(kind, h) : b \in Block /\ ptrs[b] \in Pointer
  BY DEF TypeOK, Chain, Block
<1>4. ~(ptrs[block] # NULL /\ kind'[ptrs[block]] = HEAD)
  <2>1. CASE Unmarked(ptrs[block])
    <3>1. kind' = [kind EXCEPT ![ptrs[block]] = MARK] /\ ptrs[block] \in Block
      BY <1>3, <2>1 DEF MarkWord, Unmarked, Pointer
    <3>2. kind'[ptrs[block]] = MARK
      BY <3>1 DEF TypeOK
    <3> QED BY <3>2 DEF MARK, HEAD
  <2>2. CASE ~Unmarked(ptrs[block])
    <3>1. kind' = kind
      BY <2>2 DEF MarkWord
    <3> QED BY <2>2, <3>1 DEF Unmarked
  <2> QED BY <2>1, <2>2
<1>5. \A b \in Chain(kind, h) : b < block => ~(ptrs[b] # NULL /\ kind'[ptrs[b]] = HEAD)
  BY <1>2, <1>3 DEF Scanning, Unmarked
<1>6. CASE block + 1 \in Block /\ kind[block + 1] = TAIL
  <2>1. block' = block + 1 /\ pc' = "mark"
    BY <1>6, MarkWordCases
  <2>2. block + 1 \in Chain(kind, h)
    BY <1>3, <1>6, BlocksAssumption DEF Scanning, Chain, Block
  <2>3. kind'[h] = MARK
    BY <1>1 DEF Marks, Scanning
  <2>4. ASSUME NEW b \in Chain(kind, h), b < block + 1 PROVE ~Unmarked(ptrs[b])'
    <3>1. b < block \/ b = block
      BY <1>3, <2>4, BlocksAssumption DEF Block
    <3> QED BY <1>2, <1>3, <1>4, <1>5, <3>1 DEF Unmarked
  <2>5. Scanning(h)'
    BY <1>2, <2>1, <2>2, <2>3, <2>4 DEF Scanning
  <2> QED BY <1>6, <2>5
<1>7. CASE ~(block + 1 \in Block /\ kind[block + 1] = TAIL)
  <2>1. ASSUME NEW b \in Chain(kind, h) PROVE b < block \/ b = block
    <3>1. CASE b > block
      <4>1. block + 1 \in (h + 1)..b /\ block + 1 \in Block
        BY <1>3, <3>1, BlocksAssumption DEF Scanning, Chain, Block
      <4>2. kind[block + 1] = TAIL
        BY <4>1 DEF Chain
      <4> QED BY <1>7, <4>1, <4>2
    <3> QED BY <1>3, <3>1, BlocksAssumption DEF Block
  <2>2. \A b \in Chain(kind, h) : ~Unmarked(ptrs[b])'
    BY <1>2, <1>3, <1>4, <1>5, <2>1 DEF Unmarked
  <2>3. Traced(h)'
    BY <1>2, <2>2 DEF Traced
  <2> QED BY <1>7, <2>3
<1> QED BY <1>6, <1>7

\* A chunk on the stack stays there or is taken from it.
LEMMA PushedGoesOn ==
  ASSUME TypeOK, MarkWord, NEW h \in Block, kind'[h] = MARK,
         NEW n \in 1..Len(Pushed), Pushed[n] = h
  PROVE  Stacked(h)' \/ Scanning(h)'
<1>1. Pushed \in Seq(Block) /\ Pushed # <<>>
  BY PushedFacts
<1>2. CASE block + 1 \in Block /\ kind[block + 1] = TAIL
  BY <1>2, MarkWordCases DEF Stacked
<1>3. CASE ~(block + 1 \in Block /\ kind[block + 1] = TAIL)
  <2>1. pc' = "mark" /\ block' = Last(Pushed) /\ gc_stack' = Front(Pushed)
    BY <1>1, <1>3, MarkWordCases
  <2>2. /\ Last(Pushed) = Pushed[Len(Pushed)] /\ Len(Front(Pushed)) = Len(Pushed) - 1
        /\ \A m \in 1..(Len(Pushed) - 1) : Front(Pushed)[m] = Pushed[m]
    BY <1>1, StackFacts
  <2>3. CASE n = Len(Pushed)
    BY <2>1, <2>2, <2>3, StartScan
  <2>4. CASE n # Len(Pushed)
    <3>1. n \in 1..(Len(Pushed) - 1)
      BY <1>1, <2>4
    <3> QED BY <2>1, <2>2, <3>1 DEF Stacked
  <2> QED BY <2>3, <2>4
<1> QED BY <1>2, <1>3

-----------------------------------------------------------------------------
(* Each part of the invariant through each step that marks.                *)

Marker == CollectRoot \/ MarkWord \/ RootsDone \/ DealWithOverflow \/ Rescan

LEMMA BelowStep ==
  ASSUME TypeOK, Phases, MarkedBelowClosed, Marker
  PROVE  MarkedBelowClosed'
<1>1. Marks
  BY StepMarks DEF Marker
<1>2. Closed(kind', ptrs', RootSet') = Closed(kind, ptrs, RootSet)
  BY <1>1, MarksKeep
<1>3. ASSUME NEW S \in Closed(kind, ptrs, RootSet), NEW b \in Block, kind'[b] = MARK
      PROVE  b \in S
  <2>1. CASE kind[b] = MARK
    BY <1>3, <2>1 DEF MarkedBelowClosed, Marked
  <2>2. CASE kind[b] # MARK
    <3>1. kind # kind'
      BY <1>3, <2>2
    <3>2. CASE CollectRoot
      <4>1. Unmarked(roots[i + 1]) /\ kind' = [kind EXCEPT ![roots[i + 1]] = MARK] /\ i < RootWords
        BY <3>1, <3>2 DEF CollectRoot
      <4>2. b = roots[i + 1] /\ i + 1 \in 1..RootWords
        BY <1>3, <2>2, <4>1, MarkAssumption DEF TypeOK
      <4>3. b \in Rooted(kind, RootSet)
        BY <4>1, <4>2 DEF Rooted, Heads, RootSet, Unmarked
      <4> QED BY <4>3 DEF Closed
    <3>3. CASE MarkWord
      <4>1. Unmarked(ptrs[block]) /\ kind' = [kind EXCEPT ![ptrs[block]] = MARK]
        BY <3>1, <3>3 DEF MarkWord
      <4>2. b = ptrs[block]
        BY <1>3, <2>2, <4>1 DEF TypeOK
      <4>3. PICK h \in Block : Scanning(h)
        BY <3>3 DEF MarkWord, Phases
      <4>4. h \in S
        BY <4>3 DEF Scanning, MarkedBelowClosed, Marked
      <4>5. b \in Children(kind, ptrs, h)
        BY <4>1, <4>2, <4>3 DEF Children, Heads, Unmarked, Scanning
      <4> QED BY <4>4, <4>5 DEF Closed
    <3>4. CASE RootsDone \/ DealWithOverflow \/ Rescan
      BY <3>1, <3>4 DEF RootsDone, DealWithOverflow, Rescan
    <3> QED BY <3>2, <3>3, <3>4 DEF Marker
  <2> QED BY <2>1, <2>2
<1> QED BY <1>2, <1>3 DEF MarkedBelowClosed, Marked

LEMMA PushedMarked ==
  ASSUME TypeOK, StackMarked, MarkWord
  PROVE  \A n \in 1..Len(Pushed) : kind'[Pushed[n]] = MARK
<1>1. Marks
  BY StepMarks
<1>2. \A n \in 1..Len(gc_stack) : gc_stack[n] \in Block
  BY DEF TypeOK
<1>3. \A n \in 1..Len(gc_stack) : kind'[gc_stack[n]] = MARK
  BY <1>1, <1>2 DEF Marks, StackMarked
<1>4. Unmarked(ptrs[block]) => kind'[ptrs[block]] = MARK
  BY DEF MarkWord, Unmarked, TypeOK, Pointer
<1> QED BY <1>3, <1>4, PushedFacts

LEMMA StackStep ==
  ASSUME TypeOK, StackMarked, Marker
  PROVE  StackMarked'
<1>1. Marks
  BY StepMarks DEF Marker
<1>2. gc_stack \in Seq(Block) /\ \A n \in 1..Len(gc_stack) : gc_stack[n] \in Block
  BY DEF TypeOK
<1>3. \A n \in 1..Len(gc_stack) : kind'[gc_stack[n]] = MARK
  BY <1>1, <1>2 DEF Marks, StackMarked
<1>4. CASE CollectRoot \/ RootsDone \/ DealWithOverflow \/ Rescan
  <2>1. gc_stack' = gc_stack
    BY <1>4 DEF CollectRoot, RootsDone, DealWithOverflow, Rescan
  <2> QED BY <1>3, <2>1 DEF StackMarked
<1>5. CASE MarkWord
  <2>1. \A n \in 1..Len(Pushed) : kind'[Pushed[n]] = MARK
    BY <1>5, PushedMarked
  <2>2. \/ gc_stack' = Pushed \/ gc_stack' = <<>>
        \/ Pushed # <<>> /\ gc_stack' = Front(Pushed)
    BY <1>5, MarkWordCases
  <2>3. CASE Pushed # <<>> /\ gc_stack' = Front(Pushed)
    <3>1. /\ Len(Front(Pushed)) = Len(Pushed) - 1
          /\ \A n \in 1..(Len(Pushed) - 1) : Front(Pushed)[n] = Pushed[n]
      BY <2>3, PushedFacts, StackFacts
    <3>2. Len(Pushed) \in Nat
      BY PushedFacts
    <3>3. \A n \in 1..(Len(Pushed) - 1) : n \in 1..Len(Pushed)
      BY <3>2
    <3> QED BY <2>1, <2>3, <3>1, <3>3 DEF StackMarked
  <2> QED BY <2>1, <2>2, <2>3 DEF StackMarked
<1> QED BY <1>4, <1>5 DEF Marker

LEMMA ForgottenStep ==
  ASSUME TypeOK, Phases, NoneForgotten, Marker
  PROVE  NoneForgotten'
<1> SUFFICES ASSUME NEW h \in Block, kind'[h] = MARK
             PROVE  \/ Traced(h)' \/ Stacked(h)' \/ Scanning(h)'
                    \/ gc_stack_overflow'
                    \/ Rescanning' /\ h >= scan'
  BY DEF NoneForgotten, Marked
<1>1. Marks
  BY StepMarks DEF Marker
<1>2. Traced(h) => Traced(h)'
  BY <1>1, MarksKeep
<1>3. kind[h] = MARK => \/ Traced(h) \/ Stacked(h) \/ Scanning(h)
                        \/ gc_stack_overflow
                        \/ Rescanning /\ h >= scan
  BY DEF NoneForgotten, Marked
<1>4. pc # "mark" => ~Stacked(h) /\ ~Scanning(h)
  BY DEF Phases, Stacked, Scanning
<1>5. CASE CollectRoot
  <2>1. pc = "roots" /\ gc_stack_overflow' = gc_stack_overflow
    BY <1>5 DEF CollectRoot
  <2>2. CASE kind[h] = MARK
    BY <1>2, <1>3, <1>4, <2>1, <2>2 DEF Rescanning
  <2>3. CASE kind[h] # MARK
    <3>1. /\ kind' = [kind EXCEPT ![roots[i + 1]] = MARK]
          /\ block' = roots[i + 1] /\ pc' = "mark"
      BY <1>5, <2>3 DEF CollectRoot
    <3>2. h = roots[i + 1]
      BY <2>3, <3>1 DEF TypeOK
    <3> QED BY <3>1, <3>2, StartScan
  <2> QED BY <2>2, <2>3
<1>6. CASE MarkWord
  <2>1. scan' = scan /\ caller' = caller /\ pc = "mark"
    BY <1>6 DEF MarkWord
  <2>2. gc_stack_overflow => gc_stack_overflow'
    BY <1>6 DEF MarkWord
  <2>3. Rescanning => Rescanning'
    <3>1. pc' = "mark" \/ pc' = caller
      BY <1>6, MarkWordCases
    <3> QED BY <2>1, <3>1 DEF Rescanning
  <2>4. (\E n \in 1..Len(Pushed) : Pushed[n] = h) => Stacked(h)' \/ Scanning(h)'
    BY <1>6, PushedGoesOn
  <2>5. CASE kind[h] = MARK
    <3>1. Stacked(h) => \E n \in 1..Len(Pushed) : Pushed[n] = h
      BY PushedFacts DEF Stacked
    <3>2. Scanning(h) => Scanning(h)' \/ Traced(h)'
      BY <1>6, ScanOn
    <3> QED BY <1>2, <1>3, <2>1, <2>2, <2>3, <2>4, <2>5, <3>1, <3>2
  <2>6. CASE kind[h] # MARK
    <3>1. Unmarked(ptrs[block]) /\ kind' = [kind EXCEPT ![ptrs[block]] = MARK]
      BY <1>6, <2>6 DEF MarkWord
    <3>2. h = ptrs[block]
      BY <2>6, <3>1 DEF TypeOK
    <3>3. CASE Room
      BY <2>4, <3>1, <3>2, <3>3, PushedFacts
    <3>4. CASE ~Room
      BY <1>6, <3>1, <3>4 DEF MarkWord
    <3> QED BY <3>3, <3>4
  <2> QED BY <2>5, <2>6
<1>7. CASE RootsDone
  <2>1. kind' = kind /\ pc = "roots" /\ gc_stack_overflow' = gc_stack_overflow
    BY <1>7 DEF RootsDone
  <2> QED BY <1>2, <1>3, <1>4, <2>1 DEF Rescanning
<1>8. CASE DealWithOverflow
  <2>1. kind' = kind /\ pc = "overflow" /\ scan' = 0 /\ (gc_stack_overflow => pc' = "rescan")
    BY <1>8 DEF DealWithOverflow
  <2>2. h >= 0
    BY BlocksAssumption DEF Block
  <2> QED BY <1>2, <1>3, <1>4, <2>1, <2>2 DEF Rescanning
<1>9. CASE Rescan
  <2>1. kind' = kind /\ pc = "rescan" /\ gc_stack_overflow' = gc_stack_overflow
    BY <1>9 DEF Rescan
  <2>2. CASE scan = N
    <3>1. ~(h >= scan)
      BY <2>2, BlocksAssumption DEF Block
    <3> QED BY <1>2, <1>3, <1>4, <2>1, <3>1
  <2>3. CASE scan # N /\ h = scan
    <3>1. pc' = "mark" /\ block' = h
      BY <1>9, <2>1, <2>3 DEF Rescan
    <3> QED BY <3>1, StartScan
  <2>4. CASE scan # N /\ h # scan
    <3>1. scan' = scan + 1
      BY <1>9, <2>4 DEF Rescan
    <3>2. Rescanning'
      BY <1>9, <2>4 DEF Rescan, Rescanning
    <3>3. h >= scan => h >= scan + 1
      BY <2>4, BlocksAssumption DEF TypeOK, Block
    <3> QED BY <1>2, <1>3, <1>4, <2>1, <3>1, <3>2, <3>3
  <2> QED BY <2>2, <2>3, <2>4
<1> QED BY <1>5, <1>6, <1>7, <1>8, <1>9 DEF Marker

LEMMA RootsStep ==
  ASSUME TypeOK, RootsSeen, Marker
  PROVE  RootsSeen'
<1>1. Marks
  BY StepMarks DEF Marker
<1>2. \A q \in Pointer : Unmarked(q)' => Unmarked(q)
  BY <1>1, MarksKeep
<1>3. roots' = roots /\ \A r \in 1..RootWords : roots[r] \in Pointer
  BY <1>1 DEF Marks, TypeOK
<1>4. \A r \in 1..RootWords : r <= i => ~Unmarked(roots[r])'
  BY <1>2, <1>3 DEF RootsSeen
<1>5. CASE CollectRoot
  <2>1. i' = i + 1 /\ i + 1 \in 1..RootWords /\ pc' \in {"roots", "mark"} /\ (pc' = "mark" => caller' = "roots")
    BY <1>5, MarkAssumption DEF CollectRoot, TypeOK
  <2>2. ~(roots[i + 1] # NULL /\ kind'[roots[i + 1]] = HEAD)
    <3>1. CASE Unmarked(roots[i + 1])
      <4>1. roots[i + 1] \in Block /\ kind' = [kind EXCEPT ![roots[i + 1]] = MARK]
        BY <1>3, <1>5, <2>1, <3>1 DEF CollectRoot, Unmarked, Pointer
      <4>2. kind'[roots[i + 1]] = MARK
        BY <4>1 DEF TypeOK
      <4> QED BY <4>2 DEF MARK, HEAD
    <3>2. CASE ~Unmarked(roots[i + 1])
      <4>1. kind' = kind
        BY <1>5, <3>2 DEF CollectRoot
      <4> QED BY <3>2, <4>1 DEF Unmarked
    <3> QED BY <3>1, <3>2
  <2>3. \A r \in 1..RootWords : r <= i + 1 => r <= i \/ r = i + 1
    BY MarkAssumption DEF TypeOK
  <2>4. \A r \in 1..RootWords : r <= i' => ~Unmarked(roots[r])'
    BY <1>3, <1>4, <2>1, <2>2, <2>3 DEF Unmarked
  <2> QED BY <2>1, <2>4 DEF RootsSeen, Rescanning
<1>6. CASE MarkWord
  <2>1. i' = i /\ caller' = caller /\ pc = "mark"
    BY <1>6 DEF MarkWord
  <2>2. pc' = "mark" \/ pc' = caller
    BY <1>6, MarkWordCases
  <2>3. (pc' \in {"overflow", "rescan", "sweep"} \/ Rescanning') => Rescanning
    BY <2>1, <2>2 DEF Rescanning, TypeOK
  <2> QED BY <1>4, <2>1, <2>3 DEF RootsSeen
<1>7. CASE RootsDone
  <2>1. i' = i /\ i = RootWords
    BY <1>7 DEF RootsDone
  <2> QED BY <1>4, <2>1 DEF RootsSeen
<1>8. CASE DealWithOverflow \/ Rescan
  <2>1. i' = i /\ pc \in {"overflow", "rescan"}
    BY <1>8 DEF DealWithOverflow, Rescan
  <2> QED BY <1>4, <2>1 DEF RootsSeen
<1> QED BY <1>5, <1>6, <1>7, <1>8 DEF Marker

LEMMA PhasesStep ==
  ASSUME TypeOK, Phases, StackMarked, Marker
  PROVE  Phases'
<1>1. Marks
  BY StepMarks DEF Marker
<1>2. pc # "done" /\ WellFormed(kind')
  <2>1. pc # "done"
    BY DEF Marker, CollectRoot, MarkWord, RootsDone, DealWithOverflow, Rescan
  <2> QED BY <1>1, <2>1, MarksKeep DEF Phases
<1>3. CASE CollectRoot
  <2>1. pc = "roots" /\ gc_stack' = gc_stack /\ pc' \in {"roots", "mark"}
    BY <1>3 DEF CollectRoot
  <2>2. ASSUME pc' = "mark" PROVE \E h \in Block : Scanning(h)'
    <3>1. Unmarked(roots[i + 1]) /\ kind' = [kind EXCEPT ![roots[i + 1]] = MARK] /\ block' = roots[i + 1]
      BY <1>3, <2>1, <2>2 DEF CollectRoot
    <3>2. roots[i + 1] \in Block
      BY <1>3, <3>1, MarkAssumption DEF CollectRoot, Unmarked, Pointer, TypeOK
    <3>3. kind'[roots[i + 1]] = MARK
      BY <3>1, <3>2 DEF TypeOK
    <3> QED BY <2>2, <3>1, <3>2, <3>3, StartScan
  <2> QED BY <1>2, <2>1, <2>2 DEF Phases
<1>4. CASE MarkWord
  <2>1. pc = "mark" /\ caller \in {"roots", "rescan"}
    BY <1>4 DEF MarkWord, TypeOK
  <2>2. PICK h \in Block : Scanning(h)
    BY <2>1 DEF Phases
  <2>3. CASE block + 1 \in Block /\ kind[block + 1] = TAIL
    <3>1. Scanning(h)' /\ pc' = "mark"
      BY <1>4, <2>2, <2>3, ScanOn, MarkWordCases
    <3> QED BY <1>2, <3>1 DEF Phases
  <2>4. CASE ~(block + 1 \in Block /\ kind[block + 1] = TAIL) /\ Pushed = <<>>
    <3>1. pc' = caller /\ gc_stack' = <<>>
      BY <1>4, <2>4, MarkWordCases
    <3> QED BY <1>2, <2>1, <3>1 DEF Phases
  <2>5. CASE ~(block + 1 \in Block /\ kind[block + 1] = TAIL) /\ Pushed # <<>>
    <3>1. pc' = "mark" /\ block' = Last(Pushed)
      BY <1>4, <2>5, MarkWordCases
    <3>2. Last(Pushed) \in Block /\ Last(Pushed) = Pushed[Len(Pushed)] /\ Len(Pushed) \in 1..Len(Pushed)
      BY <2>5, PushedFacts, StackFacts
    <3>3. kind'[Last(Pushed)] = MARK
      BY <1>4, <3>2, PushedMarked
    <3>4. ASSUME NEW h2 \in Block, h2 = Last(Pushed) PROVE Scanning(h2)'
      BY <3>1, <3>3, <3>4, StartScan
    <3> QED BY <1>2, <3>1, <3>2, <3>4 DEF Phases
  <2> QED BY <2>3, <2>4, <2>5
<1>5. CASE RootsDone \/ DealWithOverflow
  <2>1. pc \in {"roots", "overflow"} /\ gc_stack' = gc_stack /\ pc' \in {"overflow", "rescan", "sweep"}
    BY <1>5 DEF RootsDone, DealWithOverflow
  <2>2. pc' = "sweep" => ~gc_stack_overflow'
    BY <1>5 DEF RootsDone, DealWithOverflow
  <2> QED BY <1>2, <2>1, <2>2 DEF Phases
<1>6. CASE Rescan
  <2>1. pc = "rescan" /\ gc_stack' = gc_stack /\ kind' = kind /\ pc' \in {"rescan", "overflow", "mark"}
    BY <1>6 DEF Rescan
  <2>2. ASSUME pc' = "mark" PROVE \E h \in Block : Scanning(h)'
    <3>1. scan \in Block /\ kind[scan] = MARK /\ block' = scan
      BY <1>6, <2>1, <2>2, BlocksAssumption DEF Rescan, TypeOK, Block
    <3> QED BY <2>1, <2>2, <3>1, StartScan
  <2> QED BY <1>2, <2>1, <2>2 DEF Phases
<1> QED BY <1>3, <1>4, <1>5, <1>6 DEF Marker

LEMMA NextInv == IInv /\ [Next]_vars => IInv'
<1> SUFFICES ASSUME IInv, [Next]_vars PROVE IInv'
  OBVIOUS
<1>1. CASE UNCHANGED vars
  BY <1>1 DEF vars, IInv, TypeOK, Phases, Marking, MarkedBelowClosed, StackMarked, NoneForgotten,
              RootsSeen, Marked, Traced, Stacked, Scanning, Rescanning, Unmarked, RootSet
<1>2. CASE Next
  <2>1. TypeOK'
    BY <1>2, TypeStep DEF IInv
  <2>2. CASE Marker
    <3>1. pc # "done"
      BY <2>2 DEF Marker, CollectRoot, MarkWord, RootsDone, DealWithOverflow, Rescan
    <3>2. Marking'
      BY <2>2, <3>1, BelowStep, StackStep, ForgottenStep, RootsStep DEF IInv, Marking
    <3> QED BY <2>1, <2>2, <3>1, <3>2, PhasesStep DEF IInv, Marking
  <2>3. CASE Sweep
    <3>1. pc' = "done" /\ gc_stack' = gc_stack /\ pc = "sweep"
      BY <2>3 DEF Sweep
    <3> QED BY <2>1, <3>1 DEF IInv, Phases
  <2>4. CASE Done
    BY <1>1, <2>4 DEF Done
  <2> QED BY <1>2, <2>2, <2>3, <2>4 DEF Next, Marker
<1> QED BY <1>1, <1>2

\* The invariant behind the properties: what is marked but not traced is on the
\* stack, in work, ahead of the scan, or owed another scan (gc.c:220).
THEOREM Inductive == Spec => []IInv
BY InitInv, NextInv, PTL DEF Spec

\* No step of the collection leaves the stack or the heap (gc.c:241).
THEOREM TypeCorrect == Spec => []TypeOK
<1>1. IInv => TypeOK
  BY DEF IInv
<1> QED BY <1>1, Inductive, PTL

-----------------------------------------------------------------------------
LEMMA MarkedReached == IInv => MarkedIsReachable
<1> SUFFICES ASSUME IInv, pc = "sweep" PROVE Marked = Reachable(kind, ptrs, RootSet)
  BY DEF MarkedIsReachable, Marked
<1>1. /\ TypeOK /\ Marking /\ gc_stack = <<>> /\ ~gc_stack_overflow /\ i = RootWords
      /\ ~Rescanning /\ \A h : ~Scanning(h)
  BY DEF IInv, Phases, Marking, RootsSeen, Rescanning, Scanning
<1>2. \A h \in Marked : Traced(h)
  BY <1>1 DEF Marking, NoneForgotten, Stacked
<1>3. Marked \subseteq Heads(kind)
  BY DEF Marked, Heads
<1>4. Rooted(kind, RootSet) \subseteq Marked
  <2>1. ASSUME NEW h \in Heads(kind), NEW r \in 1..RootWords, h = roots[r] PROVE h \in Marked
    <3>1. ~Unmarked(roots[r])
      BY <1>1, MarkAssumption DEF Marking, RootsSeen
    <3>2. h \in Block /\ h # NULL
      BY BlocksAssumption DEF Heads, Block
    <3> QED BY <2>1, <3>1, <3>2 DEF Unmarked, Heads, Marked
  <2> QED BY <2>1 DEF Rooted, RootSet
<1>5. ASSUME NEW h \in Marked, NEW c \in Children(kind, ptrs, h) PROVE c \in Marked
  <2>1. PICK b \in Chain(kind, h) : ptrs[b] = c
    BY DEF Children
  <2>2. ~Unmarked(c)
    BY <1>2, <2>1 DEF Traced
  <2>3. c \in Heads(kind) /\ c \in Block /\ c # NULL
    BY BlocksAssumption DEF Children, Heads, Block
  <2> QED BY <2>2, <2>3 DEF Unmarked, Heads, Marked
<1>6. Marked \in Closed(kind, ptrs, RootSet)
  BY <1>3, <1>4, <1>5 DEF Closed
<1> QED BY <1>1, <1>3, <1>6 DEF Reachable, Marking, MarkedBelowClosed

\* What is marked when the sweep starts is what can be reached, for stacks and
\* heaps of every size (gc.c:260).
THEOREM MarksTheReachable == Spec => []MarkedIsReachable
BY Inductive, MarkedReached, PTL

-----------------------------------------------------------------------------
(* The sweep.                                                              *)

\* A set of numbers has a smallest one.
LEMMA Smallest ==
  ASSUME NEW T, T \subseteq Nat, T # {}
  PROVE  \E x \in T : \A y \in T : x <= y
<1>1. PICK x \in T : \A y \in T : <<y, x>> \notin OpToRel(<, Nat)
  BY NatLessThanWellFounded, WFMin
<1>2. \A y \in T : y \in Nat /\ x \in Nat /\ ~(y < x)
  BY <1>1 DEF OpToRel
<1> QED BY <1>2

\* Every tail has a head it belongs to.
LEMMA TailHasHead ==
  ASSUME kind \in [Block -> Kind], WellFormed(kind), NEW b \in Block, kind[b] = TAIL
  PROVE  \E h \in Heads(kind) : h < b /\ b \in Chain(kind, h)
<1> DEFINE Back == {d \in 0..b : kind[b - d] # TAIL}
<1>1. b \in Nat /\ \A d \in 0..b : b - d \in Block
  BY BlocksAssumption DEF Block
<1>2. kind[0] # TAIL
  BY BlocksAssumption DEF WellFormed, Block
<1>3. b \in Back
  BY <1>1, <1>2
<1>4. PICK d \in Back : \A e \in Back : d <= e
  <2>1. Back \subseteq Nat /\ Back # {}
    BY <1>1, <1>3
  <2> HIDE DEF Back
  <2> QED BY <2>1, Smallest
<1> DEFINE h == b - d
<1>5. d \in 0..b /\ d # 0 /\ h \in Block /\ h < b /\ kind[h] # TAIL
  BY <1>1
<1>6. ASSUME NEW c \in (h + 1)..b PROVE kind[c] = TAIL
  <2>1. b - c \in 0..b /\ b - c < d /\ b - (b - c) = c
    BY <1>1, <1>5
  <2> QED BY <1>4, <1>5, <2>1
<1>7. kind[h] # FREE
  <2> HIDE DEF h
  <2>1. h + 1 \in (h + 1)..b /\ h + 1 \in Block /\ (h + 1) - 1 = h
    BY <1>1, <1>5, BlocksAssumption DEF Block
  <2>2. kind[h + 1] = TAIL
    BY <1>6, <2>1
  <2>3. kind[(h + 1) - 1] # FREE
    BY <2>1, <2>2 DEF WellFormed
  <2> QED BY <2>1, <2>3
<1>8. h \in Heads(kind)
  BY <1>5, <1>7 DEF Heads, Kind
<1>9. b \in Chain(kind, h)
  BY <1>1, <1>5, <1>6, BlocksAssumption DEF Chain, Block
<1> QED BY <1>5, <1>8, <1>9

\* gc_sweep leaves the chunks of the marked heads.
LEMMA SweepKeeps ==
  ASSUME kind \in [Block -> Kind], WellFormed(kind), Sweep, NEW b \in Block
  PROVE  kind'[b] = IF \E h \in Marked : b \in Chain(kind, h)
                      THEN IF kind[b] = MARK THEN HEAD ELSE kind[b]
                      ELSE FREE
<1> DEFINE held == \E h \in Marked : b \in Chain(kind, h)
<1>1. kind'[b] = CASE kind[b] = MARK -> HEAD
                   [] kind[b] = HEAD -> FREE
                   [] kind[b] = FREE -> FREE
                   [] kind[b] = TAIL -> IF FreeTail(b) THEN FREE ELSE TAIL
  BY DEF Sweep
<1>2. ASSUME NEW h \in Marked, b \in Chain(kind, h), h # b PROVE kind[b] = TAIL /\ h < b
  BY <1>2, BlocksAssumption DEF Chain, Marked, Block
<1>3. CASE kind[b] = MARK
  <2>1. b \in Marked /\ b \in Chain(kind, b)
    BY <1>3, BlocksAssumption DEF Marked, Chain, Block
  <2>2. kind'[b] = HEAD
    BY <1>1, <1>3 DEF FREE, HEAD, TAIL, MARK
  <2> QED BY <1>3, <2>1, <2>2
<1>4. CASE kind[b] \in {HEAD, FREE}
  <2>1. ~held
    BY <1>2, <1>4 DEF Marked, FREE, HEAD, TAIL, MARK
  <2>2. kind'[b] = FREE
    BY <1>1, <1>4 DEF FREE, HEAD, TAIL, MARK
  <2> QED BY <2>1, <2>2
<1>5. CASE kind[b] = TAIL
  <2>1. kind'[b] = IF FreeTail(b) THEN FREE ELSE TAIL
    BY <1>1, <1>5 DEF FREE, HEAD, TAIL, MARK
  <2>2. ASSUME FreeTail(b), NEW h \in Marked, b \in Chain(kind, h) PROVE FALSE
    <3>1. PICK c \in 0..(b - 1) : kind[c] = HEAD /\ \A d \in c..(b - 1) : kind[d] # MARK
      BY <2>2 DEF FreeTail
    <3>2. h # b
      BY <1>5, <2>2 DEF Marked, TAIL, MARK
    <3>3. kind[h] = MARK /\ h < b /\ h \in Block
      BY <1>2, <2>2, <3>2 DEF Marked
    <3>4. h < c
      <4>1. ~(h \in c..(b - 1))
        BY <3>1, <3>3
      <4> QED BY <3>1, <3>3, <4>1, BlocksAssumption DEF Block
    <3>5. c \in (h + 1)..b
      BY <3>1, <3>3, <3>4, BlocksAssumption DEF Block
    <3>6. kind[c] = TAIL
      BY <2>2, <3>5 DEF Chain
    <3> QED BY <3>1, <3>6 DEF HEAD, TAIL
  <2>3. ASSUME ~FreeTail(b) PROVE held
    <3>1. PICK h \in Heads(kind) : h < b /\ b \in Chain(kind, h)
      BY <1>5, TailHasHead
    <3>2. ASSUME kind[h] # MARK PROVE FALSE
      <4>1. kind[h] = HEAD /\ h \in 0..(b - 1)
        BY <3>1, <3>2, BlocksAssumption DEF Heads, Block
      <4>2. ASSUME NEW d \in h..(b - 1) PROVE kind[d] # MARK
        <5>1. d = h \/ d \in (h + 1)..b
          BY <3>1, BlocksAssumption DEF Heads, Block
        <5>2. d \in (h + 1)..b => kind[d] = TAIL
          BY <3>1 DEF Chain
        <5> QED BY <4>1, <5>1, <5>2 DEF HEAD, TAIL, MARK
      <4> QED BY <2>3, <4>1, <4>2 DEF FreeTail
    <3>3. h \in Marked
      BY <3>1, <3>2 DEF Marked, Heads
    <3> QED BY <3>1, <3>3
  <2> QED BY <1>5, <2>1, <2>2, <2>3 DEF TAIL, MARK
<1> QED BY <1>3, <1>4, <1>5 DEF Kind

-----------------------------------------------------------------------------
(* The refinement.                                                         *)

LEMMA PlainShape ==
  ASSUME kind \in [Block -> Kind]
  PROVE  /\ Plain \in [Block -> {FREE, HEAD, TAIL}] /\ Plain \in [Block -> Kind]
         /\ SameShape(kind, Plain)
BY DEF Plain, SameShape, Kind, FREE, HEAD, TAIL, MARK

LEMMA InitImplements == Init => Whole!Init
<1> SUFFICES ASSUME Init PROVE Whole!Init
  OBVIOUS
<1>1. IInv /\ pc = "roots"
  BY InitInv DEF Init
<1>2. WellFormed(kind) /\ kind \in [Block -> Kind]
  BY <1>1 DEF IInv, Phases, TypeOK
<1>3. WellFormed(Plain) /\ Plain \in [Block -> {FREE, HEAD, TAIL}]
  BY <1>2, PlainShape, Shape
<1> QED BY <1>1, <1>3 DEF Whole!Init, Whole!Block, Whole!WellFormed, Block, WellFormed,
           Whole!FREE, Whole!HEAD, Whole!TAIL, FREE, HEAD, TAIL

LEMMA StepImplements ==
  ASSUME IInv, Next
  PROVE  Whole!Collect \/ UNCHANGED Whole!vars
<1>1. TypeOK /\ kind \in [Block -> Kind]
  BY DEF IInv, TypeOK
<1>2. CASE Marker
  <2>1. Marks
    BY <1>1, <1>2, StepMarks DEF Marker
  <2>2. Plain' = Plain
    <3>1. \A b \in Block : (IF kind'[b] = MARK THEN HEAD ELSE kind'[b])
                           = (IF kind[b] = MARK THEN HEAD ELSE kind[b])
      BY <1>1, <2>1 DEF Marks, SameShape, Kind, FREE, HEAD, TAIL, MARK
    <3> QED BY <3>1 DEF Plain
  <2>3. ptrs' = ptrs /\ RootSet' = RootSet
    BY <2>1 DEF Marks, RootSet
  <2>4. pc # "done" /\ pc' # "done"
    BY <1>1, <1>2 DEF Marker, CollectRoot, MarkWord, RootsDone, DealWithOverflow, Rescan, TypeOK
  <2> QED BY <2>2, <2>3, <2>4 DEF Whole!vars
<1>3. CASE Sweep
  <2>1. pc = "sweep" /\ pc' = "done" /\ ptrs' = ptrs /\ roots' = roots
    BY <1>3 DEF Sweep
  <2>2. WellFormed(kind) /\ Marked = Reachable(kind, ptrs, RootSet)
    BY <2>1, MarkedReached DEF IInv, Phases, MarkedIsReachable, Marked
  <2>3. /\ Reachable(Plain, ptrs, RootSet) = Marked
        /\ \A h \in Block : Chain(Plain, h) = Chain(kind, h)
    BY <1>1, <2>2, PlainShape, Shape
  <2>4. ASSUME NEW b \in Block
        PROVE  (IF kind'[b] = MARK THEN HEAD ELSE kind'[b])
                 = IF \E h \in Marked : b \in Chain(Plain, h) THEN Plain[b] ELSE FREE
    <3>1. kind'[b] = IF \E h \in Marked : b \in Chain(kind, h)
                       THEN IF kind[b] = MARK THEN HEAD ELSE kind[b]
                       ELSE FREE
      BY <1>1, <1>3, <2>2, SweepKeeps
    <3>2. (\E h \in Marked : b \in Chain(kind, h)) <=> \E h \in Marked : b \in Chain(Plain, h)
      BY <2>3 DEF Marked
    <3>3. Plain[b] = IF kind[b] = MARK THEN HEAD ELSE kind[b]
      BY DEF Plain
    <3> QED BY <3>1, <3>2, <3>3 DEF FREE, HEAD, TAIL, MARK
  <2>5. Plain' = Kept(Plain, Reachable(Plain, ptrs, RootSet))
    BY <2>3, <2>4 DEF Plain, Kept
  <2>6. Kept(Plain, Reachable(Plain, ptrs, RootSet))
          = Whole!Kept(Plain, Whole!Reachable(Plain, ptrs, RootSet))
    BY DEF Whole!Kept, Whole!Reachable, Whole!Closed, Whole!Rooted, Whole!Children, Whole!Chain,
           Whole!Heads, Whole!Block, Whole!FREE, Whole!HEAD, Whole!TAIL, Whole!MARK,
           Kept, Reachable, Closed, Rooted, Children, Chain, Heads, Block, FREE, HEAD, TAIL, MARK
  <2>7. RootSet' = RootSet
    BY <2>1 DEF RootSet
  <2> QED BY <2>1, <2>5, <2>6, <2>7 DEF Whole!Collect
<1>4. CASE Done
  BY <1>4 DEF Done, vars, Whole!vars, Plain, RootSet
<1> QED BY <1>2, <1>3, <1>4 DEF Next, Marker

\* A collection frees the chunks that cannot be reached, and no other, for heaps
\* and stacks of every size (gc.c:260, gc.c:274).
THEOREM Implements == Spec => CollectsExactly
<1>1. IInv /\ [Next]_vars => [Whole!Collect]_(Whole!vars)
  <2>1. UNCHANGED vars => UNCHANGED Whole!vars
    BY DEF vars, Whole!vars, Plain, RootSet
  <2> QED BY <2>1, StepImplements
<1> QED BY <1>1, InitImplements, Inductive, PTL DEF Spec, CollectsExactly, Whole!Spec
=============================================================================

------------------------------ MODULE MCGcMark ------------------------------
(***************************************************************************)
(* Heaps for TLC: every graph of a chunk of three words and chunks of one; *)
(* of two chunks with a gap and two roots; words that may point anywhere,  *)
(* into a chunk and to free blocks too; and, up to the last block, chunks  *)
(* of which a second scan of the heap overflows the stack again.           *)
(***************************************************************************)
EXTENDS GcMark

Shape(s) == [b \in Block |-> IF b < Len(s) THEN s[b + 1] ELSE FREE]
Words(table, targets) ==
  LET used == {b \in Block : table[b] # FREE}
  IN {[b \in Block |-> IF b \in used THEN q[b] ELSE NULL] : q \in [used -> targets]}
HeapsOf(table, words, first, second) ==
  {[kind |-> table, ptrs |-> p, roots |-> <<f, s>>] : p \in words, f \in first, s \in second}

GraphsOf(s, second) ==
  LET targets == Heads(Shape(s)) \cup {NULL}
  IN HeapsOf(Shape(s), Words(Shape(s), targets), targets, second)

Anywhere ==
  LET table == Shape(<<HEAD, TAIL, HEAD>>)
      targets == {0, 1, 2, 3, NULL}
  IN HeapsOf(table, Words(table, targets), targets, targets)

\* The chunk of blocks 1 and 2 overflows the stack with 4, the chunk of blocks 4
\* and 5 with 0, which the second scan has passed by then.
Overflowing ==
  LET table == Shape(<<HEAD, HEAD, TAIL, HEAD, HEAD, TAIL, HEAD, HEAD>>)
      usual == <<7, 3, 4, NULL, 6, 0, NULL, NULL>>
      word(b, held, back) ==
        IF b \in back THEN 0 ELSE IF b \in held THEN usual[b + 1] ELSE NULL
  IN HeapsOf(table,
             {[b \in Block |-> word(b, held, back)] :
                held \in SUBSET {0, 1, 2, 4, 5}, back \in SUBSET {3, 4, 6}},
             {1}, {NULL, 6})

MCHeaps == GraphsOf(<<HEAD, TAIL, TAIL, HEAD, HEAD>>, {NULL, 4})
             \cup GraphsOf(<<HEAD, HEAD, FREE, HEAD, TAIL>>, {NULL, 3})
             \cup Anywhere \cup Overflowing
=============================================================================

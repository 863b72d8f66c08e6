------------------------------ MODULE GcBlocks ------------------------------
(***************************************************************************)
(* The heap of MicroPython (py/gc.c): a table with the kind of each block, *)
(* in which a chunk is a head and the tails behind it, and what the blocks *)
(* hold.  Each block has one word here: a chunk has as many pointers as    *)
(* blocks, which is enough to form every graph of chunks.                  *)
(***************************************************************************)
EXTENDS Integers, FiniteSets

CONSTANTS NULL,
          N          \* blocks of the pool: gc_alloc_table_byte_len * BLOCKS_PER_ATB

ASSUME BlocksAssumption == N \in Nat \ {0} /\ NULL \notin Int

Block == 0..(N - 1)
Pointer == Block \cup {NULL}    \* what passes VERIFY_PTR, or anything else

FREE == "free"
HEAD == "head"
TAIL == "tail"
MARK == "mark"
Kind == {FREE, HEAD, TAIL, MARK}

\* A tail follows the head or a tail of its chunk.
WellFormed(kind) == \A b \in Block : kind[b] = TAIL => b - 1 \in Block /\ kind[b - 1] # FREE

Heads(kind) == {b \in Block : kind[b] \in {HEAD, MARK}}

\* The blocks of the chunk that starts with block h.
Chain(kind, h) == {b \in h..(N - 1) : \A c \in (h + 1)..b : kind[c] = TAIL}

Children(kind, ptrs, h) == {c \in Heads(kind) : \E b \in Chain(kind, h) : ptrs[b] = c}

Rooted(kind, roots) == {h \in Heads(kind) : h \in roots}

\* The sets of chunks that hold what the roots and their own members point to.
Closed(kind, ptrs, roots) ==
  {S \in SUBSET Heads(kind) : /\ Rooted(kind, roots) \subseteq S
                              /\ \A h \in S : Children(kind, ptrs, h) \subseteq S}

Reachable(kind, ptrs, roots) ==
  {h \in Heads(kind) : \A S \in Closed(kind, ptrs, roots) : h \in S}

\* The heap in which the chunks in keep are left.
Kept(kind, keep) ==
  [b \in Block |-> IF \E h \in keep : b \in Chain(kind, h) THEN kind[b] ELSE FREE]
=============================================================================

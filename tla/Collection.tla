----------------------------- MODULE Collection -----------------------------
(***************************************************************************)
(* What a collection of the garbage collector is for: in one step it frees *)
(* the chunks that cannot be reached, and no other.                        *)
(***************************************************************************)
EXTENDS GcBlocks

VARIABLES kind, ptrs, roots, collected

vars == <<kind, ptrs, roots, collected>>

Init == /\ kind \in [Block -> {FREE, HEAD, TAIL}] /\ WellFormed(kind)
        /\ collected = FALSE

Collect == /\ ~collected /\ collected' = TRUE
           /\ kind' = Kept(kind, Reachable(kind, ptrs, roots))
           /\ UNCHANGED <<ptrs, roots>>

Spec == Init /\ [][Collect]_vars
=============================================================================

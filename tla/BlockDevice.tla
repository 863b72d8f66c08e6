----------------------------- MODULE BlockDevice -----------------------------
(* What the external flash promises the file system: a block reads as it was   *)
(* last written.  A power failure or a failed flash command may damage blocks,  *)
(* but only those of one sector and one block more: the rest is safe, and       *)
(* without a failure nothing but the block being written changes.             *)
CONSTANTS Sector, Index, Data, Content, NULL

VARIABLES
  disk,    \* what reading a block returns
  todo,    \* the block to be written and its data, or NULL
  risk,    \* the blocks that a failure may damage
  failed,  \* a command failed on the sector at risk
  mishap   \* a command or the power failed just now

Block == Sector \X Index
SectorBlocks(s) == {s} \X Index
AtMostOneSector(S) ==
  \E s \in Sector, b \in Block : S \subseteq SectorBlocks(s) \cup {b}

Init ==
  /\ disk \in [Block -> Content] /\ todo = NULL
  /\ risk = {} /\ failed = FALSE /\ mishap = FALSE

Start(b, d) == todo = NULL /\ todo' = [block |-> b, data |-> d] /\ UNCHANGED disk
Write ==
  /\ todo # NULL
  /\ disk' = [disk EXCEPT ![todo.block] = todo.data]
  /\ todo' = NULL
Damage ==
  /\ failed \/ mishap'
  /\ \A b \in Block \ risk : disk'[b] = disk[b]
  /\ todo' \in {todo, NULL}
Arrange == UNCHANGED <<disk, todo>>

Next ==
  /\ disk' \in [Block -> Content]
  /\ AtMostOneSector(risk')
  /\ failed' => failed \/ mishap'
  /\ (\E b \in Block, d \in Data : Start(b, d)) \/ Write \/ Damage \/ Arrange

Spec == Init /\ [][Next]_<<disk, todo, risk, failed, mishap>>
=============================================================================

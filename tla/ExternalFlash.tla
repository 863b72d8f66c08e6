--------------------------- MODULE ExternalFlash ---------------------------
(***************************************************************************)
(* external_flash.c: 512-byte blocks on a serial flash that can only be     *)
(* erased by sectors of eight blocks.  Writes collect in a copy of one      *)
(* sector, in RAM or, when memory is short, in a scratch sector of the      *)
(* flash; the copy is written back when another sector, or a block already   *)
(* in it, is written, and on a flush.  A block that reads as erased is       *)
(* programmed directly.                                                     *)
(*                                                                         *)
(* All of this runs in the main thread.  A step ends where a power failure   *)
(* would leave a different flash, or where a command may fail; what the file *)
(* system was promised is kept in `disk'.                                   *)
(***************************************************************************)
EXTENDS Integers

CONSTANTS
  Sector,         \* the sectors of the file system
  PerSector,      \* blocks in a sector
  Data,           \* the contents a block may be given
  Erased,         \* a block of ones, one of Data
  Garbage,        \* what is left of a block that was torn or programmed twice
  LooksErased,    \* other contents that begin with four bytes of ones
  OverRead,       \* what the loop over short_buffer may find beyond its end
  RewritesErased, \* the host may rewrite a cached block that is erased on flash
  Failures,       \* the failures that may happen: "power", "command"
  NULL            \* the null pointer, and NO_SECTOR_LOADED

Index == 0 .. PerSector - 1
Block == Sector \X Index
Content == Data \cup {Garbage}
Requests == [block : Block, data : Data]

ASSUME GeometryAssumption ==
  PerSector \in Nat \ {0} /\ Sector # {} /\ NULL \notin Sector
ASSUME ContentAssumption ==
  /\ Erased \in Data /\ Garbage \notin Data
  /\ LooksErased \subseteq Content \ {Erased}
  /\ NULL \notin [Index -> Content] /\ NULL \notin Requests
ASSUME EnvironmentAssumption ==
  /\ OverRead \subseteq BOOLEAN
  /\ RewritesErased \in BOOLEAN
  /\ Failures \subseteq {"power", "command"}

\* The use under which the cache keeps its promises.
SafeUse == LooksErased = {} /\ ~RewritesErased

VARIABLES
  flash,           \* the blocks of the file system
  scratch,         \* the blocks of the scratch sector
  current_sector,
  dirty_mask,      \* the blocks of current_sector that live in the cache
  flash_ram_cache, \* the cache in RAM; NULL: it is in the scratch sector
  pc,              \* the next step of the operation in progress
  request,         \* the block being written and its data; NULL: a flush
  next,            \* the block the write-back of a sector is at
  failed,          \* not in the code: a command failed since the sector was loaded
  mishap,          \* not in the code: in the last step a command or the power failed
  disk             \* what was last written to every block, or is left of it

media == <<flash, scratch>>
cached == <<current_sector, dirty_mask, flash_ram_cache>>
operation == <<pc, request, next, failed>>
vars == <<media, cached, operation, mishap, disk>>

CommandFails == "command" \in Failures /\ failed' = TRUE /\ mishap' = TRUE
CommandWorks == mishap' = FALSE /\ UNCHANGED failed

----------------------------------------------------------------------------
(* The flash: programming can only clear bits, and a block of ones is not      *)
(* programmed at all.                                                         *)
Programmed(old, new) ==
  IF new = Erased THEN old ELSE IF old \in {Erased, new} THEN new ELSE Garbage

(* page_erased: the four bytes are compared, then the loop over the full block *)
(* indexes short_buffer past its end.  A failed read counts as not erased.     *)
page_erased(b) ==
  (IF flash[b] \in LooksErased \cup {Erased} THEN OverRead ELSE {FALSE})
    \cup (IF "command" \in Failures THEN {FALSE} ELSE {})

(* external_flash_read_block.                                                *)
InCacheOfAnySector(s, i) == i \in dirty_mask
InCache(s, i) == current_sector = s /\ i \in dirty_mask
Copy == IF flash_ram_cache = NULL THEN scratch ELSE flash_ram_cache
Read(b) == IF InCache(b[1], b[2]) THEN Copy[b[2]] ELSE flash[b]

(* The blocks that a failure may damage: those of the sector that is cached,   *)
(* and one that is programmed directly.                                      *)
Current == {b \in Block : b[1] = current_sector}
AtRisk == Current \cup (IF pc = "direct" THEN {request.block} ELSE {})
DamageSeen == disk' = [b \in Block |-> IF b \in AtRisk THEN Read(b)' ELSE disk[b]]

(* external_flash_init.                                                      *)
Init ==
  /\ flash \in [Block -> Data] /\ scratch = [i \in Index |-> Erased]
  /\ current_sector = NULL /\ dirty_mask = {} /\ flash_ram_cache = NULL
  /\ pc = "idle" /\ request = NULL /\ next = 0 /\ failed = FALSE /\ mishap = FALSE
  /\ disk = flash

----------------------------------------------------------------------------
(* external_flash_write_block.                                               *)

OtherSector(b) == current_sector # b[1]
NewCopyNeeded(b) == current_sector # b[1] \/ b[2] \in dirty_mask

WriteStart(b, d) ==
  /\ pc = "idle"
  /\ InCache(b[1], b[2]) /\ flash[b] = Erased => RewritesErased
  /\ request' = [block |-> b, data |-> d]
  /\ pc' = IF NewCopyNeeded(b) THEN "test" ELSE "store"
  /\ CommandWorks
  /\ UNCHANGED <<media, cached, next, disk>>

TestErased ==
  /\ pc = "test"
  /\ \E erased \in page_erased(request.block) :
       pc' = IF erased THEN "direct" ELSE IF current_sector = NULL THEN "load" ELSE "fill"
  /\ CommandWorks
  /\ UNCHANGED <<media, cached, request, next, disk>>

Done == pc' = "idle" /\ request' = NULL /\ UNCHANGED next

ProgramDirect ==
  /\ pc = "direct"
  /\ \/ /\ flash' = [flash EXCEPT ![request.block] = Programmed(@, request.data)]
        /\ disk' = [disk EXCEPT ![request.block] = request.data]
        /\ mishap' = FALSE
     \/ /\ "command" \in Failures
        /\ flash' \in {flash, [flash EXCEPT ![request.block] = Garbage]}
        /\ disk' = [disk EXCEPT ![request.block] = flash'[request.block]]
        /\ mishap' = TRUE
  /\ Done
  /\ UNCHANGED <<scratch, cached, failed>>

(* The cache goes to RAM that is left from before or allocated now, or, if      *)
(* there is none, to the scratch sector, which is erased.                     *)
MaskKept == dirty_mask
NewMask == {}
Load ==
  /\ pc = "load"
  /\ current_sector' = request.block[1]
  /\ dirty_mask' = NewMask
  /\ \/ /\ flash_ram_cache' = [i \in Index |-> Garbage]
        /\ CommandWorks
        /\ UNCHANGED scratch
     \/ /\ flash_ram_cache = NULL
        /\ \/ CommandWorks /\ scratch' = [i \in Index |-> Erased]
           \/ CommandFails /\ UNCHANGED scratch
        /\ UNCHANGED flash_ram_cache
  /\ pc' = "store"
  /\ UNCHANGED <<flash, request, next, disk>>

Store ==
  LET i == request.block[2] IN
  /\ pc = "store"
  /\ dirty_mask' = dirty_mask \cup {i}
  /\ \/ /\ flash_ram_cache # NULL
        /\ flash_ram_cache' = [flash_ram_cache EXCEPT ![i] = request.data]
        /\ CommandWorks
        /\ UNCHANGED scratch
     \/ /\ flash_ram_cache = NULL
        /\ \/ CommandWorks /\ scratch' = [scratch EXCEPT ![i] = Programmed(@, request.data)]
           \/ CommandFails /\ scratch' \in {scratch, [scratch EXCEPT ![i] = Garbage]}
        /\ UNCHANGED flash_ram_cache
  /\ Done
  /\ UNCHANGED <<flash, current_sector>>
  /\ disk' = [b \in Block |-> IF b # request.block THEN disk[b]
                              ELSE IF failed' THEN Read(b)' ELSE request.data]

----------------------------------------------------------------------------
(* spi_flash_flush_keep_cache: called by external_flash_flush and, to make     *)
(* room, by external_flash_write_block, which keeps the RAM.                   *)

Flush ==
  /\ pc = "idle" /\ current_sector # NULL
  /\ pc' = "fill"
  /\ CommandWorks
  /\ UNCHANGED <<media, cached, request, next, disk>>

Flushed ==
  /\ pc' = IF request = NULL THEN "idle" ELSE "load"
  /\ current_sector' = NULL
  /\ failed' = FALSE
  /\ UNCHANGED <<dirty_mask, request>>

(* The blocks of the sector that were not written are added to the copy.       *)
NoneUntouched == {}
Untouched == Index \ dirty_mask
CopyWith(S) ==
  [i \in Index |-> IF i \notin S THEN Copy[i]
                   ELSE IF flash_ram_cache # NULL THEN flash[<<current_sector, i>>]
                   ELSE Programmed(scratch[i], flash[<<current_sector, i>>])]
FillCopy(S) ==
  \/ flash_ram_cache # NULL /\ flash_ram_cache' = CopyWith(S) /\ UNCHANGED scratch
  \/ flash_ram_cache = NULL /\ scratch' = CopyWith(S) /\ UNCHANGED flash_ram_cache

Fill ==
  /\ pc = "fill"
  /\ FillCopy(Untouched)
  /\ pc' = "erase"
  /\ CommandWorks
  /\ UNCHANGED <<flash, current_sector, dirty_mask, request, next, disk>>

(* Both flushes return false, which nobody looks at; RAM is not given back.     *)
FillFails ==
  /\ pc = "fill" /\ "command" \in Failures
  /\ \E S \in SUBSET Untouched : FillCopy(S)
  /\ Flushed
  /\ mishap' = TRUE
  /\ UNCHANGED <<flash, next>>
  /\ DamageSeen

EraseSector ==
  /\ pc = "erase"
  /\ \/ /\ CommandWorks
        /\ flash' = [b \in Block |-> IF b \in Current THEN Erased ELSE flash[b]]
     \/ CommandFails /\ UNCHANGED flash
  /\ pc' = "rewrite"
  /\ UNCHANGED <<scratch, cached, request, next, disk>>

BlockRewritten(ok) ==
  LET b == <<current_sector, next>> IN
  \/ ok /\ flash' = [flash EXCEPT ![b] = Programmed(@, Copy[next])]
  \/ ~ok /\ "command" \in Failures /\ flash' \in {flash, [flash EXCEPT ![b] = Garbage]}

OneTooMany == next = PerSector
LastBlock == next = PerSector - 1

Rewrite ==
  /\ pc = "rewrite" /\ ~LastBlock
  /\ \E ok \in BOOLEAN : BlockRewritten(ok) /\ failed' = (failed \/ ~ok) /\ mishap' = ~ok
  /\ next' = next + 1
  /\ UNCHANGED <<scratch, cached, pc, request, disk>>

RewriteLast ==
  /\ pc = "rewrite" /\ LastBlock
  /\ Flushed
  /\ flash_ram_cache' = IF request = NULL THEN NULL ELSE flash_ram_cache
  /\ next' = 0
  /\ UNCHANGED scratch
  /\ \E ok \in BOOLEAN :
       /\ BlockRewritten(ok) /\ mishap' = ~ok
       /\ IF ok /\ ~failed THEN UNCHANGED disk ELSE DamageSeen

----------------------------------------------------------------------------
(* The power fails: blocks that are being erased or programmed are torn, and    *)
(* nothing in RAM is left.  The scratch sector is not looked at again.         *)
InProgress ==
  CASE pc = "erase" -> Current
    [] pc = "rewrite" -> {<<current_sector, next>>}
    [] pc = "direct" -> {request.block}
    [] OTHER -> {}

PowerFails ==
  /\ "power" \in Failures
  /\ \E torn \in SUBSET InProgress :
       flash' = [b \in Block |-> IF b \in torn THEN Garbage ELSE flash[b]]
  /\ current_sector' = NULL /\ dirty_mask' = {} /\ flash_ram_cache' = NULL
  /\ pc' = "idle" /\ request' = NULL /\ next' = 0 /\ failed' = FALSE /\ mishap' = TRUE
  /\ UNCHANGED scratch
  /\ DamageSeen

----------------------------------------------------------------------------
Next ==
  \/ \E b \in Block, d \in Data : WriteStart(b, d)
  \/ TestErased \/ ProgramDirect \/ Load \/ Store
  \/ Flush \/ Fill \/ FillFails \/ EraseSector \/ Rewrite \/ RewriteLast
  \/ PowerFails

Spec == Init /\ [][Next]_vars

----------------------------------------------------------------------------
(* What must hold.                                                          *)

(* The state has the shape the code gives it.                               *)
TypeOK ==
  /\ flash \in [Block -> Content] /\ disk \in [Block -> Content]
  /\ scratch \in [Index -> Content]
  /\ current_sector \in Sector \cup {NULL}
  /\ dirty_mask \in SUBSET Index
  /\ flash_ram_cache \in [Index -> Content] \cup {NULL}
  /\ pc \in {"idle", "test", "direct", "load", "store", "fill", "erase", "rewrite"}
  /\ request \in Requests \cup {NULL}
  /\ next \in Index /\ failed \in BOOLEAN /\ mishap \in BOOLEAN

(* A block reads as it was last written, through the copy, its flushes and the  *)
(* direct writes, until a failure damages it.  What a failure may damage is in  *)
(* AtRisk: every other block still reads the same after it.                  *)
ReadsLastWrite == pc = "idle" => \A b \in Block : Read(b) = disk[b]

(* The sector is only erased when the copy holds all of it: the blocks written  *)
(* and those that were not.                                                  *)
CopyIsComplete ==
  pc \in {"erase", "rewrite"} /\ ~failed =>
    \A i \in Index : Copy[i] = disk[<<current_sector, i>>]

(* Of the sector being rewritten and of the scratch sector, write_flash is only *)
(* given blocks that are erased; a direct write has page_erased to tell it so.  *)
ProgramsErased ==
  /\ pc = "rewrite" /\ ~failed => flash[<<current_sector, next>>] = Erased
  /\ pc = "store" /\ flash_ram_cache = NULL /\ ~failed => scratch[request.block[2]] = Erased

(* Without a failure flushing changes no block, and a write changes the one it   *)
(* is for; a failure of a command or of the power changes at most the blocks of  *)
(* the cached sector and one more: the cache implements a block device.        *)
View ==
  [b \in Block |-> IF b \in Current /\ pc \in {"erase", "rewrite"} THEN Copy[b[2]]
                   ELSE Read(b)]
Device == INSTANCE BlockDevice WITH disk <- View, todo <- request, risk <- AtRisk
DamageIsLocal == Device!Spec

----------------------------------------------------------------------------
(* The inductive invariant behind the safety properties.                     *)

Flushing == {"fill", "erase", "rewrite"}
Writing == {"test", "direct", "load", "store"}

(* What each step knows of the request and of the cached sector.              *)
RequestInv ==
  /\ pc = "idle" => request = NULL
  /\ pc \in Writing => request # NULL
  /\ pc \in Flushing => current_sector # NULL
  /\ pc = "load" => current_sector = NULL
  /\ pc = "store" =>
       request.block[1] = current_sector /\ request.block[2] \notin dirty_mask
  /\ pc \in {"test", "direct"} /\ InCache(request.block[1], request.block[2]) =>
       flash[request.block] # Erased
  /\ pc = "direct" => flash[request.block] = Erased
  /\ current_sector = NULL => ~failed
  /\ pc # "rewrite" => next = 0

(* The blocks of the scratch sector that are not in use are erased.           *)
ScratchInv ==
  current_sector # NULL /\ flash_ram_cache = NULL /\ ~failed /\ pc \notin {"erase", "rewrite"} =>
    \A i \in Index \ dirty_mask : scratch[i] = Erased

(* Where each block is found while its sector is erased and rewritten.        *)
DataInv ==
  /\ pc \notin {"erase", "rewrite"} => \A b \in Block : Read(b) = disk[b]
  /\ pc \in {"erase", "rewrite"} => \A b \in Block \ Current : flash[b] = disk[b]
  /\ CopyIsComplete
  /\ pc = "rewrite" /\ ~failed => \A i \in Index :
       flash[<<current_sector, i>>] = IF i < next THEN disk[<<current_sector, i>>] ELSE Erased

IInv == TypeOK /\ RequestInv /\ ScratchInv /\ DataInv
=============================================================================

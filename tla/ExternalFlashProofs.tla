------------------------- MODULE ExternalFlashProofs -------------------------
(* Proofs about ExternalFlash, for any number of sectors and blocks.          *)
EXTENDS ExternalFlash, TLAPS

(* A block is its sector and its place in it.                                *)
LEMMA BlockParts ==
  /\ \A b \in Block : b[1] \in Sector /\ b[2] \in Index /\ b = <<b[1], b[2]>>
  /\ \A s \in Sector, i \in Index : <<s, i>> \in Block
BY DEF Block

(* write_flash gives an erased block its data, and garbles no more than that.  *)
LEMMA ProgrammedBlock ==
  /\ \A new : Programmed(Erased, new) = new
  /\ \A old, new \in Content : Programmed(old, new) \in Content
BY ContentAssumption DEF Programmed, Content

LEMMA CopyType == TypeOK => Copy \in [Index -> Content]
BY DEF TypeOK, Copy

LEMMA CopyWithType ==
  TypeOK /\ current_sector # NULL =>
    \A S : CopyWith(S) \in [Index -> Content]
<1> SUFFICES ASSUME TypeOK, current_sector # NULL, NEW S
             PROVE  CopyWith(S) \in [Index -> Content]
  OBVIOUS
<1>1. \A i \in Index : Copy[i] \in Content /\ flash[<<current_sector, i>>] \in Content /\ scratch[i] \in Content
  BY CopyType, BlockParts DEF TypeOK
<1> QED BY <1>1, ProgrammedBlock DEF CopyWith

LEMMA ReadType == TypeOK => \A b \in Block : Read(b) \in Content
<1> SUFFICES ASSUME TypeOK, NEW b \in Block PROVE Read(b) \in Content
  OBVIOUS
<1> QED BY CopyType, BlockParts DEF TypeOK, Read

----------------------------------------------------------------------------
(* The initial states satisfy the invariant.                                *)
LEMMA InitEstablishes == Init => IInv
<1> SUFFICES ASSUME Init PROVE IInv
  OBVIOUS
<1> USE GeometryAssumption, ContentAssumption
<1>1. TypeOK
  <2>1. 0 \in Index /\ Data \subseteq Content /\ Erased \in Content
    BY DEF Index, Content
  <2>2. flash \in [Block -> Content] /\ disk \in [Block -> Content]
    BY <2>1 DEF Init
  <2>3. scratch \in [Index -> Content]
    BY <2>1 DEF Init
  <2> QED BY ONLY <2>1, <2>2, <2>3, Init DEF Init, TypeOK
<1>2. RequestInv /\ ScratchInv
  BY DEF Init, RequestInv, ScratchInv, Writing, Flushing
<1>3. DataInv
  BY DEF Init, DataInv, CopyIsComplete, Read, InCache
<1> QED BY <1>1, <1>2, <1>3 DEF IInv

(* Starting a write, and finding out whether its page is erased.             *)
LEMMA WriteStartKeeps ==
  ASSUME SafeUse, IInv, NEW b \in Block, NEW d \in Data, WriteStart(b, d)
  PROVE  IInv'
<1> USE GeometryAssumption, ContentAssumption DEF IInv
<1>0. mishap' \in BOOLEAN
  BY DEF WriteStart, CommandWorks
<1>1. request' \in Requests /\ request'.block = b /\ pc' \in {"test", "store"}
  BY DEF WriteStart, Requests
<1>2. UNCHANGED <<flash, scratch, current_sector, dirty_mask, flash_ram_cache, next, failed, disk>> /\ pc = "idle"
  BY DEF WriteStart, CommandWorks, media, cached
<1>3. TypeOK'
  BY <1>0, <1>1, <1>2 DEF TypeOK
<1>4. RequestInv'
  <2>1. InCache(b[1], b[2]) => flash[b] # Erased
    BY DEF WriteStart, SafeUse
  <2>2. pc' = "store" => b[1] = current_sector /\ b[2] \notin dirty_mask
    BY DEF WriteStart, NewCopyNeeded
  <2> QED BY <1>1, <1>2, <2>1, <2>2 DEF RequestInv, Writing, Flushing, InCache
<1>5. ScratchInv'
  BY <1>1, <1>2 DEF ScratchInv
<1>6. DataInv'
  BY <1>1, <1>2 DEF DataInv, CopyIsComplete, Read, InCache, Copy, Current
<1> QED BY <1>3, <1>4, <1>5, <1>6

LEMMA TestErasedKeeps == ASSUME SafeUse, IInv, TestErased PROVE IInv'
<1> USE GeometryAssumption, ContentAssumption DEF IInv
<1>0. mishap' \in BOOLEAN
  BY DEF TestErased, CommandWorks
<1>1. pc = "test" /\ pc' \in {"direct", "load", "fill"}
  BY DEF TestErased
<1>2. UNCHANGED <<flash, scratch, current_sector, dirty_mask, flash_ram_cache, request, next, failed, disk>>
  BY DEF TestErased, CommandWorks, media, cached
<1>3. TypeOK'
  BY <1>0, <1>1, <1>2 DEF TypeOK
<1>4. RequestInv'
  <2>1. pc' = "direct" => flash[request.block] = Erased
    BY EnvironmentAssumption DEF TestErased, page_erased, SafeUse
  <2>2. pc' = "load" => current_sector = NULL
    BY DEF TestErased
  <2>3. pc' = "fill" => current_sector # NULL
    BY DEF TestErased
  <2> QED BY <1>1, <1>2, <2>1, <2>2, <2>3 DEF RequestInv, Writing, Flushing, InCache
<1>5. ScratchInv'
  BY <1>1, <1>2 DEF ScratchInv
<1>6. DataInv'
  BY <1>1, <1>2 DEF DataInv, CopyIsComplete, Read, InCache, Copy, Current
<1> QED BY <1>3, <1>4, <1>5, <1>6

(* The direct write: the page is erased, and the block is not in the cache.    *)
LEMMA ProgramDirectKeeps == ASSUME IInv, ProgramDirect PROVE IInv'
<1> USE GeometryAssumption, ContentAssumption DEF IInv
<1>0. mishap' \in BOOLEAN
  BY DEF ProgramDirect
<1> DEFINE b == request.block
<1>1. pc = "direct" /\ b \in Block /\ request.data \in Data /\ flash[b] = Erased
  BY DEF ProgramDirect, TypeOK, RequestInv, Writing, Requests
<1>2. ~InCache(b[1], b[2])
  BY <1>1 DEF RequestInv
<1>3. UNCHANGED <<scratch, current_sector, dirty_mask, flash_ram_cache, failed, next>>
      /\ pc' = "idle" /\ request' = NULL
  BY DEF ProgramDirect, cached, Done
<1>4. \E d \in Content : flash' = [flash EXCEPT ![b] = d] /\ disk' = [disk EXCEPT ![b] = d]
  <2>1. CASE /\ flash' = [flash EXCEPT ![b] = Programmed(@, request.data)]
             /\ disk' = [disk EXCEPT ![b] = request.data]
    BY <2>1, <1>1, ProgrammedBlock DEF Content, TypeOK
  <2>2. CASE /\ flash' \in {flash, [flash EXCEPT ![b] = Garbage]}
             /\ disk' = [disk EXCEPT ![b] = flash'[b]]
    <3>1. CASE flash' = flash
      BY <3>1, <2>2, <1>1 DEF TypeOK
    <3>2. CASE flash' = [flash EXCEPT ![b] = Garbage]
      BY <3>2, <2>2, <1>1 DEF TypeOK, Content
    <3> QED BY <2>2, <3>1, <3>2
  <2> QED BY <2>1, <2>2 DEF ProgramDirect
<1>5. TypeOK'
  BY <1>0, <1>1, <1>3, <1>4 DEF TypeOK
<1>6. RequestInv'
  BY <1>1, <1>3 DEF RequestInv, Writing, Flushing
<1>7. ScratchInv'
  BY <1>1, <1>3 DEF ScratchInv
<1>8. DataInv'
  <2>1. ASSUME NEW x \in Block PROVE Read(x)' = disk'[x]
    BY <1>1, <1>2, <1>3, <1>4, BlockParts DEF DataInv, Read, InCache, Copy, TypeOK
  <2> QED BY <2>1, <1>3 DEF DataInv, CopyIsComplete
<1> QED BY <1>5, <1>6, <1>7, <1>8

(* A sector is loaded: nothing of it is in the copy yet, and a copy in the     *)
(* scratch sector starts out erased unless that failed.                      *)
LEMMA LoadKeeps == ASSUME IInv, Load PROVE IInv'
<1> USE GeometryAssumption, ContentAssumption DEF IInv
<1>0. mishap' \in BOOLEAN
  BY DEF Load, CommandWorks, CommandFails
<1>1. /\ pc = "load" /\ current_sector = NULL /\ pc' = "store"
      /\ request \in Requests /\ current_sector' = request.block[1] /\ dirty_mask' = {}
      /\ UNCHANGED <<flash, request, next, disk>>
  BY DEF Load, NewMask, TypeOK, RequestInv, Writing
<1>2. request.block \in Block /\ current_sector' \in Sector
  BY <1>1, BlockParts DEF Requests
<1>3. \/ flash_ram_cache' = [i \in Index |-> Garbage] /\ UNCHANGED <<scratch, failed>>
      \/ /\ flash_ram_cache' = NULL /\ flash_ram_cache = NULL
         /\ \/ failed' = failed /\ scratch' = [i \in Index |-> Erased]
            \/ failed' = TRUE /\ scratch' = scratch
  BY DEF Load, CommandWorks, CommandFails
<1>4. TypeOK'
  <2>1. [i \in Index |-> Garbage] \in [Index -> Content] /\ [i \in Index |-> Erased] \in [Index -> Content]
    BY DEF Content
  <2>2. flash_ram_cache' \in [Index -> Content] \cup {NULL}
    BY <1>3, <2>1
  <2>3. scratch' \in [Index -> Content]
    BY <1>3, <2>1 DEF TypeOK
  <2>4. failed' \in BOOLEAN
    BY <1>3 DEF TypeOK
  <2> QED BY <1>0, <1>1, <1>2, <2>2, <2>3, <2>4 DEF TypeOK
<1>5. RequestInv'
  BY <1>1, <1>2 DEF RequestInv, Writing, Flushing
<1>6. ScratchInv'
  <2>1. [i \in Index |-> Garbage] # NULL
    BY DEF Content
  <2>2. flash_ram_cache' = NULL /\ failed' = FALSE => scratch' = [i \in Index |-> Erased]
    BY <1>3, <2>1
  <2> QED BY <2>2 DEF ScratchInv
<1>7. DataInv'
  <2>1. \A x \in Block : flash[x] = disk[x]
    BY <1>1, BlockParts DEF DataInv, Read, InCache
  <2>2. \A x \in Block : Read(x)' = disk'[x]
    BY <2>1, <1>1 DEF Read, InCache
  <2> QED BY <2>2, <1>1 DEF DataInv, CopyIsComplete
<1> QED BY <1>4, <1>5, <1>6, <1>7

(* The block goes into the copy: an erased place of it, or one in RAM.         *)
LEMMA StoreKeeps == ASSUME IInv, Store PROVE IInv'
<1> USE GeometryAssumption, ContentAssumption DEF IInv
<1>0. mishap' \in BOOLEAN
  BY DEF Store, CommandWorks, CommandFails
<1> DEFINE b == request.block
           i == request.block[2]
<1>1. /\ pc = "store" /\ pc' = "idle" /\ request' = NULL
      /\ dirty_mask' = dirty_mask \cup {i}
      /\ UNCHANGED <<flash, current_sector, next>>
  BY DEF Store, Done
<1>2. /\ b \in Block /\ request.data \in Data /\ b[1] = current_sector /\ i \notin dirty_mask
      /\ i \in Index /\ b = <<b[1], i>> /\ current_sector # NULL
  BY <1>1, BlockParts DEF TypeOK, RequestInv, Writing, Requests
<1>3. disk' = [x \in Block |-> IF x # b THEN disk[x] ELSE IF failed' THEN Read(x)' ELSE request.data]
  BY DEF Store
<1>4. \E d \in Content :
         /\ \/ /\ flash_ram_cache \in [Index -> Content]
               /\ flash_ram_cache' = [flash_ram_cache EXCEPT ![i] = d]
               /\ UNCHANGED scratch
            \/ flash_ram_cache = NULL /\ flash_ram_cache' = NULL /\ scratch' = [scratch EXCEPT ![i] = d]
         /\ failed' = FALSE => failed = FALSE /\ d = request.data
         /\ failed' \in BOOLEAN
  <2>1. CASE /\ flash_ram_cache # NULL
             /\ flash_ram_cache' = [flash_ram_cache EXCEPT ![i] = request.data]
             /\ CommandWorks /\ UNCHANGED scratch
    BY <2>1, <1>2 DEF CommandWorks, TypeOK, Content
  <2>2. CASE /\ flash_ram_cache = NULL /\ UNCHANGED flash_ram_cache
             /\ CommandWorks /\ scratch' = [scratch EXCEPT ![i] = Programmed(@, request.data)]
    <3>1. scratch[i] \in Content /\ Programmed(scratch[i], request.data) \in Content
      BY <1>2, ProgrammedBlock DEF TypeOK, Content
    <3>2. failed = FALSE => scratch[i] = Erased
      BY <2>2, <1>1, <1>2 DEF ScratchInv
    <3>3. failed = FALSE => Programmed(scratch[i], request.data) = request.data
      BY <3>2, ProgrammedBlock
    <3>4. scratch' = [scratch EXCEPT ![i] = Programmed(scratch[i], request.data)]
      BY <2>2
    <3>5. failed' = failed /\ failed \in BOOLEAN
      BY <2>2 DEF CommandWorks, TypeOK
    <3> QED BY <2>2, <3>1, <3>3, <3>4, <3>5
  <2>3. CASE /\ flash_ram_cache = NULL /\ UNCHANGED flash_ram_cache
             /\ CommandFails /\ scratch' \in {scratch, [scratch EXCEPT ![i] = Garbage]}
    <3>1. failed' = TRUE
      BY <2>3 DEF CommandFails
    <3>2. scratch = [scratch EXCEPT ![i] = scratch[i]] /\ scratch[i] \in Content /\ Garbage \in Content
      BY <1>2 DEF TypeOK, Content
    <3> QED BY <2>3, <3>1, <3>2
  <2> QED BY <2>1, <2>2, <2>3 DEF Store
<1>5. flash_ram_cache' \in [Index -> Content] \cup {NULL} /\ scratch' \in [Index -> Content] /\ failed' \in BOOLEAN
  BY <1>4 DEF TypeOK
<1>6. Copy' \in [Index -> Content]
  BY <1>5 DEF Copy
<1>7. TypeOK'
  <2>1. \A x \in Block : Read(x)' \in Content
    BY <1>1, <1>6, BlockParts DEF Read, TypeOK
  <2>2. disk' \in [Block -> Content]
    <3>1. request.data \in Content
      BY <1>2 DEF Content
    <3> QED BY <1>3, <2>1, <3>1 DEF TypeOK
  <2>3. dirty_mask' \in SUBSET Index
    BY <1>1, <1>2 DEF TypeOK
  <2> QED BY <1>0, <1>1, <1>5, <2>2, <2>3 DEF TypeOK
<1>8. RequestInv'
  BY <1>1, <1>2 DEF RequestInv, Writing, Flushing
<1>9. ScratchInv'
  BY <1>1, <1>2, <1>4 DEF ScratchInv, TypeOK
<1>10. DataInv'
  <2>1. \A j \in Index : j # i => Copy'[j] = Copy[j]
    BY <1>4 DEF Copy, TypeOK
  <2>2. failed' = FALSE => Copy'[i] = request.data
    BY <1>2, <1>4 DEF Copy, TypeOK
  <2>3. ASSUME NEW x \in Block PROVE Read(x)' = disk'[x]
    <3>1. CASE x = b
      <4>1. Read(x)' = Copy'[i]
        BY <3>1, <1>1, <1>2 DEF Read, InCache
      <4> QED BY <3>1, <4>1, <2>2, <1>3, <1>5
    <3>2. CASE x # b
      <4>1. InCache(x[1], x[2])' <=> InCache(x[1], x[2])
        BY <3>2, <1>1, <1>2, BlockParts DEF InCache
      <4>2. InCache(x[1], x[2]) => x[2] # i
        BY <1>2 DEF InCache
      <4>3. Read(x)' = Read(x)
        BY <4>1, <4>2, <2>1, <1>1, BlockParts DEF Read
      <4> QED BY <3>2, <4>3, <1>1, <1>3 DEF DataInv
    <3> QED BY <3>1, <3>2
  <2> QED BY <2>3, <1>1 DEF DataInv, CopyIsComplete
<1> QED BY <1>7, <1>8, <1>9, <1>10

----------------------------------------------------------------------------
(* The flush.                                                               *)

LEMMA FlushKeeps == ASSUME IInv, Flush PROVE IInv'
<1> USE GeometryAssumption, ContentAssumption DEF IInv
<1>0. mishap' \in BOOLEAN
  BY DEF Flush, CommandWorks
<1>1. pc = "idle" /\ pc' = "fill" /\ current_sector # NULL
  BY DEF Flush
<1>2. UNCHANGED <<flash, scratch, current_sector, dirty_mask, flash_ram_cache, request, next, failed, disk>>
  BY DEF Flush, CommandWorks, media, cached
<1>3. TypeOK'
  BY <1>0, <1>1, <1>2 DEF TypeOK
<1>4. RequestInv'
  BY <1>1, <1>2 DEF RequestInv, Writing, Flushing
<1>5. ScratchInv'
  BY <1>1, <1>2 DEF ScratchInv
<1>6. DataInv'
  BY <1>1, <1>2 DEF DataInv, CopyIsComplete, Read, InCache, Copy, Current
<1> QED BY <1>3, <1>4, <1>5, <1>6

(* Filling leaves the copy where it is.                                     *)
LEMMA FilledCopy ==
  ASSUME TypeOK, current_sector # NULL, NEW S, FillCopy(S)
  PROVE  /\ Copy' = CopyWith(S)
         /\ flash_ram_cache' \in [Index -> Content] \cup {NULL}
         /\ scratch' \in [Index -> Content]
         /\ flash_ram_cache' = NULL <=> flash_ram_cache = NULL
<1>1. CopyWith(S) \in [Index -> Content] /\ CopyWith(S) # NULL
  BY CopyWithType, ContentAssumption
<1> QED BY <1>1 DEF FillCopy, Copy, TypeOK

(* Where a block outside the damaged ones is found once no sector is cached.    *)
LEMMA DamageIsSeen ==
  ASSUME TypeOK, DamageSeen, current_sector' = NULL, flash' \in [Block -> Content],
         \A b \in Block : b \notin AtRisk => flash'[b] = disk[b]
  PROVE  disk' \in [Block -> Content] /\ \A b \in Block : Read(b)' = disk'[b]
<1>1. \A b \in Block : Read(b)' = flash'[b]
  BY BlockParts, GeometryAssumption DEF Read, InCache
<1>2. disk' = [b \in Block |-> IF b \in AtRisk THEN Read(b)' ELSE disk[b]]
  BY DEF DamageSeen
<1>3. \A b \in Block : disk'[b] = flash'[b]
  BY <1>1, <1>2
<1>4. disk' \in [Block -> Content]
  BY <1>1, <1>2, <1>3
<1> QED BY <1>1, <1>3, <1>4

(* The copy is complete before the sector is erased.                          *)
LEMMA FillKeeps == ASSUME IInv, Fill PROVE IInv'
<1> USE GeometryAssumption, ContentAssumption DEF IInv
<1>0. mishap' \in BOOLEAN
  BY DEF Fill, CommandWorks
<1>1. /\ pc = "fill" /\ pc' = "erase" /\ FillCopy(Untouched)
      /\ UNCHANGED <<flash, current_sector, dirty_mask, request, next, failed, disk>>
  BY DEF Fill, CommandWorks
<1>2. current_sector # NULL /\ current_sector \in Sector
  BY <1>1 DEF RequestInv, Flushing, TypeOK
<1>3. /\ Copy' = CopyWith(Untouched)
      /\ flash_ram_cache' \in [Index -> Content] \cup {NULL}
      /\ scratch' \in [Index -> Content]
  BY <1>1, <1>2, FilledCopy
<1>4. TypeOK'
  BY <1>0, <1>1, <1>3 DEF TypeOK
<1>5. RequestInv'
  BY <1>1 DEF RequestInv, Writing, Flushing
<1>6. ScratchInv'
  BY <1>1 DEF ScratchInv
<1>7. \A b \in Block : Read(b) = disk[b]
  BY <1>1 DEF DataInv
<1>8. ASSUME failed = FALSE, NEW i \in Index
      PROVE  Copy'[i] = disk[<<current_sector, i>>]
  <2> DEFINE b == <<current_sector, i>>
  <2>1. b \in Block /\ b[1] = current_sector /\ b[2] = i
    BY <1>2, BlockParts
  <2>2. CASE i \in dirty_mask
    <3>1. Copy'[i] = Copy[i]
      BY <2>2, <1>3 DEF CopyWith, Untouched
    <3>2. Read(b) = Copy[i]
      BY <2>1, <2>2 DEF Read, InCache
    <3> QED BY <3>1, <3>2, <2>1, <1>7
  <2>3. CASE i \notin dirty_mask
    <3>1. Read(b) = flash[b]
      BY <2>1, <2>3 DEF Read, InCache
    <3>2. flash_ram_cache = NULL => scratch[i] = Erased
      BY <1>1, <1>2, <1>8, <2>3 DEF ScratchInv
    <3>3. Programmed(Erased, flash[b]) = flash[b]
      BY ProgrammedBlock
    <3>4. Copy'[i] = flash[b]
      BY <1>3, <2>3, <3>2, <3>3 DEF CopyWith, Untouched
    <3> QED BY <3>1, <3>4, <2>1, <1>7
  <2> QED BY <2>2, <2>3
<1>9. DataInv'
  <2>1. \A b \in Block \ Current : flash[b] = disk[b]
    BY <1>7 DEF Read, InCache, Current
  <2>2. CopyIsComplete'
    BY <1>8, <1>1 DEF CopyIsComplete, TypeOK
  <2> QED BY <2>1, <2>2, <1>1 DEF DataInv, Current
<1> QED BY <1>4, <1>5, <1>6, <1>9

(* The flush is given up: nothing is cached any more.                         *)
LEMMA FillFailsKeeps == ASSUME IInv, FillFails PROVE IInv'
<1> USE GeometryAssumption, ContentAssumption DEF IInv
<1>0. mishap' \in BOOLEAN
  BY DEF FillFails
<1>1. /\ pc = "fill" /\ current_sector' = NULL /\ failed' = FALSE
      /\ pc' = IF request = NULL THEN "idle" ELSE "load"
      /\ UNCHANGED <<flash, dirty_mask, request, next>>
  BY DEF FillFails, Flushed
<1>2. current_sector # NULL
  BY <1>1 DEF RequestInv, Flushing
<1>3. /\ flash_ram_cache' \in [Index -> Content] \cup {NULL}
      /\ scratch' \in [Index -> Content]
  BY <1>2, FilledCopy DEF FillFails
<1>4. disk' \in [Block -> Content] /\ \A b \in Block : Read(b)' = disk'[b]
  <2>1. \A b \in Block : b \notin AtRisk => flash[b] = disk[b]
    BY <1>1 DEF AtRisk, Current, DataInv, Read, InCache
  <2>2. flash' \in [Block -> Content]
    BY <1>1 DEF TypeOK
  <2> QED BY <2>1, <2>2, <1>1, DamageIsSeen DEF FillFails
<1>5. TypeOK'
  BY <1>0, <1>1, <1>3, <1>4 DEF TypeOK
<1>6. RequestInv'
  BY <1>1 DEF RequestInv, Writing, Flushing
<1>7. ScratchInv'
  BY <1>1 DEF ScratchInv
<1>8. DataInv'
  BY <1>1, <1>4 DEF DataInv, CopyIsComplete
<1> QED BY <1>5, <1>6, <1>7, <1>8

LEMMA EraseSectorKeeps == ASSUME IInv, EraseSector PROVE IInv'
<1> USE GeometryAssumption, ContentAssumption DEF IInv
<1>0. mishap' \in BOOLEAN
  BY DEF EraseSector, CommandWorks, CommandFails
<1>1. /\ pc = "erase" /\ pc' = "rewrite"
      /\ UNCHANGED <<scratch, current_sector, dirty_mask, flash_ram_cache, request, next, disk>>
  BY DEF EraseSector, cached
<1>2. current_sector # NULL /\ current_sector \in Sector /\ next = 0
  BY <1>1 DEF RequestInv, Flushing, TypeOK
<1>3. \/ failed' = failed /\ flash' = [b \in Block |-> IF b \in Current THEN Erased ELSE flash[b]]
      \/ failed' = TRUE /\ flash' = flash
  BY DEF EraseSector, CommandWorks, CommandFails
<1>4. flash' \in [Block -> Content] /\ failed' \in BOOLEAN
  BY <1>3 DEF TypeOK, Content
<1>5. TypeOK'
  BY <1>0, <1>1, <1>4 DEF TypeOK
<1>6. RequestInv'
  BY <1>1, <1>2 DEF RequestInv, Writing, Flushing
<1>7. ScratchInv'
  BY <1>1 DEF ScratchInv
<1>8. CopyIsComplete'
  <2>1. failed' = FALSE => failed = FALSE
    BY <1>3
  <2>2. Copy' = Copy
    BY <1>1 DEF Copy
  <2> QED BY <1>1, <2>1, <2>2 DEF CopyIsComplete, DataInv, TypeOK
<1>9. failed' = FALSE => \A i \in Index : flash'[<<current_sector, i>>] = Erased
  BY <1>2, <1>3, BlockParts DEF Current
<1>10. \A b \in Block \ Current : flash'[b] = disk[b]
  BY <1>1, <1>3 DEF DataInv
<1>11. DataInv'
  <2>1. Current' = Current
    BY <1>1 DEF Current
  <2>2. failed' = FALSE =>
          \A i \in Index : flash'[<<current_sector, i>>] = IF i < 0 THEN disk[<<current_sector, i>>] ELSE Erased
    BY <1>9 DEF Index
  <2> QED BY <1>1, <1>2, <1>4, <1>8, <1>10, <2>1, <2>2 DEF DataInv
<1> QED BY <1>5, <1>6, <1>7, <1>11

(* One block of the copy is written back.                                    *)
LEMMA RewrittenBlock ==
  ASSUME IInv, pc = "rewrite", NEW ok \in BOOLEAN, BlockRewritten(ok)
  PROVE  /\ flash' \in [Block -> Content]
         /\ \A b \in Block \ Current : flash'[b] = disk[b]
         /\ ok = TRUE /\ failed = FALSE => \A i \in Index :
              flash'[<<current_sector, i>>] = IF i <= next THEN disk[<<current_sector, i>>] ELSE Erased
<1> USE GeometryAssumption, ContentAssumption DEF IInv
<1> DEFINE b == <<current_sector, next>>
<1>1. /\ b \in Block /\ b \in Current /\ Copy[next] \in Content /\ flash[b] \in Content
      /\ current_sector \in Sector /\ next \in Index
  BY BlockParts, CopyType DEF RequestInv, Flushing, TypeOK, Current
<1>2. \A x \in Block \ Current : flash[x] = disk[x]
  BY DEF DataInv
<1>3. CASE ok /\ flash' = [flash EXCEPT ![b] = Programmed(@, Copy[next])]
  <2>1. Programmed(flash[b], Copy[next]) \in Content
    BY <1>1, ProgrammedBlock
  <2>2. flash' = [flash EXCEPT ![b] = Programmed(flash[b], Copy[next])]
    BY <1>3
  <2>3. flash' \in [Block -> Content] /\ \A x \in Block \ Current : flash'[x] = disk[x]
    BY <1>1, <1>2, <2>1, <2>2 DEF TypeOK
  <2>4. ASSUME failed = FALSE, NEW i \in Index
        PROVE  flash'[<<current_sector, i>>] = IF i <= next THEN disk[<<current_sector, i>>] ELSE Erased
    <3>1. flash[<<current_sector, i>>] = IF i < next THEN disk[<<current_sector, i>>] ELSE Erased
      BY <2>4 DEF DataInv
    <3>2. CASE i = next
      <4>1. flash[b] = Erased
        BY <3>1, <3>2, <1>1 DEF Index
      <4>2. Copy[next] = disk[b]
        BY <2>4, <1>1 DEF DataInv, CopyIsComplete
      <4>3. flash'[b] = Copy[next]
        BY <2>2, <4>1, <1>1, ProgrammedBlock DEF TypeOK
      <4> QED BY <3>2, <4>2, <4>3, <1>1 DEF Index
    <3>3. CASE i # next
      <4>1. <<current_sector, i>> # b /\ <<current_sector, i>> \in Block
        BY <3>3, <1>1, BlockParts
      <4>2. flash'[<<current_sector, i>>] = flash[<<current_sector, i>>]
        BY <2>2, <4>1 DEF TypeOK
      <4>3. i < next <=> i <= next
        BY <3>3, <1>1 DEF Index
      <4> QED BY <3>1, <4>2, <4>3
    <3> QED BY <3>2, <3>3
  <2> QED BY <2>3, <2>4
<1>4. CASE ok = FALSE /\ flash' \in {flash, [flash EXCEPT ![b] = Garbage]}
  BY <1>1, <1>2, <1>4 DEF TypeOK, Content
<1> QED BY <1>3, <1>4 DEF BlockRewritten

LEMMA RewriteKeeps == ASSUME IInv, Rewrite PROVE IInv'
<1> USE GeometryAssumption, ContentAssumption DEF IInv
<1>0. mishap' \in BOOLEAN
  BY DEF Rewrite
<1> PICK ok \in BOOLEAN : BlockRewritten(ok) /\ failed' = (failed \/ ~ok)
  BY DEF Rewrite
<1>1. /\ pc = "rewrite" /\ pc' = "rewrite" /\ next # PerSector - 1 /\ next' = next + 1
      /\ UNCHANGED <<scratch, current_sector, dirty_mask, flash_ram_cache, request, disk>>
  BY DEF Rewrite, LastBlock, cached
<1>2. /\ flash' \in [Block -> Content]
      /\ \A b \in Block \ Current : flash'[b] = disk[b]
      /\ ok = TRUE /\ failed = FALSE => \A i \in Index :
           flash'[<<current_sector, i>>] = IF i <= next THEN disk[<<current_sector, i>>] ELSE Erased
  BY <1>1, RewrittenBlock
<1>3. failed' \in BOOLEAN /\ (failed' = FALSE => ok = TRUE /\ failed = FALSE)
  BY DEF TypeOK
<1>4. next' \in Index /\ next \in Index
  BY <1>1 DEF Index, TypeOK
<1>5. TypeOK'
  BY <1>0, <1>1, <1>2, <1>3, <1>4 DEF TypeOK
<1>6. RequestInv'
  BY <1>1 DEF RequestInv, Writing, Flushing
<1>7. ScratchInv'
  BY <1>1 DEF ScratchInv
<1>8. CopyIsComplete'
  <2>1. Copy' = Copy
    BY <1>1 DEF Copy
  <2> QED BY <1>1, <1>3, <2>1 DEF CopyIsComplete, DataInv
<1>9. DataInv'
  <2>1. Current' = Current
    BY <1>1 DEF Current
  <2>2. \A i \in Index : i <= next <=> i < next'
    BY <1>1, <1>4 DEF Index
  <2>3. failed' = FALSE => \A i \in Index :
          flash'[<<current_sector, i>>] = IF i < next' THEN disk[<<current_sector, i>>] ELSE Erased
    BY <1>2, <1>3, <2>2
  <2> QED BY <1>1, <1>2, <1>3, <1>8, <2>1, <2>3 DEF DataInv
<1> QED BY <1>5, <1>6, <1>7, <1>9

(* The last block: the sector is as it was written, or damaged.                *)
LEMMA RewriteLastKeeps == ASSUME IInv, RewriteLast PROVE IInv'
<1> USE GeometryAssumption, ContentAssumption DEF IInv
<1>0. mishap' \in BOOLEAN
  BY DEF RewriteLast
<1> PICK ok \in BOOLEAN : BlockRewritten(ok) /\ IF ok /\ ~failed THEN UNCHANGED disk ELSE DamageSeen
  BY DEF RewriteLast
<1>1. /\ pc = "rewrite" /\ next = PerSector - 1 /\ next' = 0
      /\ current_sector' = NULL /\ failed' = FALSE
      /\ pc' = IF request = NULL THEN "idle" ELSE "load"
      /\ flash_ram_cache' = IF request = NULL THEN NULL ELSE flash_ram_cache
      /\ UNCHANGED <<scratch, dirty_mask, request>>
  BY DEF RewriteLast, Flushed, LastBlock
<1>2. /\ flash' \in [Block -> Content]
      /\ \A b \in Block \ Current : flash'[b] = disk[b]
      /\ ok = TRUE /\ failed = FALSE => \A i \in Index :
           flash'[<<current_sector, i>>] = IF i <= next THEN disk[<<current_sector, i>>] ELSE Erased
  BY <1>1, RewrittenBlock
<1>3. disk' \in [Block -> Content] /\ \A b \in Block : Read(b)' = disk'[b]
  <2>1. CASE ok = TRUE /\ failed = FALSE /\ disk' = disk
    <3>1. \A b \in Block : Read(b)' = flash'[b]
      BY <1>1, BlockParts DEF Read, InCache
    <3>2. \A i \in Index : i <= next
      BY <1>1 DEF Index
    <3>3. ASSUME NEW b \in Block, b \in Current PROVE flash'[b] = disk[b]
      <4>1. b = <<current_sector, b[2]>> /\ b[2] \in Index
        BY <3>3, BlockParts DEF Current
      <4> QED BY <4>1, <3>2, <2>1, <1>2
    <3>4. disk' \in [Block -> Content]
      BY <2>1 DEF TypeOK
    <3> QED BY <2>1, <3>1, <3>3, <3>4, <1>2
  <2>2. CASE DamageSeen
    <3>1. \A b \in Block : b \notin AtRisk => flash'[b] = disk[b]
      BY <1>2 DEF AtRisk
    <3> QED BY <2>2, <3>1, <1>1, <1>2, DamageIsSeen
  <2> QED BY <2>1, <2>2 DEF TypeOK
<1>4. TypeOK'
  <2>1. next' \in Index
    BY <1>1 DEF Index
  <2> QED BY <1>0, <1>1, <1>2, <1>3, <2>1 DEF TypeOK
<1>5. RequestInv'
  BY <1>1 DEF RequestInv, Writing, Flushing
<1>6. ScratchInv'
  BY <1>1 DEF ScratchInv
<1>7. DataInv'
  BY <1>1, <1>3 DEF DataInv, CopyIsComplete
<1> QED BY <1>4, <1>5, <1>6, <1>7

(* Power comes back: what was in the copy or being programmed may be lost.     *)
LEMMA PowerFailsKeeps == ASSUME IInv, PowerFails PROVE IInv'
<1> USE GeometryAssumption, ContentAssumption DEF IInv
<1>0. mishap' \in BOOLEAN
  BY DEF PowerFails
<1> PICK torn \in SUBSET InProgress :
      flash' = [b \in Block |-> IF b \in torn THEN Garbage ELSE flash[b]]
  BY DEF PowerFails
<1>1. /\ current_sector' = NULL /\ dirty_mask' = {} /\ flash_ram_cache' = NULL
      /\ pc' = "idle" /\ request' = NULL /\ next' = 0 /\ failed' = FALSE
      /\ scratch' = scratch /\ DamageSeen
  BY DEF PowerFails
<1>2. InProgress \subseteq AtRisk
  <2>1. CASE pc = "rewrite"
    BY <2>1, BlockParts DEF InProgress, AtRisk, Current, RequestInv, Flushing, TypeOK
  <2>2. CASE pc = "erase"
    BY <2>2 DEF InProgress, AtRisk
  <2>3. CASE pc = "direct"
    BY <2>3 DEF InProgress, AtRisk
  <2>4. CASE pc \notin {"erase", "rewrite", "direct"}
    BY <2>4 DEF InProgress
  <2> QED BY <2>1, <2>2, <2>3, <2>4
<1>3. flash' \in [Block -> Content]
  BY DEF TypeOK, Content
<1>4. \A b \in Block : b \notin AtRisk => flash'[b] = disk[b]
  <2>1. \A b \in Block : b \notin AtRisk => b \notin Current /\ flash'[b] = flash[b]
    BY <1>2 DEF AtRisk
  <2>2. \A b \in Block : b \notin Current => flash[b] = disk[b]
    BY DEF DataInv, Read, InCache, Current
  <2> QED BY <2>1, <2>2
<1>5. disk' \in [Block -> Content] /\ \A b \in Block : Read(b)' = disk'[b]
  BY <1>1, <1>3, <1>4, DamageIsSeen
<1>6. TypeOK'
  <2>1. 0 \in Index
    BY DEF Index
  <2> QED BY <1>0, <1>1, <1>3, <1>5, <2>1 DEF TypeOK
<1>7. RequestInv' /\ ScratchInv'
  BY <1>1 DEF RequestInv, Writing, Flushing, ScratchInv
<1>8. DataInv'
  BY <1>1, <1>5 DEF DataInv, CopyIsComplete
<1> QED BY <1>6, <1>7, <1>8

LEMMA StutterKeeps == ASSUME IInv, UNCHANGED vars PROVE IInv'
<1> USE DEF IInv, vars, media, cached, operation
<1>1. TypeOK'
  BY DEF TypeOK
<1>2. RequestInv' /\ ScratchInv'
  BY DEF RequestInv, ScratchInv, InCache
<1>3. DataInv'
  BY DEF DataInv, CopyIsComplete, Read, InCache, Copy, Current
<1> QED BY <1>1, <1>2, <1>3

----------------------------------------------------------------------------
(* What follows for every reachable state, in the use that keeps the promises.  *)

(* The invariant is inductive: every step of the cache, with or without a       *)
(* failing command, and every power failure keeps it.                        *)
THEOREM Inductive == ASSUME SafeUse PROVE Spec => []IInv
<1>1. Init => IInv
  BY InitEstablishes
<1>2. IInv /\ [Next]_vars => IInv'
  <2> SUFFICES ASSUME IInv, [Next]_vars PROVE IInv'
    OBVIOUS
  <2>1. CASE \E b \in Block, d \in Data : WriteStart(b, d)
    BY <2>1, WriteStartKeeps
  <2>2. CASE TestErased
    BY <2>2, TestErasedKeeps
  <2>3. CASE ProgramDirect
    BY <2>3, ProgramDirectKeeps
  <2>4. CASE Load
    BY <2>4, LoadKeeps
  <2>5. CASE Store
    BY <2>5, StoreKeeps
  <2>6. CASE Flush
    BY <2>6, FlushKeeps
  <2>7. CASE Fill
    BY <2>7, FillKeeps
  <2>8. CASE FillFails
    BY <2>8, FillFailsKeeps
  <2>9. CASE EraseSector
    BY <2>9, EraseSectorKeeps
  <2>10. CASE Rewrite
    BY <2>10, RewriteKeeps
  <2>11. CASE RewriteLast
    BY <2>11, RewriteLastKeeps
  <2>12. CASE PowerFails
    BY <2>12, PowerFailsKeeps
  <2>13. CASE UNCHANGED vars
    BY <2>13, StutterKeeps
  <2> QED BY <2>1, <2>2, <2>3, <2>4, <2>5, <2>6, <2>7, <2>8, <2>9, <2>10, <2>11, <2>12, <2>13
             DEF Next
<1> QED BY <1>1, <1>2, PTL DEF Spec

(* The variables of external_flash.c keep their shape; the write-back of a       *)
(* sector stays within it.                                                   *)
THEOREM TypeCorrect == ASSUME SafeUse PROVE Spec => []TypeOK
<1>1. IInv => TypeOK
  BY DEF IInv
<1> QED BY <1>1, Inductive, PTL

(* Between two operations external_flash_read_block returns what was last       *)
(* written to a block, or what a failure left of it.                          *)
THEOREM ReadsWhatWasWritten == ASSUME SafeUse PROVE Spec => []ReadsLastWrite
<1>1. IInv => ReadsLastWrite
  BY DEF IInv, DataInv, ReadsLastWrite
<1> QED BY <1>1, Inductive, PTL

(* erase_sector is only reached with a copy of every block of the sector.       *)
THEOREM NothingErasedUncopied == ASSUME SafeUse PROVE Spec => []CopyIsComplete
<1>1. IInv => CopyIsComplete
  BY DEF IInv, DataInv
<1> QED BY <1>1, Inductive, PTL

(* In the sector being rewritten and in the scratch sector, write_flash is only  *)
(* called on erased blocks, as its comment asks for.                           *)
THEOREM OnlyErasedProgrammed == ASSUME SafeUse PROVE Spec => []ProgramsErased
<1>1. IInv => ProgramsErased
  <2> SUFFICES ASSUME IInv PROVE ProgramsErased
    OBVIOUS
  <2>1. pc = "rewrite" /\ failed = FALSE => flash[<<current_sector, next>>] = Erased
    BY DEF IInv, DataInv, TypeOK, Index
  <2>2. pc = "store" /\ flash_ram_cache = NULL /\ failed = FALSE => scratch[request.block[2]] = Erased
    <3> SUFFICES ASSUME pc = "store", flash_ram_cache = NULL, failed = FALSE
                 PROVE  scratch[request.block[2]] = Erased
      OBVIOUS
    <3>1. request.block[1] = current_sector /\ request.block[2] \notin dirty_mask
      BY DEF IInv, RequestInv
    <3>2. request.block \in Block
      BY DEF IInv, RequestInv, TypeOK, Requests, Writing
    <3>3. current_sector # NULL /\ request.block[2] \in Index
      BY <3>1, <3>2, BlockParts, GeometryAssumption
    <3> QED BY <3>1, <3>3 DEF IInv, ScratchInv
  <2> QED BY <2>1, <2>2 DEF ProgramsErased, IInv, TypeOK
<1> QED BY <1>1, Inductive, PTL

----------------------------------------------------------------------------
(* The cache implements the block device.                                    *)

(* What the device shows differs from what was written only in the sector that  *)
(* is being erased and rewritten.                                            *)
ShowsDisk ==
  \A b \in Block : pc \notin {"erase", "rewrite"} \/ b \notin Current => View[b] = disk[b]

LEMMA ViewIsDisk == IInv => ShowsDisk
<1> SUFFICES ASSUME IInv PROVE ShowsDisk
  OBVIOUS
<1>1. pc \notin {"erase", "rewrite"} => \A b \in Block : View[b] = Read(b) /\ Read(b) = disk[b]
  BY DEF IInv, DataInv, View
<1>2. pc \in {"erase", "rewrite"} => \A b \in Block : b \notin Current => View[b] = Read(b) /\ flash[b] = disk[b]
  BY DEF IInv, DataInv, View
<1>3. \A b \in Block : b \notin Current => Read(b) = flash[b]
  BY DEF Read, InCache, Current
<1> QED BY <1>1, <1>2, <1>3 DEF ShowsDisk

LEMMA ViewIsDiskNext == IInv' => ShowsDisk'
BY ViewIsDisk, PTL

LEMMA ViewType == TypeOK => View \in [Block -> Content]
<1> SUFFICES ASSUME TypeOK PROVE \A b \in Block : Copy[b[2]] \in Content /\ Read(b) \in Content
  BY DEF View
<1> QED BY CopyType, ReadType, BlockParts

LEMMA RiskIsLocal == IInv => Device!AtMostOneSector(AtRisk)
<1> SUFFICES ASSUME IInv PROVE Device!AtMostOneSector(AtRisk)
  OBVIOUS
<1>1. PICK s \in Sector : Current \subseteq {s} \X Index
  <2>1. CASE current_sector \in Sector
    BY <2>1, BlockParts DEF Current, Block
  <2>2. CASE current_sector = NULL
    BY <2>2, BlockParts, GeometryAssumption DEF Current
  <2> QED BY <2>1, <2>2 DEF IInv, TypeOK
<1>2. PICK b \in Block : pc = "direct" => b = request.block
  <2>1. CASE pc = "direct"
    BY <2>1 DEF IInv, RequestInv, TypeOK, Writing, Requests
  <2>2. CASE pc # "direct"
    <3>1. 0 \in Index
      BY GeometryAssumption DEF Index
    <3> QED BY <2>2, <3>1, <1>1, BlockParts
  <2> QED BY <2>1, <2>2
<1>3. AtRisk \subseteq ({s} \X Index) \cup {b}
  BY <1>1, <1>2 DEF AtRisk
<1> QED BY <1>3 DEF Device!AtMostOneSector, Device!SectorBlocks, Device!Block, Block

(* As long as no command failed, the device shows what was written, also while    *)
(* the sector is rewritten from the copy.                                      *)
ViewIsWhole == ~failed => View = disk

LEMMA WholeWithoutFailure == IInv => ViewIsWhole
<1> SUFFICES ASSUME IInv, ~failed PROVE View = disk
  BY DEF ViewIsWhole
<1>1. \A b \in Block : View[b] = disk[b]
  <2> SUFFICES ASSUME NEW b \in Block PROVE View[b] = disk[b]
    OBVIOUS
  <2>1. CASE b \in Current /\ pc \in {"erase", "rewrite"}
    <3>1. View[b] = Copy[b[2]] /\ b[2] \in Index /\ b = <<current_sector, b[2]>>
      BY <2>1, BlockParts DEF View, Current
    <3> QED BY <2>1, <3>1 DEF IInv, DataInv, CopyIsComplete
  <2>2. CASE ~(b \in Current /\ pc \in {"erase", "rewrite"})
    BY <2>2, ViewIsDisk DEF ShowsDisk
  <2> QED BY <2>1, <2>2
<1> QED BY <1>1 DEF View, IInv, TypeOK

LEMMA WholeWithoutFailureNext == IInv' => ViewIsWhole'
BY WholeWithoutFailure, PTL

(* Outside the write-back of a sector it always does.                          *)
ViewBetween == pc \notin {"erase", "rewrite"} => View = disk

LEMMA WholeBetween == IInv => ViewBetween
<1> SUFFICES ASSUME IInv, pc \notin {"erase", "rewrite"} PROVE View = disk
  BY DEF ViewBetween
<1>1. \A b \in Block : View[b] = disk[b]
  BY ViewIsDisk DEF ShowsDisk
<1> QED BY <1>1 DEF View, IInv, TypeOK

LEMMA WholeBetweenNext == IInv' => ViewBetween'
BY WholeBetween, PTL

(* What a step changes that starts no write.                                   *)
DeviceStep == Device!Write \/ Device!Damage \/ Device!Arrange

(* A step that writes nothing changes no block that is safe, and none at all if   *)
(* no command failed.                                                         *)
LEMMA QuietStep ==
  ASSUME IInv, IInv', disk' = disk, UNCHANGED request,
         failed' => failed \/ mishap',
         pc' \in {"erase", "rewrite"} => current_sector' = current_sector
  PROVE  DeviceStep
<1>1. CASE failed \/ mishap'
  <2>1. ASSUME NEW b \in Block, b \notin AtRisk PROVE View'[b] = View[b]
    <3>1. b \notin Current /\ (pc' \notin {"erase", "rewrite"} \/ b \notin Current')
      BY <2>1 DEF AtRisk, Current
    <3> QED BY <3>1, ViewIsDisk, ViewIsDiskNext DEF ShowsDisk
  <2> QED BY <1>1, <2>1 DEF DeviceStep, Device!Damage, Device!Block, Block
<1>2. CASE ~failed /\ ~mishap'
  <2>1. View = disk /\ View' = disk'
    BY <1>2, WholeWithoutFailure, WholeWithoutFailureNext DEF ViewIsWhole
  <2> QED BY <2>1 DEF DeviceStep, Device!Arrange
<1> QED BY <1>1, <1>2

(* A failure damages no block that is safe.                                     *)
LEMMA DamageStep ==
  ASSUME IInv, IInv', failed \/ mishap', request' \in {request, NULL},
         pc' \notin {"erase", "rewrite"},
         \A b \in Block : b \notin AtRisk => disk'[b] = disk[b]
  PROVE  DeviceStep
<1>1. ASSUME NEW b \in Block, b \notin AtRisk PROVE View'[b] = View[b]
  <2>1. b \notin Current
    BY <1>1 DEF AtRisk
  <2> QED BY <1>1, <2>1, ViewIsDisk, ViewIsDiskNext DEF ShowsDisk
<1> QED BY <1>1 DEF DeviceStep, Device!Damage, Device!Block, Block

(* A step that writes the block that was asked for.                             *)
LEMMA WriteStep ==
  ASSUME IInv, IInv', pc \notin {"erase", "rewrite"}, pc' \notin {"erase", "rewrite"},
         request # NULL, request' = NULL,
         disk' = [disk EXCEPT ![request.block] = request.data]
  PROVE  DeviceStep
<1>1. View = disk /\ View' = disk'
  BY WholeBetween, WholeBetweenNext DEF ViewBetween
<1> QED BY <1>1 DEF DeviceStep, Device!Write

LEMMA InitImplements == Init => Device!Init
<1> SUFFICES ASSUME Init PROVE Device!Init
  OBVIOUS
<1>1. IInv
  BY InitEstablishes
<1>2. View \in [Block -> Content]
  BY <1>1, ViewType DEF IInv
<1>3. AtRisk = {}
  BY BlockParts, GeometryAssumption DEF Init, AtRisk, Current
<1>4. request = NULL /\ failed = FALSE /\ mishap = FALSE
  BY DEF Init
<1> QED BY <1>2, <1>3, <1>4 DEF Device!Init, Device!Block, Block

DeviceTyped == View \in [Block -> Content] /\ Device!AtMostOneSector(AtRisk)

LEMMA IsTyped == IInv => DeviceTyped
BY ViewType, RiskIsLocal DEF IInv, DeviceTyped

LEMMA IsTypedNext == IInv' => DeviceTyped'
BY IsTyped, PTL

(* Every step starts a write, writes the block, or damages none that is safe.    *)
LEMMA StepImplements ==
  ASSUME IInv, IInv', Next
  PROVE  (\E b \in Block, d \in Data : Device!Start(b, d)) \/ DeviceStep
<1>1. ASSUME NEW b \in Block, NEW d \in Data, WriteStart(b, d) PROVE Device!Start(b, d)
  <2>1. /\ disk' = disk /\ pc \notin {"erase", "rewrite"} /\ pc' \notin {"erase", "rewrite"}
        /\ request = NULL /\ request' = [block |-> b, data |-> d]
    BY <1>1 DEF WriteStart, IInv, RequestInv
  <2>2. View = disk /\ View' = disk'
    BY <2>1, WholeBetween, WholeBetweenNext DEF ViewBetween
  <2> QED BY <2>1, <2>2 DEF Device!Start
<1>2. CASE TestErased
  <2>1. disk' = disk /\ pc' \notin {"erase", "rewrite"} /\ UNCHANGED <<request, failed>>
    BY <1>2 DEF TestErased, CommandWorks
  <2> QED BY <2>1, QuietStep
<1>3. CASE ProgramDirect
  <2>1. pc = "direct" /\ pc' = "idle" /\ request # NULL /\ request' = NULL
    BY <1>3 DEF ProgramDirect, Done, IInv, RequestInv, Writing
  <2>2. CASE disk' = [disk EXCEPT ![request.block] = request.data]
    BY <2>1, <2>2, WriteStep
  <2>3. CASE mishap' = TRUE /\ disk' = [disk EXCEPT ![request.block] = flash'[request.block]]
    <3>1. \A b \in Block : b \notin AtRisk => disk'[b] = disk[b]
      BY <2>1, <2>3 DEF AtRisk, IInv, TypeOK
    <3> QED BY <2>1, <2>3, <3>1, DamageStep
  <2> QED BY <1>3, <2>2, <2>3 DEF ProgramDirect
<1>4. CASE Load
  <2>1. disk' = disk /\ pc' \notin {"erase", "rewrite"} /\ UNCHANGED request
    BY <1>4 DEF Load
  <2>2. failed' => failed \/ mishap'
    BY <1>4 DEF Load, CommandWorks, CommandFails
  <2> QED BY <2>1, <2>2, QuietStep
<1>5. CASE Store
  <2>1. /\ pc = "store" /\ pc' = "idle" /\ request # NULL /\ request' = NULL
        /\ request.block \in Block /\ request.block[1] = current_sector
    BY <1>5 DEF Store, Done, IInv, TypeOK, RequestInv, Writing, Requests
  <2>2. \A b \in Block : b # request.block => disk'[b] = disk[b]
    BY <1>5 DEF Store
  <2>3. CASE failed'
    <3>1. failed \/ mishap'
      BY <1>5, <2>3 DEF Store, CommandWorks, CommandFails
    <3>2. request.block \in AtRisk
      BY <2>1 DEF AtRisk, Current
    <3> QED BY <2>1, <2>2, <3>1, <3>2, DamageStep
  <2>4. CASE ~failed'
    <3>1. disk' = [disk EXCEPT ![request.block] = request.data]
      BY <1>5, <2>1, <2>4 DEF Store, IInv, TypeOK
    <3> QED BY <2>1, <3>1, WriteStep
  <2> QED BY <2>3, <2>4
<1>6. CASE Flush
  <2>1. disk' = disk /\ pc' \notin {"erase", "rewrite"} /\ UNCHANGED <<request, failed>>
    BY <1>6 DEF Flush, CommandWorks
  <2> QED BY <2>1, QuietStep
<1>7. CASE Fill
  <2>1. disk' = disk /\ current_sector' = current_sector /\ UNCHANGED <<request, failed>>
    BY <1>7 DEF Fill, CommandWorks
  <2> QED BY <2>1, QuietStep
<1>8. CASE FillFails
  <2>1. mishap' = TRUE /\ request' = request /\ pc' \notin {"erase", "rewrite"}
    BY <1>8 DEF FillFails, Flushed
  <2>2. \A b \in Block : b \notin AtRisk => disk'[b] = disk[b]
    BY <1>8 DEF FillFails, DamageSeen
  <2> QED BY <2>1, <2>2, DamageStep
<1>9. CASE EraseSector
  <2>1. disk' = disk /\ current_sector' = current_sector /\ UNCHANGED request
    BY <1>9 DEF EraseSector, cached
  <2>2. failed' => failed \/ mishap'
    BY <1>9 DEF EraseSector, CommandWorks, CommandFails
  <2> QED BY <2>1, <2>2, QuietStep
<1>10. CASE Rewrite
  <2>1. disk' = disk /\ current_sector' = current_sector /\ UNCHANGED request
    BY <1>10 DEF Rewrite, cached
  <2>2. failed' => failed \/ mishap'
    BY <1>10 DEF Rewrite
  <2> QED BY <2>1, <2>2, QuietStep
<1>11. CASE RewriteLast
  <2>1. request' = request /\ failed' = FALSE /\ pc' \notin {"erase", "rewrite"}
    BY <1>11 DEF RewriteLast, Flushed
  <2>2. disk' = disk \/ ((failed \/ mishap') /\ DamageSeen)
    BY <1>11 DEF RewriteLast
  <2>3. CASE disk' = disk
    BY <2>1, <2>3, QuietStep
  <2>4. CASE (failed \/ mishap') /\ DamageSeen
    <3>1. \A b \in Block : b \notin AtRisk => disk'[b] = disk[b]
      BY <2>4 DEF DamageSeen
    <3> QED BY <2>1, <2>4, <3>1, DamageStep
  <2> QED BY <2>2, <2>3, <2>4
<1>12. CASE PowerFails
  <2>1. mishap' = TRUE /\ request' = NULL /\ pc' \notin {"erase", "rewrite"}
    BY <1>12 DEF PowerFails
  <2>2. \A b \in Block : b \notin AtRisk => disk'[b] = disk[b]
    BY <1>12 DEF PowerFails, DamageSeen
  <2> QED BY <2>1, <2>2, DamageStep
<1> QED BY <1>1, <1>2, <1>3, <1>4, <1>5, <1>6, <1>7, <1>8, <1>9, <1>10, <1>11, <1>12 DEF Next

(* A command is only remembered as failed when one failed.                      *)
LEMMA FailureHasCause == ASSUME Next PROVE failed' => failed \/ mishap'
BY DEF Next, WriteStart, TestErased, ProgramDirect, Load, Store, Flush, Fill, FillFails, EraseSector,
   Rewrite, RewriteLast, PowerFails, Flushed, CommandWorks, CommandFails

(* The cache implements the device: a step without a failure changes nothing but  *)
(* the block that is to be written, and one with a failure at most blocks of the  *)
(* cached sector and of one direct write.                                      *)
THEOREM ImplementsDevice == ASSUME SafeUse PROVE Spec => DamageIsLocal
<1> DEFINE seen == <<View, request, AtRisk, failed, mishap>>
<1>1. Init => Device!Init
  BY InitImplements
<1>2. IInv /\ IInv' /\ [Next]_vars => [Device!Next]_seen
  <2> SUFFICES ASSUME IInv, IInv', [Next]_vars PROVE [Device!Next]_seen
    OBVIOUS
  <2>1. CASE Next
    <3>1. (\E b \in Block, d \in Data : Device!Start(b, d)) \/ DeviceStep
      BY <2>1, StepImplements
    <3>2. failed' => failed \/ mishap'
      BY <2>1, FailureHasCause
    <3>3. View' \in [Device!Block -> Content] /\ Device!AtMostOneSector(AtRisk')
      BY IsTypedNext DEF DeviceTyped, Device!AtMostOneSector, Device!SectorBlocks, Device!Block, Block
    <3> QED BY ONLY <3>1, <3>2, <3>3 DEF DeviceStep, Device!Next, Device!Block, Block
  <2>2. CASE UNCHANGED vars
    BY <2>2 DEF vars, media, cached, operation, View, AtRisk, Current, Read, InCache, Copy
  <2> QED BY <2>1, <2>2
<1> QED BY <1>1, <1>2, Inductive, PTL DEF Spec, DamageIsLocal, Device!Spec
=============================================================================

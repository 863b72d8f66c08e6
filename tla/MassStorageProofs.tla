-------------------------- MODULE MassStorageProofs --------------------------
(* Proofs about MassStorage, for any disk, any length of a command and any word,   *)
(* as long as the bus is not reset during a command and no write comes before      *)
(* active_write is cleared.                                                     *)
EXTENDS MassStorage, TLAPS

USE SizeAssumption, DataAssumption

NoFaults == Faults = {}
IInv == TypeOK /\ TransferTracked

(* Inside the range of a command the counters do not wrap.                       *)
LEMMA NoWrap ==
  /\ \A a \in 0 .. LastLba : Plus(a, 1) = a + 1
  /\ \A n \in 1 .. MaxBlocks : Minus(n, 1) = n - 1
BY DEF Plus, Minus

LEMMA CommandParts ==
  \A c \in Commands :
    /\ c.op \in {"read", "write"} /\ c.addr \in 0 .. LastLba /\ c.n \in 1 .. MaxBlocks
    /\ c.addr + c.n <= LastLba + 1 /\ c # NULL
BY DEF Commands, Lba

LEMMA InitEstablishes == Init => IInv
<1> SUFFICES ASSUME Init PROVE IInv
  OBVIOUS
<1>1. TypeOK
  <2>1. FlagsType
    <3>1. active_addr \in 0 .. LastLba + 1 /\ active_nblocks \in 0 .. MaxBlocks
      BY DEF Init
    <3> QED BY ONLY <3>1, Init DEF Init, FlagsType
  <2>2. UsbType
    <3>1. residue \in 0 .. MaxBlocks
      BY DEF Init
    <3> QED BY ONLY <3>1, Init DEF Init, UsbType
  <2>3. DiskType
    BY DEF Init, DiskType, Stored
  <2> QED BY <2>1, <2>2, <2>3 DEF TypeOK
<1>2. TransferTracked
  BY DEF Init, TransferTracked, ReadTracked, WriteTracked, BusyIsQueued, QueuedTracked,
         LoadedTracked, StepTracked, CommandTracked
<1> QED BY <1>1, <1>2 DEF IInv

(* What the invariant says at the steps whose counters move.                     *)
LEMMA BlockIsThere ==
  ASSUME IInv
  PROVE  /\ sector_loaded => active_addr \in 0 .. LastLba /\ active_nblocks \in 1 .. MaxBlocks
         /\ active_read => active_addr \in 0 .. LastLba /\ active_nblocks \in 1 .. MaxBlocks
<1> USE CommandParts DEF IInv, TypeOK, FlagsType, UsbType, TransferTracked, Serving, BlocksLeft
<1>1. sector_loaded => active_addr \in 0 .. LastLba /\ active_nblocks \in 1 .. MaxBlocks
  BY DEF WriteTracked, LoadedTracked
<1>2. active_read => active_addr \in 0 .. LastLba /\ active_nblocks \in 1 .. MaxBlocks
  BY DEF ReadTracked
<1> QED BY <1>1, <1>2

LEMMA FlagsTypeStep == ASSUME NoFaults, IInv, [Next]_vars PROVE FlagsType'
<1> USE DEF IInv, TypeOK, FlagsType, flags
<1>1. CASE Background
  BY <1>1 DEF Background
<1>2. CASE CheckRead
  BY <1>2 DEF CheckRead
<1>3. CASE CheckWrite
  BY <1>3 DEF CheckWrite
<1>4. CASE Clear
  BY <1>4 DEF Clear
<1>5. CASE Fetch
  BY <1>5 DEF Fetch, DiskType
<1>6. CASE Send
  BY <1>6 DEF Send, Queue
<1>7. CASE AskForBlock
  BY <1>7 DEF AskForBlock, Queue
<1>8. CASE Store
  BY <1>8 DEF Store
<1>9. CASE Advance
  <2>1. active_addr' \in 0 .. LastLba + 1 /\ active_nblocks' \in 0 .. MaxBlocks
    BY <1>9, BlockIsThere, NoWrap DEF Advance, TransferTracked, StepTracked
  <2> QED BY <1>9, <2>1 DEF Advance
<1>10. CASE Complete
  BY <1>10 DEF Complete
<1>11. ASSUME NEW c \in Commands, NewCommand(c) PROVE FlagsType'
  <2>1. active_addr' \in 0 .. LastLba + 1 /\ active_nblocks' \in 0 .. MaxBlocks
    BY <1>11, CommandParts DEF NewCommand, RefuseWrite
  <2>2. active_read' \in BOOLEAN /\ active_write' \in BOOLEAN /\ sector_loaded' \in BOOLEAN
    BY <1>11 DEF NewCommand, StartRead, StartWrite, RefuseWrite
  <2> QED BY <1>11, <2>1, <2>2 DEF NewCommand
<1>12. ASSUME NEW op, NEW dir, BlockMoved(op, dir), sector_buffer' \in Data \cup {Mbr}
       PROVE  FlagsType'
  <2>1. active_addr' \in 0 .. LastLba + 1 /\ active_nblocks' \in 0 .. MaxBlocks
    BY <1>12, BlockIsThere, NoWrap DEF BlockMoved, usb_msc_xfer_done, ReadProgress
  <2>2. active_read' \in BOOLEAN /\ active_write' \in BOOLEAN /\ sector_loaded' \in BOOLEAN
    BY <1>12 DEF BlockMoved, usb_msc_xfer_done, ReadProgress
  <2> QED BY <1>12, <2>1, <2>2 DEF BlockMoved, usb_msc_xfer_done
<1>13. CASE HostTakesBlock \/ HostGivesBlock
  BY <1>12, <1>13 DEF HostTakesBlock, HostGivesBlock
<1>14. CASE \/ HostTakesStatus \/ HostClearsHalt \/ Disable \/ Enable \/ Remount \/ sync_window
            \/ (\E b \in Stored : move_window(b)) \/ (\E d \in Data : ChangeWindow(d))
            \/ UNCHANGED vars
  <2>1. UNCHANGED <<flags, sector_buffer, pc>>
    BY <1>14 DEF HostTakesStatus, HostClearsHalt, Disable, Enable, Remount, sync_window,
                 move_window, ChangeWindow, vars
  <2> QED BY <2>1
<1> QED
  BY <1>1, <1>2, <1>3, <1>4, <1>5, <1>6, <1>7, <1>8, <1>9, <1>10, <1>11, <1>13, <1>14
  DEF Next, usb_msc_background, HostContinues

LEMMA UsbTypeStep == ASSUME NoFaults, IInv, [Next]_vars PROVE UsbType'
<1> USE DEF IInv, TypeOK, UsbType, usb
<1>1. CASE Send
  BY <1>1 DEF Send, Queue
<1>2. CASE AskForBlock
  BY <1>2 DEF AskForBlock, Queue
<1>3. CASE Complete
  BY <1>3 DEF Complete
<1>4. ASSUME NEW c \in Commands, NewCommand(c) PROVE UsbType'
  <2>1. residue' \in 0 .. MaxBlocks /\ command' \in Commands
    BY <1>4, CommandParts DEF NewCommand
  <2>2. bCSWStatus' \in {"pass", "fail"} /\ halted' \in BOOLEAN
    BY <1>4 DEF NewCommand, StartRead, StartWrite, RefuseWrite
  <2> QED BY <1>4, <2>1, <2>2 DEF NewCommand
<1>5. CASE HostTakesBlock
  BY <1>5 DEF HostTakesBlock, BlockMoved
<1>6. CASE HostGivesBlock
  BY <1>6 DEF HostGivesBlock, BlockMoved
<1>7. CASE HostTakesStatus
  BY <1>7 DEF HostTakesStatus
<1>8. CASE HostClearsHalt
  BY <1>8 DEF HostClearsHalt
<1>9. CASE Disable
  BY <1>9 DEF Disable
<1>10. CASE Enable
  BY <1>10 DEF Enable
<1>11. CASE \/ Background \/ CheckRead \/ Fetch \/ CheckWrite \/ Store \/ Advance \/ Clear
            \/ Remount \/ sync_window
            \/ (\E b \in Stored : move_window(b)) \/ (\E d \in Data : ChangeWindow(d))
            \/ UNCHANGED vars
  <2>1. UNCHANGED <<usb, xfer_busy>>
    BY <1>11 DEF Background, CheckRead, Fetch, CheckWrite, Store, Advance, Clear, Remount,
                 sync_window, move_window, ChangeWindow, vars
  <2> QED BY <2>1
<1> QED
  BY <1>1, <1>2, <1>3, <1>4, <1>5, <1>6, <1>7, <1>8, <1>9, <1>10, <1>11
  DEF Next, usb_msc_background, HostContinues

LEMMA DiskTypeStep == ASSUME NoFaults, IInv, [Next]_vars PROVE DiskType'
<1> USE DEF IInv, TypeOK, DiskType, fatfs
<1>1. CASE Store
  <2>1. sector_buffer \in Data
    BY <1>1 DEF Store, TransferTracked, LoadedTracked, StepTracked
  <2> QED BY <1>1, <2>1 DEF Store, Stored
<1>2. CASE Advance
  <2>1. sector_buffer \in Data
    BY <1>2 DEF Advance, TransferTracked, LoadedTracked, StepTracked
  <2> QED BY <1>2, <2>1 DEF Advance, UpdateWindow
<1>3. CASE Remount
  BY <1>3 DEF Remount
<1>4. ASSUME NEW b \in Stored, move_window(b) PROVE DiskType'
  BY <1>4 DEF move_window
<1>5. ASSUME NEW d \in Data, ChangeWindow(d) PROVE DiskType'
  BY <1>5 DEF ChangeWindow
<1>6. CASE sync_window
  <2>1. disk' = [disk EXCEPT ![winsect] = win] /\ winsect \in Lba
    BY <1>6 DEF sync_window, Stored
  <2> QED BY <1>6, <2>1 DEF sync_window, Stored
<1>7. CASE \/ Background \/ CheckRead \/ Fetch \/ Send \/ CheckWrite \/ AskForBlock \/ Complete
           \/ Clear \/ (\E c \in Commands : NewCommand(c)) \/ HostContinues \/ Disable \/ Enable
           \/ UNCHANGED vars
  <2>1. UNCHANGED <<disk, usb_writable, fatfs>>
    BY <1>7 DEF Background, CheckRead, Fetch, Send, CheckWrite, AskForBlock, Complete, Clear,
                NewCommand, HostContinues, HostTakesBlock, HostGivesBlock, BlockMoved,
                HostTakesStatus, HostClearsHalt, Disable, Enable, vars
  <2> QED BY <2>1
<1> QED
  BY <1>1, <1>2, <1>3, <1>4, <1>5, <1>6, <1>7 DEF Next, usb_msc_background

LEMMA TrackedStep == ASSUME NoFaults, IInv, [Next]_vars PROVE TransferTracked'
<1> USE DEF IInv, TypeOK, FlagsType, UsbType, flags, usb, TransferTracked, ReadTracked, WriteTracked,
            BusyIsQueued, QueuedTracked, LoadedTracked, StepTracked, CommandTracked,
            Serving, BlocksLeft
<1>1. CASE Background \/ CheckRead
  <2>1. ReadTracked'
    BY <1>1 DEF Background, CheckRead
  <2>2. WriteTracked'
    <3>1. UNCHANGED <<active_write, active_addr, active_nblocks, sector_loaded>> /\ UNCHANGED usb /\ pc # "clear"
      BY <1>1 DEF Background, CheckRead
    <3> QED BY ONLY <3>1, WriteTracked DEF WriteTracked, Serving, BlocksLeft, usb
  <2>3. BusyIsQueued'
    BY <1>1 DEF Background, CheckRead
  <2>4. QueuedTracked'
    BY <1>1 DEF Background, CheckRead
  <2>5. LoadedTracked'
    BY <1>1 DEF Background, CheckRead
  <2>6. StepTracked'
    <3>1. ~usb_busy /\ UNCHANGED <<active_read, active_write, usb_busy, sector_loaded>>
      BY <1>1 DEF Background, CheckRead
    <3>2. pc' \in {"reading", "writing"} \/ (pc' = "fetch" /\ active_read)
      BY <1>1 DEF Background, CheckRead
    <3> QED BY ONLY <3>1, <3>2 DEF StepTracked
  <2>7. CommandTracked'
    BY <1>1 DEF Background, CheckRead
  <2> QED BY <2>1, <2>2, <2>3, <2>4, <2>5, <2>6, <2>7
<1>18. CASE CheckWrite
  <2>1. ReadTracked'
    BY <1>18 DEF CheckWrite
  <2>2. WriteTracked'
    BY <1>18 DEF CheckWrite
  <2>3. BusyIsQueued'
    BY <1>18 DEF CheckWrite
  <2>4. QueuedTracked'
    BY <1>18 DEF CheckWrite
  <2>5. LoadedTracked'
    BY <1>18 DEF CheckWrite
  <2>6. StepTracked'
    <3>1. UNCHANGED <<active_read, active_write, usb_busy, sector_loaded>>
      BY <1>18 DEF CheckWrite
    <3>2. active_write /\ pc = "writing" => ~usb_busy
      OBVIOUS
    <3>3. \/ pc' = "idle" \/ (pc' = "store" /\ sector_loaded)
          \/ (pc' = "more" /\ active_write /\ ~usb_busy)
      BY <1>18, <3>2 DEF CheckWrite
    <3> QED BY ONLY <3>1, <3>3 DEF StepTracked
  <2>7. CommandTracked'
    BY <1>18 DEF CheckWrite
  <2> QED BY <2>1, <2>2, <2>3, <2>4, <2>5, <2>6, <2>7
<1>2. CASE Clear
  BY <1>2 DEF Clear
<1>3. CASE Fetch
  BY <1>3 DEF Fetch
<1>4. CASE Send
  BY <1>4 DEF Send, Queue, EndpointFree
<1>5. CASE AskForBlock
  <2>1. ReadTracked'
    BY <1>5 DEF AskForBlock, Queue, EndpointFree
  <2>2. WriteTracked'
    BY <1>5 DEF AskForBlock, Queue, EndpointFree
  <2>3. BusyIsQueued'
    BY <1>5 DEF AskForBlock, Queue, EndpointFree
  <2>4. QueuedTracked'
    BY <1>5 DEF AskForBlock, Queue, EndpointFree
  <2>5. LoadedTracked'
    BY <1>5 DEF AskForBlock, Queue, EndpointFree
  <2>6. StepTracked'
    BY <1>5 DEF AskForBlock, Queue, EndpointFree
  <2>7. CommandTracked'
    BY <1>5 DEF AskForBlock, Queue, EndpointFree
  <2> QED BY <2>1, <2>2, <2>3, <2>4, <2>5, <2>6, <2>7
<1>6. CASE Store
  BY <1>6 DEF Store
<1>7. CASE Advance
  BY <1>7, BlockIsThere, NoWrap DEF Advance
<1>8. CASE Complete
  BY <1>8 DEF Complete
<1>9. ASSUME NEW c \in Commands, NewCommand(c) PROVE TransferTracked'
  <2>1. CASE StartRead(c)
    BY <1>9, <2>1, CommandParts DEF NewCommand, StartRead, RefuseWrite
  <2>2. CASE StartWrite(c)
    BY <1>9, <2>2, CommandParts DEF NewCommand, StartWrite, RefuseWrite, NoFaults
  <2>3. CASE RefuseWrite(c)
    BY <1>9, <2>3, CommandParts DEF NewCommand, RefuseWrite
  <2> QED BY <1>9, <2>1, <2>2, <2>3 DEF NewCommand
<1>10. CASE HostTakesBlock
  <2>1. ReadTracked'
    <3>1. active_read /\ residue > 0
      BY <1>10 DEF HostTakesBlock, BlockMoved
    <3>2. /\ active_addr' = active_addr + 1 /\ active_nblocks' = active_nblocks - 1
          /\ active_read' = (active_nblocks' # 0) /\ residue' = residue - 1
      BY <1>10, <3>1, BlockIsThere, NoWrap
      DEF HostTakesBlock, BlockMoved, usb_msc_xfer_done, ReadProgress
    <3>3. UNCHANGED <<command, halted, enabled>> /\ (residue' # 0 => UNCHANGED xfer_stage)
      BY <1>10 DEF HostTakesBlock, BlockMoved
    <3> QED BY <3>1, <3>2, <3>3
  <2>2. WriteTracked'
    BY <1>10, BlockIsThere, NoWrap DEF HostTakesBlock, BlockMoved, usb_msc_xfer_done, ReadProgress
  <2>3. BusyIsQueued'
    BY <1>10, BlockIsThere, NoWrap DEF HostTakesBlock, BlockMoved, usb_msc_xfer_done, ReadProgress
  <2>4. QueuedTracked'
    BY <1>10, BlockIsThere, NoWrap DEF HostTakesBlock, BlockMoved, usb_msc_xfer_done, ReadProgress
  <2>5. LoadedTracked'
    BY <1>10, BlockIsThere, NoWrap DEF HostTakesBlock, BlockMoved, usb_msc_xfer_done, ReadProgress
  <2>6. StepTracked'
    BY <1>10, BlockIsThere, NoWrap DEF HostTakesBlock, BlockMoved, usb_msc_xfer_done, ReadProgress
  <2>7. CommandTracked'
    BY <1>10, BlockIsThere, NoWrap DEF HostTakesBlock, BlockMoved, usb_msc_xfer_done, ReadProgress
  <2> QED BY <2>1, <2>2, <2>3, <2>4, <2>5, <2>6, <2>7
<1>11. CASE HostGivesBlock
  <2>1. ReadTracked'
    BY <1>11 DEF HostGivesBlock, BlockMoved, usb_msc_xfer_done, ReadProgress
  <2>2. WriteTracked'
    <3>1. active_write /\ pc # "clear" /\ ~active_read /\ ~sector_loaded
      BY <1>11 DEF HostGivesBlock, BlockMoved
    <3>2. /\ sector_loaded' /\ residue' = residue - 1
          /\ UNCHANGED <<active_addr, active_nblocks, command, halted, enabled, xfer_stage>>
      BY <1>11, <3>1 DEF HostGivesBlock, BlockMoved, usb_msc_xfer_done, ReadProgress
    <3> QED BY <3>1, <3>2
  <2>3. BusyIsQueued'
    BY <1>11 DEF HostGivesBlock, BlockMoved, usb_msc_xfer_done, ReadProgress
  <2>4. QueuedTracked'
    BY <1>11 DEF HostGivesBlock, BlockMoved, usb_msc_xfer_done, ReadProgress
  <2>5. LoadedTracked'
    BY <1>11 DEF HostGivesBlock, BlockMoved, usb_msc_xfer_done, ReadProgress
  <2>6. StepTracked'
    BY <1>11 DEF HostGivesBlock, BlockMoved, usb_msc_xfer_done, ReadProgress
  <2>7. CommandTracked'
    BY <1>11 DEF HostGivesBlock, BlockMoved, usb_msc_xfer_done, ReadProgress
  <2> QED BY <2>1, <2>2, <2>3, <2>4, <2>5, <2>6, <2>7
<1>12. CASE HostTakesStatus
  BY <1>12 DEF HostTakesStatus
<1>13. CASE HostClearsHalt
  BY <1>13 DEF HostClearsHalt
<1>14. CASE Disable \/ Enable
  BY <1>14 DEF Disable, Enable, NoFaults
<1>15. CASE Remount \/ sync_window
  BY <1>15 DEF Remount, sync_window
<1>16. CASE (\E b \in Stored : move_window(b)) \/ (\E d \in Data : ChangeWindow(d))
  BY <1>16 DEF move_window, ChangeWindow
<1>17. CASE UNCHANGED vars
  BY <1>17 DEF vars
<1> QED
  BY <1>1, <1>2, <1>3, <1>4, <1>5, <1>6, <1>7, <1>8, <1>9, <1>10, <1>11, <1>12, <1>13, <1>14,
     <1>15, <1>16, <1>17, <1>18, [Next]_vars
  DEF Next, usb_msc_background, HostContinues

----------------------------------------------------------------------------
(* Main thread and USB interrupt agree on the transfer in every reachable state:   *)
(* usb_busy, active_read, active_write, the counters and sector_loaded of           *)
(* usb_mass_storage.c against the command that mscdf.c is in.                      *)
THEOREM Inductive == ASSUME NoFaults PROVE Spec => []IInv
<1>1. Init => IInv
  BY InitEstablishes
<1>2. IInv /\ [Next]_vars => IInv'
  BY FlagsTypeStep, UsbTypeStep, DiskTypeStep, TrackedStep DEF IInv, TypeOK
<1> QED BY <1>1, <1>2, PTL DEF Spec

(* The flags, the counters and the disk keep their types.                         *)
THEOREM TypeCorrect == ASSUME NoFaults PROVE Spec => []TypeOK
<1>1. IInv => TypeOK
  BY DEF IInv
<1> QED BY <1>1, Inductive, PTL

(* What the two halves know of the transfer agrees (usb_mass_storage.c:282).        *)
THEOREM Tracked == ASSUME NoFaults PROVE Spec => []TransferTracked
<1>1. IInv => TransferTracked
  BY DEF IInv
<1> QED BY <1>1, Inductive, PTL

(* usb_msc_background leaves sector_buffer and the disk alone while a block is        *)
(* queued, for every interleaving with the USB interrupt.                         *)
THEOREM BufferIsTheHardwares == ASSUME NoFaults PROVE Spec => BufferNotShared
<1>1. IInv /\ usb_msc_background /\ xfer_busy # "none" => UNCHANGED <<sector_buffer, disk>>
  <2> SUFFICES ASSUME IInv, usb_msc_background, xfer_busy # "none"
               PROVE  UNCHANGED <<sector_buffer, disk>>
    OBVIOUS
  <2>1. pc # "fetch" /\ pc # "store"
    BY DEF IInv, TransferTracked, BusyIsQueued, StepTracked, LoadedTracked
  <2> QED
    BY <2>1 DEF usb_msc_background, Background, CheckRead, Fetch, Send, CheckWrite, Store, Advance,
                AskForBlock, Complete, Clear
<1> QED BY <1>1, Inductive, PTL DEF Spec, BufferNotShared

----------------------------------------------------------------------------
(* Between the write of a block and the refresh of the window sector_buffer is what   *)
(* the disk holds.                                                              *)
JustStored == pc = "advance" /\ active_addr \in Stored => sector_buffer = disk[active_addr]
WindowInv == JustStored /\ WindowCoherent

LEMMA WindowStep == ASSUME NoFaults, IInv, WindowInv, [Next]_vars PROVE WindowInv'
<1> USE DEF WindowInv, JustStored, WindowCoherent, fatfs
<1>1. CASE Store
  BY <1>1 DEF Store, flags, IInv, TypeOK, DiskType, Stored
<1>2. CASE Advance
  BY <1>2 DEF Advance, UpdateWindow, IInv, TypeOK, DiskType, Stored, Lba
<1>3. CASE usb_msc_background /\ ~Store /\ ~Advance
  <2>1. pc # "advance" /\ pc' # "advance" /\ UNCHANGED <<disk, fatfs>>
    BY <1>3 DEF usb_msc_background, Background, CheckRead, Fetch, Send, CheckWrite, AskForBlock,
                Complete, Clear
  <2> QED BY <2>1
<1>4. CASE HostContinues \/ (\E c \in Commands : NewCommand(c))
  <2>1. UNCHANGED <<pc, disk, fatfs>>
    BY <1>4 DEF HostContinues, HostTakesBlock, HostGivesBlock, BlockMoved, HostTakesStatus,
                HostClearsHalt, NewCommand
  <2>2. pc = "advance" => UNCHANGED <<active_addr, sector_buffer>>
    <3>1. pc = "advance" => xfer_busy = "none" /\ command # NULL
      BY DEF IInv, TransferTracked, BusyIsQueued, StepTracked, LoadedTracked, WriteTracked, Serving
    <3> QED
      BY <1>4, <3>1 DEF HostContinues, HostTakesBlock, HostGivesBlock, BlockMoved, HostTakesStatus,
                HostClearsHalt, NewCommand, flags
  <2> QED BY <2>1, <2>2
<1>5. CASE Disable \/ Enable \/ Remount
  BY <1>5 DEF Disable, Enable, Remount, flags
<1>6. CASE UNCHANGED vars
  BY <1>6 DEF vars, flags
<1>7. CASE \/ sync_window
           \/ (\E b \in Stored : move_window(b)) \/ (\E d \in Data : ChangeWindow(d))
  BY <1>7 DEF sync_window, move_window, ChangeWindow, IInv, TypeOK, DiskType, Stored
<1> QED
  BY <1>1, <1>2, <1>3, <1>4, <1>5, <1>6, <1>7 DEF Next

(* FatFs reads through its window what the host wrote (usb_mass_storage.c:311).      *)
THEOREM WindowFollowsHost == ASSUME NoFaults PROVE Spec => []WindowCoherent
<1>1. Init => WindowInv
  BY DEF Init, WindowInv, JustStored, WindowCoherent
<1>2. IInv /\ WindowInv /\ [Next]_vars => WindowInv'
  BY WindowStep
<1>3. WindowInv => WindowCoherent
  BY DEF WindowInv
<1> QED BY <1>1, <1>2, <1>3, Inductive, PTL DEF Spec

----------------------------------------------------------------------------
(* The steps of the device are steps of the logical unit.                          *)
Mapped == <<disk, command, DoneMap, BufferMap, StatusMap>>

(* What a flag tells of the abstract state.                                       *)
LEMMA ReadState ==
  ASSUME IInv, active_read
  PROVE  /\ Unit!Serving("read") /\ DoneMap = command.n - residue /\ residue \in 1 .. MaxBlocks
         /\ Unit!Here = active_addr /\ active_addr \in 0 .. LastLba
         /\ BufferMap = IF pc = "send" \/ xfer_busy = "in" THEN sector_buffer ELSE NULL
<1>1. Serving("read") /\ residue > 0 /\ BlocksLeft(residue) /\ ~sector_loaded
  BY DEF IInv, TransferTracked, ReadTracked, WriteTracked, LoadedTracked, Serving
<1>2. StatusMap = NULL /\ ~Refused /\ command \in Commands /\ residue \in 1 .. MaxBlocks
  BY <1>1 DEF StatusMap, Refused, Serving, IInv, TypeOK, UsbType
<1>3. DoneMap = command.n - residue
  BY <1>1, <1>2 DEF DoneMap, Serving
<1>4. Unit!Here = active_addr
  BY <1>1, <1>2, <1>3, CommandParts DEF Unit!Here, BlocksLeft, IInv, TypeOK, FlagsType
<1> QED BY <1>1, <1>2, <1>3, <1>4, BlockIsThere DEF BufferMap, Unit!Serving, Serving

LEMMA WriteState ==
  ASSUME IInv, active_write, pc # "clear"
  PROVE  /\ Unit!Serving("write") /\ ~Refused
         /\ command \in Commands /\ active_nblocks \in 0 .. MaxBlocks
         /\ DoneMap = command.n - active_nblocks + (IF pc = "advance" THEN 1 ELSE 0)
         /\ active_nblocks = residue + (IF sector_loaded THEN 1 ELSE 0)
         /\ active_addr + active_nblocks = command.addr + command.n
         /\ ~active_read
         /\ BufferMap = IF sector_loaded /\ pc # "advance" THEN sector_buffer ELSE NULL
<1>1. Serving("write") /\ BlocksLeft(residue + (IF sector_loaded THEN 1 ELSE 0)) /\ ~active_read
  BY DEF IInv, TransferTracked, ReadTracked, WriteTracked, Serving
<1>2. StatusMap = NULL /\ ~Refused
  BY <1>1 DEF StatusMap, Refused, Serving
<1> QED
  BY <1>1, <1>2, BlockIsThere
  DEF DoneMap, BufferMap, Unit!Serving, Serving, BlocksLeft, IInv, TypeOK, FlagsType, UsbType

LEMMA FetchIsFetch == ASSUME IInv, Fetch PROVE Unit!Fetch
<1>1. active_read /\ xfer_busy = "none"
  BY DEF Fetch, IInv, TransferTracked, StepTracked, BusyIsQueued
<1>2. UNCHANGED <<disk, command, DoneMap, StatusMap>>
  BY <1>1, ReadState DEF Fetch, flags, usb, DoneMap, StatusMap, Refused, Unit!Serving
<1>3. BufferMap = NULL /\ BufferMap' = disk[Unit!Here]
  BY <1>1, ReadState DEF Fetch, flags, BufferMap, Lba
<1>4. DoneMap < command.n
  BY <1>1, ReadState, CommandParts DEF Fetch, IInv, TypeOK, UsbType, Unit!Serving
<1> QED BY <1>1, <1>2, <1>3, <1>4, ReadState DEF Unit!Fetch

LEMMA TakeIsGive == ASSUME IInv, HostTakesBlock PROVE Unit!Give
<1>1. active_read /\ xfer_busy = "in" /\ xfer_busy' = "none" /\ command' = command /\ residue' = residue - 1
  BY DEF HostTakesBlock, BlockMoved, IInv, TransferTracked, QueuedTracked
<1>2. pc # "send" /\ sector_buffer \in Data \cup {Mbr}
  BY <1>1 DEF IInv, TransferTracked, StepTracked, BusyIsQueued, TypeOK, FlagsType
<1>3. BufferMap # NULL /\ Unit!Serving("read")
  BY <1>1, <1>2, ReadState
<1>4. ~sector_loaded' /\ pc' = pc
  BY <1>1 DEF HostTakesBlock, BlockMoved, usb_msc_xfer_done, IInv, TransferTracked, ReadTracked,
              WriteTracked, LoadedTracked, Serving, StepTracked, BusyIsQueued
<1>5. BufferMap' = NULL
  BY <1>1, <1>2, <1>4 DEF BufferMap
<1>6. ~halted' /\ (IF residue' = 0 THEN bCSWStatus' = "pass" /\ xfer_stage' = "status"
                   ELSE xfer_stage' = "data")
  BY <1>1 DEF HostTakesBlock, BlockMoved, IInv, TransferTracked, ReadTracked, Serving
<1>7. DoneMap' = DoneMap + 1
  BY <1>1, <1>3, <1>6, ReadState, CommandParts
  DEF DoneMap, Refused, Unit!Serving, IInv, TypeOK, UsbType
<1>8. StatusMap' = IF DoneMap' = command.n THEN "pass" ELSE NULL
  <2>1. DoneMap' = command.n - residue'
    BY <1>1, <1>3, <1>7, ReadState, CommandParts DEF IInv, TypeOK, UsbType, Unit!Serving
  <2>2. residue' = 0 <=> DoneMap' = command.n
    BY <1>1, <1>3, <2>1, CommandParts DEF IInv, TypeOK, UsbType, Unit!Serving
  <2> QED BY <1>6, <2>2 DEF StatusMap
<1> QED
  BY <1>1, <1>3, <1>5, <1>7, <1>8 DEF Unit!Give, Unit!Moved, HostTakesBlock, BlockMoved

LEMMA GiveIsReceive == ASSUME IInv, HostGivesBlock PROVE Unit!Receive
<1>1. active_write /\ pc = "idle" /\ residue > 0 /\ ~sector_loaded
  BY DEF HostGivesBlock, BlockMoved, IInv, TransferTracked, QueuedTracked, LoadedTracked, BusyIsQueued
<1>2. Unit!Serving("write") /\ BufferMap = NULL /\ ~active_read
  BY <1>1, WriteState
<1>3. /\ sector_loaded' /\ pc' = pc /\ ~active_read' /\ active_write' /\ active_nblocks' = active_nblocks
      /\ UNCHANGED <<command, halted, xfer_stage, bCSWStatus, disk>>
  BY <1>1, <1>2 DEF HostGivesBlock, BlockMoved, usb_msc_xfer_done, ReadProgress
<1>4. BufferMap' \in Data
  BY <1>1, <1>3 DEF BufferMap, HostGivesBlock
<1>5. StatusMap' = StatusMap
  BY <1>3 DEF StatusMap
<1>6. DoneMap' = DoneMap
  BY <1>1, <1>2, <1>3 DEF DoneMap, Refused, Unit!Serving
<1>7. DoneMap < command.n
  BY <1>1, WriteState, CommandParts DEF IInv, TypeOK, UsbType, Unit!Serving
<1> QED BY <1>2, <1>3, <1>4, <1>5, <1>6, <1>7 DEF Unit!Receive

LEMMA StoreIsCommit == ASSUME IInv, Store PROVE Unit!Commit
<1>1. active_write /\ sector_loaded /\ sector_buffer \in Data
  BY DEF Store, IInv, TransferTracked, StepTracked, LoadedTracked
<1>2. Unit!Serving("write") /\ BufferMap = sector_buffer /\ BufferMap # NULL
  BY <1>1, WriteState DEF Store
<1>3. Unit!Here = active_addr /\ active_addr \in 0 .. LastLba
  BY <1>1, <1>2, WriteState, BlockIsThere, CommandParts
  DEF Unit!Here, Store, IInv, TypeOK, FlagsType, UsbType, Unit!Serving
<1>4. disk' = [disk EXCEPT ![Unit!Here] = IF Unit!Here \in {0} THEN @ ELSE BufferMap]
  BY <1>2, <1>3 DEF Store, Stored, Lba, IInv, TypeOK, DiskType
<1>5. BufferMap' = NULL /\ StatusMap' = StatusMap /\ command' = command
  BY <1>1, WriteState DEF Store, BufferMap, StatusMap, flags, usb
<1>6. DoneMap' = DoneMap + 1
  <2>1. DoneMap = command.n - active_nblocks
    BY <1>1, WriteState, CommandParts DEF Store
  <2>2. DoneMap' = command.n - active_nblocks + 1
    <3>1. ~Refused' /\ command' = command /\ active_nblocks' = active_nblocks /\ pc' = "advance"
      BY <1>1, WriteState DEF Store, Refused, flags, usb
    <3> QED BY <1>2, <3>1, WriteState, <1>1 DEF DoneMap, Unit!Serving, Store
  <2> QED BY <1>1, <2>1, <2>2, WriteState DEF Store
<1> QED BY <1>2, <1>4, <1>5, <1>6 DEF Unit!Commit, Unit!Moved

LEMMA AdvanceStutters == ASSUME IInv, Advance PROVE UNCHANGED Mapped
<1>1. active_write /\ sector_loaded
  BY DEF Advance, IInv, TransferTracked, StepTracked, LoadedTracked
<1>2. active_nblocks' = active_nblocks - 1 /\ active_nblocks \in 1 .. MaxBlocks /\ ~sector_loaded'
  BY <1>1, BlockIsThere, NoWrap DEF Advance
<1>3. UNCHANGED <<disk, command, StatusMap>>
  BY DEF Advance, usb, StatusMap
<1>4. DoneMap' = DoneMap
  <2>1. DoneMap = command.n - active_nblocks + 1
    BY <1>1, WriteState DEF Advance
  <2>2. DoneMap' = command.n - active_nblocks'
    <3>1. ~Refused' /\ command' = command /\ pc' = "more" /\ Unit!Serving("write")
      BY <1>1, WriteState DEF Advance, Refused, usb
    <3> QED BY <1>1, <1>2, <3>1, WriteState, CommandParts DEF DoneMap, Unit!Serving, Advance
  <2> QED BY <1>1, <1>2, <2>1, <2>2, WriteState, CommandParts DEF IInv, TypeOK, UsbType, Unit!Serving, Advance
<1>5. BufferMap' = BufferMap
  BY <1>1, <1>2, WriteState DEF Advance, BufferMap, usb
<1> QED BY <1>3, <1>4, <1>5 DEF Mapped

LEMMA CompleteIsPass == ASSUME IInv, Complete PROVE Unit!Pass
<1>1. active_write /\ ~usb_busy /\ ~sector_loaded /\ active_nblocks = 0 /\ active_read = active_read'
  BY DEF Complete, flags, IInv, TransferTracked, StepTracked, LoadedTracked
<1>2. Unit!Serving("write") /\ DoneMap = command.n /\ BufferMap = NULL /\ ~active_read
  <2>1. pc # "clear" /\ pc # "advance"
    BY DEF Complete
  <2> QED BY <1>1, <2>1, WriteState, CommandParts
<1>3. enabled /\ xfer_busy = "none" /\ ~halted
  BY <1>1 DEF Complete, IInv, TransferTracked, WriteTracked, BusyIsQueued, Serving
<1>4. /\ bCSWStatus' = "pass" /\ xfer_stage' = "status" /\ pc' = "clear"
      /\ UNCHANGED <<command, disk, halted, residue, xfer_busy, flags>>
  BY <1>3 DEF Complete
<1>5. StatusMap' = "pass" /\ BufferMap' = BufferMap /\ ~Refused'
  BY <1>1, <1>2, <1>4 DEF StatusMap, BufferMap, Refused, flags
<1>6. DoneMap' = DoneMap
  <2>1. command # NULL /\ command.op # "read" /\ command.n \in Nat
    BY <1>2, CommandParts DEF Unit!Serving, IInv, TypeOK, UsbType
  <2>2. DoneMap' = command.n - 0 + 0
    BY <1>1, <1>4, <1>5, <2>1 DEF DoneMap, flags
  <2> QED BY <1>2, <2>1, <2>2
<1> QED BY <1>2, <1>4, <1>5, <1>6 DEF Unit!Pass

LEMMA CommandIsBegin ==
  ASSUME NoFaults, IInv, NEW c \in Commands, NewCommand(c)
  PROVE  Unit!Begin \/ Unit!Refuse
<1>1. command = NULL /\ xfer_stage = "command" /\ ~halted
  BY DEF NewCommand, IInv, TransferTracked, CommandTracked
<1>2. ~active_read /\ (active_write => pc = "clear") /\ ~sector_loaded /\ xfer_busy = "none" /\ pc # "send"
  BY <1>1 DEF IInv, TransferTracked, ReadTracked, WriteTracked, LoadedTracked, QueuedTracked,
              StepTracked, Serving, TypeOK, UsbType
<1>3. Unit!Idle
  BY <1>1, <1>2 DEF Unit!Idle, DoneMap, BufferMap, StatusMap
<1>4. /\ command' = c /\ residue' = c.n /\ xfer_stage' = "data" /\ c.op \in {"read", "write"}
      /\ c # NULL /\ c.n \in Nat
      /\ UNCHANGED <<disk, xfer_busy, pc>>
  BY CommandParts DEF NewCommand
<1>5. CASE StartRead(c) \/ StartWrite(c)
  <2>1. active_nblocks' = c.n /\ ~halted' /\ ~sector_loaded'
    BY <1>1, <1>2, <1>5 DEF NewCommand, StartRead, StartWrite, RefuseWrite, flags
  <2>2. pc = "advance" => sector_loaded
    BY DEF IInv, TransferTracked, StepTracked
  <2>3. DoneMap' = 0 /\ StatusMap' = NULL /\ BufferMap' = NULL
    BY <1>2, <1>4, <2>1, <2>2 DEF DoneMap, StatusMap, BufferMap, Refused
  <2> QED BY <1>3, <1>4, <2>3 DEF Unit!Begin, Unit!Idle
<1>6. CASE RefuseWrite(c)
  <2>1. DoneMap' = 0 /\ StatusMap' = "fail" /\ BufferMap' = NULL
    BY <1>2, <1>4, <1>6 DEF RefuseWrite, DoneMap, StatusMap, BufferMap, Refused
  <2> QED BY <1>3, <1>4, <1>6, <2>1 DEF Unit!Refuse, Unit!Idle, RefuseWrite
<1> QED BY <1>5, <1>6 DEF NewCommand

LEMMA StatusIsEnd == ASSUME IInv, HostTakesStatus PROVE Unit!End
<1>1. xfer_stage = "status" /\ ~halted /\ ~active_read /\ ~sector_loaded
  BY DEF HostTakesStatus, IInv, TransferTracked, ReadTracked, WriteTracked, LoadedTracked,
         CommandTracked, Serving
<1>2. StatusMap # NULL
  BY <1>1 DEF StatusMap, IInv, TypeOK, UsbType
<1>3. Unit!Idle'
  BY <1>1 DEF HostTakesStatus, flags, Unit!Idle, DoneMap, BufferMap, StatusMap
<1> QED BY <1>2, <1>3 DEF Unit!End, HostTakesStatus

(* The other steps change nothing that the host sees, or are the program's.         *)
LEMMA OthersStutter ==
  ASSUME NoFaults, IInv,
         \/ Background \/ CheckRead \/ Send \/ CheckWrite \/ AskForBlock \/ Clear
         \/ HostClearsHalt \/ Disable \/ Enable \/ Remount
         \/ (\E b \in Stored : move_window(b)) \/ (\E d \in Data : ChangeWindow(d))
         \/ UNCHANGED vars
  PROVE  UNCHANGED Mapped
<1>1. CASE Background \/ CheckRead \/ CheckWrite
  <2>1. /\ UNCHANGED <<flags, sector_buffer, usb, xfer_busy, disk>>
        /\ pc \notin {"advance", "send"} /\ pc' \notin {"advance", "send"}
    BY <1>1 DEF Background, CheckRead, CheckWrite
  <2> QED BY <2>1 DEF Mapped, DoneMap, BufferMap, StatusMap, Refused, flags, usb
<1>2. CASE Send
  <2>1. active_read /\ enabled /\ xfer_busy = "none" /\ ~sector_loaded
    BY <1>2 DEF Send, IInv, TransferTracked, StepTracked, ReadTracked, WriteTracked, LoadedTracked,
                BusyIsQueued, Serving
  <2> QED BY <1>2, <2>1 DEF Send, Queue, Mapped, DoneMap, BufferMap, StatusMap, Refused, usb
<1>3. CASE AskForBlock
  <2>1. ~sector_loaded /\ ~active_read
    BY <1>3, WriteState DEF AskForBlock, IInv, TransferTracked, StepTracked, LoadedTracked
  <2> QED BY <1>3, <2>1 DEF AskForBlock, Mapped, DoneMap, BufferMap, StatusMap, Refused, usb
<1>4. CASE Clear
  <2>1. ~sector_loaded
    BY <1>4 DEF Clear, IInv, TransferTracked, LoadedTracked
  <2> QED BY <1>4, <2>1 DEF Clear, Mapped, DoneMap, BufferMap, StatusMap, Refused, usb
<1>5. CASE HostClearsHalt
  BY <1>5 DEF HostClearsHalt, Mapped, DoneMap, BufferMap, StatusMap, Refused, flags
<1>6. CASE Disable
  <2>1. command = NULL /\ command' = NULL /\ xfer_stage = "command" /\ ~halted
    BY <1>6 DEF Disable, NoFaults, IInv, TransferTracked, CommandTracked
  <2>2. ~active_read /\ ~sector_loaded
    BY <2>1 DEF IInv, TransferTracked, ReadTracked, WriteTracked, LoadedTracked, Serving
  <2> QED BY <1>6, <2>1, <2>2 DEF Disable, Mapped, DoneMap, BufferMap, StatusMap, flags
<1>7. CASE Enable \/ Remount \/ (\E b \in Stored : move_window(b)) \/ (\E d \in Data : ChangeWindow(d))
  <2>1. /\ UNCHANGED <<flags, sector_buffer, pc, xfer_stage, residue, bCSWStatus, halted, command,
                       xfer_busy, disk>>
    BY <1>7 DEF Enable, Remount, move_window, ChangeWindow, usb
  <2> QED BY <2>1 DEF Mapped, DoneMap, BufferMap, StatusMap, Refused, flags
<1>8. CASE UNCHANGED vars
  BY <1>8 DEF vars, Mapped, DoneMap, BufferMap, StatusMap, Refused, flags, usb
<1> QED BY <1>1, <1>2, <1>3, <1>4, <1>5, <1>6, <1>7, <1>8

LEMMA SyncIsProgram == ASSUME IInv, sync_window PROVE Unit!Program
<1>1. winsect \in Stored /\ win \in Data /\ disk' = [disk EXCEPT ![winsect] = win]
  BY DEF sync_window, IInv, TypeOK, DiskType
<1>2. UNCHANGED <<command, DoneMap, BufferMap, StatusMap>>
  BY DEF sync_window, DoneMap, BufferMap, StatusMap, Refused, flags, usb
<1> QED BY <1>1, <1>2 DEF Unit!Program, Stored

LEMMA StepImplements == ASSUME NoFaults, IInv, [Next]_vars PROVE [Unit!Next]_Mapped
<1>1. ASSUME NEW c \in Commands, NewCommand(c) PROVE Unit!Begin \/ Unit!Refuse
  BY <1>1, CommandIsBegin
<1> QED
  BY <1>1, FetchIsFetch, TakeIsGive, GiveIsReceive, StoreIsCommit, AdvanceStutters, CompleteIsPass,
     StatusIsEnd, OthersStutter, SyncIsProgram
  DEF Next, usb_msc_background, HostContinues, Unit!Next

(* The device serves the host's commands as the logical unit promises: every step of   *)
(* the main thread or of the USB interrupt is a step of LogicalUnit or none.         *)
THEOREM Implements == ASSUME NoFaults PROVE Spec => CommandsServed
<1>1. Init => Unit!Init
  BY DEF Init, Unit!Init, Unit!Idle, DoneMap, BufferMap, StatusMap
<1>2. IInv /\ [Next]_vars => [Unit!Next]_(Unit!vars)
  BY StepImplements DEF Mapped, Unit!vars
<1> QED BY <1>1, <1>2, Inductive, PTL DEF Spec, CommandsServed, Unit!Spec
=============================================================================

----------------------------- MODULE MassStorage -----------------------------
(***************************************************************************)
(* usb_mass_storage.c and the mass storage function driver below it: the     *)
(* host's READ10 and WRITE10 commands are accepted by the USB interrupt and   *)
(* served, one block at a time, by usb_msc_background in the main thread.     *)
(*                                                                         *)
(* The two share the volatile flags and sector_buffer.  The main thread takes *)
(* one step per access that the interrupt can come between; a critical        *)
(* section is one step.  An interrupt is one step, with what the host did to  *)
(* cause it.  The host keeps to the bulk-only protocol: one command at a time, *)
(* as many blocks as it announced, READ CAPACITY before the first command.    *)
(***************************************************************************)
EXTENDS Integers

CONSTANTS
  LastLba,    \* the last block of the disk; block 0 is the faked MBR
  MaxBlocks,  \* the most blocks in a command
  Word,       \* active_addr and active_nblocks count modulo this
  Data, Mbr,  \* what a stored block may hold, and what block 0 reads as
  Faults,     \* "reset": the bus may be reset during a command, while the main
              \* thread is elsewhere; "early": a write may follow a write so soon
              \* that active_write is not cleared yet
  NULL

Lba == 0 .. LastLba
Stored == Lba \ {0}
Commands ==
  {c \in [op : {"read", "write"}, addr : Lba, n : 1 .. MaxBlocks] : c.addr + c.n <= LastLba + 1}

ASSUME SizeAssumption ==
  /\ LastLba \in Nat \ {0} /\ MaxBlocks \in Nat \ {0}
  /\ Word \in Nat /\ LastLba + 1 < Word /\ MaxBlocks < Word
ASSUME DataAssumption ==
  Mbr \notin Data /\ NULL \notin Data \cup {Mbr, "pass", "fail"} /\ NULL \notin Commands
ASSUME FaultAssumption == Faults \subseteq {"reset", "early"}

VARIABLES
  usb_busy, active_read, active_write, active_addr, active_nblocks,
  sector_loaded, sector_buffer,
  pc,             \* where usb_msc_background is
  enabled,        \* the host has configured the device
  xfer_stage,     \* of the command: "command", "data" or "status"
  xfer_busy,      \* the block transfer that is queued: "none", "in" or "out"
  residue,        \* dCSWDataResidue, in blocks
  bCSWStatus,
  halted,         \* the OUT endpoint is halted
  command,        \* what the host is waiting for, or NULL
  disk,
  usb_writable,   \* FSUSER_USB_WRITABLE
  winsect, win,   \* the sector in FatFs's window and its contents
  dirty           \* wflag: the window is to be written back

flags == <<usb_busy, active_read, active_write, active_addr, active_nblocks, sector_loaded>>
usb == <<enabled, xfer_stage, residue, bCSWStatus, halted, command>>
fatfs == <<winsect, win, dirty>>
vars == <<flags, sector_buffer, pc, usb, xfer_busy, disk, usb_writable, fatfs>>

Minus(m, k) == (m - k) % Word
Plus(m, k) == (m + k) % Word

Init ==
  /\ usb_busy = FALSE /\ active_read = FALSE /\ active_write = FALSE
  /\ active_addr = 0 /\ active_nblocks = 0 /\ sector_loaded = FALSE
  /\ sector_buffer = Mbr
  /\ pc = "idle"
  /\ enabled = FALSE /\ xfer_stage = "command" /\ xfer_busy = "none"
  /\ residue = 0 /\ bCSWStatus = "pass" /\ halted = FALSE /\ command = NULL
  /\ disk \in [Lba -> Data \cup {Mbr}] /\ disk[0] = Mbr /\ \A b \in Stored : disk[b] \in Data
  /\ usb_writable \in BOOLEAN
  /\ winsect \in Stored /\ win = disk[winsect] /\ dirty = FALSE

----------------------------------------------------------------------------
(* usb_msc_background.                                                       *)

(* mscdf_xfer_blocks of one block, and usb_busy, in one critical section.  The    *)
(* transfer is refused when one is queued or the endpoint is in use.             *)
EndpointFree(dir) == xfer_stage # (IF dir = "in" THEN "status" ELSE "command")
Queue(dir) ==
  /\ usb_busy' = (enabled /\ xfer_busy = "none" /\ EndpointFree(dir))
  /\ xfer_busy' = IF enabled /\ xfer_busy = "none" THEN dir ELSE xfer_busy

(* A mutant: usb_busy is not looked at.                                        *)
BackgroundAnyway ==
  /\ pc = "idle" /\ pc' = "reading"
  /\ UNCHANGED <<flags, sector_buffer, usb, xfer_busy, disk, usb_writable, fatfs>>
Background ==
  /\ pc = "idle" /\ ~usb_busy
  /\ pc' = "reading"
  /\ UNCHANGED <<flags, sector_buffer, usb, xfer_busy, disk, usb_writable, fatfs>>

CheckRead ==
  /\ pc = "reading"
  /\ pc' = IF active_read THEN "fetch" ELSE "writing"
  /\ UNCHANGED <<flags, sector_buffer, usb, xfer_busy, disk, usb_writable, fatfs>>

(* A read beyond the disk fails, which nobody looks at.                         *)
Fetch ==
  /\ pc = "fetch"
  /\ sector_buffer' = IF active_addr \in Lba THEN disk[active_addr] ELSE sector_buffer
  /\ pc' = "send"
  /\ UNCHANGED <<flags, usb, xfer_busy, disk, usb_writable, fatfs>>

Send ==
  /\ pc = "send"
  /\ Queue("in")
  /\ pc' = "writing"
  /\ UNCHANGED <<active_read, active_write, active_addr, active_nblocks, sector_loaded,
                 sector_buffer, usb, disk, usb_writable, fatfs>>

CheckWrite ==
  /\ pc = "writing"
  /\ pc' = IF ~active_write THEN "idle" ELSE IF sector_loaded THEN "store" ELSE "more"
  /\ UNCHANGED <<flags, sector_buffer, usb, xfer_busy, disk, usb_writable, fatfs>>

Store ==
  /\ pc = "store"
  /\ disk' = IF active_addr \in Stored THEN [disk EXCEPT ![active_addr] = sector_buffer] ELSE disk
  /\ pc' = "advance"
  /\ UNCHANGED <<flags, sector_buffer, usb, xfer_busy, usb_writable, fatfs>>

(* A mutant: the window is not refreshed.                                       *)
WindowKept == UNCHANGED fatfs
UpdateWindow ==
  /\ win' = IF active_addr = winsect /\ active_addr > 0 THEN sector_buffer ELSE win
  /\ UNCHANGED <<winsect, dirty>>

Advance ==
  /\ pc = "advance"
  /\ UpdateWindow
  /\ sector_loaded' = FALSE
  /\ active_addr' = Plus(active_addr, 1) /\ active_nblocks' = Minus(active_nblocks, 1)
  /\ pc' = "more"
  /\ UNCHANGED <<usb_busy, active_read, active_write, sector_buffer, usb, xfer_busy, disk, usb_writable>>

AskForBlock ==
  /\ pc = "more" /\ active_nblocks > 0
  /\ Queue("out")
  /\ pc' = "idle"
  /\ UNCHANGED <<active_read, active_write, active_addr, active_nblocks, sector_loaded,
                 sector_buffer, usb, disk, usb_writable, fatfs>>

(* mscdf_xfer_blocks(false, NULL, 0) sends the status of the command.            *)
Complete ==
  /\ pc = "more" /\ active_nblocks = 0
  /\ IF enabled /\ xfer_busy = "none" THEN bCSWStatus' = "pass" /\ xfer_stage' = "status"
                                      ELSE UNCHANGED <<bCSWStatus, xfer_stage>>
  /\ pc' = "clear"
  /\ UNCHANGED <<flags, sector_buffer, enabled, residue, halted, command, xfer_busy, disk,
                 usb_writable, fatfs>>

(* active_write is cleared and the countdown of the autoreload starts.           *)
Clear ==
  /\ pc = "clear"
  /\ active_write' = FALSE
  /\ pc' = "idle"
  /\ UNCHANGED <<usb_busy, active_read, active_addr, active_nblocks, sector_loaded,
                 sector_buffer, usb, xfer_busy, disk, usb_writable, fatfs>>

----------------------------------------------------------------------------
(* The USB interrupt.                                                        *)

(* A CBW arrives: mscdf_read_write in the command stage, usb_msc_new_read or      *)
(* usb_msc_new_write.                                                         *)
StartRead(c) ==
  /\ c.op = "read"
  /\ active_read' = TRUE
  /\ UNCHANGED <<active_write, sector_loaded, bCSWStatus, halted>>
StartWrite(c) ==
  /\ c.op = "write" /\ usb_writable
  /\ pc = "clear" => "early" \in Faults
  /\ active_write' = TRUE /\ sector_loaded' = FALSE
  /\ UNCHANGED <<active_read, bCSWStatus, halted>>
RefuseWrite(c) ==
  /\ c.op = "write" /\ ~usb_writable
  /\ bCSWStatus' = "fail" /\ halted' = TRUE
  /\ UNCHANGED <<active_read, active_write, active_addr, active_nblocks, sector_loaded>>

NewCommand(c) ==
  /\ enabled /\ xfer_stage = "command" /\ command = NULL
  /\ command' = c /\ residue' = c.n /\ xfer_stage' = "data"
  /\ \/ /\ (StartRead(c) \/ StartWrite(c))
        /\ active_addr' = c.addr /\ active_nblocks' = c.n
     \/ RefuseWrite(c)
  /\ UNCHANGED <<usb_busy, sector_buffer, pc, enabled, xfer_busy, disk, usb_writable, fatfs>>

(* A block went over the bus: mscdf_read_write in the data stage and             *)
(* usb_msc_xfer_done.                                                         *)
(* Mutants: a received block is counted at once; the last block is not noticed; the *)
(* address is not moved on.                                                     *)
CountedAtOnce ==
  IF active_read \/ active_write
  THEN /\ active_addr' = Plus(active_addr, 1) /\ active_nblocks' = Minus(active_nblocks, 1)
       /\ active_read' = (active_read /\ active_nblocks' # 0)
  ELSE UNCHANGED <<active_read, active_addr, active_nblocks>>
ReadTooFar ==
  IF active_read
  THEN /\ active_addr' = Plus(active_addr, 1) /\ active_nblocks' = Minus(active_nblocks, 1)
       /\ active_read' = (active_nblocks # 0)
  ELSE UNCHANGED <<active_read, active_addr, active_nblocks>>
ReadSameBlock ==
  IF active_read
  THEN /\ active_nblocks' = Minus(active_nblocks, 1) /\ active_read' = (active_nblocks' # 0)
       /\ UNCHANGED active_addr
  ELSE UNCHANGED <<active_read, active_addr, active_nblocks>>
ReadProgress ==
  IF active_read
  THEN /\ active_addr' = Plus(active_addr, 1) /\ active_nblocks' = Minus(active_nblocks, 1)
       /\ active_read' = (active_nblocks' # 0)
  ELSE UNCHANGED <<active_read, active_addr, active_nblocks>>
(* A mutant: usb_busy is not cleared.                                          *)
DoneButBusy ==
  /\ ReadProgress
  /\ sector_loaded' = (sector_loaded \/ active_write)
  /\ UNCHANGED <<usb_busy, active_write>>
usb_msc_xfer_done ==
  /\ ReadProgress
  /\ sector_loaded' = (sector_loaded \/ active_write)
  /\ usb_busy' = FALSE
  /\ UNCHANGED active_write

BlockMoved(op, dir) ==
  /\ xfer_stage = "data" /\ command # NULL /\ command.op = op /\ xfer_busy = dir /\ residue > 0
  /\ residue' = residue - 1 /\ xfer_busy' = "none"
  /\ usb_msc_xfer_done
  /\ UNCHANGED <<pc, enabled, halted, command, disk, usb_writable, fatfs>>

HostTakesBlock ==
  /\ BlockMoved("read", "in")
  /\ IF residue' = 0 THEN bCSWStatus' = "pass" /\ xfer_stage' = "status"
                     ELSE UNCHANGED <<bCSWStatus, xfer_stage>>
  /\ UNCHANGED sector_buffer

HostGivesBlock ==
  /\ BlockMoved("write", "out")
  /\ sector_buffer' \in Data
  /\ UNCHANGED <<bCSWStatus, xfer_stage>>

(* The host takes the status; mscdf_wait_cbw.                                  *)
HostTakesStatus ==
  /\ enabled /\ xfer_stage = "status"
  /\ xfer_stage' = "command" /\ command' = NULL
  /\ UNCHANGED <<flags, sector_buffer, pc, enabled, residue, bCSWStatus, halted, xfer_busy, disk,
                 usb_writable, fatfs>>

(* The host clears the halt of a refused write; mscdf_cb_ep_bulk_out.             *)
HostClearsHalt ==
  /\ halted
  /\ halted' = FALSE /\ xfer_stage' = "status"
  /\ UNCHANGED <<flags, sector_buffer, pc, enabled, residue, bCSWStatus, command, xfer_busy, disk,
                 usb_writable, fatfs>>

(* The bus is reset: mscdf_disable, and later mscdf_enable.  Nothing tells        *)
(* usb_mass_storage.c.                                                        *)
Disable ==
  /\ enabled
  /\ command # NULL => "reset" \in Faults /\ pc = "idle"
  /\ enabled' = FALSE /\ xfer_stage' = "command" /\ xfer_busy' = "none" /\ halted' = FALSE
  /\ command' = NULL
  /\ UNCHANGED <<flags, sector_buffer, pc, residue, bCSWStatus, disk, usb_writable, fatfs>>
Enable ==
  /\ ~enabled /\ enabled' = TRUE
  /\ UNCHANGED <<flags, sector_buffer, pc, xfer_stage, residue, bCSWStatus, halted, command, xfer_busy,
                 disk, usb_writable, fatfs>>

----------------------------------------------------------------------------
(* The program, between two calls of usb_msc_background.                       *)

(* storage.remount: refused while the host has configured the device.            *)
Remount ==
  /\ pc = "idle" /\ ~enabled
  /\ usb_writable' = ~usb_writable
  /\ UNCHANGED <<flags, sector_buffer, pc, usb, xfer_busy, disk, fatfs>>

(* FatFs reads and writes through its window, which is written back before it      *)
(* moves.  Nothing stops it from writing while the host may write.               *)
move_window(b) ==
  /\ pc = "idle" /\ ~dirty /\ b # winsect
  /\ winsect' = b /\ win' = disk[b]
  /\ UNCHANGED <<flags, sector_buffer, pc, usb, xfer_busy, disk, usb_writable, dirty>>
ChangeWindow(d) ==
  /\ pc = "idle"
  /\ win' = d /\ dirty' = TRUE
  /\ UNCHANGED <<flags, sector_buffer, pc, usb, xfer_busy, disk, usb_writable, winsect>>
sync_window ==
  /\ pc = "idle" /\ dirty
  /\ disk' = [disk EXCEPT ![winsect] = win] /\ dirty' = FALSE
  /\ UNCHANGED <<flags, sector_buffer, pc, usb, xfer_busy, usb_writable, winsect, win>>

----------------------------------------------------------------------------
usb_msc_background ==
  \/ Background \/ CheckRead \/ Fetch \/ Send \/ CheckWrite
  \/ Store \/ Advance \/ AskForBlock \/ Complete \/ Clear
HostContinues == HostTakesBlock \/ HostGivesBlock \/ HostTakesStatus \/ HostClearsHalt
Next ==
  \/ usb_msc_background \/ HostContinues
  \/ \E c \in Commands : NewCommand(c)
  \/ Disable \/ Enable
  \/ Remount
  \/ \E b \in Stored : move_window(b)
  \/ \E d \in Data : ChangeWindow(d)
  \/ sync_window

Spec == Init /\ [][Next]_vars

(* The main loop and the interpreter call the background tasks again and again,    *)
(* and the host goes on with a transfer that the device is ready for.             *)
FairSpec == Spec /\ WF_vars(usb_msc_background) /\ WF_vars(HostContinues)

----------------------------------------------------------------------------
(* The transfer state keeps its types; the addresses and the counts stay inside    *)
(* the range that the host's command gave them.                                 *)
FlagsType ==
  /\ usb_busy \in BOOLEAN /\ active_read \in BOOLEAN /\ active_write \in BOOLEAN
  /\ active_addr \in 0 .. LastLba + 1 /\ active_nblocks \in 0 .. MaxBlocks
  /\ sector_loaded \in BOOLEAN /\ sector_buffer \in Data \cup {Mbr}
  /\ pc \in {"idle", "reading", "fetch", "send", "writing", "store", "advance", "more", "clear"}
UsbType ==
  /\ enabled \in BOOLEAN /\ xfer_stage \in {"command", "data", "status"}
  /\ xfer_busy \in {"none", "in", "out"} /\ residue \in 0 .. MaxBlocks
  /\ bCSWStatus \in {"pass", "fail"} /\ halted \in BOOLEAN /\ command \in Commands \cup {NULL}
DiskType ==
  /\ disk \in [Lba -> Data \cup {Mbr}] /\ (\A b \in Stored : disk[b] \in Data)
  /\ usb_writable \in BOOLEAN
  /\ winsect \in Stored /\ win \in Data /\ dirty \in BOOLEAN
TypeOK == FlagsType /\ UsbType /\ DiskType

(* The two halves agree on the transfer.  A flag says that a command of its kind   *)
(* is in its data stage, and active_addr and active_nblocks say which blocks of    *)
(* it are left, with the one that is in sector_buffer counted.                    *)
Serving(op) == command # NULL /\ command.op = op /\ xfer_stage = "data" /\ ~halted /\ enabled
BlocksLeft(n) == active_nblocks = n /\ active_addr + n = command.addr + command.n
ReadTracked == active_read => Serving("read") /\ residue > 0 /\ BlocksLeft(residue)
WriteTracked ==
  active_write /\ pc # "clear" =>
    Serving("write") /\ BlocksLeft(residue + (IF sector_loaded THEN 1 ELSE 0))
(* usb_busy says that a block is queued, and then it is one of that command.         *)
BusyIsQueued == usb_busy <=> xfer_busy # "none"
QueuedTracked ==
  /\ xfer_busy = "in" => active_read
  /\ xfer_busy = "out" => active_write /\ pc = "idle" /\ residue > 0
(* A block that the host wrote stays in sector_buffer until it is stored.            *)
LoadedTracked ==
  sector_loaded =>
    active_write /\ pc \notin {"more", "clear"} /\ ~usb_busy /\ sector_buffer \in Data
(* And the main thread is where the flags it read still hold.                      *)
StepTracked ==
  /\ pc = "reading" => ~usb_busy
  /\ pc \in {"fetch", "send"} => active_read /\ ~usb_busy
  /\ pc \in {"store", "advance"} => sector_loaded
  /\ pc \in {"more", "clear"} => active_write /\ ~usb_busy
(* Every command has an owner: main thread, transfer, or host.                     *)
CommandTracked ==
  /\ command = NULL => xfer_stage = "command" /\ ~halted
  /\ command # NULL => enabled /\ xfer_stage # "command"
  /\ command # NULL /\ xfer_stage = "data" =>
       active_read \/ (active_write /\ pc # "clear") \/ halted
  /\ halted => command # NULL /\ command.op = "write" /\ bCSWStatus = "fail" /\ xfer_stage = "data"

(* All of it is what usb_msc_background counts on when it reads the volatile flags   *)
(* one by one while the USB interrupt writes them.                               *)
TransferTracked ==
  /\ ReadTracked /\ WriteTracked /\ BusyIsQueued /\ QueuedTracked /\ LoadedTracked
  /\ StepTracked /\ CommandTracked

(* While a block is queued sector_buffer belongs to the USB hardware: the main     *)
(* thread neither fills it nor writes it to the disk.                             *)
BufferNotShared ==
  [][usb_msc_background /\ xfer_busy # "none" => UNCHANGED <<sector_buffer, disk>>]_vars

(* FatFs's window, unless it was changed, holds what the disk holds, whatever the    *)
(* host wrote in the meantime; only between the write of the block it caches and the *)
(* refresh, which no FatFs function can come between, it does not.                  *)
WindowCoherent ==
  dirty \/ win = disk[winsect] \/ (pc = "advance" /\ active_addr = winsect)

(* Each command of the host is served as the logical unit promises: the blocks in    *)
(* order, each moved once, none before it was asked for.                          *)
Refused == bCSWStatus = "fail" /\ (halted \/ xfer_stage = "status")
DoneMap ==
  IF command = NULL \/ Refused THEN 0
  ELSE IF command.op = "read" THEN command.n - residue
  ELSE command.n - active_nblocks + (IF pc = "advance" THEN 1 ELSE 0)
BufferMap ==
  IF \/ active_read /\ (pc = "send" \/ xfer_busy = "in")
     \/ active_write /\ sector_loaded /\ pc # "advance"
  THEN sector_buffer ELSE NULL
StatusMap == IF halted \/ xfer_stage = "status" THEN bCSWStatus ELSE NULL
Unit == INSTANCE LogicalUnit
  WITH Fixed <- {0}, done <- DoneMap, buffer <- BufferMap, status <- StatusMap
CommandsServed == Unit!Spec

(* Every command of the host is answered with a status, and the host can go on.    *)
CommandAnswered == command # NULL ~> command = NULL
=============================================================================

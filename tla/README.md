# A verification model of wakey for CircuitPython (SAMD21)

This directory holds a TLA+ development of the program in this repository: a
fork of CircuitPython for the ItsyBitsy M0 (`circuitpython/ports/atmel-samd`,
chip SAMD21) that adds the module `wakey`, whose `zzz(pin)` puts the CPU into
standby until a pin changes.  The modules are checked with TLC on small
instances; what is said of every instance is proved with TLAPS.

Paths below are relative to `src/circuitpython/ports/atmel-samd/` unless they
start with `main.c`, `supervisor/shared/` or `shared-bindings/`, which are
relative to `src/circuitpython/`.

## 1. The system

There is one main thread, which runs the Python program and, between its
bytecodes, the background tasks; and interrupt handlers that preempt it
wherever interrupts are enabled.  Nothing else is concurrent.  Shared state is
protected by disabling interrupts (`common_hal_mcu_disable_interrupts`, which
nests) or not at all.

| component | state | operations | interacts with |
|---|---|---|---|
| external interrupt driver (`peripherals/samd/external_interrupts.c`, `.../samd21/external_interrupts.c`) | registers CTRL, CONFIG, INTEN, INTFLAG, WAKEUP of the EIC, its bus clock, the NVIC line; `channel_data`, `channel_handler` | `turn_on_eic_channel`, `turn_off_eic_channel`, `configure_eic_channel`, turning the controller on and off, `eic_reset`, `EIC_Handler` | called by the three clients, calls their handlers |
| `wakey.zzz` (`wakey.c`, `wakey_helpers.c`) | none of its own | `config_EIC`, `time_to_sleep`, `wakey_interrupt_handler` | driver |
| `pulseio.PulseIn` (`common-hal/pulseio/PulseIn.c`) | a ring of durations, the time of the last edge, `first_edge`, `errored_too_fast` | construct, deinit, pause, resume, clear, popleft, get_item; interrupt handler | driver, tick, background tasks |
| `rotaryio.IncrementalEncoder` (`common-hal/rotaryio/IncrementalEncoder.c`) | two channels, `last_state`, `quarter_count`, `position` | construct, deinit; interrupt handler | driver |
| tick (`tick.c`) | `ticks_ms`, the SysTick counter | `SysTick_Handler`, `current_tick` | autoreload, gamepad, PulseIn |
| external flash cache (`external_flash/external_flash.c`) | `current_sector`, `dirty_mask`, the RAM or scratch copy of one sector, the flash | read and write blocks, flush | file system, mass storage, supervisor memory |
| USB mass storage (`usb_mass_storage.c`) | `usb_busy`, `active_read`, `active_write`, address, count, `sector_loaded` | callbacks of the USB interrupt; `usb_msc_background` | flash, autoreload |
| supervisor memory (`supervisor/shared/memory.c`, `stack.c`) | table of 8 allocations, low and high address; current and next stack size | allocate, free; `stack_init`, `stack_resize` | stack, heap, flash cache |
| autoreload and main loop (`supervisor/shared/autoreload.c`, `main.c`) | countdown, enabled, suspended, requested, pending exception | tick, start, stop, suspend, resume; run boot.py, code, REPL | everything |
| garbage collector (`py/gc.c`) | allocation table, mark stack, overflow flag | `gc_collect` | the heap |
| audio DMA, PWM and timers | channel and timer ownership, buffers | allocate, fill, stop | background tasks |

What is hard, component by component:

* **Driver.** Every function is a sequence of register writes with interrupts
  enabled, and `EIC_Handler` may run between any two of them, writing the same
  registers.  One controller, one NVIC line and one loop serve sixteen channels,
  and pins share channels.  A register write is lost while the bus clock is off.
  Correct means: a channel has one owner; a handler runs on an object of its
  kind; the controller is on as long as a channel interrupts; no update of a
  register is lost; each latched edge is served.
* **zzz.** The awaited edge may come before the CPU sleeps.  Correct means: it
  sleeps only when armed, and an edge after arming wakes it.
* **PulseIn.** Durations are computed from two units with a borrow and 32-bit
  wrap-around; the ring is written by the handler and read by the main
  thread.  Correct means: it holds the last `maxlen` pulses in order and
  each is as long as it lasted.
* **Flash cache.** Write-back with a choice of two caches, a shortcut for
  erased pages, and erase-before-write: a crash or a failed command in
  the middle.  Correct means: reads return what was last written, after a flush from the
  flash, and a block that is not written does not change.
* **Mass storage.** An interrupt and a background task hand one buffer and six
  flags to each other without a lock.  Correct means: the main thread leaves the buffer
  alone while the hardware uses it, each block of a command is moved once, in order, and a
  command is answered.
* **Memory.** Two stacks of allocations that are recovered from lengths left in empty slots.
  Correct means: allocations are disjoint and no word is lost over a long sequence of runs.
* **Autoreload and main loop.** The tick interrupts every sequence of flag updates, and
  requests a reload only once.  Correct means: what the host saved is run, and the
  REPL is left alone.
* **Collector.** A traversal with a stack that overflows.  Correct means: it frees
  what cannot be reached and nothing else.

The complete list of hazards, at their lines, with the properties that
cover them, is in `PROJECT.json`.

## 2. Modules

### EIC — the controller, its driver and its three clients

`EIC.tla` models both source files of the driver and what PulseIn,
IncrementalEncoder and `zzz` do to it.  State:

* `busclk`, `enable`, `config`, `inten`, `intflag`, `wakeup`, `nvic`, `mux`: the
  registers (`PM.APBAMASK.EIC`, `EIC.CTRL`, `CONFIG`, `INTENSET/CLR`, `INTFLAG`,
  `WAKEUP`, the NVIC enable bit, the pin multiplexer);
* `data`, `handler`: `channel_data` and `channel_handler`;
* `pinA`, `pinB`, `first`, `errored`: the fields of the client objects;
* `isr`: where `EIC_Handler` is in its loop; `pc`, `self`, `call`, `copy`: where the
  main thread is, for which object, with which arguments, and the value of
  CONFIG it has read;
* `misuse`: a history variable that no action reads.  It becomes `"shared"` when `zzz` takes a channel
  that an object owns, or the controller is turned off while an object other than the one being deinited
  is still alive; it becomes `"stray"` when a handler runs on something that is not its object, and stays
  so until the board is reset, since what such a handler wrote may outlive the program.

The main thread executes one *operation* at a time (`PulseInConstruct`,
`EncoderConstruct`, `Deinit`, `Pause`, `Resume`, `Zzz`, `EicReset`), each split at
every register access another actor could see: `cfg_read`, `cfg_write`,
`intenset`, `set_handler`, `cpu_irq` are the statements of
`turn_on_eic_channel`; `off_inten`, `off_data`, `off_nvic`, `off_ctrl` those of
`turn_off_eic_channel`, where INTENSET is read twice.  `EnterHandler` preempts
between any two of these unless interrupts are disabled (`InterruptsOff`: only
inside `configure_eic_channel`).  `EIC_Handler` runs to its end before the main
thread goes on.  What an operation does before its first visible register
access is merged into its first step: nothing else reads it.

Facts about the hardware the model takes over from the data sheet, because the
code relies on them: a register of a peripheral whose bus clock is off reads
as zero and ignores writes; an edge is latched in INTFLAG whether or not the
channel's INTEN bit is set; the NVIC line is the disjunction of INTEN and
INTFLAG over the channels (so clearing a pending bit has no lasting effect);
EVCTRL is never written by this port and stays zero.  SysTick and USB have higher
priority but touch none of this state, so `pulsein_interrupt_handler` is one
step but for the driver's flag.  A handler that runs on a null pointer or on an
object of another type takes what it finds there for the object
(`StrayHandler`): `pulsein_interrupt_handler` then clears the INTEN bit or writes the CONFIG field of
whatever channel number it reads (`StrayWrite`), and either handler may end in
`HardFault_Handler`, which loops until the reset button.  What such a handler writes into
memory is not modelled.

`ChannelUse.tla` is the abstract specification of ownership: channels are
taken when free, given back, or all lost at the end of the program.  `zzz` is one of its users: `Owners`
gives it (as `Sleeper`) the channels that interrupt with the handler it installed, and every other channel to the
object in `channel_data`.  `EIC` implements it in every program until a misuse (section 4, `EICClientProofs`).
That `zzz` can take a channel from a live object is a misuse the code commits: `config_EIC` asks for no owner,
although the comment in external_interrupts.c:36-38 says that each channel has one user.
`MCEIC.tla` gives the instances their pins: two on channel 0, one on channel 1.

### PulseInBuffer — the pulses of a PulseIn

`PulseInBuffer.tla` models the ring and the measuring of durations, which `EIC`
leaves out.  `ms` and `us` are the two results of `current_tick` (`us` as the
handler uses it, counted up from the last millisecond, from 1 to `UsPerMs`).
The handler is one step, in three cases: `TooFast`, `FirstEdge`, `RecordPulse`.  None of them asks
whether the channel is enabled: `EIC_Handler` looks at INTFLAG alone, so a paused PulseIn goes on capturing when
another channel interrupts, and `pause` changes nothing in this module.
`popleft` has two steps, because it tests `len` before it disables interrupts; `value` is what it
returned.  `resume` has four, its resets of the error, of `first_edge` and of the two halves of the last edge's
time, with the handler in between.
`TotalDiff` is the code's arithmetic, with the 32-bit wrap as `% Word32` and the
16-bit wrap of `start` as `% Word16`.  A slot that `m_malloc` gave and nobody
wrote is `Uninitialized`; a read past the end of the buffer returns anything.  `Untimely` names the two moments that
break the promise below, so that a run or a theorem can leave them out: a pop while an overrun has moved `start` past
the end, and an edge amid the assignments of `resume`.

`PulseQueue.tla` is what a program is promised: a queue of the last `MaxLen`
lengths, of which `popleft` returns the oldest.  The refinement maps the ring from `start` on, modulo `maxlen`, to
that queue, the two last-edge fields to one point in time, and `value` to the pulse popped.

### ExternalFlash — the write-back cache of one sector

`ExternalFlash.tla` models `external_flash/external_flash.c`: reads
and writes of 512-byte blocks, the flush, and the initialisation after a reset.
`flash` and `scratch` are the blocks of the file system and those of the last sector of
the chip; `current_sector`, `dirty_mask` and `flash_ram_cache` are the
variables of the code (`NULL` for `flash_ram_cache`: the copy is in the scratch
sector).  `disk` is a history variable: what was last written to
each block, or what a failure left of it; `failed` and `mishap` are two more: a command failed on the sector
in work, and a command or the power failed in the step just taken.

Only the main thread enters this code, so a step ends where something else
can get in: a power failure, or a command that fails (`FillFails`, and the second
alternative of `ProgramDirect`, `Load`, `Store`, `EraseSector`, `Rewrite`).
`external_flash_write_block` is `WriteStart`, then `TestErased` (its call of
`page_erased`) and `ProgramDirect`, or, when the page holds data, the flush and
`Load`, and `Store`; the flush is `Fill` (the blocks that were not written
are added to the copy), `EraseSector`, and one `Rewrite` for each block, `RewriteLast`
for the last one.  `request` is `NULL` in a flush that was called from outside, which also
gives the RAM back.  The code looks at none of the results of these commands except those of
the filling; neither does the model, which only remembers in `failed` that one of them failed.

`Programmed` is what programming does to a block of this chip: it can only clear bits, so a block
that is not erased becomes `Garbage`; `write_flash` skips a block of ones.
A torn block, and whatever memory a new RAM cache is given, is `Garbage` too; a RAM cache
that is kept is taken as `Garbage` when the next sector is loaded, which
asks more of the code than the old data would.  `OverRead` is what the loop of
`page_erased` over `short_buffer` finds past its fourth byte.  Not told apart: RAM from
the supervisor and from the heap, the two 256-byte pages of a block (a torn block
has any of them torn), and the time for which the chip is still busy
after a command, for which every command waits.  A command is taken as
done when the function returns, so a power failure in the few milliseconds after the last
command of an operation counts as one just before it returned.

`BlockDevice.tla` is what the file system is promised: a block reads as it was
last written; a failure damages at most the blocks of one sector and one more
(the one that is programmed directly), and without a failure no step changes anything but the block that is being
written: `Damage` needs `failed` or `mishap'`.  Its `disk` is what reading would return,
looked up in the copy while the sector is being erased and rewritten, and
its `risk` the set `AtRisk`.

### MassStorage — blocks between the host and the disk

`MassStorage.tla` models `usb_mass_storage.c` and, from how its callbacks
are called, the mass storage function driver and FatFs's window.  `usb_busy`, `active_read`,
`active_write`, `active_addr`, `active_nblocks`, `sector_loaded` and `sector_buffer` are the code's
variables; `xfer_stage`, `xfer_busy`, `residue`, `bCSWStatus` and `halted` the driver's; `command` is
what the host waits for.  `usb_msc_background` takes one step per access the interrupt can come
between (`Background`, `CheckRead`, `Fetch`, `Send`, `CheckWrite`, `Store`, `Advance`, `AskForBlock`,
`Complete`, `Clear`); `Send` and `AskForBlock` are its critical sections.  An interrupt is one step
with what the host did to cause it: `NewCommand`, `HostTakesBlock`, `HostGivesBlock`,
`HostTakesStatus`, `HostClearsHalt`, `Disable`, `Enable`.  `Remount`, `move_window`, `ChangeWindow` and
`sync_window` are what the program can do to the same disk between two calls of the background task.
The results of the disk's reads and writes are ignored in the model as in the code.

`LogicalUnit.tla` is what the host is promised: one command at a time, block by block, each from
or on the disk before the next.  Its `done`, `buffer` and `status` are computed from the flags.

### Lifecycle and SupervisorMemory — from reset to reset

`SupervisorMemory.tla` has `allocate_memory`, `allocate_remaining_memory` and `free_memory` as
operators on a record of the table and the two addresses; `FreeMemory` counts, as the code does, the
lengths left in the empty slots next to the one it frees, and `AllocateMemory` compares the room and the
length as the code does, as signed numbers (`Int32`), with addresses that wrap (`Address`).  `Lifecycle.tla` uses them in the order of
`main.c`: `StackResize` (and `stack_init`), `AllocateHeap` (flush, then all the remaining memory),
`StopDelay` and `StopRequest` (the two statements of `autoreload_stop`, with the tick in
between), `FlushCache` and `StartHeap` (`gc_init`, `mp_init`), then the program, the REPL after `Suspend`, and
`FreeHeap`, `Resume`, and the loop of `run_code_py` (`CheckReload`, `NoKey`, `Key`).  While it runs, a
program may set the next stack limit, switch autoreload, call `reload()`, write and flush files, end, or
be interrupted; `HostSaves` is the end of a write of the host, `Tick` the SysTick interrupt's
`autoreload_tick`.  `TakePending` and `Raise` are the virtual machine's look at the pending exception.
`owed` is a history variable: something was saved, or asked for with `reload()`, and has not been
loaded since.  Going to the REPL and disabling autoreload give it up.

### GcMark — a collection

`GcBlocks.tla` is the heap: the kinds of the blocks, chunks as a head with its tails, and what can be
reached.  A block has one word here, so a chunk has as many pointers as blocks; `Pointer` is what passes
`VERIFY_PTR`, or `NULL` for a word that does not.  A pointer to a tail is kept: the code ignores it, and so
does the model.  `GcMark.tla` is `gc_collect`: `CollectRoot` looks at one root word, `MarkWord` at one word
of a chunk, pushing, dropping and popping; `DealWithOverflow` and `Rescan` are the two loops of
`gc_deal_with_stack_overflow`; `Sweep` is `gc_sweep` in one step, its `free_tail` computed
from the blocks before (`FreeTail`).  The program does not run meanwhile.  Handlers
may, but change no word the collector reads.  `Collection.tla` is the same in
one step: the chunks that cannot be reached are freed.  `MCGcMark.tla` names the heaps of the run.

## 3. Runs

| run | question | bounds |
|---|---|---|
| `eic_driver` | do registers, tables and objects stay consistent under every operation, is the `IInv` of the proofs an invariant, and is a channel used by one user at a time until a misuse | 1 PulseIn, 1 encoder, zzz, 3 pins on 2 channels, all operations, background tasks late or not |
| `eic_edges` | is every edge served; are both edges listened to after the first; does `zzz` sleep armed | the same without deinit and resume; one pin has no EXTINT channel; fairness |
| `eic_lost_wake` | does an edge before WFI wake the CPU — no | `zzz` only; fairness |
| `pulse_buffer` | does the ring implement the queue | 4 slots, lengths 0 to 3, 3 ms of 2 us, `start` modulo 8, time modulo 16; nothing `Untimely` |
| `pulse_overrun` | does `popleft` return the oldest pulse after an overrun — no | the same, with pops past the end |
| `flash_cache` | does the cache implement the block device, with failing commands and power failures | 2 sectors of 2 blocks, two contents (one of them all ones) |
| `flash_bypass` | does a block read as it was last written if a cached block, erased on flash, is rewritten — no | the same, without failures |
| `msc` | do interrupt and background task agree; is each command served as `LogicalUnit` promises, and answered | 4 blocks, commands of 1 to 3, two contents, counters modulo 6; fairness |
| `msc_reset` | is a command answered after a bus reset in the middle of another — no | 3 blocks, commands of 1 or 2; fairness |
| `lifecycle` | is a save run, the REPL undisturbed, the memory kept in order | 12 words, 3 allocations, INT32_MAX at 127, stack limits 4, 10, 36, 100 and 126 bytes, a cache of 12 bytes, a delay of 2 ms, 2 saves, flushes that fail; fairness |
| `safe_mode` | is only allocated memory freed in safe mode — no | the same, `SafeMode`, flushes succeed |
| `gc_mark` | does a collection implement `Collection`, and end | some 15,000 heaps of 8 blocks, a mark stack of 1 block, 2 root words; fairness |

`eic_lost_wake`, `pulse_overrun`, `flash_bypass`, `msc_reset` and `safe_mode` are the *findings*: the run
checks one property that the repository states, and TLC shows a behaviour of the
code that violates it.  The lines quoted are in `PROJECT.json`.

Why the bounds are enough.  The driver treats every channel alike, and its
operations address one channel (an encoder two); with two channels and two pins
on one of them every kind of conflict exists: same channel, other channel,
second channel of the same object.  The handler of a channel only touches that
channel (a stray one touches any), and the loop passes both a lower and a higher channel than any given one.
A third channel repeats these.  The proofs have no bound.  In `pulse_buffer` every
boundary is reached: an empty and a full ring, several overruns, `start` beyond
the buffer and wrapping, a borrow with a difference of 1 and 2 ms, durations
at and over the cap.  Not reached are the wrap of the 32-bit time, which `LastMs` keeps below `Word32`, and a borrow
with a difference of 0 ms, which does not occur while the handler reads both halves of the time in one step; the
arithmetic of both is in the theorem `DurationsAreExact`.  `LastMs` bounds time; `Word16`, `Word32`, `UsPerMs` and
`Cap` are small stand-ins for 65536, 2^32, 1000 and 65535.
In `flash_cache` two contents tell an old block from a new one, and the one that is
all ones takes every shortcut of the code; two sectors and two
blocks give a block in the cache, one beside it, and ones in another sector.
In `msc` a command of three blocks has a first, a middle and a last one, a command ends at
the last block of the disk and includes the faked MBR, and the counters pass zero within the modulus.
In `lifecycle` the five stack limits are one that leaves more, one that is not a number of
words, one that leaves little for the heap and does not fit beside a cache that was kept, one that does not fit, and one whose
length is beyond INT32_MAX and refused because it is not a number of words; three slots hold a stack, a cache that a failed flush kept, and a heap above it, so that the
lengths left in empty slots count when the cache is given back before the heap; two saves give one that comes while the
countdown of the other runs, or its request is pending.  In `gc_mark` a stack
of one block overflows as soon as a chunk has two unmarked children; the heaps include chunks that point
backwards, so that a scan overflows behind the place it has reached and a second scan is needed, chunks of
several blocks beside free ones, cycles, pointers to tails and to free blocks, and the same root twice.

`eic_driver`'s properties of exclusive use, `eic_edges`, `pulse_buffer`, `flash_cache`, `msc` and `lifecycle` hold under
restrictions, and they are real ones.
* `turn_off_eic_channel` clears `channel_data` but neither INTFLAG nor `channel_handler`, and
  `EIC_Handler` dispatches every latched channel: an edge latched around a deinit runs the handler on a null
  pointer as soon as another channel interrupts.  `StrayHandler` is that step.  `NoDanglingData` and the other
  properties of the tables and the clock hold nevertheless; `HandlerStaysOnChannel`, `EnabledIsOwned`,
  `ClientsKeepChannels`, `ChannelsUsedExclusively`, `FirstEdgeThenBoth` and `SleepIsArmed` hold until it, and say so.
* `zzz` on a channel of a live PulseIn or encoder overwrites its handler and its sense bits, contrary to
  external_interrupts.c:36-38.  The step is in every run; `EnabledIsOwned`, `ClientsKeepChannels` and
  `ChannelsUsedExclusively` hold until it (`misuse`).
* `config_EIC` writes WAKEUP, CONFIG and INTENSET before `turn_on_external_interrupt_controller` turns the bus
  clock on.  After the deinit of the last client it is off and the writes are lost; `eic_edges`,
  where `SleepIsArmed` is checked, has no deinit.
* A paused PulseIn (paused by the program or, too fast, by its handler) does not keep the controller on:
  `turn_off_eic_channel` turns it off when no channel *interrupts*, although its comment says "all channels are null".  The
  next constructor then skips its ownership test and takes over the paused object's channel.  `eic_driver` has
  the sequence; turning the controller off under a live object is a misuse that ends the same three properties.
* The test for EXTINT in the encoder's constructor reads `pin_a` twice.  A pin without EXTINT is in `eic_edges`, but none of
  its properties would tell an encoder on it from a legal one.
* `resume` enables the channel before it selects the first-edge sense; an edge in
  between leaves a PulseIn past its first edge that listens to one edge only.
  An INTFLAG left by a deinited owner does the same to the next owner.  The same edge may also fall between
  `resume`'s resets of `first_edge` and of the last edge's time, since a paused channel is still dispatched: the
  next pulse is then measured from a time at which no edge came.  `pulse_buffer` leaves that out (`edge_in_resume`).
* `start` is not taken modulo `maxlen` on an overrun, and `popleft` indexes with it, so it reads past the
  end of the buffer then (`PopLeft` returns anything), which `pulse_overrun` shows and `pulse_buffer` leaves
  out (`pop_past_end`).  When the ring is filled, `(start + len) % maxlen`
  still addresses the right slot until `start` wraps at 65536; then it only
  does if `maxlen` divides 65536 (as the default, 2, does).  The instance has
  `Word16 = 8` and `MaxLen = 4`; the theorem about the queue has the same hypothesis (`Divides`).
* `SafeUse`: a block that is in the cache while its page on flash is still erased
  is not rewritten (`~RewritesErased`); `external_flash_write_block` would program the page and leave the old
  copy in the cache, where reads find it and from where the next flush overwrites the page.
  And no block begins with four bytes of ones unless it is all ones (`LooksErased = {}`): `page_erased` reads
  the whole block but tests `short_buffer` again, so such a block may be programmed without an erase.  No checked
  property is about such a block: `ProgramsErased` speaks of the sector being rewritten and of the scratch sector.
* `msc` has no bus reset during a command and no write that follows so soon on a
  write that `active_write` is not cleared yet (`Faults = {}`).  After such a reset `usb_busy` stays set for ever
  (`msc_reset`); after such a write the main thread clears the flag of the new command
  (usb_mass_storage.c:332).
* `lifecycle` leaves out three things, each of which breaks a property.
  `late_enable`: `enable_autoreload()` forgets a reload that is already requested.  `catch`: a
  program that survives the exception raised for a reload has a request that nothing raises again, and the
  tick requests only once.  `repl_reload`: `reload()` typed at the REPL sets the request and raises an
  exception that the REPL prints before it goes on.  The fourth, `bad_read`, is in the run: a flush that
  fails to read the blocks it has to keep keeps its cache.  If that cache is in the heap, `gc_init` takes its memory
  although the comment at main.c:92 says that the flush is there to prevent that; this is one failed read
  away and no property of the run.
* `lifecycle` has no stack limit that takes every free word.  `stack_resize` would succeed,
  `allocate_remaining_memory` find no word left and return NULL (memory.c:82), and `start_mp` go on
  with a heap at NULL, although supervisor's documentation says of `set_next_stack_limit` that a size that is too
  large is replaced by the default.  With the limit 40 on the instance, which is exact, TLC finds it
  (`OnlyAllocatedFreed`), and with 32, which is exact beside a cache that a failed flush kept; `Room` in the
  theorems excludes such limits.
* `lifecycle` has no limit beyond INT32_MAX whose length is of whole words.  allocate_memory compares it as a negative
  number, so it fits (memory.c:89): with 124 on the instance the two ends of the memory cross, and `TypeOK` and
  `AllocationsDisjoint` fail, again contrary to the documentation of `set_next_stack_limit`
  (shared-bindings/supervisor/__init__.c:113).  `Room` excludes it.
* In safe mode (`SafeMode`) no boot.py is run and so no stack is allocated, but `run_repl` resizes
  it: `free_memory` gets a null pointer, which it does not refuse (`safe_mode`).

Fairness.  In `EIC` (`FairSpec`): weak fairness of `Interrupt` and of `DriverStep`: the CPU
executes instructions, a handler that was entered continues, and the main thread
continues when none runs; which operation is called next, and whether one is, is
left open.  Strong fairness of `EnterHandler`: a pending interrupt
is taken at the first instruction boundary at which interrupts are enabled,
however shortly, so a thread that keeps entering critical sections does not keep
it out for ever.  Edges are never assumed to come.
In `MassStorage`: weak fairness of `usb_msc_background`, because the main loop and the interpreter call
the background tasks again and again, and of `HostContinues`, because a host goes on with a transfer
the device is ready for; new commands, resets and the program are left open.  In `Lifecycle`: weak fairness of
`MainStep`, the statements of the main thread that wait for nobody, and of `Tick`; a program need not end, a key
need not come, and the host saves at most `MaxSaves` times, since someone who keeps saving keeps
restarting the countdown.  While a program sits in the standby of `zzz` neither fairness holds: the clocks of SysTick and
of the CPU are off, and a save waits for the next wake-up.  In `GcMark`: weak fairness of `Next`, a loop that runs.
No liveness run uses symmetry.

`eic_driver` uses a view (`MCView`) that leaves out `wakeup`, which nothing but `SleepIsArmed` reads, and `first` and `errored` of
objects that are not live, which their constructor sets and which `NoDanglingData` keeps the handler from.

## 4. Proofs

`EICProofs.tla`: for every `N`, every set of pins and clients and every
assignment of pins to channels,

* `Inductive`: `Spec => []IInv`;
* from it `TypeCorrect`, `EnabledChannelsListen`, `ConfigIsNotLost`, `DataIsLive`,
  and the action property `HandlerIsLocal`.

`Listening` is not inductive: whether `turn_off_eic_channel` may turn the
controller off depends on what it read one step before, on which of its callers
it returns to and on who is still alive.  `IInv` adds what the program counter
implies of the frame and the object (`ThreadInv`), that an object's pins come and
go together (`PinsInv`), that the handler is out while interrupts are disabled
(`HandlerInv`), what a deinit has given back at each of its steps (`DeinitInv`),
and for each of bus clock, enable bit and NVIC the steps at which a channel may be
enabled without it (`PowerInv`).  The key case is the second read of INTENSET:
the handler can only *clear* bits between the two, so the NVIC may stay enabled
over a controller that was turned off, never the other way round.  The proof has
one lemma per part of `IInv`, one step per action in each.

`EICClientProofs.tla` has the properties of the users.  Of every program, pause included, and until a misuse (section 2):
`EnabledChannelsAreOwned`, `ChannelsAreKept` and the refinement `ChannelsAreExclusive`.  Their invariant `UseInv`
adds to `IInv` that, as long as there was no misuse, every live object that is not being deinited is on both its channels
behind a running clock and no two objects share one (`OwnInv`), that its handler and its edges are on its channels
except at the steps that are about to set them (`HandlersInv`, `KeptInv`), and that `zzz` is arming a channel of no
object (`ZzzInv`).  The running clock is what makes the refinement go through: the constructors ask for the owner
of a channel only when the controller is on, and it is off only when no object is live, so they never take a
channel from anybody.

Two properties hold only for some programs, and until a stray handler ran; both assume that no PulseIn ever gives
up (`HandlerKeepsUp`), which would pause it.

* `NeverDeinited`, no `deinit`: `SleepsArmed`.  `ArmInv` follows the frame of `zzz` from step to step: WAKEUP is
  written before CONFIG, CONFIG before INTENSET, all of them with the clock on.
* `NeverRearmed`, neither `deinit` nor `resume`: `BothEdgesAfterFirst`.  The hard case is a new PulseIn before its CONFIG is
  written: an old edge would end its first edge too early.  `UnusedInv` excludes it: a channel
  without owner that does not interrupt detects nothing, and what detects nothing has no latched edge.  `SenseInv`
  allows one exception, the steps of a `zzz` on the same channel before it replaces the handler.

`PulseInBufferProofs.tla`: for every `MaxLen` below the modulus of `start`, every
unit and every cap below `Word32`, `Inductive` and `TypeCorrect` (so `len` never
leaves `0 .. MaxLen` and `popleft` never pops from an empty ring, although it tests
before it disables interrupts), and `DurationsAreExact`: what an edge records is the time since the
edge before, capped, as long as that time fits `Word32`.  It needs that the last
edge is not in the future (`EdgeBeforeNow`), and arithmetic lemmas on remainders.

`PulseQueueProofs.tla` is about the order of the pulses.  `EntriesAreWritten`, for every `MaxLen`: while the ring is not
full, `start` has not passed the slots that were written, and a ring that was ever full has written every slot, so it does
not matter for this property where `start` is after it wrapped.  It is about what `get_item` reads; `popleft` reads at
`start` itself.  `KeepsPulses`: if `MaxLen` divides `Word16` (`Divides`),
edges are less than `Word32` apart (`EdgesClose`, the condition of `DurationsAreExact`) and `Untimely` is empty, the ring implements
`PulseQueue`, popped values included.  One lemma per step says which entries of the mapped queue move: a remainder modulo `MaxLen` survives the
remainder modulo `Word16` exactly because of `Divides`, and two entries less than `MaxLen` apart never share a slot.

`ExternalFlashProofs.tla`: for every number of sectors and blocks and every
set of contents, under `SafeUse`, `Inductive`, and from it `TypeCorrect`,
`ReadsWhatWasWritten`, `NothingErasedUncopied`, `OnlyErasedProgrammed` and the
refinement `ImplementsDevice`.  `ReadsLastWrite` speaks of the time between two
operations.  `IInv` says where a block is found at every other step: on flash or in
the copy (`DataInv`), in an erased sector up to `next` again on flash; that the unused
blocks of the scratch sector are erased, without which filling it would garble them
(`ScratchInv`); and what each step knows of the request (`RequestInv`), above all that a
block about to be programmed directly is not in the cache, which is what
`SafeUse` is needed for.  One lemma per action.  For the refinement,
`ViewIsDisk` relates what the device shows to what was written outside the
sector in work, and every step then is a write of one block (`WriteStep`), or changes nothing, or, after a failure
only, leaves all blocks outside `AtRisk` alone (`DamageStep`).  `WholeWithoutFailure` is what the last distinction needs: as
long as no command failed, the copy and the flash together show every block as it was last written, at each step
of a flush.

`MassStorageProofs.tla`: for every size of disk and of commands whose counters fit the modulus, without
the faults of section 3 (`NoFaults`), `Inductive`, and from it `TypeCorrect`, `Tracked`,
`BufferIsTheHardwares`, `WindowFollowsHost` and the refinement `Implements`.  `TransferTracked` is inductive
together with the types: the counters are compared with the command and the driver's residue, with one
block more when it is in the buffer, and the main thread's place with the flags it has read.  For the window,
`WindowInv` adds that while a block waits to be shown to FatFs the disk already holds it.

`LifecycleProofs.tla`: for every memory, delay and number of saves, without the three faults that the run leaves
out (`OnlyBadReads`), `Inductive`, and from it `SavesRemembered`, `RequestsNoticed` and `ReplLeftAlone`.  The invariant
says what `autoreload_stop` has done at each place in `start_mp` when the tick comes between its two statements,
that the exception of a request is pending as long as the program runs, and that autoreload is suspended in
the REPL from its first statement to `autoreload_resume`.

About the memory, for every size and every set of limits that `Room` allows, outside safe mode, and as long as no flush fails
(`NoFaults`): `MemoryInductive`, and from it `TypeCorrect`, `NothingShared`, `NothingLost` and `FreedWasAllocated`.  `free_memory`
adds up the lengths that emptied slots were left with, so one expects an invariant about those lengths.  None is needed here: `MemInv` shows
that without a failing flush the main loop never holds more than two allocations, the stack in the highest slot (`StackShape`) and
the cache or the heap in the lowest (`LowShape`), and nothing between (`OthersFree`), so that no slot lies beyond
the one that is freed.  The place in the main loop says which of them are there.  (With a failing flush the cache can lie
below a heap; that is checked by TLC, in `lifecycle`.)  The hypothesis `Room` says that the table has two
slots, that the default stack is a whole number of words and leaves one beside the cache, and of the limits that
none takes exactly all words and none beyond INT32_MAX has a length of whole words, the two restrictions of
section 3.  `RoomTested` and the lemmas before it show that under `Room` the wrapping and the signed comparison are the
arithmetic of numbers.

`GcMarkProofs.tla`: for every pool, mark stack (none included), number of roots and set of heaps, `Inductive`, and from
it `TypeCorrect`, `MarksTheReachable` and the refinement `Implements`.  The invariant says that no chunk is forgotten:
a marked chunk has all its children marked, or it is on the stack, or it is being traced and the children
in the words before `block` are marked, or the overflow flag is set, or a scan
is running that has not passed it.  That what is marked is not more than what can be reached follows from the definition of
`Reachable` as what every closed set of chunks contains.  The sweep frees a tail by the kind of blocks
before it; that it is the tail of exactly one head is a descent on block numbers
(`TailHasHead`, from the library's well-foundedness of the naturals).

The constants' assumptions are named in the modules that declare them and evaluated by TLC in the runs.
A theorem with a hypothesis says so in its ASSUME, and the instance of the run that checks the same property satisfies it
(`EdgesClose` because the time of `pulse_buffer` is bounded below `Word32`), but for the theorems about memory, whose
`NoFaults` excludes the failing flushes that `lifecycle` has.
Every invariant, action property and refinement that a passing run checks is stated by a theorem.  Only model-checked
are the liveness properties `EdgeServed`, `CommandAnswered`, `SavedCodeRuns` and `CollectionEnds` (liveness under
fairness is out of the prover's reach).

## 5. Not modelled

* The SAMD51 branches (`#ifdef SAMD51`) and other ports; vendored and generated
  code (asf4, CMSIS, TinyUSB, oofatfs).  Of the mass storage driver and of FatFs only what their
  callbacks and the window require.
* The MicroPython interpreter and compiler; of `gc.c` the allocator (`gc_alloc`, `gc_free`, `gc_realloc`), finalisers,
  the long-lived area and the reading past the end of the table when a chunk ends with the last block.
* Which objects a program still refers to: `EIC` and `GcMark` are not composed, although `channel_data` is not a
  root.
* The encoder's decoding; the level of pins, filtering and the voltage on them; the trigger
  pulse of `resume` and its duration.
* The mass storage commands that move no block, and those of a host that breaks the
  protocol.
* How safe mode is entered (stack canary, brown-out detector); status lights and messages.
* Audio DMA, PWM, timers, pulse output, displays, gamepad, the internal flash: register set-up, or nothing
  that the parts above depend on.

An exception does not leave a C operation
half-way in the modelled functions: they raise before they change anything.

## 6. Plan

1. *(done)* `EIC`, `ChannelUse`, `PulseInBuffer`, `PulseQueue` and their proofs.
2. *(done)* `ExternalFlash`, `BlockDevice` and their proofs.
3. *(done)* `MassStorage`, `LogicalUnit` and their proofs.
4. *(done)* `SupervisorMemory`, used by `Lifecycle`, and their proofs.
5. *(done)* `GcBlocks`, `GcMark`, `Collection` and their proofs.
6. *(done)* Proofs of `AllocationsDisjoint` and `NoWordLost`, of `KeepsLastPulses` for `maxlen` dividing 2^16, and of
   `ChannelsUsedExclusively` until a misuse.
7. The allocator beside `GcMark`, and its composition with `EIC`; encoder decoding as a pure function with its
   reference; audio DMA ownership.

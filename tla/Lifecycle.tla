------------------------------ MODULE Lifecycle ------------------------------
(***************************************************************************)
(* The life of the main thread: main.c, the supervisor's memory and stack, *)
(* autoreload, and where the write-back cache of the flash has its RAM.    *)
(*                                                                         *)
(* The main thread prepares a heap, runs boot.py, the user's code or the   *)
(* REPL in it, gives it back, and waits for a reload or a key.  The tick   *)
(* interrupts it anywhere; background tasks, which write what the host     *)
(* sends, run between bytecodes and while it waits.                        *)
(***************************************************************************)
EXTENDS SupervisorMemory

CONSTANTS DefaultStack,   \* CIRCUITPY_DEFAULT_STACK_SIZE
          ExceptionStack, \* EXCEPTION_STACK_SIZE
          StackDepths,    \* what the C stack may hold when the stack is allocated
          StackLimits,    \* what a program may pass to set_next_stack_limit
          CacheSize,      \* RAM of the flash cache: its table and one sector
          DelayMs,        \* CIRCUITPY_AUTORELOAD_DELAY_MS
          MaxSaves,       \* bound: writes of the host
          SafeMode,       \* port_init found a reason for safe mode
          Faults          \* what the passing run leaves out: see below

\* "late_enable": enable_autoreload() while a reload is already requested;
\* "catch":       a program survives the exception raised in it;
\* "repl_reload": reload() typed at the REPL;
\* "bad_read":    a flush cannot read the blocks it has to keep.
ASSUME LifecycleAssumption ==
  /\ DefaultStack \in Nat /\ ExceptionStack \in Nat /\ CacheSize \in 0..IntMax
  /\ StackDepths \subseteq Nat /\ StackLimits \subseteq 0..IntMax
  /\ DelayMs \in Nat \ {0} /\ MaxSaves \in Nat
  /\ SafeMode \in BOOLEAN
  /\ Faults \subseteq {"late_enable", "catch", "repl_reload", "bad_read"}
  /\ NULL \notin {"outside", "heap", "reload", "kbd"}

VARIABLES
  pc,        \* where the main thread is
  run,       \* what it prepares, runs or has run: "boot", "code" or "repl"
  mem,       \* allocations, low_address, high_address
  heap,      \* the local variable heap of run_boot_py, run_code_py, run_repl
  stack_alloc, current_stack_size, next_stack_size,
  supervisor_cache, \* the allocation that holds the flash cache
  flash_ram_cache,  \* where the cache is: NULL, "outside" (in that allocation), "heap"
  autoreload_delay_ms, autoreload_enabled, autoreload_suspended, reload_requested,
  pending,   \* mp_pending_exception
  saves,     \* writes of the host so far
  owed       \* history: code was saved, or reload() called, and not run since

cache   == <<supervisor_cache, flash_ram_cache>>
memory  == <<mem, heap, stack_alloc, current_stack_size, cache>>
reload  == <<autoreload_delay_ms, reload_requested, pending>>
options == <<next_stack_size, autoreload_enabled>>
vars    == <<pc, run, memory, reload, options, autoreload_suspended, saves, owed>>

Init ==
  /\ IF SafeMode THEN run = "code" /\ pc = "wait"
                 ELSE run = "boot" /\ pc = "resize"
  /\ mem = MemoryInit
  /\ heap = NULL /\ stack_alloc = NULL
  /\ supervisor_cache = NULL /\ flash_ram_cache = NULL
  /\ current_stack_size = 0 /\ next_stack_size = DefaultStack
  /\ autoreload_delay_ms = 0 /\ autoreload_enabled = TRUE
  /\ autoreload_suspended = FALSE /\ reload_requested = FALSE
  /\ pending = NULL /\ saves = 0 /\ owed = FALSE

-----------------------------------------------------------------------------
(* Preparing a run.                                                        *)

StackLength(size, depth) == depth + size + ExceptionStack

\* A mutant: there is no second try with the default size.
ResizeOnce ==
  /\ pc = "resize"
  /\ pc' = "allocate"
  /\ run # "boot" => stack_alloc # NULL
  /\ \E depth \in StackDepths :
       LET freed == IF run = "boot" THEN mem ELSE FreeMemory(mem, stack_alloc)
           next  == AllocateMemory(freed, StackLength(next_stack_size, depth), TRUE)
       IN mem' = next.mem /\ stack_alloc' = next.allocation
  /\ current_stack_size' = next_stack_size
  /\ UNCHANGED <<run, heap, cache, reload, options, autoreload_suspended, saves, owed>>

\* stack_resize, and stack_init, which boot.py's run calls: the old stack is
\* given back and one of the next size taken, or else of the default size.
StackResize ==
  /\ pc = "resize"
  /\ pc' = "allocate"
  /\ IF run # "boot" /\ next_stack_size = current_stack_size
       THEN UNCHANGED <<mem, stack_alloc, current_stack_size>>
       ELSE /\ run # "boot" => stack_alloc # NULL
            /\ \E depth \in StackDepths :
                 LET freed == IF run = "boot" THEN mem ELSE FreeMemory(mem, stack_alloc)
                     next  == AllocateMemory(freed, StackLength(next_stack_size, depth), TRUE)
                     other == AllocateMemory(freed, StackLength(DefaultStack, depth), TRUE)
                     fits  == next.allocation # NULL
                     taken == IF fits THEN next ELSE other
                 IN /\ mem' = taken.mem
                    /\ stack_alloc' = taken.allocation
                    /\ current_stack_size' = IF fits THEN next_stack_size ELSE DefaultStack
  /\ UNCHANGED <<run, heap, cache, reload, options, autoreload_suspended, saves, owed>>

\* external_flash_flush gives the RAM of the cache back; a flush that fails keeps
\* it, and so does one after it, until a sector is cached again.  The memory it leaves:
FlushedMemory(ok) == IF ok /\ supervisor_cache # NULL THEN FreeMemory(mem, supervisor_cache)
                                                      ELSE mem
FlushOutcomes == IF "bad_read" \in Faults /\ flash_ram_cache # NULL THEN BOOLEAN ELSE {TRUE}
CacheAfterFlush(ok) ==
  IF ok THEN supervisor_cache' = NULL /\ flash_ram_cache' = NULL ELSE UNCHANGED cache

\* filesystem_flush and allocate_remaining_memory.
AllocateHeap ==
  /\ pc = "allocate"
  /\ pc' = "stop_delay"
  /\ \E ok \in FlushOutcomes :
       LET rest == AllocateRemainingMemory(FlushedMemory(ok))
       IN /\ mem' = rest.mem
          /\ heap' = rest.allocation
          /\ CacheAfterFlush(ok)
  /\ UNCHANGED <<run, stack_alloc, current_stack_size, reload, options,
                 autoreload_suspended, saves, owed>>

\* A mutant: the countdown goes on.
StopNothing ==
  /\ pc = "stop_delay"
  /\ pc' = "stop_request"
  /\ UNCHANGED <<run, memory, reload, options, autoreload_suspended, saves, owed>>

\* start_mp: the two statements of autoreload_stop, with the tick in between.
StopDelay ==
  /\ pc = "stop_delay"
  /\ pc' = "stop_request"
  /\ autoreload_delay_ms' = 0
  /\ UNCHANGED <<run, memory, reload_requested, pending, options, autoreload_suspended, saves, owed>>

StopRequest ==
  /\ pc = "stop_request"
  /\ pc' = "flush"
  /\ reload_requested' = FALSE
  /\ UNCHANGED <<run, memory, autoreload_delay_ms, pending, options, autoreload_suspended, saves, owed>>

\* start_mp: filesystem_flush, before the heap is initialised.
FlushCache ==
  /\ pc = "flush"
  /\ pc' = "gc_init"
  /\ \E ok \in FlushOutcomes : mem' = FlushedMemory(ok) /\ CacheAfterFlush(ok)
  /\ UNCHANGED <<run, heap, stack_alloc, current_stack_size, reload, options,
                 autoreload_suspended, saves, owed>>

\* gc_init and mp_init; then the code is read, or the REPL suspends autoreload.
StartHeap ==
  /\ pc = "gc_init"
  /\ pc' = IF run = "repl" THEN "suspend" ELSE "running"
  /\ pending' = NULL
  /\ owed' = (owed /\ run # "code")
  /\ UNCHANGED <<run, memory, autoreload_delay_ms, reload_requested, options,
                 autoreload_suspended, saves>>

\* A mutant: the REPL does not suspend autoreload.
SuspendNothing ==
  /\ pc = "suspend"
  /\ pc' = "running"
  /\ UNCHANGED <<run, memory, reload, options, autoreload_suspended, saves, owed>>

Suspend ==
  /\ pc = "suspend"
  /\ pc' = "running"
  /\ autoreload_suspended' = TRUE
  /\ UNCHANGED <<run, memory, reload, options, saves, owed>>

-----------------------------------------------------------------------------
(* What a program does that matters here.                                  *)

Running == pc = "running"

SetNextStackLimit ==
  /\ Running
  /\ \E size \in StackLimits : next_stack_size' = size
  /\ UNCHANGED <<pc, run, memory, reload, autoreload_enabled, autoreload_suspended, saves, owed>>

EnableAutoreload ==
  /\ Running
  /\ reload_requested => "late_enable" \in Faults
  /\ autoreload_enabled' = TRUE
  /\ reload_requested' = FALSE
  /\ UNCHANGED <<pc, run, memory, autoreload_delay_ms, pending, next_stack_size,
                 autoreload_suspended, saves, owed>>

\* A program that disables autoreload is owed nothing for what was saved before.
DisableAutoreload ==
  /\ Running
  /\ autoreload_enabled' = FALSE
  /\ owed' = FALSE
  /\ UNCHANGED <<pc, run, memory, reload, next_stack_size, autoreload_suspended, saves>>

Reload ==
  /\ Running
  /\ run = "repl" => "repl_reload" \in Faults
  /\ reload_requested' = TRUE
  /\ pending' = "reload"
  /\ owed' = TRUE
  /\ UNCHANGED <<pc, run, memory, autoreload_delay_ms, options, autoreload_suspended, saves>>

\* A file is closed: BP_IOCTL_SYNC.
ProgramFlushes ==
  /\ Running /\ flash_ram_cache # NULL
  /\ \E ok \in FlushOutcomes : mem' = FlushedMemory(ok) /\ CacheAfterFlush(ok)
  /\ UNCHANGED <<pc, run, heap, stack_alloc, current_stack_size, reload, options,
                 autoreload_suspended, saves, owed>>

\* allocate_ram_cache, when a sector is cached: outside the heap if there is
\* room, else in the heap, else not at all.
AllocateRamCache ==
  LET outside == AllocateMemory(mem, CacheSize, FALSE)
  IN IF flash_ram_cache # NULL
       THEN UNCHANGED <<mem, cache>>
       ELSE /\ mem' = outside.mem
            /\ supervisor_cache' = outside.allocation
            /\ flash_ram_cache' \in IF outside.allocation # NULL THEN {"outside"} ELSE {"heap", NULL}

ProgramWrites ==
  /\ Running
  /\ AllocateRamCache
  /\ UNCHANGED <<pc, run, heap, stack_alloc, current_stack_size, reload, options,
                 autoreload_suspended, saves, owed>>

\* CTRL-C, in the USB interrupt.
KeyboardInterrupt ==
  /\ Running /\ run # "boot"
  /\ pending' = "kbd"
  /\ UNCHANGED <<pc, run, memory, autoreload_delay_ms, reload_requested, options,
                 autoreload_suspended, saves, owed>>

\* The virtual machine looks at the pending exception at a branch; it reads it
\* and clears it in two statements.
TakePending ==
  /\ Running /\ pending # NULL
  /\ pc' = "raise"
  /\ UNCHANGED <<run, memory, reload, options, autoreload_suspended, saves, owed>>

\* The program ends with the exception; the REPL prints it and prompts again.
Raise ==
  /\ pc = "raise"
  /\ \/ pc' = IF run = "repl" THEN "running" ELSE "free"
     \/ pc' = "running" /\ "catch" \in Faults
  /\ pending' = NULL
  /\ UNCHANGED <<run, memory, autoreload_delay_ms, reload_requested, options,
                 autoreload_suspended, saves, owed>>

\* The program ends by itself, or the REPL is left with CTRL-D or changes mode.
ProgramEnds ==
  /\ Running
  /\ pc' = "free"
  /\ UNCHANGED <<run, memory, reload, options, autoreload_suspended, saves, owed>>

-----------------------------------------------------------------------------
(* After a run.                                                            *)

FreeHeap ==
  /\ pc = "free"
  /\ mem' = FreeMemory(mem, heap)
  /\ heap' = NULL
  /\ CASE run = "boot" -> run' = "code" /\ pc' = "resize"
       [] run = "code" -> run' = "code" /\ pc' = "wait"
       [] run = "repl" -> run' = "repl" /\ pc' = "resume"
  /\ UNCHANGED <<stack_alloc, current_stack_size, cache, reload, options,
                 autoreload_suspended, saves, owed>>

\* run_code_py does not run the code in safe mode, only its loop at the end.
RunCode == run' = "code" /\ pc' = IF SafeMode THEN "wait" ELSE "resize"
RunRepl == run' = "repl" /\ pc' = "resize"

\* autoreload_resume; main runs the code after CTRL-D, else the REPL again.
Resume ==
  /\ pc = "resume"
  /\ autoreload_suspended' = FALSE
  /\ RunCode \/ RunRepl
  /\ UNCHANGED <<memory, reload, options, saves, owed>>

\* A mutant: the loop does not look at the request.
CheckNothing ==
  /\ pc = "wait"
  /\ pc' = "serial"
  /\ UNCHANGED <<run, memory, reload, options, autoreload_suspended, saves, owed>>

\* The loop of run_code_py: first the request is tested, then the serial line.
CheckReload ==
  /\ pc = "wait"
  /\ IF reload_requested THEN RunCode ELSE pc' = "serial" /\ run' = run
  /\ UNCHANGED <<memory, reload, options, autoreload_suspended, saves, owed>>

NoKey ==
  /\ pc = "serial"
  /\ pc' = "wait"
  /\ UNCHANGED <<run, memory, reload, options, autoreload_suspended, saves, owed>>

\* CTRL-D runs the code; any other key enters the REPL, which gives up the
\* reload that was owed.
Key ==
  /\ pc = "serial"
  /\ \/ RunCode /\ owed' = owed
     \/ RunRepl /\ owed' = FALSE
  /\ UNCHANGED <<memory, reload, options, autoreload_suspended, saves>>

-----------------------------------------------------------------------------
(* The others.                                                             *)

\* Mutants: the counter is not tested for zero; the exception is raised without a
\* request.
TickBelowZero ==
  /\ autoreload_delay_ms' = autoreload_delay_ms - 1
  /\ UNCHANGED <<pc, run, memory, pending, reload_requested, options, autoreload_suspended, saves, owed>>
TickRaisesOnly ==
  /\ autoreload_delay_ms > 0
  /\ autoreload_delay_ms' = autoreload_delay_ms - 1
  /\ pending' = IF autoreload_delay_ms = 1 /\ autoreload_enabled /\ ~autoreload_suspended
                  THEN "reload" ELSE pending
  /\ UNCHANGED <<pc, run, memory, reload_requested, options, autoreload_suspended, saves, owed>>

\* SysTick_Handler: autoreload_tick.
Tick ==
  /\ autoreload_delay_ms > 0
  /\ autoreload_delay_ms' = autoreload_delay_ms - 1
  /\ IF /\ autoreload_delay_ms = 1 /\ autoreload_enabled
        /\ ~autoreload_suspended /\ ~reload_requested
       THEN pending' = "reload" /\ reload_requested' = TRUE
       ELSE UNCHANGED <<pending, reload_requested>>
  /\ UNCHANGED <<pc, run, memory, options, autoreload_suspended, saves, owed>>

\* usb_msc_background has written the last block the host sent: autoreload_start.
HostSaves ==
  /\ pc \in {"running", "wait"} /\ run # "boot"
  /\ saves < MaxSaves
  /\ saves' = saves + 1
  /\ AllocateRamCache
  /\ autoreload_delay_ms' = DelayMs
  /\ owed' = (owed \/ (autoreload_enabled /\ run = "code"))
  /\ UNCHANGED <<pc, run, heap, stack_alloc, current_stack_size, reload_requested,
                 pending, options, autoreload_suspended>>

\* Steps the main thread takes as soon as it can.
MainStep == \/ StackResize \/ AllocateHeap \/ StopDelay \/ StopRequest \/ FlushCache
            \/ StartHeap \/ Suspend \/ TakePending \/ Raise \/ FreeHeap \/ Resume
            \/ CheckReload \/ NoKey

\* Steps that depend on the program or on the host.
Choice == \/ SetNextStackLimit \/ EnableAutoreload \/ DisableAutoreload \/ Reload
          \/ ProgramFlushes \/ ProgramWrites \/ KeyboardInterrupt \/ ProgramEnds
          \/ Key \/ HostSaves

Next == MainStep \/ Choice \/ Tick

Spec == Init /\ [][Next]_vars /\ WF_vars(MainStep) /\ WF_vars(Tick)

-----------------------------------------------------------------------------
(* Properties.                                                             *)

TypeAutoreload ==
  /\ autoreload_delay_ms \in 0..DelayMs
  /\ autoreload_enabled \in BOOLEAN /\ autoreload_suspended \in BOOLEAN
  /\ reload_requested \in BOOLEAN
  /\ pending \in {NULL, "reload", "kbd"}
  /\ saves \in 0..MaxSaves /\ owed \in BOOLEAN

TypeMain ==
  /\ run \in {"boot", "code", "repl"}
  /\ pc \in {"resize", "allocate", "stop_delay", "stop_request", "flush", "gc_init",
             "suspend", "running", "raise", "free", "resume", "wait", "serial"}

TypeMemory ==
  /\ mem.low \in Ebss..Estack /\ mem.high \in Ebss..Estack
  /\ heap \in Slots \cup {NULL} /\ stack_alloc \in Slots \cup {NULL}
  /\ supervisor_cache \in Slots \cup {NULL}
  /\ flash_ram_cache \in {NULL, "outside", "heap"}
  /\ next_stack_size \in StackLimits \cup {DefaultStack}
  /\ current_stack_size \in StackLimits \cup {0, DefaultStack}

\* Every variable keeps its type (autoreload.c:32, main.c:376, memory.c:33).
TypeOK == TypeAutoreload /\ TypeMain /\ TypeMemory

Preparing == {"resize", "allocate", "stop_delay", "stop_request", "flush", "gc_init"}

\* A save is not forgotten: until the saved code is loaded, disabled or given
\* up for the REPL, either the countdown runs, and will raise, or the request
\* is there for the loop of run_code_py, or the code is about to be loaded,
\* and that wherever the tick falls (autoreload.c:37, main.c:213).
RerunOwed ==
  owed => \/ run = "boot"
          \/ run = "code" /\ pc \in Preparing
          \/ run = "code" /\ reload_requested
          \/ /\ run = "code" /\ autoreload_delay_ms > 0
             /\ autoreload_enabled /\ ~autoreload_suspended

\* A request that a program does not notice would switch autoreload off, as the
\* tick requests only once: while code runs, a request has its exception pending
\* (autoreload.c:43, vm.c:1315, and the order of autoreload_stop and mp_init).
RequestInterrupts == pc = "running" /\ run # "repl" /\ reload_requested => pending # NULL

\* Autoreload leaves the REPL alone, also a countdown that was on its way when
\* the key was pressed (main.c:361, the message of main.c:157).
ReplUndisturbed == pc = "running" /\ run = "repl" => pending # "reload" /\ ~reload_requested

\* What the main loop leaves in the table of allocations: no two of them share a
\* word, nor one with the free middle, however often the stack was resized and the
\* cache taken, given back or kept by a flush that failed (memory.c:45).
AllocationsDisjoint ==
  /\ Ebss <= mem.low /\ mem.low <= mem.high /\ mem.high <= Estack
  /\ \A s \in Used(mem) :
       /\ Words(mem, s) \subseteq (Ebss..(mem.low - 1)) \cup (mem.high..(Estack - 1))
       /\ \A t \in Used(mem) \ {s} : Words(mem, s) \cap Words(mem, t) = {}

\* Between two heaps no word is lost: each is in an allocation or in the middle,
\* also when the cache below a heap was given back before the heap was, and
\* free_memory has to find its length in the empty slot (memory.c:68).
NoWordLost ==
  heap = NULL =>
    (UNION {Words(mem, s) : s \in Used(mem)}) \cup (mem.low..(mem.high - 1)) = Ebss..(Estack - 1)

\* Only allocated memory is given back (memory.c:55) and start_mp finds a stack
\* (main.c:84).
OnlyAllocatedFreed ==
  /\ pc = "resize" /\ run # "boot" /\ next_stack_size # current_stack_size => stack_alloc # NULL
  /\ pc \in {"stop_delay", "stop_request", "flush", "gc_init"} => stack_alloc # NULL /\ heap # NULL

\* What is saved over USB is run (main.c:157), what reload() asks for is.
SavedCodeRuns == owed ~> ~owed
=============================================================================

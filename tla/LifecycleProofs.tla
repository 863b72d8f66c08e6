--------------------------- MODULE LifecycleProofs ---------------------------
(***************************************************************************)
(* Proofs about Lifecycle, for every instance without the faults:          *)
(* autoreload forgets no save, a program notices its request, the REPL is  *)
(* left alone, and the memory of the supervisor is never given out twice   *)
(* or lost.                                                                *)
(***************************************************************************)
EXTENDS Lifecycle, TLAPS

Flags == /\ autoreload_enabled \in BOOLEAN
         /\ autoreload_suspended \in BOOLEAN
         /\ reload_requested \in BOOLEAN
         /\ owed \in BOOLEAN

\* Which places of the main thread belong to which run.
Places ==
  /\ pc \in {"suspend", "resume"} => run = "repl"
  /\ pc \in {"wait", "serial"} => run = "code"

\* The places between autoreload_stop and the first bytecode: nothing counts
\* down, nothing is requested, and mp_init has cleared the exception.
Stopped ==
  /\ pc \in {"stop_request", "flush", "gc_init", "suspend"} => autoreload_delay_ms = 0
  /\ pc \in {"flush", "gc_init", "suspend"} => ~reload_requested
  /\ pc = "suspend" => pending = NULL

SuspendedInRepl == autoreload_suspended => run = "repl" /\ pc \in {"running", "raise", "free", "resume"}

ReplShielded == run = "repl" /\ pc \in {"running", "raise"} =>
                  autoreload_suspended /\ pending # "reload" /\ ~reload_requested

NotOwedInRepl == run = "repl" => ~owed

IInv == /\ TypeAutoreload /\ TypeMain /\ Places /\ Stopped /\ SuspendedInRepl
        /\ ReplShielded /\ NotOwedInRepl /\ RerunOwed /\ RequestInterrupts

-----------------------------------------------------------------------------
\* A flush may fail to read; nothing else of what the runs leave out happens.
OnlyBadReads == Faults \subseteq {"bad_read"}

\* Nor does a flush fail.
NoFaults == Faults = {}

\* What the control of autoreload reads and writes.
control == <<pc, run, autoreload_delay_ms, autoreload_enabled, autoreload_suspended,
             reload_requested, pending, saves, owed>>

LEMMA InvInit == Init => IInv
  <1> SUFFICES ASSUME Init PROVE IInv
    OBVIOUS
  <1>1. TypeAutoreload
    <2>1. autoreload_delay_ms \in 0..DelayMs /\ saves \in 0..MaxSaves
      BY LifecycleAssumption DEF Init
    <2> QED BY <2>1 DEF Init, TypeAutoreload
  <1>2. TypeMain /\ Places
    BY DEF Init, TypeMain, Places
  <1>3. Stopped /\ SuspendedInRepl /\ ReplShielded /\ NotOwedInRepl
    BY DEF Init, Stopped, SuspendedInRepl, ReplShielded, NotOwedInRepl
  <1>4. RerunOwed /\ RequestInterrupts
    BY DEF Init, RerunOwed, RequestInterrupts
  <1> QED BY <1>1, <1>2, <1>3, <1>4 DEF IInv

\* Every action but two keeps the invariant by the values it writes.  Tick needs
\* what holds of the countdown in each place, Key the two ways it may end.
LEMMA InvStep == ASSUME OnlyBadReads, IInv, [Next]_vars PROVE IInv'
  <1> USE LifecycleAssumption
      DEF OnlyBadReads, IInv, TypeAutoreload, TypeMain, Places, Stopped, SuspendedInRepl,
          ReplShielded, NotOwedInRepl, RerunOwed, RequestInterrupts, Preparing
  <1>1. CASE StackResize
    BY <1>1 DEF StackResize, reload, options
  <1>2. CASE AllocateHeap
    BY <1>2 DEF AllocateHeap, reload, options
  <1>3. CASE StopDelay
    BY <1>3 DEF StopDelay, options
  <1>4. CASE StopRequest
    BY <1>4 DEF StopRequest, options
  <1>5. CASE FlushCache \/ StartHeap
    BY <1>5 DEF FlushCache, StartHeap, reload, options
  <1>6. CASE Suspend
    BY <1>6 DEF Suspend, reload, options
  <1>7. CASE TakePending
    BY <1>7 DEF TakePending, Running, reload, options
  <1>8. CASE Raise
    BY <1>8 DEF Raise, options
  <1>9. CASE FreeHeap
    BY <1>9 DEF FreeHeap, reload, options
  <1>10. CASE Resume
    BY <1>10 DEF Resume, RunCode, RunRepl, reload, options
  <1>11. CASE CheckReload
    BY <1>11 DEF CheckReload, RunCode, reload, options
  <1>12. CASE NoKey
    BY <1>12 DEF NoKey, reload, options
  <1>13. CASE SetNextStackLimit
    BY <1>13 DEF SetNextStackLimit, reload
  <1>14. CASE EnableAutoreload
    BY <1>14 DEF EnableAutoreload, Running
  <1>15. CASE DisableAutoreload
    BY <1>15 DEF DisableAutoreload, Running, reload
  <1>16. CASE Reload
    BY <1>16 DEF Reload, Running, options
  <1>17. CASE ProgramFlushes
    BY <1>17 DEF ProgramFlushes, reload, options
  <1>18. CASE ProgramWrites
    BY <1>18 DEF ProgramWrites, reload, options
  <1>19. CASE KeyboardInterrupt
    BY <1>19 DEF KeyboardInterrupt, Running, options
  <1>20. CASE ProgramEnds
    BY <1>20 DEF ProgramEnds, Running, reload, options
  <1>21. CASE Key
    <2> pc = "serial" /\ run = "code" /\ ~autoreload_suspended
      BY <1>21 DEF Key
    <2>1. CASE RunCode /\ owed' = owed
      BY <1>21, <2>1 DEF Key, RunCode, reload, options
    <2>2. CASE RunRepl /\ owed' = FALSE
      BY <1>21, <2>2 DEF Key, RunRepl, reload, options
    <2> QED BY <1>21, <2>1, <2>2 DEF Key
  <1>22. CASE HostSaves
    BY <1>22 DEF HostSaves, options
  <1>23. CASE Tick
    <2>1. pc \notin {"stop_request", "flush", "gc_init", "suspend"}
      BY <1>23 DEF Tick
    <2>2. autoreload_delay_ms' \in 0..DelayMs
      BY <1>23 DEF Tick
    <2>3. CASE /\ autoreload_delay_ms = 1 /\ autoreload_enabled
               /\ ~autoreload_suspended /\ ~reload_requested
      <3>1. ~(run = "repl" /\ pc \in {"running", "raise"})
        BY <2>3
      <3>2. pending' = "reload" /\ reload_requested' = TRUE
        BY <1>23, <2>3 DEF Tick
      <3> QED BY <1>23, <2>1, <2>2, <3>1, <3>2 DEF Tick, options
    <2>4. CASE ~(/\ autoreload_delay_ms = 1 /\ autoreload_enabled
                 /\ ~autoreload_suspended /\ ~reload_requested)
      BY <1>23, <2>1, <2>2, <2>4 DEF Tick, options
    <2> QED BY <2>3, <2>4
  <1>24. CASE UNCHANGED vars
    BY <1>24 DEF vars, reload, options
  <1> QED BY <1>1, <1>2, <1>3, <1>4, <1>5, <1>6, <1>7, <1>8,
             <1>9, <1>10, <1>11, <1>12, <1>13, <1>14, <1>15, <1>16,
             <1>17, <1>18, <1>19, <1>20, <1>21, <1>22, <1>23, <1>24 DEF Next, MainStep, Choice

-----------------------------------------------------------------------------
THEOREM Inductive == ASSUME OnlyBadReads PROVE Spec => []IInv
  <1>1. IInv /\ [Next]_vars => IInv'
    BY InvStep
  <1> QED BY InvInit, <1>1, PTL DEF Spec

\* No save is forgotten (autoreload.c:37, main.c:213): wherever the tick falls,
\* the countdown, the request or the coming load stands for it.
THEOREM SavesRemembered == ASSUME OnlyBadReads PROVE Spec => []RerunOwed
  <1>1. IInv => RerunOwed
    BY DEF IInv
  <1> QED BY Inductive, <1>1, PTL

\* A program always notices a request (autoreload.c:41, vm.c:1315): the tick
\* would not request again.
THEOREM RequestsNoticed == ASSUME OnlyBadReads PROVE Spec => []RequestInterrupts
  <1>1. IInv => RequestInterrupts
    BY DEF IInv
  <1> QED BY Inductive, <1>1, PTL

\* Autoreload never raises in the REPL (main.c:361).
THEOREM ReplLeftAlone == ASSUME OnlyBadReads PROVE Spec => []ReplUndisturbed
  <1>1. IInv => ReplUndisturbed
    BY DEF IInv, ReplShielded, ReplUndisturbed
  <1> QED BY Inductive, <1>1, PTL

-----------------------------------------------------------------------------
(* The supervisor's memory.                                                *)

USE MemoryAssumption

\* The last slot, the first to be taken from the high end.
Top == AllocCount - 1

Memories == [low : Int, high : Int, slots : [Slots -> [ptr : Int \cup {NULL}, length : Nat]]]
InBounds(m) == m.low \in 0..m.high /\ m.high \in 0..Estack

\* What a board has: two allocations at least, a cache of some size, and a default
\* stack of whole words that leaves a word free beside the cache.  The last
\* conjunct is about the programs: none asks for a stack that takes the memory to
\* the last word, which the code grants, and then there is no heap to start, nor
\* for one of whole words beyond INT32_MAX, which the code takes for negative.
Room ==
  /\ AllocCount >= 2
  /\ CacheSize > 0
  /\ \A depth \in StackDepths :
       /\ StackLength(DefaultStack, depth) % 4 = 0
       /\ StackLength(DefaultStack, depth) + CacheSize < 4 * (Estack - Ebss)
       /\ \A size \in StackLimits :
            /\ StackLength(size, depth) # 4 * (Estack - Ebss)
            /\ StackLength(size, depth) > IntMax => StackLength(size, depth) % 4 # 0

\* The places of the main thread where the heap is allocated.
InHeap == {"stop_delay", "stop_request", "flush", "gc_init", "suspend", "running", "raise", "free"}

\* The high end holds the stack or nothing.
StackShape ==
  /\ stack_alloc = IF run = "boot" /\ pc = "resize" THEN NULL ELSE Top
  /\ IF stack_alloc = NULL
       THEN mem.slots[Top].ptr = NULL /\ mem.high = Estack
       ELSE /\ mem.slots[Top].ptr = mem.high
            /\ mem.high + mem.slots[Top].length \div 4 = Estack
            /\ Ebss < mem.high

\* The low end holds the heap, the cache of the flash or nothing: the cache only
\* while there is no heap, in the words where the heap will be, and the heap all
\* that the stack leaves.
LowShape ==
  /\ heap = IF pc \in InHeap THEN 0 ELSE NULL
  /\ supervisor_cache = IF flash_ram_cache = "outside" THEN 0 ELSE NULL
  /\ flash_ram_cache = "outside" => pc \in {"wait", "serial", "resize", "allocate"}
  /\ IF heap = NULL /\ supervisor_cache = NULL
       THEN mem.slots[0].ptr = NULL /\ mem.low = Ebss
       ELSE mem.slots[0].ptr = Ebss /\ mem.low = Ebss + mem.slots[0].length \div 4
  /\ supervisor_cache # NULL => mem.slots[0].length = CacheSize /\ CacheSize % 4 = 0
  /\ heap # NULL => mem.low = mem.high
  /\ mem.low <= mem.high

OthersFree == \A s \in Slots \ {0, Top} : mem.slots[s].ptr = NULL
CacheType == flash_ram_cache \in {NULL, "outside", "heap"}
SizeType ==
  /\ next_stack_size \in StackLimits \cup {DefaultStack}
  /\ current_stack_size \in StackLimits \cup {0, DefaultStack}

MemInv == mem \in Memories /\ StackShape /\ LowShape /\ OthersFree /\ SizeType /\ CacheType

-----------------------------------------------------------------------------
(* What the operations of the memory do at its two ends.                   *)

\* No address and no length within the memory wraps.
LEMMA Remainder == ASSUME NEW n \in Nat \ {0}, NEW a \in 0..(n - 1) PROVE a % n = a
  OBVIOUS

LEMMA SameAddress == ASSUME NEW a \in 0..Estack PROVE Address(a) = a
  <1> DEFINE n == Range32 \div 4
  <1>1. n \in Nat \ {0} /\ a \in 0..(n - 1)
    BY DEF Range32
  <1> HIDE DEF n
  <1>2. a % n = a
    BY <1>1, Remainder
  <1> QED BY <1>2 DEF Address, n

LEMMA SameInt == ASSUME NEW k \in 0..IntMax PROVE Int32(k) = k /\ k % Range32 = k
  <1>1. Range32 \in Nat \ {0} /\ k \in 0..(Range32 - 1) /\ k + IntMax + 1 \in 0..(Range32 - 1)
    BY DEF Range32
  <1>2. (k + IntMax + 1) % Range32 = k + IntMax + 1 /\ k % Range32 = k
    BY <1>1, Remainder
  <1> QED BY <1>2 DEF Int32

LEMMA SameMiddle ==
  ASSUME NEW m \in Memories, InBounds(m)
  PROVE  MiddleBytes(m) = (m.high - m.low) * 4 /\ MiddleBytes(m) % Range32 = MiddleBytes(m)
  <1>1. (m.high - m.low) * 4 \in 0..IntMax
    BY DEF InBounds, Memories
  <1> QED BY <1>1, SameInt DEF MiddleBytes

\* The room is tested as it should be for every length that is not negative, and a
\* length that is not of whole words is refused anyway.
LEMMA RoomTested ==
  ASSUME NEW m \in Memories, InBounds(m), NEW length \in Nat, length > IntMax => length % 4 # 0
  PROVE  \/ length % 4 # 0
         \/ MiddleBytes(m) < Int32(length) <=> (m.high - m.low) * 4 < length
  <1>1. CASE length \in 0..IntMax
    BY <1>1, SameInt, SameMiddle
  <1>2. CASE length > IntMax
    BY <1>2
  <1> QED BY <1>1, <1>2

\* Behind the last slot and before the first there is nothing to give back.
LEMMA NothingFreed == ASSUME NEW m PROVE FreedWords(m, {}) = 0
  <1> DEFINE g == [s \in SUBSET {} |-> 0]
             f(h) == [s \in SUBSET {} |->
                        IF s = {} THEN 0
                        ELSE LET x == CHOOSE y \in s : TRUE
                             IN (m.slots[x].length \div 4) + h[s \ {x}]]
  <1>1. g = f(g)
    OBVIOUS
  <1>2. FreedWords(m, {}) = (CHOOSE h : h = f(h))[{}]
    BY Zenon DEF FreedWords, MapThenSumSet, MapThenFoldSet
  <1>3. (CHOOSE h : h = f(h)) = f(CHOOSE h : h = f(h))
    <2> HIDE DEF f, g
    <2> QED BY <1>1
  <1> QED BY <1>2, <1>3

\* The free slot that is taken from the high end,
LEMMA LastFree == ASSUME NEW S \in SUBSET Slots, Top \in S PROVE Max(S) = Top
  <1>1. \A t \in S : Top >= t /\ t \in Int
    BY DEF Slots, Top
  <1>2. Max(S) \in S /\ \A t \in S : Max(S) >= t
    BY <1>1 DEF Max
  <1> QED BY <1>1, <1>2
\* and from the low end.
LEMMA FirstFree == ASSUME NEW S \in SUBSET Slots, 0 \in S PROVE Min(S) = 0
  <1>1. \A t \in S : 0 <= t /\ t \in Int
    BY DEF Slots
  <1>2. Min(S) \in S /\ \A t \in S : Min(S) <= t
    BY <1>1 DEF Min
  <1> QED BY <1>1, <1>2

\* A memory with other slots and other bounds.
LEMMA MemoryWith ==
  ASSUME NEW m \in Memories, NEW l \in Int, NEW h \in Int,
         NEW s \in [Slots -> [ptr : Int \cup {NULL}, length : Nat]]
  PROVE  LET n == [m EXCEPT !.slots = s, !.high = h, !.low = l]
         IN n \in Memories /\ n.low = l /\ n.high = h /\ n.slots = s
  <1> DEFINE a == [m EXCEPT !.slots = s]
             b == [a EXCEPT !.high = h]
             n == [b EXCEPT !.low = l]
  <1>1. a \in Memories /\ a.slots = s
    BY DEF Memories
  <1> HIDE DEF a
  <1>2. b \in Memories /\ b.slots = s /\ b.high = h
    BY <1>1 DEF Memories
  <1> HIDE DEF b
  <1>3. n \in Memories /\ n.slots = s /\ n.high = h /\ n.low = l
    BY <1>2 DEF Memories
  <1> QED BY <1>3, Zenon DEF a, b

\* allocate_memory at the high end: refused, or all of length from high down.
LEMMA HighTaken ==
  ASSUME NEW m \in Memories, NEW length \in Nat, m.slots[Top].ptr = NULL,
         InBounds(m), length > IntMax => length % 4 # 0
  PROVE  LET a == AllocateMemory(m, length, TRUE)
         IN \/ a = Refused(m) /\ ((m.high - m.low) * 4 < length \/ length % 4 # 0)
            \/ /\ (m.high - m.low) * 4 >= length /\ length % 4 = 0
               /\ a.allocation = Top /\ a.mem \in Memories
               /\ a.mem.low = m.low /\ a.mem.high = m.high - length \div 4
               /\ a.mem.slots = [m.slots EXCEPT ![Top] = [ptr |-> a.mem.high, length |-> length]]
  <1> DEFINE free == Slots \ Used(m)
  <1>1. Top \in free
    BY DEF Used, Top, Slots
  <1>2. Max(free) = Top
    BY <1>1, LastFree
  <1>3. length \div 4 \in Nat
    OBVIOUS
  <1>4. CASE (m.high - m.low) * 4 < length \/ length % 4 # 0
    BY <1>4, RoomTested DEF AllocateMemory
  <1>5. CASE ~((m.high - m.low) * 4 < length \/ length % 4 # 0)
    <2> DEFINE b == m.high - length \div 4
               n == [m EXCEPT !.slots[Top] = [ptr |-> b, length |-> length], !.high = b, !.low = m.low]
    <2>0. Address(b) = b
      <3>1. m.high \in Int /\ m.low \in Int /\ (m.high - m.low) * 4 >= length
        BY <1>5 DEF Memories
      <3>2. b \in 0..Estack
        BY <3>1 DEF InBounds
      <3> HIDE DEF b
      <3> QED BY <3>2, SameAddress
    <2>1. AllocateMemory(m, length, TRUE) = [mem |-> n, allocation |-> Top]
      <3>1. ~(MiddleBytes(m) < Int32(length) \/ length % 4 # 0 \/ free = {})
        BY <1>1, <1>5, RoomTested
      <3> QED BY <1>2, <2>0, <3>1 DEF AllocateMemory
    <2>2. m.high \in Int /\ m.low \in Int /\ b \in Int
      BY <1>3 DEF Memories
    <2>3. /\ n.low = m.low /\ n.high = b
          /\ n.slots = [m.slots EXCEPT ![Top] = [ptr |-> b, length |-> length]]
      BY DEF Memories
    <2>4. [m.slots EXCEPT ![Top] = [ptr |-> b, length |-> length]]
            \in [Slots -> [ptr : Int \cup {NULL}, length : Nat]]
      BY <2>2 DEF Memories
    <2>5. n \in Memories
      BY <2>2, <2>4, MemoryWith
    <2> DEFINE a == AllocateMemory(m, length, TRUE)
    <2> HIDE DEF n
    <2>6. a = [mem |-> n, allocation |-> Top]
      BY <2>1, Zenon
    <2>7. (m.high - m.low) * 4 >= length /\ length % 4 = 0
      BY <1>5, <2>2
    <2> HIDE DEF a
    <2>9. a.mem = n /\ a.allocation = Top
      BY <2>6
    <2>8. /\ a.mem \in Memories /\ a.mem.low = m.low /\ a.mem.high = m.high - length \div 4
          /\ a.mem.slots = [m.slots EXCEPT ![Top] = [ptr |-> a.mem.high, length |-> length]]
      BY <2>3, <2>5, <2>9
    <2> QED BY <2>7, <2>8, <2>9 DEF a
  <1> QED BY <1>4, <1>5

\* allocate_memory at the low end: refused, or all of length from low up.
LEMMA LowTaken ==
  ASSUME NEW m \in Memories, NEW length \in Nat, m.slots[0].ptr = NULL,
         InBounds(m), length <= IntMax
  PROVE  LET a == AllocateMemory(m, length, FALSE)
         IN \/ a = Refused(m) /\ ((m.high - m.low) * 4 < length \/ length % 4 # 0)
            \/ /\ (m.high - m.low) * 4 >= length /\ length % 4 = 0
               /\ a.allocation = 0 /\ a.mem \in Memories
               /\ a.mem.low = m.low + length \div 4 /\ a.mem.high = m.high
               /\ a.mem.slots = [m.slots EXCEPT ![0] = [ptr |-> m.low, length |-> length]]
  <1> DEFINE free == Slots \ Used(m)
  <1>1. 0 \in free
    BY DEF Used, Slots
  <1>2. Min(free) = 0
    BY <1>1, FirstFree
  <1>3. length \div 4 \in Nat
    OBVIOUS
  <1>4. CASE (m.high - m.low) * 4 < length \/ length % 4 # 0
    BY <1>4, RoomTested DEF AllocateMemory
  <1>5. CASE ~((m.high - m.low) * 4 < length \/ length % 4 # 0)
    <2> DEFINE n == [m EXCEPT !.slots[0] = [ptr |-> m.low, length |-> length],
                              !.high = m.high, !.low = m.low + length \div 4]
    <2>0. Address(m.low + length \div 4) = m.low + length \div 4
      <3>1. m.high \in Int /\ m.low \in Int /\ (m.high - m.low) * 4 >= length
        BY <1>5 DEF Memories
      <3>2. m.low + length \div 4 \in 0..Estack
        BY <3>1 DEF InBounds
      <3> QED BY <3>2, SameAddress
    <2>1. AllocateMemory(m, length, FALSE) = [mem |-> n, allocation |-> 0]
      <3>1. ~(MiddleBytes(m) < Int32(length) \/ length % 4 # 0 \/ free = {})
        BY <1>1, <1>5, RoomTested
      <3> QED BY <1>2, <2>0, <3>1 DEF AllocateMemory
    <2>2. m.high \in Int /\ m.low \in Int /\ m.low + length \div 4 \in Int
      BY <1>3 DEF Memories
    <2>3. /\ n.low = m.low + length \div 4 /\ n.high = m.high
          /\ n.slots = [m.slots EXCEPT ![0] = [ptr |-> m.low, length |-> length]]
      BY DEF Memories
    <2> DEFINE slots == [m.slots EXCEPT ![0] = [ptr |-> m.low, length |-> length]]
               low == m.low + length \div 4
    <2>4. slots \in [Slots -> [ptr : Int \cup {NULL}, length : Nat]] /\ low \in Int
      BY <2>2 DEF Memories
    <2> HIDE DEF slots, low
    <2>5. [m EXCEPT !.slots = slots, !.high = m.high, !.low = low] \in Memories
      BY <2>2, <2>4, MemoryWith
    <2>10. n \in Memories
      BY <2>5, Zenon DEF slots, low
    <2> DEFINE a == AllocateMemory(m, length, FALSE)
    <2> HIDE DEF n
    <2>6. a = [mem |-> n, allocation |-> 0]
      BY <2>1, Zenon
    <2>7. (m.high - m.low) * 4 >= length /\ length % 4 = 0
      BY <1>5, <2>2
    <2> HIDE DEF a
    <2>9. a.mem = n /\ a.allocation = 0
      BY <2>6
    <2>8. /\ a.mem \in Memories /\ a.mem.low = m.low + length \div 4 /\ a.mem.high = m.high
          /\ a.mem.slots = [m.slots EXCEPT ![0] = [ptr |-> m.low, length |-> length]]
      BY <2>3, <2>9, <2>10
    <2> QED BY <2>7, <2>8, <2>9 DEF a
  <1> QED BY <1>4, <1>5

\* free_memory of what lies at the high end gives its words back to the middle,
LEMMA HighFreed ==
  ASSUME NEW m \in Memories, m.slots[Top].ptr = m.high,
         m.high + m.slots[Top].length \div 4 \in 0..Estack
  PROVE  LET f == FreeMemory(m, Top)
         IN /\ f \in Memories /\ f.low = m.low
            /\ f.high = m.high + m.slots[Top].length \div 4
            /\ f.slots = [m.slots EXCEPT ![Top].ptr = NULL]
  <1>1. {t \in Slots : t > Top /\ \A u \in Used(m) : u > Top => u > t} = {}
    BY DEF Slots, Top
  <1>2. FreedAfter(m, Top) = 0
    BY <1>1, NothingFreed DEF FreedAfter
  <1>3. m.slots[Top].length \in Nat /\ m.high \in Int /\ m.low \in Int /\ Top \in Slots
    BY DEF Memories, Slots, Top
  <1> DEFINE words == m.slots[Top].length \div 4
             n == [m EXCEPT !.slots[Top].ptr = NULL, !.high = m.high + words, !.low = m.low]
  <1>4. words \in Nat /\ m.high + words \in Int /\ m.high + words + 0 = m.high + words
        /\ Address(m.high + words) = m.high + words
    BY <1>3, SameAddress
  <1>5. FreeMemory(m, Top) = n
    BY <1>2, <1>3, <1>4 DEF FreeMemory
  <1>6. n.low = m.low /\ n.high = m.high + words /\ n.slots = [m.slots EXCEPT ![Top].ptr = NULL]
    BY DEF Memories
  <1>8. [m.slots EXCEPT ![Top].ptr = NULL] \in [Slots -> [ptr : Int \cup {NULL}, length : Nat]]
    BY DEF Memories
  <1>7. n \in Memories
    BY <1>3, <1>4, <1>8, MemoryWith
  <1> QED BY <1>5, <1>6, <1>7

\* and so it does at the low end.
LEMMA LowFreed ==
  ASSUME NEW m \in Memories, m.slots[0].ptr \in 0..m.low, m.slots[0].ptr # m.high, InBounds(m),
         m.slots[0].ptr + m.slots[0].length \div 4 = m.low
  PROVE  LET f == FreeMemory(m, 0)
         IN /\ f \in Memories /\ f.low = m.slots[0].ptr /\ f.high = m.high
            /\ f.slots = [m.slots EXCEPT ![0].ptr = NULL]
  <1>1. {t \in Slots : t < 0 /\ \A u \in Used(m) : u < 0 => u < t} = {}
    BY DEF Slots
  <1>2. FreedBefore(m, 0) = 0
    BY <1>1, NothingFreed DEF FreedBefore
  <1>3. m.slots[0].length \in Nat /\ m.high \in Int /\ m.low \in Int /\ 0 \in Slots
        /\ m.slots[0].ptr \in Int
    BY DEF Memories, Slots
  <1> DEFINE n == [m EXCEPT !.slots[0].ptr = NULL, !.high = m.high, !.low = m.slots[0].ptr]
  <1>4. /\ m.slots[0].ptr - 0 = m.slots[0].ptr
        /\ Address(m.slots[0].ptr) = m.slots[0].ptr /\ Address(m.low) = m.low
    BY <1>3, SameAddress DEF InBounds
  <1>5. FreeMemory(m, 0) = n
    BY <1>2, <1>3, <1>4 DEF FreeMemory
  <1>6. n.low = m.slots[0].ptr /\ n.high = m.high /\ n.slots = [m.slots EXCEPT ![0].ptr = NULL]
    BY DEF Memories
  <1>8. [m.slots EXCEPT ![0].ptr = NULL] \in [Slots -> [ptr : Int \cup {NULL}, length : Nat]]
    BY DEF Memories
  <1>7. n \in Memories
    BY <1>3, <1>8, MemoryWith
  <1> QED BY <1>5, <1>6, <1>7

-----------------------------------------------------------------------------
(* The shape of the memory in every step.                                  *)

\* The two slots in use are different ones, and neither is NULL.
LEMMA SlotNumbers ==
  ASSUME Room
  PROVE  /\ 0 \in Slots /\ Top \in Slots /\ Top # 0 /\ Top # NULL /\ NULL # 0
         /\ Ebss \in Int /\ Estack \in Int /\ Ebss # NULL
  BY DEF Room, Slots, Top

\* The ends of the middle are in order, within the memory.
LEMMA Bounds == ASSUME Room, MemInv PROVE InBounds(mem) /\ Ebss <= mem.low
  <1>1. mem.low \in Int /\ mem.high \in Int /\ mem.low <= mem.high
    BY DEF MemInv, LowShape, Memories
  <1>2. mem.slots[0].length \div 4 \in Nat /\ mem.slots[Top].length \div 4 \in Nat
    BY SlotNumbers DEF MemInv, Memories
  <1>3. mem.high <= Estack
    BY <1>1, <1>2 DEF MemInv, StackShape
  <1>4. Ebss <= mem.low
    BY <1>1, <1>2 DEF MemInv, LowShape
  <1> QED BY <1>1, <1>3, <1>4 DEF InBounds

\* Before boot.py nothing is allocated.
LEMMA MemInit == Room /\ NoFaults /\ ~SafeMode /\ Init => MemInv
  <1> SUFFICES ASSUME Room, ~SafeMode, Init PROVE MemInv
    OBVIOUS
  <1>1. mem = MemoryInit /\ heap = NULL /\ stack_alloc = NULL /\ supervisor_cache = NULL
        /\ flash_ram_cache = NULL /\ run = "boot" /\ pc = "resize"
    BY DEF Init
  <1>2. mem.low = Ebss /\ mem.high = Estack /\ \A s \in Slots : mem.slots[s].ptr = NULL
    BY <1>1 DEF MemoryInit
  <1>3. mem \in Memories
    BY <1>1 DEF MemoryInit, Memories
  <1>4. StackShape
    BY <1>1, <1>2, SlotNumbers DEF StackShape
  <1>5. LowShape
    BY <1>1, <1>2, SlotNumbers, LifecycleAssumption DEF LowShape, InHeap
  <1>6. OthersFree /\ CacheType
    BY <1>1, <1>2 DEF OthersFree, CacheType
  <1>7. SizeType
    BY DEF Init, SizeType
  <1> QED BY <1>3, <1>4, <1>5, <1>6, <1>7 DEF MemInv

\* The steps that leave memory alone.
LEMMA MemKept ==
  ASSUME Room, MemInv, UNCHANGED <<mem, heap, stack_alloc, cache, current_stack_size>>,
         next_stack_size' \in StackLimits \cup {DefaultStack},
         pc' \in InHeap <=> pc \in InHeap,
         flash_ram_cache = "outside" => pc' \in {"wait", "serial", "resize", "allocate"},
         ~(run = "boot" /\ pc = "resize"), ~(run' = "boot" /\ pc' = "resize")
  PROVE  MemInv'
  <1> USE DEF cache
  <1>1. StackShape'
    BY DEF MemInv, StackShape
  <1>2. LowShape'
    BY DEF MemInv, LowShape
  <1>3. OthersFree' /\ CacheType' /\ SizeType' /\ (mem \in Memories)'
    BY DEF MemInv, OthersFree, CacheType, SizeType
  <1> QED BY <1>1, <1>2, <1>3 DEF MemInv

\* stack_resize gives the old stack back: the high end is whole again.
LEMMA OldStackFreed ==
  ASSUME Room, MemInv,
         NEW freed, freed = IF run = "boot" THEN mem ELSE FreeMemory(mem, stack_alloc),
         pc = "resize"
  PROVE  /\ freed \in Memories /\ freed.low = mem.low /\ freed.high = Estack
         /\ freed.slots = [mem.slots EXCEPT ![Top].ptr = NULL]
  <1>1. CASE run = "boot"
    <2>1. freed = mem /\ mem.slots[Top].ptr = NULL /\ mem.high = Estack
      BY <1>1, SlotNumbers DEF MemInv, StackShape
    <2>2. mem.slots = [mem.slots EXCEPT ![Top].ptr = NULL]
      BY <2>1, SlotNumbers DEF MemInv, Memories
    <2> QED BY <2>1, <2>2 DEF MemInv
  <1>2. CASE run # "boot"
    <2>1. stack_alloc = Top /\ mem.slots[Top].ptr = mem.high
          /\ mem.high + mem.slots[Top].length \div 4 = Estack
      BY <1>2, SlotNumbers DEF MemInv, StackShape
    <2>2. freed = FreeMemory(mem, Top)
      BY <1>2, <2>1
    <2> QED BY <2>1, <2>2, HighFreed, SlotNumbers DEF MemInv
  <1> QED BY <1>1, <1>2

\* The length of a stack is a number of bytes,
LEMMA StackLengths ==
  ASSUME NEW depth \in StackDepths, NEW size \in StackLimits \cup {DefaultStack}
  PROVE  StackLength(size, depth) \in Nat
  BY LifecycleAssumption DEF StackLength

\* and stack_resize takes the new stack from the whole high end, if need be one of
\* the default size, which fits.
LEMMA ResizeStep == Room /\ MemInv /\ StackResize => MemInv'
  <1> SUFFICES ASSUME Room, MemInv, StackResize PROVE MemInv'
    OBVIOUS
  <1>0. pc = "resize" /\ pc' = "allocate" /\ run' = run /\ heap' = heap /\ next_stack_size' = next_stack_size
        /\ supervisor_cache' = supervisor_cache /\ flash_ram_cache' = flash_ram_cache
    BY DEF StackResize, cache, options
  <1>1. CASE run # "boot" /\ next_stack_size = current_stack_size
    <2>1. UNCHANGED <<mem, heap, stack_alloc, cache, current_stack_size>>
      BY <1>0, <1>1 DEF StackResize, cache
    <2> QED BY <1>0, <1>1, <2>1, MemKept DEF InHeap, MemInv, SizeType
  <1>2. CASE ~(run # "boot" /\ next_stack_size = current_stack_size)
    <2> DEFINE freed == IF run = "boot" THEN mem ELSE FreeMemory(mem, stack_alloc)
               Try(size, depth) == AllocateMemory(freed, StackLength(size, depth), TRUE)
    <2>1. PICK depth \in StackDepths, size \in StackLimits \cup {DefaultStack} :
            /\ mem' = Try(size, depth).mem /\ stack_alloc' = Try(size, depth).allocation
            /\ current_stack_size' = size
            /\ size # DefaultStack => Try(size, depth).allocation # NULL
      BY <1>2 DEF StackResize, MemInv, SizeType
    <2>2. /\ freed \in Memories /\ freed.low = mem.low /\ freed.high = Estack
          /\ freed.slots = [mem.slots EXCEPT ![Top].ptr = NULL]
      BY <1>0, OldStackFreed
    <2> DEFINE length == StackLength(size, depth)
    <2>3. length \in Nat /\ StackLength(DefaultStack, depth) \in Nat
      BY StackLengths
    <2>4. freed.slots[Top].ptr = NULL
      BY <2>2, SlotNumbers DEF MemInv, Memories
    <2>45. InBounds(freed)
      BY <2>2, Bounds DEF InBounds
    <2>46. length > IntMax => length % 4 # 0
      BY <2>3, LifecycleAssumption DEF Room
    <2> HIDE DEF freed
    <2>5. \/ Try(size, depth) = Refused(freed) /\ ((Estack - mem.low) * 4 < length \/ length % 4 # 0)
          \/ /\ (Estack - mem.low) * 4 >= length /\ length % 4 = 0
             /\ Try(size, depth).allocation = Top /\ mem' \in Memories
             /\ mem'.low = mem.low /\ mem'.high = Estack - length \div 4
             /\ mem'.slots = [freed.slots EXCEPT ![Top] = [ptr |-> mem'.high, length |-> length]]
      BY <2>1, <2>2, <2>3, <2>4, <2>45, <2>46, HighTaken
    <2>6. heap = NULL /\ heap' = NULL
      BY <1>0 DEF MemInv, LowShape, InHeap
    <2>7. /\ mem.low \in Int
          /\ \/ mem.low = Ebss /\ mem.slots[0].ptr = NULL /\ supervisor_cache = NULL
             \/ /\ mem.low = Ebss + CacheSize \div 4 /\ CacheSize % 4 = 0
                /\ mem.slots[0].ptr = Ebss /\ supervisor_cache = 0
      BY <2>6, SlotNumbers DEF MemInv, LowShape, Memories
    <2>8. Try(size, depth) # Refused(freed)
      <3>1. ASSUME Try(size, depth) = Refused(freed) PROVE Try(size, depth).allocation = NULL
        <4>1. Refused(freed).allocation = NULL
          BY DEF Refused
        <4> QED BY <3>1, <4>1, Zenon
      <3>2. CASE size = DefaultStack
        <4>1. (Estack - mem.low) * 4 >= length /\ length % 4 = 0
          BY <2>3, <2>7, <3>2, SlotNumbers, LifecycleAssumption DEF Room
        <4>2. ~((Estack - mem.low) * 4 < length \/ length % 4 # 0)
          <5>1. (Estack - mem.low) * 4 \in Int /\ length \in Int /\ mem.low \in Int
            BY <2>3, <2>7, SlotNumbers
          <5> HIDE DEF length
          <5> QED BY <4>1, <5>1
        <4>3. Top # NULL
          BY SlotNumbers
        <4>4. Try(size, depth).allocation = Top
          BY <2>5, <4>2, Zenon
        <4> QED BY <3>1, <4>3, <4>4, Zenon
      <3>3. CASE size # DefaultStack
        BY <2>1, <3>1, <3>3, Zenon
      <3> QED BY <3>2, <3>3
    <2>9. /\ (Estack - mem.low) * 4 >= length /\ length % 4 = 0
          /\ stack_alloc' = Top /\ mem' \in Memories
          /\ mem'.low = mem.low /\ mem'.high = Estack - length \div 4
          /\ mem'.slots = [freed.slots EXCEPT ![Top] = [ptr |-> mem'.high, length |-> length]]
      BY <2>1, <2>5, <2>8
    <2>10. length # 4 * (Estack - Ebss)
      BY <2>3, SlotNumbers, LifecycleAssumption DEF Room
    <2>11. mem.low <= mem'.high /\ Ebss < mem'.high
      BY <2>3, <2>7, <2>9, <2>10, SlotNumbers, LifecycleAssumption DEF Room
    <2>12. /\ mem'.slots[Top].ptr = mem'.high /\ mem'.slots[Top].length = length
           /\ \A s \in Slots \ {Top} : mem'.slots[s] = mem.slots[s]
      BY <2>2, <2>9, SlotNumbers DEF MemInv, Memories
    <2>13. StackShape'
      BY <1>0, <2>3, <2>9, <2>11, <2>12, SlotNumbers DEF StackShape
    <2>14. LowShape'
      BY <1>0, <2>6, <2>9, <2>11, <2>12, SlotNumbers DEF MemInv, LowShape, InHeap
    <2>15. OthersFree' /\ CacheType' /\ SizeType'
      BY <1>0, <2>1, <2>12 DEF MemInv, OthersFree, CacheType, SizeType
    <2> QED BY <2>9, <2>13, <2>14, <2>15 DEF MemInv
  <1> QED BY <1>1, <1>2

\* A flush leaves the low end whole.
LEMMA Flushed ==
  ASSUME Room, MemInv, heap = NULL
  PROVE  LET f == FlushedMemory(TRUE)
         IN /\ f \in Memories /\ f.low = Ebss /\ f.high = mem.high
            /\ f.slots[0].ptr = NULL
            /\ \A s \in Slots \ {0} : f.slots[s] = mem.slots[s]
  <1> DEFINE f == FlushedMemory(TRUE)
  <1>1. CASE supervisor_cache = NULL
    <2>1. f = mem
      BY <1>1 DEF FlushedMemory
    <2> QED BY <1>1, <2>1 DEF MemInv, LowShape
  <1>2. CASE supervisor_cache # NULL
    <2>1. /\ supervisor_cache = 0 /\ mem.slots[0].ptr = Ebss /\ mem.slots[0].length = CacheSize
          /\ CacheSize % 4 = 0 /\ mem.low = Ebss + CacheSize \div 4 /\ mem.low <= mem.high
      BY <1>2 DEF MemInv, LowShape
    <2>2. mem.slots[0].ptr \in 0..mem.low /\ mem.slots[0].ptr # mem.high
          /\ mem.slots[0].ptr + mem.slots[0].length \div 4 = mem.low
      BY <2>1, Bounds, SlotNumbers, LifecycleAssumption DEF Room, MemInv, Memories
    <2>3. f = FreeMemory(mem, 0)
      BY <1>2, <2>1 DEF FlushedMemory
    <2>4. /\ f \in Memories /\ f.low = Ebss /\ f.high = mem.high
          /\ f.slots = [mem.slots EXCEPT ![0].ptr = NULL]
      BY <2>1, <2>2, <2>3, Bounds, LowFreed DEF MemInv
    <2>5. f.slots[0].ptr = NULL /\ \A s \in Slots \ {0} : f.slots[s] = mem.slots[s]
      BY <2>4, SlotNumbers DEF MemInv, Memories
    <2> QED BY <2>4, <2>5
  <1> QED BY <1>1, <1>2

\* The heap takes all that is left, and something is left.
LEMMA HeapStep == Room /\ NoFaults /\ MemInv /\ AllocateHeap => MemInv'
  <1> SUFFICES ASSUME Room, NoFaults, MemInv, AllocateHeap PROVE MemInv'
    OBVIOUS
  <1> DEFINE f == FlushedMemory(TRUE)
             rest == AllocateRemainingMemory(f)
             length == (mem.high - Ebss) * 4
  <1>0. /\ pc = "allocate" /\ pc' = "stop_delay" /\ run' = run
        /\ mem' = rest.mem /\ heap' = rest.allocation /\ stack_alloc' = stack_alloc
        /\ supervisor_cache' = NULL /\ flash_ram_cache' = NULL
        /\ next_stack_size' = next_stack_size /\ current_stack_size' = current_stack_size
    BY DEF AllocateHeap, NoFaults, FlushOutcomes, CacheAfterFlush, options
  <1>1. heap = NULL
    BY <1>0 DEF MemInv, LowShape, InHeap
  <1>2. /\ stack_alloc = Top /\ mem.slots[Top].ptr = mem.high /\ Ebss < mem.high
        /\ mem.high + mem.slots[Top].length \div 4 = Estack /\ mem.high \in Int
    BY <1>0, SlotNumbers DEF MemInv, StackShape, Memories
  <1>3. /\ f \in Memories /\ f.low = Ebss /\ f.high = mem.high
        /\ f.slots[0].ptr = NULL
        /\ \A s \in Slots \ {0} : f.slots[s] = mem.slots[s]
    BY <1>1, Flushed
  <1> HIDE DEF f
  <1>4. length \in Nat /\ ~(length < length) /\ length % 4 = 0 /\ length \div 4 = mem.high - Ebss
    BY <1>2, SlotNumbers
  <1> HIDE DEF length
  <1>5. (f.high - f.low) * 4 = length /\ f.low # f.high
    BY <1>2, <1>3, SlotNumbers DEF length
  <1>55. InBounds(f) /\ length <= IntMax
    <2>1. mem.high <= Estack
      BY Bounds, <1>2 DEF InBounds
    <2> QED BY <1>2, <1>3, <2>1, SlotNumbers DEF length, InBounds
  <1>6. rest = AllocateMemory(f, length, FALSE)
    <2>1. MiddleBytes(f) % Range32 = length
      BY <1>3, <1>5, <1>55, SameMiddle
    <2> QED BY <1>5, <2>1, Zenon DEF AllocateRemainingMemory
  <1>7. /\ rest.allocation = 0 /\ rest.mem \in Memories
        /\ rest.mem.low = f.low + length \div 4 /\ rest.mem.high = f.high
        /\ rest.mem.slots = [f.slots EXCEPT ![0] = [ptr |-> f.low, length |-> length]]
    <2> HIDE DEF rest
    <2> QED BY <1>3, <1>4, <1>5, <1>55, <1>6, LowTaken
  <1>8. /\ mem'.low = mem.high /\ mem'.high = mem.high /\ heap' = 0 /\ mem' \in Memories
        /\ mem'.slots[0].ptr = Ebss /\ mem'.slots[0].length = length
        /\ \A s \in Slots \ {0} : mem'.slots[s] = mem.slots[s]
    <2> HIDE DEF rest
    <2>1. Ebss + length \div 4 = mem.high
      BY <1>2, <1>4, SlotNumbers
    <2>2. mem' = rest.mem /\ heap' = 0
      BY <1>0, <1>7
    <2>3. mem'.slots = [f.slots EXCEPT ![0] = [ptr |-> Ebss, length |-> length]]
      BY <1>3, <1>7, <2>2
    <2>4. f.slots \in [Slots -> [ptr : Int \cup {NULL}, length : Nat]]
      BY <1>3 DEF Memories
    <2>5. /\ mem'.slots[0] = [ptr |-> Ebss, length |-> length]
          /\ \A s \in Slots \ {0} : mem'.slots[s] = f.slots[s]
      BY <2>3, <2>4, SlotNumbers
    <2> QED BY <1>3, <1>7, <2>1, <2>2, <2>5
  <1>9. StackShape'
    BY <1>0, <1>2, <1>8, SlotNumbers DEF StackShape
  <1>10. LowShape'
    BY <1>0, <1>2, <1>4, <1>8, SlotNumbers, LifecycleAssumption DEF LowShape, InHeap
  <1>11. OthersFree' /\ CacheType' /\ SizeType'
    BY <1>0, <1>8 DEF MemInv, OthersFree, CacheType, SizeType
  <1> QED BY <1>0, <1>7, <1>9, <1>10, <1>11 DEF MemInv

\* A flush while a heap is there has no memory to give back.
LEMMA FlushStep == Room /\ NoFaults /\ MemInv /\ (FlushCache \/ ProgramFlushes) => MemInv'
  <1> SUFFICES ASSUME Room, NoFaults, MemInv, FlushCache \/ ProgramFlushes PROVE MemInv'
    OBVIOUS
  <1>1. /\ pc \in InHeap /\ pc' \in InHeap /\ pc # "resize" /\ pc' # "resize" /\ run' = run
        /\ mem' = FlushedMemory(TRUE) /\ heap' = heap /\ stack_alloc' = stack_alloc
        /\ supervisor_cache' = NULL /\ flash_ram_cache' = NULL
        /\ next_stack_size' = next_stack_size /\ current_stack_size' = current_stack_size
    BY DEF FlushCache, ProgramFlushes, Running, NoFaults, FlushOutcomes, CacheAfterFlush, options, InHeap
  <1>2. supervisor_cache = NULL /\ heap = 0
    BY <1>1, SlotNumbers DEF MemInv, LowShape, InHeap
  <1>3. mem' = mem
    BY <1>1, <1>2 DEF FlushedMemory
  <1>4. StackShape'
    BY <1>1, <1>3 DEF MemInv, StackShape
  <1>5. LowShape'
    BY <1>1, <1>2, <1>3 DEF MemInv, LowShape
  <1>6. OthersFree' /\ CacheType' /\ SizeType'
    BY <1>1, <1>3 DEF MemInv, OthersFree, CacheType, SizeType
  <1> QED BY <1>3, <1>4, <1>5, <1>6 DEF MemInv

\* The cache of the flash finds no room beside a heap, and the low end without one.
LEMMA CacheStep ==
  ASSUME Room, MemInv, AllocateRamCache, pc' = pc, run' = run, pc \in {"running", "wait"},
         UNCHANGED <<heap, stack_alloc, current_stack_size, next_stack_size>>
  PROVE  MemInv'
  <1>1. CASE UNCHANGED <<mem, cache>>
    <2>1. flash_ram_cache = "outside" => pc = "wait"
      BY <1>1 DEF MemInv, LowShape
    <2> QED BY <1>1, <2>1, MemKept DEF MemInv, SizeType, cache
  <1>2. CASE ~UNCHANGED <<mem, cache>>
    <2> DEFINE a == AllocateMemory(mem, CacheSize, FALSE)
    <2>1. /\ flash_ram_cache = NULL /\ mem' = a.mem /\ supervisor_cache' = a.allocation
          /\ flash_ram_cache' \in IF a.allocation # NULL THEN {"outside"} ELSE {"heap", NULL}
      BY <1>2 DEF AllocateRamCache
    <2>2. supervisor_cache = NULL
      BY <2>1, LifecycleAssumption DEF MemInv, LowShape
    <2>3. mem \in Memories /\ mem.low \in Int /\ mem.high \in Int /\ mem.low <= mem.high /\ CacheSize \in Nat
      BY LifecycleAssumption DEF MemInv, LowShape, Memories
    <2>4. CASE a = Refused(mem)
      <3>1. mem' = mem /\ supervisor_cache' = NULL /\ flash_ram_cache' \in {"heap", NULL}
        <4>1. a.mem = mem /\ a.allocation = NULL
          <5> HIDE DEF a
          <5> QED BY <2>4 DEF Refused
        <4> QED BY <2>1, <4>1
      <3>2. StackShape'
        BY <3>1 DEF MemInv, StackShape
      <3>3. LowShape'
        BY <2>1, <2>2, <3>1, LifecycleAssumption DEF MemInv, LowShape
      <3>4. OthersFree' /\ CacheType' /\ SizeType'
        BY <3>1 DEF MemInv, OthersFree, CacheType, SizeType
      <3> QED BY <3>1, <3>2, <3>3, <3>4 DEF MemInv
    <2>5. CASE a # Refused(mem)
      <3>1. pc = "wait" /\ heap = NULL
        <4>1. ASSUME pc = "running" PROVE FALSE
          <5>1. heap # NULL /\ mem.low = mem.high
            BY <4>1, SlotNumbers DEF MemInv, LowShape, InHeap
          <5>2. (mem.high - mem.low) * 4 < CacheSize
            BY <2>3, <5>1 DEF Room
          <5>3. MiddleBytes(mem) < Int32(CacheSize)
            BY <2>3, <5>2, Bounds, SameMiddle, SameInt, LifecycleAssumption
          <5>4. a = Refused(mem)
            BY <5>3 DEF AllocateMemory
          <5> QED BY <2>5, <5>4
        <4> QED BY <4>1 DEF MemInv, LowShape, InHeap
      <3>2. mem.slots[0].ptr = NULL /\ mem.low = Ebss
        BY <2>2, <3>1 DEF MemInv, LowShape
      <3>3. /\ (mem.high - mem.low) * 4 >= CacheSize /\ CacheSize % 4 = 0
            /\ a.allocation = 0 /\ a.mem \in Memories
            /\ a.mem.low = mem.low + CacheSize \div 4 /\ a.mem.high = mem.high
            /\ a.mem.slots = [mem.slots EXCEPT ![0] = [ptr |-> mem.low, length |-> CacheSize]]
        <4> HIDE DEF a
        <4>0. CacheSize <= IntMax /\ InBounds(mem)
          BY Bounds, LifecycleAssumption
        <4>1. \/ a = Refused(mem)
              \/ /\ (mem.high - mem.low) * 4 >= CacheSize /\ CacheSize % 4 = 0
                 /\ a.allocation = 0 /\ a.mem \in Memories
                 /\ a.mem.low = mem.low + CacheSize \div 4 /\ a.mem.high = mem.high
                 /\ a.mem.slots = [mem.slots EXCEPT ![0] = [ptr |-> mem.low, length |-> CacheSize]]
          BY <2>3, <3>2, <4>0, LowTaken DEF a
        <4> QED BY <2>5, <4>1
      <3> HIDE DEF a
      <3>4. /\ mem'.low = Ebss + CacheSize \div 4 /\ mem'.high = mem.high
            /\ mem'.low <= mem'.high
            /\ mem'.slots[0].ptr = Ebss /\ mem'.slots[0].length = CacheSize
            /\ \A s \in Slots \ {0} : mem'.slots[s] = mem.slots[s]
            /\ mem' \in Memories
        BY <2>1, <2>3, <3>2, <3>3, SlotNumbers DEF Memories
      <3>5. supervisor_cache' = 0 /\ flash_ram_cache' = "outside"
        BY <2>1, <3>3, SlotNumbers
      <3>6. StackShape'
        BY <3>4, SlotNumbers DEF MemInv, StackShape
      <3>7. LowShape'
        BY <3>1, <3>3, <3>4, <3>5, SlotNumbers DEF MemInv, LowShape, InHeap
      <3>8. OthersFree' /\ CacheType' /\ SizeType'
        BY <3>4, <3>5 DEF MemInv, OthersFree, CacheType, SizeType
      <3> QED BY <3>4, <3>6, <3>7, <3>8 DEF MemInv
    <2> QED BY <2>4, <2>5
  <1> QED BY <1>1, <1>2

\* A heap is given back whole.
LEMMA FreeStep == Room /\ TypeMain /\ MemInv /\ FreeHeap => MemInv'
  <1> SUFFICES ASSUME Room, TypeMain, MemInv, FreeHeap PROVE MemInv'
    OBVIOUS
  <1>1. /\ pc = "free" /\ mem' = FreeMemory(mem, heap) /\ heap' = NULL
        /\ pc' \in {"resize", "wait", "resume"} /\ (pc' = "resize" => run' # "boot")
        /\ stack_alloc' = stack_alloc /\ supervisor_cache' = supervisor_cache
        /\ flash_ram_cache' = flash_ram_cache
        /\ next_stack_size' = next_stack_size /\ current_stack_size' = current_stack_size
    BY DEF FreeHeap, cache, options, TypeMain
  <1>2. /\ heap = 0 /\ supervisor_cache = NULL /\ flash_ram_cache # "outside"
        /\ mem.slots[0].ptr = Ebss /\ mem.low = Ebss + mem.slots[0].length \div 4 /\ mem.low = mem.high
    BY <1>1, SlotNumbers DEF MemInv, LowShape, InHeap
  <1>3. /\ stack_alloc = Top /\ mem.slots[Top].ptr = mem.high /\ Ebss < mem.high
        /\ mem.high + mem.slots[Top].length \div 4 = Estack /\ mem.high \in Int
    BY <1>1, SlotNumbers DEF MemInv, StackShape, Memories
  <1>4. /\ mem' \in Memories /\ mem'.low = Ebss /\ mem'.high = mem.high
        /\ mem'.slots = [mem.slots EXCEPT ![0].ptr = NULL]
    <2>1. mem.slots[0].ptr \in 0..mem.low /\ mem.slots[0].ptr # mem.high
          /\ mem.slots[0].ptr + mem.slots[0].length \div 4 = mem.low
      BY <1>2, <1>3, Bounds, SlotNumbers
    <2> QED BY <1>1, <1>2, <2>1, Bounds, LowFreed DEF MemInv
  <1>5. mem'.slots[0].ptr = NULL /\ \A s \in Slots \ {0} : mem'.slots[s] = mem.slots[s]
    BY <1>4, SlotNumbers DEF MemInv, Memories
  <1>6. StackShape'
    BY <1>1, <1>3, <1>4, <1>5, SlotNumbers DEF StackShape
  <1>7. LowShape'
    BY <1>1, <1>2, <1>3, <1>4, <1>5, SlotNumbers DEF LowShape, InHeap
  <1>8. OthersFree' /\ CacheType' /\ SizeType'
    BY <1>1, <1>5 DEF MemInv, OthersFree, CacheType, SizeType
  <1> QED BY <1>4, <1>6, <1>7, <1>8 DEF MemInv

\* Every step of Next keeps the shape.
LEMMA MemStep ==
  ASSUME Room, NoFaults, ~SafeMode, TypeMain, Places, MemInv, [Next]_vars
  PROVE  MemInv'
  <1>1. CASE StackResize
    BY <1>1, ResizeStep
  <1>2. CASE AllocateHeap
    BY <1>2, HeapStep
  <1>3. CASE FlushCache \/ ProgramFlushes
    BY <1>3, FlushStep
  <1>4. CASE ProgramWrites
    <2>1. pc' = pc /\ run' = run /\ pc = "running"
          /\ UNCHANGED <<heap, stack_alloc, current_stack_size, next_stack_size>> /\ AllocateRamCache
      BY <1>4 DEF ProgramWrites, Running, options
    <2> QED BY <2>1, CacheStep
  <1>5. CASE HostSaves
    <2>1. pc' = pc /\ run' = run /\ pc \in {"running", "wait"}
          /\ UNCHANGED <<heap, stack_alloc, current_stack_size, next_stack_size>> /\ AllocateRamCache
      BY <1>5 DEF HostSaves, options
    <2> QED BY <2>1, CacheStep
  <1>6. CASE FreeHeap
    BY <1>6, FreeStep
  <1>7. CASE \/ StopDelay \/ StopRequest \/ StartHeap \/ Suspend \/ TakePending \/ Raise
             \/ SetNextStackLimit \/ EnableAutoreload \/ DisableAutoreload \/ Reload
             \/ KeyboardInterrupt \/ ProgramEnds
    <2>1. /\ pc \in InHeap /\ pc' \in InHeap /\ pc # "resize" /\ pc' # "resize"
          /\ UNCHANGED <<mem, heap, stack_alloc, cache, current_stack_size>>
          /\ next_stack_size' \in StackLimits \cup {DefaultStack}
      BY <1>7 DEF StopDelay, StopRequest, StartHeap, Suspend, TakePending, Raise, SetNextStackLimit,
                  EnableAutoreload, DisableAutoreload, Reload, KeyboardInterrupt, ProgramEnds,
                  Running, InHeap, memory, options, MemInv, SizeType
    <2>2. flash_ram_cache # "outside"
      BY <2>1 DEF MemInv, LowShape, InHeap
    <2> QED BY <2>1, <2>2, MemKept
  <1>8. CASE Resume \/ CheckReload \/ NoKey \/ Key
    <2>1. /\ pc \in {"resume", "wait", "serial"} /\ pc' \in {"wait", "serial", "resize"}
          /\ pc' = "resize" => run' # "boot"
          /\ UNCHANGED <<mem, heap, stack_alloc, cache, current_stack_size>>
          /\ next_stack_size' \in StackLimits \cup {DefaultStack}
      BY <1>8 DEF Resume, CheckReload, NoKey, Key, RunCode, RunRepl, memory, options, MemInv, SizeType
    <2> QED BY <2>1, MemKept DEF InHeap
  <1>9. CASE Tick \/ UNCHANGED vars
    <2>1. pc' = pc /\ run' = run /\ UNCHANGED <<memory, next_stack_size>>
      BY <1>9 DEF Tick, vars, options
    <2>2. StackShape' /\ LowShape'
      BY <2>1 DEF memory, MemInv, StackShape, LowShape, cache
    <2>3. OthersFree' /\ CacheType' /\ SizeType' /\ (mem \in Memories)'
      BY <2>1 DEF memory, MemInv, OthersFree, CacheType, SizeType, cache
    <2> QED BY <2>2, <2>3 DEF MemInv
  <1> QED
    BY <1>1, <1>2, <1>3, <1>4, <1>5, <1>6, <1>7, <1>8, <1>9 DEF Next, MainStep, Choice

\* The table of allocations has one of four shapes, at every step of the main loop.
THEOREM MemoryInductive ==
  ASSUME Room, NoFaults, ~SafeMode
  PROVE  Spec => []MemInv
  <1>1. Init => MemInv
    BY MemInit
  <1>2. IInv /\ MemInv /\ [Next]_vars => MemInv'
    BY MemStep DEF IInv
  <1>3. OnlyBadReads
    BY DEF NoFaults, OnlyBadReads
  <1> QED BY <1>1, <1>2, <1>3, Inductive, PTL DEF Spec

\* What the shape says of the words: the low end, the middle and the high end.
LEMMA Layout ==
  ASSUME Room, MemInv
  PROVE  /\ mem.low \in Ebss..Estack /\ mem.high \in mem.low..Estack
         /\ Used(mem) \subseteq {0, Top}
         /\ 0 \in Used(mem) => Words(mem, 0) = Ebss..(mem.low - 1)
         /\ 0 \notin Used(mem) => mem.low = Ebss
         /\ Top \in Used(mem) => Words(mem, Top) = mem.high..(Estack - 1)
         /\ Top \notin Used(mem) => mem.high = Estack
  <1>0. mem.low \in Int /\ mem.high \in Int
    BY DEF MemInv, Memories
  <1>1. Used(mem) \subseteq {0, Top}
    BY DEF MemInv, OthersFree, Used
  <1>2. /\ mem.slots[0].length \div 4 \in Nat /\ mem.slots[Top].length \div 4 \in Nat
    BY SlotNumbers DEF MemInv, Memories
  <1>3. \/ 0 \notin Used(mem) /\ mem.low = Ebss
        \/ 0 \in Used(mem) /\ mem.slots[0].ptr = Ebss /\ mem.low = Ebss + mem.slots[0].length \div 4
    BY SlotNumbers DEF MemInv, LowShape, Used
  <1>4. \/ Top \notin Used(mem) /\ mem.high = Estack
        \/ Top \in Used(mem) /\ mem.slots[Top].ptr = mem.high /\ mem.high + mem.slots[Top].length \div 4 = Estack
    BY <1>0, SlotNumbers DEF MemInv, StackShape, Used
  <1>5. mem.low \in Ebss..Estack /\ mem.high \in mem.low..Estack
    BY <1>0, Bounds, SlotNumbers DEF InBounds
  <1>6. 0 \in Used(mem) => Words(mem, 0) = Ebss..(mem.low - 1)
    <2>1. ASSUME 0 \in Used(mem) PROVE mem.slots[0].ptr + mem.slots[0].length \div 4 - 1 = mem.low - 1
      BY <1>0, <1>2, <1>3, <2>1, SlotNumbers
    <2> QED BY <1>3, <2>1 DEF Words
  <1>7. Top \in Used(mem) => Words(mem, Top) = mem.high..(Estack - 1)
    <2>1. ASSUME Top \in Used(mem) PROVE mem.slots[Top].ptr + mem.slots[Top].length \div 4 - 1 = Estack - 1
      BY <1>0, <1>2, <1>4, <2>1, SlotNumbers
    <2> QED BY <1>4, <2>1 DEF Words
  <1> QED BY <1>1, <1>3, <1>4, <1>5, <1>6, <1>7

\* The variables keep their types (autoreload.c:32, main.c:376, memory.c:33).
THEOREM TypeCorrect ==
  ASSUME Room, NoFaults, ~SafeMode
  PROVE  Spec => []TypeOK
  <1>1. IInv /\ MemInv => TypeOK
    <2> SUFFICES ASSUME IInv, MemInv PROVE TypeMemory
      BY DEF IInv, TypeOK
    <2>1. mem.low \in Ebss..Estack /\ mem.high \in Ebss..Estack
      BY Layout, SlotNumbers
    <2>2. heap \in Slots \cup {NULL} /\ stack_alloc \in Slots \cup {NULL}
          /\ supervisor_cache \in Slots \cup {NULL}
      BY SlotNumbers DEF MemInv, StackShape, LowShape
    <2> QED BY <2>1, <2>2 DEF MemInv, CacheType, SizeType, TypeMemory
  <1>2. OnlyBadReads
    BY DEF NoFaults, OnlyBadReads
  <1> QED BY <1>1, <1>2, Inductive, MemoryInductive, PTL

\* No two allocations share a word, nor one with the free middle (memory.c:45, 88),
\* whenever the cache is taken and flushed and whatever limits the programs set, but
\* for those that Room excludes: with a limit near INT32_MAX whose length is of whole
\* words it is false, since memory.c:89 compares the length as a negative number.
THEOREM NothingShared ==
  ASSUME Room, NoFaults, ~SafeMode
  PROVE  Spec => []AllocationsDisjoint
  <1>1. MemInv => AllocationsDisjoint
    <2> SUFFICES ASSUME MemInv PROVE AllocationsDisjoint
      OBVIOUS
    <2>1. \A s \in Used(mem) : Words(mem, s) \subseteq (Ebss..(mem.low - 1)) \cup (mem.high..(Estack - 1))
      BY Layout
    <2>2. (Ebss..(mem.low - 1)) \cap (mem.high..(Estack - 1)) = {}
      BY Layout, SlotNumbers
    <2>3. \A s \in Used(mem) : \A t \in Used(mem) \ {s} : Words(mem, s) \cap Words(mem, t) = {}
      BY Layout, <2>2
    <2>4. Ebss <= mem.low /\ mem.low <= mem.high /\ mem.high <= Estack
      BY Layout, SlotNumbers
    <2> QED BY <2>1, <2>3, <2>4 DEF AllocationsDisjoint
  <1> QED BY <1>1, MemoryInductive, PTL

\* Every word is in an allocation or in the free middle: free_memory gives back
\* neither too little nor too much.  Here no flush fails, and the lengths left in
\* empty slots count for nothing; that they count as they should is checked by TLC.
THEOREM NothingLost ==
  ASSUME Room, NoFaults, ~SafeMode
  PROVE  Spec => []NoWordLost
  <1>1. MemInv => NoWordLost
    <2> SUFFICES ASSUME MemInv PROVE NoWordLost
      OBVIOUS
    <2> DEFINE used == UNION {Words(mem, s) : s \in Used(mem)}
    <2>1. used = (Ebss..(mem.low - 1)) \cup (mem.high..(Estack - 1))
      <3>1. CASE 0 \in Used(mem) /\ Top \in Used(mem)
        <4>1. Used(mem) = {0, Top}
          BY <3>1, Layout
        <4> QED BY <3>1, <4>1, Layout
      <3>2. CASE 0 \in Used(mem) /\ Top \notin Used(mem)
        <4>1. Used(mem) = {0} /\ mem.high..(Estack - 1) = {}
          BY <3>2, Layout, SlotNumbers
        <4> QED BY <3>2, <4>1, Layout
      <3>3. CASE 0 \notin Used(mem) /\ Top \in Used(mem)
        <4>1. Used(mem) = {Top} /\ Ebss..(mem.low - 1) = {}
          BY <3>3, Layout, SlotNumbers
        <4> QED BY <3>3, <4>1, Layout
      <3>4. CASE 0 \notin Used(mem) /\ Top \notin Used(mem)
        <4>1. Used(mem) = {} /\ Ebss..(mem.low - 1) = {} /\ mem.high..(Estack - 1) = {}
          BY <3>4, Layout, SlotNumbers
        <4> QED BY <4>1
      <3> QED BY <3>1, <3>2, <3>3, <3>4
    <2>2. (Ebss..(mem.low - 1)) \cup (mem.high..(Estack - 1)) \cup (mem.low..(mem.high - 1)) = Ebss..(Estack - 1)
      BY Layout, SlotNumbers
    <2> QED BY <2>1, <2>2 DEF NoWordLost
  <1> QED BY <1>1, MemoryInductive, PTL

\* stack_resize frees a stack that is there, start_mp finds stack and heap
\* (stack.c:63, main.c:84): the retry with the default size never fails.
THEOREM FreedWasAllocated ==
  ASSUME Room, NoFaults, ~SafeMode
  PROVE  Spec => []OnlyAllocatedFreed
  <1>1. MemInv => OnlyAllocatedFreed
    BY SlotNumbers DEF MemInv, StackShape, LowShape, InHeap, OnlyAllocatedFreed
  <1> QED BY <1>1, MemoryInductive, PTL
=============================================================================

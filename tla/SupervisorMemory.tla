-------------------------- MODULE SupervisorMemory --------------------------
(***************************************************************************)
(* supervisor/shared/memory.c: the RAM between the end of the C variables  *)
(* (_ebss) and the top of the stack (_estack), given out from both ends.   *)
(* low and high are word addresses, lengths are in bytes.  A slot whose    *)
(* ptr is NULL is free; its length is the one of its last allocation.      *)
(***************************************************************************)
EXTENDS Integers, FiniteSets, FiniteSetsExt

CONSTANTS NULL,         \* no pointer
          Ebss, Estack, \* _ebss, _estack, word addresses
          IntMax,       \* INT32_MAX
          AllocCount    \* CIRCUITPY_SUPERVISOR_ALLOC_COUNT

ASSUME MemoryAssumption ==
  /\ Ebss \in Nat /\ Estack \in Nat /\ Ebss < Estack
  /\ IntMax \in Nat /\ 4 * Estack <= IntMax
  /\ AllocCount \in Nat \ {0}
  /\ NULL \notin Int

Slots == 0..(AllocCount - 1)

MemoryInit == [low   |-> Ebss,
               high  |-> Estack,
               slots |-> [s \in Slots |-> [ptr |-> NULL, length |-> 0]]]

Used(mem) == {s \in Slots : mem.slots[s].ptr # NULL}

\* A uint32_t or a difference as an int32_t, and a word address: both wrap.
Range32 == 2 * (IntMax + 1)
Int32(n) == ((n + IntMax + 1) % Range32) - (IntMax + 1)
Address(a) == a % (Range32 \div 4)

\* The bytes between low_address and high_address.
MiddleBytes(mem) == Int32((mem.high - mem.low) * 4)

\* What allocate_memory returns when it cannot allocate, and the memory with it.
Refused(mem) == [mem |-> mem, allocation |-> NULL]

\* A mutant: the room is not tested.
AllocateUnchecked(mem, length, top) ==
  LET free == Slots \ Used(mem)
      slot == IF top THEN Max(free) ELSE Min(free)
      base == IF top THEN Address(mem.high - length \div 4) ELSE mem.low
  IN IF free = {}
       THEN Refused(mem)
       ELSE [mem |-> [mem EXCEPT
                        !.slots[slot] = [ptr |-> base, length |-> length],
                        !.high = IF top THEN base ELSE @,
                        !.low  = IF top THEN @ ELSE Address(base + length \div 4)],
             allocation |-> slot]

\* The room is compared as signed numbers: a length beyond IntMax always fits.
\* From the low end the first free slot is taken, from the high end the last.
AllocateMemory(mem, length, top) ==
  LET free == Slots \ Used(mem)
      slot == IF top THEN Max(free) ELSE Min(free)
      base == IF top THEN Address(mem.high - length \div 4) ELSE mem.low
  IN IF MiddleBytes(mem) < Int32(length) \/ length % 4 # 0 \/ free = {}
       THEN Refused(mem)
       ELSE [mem |-> [mem EXCEPT
                        !.slots[slot] = [ptr |-> base, length |-> length],
                        !.high = IF top THEN base ELSE @,
                        !.low  = IF top THEN @ ELSE Address(base + length \div 4)],
             allocation |-> slot]

AllocateRemainingMemory(mem) ==
  IF mem.low = mem.high THEN Refused(mem)
                        ELSE AllocateMemory(mem, MiddleBytes(mem) % Range32, FALSE)

\* The words the code counts for the free slots after slot s, and before it, as
\* far as the first one in use: the lengths left in them.
FreedWords(mem, free) == MapThenSumSet(LAMBDA t : mem.slots[t].length \div 4, free)
FreedAfter(mem, s) ==
  FreedWords(mem, {t \in Slots : t > s /\ \A u \in Used(mem) : u > s => u > t})
FreedBefore(mem, s) ==
  FreedWords(mem, {t \in Slots : t < s /\ \A u \in Used(mem) : u < s => u < t})

\* A mutant: only the high end gets its memory back.
FreeHighOnly(mem, s) ==
  LET m == mem.slots[s]
  IN [mem EXCEPT !.slots[s].ptr = NULL,
                 !.high = IF m.ptr = mem.high THEN Address(@ + m.length \div 4) ELSE @]

FreeMemory(mem, s) ==
  LET m == mem.slots[s]
      words == m.length \div 4
  IN [mem EXCEPT
        !.slots[s].ptr = NULL,
        !.high = IF m.ptr = mem.high
                   THEN Address(@ + words + FreedAfter(mem, s))
                   ELSE @,
        !.low = IF m.ptr # mem.high /\ Address(m.ptr + words) = mem.low
                  THEN Address(m.ptr - FreedBefore(mem, s))
                  ELSE @]

Words(mem, s) == mem.slots[s].ptr .. (mem.slots[s].ptr + mem.slots[s].length \div 4 - 1)
=============================================================================

--------------------------- MODULE PulseInBuffer ---------------------------
(* The pulses of a PulseIn: how pulsein_interrupt_handler measures them with   *)
(* the millisecond tick and stores them in a ring, and how the main thread     *)
(* takes them out.  Which edges reach the handler is the subject of module EIC; *)
(* here one may reach it at any time, also while the channel is paused:        *)
(* EIC_Handler looks at INTFLAG alone, and runs the handler of a paused channel *)
(* as soon as another one interrupts.  A stretch of code with interrupts       *)
(* disabled is one step.                                                     *)
EXTENDS Integers, Sequences

CONSTANTS
  MaxLen,     \* self->maxlen
  Word16,     \* 2^16, the modulus of self->start
  Word32,     \* 2^32, the modulus of ms_diff and total_diff
  UsPerMs,    \* 1000
  Cap,        \* 0xffff, the longest duration recorded
  LastMs,     \* bound: time stops here
  Untimely,   \* what happens at a bad moment: some of AllUntimely
  NULL

AllUntimely == {"pop_past_end",    \* popleft when an overrun has moved start past the end
                "edge_in_resume"}  \* an edge while resume resets the time of the last one

ASSUME BufferAssumption == MaxLen \in Nat \ {0} /\ Word16 \in Nat /\ MaxLen < Word16
ASSUME NullAssumption == NULL \notin Int
ASSUME TimeAssumption ==
  /\ UsPerMs \in Nat \ {0} /\ LastMs \in Nat
  /\ Word32 \in Nat \ {0} /\ Cap \in 1 .. Word32 - 1
ASSUME UntimelyAssumption == Untimely \subseteq AllUntimely

VARIABLES
  ms, us,           \* current_tick: milliseconds, and microseconds into this one
  buffer,           \* self->buffer
  start,            \* self->start
  len,              \* self->len
  first_edge,       \* self->first_edge
  last_ms, last_us, \* self->last_ms, self->last_us
  errored_too_fast, \* self->errored_too_fast
  at,               \* the next step of the main thread
  value             \* what popleft returned last

time == <<ms, us>>
ring == <<buffer, start, len>>
edge == <<first_edge, last_ms, last_us, errored_too_fast>>
vars == <<time, ring, edge, at, value>>

\* Between operations, past popleft's test of len, and the assignments of resume.
Labels == {"idle", "pop", "res_first", "res_ms", "res_us"}

Slot == 0 .. MaxLen - 1
Duration == 0 .. Cap
Uninitialized == Cap + 1   \* what m_malloc leaves in the buffer

(* common_hal_pulseio_pulsein_construct.                                     *)
Init ==
  /\ ms = 0 /\ us = 1
  /\ buffer = [i \in Slot |-> Uninitialized]
  /\ start = 0 /\ len = 0
  /\ first_edge = TRUE /\ last_ms = 0 /\ last_us = 0
  /\ errored_too_fast = FALSE
  /\ at = "idle" /\ value = 0

Tick ==
  /\ \/ us < UsPerMs /\ us' = us + 1 /\ UNCHANGED ms
     \/ us = UsPerMs /\ ms < LastMs /\ us' = 1 /\ ms' = ms + 1
  /\ UNCHANGED <<ring, edge, at, value>>

----------------------------------------------------------------------------
(* pulsein_interrupt_handler.                                                *)

WholeMsNotBorrowed(ms_diff) == ms_diff * UsPerMs
WholeMs(ms_diff) == IF ms_diff > 1 THEN (ms_diff - 1) * UsPerMs ELSE 0

TotalDiff ==
  LET ms_diff == (ms - last_ms) % Word32 IN
  IF last_us > us THEN (UsPerMs + us - last_us + WholeMs(ms_diff)) % Word32
                  ELSE (us - last_us + ms_diff * UsPerMs) % Word32
Measured == IF TotalDiff < Cap THEN TotalDiff ELSE Cap

StartKept == start
StartMoved == (start + 1) % Word16   \* not modulo MaxLen
NextSlotButOne == (start + len + 1) % MaxLen
NextSlot == (start + len) % MaxLen
EdgeTimed == last_ms' = ms /\ last_us' = us

\* An edge reaches the handler.
EdgeComes == at \in {"res_ms", "res_us"} => "edge_in_resume" \in Untimely

(* The background tasks are late, or were when an earlier edge came.           *)
TooFast ==
  /\ EdgeComes
  /\ errored_too_fast' = TRUE
  /\ UNCHANGED <<time, ring, first_edge, last_ms, last_us, at, value>>

FirstEdge ==
  /\ EdgeComes /\ ~errored_too_fast /\ first_edge
  /\ first_edge' = FALSE
  /\ EdgeTimed
  /\ UNCHANGED <<time, ring, errored_too_fast, at, value>>

RecordPulse ==
  /\ EdgeComes /\ ~errored_too_fast /\ ~first_edge
  /\ buffer' = [buffer EXCEPT ![NextSlot] = Measured]
  /\ \/ len < MaxLen /\ len' = len + 1 /\ UNCHANGED start
     \/ len >= MaxLen /\ start' = StartMoved /\ UNCHANGED len
  /\ EdgeTimed
  /\ UNCHANGED <<time, first_edge, errored_too_fast, at, value>>

----------------------------------------------------------------------------
(* The main thread.  pause only clears the channel's bit of INTENSET.          *)

(* popleft tests len with interrupts enabled, and raises IndexError on 0.     *)
Untested == TRUE
NotEmpty == len # 0
PopTest ==
  /\ at = "idle" /\ NotEmpty
  /\ at' = "pop"
  /\ UNCHANGED <<time, ring, edge, value>>

(* After an overrun start may lie past the end of the buffer: then this reads  *)
(* whatever comes after it.                                                   *)
PopLeft ==
  /\ at = "pop"
  /\ start \in Slot \/ "pop_past_end" \in Untimely
  /\ value' \in IF start \in Slot THEN {buffer[start]} ELSE 0 .. Uninitialized
  /\ start' = (start + 1) % MaxLen
  /\ len' = len - 1
  /\ at' = "idle"
  /\ UNCHANGED <<time, buffer, edge>>

Clear ==
  /\ at = "idle"
  /\ start' = 0 /\ len' = 0
  /\ UNCHANGED <<time, buffer, edge, at, value>>

(* resume forgets the error, sends the trigger pulse, then asks for a first edge. *)
Resume ==
  /\ at = "idle"
  /\ errored_too_fast' = FALSE
  /\ at' = "res_first"
  /\ UNCHANGED <<time, ring, first_edge, last_ms, last_us, value>>

ResumeFirstEdge ==
  /\ at = "res_first"
  /\ first_edge' = TRUE
  /\ at' = "res_ms"
  /\ UNCHANGED <<time, ring, last_ms, last_us, errored_too_fast, value>>

ResumeMs ==
  /\ at = "res_ms"
  /\ last_ms' = 0
  /\ at' = "res_us"
  /\ UNCHANGED <<time, ring, first_edge, last_us, errored_too_fast, value>>

ResumeUs ==
  /\ at = "res_us"
  /\ last_us' = 0
  /\ at' = "idle"
  /\ UNCHANGED <<time, ring, first_edge, last_ms, errored_too_fast, value>>

----------------------------------------------------------------------------
Handler == TooFast \/ FirstEdge \/ RecordPulse
Resuming == Resume \/ ResumeFirstEdge \/ ResumeMs \/ ResumeUs
MainThread == PopTest \/ PopLeft \/ Clear \/ Resuming
Next == Tick \/ Handler \/ MainThread

Spec == Init /\ [][Next]_vars

----------------------------------------------------------------------------
(* What must hold.                                                          *)

(* The state has the shape the code gives it, and popleft has a pulse to take   *)
(* once it has disabled interrupts.                                          *)
TimeType == ms \in 0 .. LastMs /\ us \in 1 .. UsPerMs
RingType ==
  /\ buffer \in [Slot -> 0 .. Uninitialized]
  /\ start \in 0 .. Word16 - 1
  /\ len \in 0 .. MaxLen
EdgeType ==
  /\ first_edge \in BOOLEAN /\ errored_too_fast \in BOOLEAN
  /\ last_ms \in 0 .. LastMs /\ last_us \in 0 .. UsPerMs
PopType ==
  /\ at \in Labels /\ (at = "pop" => len > 0)
  /\ value \in 0 .. Uninitialized
TypeOK == TimeType /\ RingType /\ EdgeType /\ PopType

(* The duration an edge records is the time since the edge before it, up to     *)
(* 0xffff, through the change of units, the borrow and the 32-bit arithmetic:   *)
(* exact for as long as that time fits 32 bits of microseconds.               *)
Elapsed == (ms - last_ms) * UsPerMs + us - last_us
MeasuresElapsed ==
  ~first_edge /\ Elapsed < Word32 => Measured = IF Elapsed < Cap THEN Elapsed ELSE Cap

(* No entry in use, between start and start + len modulo maxlen, is memory that *)
(* was never written: what get_item reads.  (What popleft reads is another      *)
(* matter: it takes start without the modulus.)                               *)
EntriesWritten ==
  \A i \in 0 .. len - 1 : buffer[(start + i) % MaxLen] # Uninitialized

Pulses == [i \in 1 .. len |-> buffer[(start + i - 1) % MaxLen]]
Queue == INSTANCE PulseQueue WITH
  Never <- NULL,
  pulses <- Pulses,
  since <- IF first_edge THEN NULL ELSE last_ms * UsPerMs + last_us,
  now <- ms * UsPerMs + us,
  popped <- value

(* The ring holds the lengths of the last MaxLen pulses in order, however      *)
(* captures, overruns, pops, pauses and errors follow each other, and popleft   *)
(* takes out the oldest of them.                                             *)
KeepsLastPulses == Queue!Spec

----------------------------------------------------------------------------
(* Behind MeasuresElapsed: the last edge is not in the future.  Behind          *)
(* KeepsLastPulses: resume resets the time of an edge that no longer counts.    *)
EdgeBeforeNow ==
  ~first_edge => last_ms < ms \/ (last_ms = ms /\ last_us <= us)
ResumeUndisturbed ==
  at \in {"res_ms", "res_us"} => first_edge \/ "edge_in_resume" \in Untimely
IInv == TypeOK /\ EdgeBeforeNow /\ ResumeUndisturbed
=============================================================================

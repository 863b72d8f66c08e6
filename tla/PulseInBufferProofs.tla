------------------------ MODULE PulseInBufferProofs ------------------------
(* Proofs about module PulseInBuffer, for any buffer length, word sizes, length *)
(* of a millisecond and cap.                                                  *)
EXTENDS PulseInBuffer, TLAPS

USE BufferAssumption, TimeAssumption

(* A remainder is smaller than the modulus.                                   *)
LEMMA Remainder ==
  ASSUME NEW a \in Int, NEW n \in Nat \ {0}
  PROVE  a % n \in 0 .. n - 1
OBVIOUS

(* Up to the modulus, taking the remainder changes nothing.                    *)
LEMMA SmallRemainder ==
  ASSUME NEW n \in Nat \ {0}, NEW a \in 0 .. n - 1
  PROVE  a % n = a
OBVIOUS

(* A number of milliseconds is at most that number of microseconds.            *)
LEMMA MsAsUs ==
  ASSUME NEW n \in Nat \ {0}, NEW a \in Nat
  PROVE  a * n \in Nat /\ a <= a * n
OBVIOUS

(* A recorded duration fits the buffer.                                       *)
LEMMA MeasuredType == IInv => Measured \in Duration
<1> SUFFICES ASSUME IInv PROVE Measured \in Duration
  OBVIOUS
<1>1. TotalDiff \in Nat
  <2> DEFINE d == (ms - last_ms) % Word32
  <2>1. d \in Nat
    BY Remainder DEF IInv, TypeOK, TimeType, EdgeType
  <2>2. WholeMs(d) \in Int /\ d * UsPerMs \in Int
    BY <2>1 DEF WholeMs
  <2>3. /\ UsPerMs + us - last_us + WholeMs(d) \in Int
        /\ us - last_us + d * UsPerMs \in Int
    BY <2>2 DEF IInv, TypeOK, TimeType, EdgeType
  <2>4. /\ (UsPerMs + us - last_us + WholeMs(d)) % Word32 \in Nat
        /\ (us - last_us + d * UsPerMs) % Word32 \in Nat
    BY <2>3
  <2> QED
    BY <2>4 DEF TotalDiff
<1> QED
  BY <1>1 DEF Measured, Duration

(* Time, the ring, the edges and popleft keep their types in every step.       *)
LEMMA TypeStep == IInv /\ [Next]_vars => TypeOK'
<1> SUFFICES ASSUME IInv, [Next]_vars PROVE TypeOK'
  OBVIOUS
<1>0. TimeType /\ RingType /\ EdgeType /\ PopType
  BY DEF IInv, TypeOK
<1>1. CASE Tick
  <2>1. TimeType'
    BY <1>0, <1>1 DEF Tick, TimeType
  <2>2. RingType' /\ EdgeType' /\ PopType'
    BY <1>0, <1>1 DEF Tick, RingType, EdgeType, PopType, ring, edge
  <2> QED
    BY <2>1, <2>2 DEF TypeOK
<1>2. CASE TooFast \/ FirstEdge
  <2>1. EdgeType'
    <3>1. last_ms' \in 0 .. LastMs /\ last_us' \in 0 .. UsPerMs
      BY <1>0, <1>2 DEF TooFast, FirstEdge, EdgeTimed, EdgeType, TimeType
    <3>2. first_edge' \in BOOLEAN /\ errored_too_fast' \in BOOLEAN
      BY <1>0, <1>2, Zenon DEF TooFast, FirstEdge, EdgeType
    <3> QED
      BY <3>1, <3>2 DEF EdgeType
  <2>2. TimeType' /\ RingType' /\ PopType'
    BY <1>0, <1>2 DEF TooFast, FirstEdge, TimeType, RingType, PopType, time, ring
  <2> QED
    BY <2>1, <2>2 DEF TypeOK
<1>8. CASE Resuming
  <2>1. EdgeType'
    <3>1. last_ms' \in 0 .. LastMs /\ last_us' \in 0 .. UsPerMs
      BY <1>0, <1>8 DEF Resuming, Resume, ResumeFirstEdge, ResumeMs, ResumeUs, EdgeType
    <3>2. first_edge' \in BOOLEAN /\ errored_too_fast' \in BOOLEAN
      BY <1>0, <1>8, Zenon DEF Resuming, Resume, ResumeFirstEdge, ResumeMs, ResumeUs, EdgeType
    <3> QED
      BY <3>1, <3>2 DEF EdgeType
  <2>2. UNCHANGED <<time, ring, value>> /\ at' \in Labels \ {"pop"}
    BY <1>8 DEF Resuming, Resume, ResumeFirstEdge, ResumeMs, ResumeUs, Labels
  <2>3. TimeType' /\ RingType' /\ PopType'
    BY <1>0, <2>2 DEF TimeType, RingType, PopType, time, ring
  <2> QED
    BY <2>1, <2>3 DEF TypeOK
<1>3. CASE RecordPulse
  <2>1. RingType' /\ len' >= len
    <3>1. Measured \in 0 .. Uninitialized
      BY MeasuredType DEF Duration, Uninitialized
    <3>2. start + 1 \in Int /\ (start + 1) % Word16 \in 0 .. Word16 - 1
      BY <1>0, Remainder DEF RingType
    <3>3. buffer' \in [Slot -> 0 .. Uninitialized]
      BY <1>0, <1>3, <3>1 DEF RecordPulse, RingType
    <3>4. start' \in 0 .. Word16 - 1 /\ len' \in 0 .. MaxLen /\ len' >= len
      BY <1>0, <1>3, <3>2 DEF RecordPulse, RingType, StartMoved
    <3> QED
      BY <3>3, <3>4 DEF RingType
  <2>2. TimeType' /\ EdgeType'
    BY <1>0, <1>3 DEF RecordPulse, EdgeTimed, TimeType, EdgeType, time
  <2>3. PopType'
    BY <1>0, <1>3, <2>1 DEF RecordPulse, PopType, RingType
  <2> QED
    BY <2>1, <2>2, <2>3 DEF TypeOK
<1>4. CASE PopTest
  BY <1>0, <1>4 DEF PopTest, NotEmpty, TypeOK, TimeType, RingType, EdgeType, PopType, Labels,
    time, ring, edge
<1>5. CASE PopLeft
  <2>1. (start + 1) % MaxLen \in 0 .. MaxLen - 1
    BY <1>0, Remainder DEF RingType
  <2>2. RingType'
    BY <1>0, <1>5, <2>1 DEF PopLeft, RingType, PopType
  <2>3. PopType'
    <3>1. value' \in 0 .. Uninitialized
      BY <1>0, <1>5 DEF PopLeft, RingType
    <3> QED
      BY <1>5, <3>1 DEF PopLeft, PopType, Labels
  <2>4. TimeType' /\ EdgeType'
    BY <1>0, <1>5 DEF PopLeft, TimeType, EdgeType, time, edge
  <2> QED
    BY <2>2, <2>3, <2>4 DEF TypeOK
<1>6. CASE Clear
  BY <1>0, <1>6 DEF Clear, TypeOK, TimeType, RingType, EdgeType, PopType, time, edge
<1>7. CASE UNCHANGED vars
  BY <1>0, <1>7 DEF vars, TypeOK, TimeType, RingType, EdgeType, PopType, time, ring, edge
<1> QED
  BY <1>1, <1>2, <1>3, <1>4, <1>5, <1>6, <1>7, <1>8 DEF Next, Handler, MainThread

(* The last edge is never in the future.                                      *)
LEMMA EdgeStep == IInv /\ [Next]_vars => EdgeBeforeNow'
<1> SUFFICES ASSUME IInv, [Next]_vars, ~first_edge'
             PROVE  last_ms' < ms' \/ (last_ms' = ms' /\ last_us' <= us')
  BY DEF EdgeBeforeNow
<1>0. TimeType /\ EdgeType /\ EdgeBeforeNow
  BY DEF IInv, TypeOK
<1>1. CASE FirstEdge \/ RecordPulse
  <2>1. last_ms' = ms /\ last_us' = us /\ ms' = ms /\ us' = us
    BY <1>1 DEF FirstEdge, RecordPulse, EdgeTimed, time
  <2> QED
    BY <1>0, <2>1 DEF TimeType
<1>2. CASE Tick
  <2>1. (last_ms < ms \/ (last_ms = ms /\ last_us <= us))
    BY <1>0, <1>2 DEF Tick, edge, EdgeBeforeNow
  <2> QED
    BY <1>0, <1>2, <2>1 DEF Tick, edge, TimeType, EdgeType
<1>3. CASE ResumeFirstEdge
  BY <1>3 DEF ResumeFirstEdge
<1>4. CASE ResumeMs \/ ResumeUs
  <2>1. UNCHANGED <<first_edge, ms, us>>
    BY <1>4 DEF ResumeMs, ResumeUs, time
  <2>2. last_ms < ms \/ (last_ms = ms /\ last_us <= us)
    BY <1>0, <2>1 DEF EdgeBeforeNow
  <2>3. CASE ResumeMs
    BY <1>0, <2>1, <2>2, <2>3 DEF ResumeMs, TimeType, EdgeType
  <2>4. CASE ResumeUs
    BY <1>0, <2>1, <2>2, <2>4 DEF ResumeUs, TimeType, EdgeType
  <2> QED
    BY <1>4, <2>3, <2>4
<1>5. CASE TooFast \/ PopTest \/ PopLeft \/ Clear \/ Resume \/ UNCHANGED vars
  <2>1. UNCHANGED <<first_edge, last_ms, last_us, ms, us>>
    BY <1>5 DEF TooFast, PopTest, PopLeft, Clear, Resume, vars, time, edge
  <2> QED
    BY <1>0, <2>1 DEF EdgeBeforeNow
<1> QED
  BY <1>1, <1>2, <1>3, <1>4, <1>5 DEF Next, Handler, MainThread, Resuming

(* resume resets the time of an edge that no longer counts, unless one comes      *)
(* amid it.                                                                   *)
LEMMA ResumeStep == IInv /\ [Next]_vars => ResumeUndisturbed'
<1> SUFFICES ASSUME IInv, [Next]_vars, at' \in {"res_ms", "res_us"}, "edge_in_resume" \notin Untimely
             PROVE  first_edge'
  BY DEF ResumeUndisturbed
<1>1. CASE ResumeFirstEdge
  BY <1>1 DEF ResumeFirstEdge
<1>2. CASE UNCHANGED <<at, first_edge>>
  BY <1>2 DEF IInv, ResumeUndisturbed
<1>3. CASE FirstEdge
  BY <1>3 DEF FirstEdge, EdgeComes
<1>4. CASE ResumeMs
  BY <1>4 DEF ResumeMs, IInv, ResumeUndisturbed
<1>5. CASE PopTest \/ PopLeft \/ Resume \/ ResumeUs
  BY <1>5 DEF PopTest, PopLeft, Resume, ResumeUs
<1>6. CASE Tick \/ TooFast \/ RecordPulse \/ Clear \/ UNCHANGED vars
  BY <1>2, <1>6 DEF Tick, TooFast, RecordPulse, Clear, vars, edge
<1> QED
  BY <1>1, <1>3, <1>4, <1>5, <1>6 DEF Next, Handler, MainThread, Resuming

(* Every reachable state has its types, and its last edge in the past.         *)
THEOREM Inductive == Spec => []IInv
<1>1. Init => IInv
  <2> SUFFICES ASSUME Init PROVE IInv
    OBVIOUS
  <2>1. TimeType /\ RingType
    BY DEF Init, TimeType, RingType, Slot, Uninitialized
  <2>2. first_edge = TRUE /\ errored_too_fast = FALSE /\ at = "idle"
    BY DEF Init
  <2>3. last_ms \in 0 .. LastMs /\ last_us \in 0 .. UsPerMs /\ value \in 0 .. Uninitialized
    BY DEF Init, Uninitialized
  <2> QED
    BY <2>1, <2>2, <2>3 DEF IInv, TypeOK, EdgeType, PopType, Labels, EdgeBeforeNow, ResumeUndisturbed
<1>2. IInv /\ [Next]_vars => IInv'
  BY TypeStep, EdgeStep, ResumeStep DEF IInv
<1> QED
  BY <1>1, <1>2, PTL DEF Spec

(* The arithmetic of pulsein_interrupt_handler is exact while the time between  *)
(* two edges fits 32 bits: neither the borrow of a millisecond nor the            *)
(* remainders change the result.                                              *)
LEMMA Exact == IInv => MeasuresElapsed
<1> SUFFICES ASSUME IInv, ~first_edge, Elapsed < Word32
             PROVE  Measured = IF Elapsed < Cap THEN Elapsed ELSE Cap
  BY DEF MeasuresElapsed
<1> DEFINE d == ms - last_ms
<1>1. /\ d \in Nat /\ us \in 1 .. UsPerMs /\ last_us \in 0 .. UsPerMs
      /\ (last_us > us => d >= 1)
      /\ ms \in Nat /\ last_ms \in Nat
  BY DEF IInv, TypeOK, TimeType, EdgeType, EdgeBeforeNow
<1>2. d * UsPerMs \in Nat /\ d <= d * UsPerMs
  BY <1>1, MsAsUs
<1>3. Elapsed = d * UsPerMs + us - last_us
  BY DEF Elapsed
<1>4. CASE last_us <= us
  <2>1. d % Word32 = d
    BY <1>1, <1>2, <1>3, <1>4, SmallRemainder
  <2>2. us - last_us + d * UsPerMs = Elapsed /\ Elapsed \in 0 .. Word32 - 1
    BY <1>1, <1>2, <1>3, <1>4
  <2>3. TotalDiff = Elapsed
    <3>1. TotalDiff = (us - last_us + (d % Word32) * UsPerMs) % Word32
      BY <1>1, <1>4 DEF TotalDiff
    <3> QED
      BY <2>1, <2>2, <3>1, SmallRemainder
  <2> QED
    BY <2>3 DEF Measured
<1>5. CASE last_us > us
  <2>1. /\ d - 1 \in Nat /\ (d - 1) * UsPerMs \in Nat /\ d - 1 <= (d - 1) * UsPerMs
        /\ (d - 1) * UsPerMs = d * UsPerMs - UsPerMs
    <3>1. d - 1 \in Nat
      BY <1>1, <1>5
    <3>2. (d - 1) * UsPerMs = d * UsPerMs - UsPerMs
      BY <1>1
    <3> QED
      BY <3>1, <3>2, MsAsUs
  <2>2. Elapsed = UsPerMs + us - last_us + (d - 1) * UsPerMs
    BY <1>1, <1>2, <1>3, <2>1
  <2>3. UsPerMs + us - last_us >= 1
    BY <1>1
  <2>4. d \in 0 .. Word32 - 1 /\ Elapsed \in 0 .. Word32 - 1
    BY <1>1, <2>1, <2>2, <2>3
  <2>5. d % Word32 = d
    BY <2>4, SmallRemainder
  <2>6. WholeMs(d) = (d - 1) * UsPerMs
    <3>1. CASE d = 1
      <4>1. (d - 1) * UsPerMs = 0
        BY <3>1
      <4>2. ~(d > 1)
        BY <3>1
      <4> QED
        BY <4>1, <4>2 DEF WholeMs
    <3>2. CASE d > 1
      BY <3>2 DEF WholeMs
    <3>3. d = 1 \/ d > 1
      BY <1>1, <2>1
    <3> QED
      BY <3>1, <3>2, <3>3
  <2>7. TotalDiff = Elapsed
    <3>1. TotalDiff = (UsPerMs + us - last_us + WholeMs(d % Word32)) % Word32
      BY <1>5 DEF TotalDiff
    <3> QED
      BY <2>2, <2>4, <2>5, <2>6, <3>1, SmallRemainder
  <2> QED
    BY <2>7 DEF Measured
<1> QED
  BY <1>1, <1>4, <1>5

(* Every pulse that is recorded, and every one about to be, has its true length  *)
(* up to 0xffff, unless more than 2^32 microseconds went by since the last edge. *)
THEOREM DurationsAreExact == Spec => []MeasuresElapsed
BY Inductive, Exact, PTL

(* The types of the state are those of the code.                              *)
THEOREM TypeCorrect == Spec => []TypeOK
<1>1. IInv => TypeOK
  BY DEF IInv
<1> QED
  BY <1>1, Inductive, PTL
=============================================================================

-------------------------- MODULE PulseQueueProofs --------------------------
(* The ring of a PulseIn implements the queue of the last pulses, for every      *)
(* buffer length that divides the modulus of start.                           *)
EXTENDS PulseInBufferProofs, SequenceTheorems

USE BufferAssumption, TimeAssumption, NullAssumption

(* Why the length has to divide it: an overrun takes start modulo 2^16 and all   *)
(* the rest of the code modulo maxlen.                                        *)
Divides == \E k \in Nat : Word16 = MaxLen * k

----------------------------------------------------------------------------
(* Remainders.                                                               *)

(* An integer is a multiple and its remainder.                                *)
LEMMA Division ==
  ASSUME NEW a \in Int, NEW n \in Nat \ {0}
  PROVE  \E q \in Int : a = n * q + (a % n) /\ a % n \in 0 .. n - 1
<1>1. a \div n \in Int /\ a = n * (a \div n) + (a % n) /\ a % n \in 0 .. n - 1
  OBVIOUS
<1> QED BY <1>1

(* Between -n and n lies one multiple of n.                                   *)
LEMMA SmallMultiple ==
  ASSUME NEW n \in Nat \ {0}, NEW q \in Int, n * q < n, n * q > -n
  PROVE  q = 0
<1>1. CASE q >= 1
  <2>1. n * (q - 1) >= 0
    BY <1>1
  <2> QED BY <2>1
<1>2. CASE q <= -1
  <2>1. n * (-q - 1) >= 0
    BY <1>2
  <2> QED BY <2>1
<1> QED BY <1>1, <1>2

(* Integers a multiple of n apart have the same remainder,                     *)
LEMMA SameRemainder ==
  ASSUME NEW n \in Nat \ {0}, NEW a \in Int, NEW b \in Int, NEW q \in Int, a = b + n * q
  PROVE  a % n = b % n
<1>1. PICK p \in Int : a = n * p + (a % n) /\ a % n \in 0 .. n - 1
  BY Division
<1>2. PICK r \in Int : b = n * r + (b % n) /\ b % n \in 0 .. n - 1
  BY Division
<1> DEFINE np == n * p
           nr == n * r
           nq == n * q
<1>3. n * (p - r - q) = np - nr - nq
  OBVIOUS
<1>4. np \in Int /\ nr \in Int /\ nq \in Int /\ a = np + (a % n) /\ b = nr + (b % n) /\ a = b + nq
  BY <1>1, <1>2
<1> HIDE DEF np, nr, nq
<1>5. np - nr - nq = (b % n) - (a % n)
  BY <1>1, <1>2, <1>4
<1>6. p - r - q = 0
  BY <1>1, <1>2, <1>3, <1>5, SmallMultiple
<1>7. n * 0 = 0
  OBVIOUS
<1> QED BY <1>1, <1>2, <1>3, <1>5, <1>6, <1>7

(* and integers less than n apart have different ones.                         *)
LEMMA OtherRemainder ==
  ASSUME NEW n \in Nat \ {0}, NEW a \in Int, NEW b \in Int, a < b, b - a < n
  PROVE  a % n # b % n
<1> SUFFICES ASSUME a % n = b % n PROVE FALSE
  OBVIOUS
<1>1. PICK p \in Int : a = n * p + (a % n) /\ a % n \in 0 .. n - 1
  BY Division
<1>2. PICK r \in Int : b = n * r + (b % n) /\ b % n \in 0 .. n - 1
  BY Division
<1>3. r - p \in Int /\ n * (r - p) = b - a
  BY <1>1, <1>2
<1>4. r - p = 0
  BY <1>3, SmallMultiple
<1> QED BY <1>3, <1>4

(* start may be taken modulo maxlen at any time,                              *)
LEMMA ReducedStart ==
  ASSUME NEW s \in Int, NEW j \in Int
  PROVE  ((s % MaxLen) + j) % MaxLen = (s + j) % MaxLen
<1>1. PICK q \in Int : s = MaxLen * q + (s % MaxLen) /\ s % MaxLen \in 0 .. MaxLen - 1
  BY Division
<1>2. s + j = ((s % MaxLen) + j) + MaxLen * q
  BY <1>1
<1>3. s + j \in Int /\ (s % MaxLen) + j \in Int
  BY <1>1
<1> QED BY <1>2, <1>3, SameRemainder

(* and, if maxlen divides it, modulo 2^16.                                    *)
LEMMA WrappedStart ==
  ASSUME Divides, NEW s \in Int, NEW j \in Int
  PROVE  ((s % Word16) + j) % MaxLen = (s + j) % MaxLen
<1>0. Word16 \in Nat \ {0}
  OBVIOUS
<1>1. PICK k \in Nat : Word16 = MaxLen * k
  BY DEF Divides
<1>2. PICK q \in Int : s = Word16 * q + (s % Word16) /\ s % Word16 \in 0 .. Word16 - 1
  BY <1>0, Division
<1>3. k * q \in Int /\ s + j = ((s % Word16) + j) + MaxLen * (k * q)
  <2>1. (MaxLen * k) * q = MaxLen * (k * q)
    OBVIOUS
  <2> QED BY <1>1, <1>2, <2>1
<1>4. s + j \in Int /\ (s % Word16) + j \in Int
  BY <1>2
<1> QED BY <1>3, <1>4, SameRemainder

----------------------------------------------------------------------------
(* Sequences as functions.                                                    *)

LEMMA SeqIs ==
  ASSUME NEW S, NEW s \in Seq(S)
  PROVE  s = [i \in 1 .. Len(s) |-> s[i]]
<1>1. s \in [1 .. Len(s) -> S]
  BY LenProperties
<1> QED BY <1>1

LEMMA TailIs ==
  ASSUME NEW S, NEW s \in Seq(S), Len(s) > 0
  PROVE  s # <<>> /\ Tail(s) = [i \in 1 .. Len(s) - 1 |-> s[i + 1]]
<1>1. s # <<>> /\ Len(s) \in Nat
  BY EmptySeq, LenProperties
<1>2. /\ Tail(s) \in Seq(S) /\ Len(Tail(s)) = Len(s) - 1
      /\ \A i \in 1 .. Len(s) - 1 : Tail(s)[i] = s[i + 1]
  BY <1>1, HeadTailProperties
<1>3. Tail(s) = [i \in 1 .. Len(s) - 1 |-> Tail(s)[i]]
  BY <1>2, SeqIs
<1> QED BY <1>1, <1>2, <1>3

LEMMA AppendIs ==
  ASSUME NEW S, NEW s \in Seq(S), NEW e \in S
  PROVE  /\ Append(s, e) \in Seq(S) /\ Len(Append(s, e)) = Len(s) + 1
         /\ \A i \in 1 .. Len(s) : Append(s, e)[i] = s[i]
         /\ Append(s, e)[Len(s) + 1] = e
BY AppendProperties

----------------------------------------------------------------------------
(* The pulses in the ring, as a sequence.                                     *)
Value == 0 .. Uninitialized

LEMMA PulsesAre ==
  ASSUME RingType
  PROVE  /\ Pulses \in Seq(Value) /\ Len(Pulses) = len
         /\ \A i \in 1 .. len : Pulses[i] = buffer[(start + i - 1) % MaxLen]
         /\ \A i \in Int : (start + i) % MaxLen \in Slot
<1>1. \A i \in Int : (start + i) % MaxLen \in Slot
  BY Remainder DEF RingType, Slot
<1>2. \A i \in 1 .. len : (start + i - 1) % MaxLen \in Slot
  <2> SUFFICES ASSUME NEW i \in 1 .. len PROVE (start + i - 1) % MaxLen \in Slot
    OBVIOUS
  <2>1. i - 1 \in Int /\ start + (i - 1) = start + i - 1
    BY DEF RingType
  <2> QED BY <1>1, <2>1
<1>3. Pulses \in [1 .. len -> Value]
  BY <1>2 DEF Pulses, RingType, Value
<1>4. len \in Nat
  BY DEF RingType
<1>5. Pulses \in Seq(Value)
  BY <1>3, <1>4, IsASeq
<1>6. Len(Pulses) = len
  BY <1>3, <1>4, <1>5, LenProperties
<1> QED BY <1>1, <1>5, <1>6 DEF Pulses

(* An edge that finds room writes behind the pulses in the ring,               *)
LEMMA RoomStep ==
  ASSUME RingType, Measured \in Duration, RecordPulse, len < MaxLen
  PROVE  Pulses' = Append(Pulses, Measured)
<1>1. /\ len' = len + 1 /\ start' = start
      /\ buffer' = [buffer EXCEPT ![(start + len) % MaxLen] = Measured]
  BY DEF RecordPulse, NextSlot, RingType
<1>2. Pulses' = [i \in 1 .. len + 1 |-> buffer'[(start + i - 1) % MaxLen]]
  BY <1>1 DEF Pulses
<1> DEFINE new == Append(Pulses, Measured)
<1>0. Measured \in Value /\ Pulses \in Seq(Value) /\ Len(Pulses) = len
  BY PulsesAre DEF Duration, Value, Uninitialized
<1>3. /\ new \in Seq(Value) /\ Len(new) = len + 1
      /\ \A i \in 1 .. len : new[i] = Pulses[i]
      /\ new[len + 1] = Measured
  BY <1>0, AppendIs
<1> HIDE DEF new
<1>4. new = [i \in 1 .. len + 1 |-> new[i]]
  BY <1>3, SeqIs
<1>5. ASSUME NEW i \in 1 .. len + 1
      PROVE  buffer'[(start + i - 1) % MaxLen] = new[i]
  <2>1. start \in Int /\ len \in Nat /\ len < MaxLen /\ buffer \in [Slot -> Value]
    BY DEF RingType, Value
  <2>2. CASE i = len + 1
    <3>0. start + i - 1 = start + len /\ len \in Int
      BY <2>1, <2>2
    <3>1. (start + len) % MaxLen \in Slot
      BY <3>0, PulsesAre
    <3>2. buffer'[(start + len) % MaxLen] = Measured
      BY <1>1, <2>1, <3>1
    <3> QED BY <1>3, <2>2, <3>0, <3>2
  <2>3. CASE i \in 1 .. len
    <3>1. (start + i - 1) % MaxLen # (start + len) % MaxLen
      <4>1. start + i - 1 < start + len /\ (start + len) - (start + i - 1) < MaxLen
        BY <2>1, <2>3
      <4>2. start + i - 1 \in Int /\ start + len \in Int
        BY <2>1
      <4> QED BY <4>1, <4>2, OtherRemainder
    <3>2. (start + i - 1) % MaxLen \in Slot
      <4>1. start + (i - 1) = start + i - 1 /\ i - 1 \in Int
        BY <2>1
      <4> QED BY <4>1, PulsesAre
    <3>3. buffer'[(start + i - 1) % MaxLen] = buffer[(start + i - 1) % MaxLen]
      BY <1>1, <2>1, <3>1, <3>2
    <3>4. buffer[(start + i - 1) % MaxLen] = Pulses[i]
      BY <2>3, PulsesAre
    <3> QED BY <1>3, <2>3, <3>3, <3>4
  <2> QED BY <2>1, <2>2, <2>3
<1>6. Pulses' = new
  BY <1>2, <1>4, <1>5
<1> QED BY <1>6 DEF new

(* an overrun writes over the oldest of them and makes the next one the oldest. *)
LEMMA OverrunStep ==
  ASSUME Divides, RingType, Measured \in Duration, RecordPulse, len >= MaxLen
  PROVE  Pulses' = Tail(Append(Pulses, Measured))
<1>1. /\ len = MaxLen /\ len' = len /\ start' = (start + 1) % Word16
      /\ buffer' = [buffer EXCEPT ![(start + len) % MaxLen] = Measured]
  BY DEF RecordPulse, NextSlot, StartMoved, RingType
<1>2. Pulses' = [i \in 1 .. MaxLen |-> buffer'[(start' + i - 1) % MaxLen]]
  BY <1>1 DEF Pulses
<1> DEFINE new == Append(Pulses, Measured)
<1>0. Measured \in Value /\ Pulses \in Seq(Value) /\ Len(Pulses) = MaxLen
  BY <1>1, PulsesAre DEF Duration, Value, Uninitialized
<1>3. /\ new \in Seq(Value) /\ Len(new) = MaxLen + 1
      /\ \A i \in 1 .. MaxLen : new[i] = Pulses[i]
      /\ new[MaxLen + 1] = Measured
  BY <1>0, AppendIs
<1> HIDE DEF new
<1>4. Tail(new) = [i \in 1 .. MaxLen |-> new[i + 1]]
  <2>1. MaxLen + 1 > 0 /\ (MaxLen + 1) - 1 = MaxLen
    OBVIOUS
  <2> QED BY <1>3, <2>1, TailIs
<1>5. ASSUME NEW i \in 1 .. MaxLen
      PROVE  buffer'[(start' + i - 1) % MaxLen] = new[i + 1]
  <2>1. start \in Int /\ buffer \in [Slot -> Value]
    BY DEF RingType, Value
  <2>2. (start' + i - 1) % MaxLen = (start + i) % MaxLen
    <3>1. start + 1 \in Int /\ i - 1 \in Int /\ (start + 1) % Word16 \in Int
      BY <2>1, Remainder
    <3>2. (((start + 1) % Word16) + (i - 1)) % MaxLen = ((start + 1) + (i - 1)) % MaxLen
      BY <3>1, WrappedStart
    <3>3. ((start + 1) % Word16) + (i - 1) = start' + i - 1
      BY <1>1, <3>1
    <3>4. (start + 1) + (i - 1) = start + i
      BY <2>1
    <3> QED BY <3>2, <3>3, <3>4
  <2>3. (start + i) % MaxLen \in Slot
    BY PulsesAre
  <2>4. CASE i = MaxLen
    BY <1>1, <1>3, <2>1, <2>2, <2>3, <2>4
  <2>5. CASE i # MaxLen
    <3>1. (start + i) % MaxLen # (start + len) % MaxLen
      <4>1. start + i < start + len /\ (start + len) - (start + i) < MaxLen
        BY <1>1, <2>1, <2>5
      <4>2. start + i \in Int /\ start + len \in Int
        BY <1>1, <2>1
      <4> QED BY <4>1, <4>2, OtherRemainder
    <3>2. Pulses[i + 1] = buffer[(start + i) % MaxLen]
      <4>1. i + 1 \in 1 .. len /\ start + (i + 1) - 1 = start + i
        BY <1>1, <2>1, <2>5
      <4> QED BY <4>1, PulsesAre
    <3>3. new[i + 1] = Pulses[i + 1]
      <4>1. i + 1 \in 1 .. MaxLen
        BY <2>5
      <4> QED BY <1>3, <4>1
    <3> QED BY <1>1, <2>1, <2>2, <2>3, <3>1, <3>2, <3>3
  <2> QED BY <2>4, <2>5
<1>6. Pulses' = Tail(new)
  BY <1>2, <1>4, <1>5
<1> QED BY <1>6 DEF new

(* popleft takes out the oldest pulse, and makes the next one the oldest.        *)
LEMMA PopStep ==
  ASSUME RingType, PopLeft, len > 0, Untimely = {}
  PROVE  Pulses # <<>> /\ Pulses' = Tail(Pulses) /\ value' = Head(Pulses)
<1>1. len' = len - 1 /\ start' = (start + 1) % MaxLen /\ buffer' = buffer
  BY DEF PopLeft
<1>2. Pulses' = [i \in 1 .. len - 1 |-> buffer[(start' + i - 1) % MaxLen]]
  BY <1>1 DEF Pulses
<1>3. Pulses \in Seq(Value) /\ Len(Pulses) = len
  BY PulsesAre
<1>4. Pulses # <<>> /\ Tail(Pulses) = [i \in 1 .. len - 1 |-> Pulses[i + 1]]
  BY <1>3, TailIs
<1>5. ASSUME NEW i \in 1 .. len - 1
      PROVE  buffer[(start' + i - 1) % MaxLen] = Pulses[i + 1]
  <2>1. start \in Int /\ len \in Nat
    BY DEF RingType
  <2>2. start + 1 \in Int /\ i - 1 \in Int /\ (start + 1) % MaxLen \in Int
    BY <2>1, Remainder
  <2>3. (((start + 1) % MaxLen) + (i - 1)) % MaxLen = ((start + 1) + (i - 1)) % MaxLen
    BY <2>2, ReducedStart
  <2>4. ((start + 1) % MaxLen) + (i - 1) = start' + i - 1
    BY <1>1, <2>2
  <2>5. (start + 1) + (i - 1) = start + i /\ start + (i + 1) - 1 = start + i /\ i + 1 \in 1 .. len
    BY <2>1
  <2> QED BY <2>3, <2>4, <2>5, PulsesAre
<1>6. value' = Head(Pulses)
  <2>1. start \in Slot /\ value' = buffer[start]
    BY DEF PopLeft
  <2>2. 1 \in 1 .. len /\ start + 1 - 1 = start
    BY DEF RingType
  <2>3. start % MaxLen = start
    BY <2>1, SmallRemainder DEF Slot
  <2>4. Pulses[1] = buffer[start]
    BY <2>2, <2>3, PulsesAre
  <2>5. Head(Pulses) = Pulses[1]
    OBVIOUS
  <2> QED BY <2>1, <2>4, <2>5
<1> QED BY <1>2, <1>3, <1>4, <1>5, <1>6

----------------------------------------------------------------------------
(* No slot in use was left unwritten.                                         *)

(* A full ring uses every slot,                                               *)
LEMMA FullRing ==
  ASSUME RingType, len = MaxLen, EntriesWritten
  PROVE  \A s \in Slot : buffer[s] # Uninitialized
<1> SUFFICES ASSUME NEW s \in Slot PROVE buffer[s] # Uninitialized
  OBVIOUS
<1> DEFINE i == (s - start) % MaxLen
<1>1. start \in Int /\ s \in Int /\ s - start \in Int
  BY DEF RingType, Slot
<1>2. i \in 0 .. MaxLen - 1
  BY <1>1, Remainder
<1>3. (i + start) % MaxLen = ((s - start) + start) % MaxLen
  BY <1>1, ReducedStart
<1>4. (s - start) + start = s /\ i + start = start + i
  BY <1>1, <1>2
<1>5. s % MaxLen = s
  BY SmallRemainder DEF Slot
<1>6. (start + i) % MaxLen = s
  BY <1>3, <1>4, <1>5
<1> QED BY <1>2, <1>6 DEF EntriesWritten

(* so an overrun finds nothing unwritten, and an edge that finds room writes the  *)
(* slot that it takes into use.                                               *)
LEMMA WrittenStep == IInv /\ EntriesWritten /\ [Next]_vars => EntriesWritten'
<1> SUFFICES ASSUME IInv, EntriesWritten, [Next]_vars PROVE EntriesWritten'
  OBVIOUS
<1>0. RingType /\ PopType /\ RingType'
  BY TypeStep DEF IInv, TypeOK
<1>1. ASSUME RecordPulse PROVE EntriesWritten'
  <2>1. Measured \in Duration /\ Measured # Uninitialized
    BY MeasuredType DEF Duration, Uninitialized
  <2>2. buffer' = [buffer EXCEPT ![(start + len) % MaxLen] = Measured]
    BY <1>1 DEF RecordPulse, NextSlot
  <2>3. \A s \in Slot : buffer[s] # Uninitialized => buffer'[s] # Uninitialized
    BY <1>0, <2>1, <2>2 DEF RingType
  <2>4. CASE len < MaxLen
    <3>1. len' = len + 1 /\ start' = start
      BY <1>0, <1>1, <2>4 DEF RecordPulse, RingType
    <3> SUFFICES ASSUME NEW i \in 0 .. len PROVE buffer'[(start + i) % MaxLen] # Uninitialized
      BY <1>0, <3>1 DEF EntriesWritten, RingType
    <3>2. start \in Int /\ i \in Int
      BY <1>0 DEF RingType
    <3>3. (start + i) % MaxLen \in Slot
      BY <1>0, <3>2, PulsesAre
    <3>4. CASE i = len
      BY <1>0, <2>1, <2>2, <3>3, <3>4 DEF RingType
    <3>5. CASE i # len
      <4>1. i \in 0 .. len - 1
        BY <1>0, <3>5 DEF RingType
      <4> QED BY <2>3, <3>3, <4>1 DEF EntriesWritten
    <3> QED BY <3>4, <3>5
  <2>5. CASE len = MaxLen
    <3>1. \A s \in Slot : buffer'[s] # Uninitialized
      BY <1>0, <2>3, <2>5, FullRing
    <3>2. \A i \in Int : (start' + i) % MaxLen \in Slot
      <4>1. start' \in Int
        BY <1>0 DEF RingType
      <4>2. \A i \in Int : start' + i \in Int
        BY <4>1
      <4> QED BY <4>2, Remainder DEF Slot
    <3> QED BY <3>1, <3>2 DEF EntriesWritten
  <2> QED BY <1>0, <2>4, <2>5 DEF RingType
<1>2. ASSUME PopLeft PROVE EntriesWritten'
  <2>1. len' = len - 1 /\ start' = (start + 1) % MaxLen /\ buffer' = buffer
    BY <1>2 DEF PopLeft
  <2>0. len' - 1 = len - 2
    BY <1>0, <2>1 DEF RingType
  <2> SUFFICES ASSUME NEW i \in 0 .. len - 2 PROVE buffer[(start' + i) % MaxLen] # Uninitialized
    BY <2>0, <2>1 DEF EntriesWritten
  <2>2. start \in Int /\ start + 1 \in Int /\ i \in Int
    BY <1>0 DEF RingType
  <2>3. (start' + i) % MaxLen = ((start + 1) + i) % MaxLen
    BY <2>1, <2>2, ReducedStart
  <2>4. (start + 1) + i = start + (i + 1) /\ i + 1 \in 0 .. len - 1
    BY <1>0, <2>2 DEF RingType
  <2> QED BY <2>3, <2>4 DEF EntriesWritten
<1>3. ASSUME Clear PROVE EntriesWritten'
  BY <1>3 DEF Clear, EntriesWritten
<1>4. ASSUME UNCHANGED ring PROVE EntriesWritten'
  BY <1>4 DEF ring, EntriesWritten
<1>5. ASSUME Tick \/ TooFast \/ FirstEdge \/ PopTest \/ Resuming \/ UNCHANGED vars
      PROVE  UNCHANGED ring
  BY <1>5 DEF Tick, TooFast, FirstEdge, PopTest, Resuming, Resume, ResumeFirstEdge,
              ResumeMs, ResumeUs, vars
<1> QED
  BY <1>1, <1>2, <1>3, <1>4, <1>5 DEF Next, Handler, MainThread

(* Between start and start + len modulo maxlen the ring holds only lengths that     *)
(* were recorded, whatever the length of the buffer: start moves past the end of  *)
(* it only once all of it is written.  (popleft reads at start itself, and then    *)
(* beyond the end: that is not about the ring.)                                *)
THEOREM EntriesAreWritten == Spec => []EntriesWritten
<1>1. Init => EntriesWritten
  BY DEF Init, EntriesWritten
<1>2. IInv /\ EntriesWritten /\ [Next]_vars => EntriesWritten'
  BY WrittenStep
<1> QED
  BY <1>1, <1>2, Inductive, PTL DEF Spec

----------------------------------------------------------------------------
(* The ring is the queue of the last pulses.                                   *)

(* No two edges lie 2^32 microseconds apart, an hour and eleven minutes.          *)
EdgesClose == RecordPulse => Elapsed < Word32

Since == IF first_edge THEN NULL ELSE last_ms * UsPerMs + last_us
Now == ms * UsPerMs + us

LEMMA TimesAreNumbers ==
  ASSUME TimeType, EdgeType
  PROVE  Now \in Nat /\ last_ms * UsPerMs + last_us \in Int /\ last_ms * UsPerMs + last_us # NULL
<1>1. ms * UsPerMs \in Nat /\ last_ms * UsPerMs \in Nat
  BY DEF TimeType, EdgeType
<1> QED BY <1>1 DEF Now, TimeType, EdgeType

LEMMA QueueInit == Init => Queue!Init
<1> SUFFICES ASSUME Init PROVE Queue!Init
  OBVIOUS
<1>1. Pulses = <<>>
  BY DEF Init, Pulses
<1>2. Since = NULL
  BY DEF Init, Since
<1>3. Now \in Nat
  BY DEF Init, Now
<1> QED BY <1>1, <1>2, <1>3 DEF Queue!Init, Since, Now

LEMMA QueueStep ==
  ASSUME Divides, Untimely = {}, IInv, [Next]_vars, EdgesClose
  PROVE  Queue!Next \/ UNCHANGED <<Pulses, Since, Now, value>>
<1>0. TimeType /\ RingType /\ EdgeType /\ PopType
  BY DEF IInv, TypeOK
<1>1. ASSUME UNCHANGED ring PROVE Pulses' = Pulses
  BY <1>1 DEF ring, Pulses
<1>2. ASSUME UNCHANGED <<first_edge, last_ms, last_us>> PROVE Since' = Since
  BY <1>2 DEF Since
<1>3. ASSUME UNCHANGED time PROVE Now' = Now
  BY <1>3 DEF time, Now
<1>4. CASE Tick
  <2>1. Pulses' = Pulses /\ Since' = Since /\ value' = value
    BY <1>1, <1>2, <1>4 DEF Tick, edge
  <2>2. Now' > Now
    <3>1. CASE us' = us + 1 /\ ms' = ms
      <4>1. ms * UsPerMs \in Nat
        BY <1>0 DEF TimeType
      <4> QED BY <1>0, <3>1, <4>1 DEF TimeType, Now
    <3>2. CASE us = UsPerMs /\ us' = 1 /\ ms' = ms + 1
      <4>1. ms * UsPerMs \in Nat /\ (ms + 1) * UsPerMs = ms * UsPerMs + UsPerMs
        BY <1>0 DEF TimeType
      <4> QED BY <1>0, <3>2, <4>1 DEF TimeType, Now
    <3> QED BY <1>4, <3>1, <3>2 DEF Tick
  <2> QED BY <2>1, <2>2 DEF Queue!Next, Queue!TimePasses, Since, Now
<1>5. CASE ResumeFirstEdge
  <2>1. Pulses' = Pulses /\ Now' = Now /\ value' = value
    BY <1>1, <1>3, <1>5 DEF ResumeFirstEdge
  <2>2. Since' = NULL
    BY <1>5 DEF ResumeFirstEdge, Since
  <2> QED BY <2>1, <2>2 DEF Queue!Next, Queue!StartAfresh, Since, Now
<1>11. CASE ResumeMs \/ ResumeUs
  <2>1. UNCHANGED <<ring, time, value>> /\ first_edge /\ first_edge'
    BY <1>11 DEF ResumeMs, ResumeUs, IInv, ResumeUndisturbed
  <2> QED BY <1>1, <1>3, <2>1 DEF Since
<1>6. CASE FirstEdge
  <2>1. Pulses' = Pulses /\ Now' = Now /\ Since = NULL /\ value' = value
    BY <1>1, <1>3, <1>6 DEF FirstEdge, Since
  <2>2. Since' = Now
    BY <1>6 DEF FirstEdge, EdgeTimed, Since, Now
  <2> QED BY <2>1, <2>2 DEF Queue!Next, Queue!FirstEdge, Since, Now
<1>7. CASE RecordPulse
  <2>1. Now' = Now /\ Since' = Now /\ value' = value
    BY <1>3, <1>7 DEF RecordPulse, EdgeTimed, Since, Now
  <2>2. Since = last_ms * UsPerMs + last_us /\ Since # NULL
    BY <1>0, <1>7, TimesAreNumbers DEF RecordPulse, Since
  <2>3. Measured = IF Now - Since < Cap THEN Now - Since ELSE Cap
    <3>1. Now - Since = Elapsed
      <4>1. (ms - last_ms) * UsPerMs = ms * UsPerMs - last_ms * UsPerMs
        BY <1>0 DEF TimeType, EdgeType
      <4>2. ms * UsPerMs \in Nat /\ last_ms * UsPerMs \in Nat
        BY <1>0 DEF TimeType, EdgeType
      <4> QED BY <1>0, <2>2, <4>1, <4>2 DEF Now, Elapsed, TimeType, EdgeType
    <3> QED BY <1>7, <3>1, Exact DEF MeasuresElapsed, EdgesClose, RecordPulse
  <2>4. Measured \in Duration /\ Measured \in Value
    BY MeasuredType DEF Duration, Value, Uninitialized
  <2>5. Pulses \in Seq(Value) /\ Len(Pulses) = len
    BY <1>0, PulsesAre
  <2>6. Len(Append(Pulses, Measured)) = len + 1
    BY <2>4, <2>5, AppendIs
  <2>7. Pulses' = Queue!Newest(Append(Pulses, Measured))
    <3>1. CASE len < MaxLen
      <4>1. Pulses' = Append(Pulses, Measured)
        BY <1>0, <1>7, <2>4, <3>1, RoomStep
      <4>2. ~(len + 1 > MaxLen)
        BY <1>0, <3>1 DEF RingType
      <4> QED BY <2>6, <4>1, <4>2 DEF Queue!Newest
    <3>2. CASE len >= MaxLen
      <4>1. Pulses' = Tail(Append(Pulses, Measured))
        BY <1>0, <1>7, <2>4, <3>2, OverrunStep
      <4>2. len + 1 > MaxLen
        BY <1>0, <3>2 DEF RingType
      <4> QED BY <2>6, <4>1, <4>2 DEF Queue!Newest
    <3> QED BY <1>0, <3>1, <3>2 DEF RingType
  <2> QED BY <2>1, <2>2, <2>3, <2>7 DEF Queue!Next, Queue!NextEdge, Queue!Length, Since, Now
<1>8. CASE PopLeft
  <2>1. Pulses # <<>> /\ Pulses' = Tail(Pulses) /\ value' = Head(Pulses)
    BY <1>0, <1>8, PopStep DEF PopLeft, PopType
  <2>2. Since' = Since /\ Now' = Now
    BY <1>2, <1>3, <1>8 DEF PopLeft, edge
  <2> QED BY <2>1, <2>2 DEF Queue!Next, Queue!PopOldest, Since, Now
<1>9. CASE Clear
  <2>1. Pulses' = <<>>
    BY <1>9 DEF Clear, Pulses
  <2>2. Since' = Since /\ Now' = Now /\ value' = value
    BY <1>2, <1>3, <1>9 DEF Clear, edge
  <2> QED BY <2>1, <2>2 DEF Queue!Next, Queue!Forget, Since, Now
<1>10. CASE TooFast \/ PopTest \/ Resume \/ UNCHANGED vars
  <2>1. UNCHANGED <<ring, first_edge, last_ms, last_us, time, value>>
    BY <1>10 DEF TooFast, PopTest, Resume, vars, edge
  <2> QED BY <1>1, <1>2, <1>3, <2>1
<1> QED
  BY <1>4, <1>5, <1>6, <1>7, <1>8, <1>9, <1>10, <1>11 DEF Next, Handler, MainThread, Resuming

(* A PulseIn whose maxlen divides 2^16 holds the lengths of the last maxlen       *)
(* pulses, in the order they came, and popleft takes out the oldest, however      *)
(* captures, overruns, pops, pauses and errors follow each other, provided no two *)
(* edges lie more than 2^32 microseconds apart, no pop comes while an overrun has  *)
(* start past the end of the buffer, and no edge amid the assignments of resume.   *)
THEOREM KeepsPulses ==
  ASSUME Divides, Untimely = {}
  PROVE  Spec /\ [][EdgesClose]_vars => KeepsLastPulses
<1> DEFINE abstract == <<Pulses, Since, Now, value>>
<1>1. Init => Queue!Init
  BY QueueInit
<1>2. IInv /\ [Next]_vars /\ [EdgesClose]_vars => [Queue!Next]_abstract
  <2> SUFFICES ASSUME IInv, [Next]_vars, [EdgesClose]_vars
               PROVE  [Queue!Next]_abstract
    OBVIOUS
  <2>1. CASE EdgesClose
    BY <2>1, QueueStep
  <2>2. CASE UNCHANGED vars
    BY <2>2 DEF vars, time, ring, edge, Pulses, Since, Now
  <2> QED BY <2>1, <2>2
<1>3. Queue!Spec <=> Queue!Init /\ [][Queue!Next]_abstract
  BY DEF Queue!Spec, Since, Now
<1> QED
  BY <1>1, <1>2, <1>3, Inductive, PTL DEF Spec, KeepsLastPulses
=============================================================================

----------------------------- MODULE PulseQueue -----------------------------
(* What pulseio.PulseIn promises a program: the lengths of the last MaxLen     *)
(* pulses in the order they came, oldest first out, where a pulse is what lies *)
(* between two edges served one after the other, and resume() starts afresh.   *)
EXTENDS Integers, Sequences

CONSTANTS
  MaxLen,  \* how many pulses are kept
  Cap,     \* the longest length that is told apart
  Never    \* no edge yet

VARIABLES
  pulses,  \* the lengths kept, oldest first
  since,   \* when the last edge came, Never before the first one
  now,
  popped   \* the pulse that was taken out last

Init == pulses = <<>> /\ since = Never /\ now \in Nat

Length == IF now - since < Cap THEN now - since ELSE Cap
Newest(s) == IF Len(s) > MaxLen THEN Tail(s) ELSE s

FirstEdge == since = Never /\ since' = now /\ UNCHANGED <<pulses, now, popped>>
NextEdge ==
  /\ since # Never
  /\ pulses' = Newest(Append(pulses, Length))
  /\ since' = now
  /\ UNCHANGED <<now, popped>>
StartAfresh == since' = Never /\ UNCHANGED <<pulses, now, popped>>
PopOldest ==
  /\ pulses # <<>>
  /\ popped' = Head(pulses)
  /\ pulses' = Tail(pulses)
  /\ UNCHANGED <<since, now>>
Forget == pulses' = <<>> /\ UNCHANGED <<since, now, popped>>
TimePasses == now' > now /\ UNCHANGED <<pulses, since, popped>>

Next == FirstEdge \/ NextEdge \/ StartAfresh \/ PopOldest \/ Forget \/ TimePasses

Spec == Init /\ [][Next]_<<pulses, since, now, popped>>
=============================================================================

------------------------------- MODULE MCEIC -------------------------------
(* Instances of EIC for TLC: two EXTINT channels and three pins, two of them  *)
(* on one channel (PA04/PB04 and others share a channel on the SAMD21).      *)
EXTENDS EIC, TLC

CONSTANTS a4, a20, d7

MCPin == {a4, a20, d7}
MCSomeExtint == {a4, d7}     \* the third pin has no EXTINT channel
MCChannelOf == [p \in MCPin |-> IF p = d7 THEN 1 ELSE 0]

\* The two pins of one channel are alike.
MCAlike == Permutations({a4, a20})

\* What tells two states of the driver run apart: nothing reads wakeup there, nor
\* what an object that was deinited has in its fields, which a constructor resets.
MCLives(flag) == [o \in PulseIn |-> Live(o) /\ flag[o]]
MCView == <<busclk, enable, config, inten, intflag, nvic, mux, table,
            pinA, pinB, MCLives(first), MCLives(errored), handling, thread>>
=============================================================================

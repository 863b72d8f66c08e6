----------------------------- MODULE ChannelUse -----------------------------
(* What the external interrupt driver promises its clients: a channel has at  *)
(* most one owner, and an owner keeps its channels until they are given back. *)
CONSTANTS Channel, Client, NULL

VARIABLE owner

Init == owner = [c \in Channel |-> NULL]

Take(o, S) ==
  /\ \A c \in S : owner[c] = NULL
  /\ owner' = [c \in Channel |-> IF c \in S THEN o ELSE owner[c]]

GiveBack(c) == owner' = [owner EXCEPT ![c] = NULL]

EndOfProgram == owner' = [c \in Channel |-> NULL]

Next ==
  \/ \E o \in Client, a, b \in Channel : Take(o, {a, b})
  \/ \E c \in Channel : GiveBack(c)
  \/ EndOfProgram

Spec == Init /\ [][Next]_owner
=============================================================================

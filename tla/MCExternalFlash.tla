--------------------------- MODULE MCExternalFlash ---------------------------
(* Instances of ExternalFlash for TLC.                                        *)
EXTENDS ExternalFlash, TLC

\* Sectors, and the contents that are not all ones, are alike.
MCAlike == Permutations(Sector) \cup Permutations(Data \ {Erased})
=============================================================================

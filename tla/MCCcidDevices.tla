--------------------------- MODULE MCCcidDevices ---------------------------
(* CcidDevices on small instances. *)
EXTENDS CcidDevices, TLC

CONSTANTS c1, c2, r1, r2

Symmetry == Permutations(Cards) \cup Permutations(Readers)
=============================================================================

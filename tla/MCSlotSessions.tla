--------------------------- MODULE MCSlotSessions ---------------------------
(* SlotSessions on a small instance. *)
EXTENDS SlotSessions, TLC

Symmetry == Permutations(Slots) \cup Permutations(Threads)
=============================================================================

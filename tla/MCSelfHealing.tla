--------------------------- MODULE MCSelfHealing ---------------------------
(***************************************************************************)
(* SelfHealing for TLC, with as many descriptors as the workers can leave  *)
(* open at once.                                                           *)
(***************************************************************************)
EXTENDS SelfHealing, TLC

Symmetry == Permutations(Workers) \cup Permutations(Fds)
=============================================================================

--------------------------- MODULE MCSharedMutex ----------------------------
(* Instances of SharedMutex for TLC. *)
EXTENDS SharedMutex

Symmetry == Permutations(Ctx)
=============================================================================

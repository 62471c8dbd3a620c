-------------------------------- MODULE MCVm --------------------------------
(* The model values of the TLC runs of Vm. *)
EXTENDS Vm

Symmetry == Permutations(Eval) \cup Permutations(Event \ Sent)
=============================================================================

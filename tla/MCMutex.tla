------------------------------- MODULE MCMutex -------------------------------
(* Instances of Mutex for TLC. *)
EXTENDS Mutex

\* Contexts are alike.
Symmetry == Permutations(Ctx)

\* interrupt() and terminate().
AllSignals == {"INTERRUPTED", "TERMINATED"}
=============================================================================

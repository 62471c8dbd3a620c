------------------------------ MODULE MCContext ------------------------------
(* Instances of Context for TLC. *)
EXTENDS Context

\* Every context but the root is like the others.
Symmetry == Permutations(Ctx \ {Root})

\* Children are terminated by their owner's destructor, wait for it, or own
\* themselves.
AllFlags == {{}, {"WAIT_JOIN"}, {"DETACH"}}
\* Children that the owner's destructor terminates.
PlainFlags == {{}}
=============================================================================

-------------------------------- MODULE List --------------------------------
(***************************************************************************)
(* ircd::ctx::list (src/include/ircd/ctx/list.h, src/ircd/ctx.cc): the     *)
(* intrusive list of the contexts in a dock, here the sequence q from head *)
(* to tail.  The links are members of ctx::ctx, so that a context is in at *)
(* most one place of one list.                                             *)
(***************************************************************************)
EXTENDS Naturals, SequencesExt

\* A bug: the front of the list is taken for the context that leaves it.
UnlinkFront(q, c) == Tail(q)

\* list::remove() of a context that is in the list.
Unlink(q, c) == RemoveAt(q, CHOOSE i \in DOMAIN q : q[i] = c)

\* The front of the list, if there is one.
Foremost(q) == IF q = <<>> THEN {} ELSE {Head(q)}

\* pop_front(), then push_back().
Rotate(q) == IF q = <<>> THEN q ELSE Append(Tail(q), Head(q))
=============================================================================

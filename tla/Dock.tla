-------------------------------- MODULE Dock --------------------------------
(***************************************************************************)
(* ircd::ctx::dock (src/include/ircd/ctx/dock.h, src/ircd/ctx.cc): a       *)
(* condition variable without a mutex.  Its state is the list of the       *)
(* contexts that wait, here the sequence q from head to tail.  A waiter    *)
(* stays in the list when it is notified: it leaves it itself, in   *)
(* the destructor of dock::continuation, when its wait ends.               *)
(***************************************************************************)
EXTENDS Ctx, List

\* notify_one(): the front of the list, which stays where it is.
NotifyOne(x, q) == IF q = <<>> THEN x ELSE Note(x, {Head(q)})

\* A bug: the notification dies with the waiter it was given to.
RenotifyNone(x, q) == x

\* What ~continuation() does when it runs because of an exception: the
\* waiter has left the list, its (possible) notification goes to the next.
Renotify(x, q) == NotifyOne(x, q)

\* Waiting in the list, with a resumption on its way.
Waking(x, q) == \E i \in DOMAIN q : x[q[i]].at \in {"wake", "run"}
=============================================================================

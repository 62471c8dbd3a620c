-------------------------------- MODULE Mutex --------------------------------
(***************************************************************************)
(* ircd::ctx::mutex (src/include/ircd/ctx/mutex.h) over a dock: contexts   *)
(* that lock, try to lock until a deadline, yield inside and outside their *)
(* critical sections, and are interrupted and terminated at any of their   *)
(* suspensions.  A holder releases the mutex with a std::unique_lock, also *)
(* when an exception unwinds it.                                           *)
(***************************************************************************)
EXTENDS Dock

CONSTANTS None,      \* no context
          Signals,   \* the flags others may light: interrupt(), terminate()
          MaxNotes   \* bound on the notes a suspended context accumulates

ASSUME MutexAssumption == /\ None \notin Ctx
                          /\ Signals \subseteq {"INTERRUPTED", "TERMINATED"}
                          /\ MaxNotes \in Nat

VARIABLES cx,       \* the table of module Ctx
          q,        \* mutex::q
          m,        \* mutex::m
          pc,       \* where each context is
          passed    \* the contexts whose deadline has passed

vars == <<cx, q, m, pc, passed>>

(* "out" and "in" the critical section; inside lock() and try_lock_until(). *)
Pc == {"out", "lock", "until", "in"}

Waiters == {c \in Ctx : pc[c] \in {"lock", "until"}}
Current(c) == cx[c].at = "run"

Init == /\ cx = [c \in Ctx |-> [Fresh EXCEPT !.at = "posted"]]
        /\ q = <<>>
        /\ m = None
        /\ pc = [c \in Ctx |-> "out"]
        /\ passed = {}

locked == m # None

-----------------------------------------------------------------------------
(* Operations of the running context.                                      *)

\* The bound: the mutex is taken past notified waiters only so many times.
Bounded == \A c \in Ctx : cx[c].notes <= MaxNotes

\* lock() and try_lock_until(): the predicate is tested before the context
\* queues itself, so a free mutex is taken past those that wait for it.
Acquire(c, how) ==
  /\ Bounded
  /\ Current(c) /\ pc[c] = "out"
  /\ IF ~locked
     THEN /\ m' = c
          /\ pc' = [pc EXCEPT ![c] = "in"]
          /\ UNCHANGED <<cx, q>>
     ELSE /\ q' = Append(q, c)
          /\ cx' = Leave(cx, c)
          /\ pc' = [pc EXCEPT ![c] = how]
          /\ UNCHANGED m
  /\ UNCHANGED passed

Lock(c) == Acquire(c, "lock")
TryLockUntil(c) == Acquire(c, "until")

\* try_lock(), when it succeeds.
TryLock(c) ==
  /\ Bounded
  /\ Current(c) /\ pc[c] = "out"
  /\ ~locked
  /\ m' = c
  /\ pc' = [pc EXCEPT ![c] = "in"]
  /\ UNCHANGED <<cx, q, passed>>

\* A bug: nobody is told.
UnlockSilent(c) ==
  /\ Current(c) /\ pc[c] = "in"
  /\ m' = None
  /\ pc' = [pc EXCEPT ![c] = "out"]
  /\ UNCHANGED <<cx, q, passed>>

Unlock(c) ==
  /\ Current(c) /\ pc[c] = "in"
  /\ m' = None
  /\ cx' = NotifyOne(cx, q)
  /\ pc' = [pc EXCEPT ![c] = "out"]
  /\ UNCHANGED <<q, passed>>

\* The user's code suspends, holding the mutex or not, and will be resumed.
Yield(c) ==
  /\ Current(c) /\ pc[c] \in {"in", "out"}
  /\ cx' = [Leave(cx, c) EXCEPT ![c].at = "wake"]
  /\ UNCHANGED <<q, m, pc, passed>>

\* The context's function returns.
Return(c) ==
  /\ Current(c) /\ pc[c] = "out"
  /\ cx' = End(cx, c)
  /\ UNCHANGED <<q, m, pc, passed>>

-----------------------------------------------------------------------------
(* Resumptions.                                                            *)

\* The table once the interruption point of a resumed context threw:
\* `terminated` unwinds it to the end, `interrupted` is caught.
Unwound(c) ==
  LET x == Throw(Enter(cx, c), c)
  IN IF "TERMINATED" \in cx[c].flags THEN End(x, c) ELSE x

Resumable(c) == NoCurrent(cx) /\ cx[c].at \in {"posted", "wake"}

\* A context that does not wait for the mutex continues.
Resume(c) ==
  /\ Resumable(c) /\ pc[c] \in {"in", "out"}
  /\ ~Interruption(cx[c])
  /\ cx' = Enter(cx, c)
  /\ UNCHANGED <<q, m, pc, passed>>

\* It is unwound, and releases the mutex if it has it.
ResumeUnwind(c) ==
  /\ Resumable(c) /\ pc[c] \in {"in", "out"}
  /\ Interruption(cx[c])
  /\ IF pc[c] = "in"
     THEN m' = None /\ cx' = NotifyOne(Unwound(c), q)
     ELSE cx' = Unwound(c) /\ UNCHANGED m
  /\ pc' = [pc EXCEPT ![c] = "out"]
  /\ UNCHANGED <<q, passed>>

\* A waiter is unwound out of the dock, and passes its notification on.
WaitUnwind(c) ==
  /\ Resumable(c) /\ c \in Waiters
  /\ Interruption(cx[c])
  /\ q' = Unlink(q, c)
  /\ cx' = Renotify(Unwound(c), q')
  /\ pc' = [pc EXCEPT ![c] = "out"]
  /\ passed' = passed \ {c}
  /\ UNCHANGED m

\* A bug: a notification is taken for the mutex.
WaitResumeBlind(c) ==
  /\ Resumable(c) /\ c \in Waiters
  /\ ~Interruption(cx[c])
  /\ m' = c
  /\ pc' = [pc EXCEPT ![c] = "in"]
  /\ q' = Unlink(q, c) /\ passed' = passed \ {c}
  /\ cx' = Enter(cx, c)

\* A waiter tests the predicate, then its deadline, or suspends again.
WaitResume(c) ==
  /\ Resumable(c) /\ c \in Waiters
  /\ ~Interruption(cx[c])
  /\ \/ /\ ~locked
        /\ m' = c
        /\ pc' = [pc EXCEPT ![c] = "in"]
        /\ q' = Unlink(q, c) /\ passed' = passed \ {c}
        /\ cx' = Enter(cx, c)
     \/ /\ locked /\ c \in passed
        /\ pc' = [pc EXCEPT ![c] = "out"]
        /\ q' = Unlink(q, c) /\ passed' = passed \ {c}
        /\ cx' = Enter(cx, c)
        /\ UNCHANGED m
     \/ /\ locked /\ c \notin passed
        /\ cx' = Leave(cx, c)
        /\ UNCHANGED <<q, m, pc, passed>>

-----------------------------------------------------------------------------
(* The environment.                                                        *)

\* The deadline of try_lock_until() passes: the alarm returns by itself.
Deadline(c) ==
  /\ pc[c] = "until" /\ c \notin passed
  /\ passed' = passed \cup {c}
  /\ cx' = [cx EXCEPT ![c].at = Cancelled(@)]
  /\ UNCHANGED <<q, m, pc>>

\* Someone lights a flag of a context that is suspended.
Signal(c) ==
  /\ Suspended(cx, c)
  /\ \E f \in Signals : cx' = Flagged(cx, c, f)
  /\ UNCHANGED <<q, m, pc, passed>>

Step(c) == \/ Lock(c) \/ TryLockUntil(c) \/ TryLock(c) \/ Unlock(c)
           \/ Yield(c) \/ Return(c)
Resumption(c) == Resume(c) \/ ResumeUnwind(c) \/ WaitUnwind(c) \/ WaitResume(c)

Next == \E c \in Ctx : Step(c) \/ Resumption(c) \/ Deadline(c) \/ Signal(c)

Spec == Init /\ [][Next]_vars

-----------------------------------------------------------------------------
(* Fairness.  Handlers in the ios queue run in order, each eventually; a    *)
(* context that runs goes on.  Nothing obliges a deadline to pass, a signal *)
(* to be sent or, between critical sections, a context to lock again.       *)
Fairness == \A c \in Ctx : WF_vars(Step(c)) /\ SF_vars(Resumption(c))

FairSpec == Spec /\ Fairness

-----------------------------------------------------------------------------
(* Properties.                                                             *)

TypeOK == /\ cx \in [Ctx -> CtxState]
          /\ q \in Seq(Ctx)
          /\ m \in Ctx \cup {None}
          /\ pc \in [Ctx -> Pc]
          /\ passed \in SUBSET Ctx

\* Mutual exclusion: a context is inside its critical section exactly when
\* the mutex names it; unlock()'s assert(m == current) with it.
Exclusive == \A c \in Ctx : pc[c] = "in" <=> m = c

\* The dock's list holds the waiters, each once, and no context that runs:
\* every wait that ends, by whatever way, has removed its context.
QueueExact == /\ ToSet(q) = Waiters
              /\ \A i, j \in DOMAIN q : q[i] = q[j] => i = j
              /\ \A c \in Waiters : Suspended(cx, c)

\* No lost wakeup: when the mutex is free and contexts wait for it, one of
\* them is about to be resumed.  unlock() notifies one waiter only, so each
\* way that waiter can leave without the mutex has to pass it on.
NoLostWakeup == ~locked /\ q # <<>> => Waking(cx, q)

\* A note counter is never left over in a suspended context, where it would
\* swallow the next notification.
NoLostNote == \A c \in Ctx : cx[c].at = "wait" => cx[c].notes = 0

\* The mutex implements the abstract lock, its progress included.
L == INSTANCE Lock WITH holder <- m, waiting <- Waiters
ImplementsLock == L!LSpec
=============================================================================

----------------------------- MODULE MutexProofs -----------------------------
(***************************************************************************)
(* Mutual exclusion and the absence of lost wakeups in ctx::mutex, for any *)
(* set of contexts, any number of pending notes, and any pattern of        *)
(* timeouts, interrupts and terminations.                                  *)
(***************************************************************************)
EXTENDS Mutex, ListProofs

-----------------------------------------------------------------------------
(* The table.                                                              *)

Table == [Ctx -> CtxState]

\* Every context that suspends has an empty note counter.
NotesClear(x) == \A c \in Ctx : x[c].at = "wait" => x[c].notes = 0

\* No context but c has moved.
OthersKept(x, y, c) == \A d \in Ctx \ {c} : y[d] = x[d]

\* Cancelling an alarm leaves the range of the field.
LEMMA CancelledAt ==
  ASSUME NEW at \in At
  PROVE  Cancelled(at) \in At \ {"wait"}
BY DEF Cancelled, At

\* Notes keep the table's type, touch nobody else, and wake.
LEMMA NoteProperties ==
  ASSUME NEW x \in Table, NEW S
  PROVE  /\ Note(x, S) \in Table
         /\ \A c \in Ctx \ S : Note(x, S)[c] = x[c]
         /\ \A c \in Ctx : /\ Note(x, S)[c].flags = x[c].flags
                          /\ Note(x, S)[c].at \in {x[c].at, Cancelled(x[c].at)}
         /\ NotesClear(x) => NotesClear(Note(x, S))
         /\ NotesClear(x) => \A c \in Ctx \cap S :
                Suspended(x, c) => Note(x, S)[c].at = "wake"
<1> DEFINE y == Note(x, S)
<1>1. ASSUME NEW c \in Ctx
      PROVE  /\ y[c] \in CtxState
             /\ y[c].flags = x[c].flags
             /\ y[c].at \in {x[c].at, Cancelled(x[c].at)}
             /\ c \notin S => y[c] = x[c]
             /\ c \in S => /\ y[c].notes = x[c].notes + 1
                           /\ x[c].notes = 0 => y[c].at = Cancelled(x[c].at)
                           /\ x[c].notes # 0 => y[c].at = x[c].at
  <2>1. x[c] \in CtxState
    BY DEF Table
  <2>2. CASE c \notin S
    BY <2>1, <2>2 DEF Note
  <2>3. CASE c \in S
    <3> DEFINE a == IF x[c].notes = 0 THEN Cancelled(x[c].at) ELSE x[c].at
    <3>1. y[c] = [at |-> a, notes |-> x[c].notes + 1, flags |-> x[c].flags]
      BY <2>3 DEF Note
    <3>2. a \in At
      BY <2>1, CancelledAt DEF CtxState
    <3>3. /\ a \in {x[c].at, Cancelled(x[c].at)}
          /\ x[c].notes = 0 => a = Cancelled(x[c].at)
          /\ x[c].notes # 0 => a = x[c].at
      OBVIOUS
    <3> HIDE DEF a, y
    <3>4. /\ y[c] \in CtxState /\ y[c].notes = x[c].notes + 1
          /\ y[c].at = a /\ y[c].flags = x[c].flags
      BY <2>1, <3>1, <3>2 DEF CtxState
    <3> QED BY <2>3, <3>3, <3>4
  <2> QED BY <2>2, <2>3
<1>2. y \in Table
  BY <1>1 DEF Note, Table
<1> HIDE DEF y
<1>3. ASSUME NotesClear(x) PROVE NotesClear(y)
  BY <1>1, <1>3 DEF NotesClear, Cancelled, Table, CtxState
<1>4. ASSUME NotesClear(x), NEW c \in Ctx \cap S, Suspended(x, c)
      PROVE  y[c].at = "wake"
  BY <1>1, <1>4 DEF NotesClear, Cancelled, Suspended, Table, CtxState
<1> QED BY <1>1, <1>2, <1>3, <1>4 DEF y

\* The same for notify_one() on a list of suspended contexts.
LEMMA NotifyOneProperties ==
  ASSUME NEW x \in Table, NEW list \in Seq(Ctx), NotesClear(x),
         \A c \in ToSet(list) : Suspended(x, c)
  PROVE  /\ NotifyOne(x, list) \in Table
         /\ NotesClear(NotifyOne(x, list))
         /\ \A c \in Ctx \ ToSet(list) : NotifyOne(x, list)[c] = x[c]
         /\ \A c \in Ctx : Suspended(x, c) => Suspended(NotifyOne(x, list), c)
         /\ list # <<>> => Waking(NotifyOne(x, list), list)
<1>1. CASE list = <<>>
  BY <1>1 DEF NotifyOne
<1>2. CASE list # <<>>
  <2> DEFINE y == Note(x, {Head(list)})
  <2>1. NotifyOne(x, list) = y
    BY <1>2 DEF NotifyOne
  <2>2. Head(list) \in ToSet(list) /\ Head(list) \in Ctx /\ Head(list) = list[1] /\ 1 \in DOMAIN list
    BY <1>2, HeadInList
  <2>3. /\ y \in Table /\ NotesClear(y)
        /\ \A c \in Ctx \ {Head(list)} : y[c] = x[c]
        /\ y[Head(list)].at = "wake"
    <3>1. y[Head(list)].at = "wake"
      BY <2>2, NoteProperties
    <3> QED BY <3>1, NoteProperties
  <2> HIDE DEF y
  <2>4. Waking(y, list)
    BY <2>2, <2>3 DEF Waking
  <2> QED BY <2>1, <2>2, <2>3, <2>4 DEF Suspended
<1> QED BY <1>1, <1>2

\* Suspending, resuming and throwing change one context.
LEMMA LeaveProperties ==
  ASSUME NEW x \in Table, NEW c \in Ctx
  PROVE  /\ Leave(x, c) \in Table
         /\ OthersKept(x, Leave(x, c), c)
         /\ Leave(x, c)[c].at = "wait" /\ Leave(x, c)[c].notes = 0
         /\ Leave(x, c)[c].flags = x[c].flags
         /\ NotesClear(x) => NotesClear(Leave(x, c))
BY DEF Leave, Table, CtxState, At, OthersKept, NotesClear

LEMMA EnterProperties ==
  ASSUME NEW x \in Table, NEW c \in Ctx
  PROVE  /\ Enter(x, c) \in Table
         /\ OthersKept(x, Enter(x, c), c)
         /\ Enter(x, c)[c].at = "run" /\ Enter(x, c)[c].notes = 1
         /\ Enter(x, c)[c].flags = x[c].flags
         /\ NotesClear(x) => NotesClear(Enter(x, c))
BY DEF Enter, Table, CtxState, At, OthersKept, NotesClear

LEMMA ThrowProperties ==
  ASSUME NEW x \in Table, NEW c \in Ctx
  PROVE  /\ Throw(x, c) \in Table
         /\ OthersKept(x, Throw(x, c), c)
         /\ Throw(x, c)[c].at = x[c].at /\ Throw(x, c)[c].notes = x[c].notes
         /\ ~Interruption(Throw(x, c)[c]) \/ "INTERRUPTED" \notin x[c].flags
         /\ NotesClear(x) => NotesClear(Throw(x, c))
BY DEF Throw, Thrown, Interruption, Requested, Table, CtxState, Flag, OthersKept, NotesClear

LEMMA EndProperties ==
  ASSUME NEW x \in Table, NEW c \in Ctx
  PROVE  /\ End(x, c) \in Table
         /\ OthersKept(x, End(x, c), c)
         /\ End(x, c)[c].at = "done"
         /\ NotesClear(x) => NotesClear(End(x, c))
BY DEF End, Table, CtxState, At, OthersKept, NotesClear

\* Lighting a flag wakes, keeps the notes, and leaves nothing undelivered.
LEMMA FlaggedProperties ==
  ASSUME NEW x \in Table, NEW c \in Ctx, NEW f \in Flag
  PROVE  /\ Flagged(x, c, f) \in Table
         /\ OthersKept(x, Flagged(x, c, f), c)
         /\ Flagged(x, c, f)[c].at \in {x[c].at, Cancelled(x[c].at)}
         /\ Flagged(x, c, f)[c].notes = x[c].notes
         /\ NotesClear(x) => NotesClear(Flagged(x, c, f))
BY CancelledAt DEF Flagged, Cancelled, Table, CtxState, OthersKept, NotesClear

-----------------------------------------------------------------------------
(* The invariant.                                                          *)

\* The conjuncts need each other: the notification of unlock() wakes its
\* target because a suspended context has no notes, and the target is a
\* waiter because the list is exact.
IInv == TypeOK /\ Exclusive /\ QueueExact /\ NoLostWakeup /\ NoLostNote

LEMMA InitIInv == ASSUME Init PROVE IInv
<1> USE MutexAssumption DEF Init
<1>1. TypeOK
  <2>1. Fresh \in CtxState
    BY DEF Fresh, CtxState, At
  <2>2. cx \in [Ctx -> CtxState]
    <3>1. ASSUME NEW c \in Ctx PROVE [Fresh EXCEPT !.at = "posted"] \in CtxState
      BY DEF Fresh, CtxState, At
    <3> QED BY <3>1
  <2> QED BY <2>2 DEF TypeOK, Pc
<1>2. Waiters = {} /\ ToSet(q) = {} /\ DOMAIN q = {}
  BY DEF Waiters, ToSet
<1>3. \A c \in Ctx : cx[c].at = "posted"
  BY DEF Fresh
<1> QED
  BY <1>1, <1>2, <1>3 DEF IInv, Exclusive, QueueExact, NoLostWakeup, NoLostNote, locked

\* What the lemmas about docks need of a state.
LEMMA Facts ==
  ASSUME IInv
  PROVE  /\ cx \in Table /\ NotesClear(cx)
         /\ q \in Seq(Ctx) /\ Distinct(q) /\ ToSet(q) = Waiters
         /\ \A c \in ToSet(q) : Suspended(cx, c)
         /\ \A c \in Ctx : c \in Waiters <=> pc[c] \in {"lock", "until"}
BY DEF IInv, TypeOK, NoLostNote, QueueExact, NotesClear, Distinct, Table, Waiters

\* A step that leaves the list alone, or nearly, keeps NoLostWakeup when no
\* waiter of the new list was put back to sleep.
LEMMA WakingKept ==
  ASSUME NEW x, NEW y, NEW l \in Seq(Ctx), Waking(x, l),
         \A d \in ToSet(l) : x[d].at \in {"wake", "run"} => y[d].at \in {"wake", "run"}
  PROVE  Waking(y, l)
BY DEF Waking, ToSet

-----------------------------------------------------------------------------
(* Operations.                                                             *)

LEMMA AcquireIInv ==
  ASSUME IInv, NEW c \in Ctx, NEW how \in {"lock", "until"}, Acquire(c, how)
  PROVE  IInv'
<1> USE MutexAssumption
<1>0. /\ cx[c].at = "run" /\ pc[c] = "out" /\ passed' = passed
  BY DEF Acquire, Current
<1>1. CASE ~locked
  <2>1. m' = c /\ pc' = [pc EXCEPT ![c] = "in"] /\ cx' = cx /\ q' = q /\ m = None
    BY <1>1 DEF Acquire, locked
  <2>2. TypeOK'
    BY <2>1, <1>0 DEF IInv, TypeOK, Pc
  <2>3. Waiters' = Waiters
    BY <2>1, <1>0 DEF IInv, TypeOK, Waiters
  <2>4. Exclusive'
    BY <2>1 DEF IInv, TypeOK, Exclusive
  <2> QED
    BY <2>1, <2>2, <2>3, <2>4
    DEF IInv, QueueExact, NoLostWakeup, NoLostNote, locked
<1>2. CASE locked
  <2>1. /\ q' = Append(q, c) /\ cx' = Leave(cx, c)
        /\ pc' = [pc EXCEPT ![c] = how] /\ m' = m /\ m # None
    BY <1>2 DEF Acquire, locked
  <2>2. /\ c \notin ToSet(q) /\ q \in Seq(Ctx) /\ Distinct(q)
        /\ cx \in Table /\ NotesClear(cx) /\ ToSet(q) = Waiters
    BY <1>0, Facts
  <2>3. /\ q' \in Seq(Ctx) /\ Distinct(q') /\ ToSet(q') = ToSet(q) \cup {c}
    BY <2>1, <2>2, AppendDistinct
  <2>4. /\ cx' \in Table /\ NotesClear(cx') /\ OthersKept(cx, cx', c)
        /\ cx'[c].at = "wait"
    BY <2>1, <2>2, LeaveProperties
  <2>5. TypeOK'
    BY <2>1, <2>3, <2>4, <1>0 DEF IInv, TypeOK, Pc, Table
  <2>6. Waiters' = Waiters \cup {c}
    BY <2>1 DEF IInv, TypeOK, Waiters
  <2>7. QueueExact'
    <3>1. ToSet(q') = Waiters'
      BY <2>2, <2>3, <2>6
    <3>2. ASSUME NEW d \in Ctx, d \in Waiters' PROVE Suspended(cx', d)
      BY <2>2, <2>4, <2>6, <3>2, Facts DEF OthersKept, Suspended
    <3> QED BY <2>3, <3>1, <3>2 DEF QueueExact, Distinct, Waiters
  <2>8. Exclusive'
    BY <2>1, <1>0 DEF IInv, TypeOK, Exclusive
  <2> QED
    BY <2>1, <2>4, <2>5, <2>7, <2>8
    DEF IInv, NoLostWakeup, NoLostNote, NotesClear, locked
<1> QED BY <1>1, <1>2

LEMMA TryLockIInv ==
  ASSUME IInv, NEW c \in Ctx, TryLock(c)
  PROVE  IInv'
<1>1. Acquire(c, "lock")
  BY DEF TryLock, Acquire
<1> QED BY <1>1, AcquireIInv

LEMMA UnlockIInv ==
  ASSUME IInv, NEW c \in Ctx, Unlock(c)
  PROVE  IInv'
<1> USE MutexAssumption
<1>1. /\ m' = None /\ cx' = NotifyOne(cx, q) /\ pc' = [pc EXCEPT ![c] = "out"]
      /\ q' = q /\ passed' = passed /\ pc[c] = "in"
  BY DEF Unlock
<1>2. /\ cx' \in Table /\ NotesClear(cx')
      /\ \A d \in Ctx : Suspended(cx, d) => Suspended(cx', d)
      /\ q # <<>> => Waking(cx', q)
  <2>1. /\ cx \in Table /\ q \in Seq(Ctx) /\ NotesClear(cx)
        /\ \A d \in ToSet(q) : Suspended(cx, d)
    BY Facts
  <2> DEFINE y == NotifyOne(cx, q)
  <2>2. /\ y \in Table /\ NotesClear(y)
        /\ \A d \in Ctx : Suspended(cx, d) => Suspended(y, d)
        /\ q # <<>> => Waking(y, q)
    BY <2>1, NotifyOneProperties
  <2>3. cx' = y
    BY <1>1
  <2> HIDE DEF y
  <2> QED BY <2>2, <2>3 DEF NotesClear, Suspended, Waking
<1>3. TypeOK'
  BY <1>1, <1>2 DEF IInv, TypeOK, Pc, Table
<1>4. Waiters' = Waiters
  BY <1>1 DEF IInv, TypeOK, Waiters
<1>5. Exclusive'
  BY <1>1 DEF IInv, TypeOK, Exclusive
<1>6. QueueExact'
  BY <1>1, <1>2, <1>4 DEF IInv, QueueExact, Waiters
<1> QED
  BY <1>1, <1>2, <1>3, <1>5, <1>6 DEF IInv, NoLostWakeup, NoLostNote, NotesClear

LEMMA YieldReturnIInv ==
  ASSUME IInv, NEW c \in Ctx, Yield(c) \/ Return(c)
  PROVE  IInv'
<1>1. /\ pc[c] \in {"in", "out"} /\ q' = q /\ m' = m /\ pc' = pc /\ passed' = passed
  BY DEF Yield, Return
<1>2. cx \in Table /\ NotesClear(cx) /\ c \notin Waiters /\ ToSet(q) = Waiters
  BY <1>1, Facts
<1>3. cx' \in Table /\ NotesClear(cx') /\ OthersKept(cx, cx', c)
  <2>1. CASE Yield(c)
    BY <2>1, <1>2
    DEF Yield, Leave, Table, CtxState, At, NotesClear, OthersKept
  <2>2. CASE Return(c)
    BY <2>2, <1>2, EndProperties DEF Return
  <2> QED BY <2>1, <2>2
<1>4. TypeOK' /\ Exclusive'
  BY <1>1, <1>3 DEF IInv, TypeOK, Exclusive, Table
<1>5. QueueExact'
  BY <1>1, <1>2, <1>3 DEF IInv, QueueExact, Waiters, OthersKept, Suspended
<1>6. NoLostWakeup'
  <2>1. q \in Seq(Ctx) /\ ToSet(q) \subseteq Ctx \ {c}
    BY <1>2, Facts DEF Waiters
  <2> QED BY <1>1, <1>3, <2>1, WakingKept DEF IInv, NoLostWakeup, OthersKept, locked
<1> QED BY <1>3, <1>4, <1>5, <1>6 DEF IInv, NoLostNote, NotesClear

-----------------------------------------------------------------------------
(* Resumptions.                                                            *)

\* The unwinding of c leaves every other context alone.
LEMMA UnwoundProperties ==
  ASSUME cx \in Table, NotesClear(cx), NEW c \in Ctx
  PROVE  /\ Unwound(c) \in Table /\ NotesClear(Unwound(c))
         /\ OthersKept(cx, Unwound(c), c)
<1> DEFINE e == Enter(cx, c)
           x == Throw(e, c)
<1>1. e \in Table /\ NotesClear(e) /\ OthersKept(cx, e, c)
  BY EnterProperties
<1> HIDE DEF e
<1>2. x \in Table /\ NotesClear(x) /\ OthersKept(e, x, c)
  BY <1>1, ThrowProperties
<1>3. OthersKept(cx, x, c)
  BY <1>1, <1>2 DEF OthersKept
<1>4. Unwound(c) = IF "TERMINATED" \in cx[c].flags THEN End(x, c) ELSE x
  BY DEF Unwound, e
<1> HIDE DEF x
<1>5. End(x, c) \in Table /\ NotesClear(End(x, c)) /\ OthersKept(x, End(x, c), c)
  BY <1>2, EndProperties
<1> QED BY <1>2, <1>3, <1>4, <1>5 DEF OthersKept

LEMMA ResumeIInv ==
  ASSUME IInv, NEW c \in Ctx, Resume(c)
  PROVE  IInv'
<1>1. /\ pc[c] \in {"in", "out"} /\ q' = q /\ m' = m /\ pc' = pc /\ passed' = passed
      /\ cx' = Enter(cx, c)
  BY DEF Resume
<1>2. cx \in Table /\ NotesClear(cx) /\ c \notin Waiters /\ ToSet(q) = Waiters
  BY <1>1, Facts
<1>3. cx' \in Table /\ NotesClear(cx') /\ OthersKept(cx, cx', c)
  BY <1>1, <1>2, EnterProperties
<1>4. TypeOK' /\ Exclusive'
  BY <1>1, <1>3 DEF IInv, TypeOK, Exclusive, Table
<1>5. QueueExact'
  BY <1>1, <1>2, <1>3 DEF IInv, QueueExact, Waiters, OthersKept, Suspended
<1>6. NoLostWakeup'
  <2>1. q \in Seq(Ctx) /\ ToSet(q) \subseteq Ctx \ {c}
    BY <1>2, Facts DEF Waiters
  <2> QED BY <1>1, <1>3, <2>1, WakingKept DEF IInv, NoLostWakeup, OthersKept, locked
<1> QED BY <1>3, <1>4, <1>5, <1>6 DEF IInv, NoLostNote, NotesClear

LEMMA ResumeUnwindIInv ==
  ASSUME IInv, NEW c \in Ctx, ResumeUnwind(c)
  PROVE  IInv'
<1> USE MutexAssumption
<1>1. /\ pc[c] \in {"in", "out"} /\ q' = q /\ pc' = [pc EXCEPT ![c] = "out"]
      /\ passed' = passed
  BY DEF ResumeUnwind
<1>2. /\ cx \in Table /\ NotesClear(cx) /\ q \in Seq(Ctx)
      /\ ToSet(q) = Waiters /\ c \notin Waiters /\ Waiters \subseteq Ctx \ {c}
      /\ \A d \in ToSet(q) : Suspended(cx, d)
  BY <1>1, Facts DEF Waiters
<1> DEFINE u == Unwound(c)
<1>3. u \in Table /\ NotesClear(u) /\ OthersKept(cx, u, c)
  BY <1>2, UnwoundProperties
<1>4. \A d \in ToSet(q) : Suspended(u, d)
  BY <1>2, <1>3 DEF OthersKept, Suspended
<1>5. Waiters' = Waiters
  BY <1>1 DEF IInv, TypeOK, Waiters
<1>6. CASE pc[c] = "in"
  <2> DEFINE y == NotifyOne(u, q)
  <2>1. m' = None /\ cx' = y
    BY <1>6 DEF ResumeUnwind
  <2> HIDE DEF u
  <2>2. /\ y \in Table /\ NotesClear(y)
        /\ \A d \in Ctx : Suspended(u, d) => Suspended(y, d)
        /\ q # <<>> => Waking(y, q)
    BY <1>2, <1>3, <1>4, NotifyOneProperties
  <2> HIDE DEF y
  <2>3. TypeOK'
    BY <1>1, <2>1, <2>2 DEF IInv, TypeOK, Pc, Table
  <2>4. Exclusive'
    BY <1>1, <1>6, <2>1 DEF IInv, TypeOK, Exclusive
  <2>5. QueueExact'
    BY <1>1, <1>2, <1>4, <1>5, <2>1, <2>2 DEF IInv, QueueExact
  <2> QED
    BY <1>1, <2>1, <2>2, <2>3, <2>4, <2>5
    DEF IInv, NoLostWakeup, NoLostNote, NotesClear
<1>7. CASE pc[c] = "out"
  <2>1. cx' = u /\ m' = m
    BY <1>7 DEF ResumeUnwind
  <2> HIDE DEF u
  <2>2. pc' = pc
    BY <1>1, <1>7 DEF IInv, TypeOK
  <2>3. TypeOK' /\ Exclusive'
    BY <1>1, <1>3, <2>1, <2>2 DEF IInv, TypeOK, Exclusive, Table
  <2>4. QueueExact'
    BY <1>1, <1>2, <1>4, <1>5, <2>1 DEF IInv, QueueExact
  <2>5. NoLostWakeup'
    BY <1>1, <1>2, <1>3, <2>1, WakingKept
    DEF IInv, NoLostWakeup, OthersKept, locked
  <2> QED BY <1>3, <2>1, <2>3, <2>4, <2>5 DEF IInv, NoLostNote, NotesClear
<1> QED BY <1>1, <1>6, <1>7

LEMMA WaitUnwindIInv ==
  ASSUME IInv, NEW c \in Ctx, WaitUnwind(c)
  PROVE  IInv'
<1> DEFINE r == Unlink(q, c)
           u == Unwound(c)
           y == NotifyOne(u, r)
<1>1. /\ c \in Waiters /\ q' = r /\ cx' = y /\ pc' = [pc EXCEPT ![c] = "out"]
      /\ passed' = passed \ {c} /\ m' = m
  BY DEF WaitUnwind, Renotify
<1>2. /\ cx \in Table /\ NotesClear(cx) /\ q \in Seq(Ctx) /\ Distinct(q)
      /\ ToSet(q) = Waiters /\ \A d \in Waiters : Suspended(cx, d)
  BY Facts
<1>3. /\ r \in Seq(Ctx) /\ Distinct(r) /\ ToSet(r) = Waiters \ {c}
  BY <1>1, <1>2, UnlinkProperties
<1>4. u \in Table /\ NotesClear(u) /\ OthersKept(cx, u, c)
  BY <1>2, UnwoundProperties
<1> HIDE DEF r, u
<1>5. \A d \in ToSet(r) : Suspended(u, d)
  BY <1>2, <1>3, <1>4 DEF OthersKept, Suspended, Waiters
<1>6. /\ y \in Table /\ NotesClear(y)
      /\ \A d \in Ctx : Suspended(u, d) => Suspended(y, d)
      /\ r # <<>> => Waking(y, r)
  BY <1>3, <1>4, <1>5, NotifyOneProperties
<1> HIDE DEF y
<1>7. TypeOK'
  BY <1>1, <1>3, <1>6 DEF IInv, TypeOK, Pc, Table
<1>8. Waiters' = Waiters \ {c}
  BY <1>1 DEF IInv, TypeOK, Waiters
<1>9. Exclusive'
  BY <1>1 DEF IInv, TypeOK, Exclusive, Waiters
<1>10. QueueExact'
  <2>1. \A d \in Waiters' : Suspended(cx', d)
    BY <1>1, <1>3, <1>5, <1>6, <1>8 DEF Waiters
  <2> QED BY <1>1, <1>3, <1>8, <2>1 DEF QueueExact, Distinct
<1> QED
  BY <1>1, <1>6, <1>7, <1>9, <1>10 DEF IInv, NoLostWakeup, NoLostNote, NotesClear

LEMMA WaitResumeIInv ==
  ASSUME IInv, NEW c \in Ctx, WaitResume(c)
  PROVE  IInv'
<1> USE MutexAssumption
<1> DEFINE r == Unlink(q, c)
<1>1. /\ c \in Waiters /\ pc[c] \in {"lock", "until"}
      /\ cx \in Table /\ NotesClear(cx) /\ q \in Seq(Ctx) /\ Distinct(q)
      /\ ToSet(q) = Waiters /\ \A d \in Waiters : Suspended(cx, d)
  BY Facts DEF WaitResume, Waiters
<1>2. /\ r \in Seq(Ctx) /\ Distinct(r) /\ ToSet(r) = Waiters \ {c}
  BY <1>1, UnlinkProperties
<1> HIDE DEF r
\* Leaving the list, awake: with the mutex or out of time.
<1>3. ASSUME NEW p \in {"in", "out"}, pc' = [pc EXCEPT ![c] = p],
             q' = r, passed' = passed \ {c}, cx' = Enter(cx, c)
      PROVE  /\ Waiters' = Waiters \ {c}
             /\ QueueExact' /\ NoLostNote' /\ cx' \in Table
  <2>1. cx' \in Table /\ NotesClear(cx') /\ OthersKept(cx, cx', c)
    BY <1>1, <1>3, EnterProperties
  <2>2. Waiters' = Waiters \ {c}
    BY <1>3 DEF IInv, TypeOK, Waiters
  <2>3. \A d \in Waiters' : Suspended(cx', d)
    BY <1>1, <2>1, <2>2 DEF OthersKept, Suspended, Waiters
  <2>4. QueueExact'
    BY <1>2, <1>3, <2>2, <2>3 DEF QueueExact, Distinct
  <2> QED BY <2>1, <2>2, <2>4 DEF NoLostNote, NotesClear
<1>4. CASE ~locked /\ m' = c /\ pc' = [pc EXCEPT ![c] = "in"]
           /\ q' = r /\ passed' = passed \ {c} /\ cx' = Enter(cx, c)
  <2>1. QueueExact' /\ NoLostNote' /\ cx' \in Table
    BY <1>3, <1>4
  <2>2. TypeOK'
    BY <1>2, <1>4, <2>1 DEF IInv, TypeOK, Pc, Table
  <2>3. Exclusive'
    BY <1>4 DEF IInv, TypeOK, Exclusive, locked
  <2> QED BY <1>4, <2>1, <2>2, <2>3 DEF IInv, NoLostWakeup, locked
<1>5. CASE locked /\ m' = m /\ pc' = [pc EXCEPT ![c] = "out"]
           /\ q' = r /\ passed' = passed \ {c} /\ cx' = Enter(cx, c)
  <2>1. QueueExact' /\ NoLostNote' /\ cx' \in Table
    BY <1>3, <1>5
  <2>2. TypeOK'
    BY <1>2, <1>5, <2>1 DEF IInv, TypeOK, Pc, Table
  <2>3. Exclusive'
    BY <1>1, <1>5 DEF IInv, TypeOK, Exclusive
  <2> QED BY <1>5, <2>1, <2>2, <2>3 DEF IInv, NoLostWakeup, locked
<1>6. CASE locked /\ cx' = Leave(cx, c) /\ UNCHANGED <<q, m, pc, passed>>
  <2>1. /\ cx' \in Table /\ NotesClear(cx') /\ OthersKept(cx, cx', c)
        /\ cx'[c].at = "wait"
    BY <1>1, <1>6, LeaveProperties
  <2>2. TypeOK' /\ Exclusive'
    BY <1>6, <2>1 DEF IInv, TypeOK, Exclusive, Table
  <2>3. QueueExact'
    BY <1>1, <1>6, <2>1
    DEF IInv, QueueExact, Waiters, OthersKept, Suspended
  <2> QED
    BY <1>6, <2>1, <2>2, <2>3 DEF IInv, NoLostWakeup, NoLostNote, NotesClear, locked
<1> QED BY <1>4, <1>5, <1>6 DEF WaitResume, r

-----------------------------------------------------------------------------
(* The environment.                                                        *)

\* A deadline or a signal ends a suspension and gives no note.
LEMMA EnvironmentIInv ==
  ASSUME IInv, NEW c \in Ctx, Deadline(c) \/ Signal(c)
  PROVE  IInv'
<1> USE MutexAssumption
<1>1. cx \in Table /\ NotesClear(cx) /\ q \in Seq(Ctx)
  BY Facts
<1>2. /\ q' = q /\ m' = m /\ pc' = pc /\ passed' \in SUBSET Ctx
      /\ cx' \in Table /\ NotesClear(cx')
      /\ OthersKept(cx, cx', c)
      /\ cx'[c].at \in {cx[c].at, Cancelled(cx[c].at)}
  <2>1. CASE Deadline(c)
    BY <1>1, <2>1, CancelledAt
    DEF Deadline, IInv, TypeOK, Cancelled, Table, CtxState, NotesClear, OthersKept
  <2>2. CASE Signal(c)
    <3>1. PICK f \in Signals : cx' = Flagged(cx, c, f)
      BY <2>2 DEF Signal
    <3>2. f \in Flag
      BY <3>1 DEF Flag
    <3> QED BY <1>1, <2>2, <3>1, <3>2, FlaggedProperties DEF Signal, IInv, TypeOK
  <2> QED BY <2>1, <2>2
<1>3. TypeOK' /\ Exclusive'
  BY <1>2 DEF IInv, TypeOK, Exclusive, Table
<1>4. \A d \in Ctx : Suspended(cx, d) => Suspended(cx', d)
  BY <1>2 DEF OthersKept, Suspended, Cancelled
<1>5. \A d \in Ctx : cx[d].at \in {"wake", "run"} => cx'[d].at \in {"wake", "run"}
  BY <1>2 DEF OthersKept, Cancelled
<1>6. QueueExact'
  BY <1>2, <1>4 DEF IInv, QueueExact, Waiters
<1>7. NoLostWakeup'
  <2>1. ToSet(q) \subseteq Ctx
    BY Facts DEF Waiters
  <2> QED BY <1>1, <1>2, <1>5, <2>1, WakingKept DEF IInv, NoLostWakeup, locked
<1> QED BY <1>2, <1>3, <1>6, <1>7 DEF IInv, NoLostNote, NotesClear

-----------------------------------------------------------------------------

LEMMA NextIInv == ASSUME IInv, [Next]_vars PROVE IInv'
<1>1. CASE UNCHANGED vars
  BY <1>1
  DEF vars, IInv, TypeOK, Exclusive, QueueExact, NoLostWakeup, NoLostNote,
      Waiters, locked
<1>2. ASSUME NEW c \in Ctx,
             Step(c) \/ Resumption(c) \/ Deadline(c) \/ Signal(c)
      PROVE  IInv'
  <2>1. CASE Lock(c) \/ TryLockUntil(c)
    BY <2>1, AcquireIInv DEF Lock, TryLockUntil
  <2>2. CASE TryLock(c)
    BY <2>2, TryLockIInv
  <2>3. CASE Unlock(c)
    BY <2>3, UnlockIInv
  <2>4. CASE Yield(c) \/ Return(c)
    BY <2>4, YieldReturnIInv
  <2>5. CASE Resume(c)
    BY <2>5, ResumeIInv
  <2>6. CASE ResumeUnwind(c)
    BY <2>6, ResumeUnwindIInv
  <2>7. CASE WaitUnwind(c)
    BY <2>7, WaitUnwindIInv
  <2>8. CASE WaitResume(c)
    BY <2>8, WaitResumeIInv
  <2>9. CASE Deadline(c) \/ Signal(c)
    BY <2>9, EnvironmentIInv
  <2> QED BY <1>2, <2>1, <2>2, <2>3, <2>4, <2>5, <2>6, <2>7, <2>8, <2>9
          DEF Step, Resumption
<1> QED BY <1>1, <1>2 DEF Next

\* The invariant holds in every reachable state of every instance.
THEOREM Invariance == Spec => []IInv
<1>1. Init => IInv
  BY InitIInv
<1>2. IInv /\ [Next]_vars => IInv'
  BY NextIInv
<1> QED BY <1>1, <1>2, PTL DEF Spec

\* The types of the mutex' state.
THEOREM TypeCorrect == Spec => []TypeOK
BY Invariance, PTL DEF IInv

\* ctx::mutex is a lock: the holder is alone in its critical section, whatever
\* ends the waits of the others.
THEOREM MutualExclusion == Spec => []Exclusive
BY Invariance, PTL DEF IInv

\* dock::continuation keeps the list exact through every exit of a wait.
THEOREM ListIsExact == Spec => []QueueExact
BY Invariance, PTL DEF IInv

\* A free mutex with waiters always has one of them on its way: no unlock() is
\* lost to a waiter that leaves by an exception.
THEOREM WakeupsNotLost == Spec => []NoLostWakeup
BY Invariance, PTL DEF IInv

-----------------------------------------------------------------------------
(* Refinement.                                                             *)

\* Every step of the mutex is a step of the abstract lock, or invisible to it.
LEMMA StepSimulation ==
  ASSUME IInv, [Next]_vars
  PROVE  [L!LNext]_(L!lvars)
<1> USE MutexAssumption DEF L!lvars
<1>0. ASSUME NEW c \in Ctx, pc' = [pc EXCEPT ![c] = "in"], pc[c] = "out"
      PROVE  Waiters' = Waiters /\ c \notin Waiters
  BY <1>0 DEF IInv, TypeOK, Waiters
<1>1. ASSUME NEW c \in Ctx, NEW p \in {"in", "out"}, pc' = [pc EXCEPT ![c] = p]
      PROVE  Waiters' = Waiters \ {c}
  BY <1>1 DEF IInv, TypeOK, Waiters
<1>2. ASSUME NEW c \in Ctx, pc' = pc PROVE Waiters' = Waiters
  BY <1>2 DEF Waiters
<1>3. CASE UNCHANGED vars
  BY <1>2, <1>3 DEF vars, Waiters
<1>4. ASSUME NEW c \in Ctx, NEW how \in {"lock", "until"}, Acquire(c, how)
      PROVE  L!Take(c) \/ L!Enqueue(c)
  <2>1. CASE ~locked
    BY <1>0, <1>4, <2>1 DEF Acquire, locked, L!Take
  <2>2. CASE locked
    <3>1. /\ pc' = [pc EXCEPT ![c] = how] /\ m' = m /\ m # None /\ m # c
          /\ c \notin Waiters
      BY <1>4, <2>2 DEF Acquire, locked, IInv, Exclusive, Waiters
    <3>2. Waiters' = Waiters \cup {c}
      BY <3>1 DEF IInv, TypeOK, Waiters
    <3> QED BY <3>1, <3>2 DEF L!Enqueue
  <2> QED BY <2>1, <2>2
<1>5. ASSUME NEW c \in Ctx, TryLock(c) PROVE L!Take(c)
  BY <1>0, <1>5 DEF TryLock, locked, L!Take
<1>6. ASSUME NEW c \in Ctx, Unlock(c) PROVE L!Release(c)
  <2>1. m = c /\ c \notin Waiters
    BY <1>6 DEF Unlock, IInv, Exclusive, Waiters
  <2> QED BY <1>1, <1>6, <2>1 DEF Unlock, L!Release
<1>7. ASSUME NEW c \in Ctx, Yield(c) \/ Return(c) \/ Resume(c) \/ Deadline(c) \/ Signal(c)
      PROVE  UNCHANGED <<m, Waiters>>
  BY <1>2, <1>7 DEF Yield, Return, Resume, Deadline, Signal
<1>8. ASSUME NEW c \in Ctx, ResumeUnwind(c)
      PROVE  L!Release(c) \/ UNCHANGED <<m, Waiters>>
  <2>1. c \notin Waiters /\ Waiters' = Waiters
    BY <1>1, <1>8 DEF ResumeUnwind, Waiters
  <2> QED BY <1>8, <2>1 DEF ResumeUnwind, L!Release, IInv, Exclusive
<1>9. ASSUME NEW c \in Ctx, WaitUnwind(c) PROVE L!Abandon(c)
  BY <1>1, <1>9 DEF WaitUnwind, L!Abandon
<1>10. ASSUME NEW c \in Ctx, WaitResume(c)
       PROVE  L!Grant(c) \/ L!Abandon(c) \/ UNCHANGED <<m, Waiters>>
  BY <1>1, <1>2, <1>10 DEF WaitResume, locked, L!Grant, L!Abandon
<1>11. ASSUME NEW c \in Ctx, Step(c) \/ Resumption(c) \/ Deadline(c) \/ Signal(c)
       PROVE  L!LNext \/ UNCHANGED <<m, Waiters>>
  BY <1>4, <1>5, <1>6, <1>7, <1>8, <1>9, <1>10, <1>11
     DEF Step, Resumption, Lock, TryLockUntil, L!LNext
<1> QED BY <1>3, <1>11 DEF Next

\* Safety of ctx::mutex, as one statement: it implements the abstract lock.
\* (Its progress, the other conjunct of ImplementsLock, is model-checked.)
THEOREM Refinement == Spec => L!LSafe
<1>1. Init => L!LInit
  BY DEF Init, Waiters, L!LInit
<1>2. IInv /\ [Next]_vars => [L!LNext]_(L!lvars)
  BY StepSimulation
<1> QED BY <1>1, <1>2, Invariance, PTL DEF Spec, L!LSafe
=============================================================================

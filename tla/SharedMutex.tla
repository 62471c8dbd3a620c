---------------------------- MODULE SharedMutex -----------------------------
(***************************************************************************)
(* ircd::ctx::shared_mutex (src/include/ircd/ctx/shared_mutex.h), the lock *)
(* with shared, upgrade and unique ownership that stands in for RocksDB's  *)
(* RWMutex (db_port.cc) and for pthread_rwlock_t (ctx_posix.cc).           *)
(*                                                                         *)
(* A step is what a context does between two switches.  Of a waiting       *)
(* context only whether its resumption is on its way is kept (asleep).     *)
(***************************************************************************)
EXTENDS Integers, List

CONSTANTS Ctx,
          None,
          Calls,     \* the operations that are called, beside the plain unlocks
          Half       \* 2^63

\* The modes that lock*() waits for; "promote" is unlock_upgrade_and_lock().
Mode == {"shared", "upgrade", "unique", "promote"}

ASSUME SharedMutexAssumption ==
  /\ None \notin Ctx /\ IsFiniteSet(Ctx)
  /\ Half \in Nat \ {0}
  /\ Calls \subseteq Mode \cup {"try_unique", "try_shared", "try_upgrade", "until",
       "shared_unique", "shared_upgrade", "upgrade_unique",
       "unique_shared", "unique_upgrade", "upgrade_shared", "interrupt", "adopt"}

Lowest == -Half    \* numeric_limits<ssize_t>::min(), the mark of a unique owner

VARIABLES u, s, q,   \* the members of the mutex
          asleep,    \* the waiters that are not being resumed
          want,      \* what a waiter waits for
          has,       \* what each context was given and did not give back
          timed      \* the waiters with a deadline

vars == <<u, s, q, asleep, want, has, timed>>

Init == /\ u = None /\ s = 0 /\ q = <<>>
        /\ asleep = {} /\ timed = {}
        /\ want = [c \in Ctx |-> "none"]
        /\ has = [c \in Ctx |-> "none"]

-----------------------------------------------------------------------------
\* A bug: the readers are not waited for.
CanLockUnread(c) == s >= 0 /\ u \in {None, c}

CanLock(c) == s = 0 /\ u \in {None, c}
CanLockShared == s >= 0
CanLockUpgrade == u = None

Can(c, mode) == CASE mode = "shared" -> CanLockShared
                  [] mode = "upgrade" -> CanLockUpgrade
                  [] OTHER -> CanLock(c)

\* What the operations do once their predicate holds.
Take(c, mode) ==
  /\ u' = IF mode \in {"upgrade", "unique"} THEN c ELSE u
  /\ s' = CASE mode = "shared" -> s + 1
            [] mode = "upgrade" -> s
            [] OTHER -> Lowest
  /\ has' = [has EXCEPT ![c] = IF mode = "promote" THEN "unique of upgrade" ELSE mode]

Running(c) == want[c] = "none"

NotifyOne == asleep' = asleep \ Foremost(q)

-----------------------------------------------------------------------------
(* Waiting.                                                                *)

\* lock(), lock_shared(), lock_upgrade(), unlock_upgrade_and_lock().
LockMode(c, mode, deadline) ==
  /\ mode \in Calls /\ Running(c)
  /\ deadline => "until" \in Calls /\ mode # "promote"
  /\ has[c] = IF mode = "promote" THEN "upgrade" ELSE "none"
  /\ IF Can(c, mode)
     THEN Take(c, mode) /\ UNCHANGED <<q, asleep, want, timed>>
     ELSE /\ q' = Append(q, c)
          /\ asleep' = asleep \cup {c}
          /\ want' = [want EXCEPT ![c] = mode]
          /\ timed' = IF deadline THEN timed \cup {c} ELSE timed
          /\ UNCHANGED <<u, s, has>>

\* A waiter was notified, or its deadline passed, and it tests its predicate.
Resume(c) ==
  /\ ~Running(c) /\ (c \notin asleep \/ c \in timed)
  /\ IF Can(c, want[c])
     THEN /\ Take(c, want[c])
          /\ q' = Unlink(q, c)
          /\ want' = [want EXCEPT ![c] = "none"]
          /\ timed' = timed \ {c}
          /\ asleep' = asleep \ {c}
     ELSE asleep' = asleep \cup {c} /\ UNCHANGED <<u, s, has, q, want, timed>>

\* The deadline of a try_lock_*_until() passed and the predicate does not hold:
\* it leaves, and notifies nobody.
Expire(c) ==
  /\ c \in timed /\ ~Can(c, want[c])
  /\ q' = Unlink(q, c)
  /\ asleep' = asleep \ {c}
  /\ want' = [want EXCEPT ![c] = "none"]
  /\ timed' = timed \ {c}
  /\ UNCHANGED <<u, s, has>>

\* A waiter is unwound, and the dock renotifies.
Interrupt(c) ==
  /\ "interrupt" \in Calls /\ ~Running(c)
  /\ q' = Unlink(q, c)
  /\ asleep' = asleep \ ({c} \cup Foremost(q'))
  /\ want' = [want EXCEPT ![c] = "none"]
  /\ timed' = timed \ {c}
  /\ UNCHANGED <<u, s, has>>

-----------------------------------------------------------------------------
(* Without waiting.                                                        *)

waiting == <<q, asleep, want, timed>>

\* try_lock(), try_lock_upgrade(), try_unlock_upgrade_and_lock().
TryLock(c, mode) ==
  /\ Running(c) /\ Can(c, mode)
  /\ \/ mode = "unique" /\ "try_unique" \in Calls /\ has[c] = "none"
     \/ mode = "upgrade" /\ "try_upgrade" \in Calls /\ has[c] = "none"
     \/ mode = "promote" /\ "upgrade_unique" \in Calls /\ has[c] = "upgrade"
  /\ Take(c, mode)
  /\ UNCHANGED waiting

\* try_lock_shared(): counted, whether it is given or not.
TryLockShared(c) ==
  /\ "try_shared" \in Calls /\ Running(c) /\ has[c] = "none"
  /\ s # -1
  /\ s' = s + 1
  /\ has' = [has EXCEPT ![c] = IF s' >= 0 THEN "shared" ELSE "none"]
  /\ UNCHANGED <<u, waiting>>

\* try_unlock_shared_and_lock().  Its caller answers for assert(!u); "adopt" is a
\* caller who does not.
TrySharedUnique(c) ==
  /\ "shared_unique" \in Calls /\ Running(c) /\ has[c] = "shared"
  /\ s = 1 /\ ("adopt" \in Calls \/ u = None)
  /\ u' = c /\ s' = Lowest
  /\ has' = [has EXCEPT ![c] = "unique"]
  /\ UNCHANGED waiting

\* A bug: the share is not given back.
TrySharedUpgradeKept(c) ==
  /\ "shared_upgrade" \in Calls /\ Running(c) /\ has[c] = "shared"
  /\ CanLockUpgrade
  /\ u' = c
  /\ has' = [has EXCEPT ![c] = "upgrade"]
  /\ UNCHANGED <<s, waiting>>

\* try_unlock_shared_and_lock_upgrade().
TrySharedUpgrade(c) ==
  /\ "shared_upgrade" \in Calls /\ Running(c) /\ has[c] = "shared"
  /\ CanLockUpgrade
  /\ u' = c /\ s' = s - 1
  /\ has' = [has EXCEPT ![c] = "upgrade"]
  /\ UNCHANGED waiting

-----------------------------------------------------------------------------
(* Giving back.                                                            *)

Unique(c) == has[c] \in {"unique", "unique of upgrade"}

\* unlock(): u is left, for a promoted owner still has the first phase.
Unlock(c) ==
  /\ Running(c) /\ Unique(c)
  /\ s' = 0
  /\ has' = [has EXCEPT ![c] = IF has[c] = "unique" THEN "none" ELSE "upgrade"]
  /\ asleep' = {}
  /\ UNCHANGED <<u, q, want, timed>>

UnlockShared(c) ==
  /\ Running(c) /\ has[c] = "shared"
  /\ s' = s - 1
  /\ has' = [has EXCEPT ![c] = "none"]
  /\ NotifyOne
  /\ UNCHANGED <<u, q, want, timed>>

UnlockUpgrade(c) ==
  /\ Running(c) /\ has[c] = "upgrade"
  /\ u' = None
  /\ has' = [has EXCEPT ![c] = "none"]
  /\ NotifyOne
  /\ UNCHANGED <<s, q, want, timed>>

\* unlock_and_lock_shared().
UniqueShared(c) ==
  /\ "unique_shared" \in Calls /\ Running(c) /\ has[c] = "unique"
  /\ s' = 1
  /\ has' = [has EXCEPT ![c] = "shared"]
  /\ NotifyOne
  /\ UNCHANGED <<u, q, want, timed>>

\* unlock_and_lock_upgrade().
UniqueUpgrade(c) ==
  /\ "unique_upgrade" \in Calls /\ Running(c) /\ Unique(c)
  /\ s' = 0
  /\ has' = [has EXCEPT ![c] = "upgrade"]
  /\ UNCHANGED <<u, waiting>>

\* unlock_upgrade_and_lock_shared().
UpgradeShared(c) ==
  /\ "upgrade_shared" \in Calls /\ Running(c) /\ has[c] = "upgrade"
  /\ u' = None /\ s' = s + 1
  /\ has' = [has EXCEPT ![c] = "shared"]
  /\ NotifyOne
  /\ UNCHANGED <<q, want, timed>>

Next == \E c \in Ctx :
          \/ \E mode \in Mode : TryLock(c, mode) \/ \E deadline \in BOOLEAN : LockMode(c, mode, deadline)
          \/ Resume(c) \/ Expire(c) \/ Interrupt(c)
          \/ TryLockShared(c) \/ TrySharedUnique(c) \/ TrySharedUpgrade(c)
          \/ Unlock(c) \/ UnlockShared(c) \/ UnlockUpgrade(c)
          \/ UniqueShared(c) \/ UniqueUpgrade(c) \/ UpgradeShared(c)

Spec == Init /\ [][Next]_vars

-----------------------------------------------------------------------------
(* Properties.                                                             *)

Owner(modes) == {c \in Ctx : has[c] \in modes}
Uniques == {"unique", "unique of upgrade"}

TypeOK == /\ u \in Ctx \cup {None}
          /\ s \in Lowest..Cardinality(Ctx)
          /\ q \in Seq(Ctx)
          /\ asleep \subseteq Ctx /\ timed \subseteq Ctx
          /\ want \in [Ctx -> Mode \cup {"none"}]
          /\ has \in [Ctx -> {"none", "shared", "upgrade"} \cup Uniques]

\* "This lock then has exclusive access": a unique owner is alone, and "only one
\* upgrade can exist at a time".
Exclusive == /\ Owner(Uniques) # {} => Cardinality(Owner({"shared", "upgrade"} \cup Uniques)) = 1
             /\ Cardinality(Owner({"upgrade"})) <= 1

\* The count is the number of readers, or the mark of a unique owner, which
\* failed attempts to read have moved but not away from the negative numbers.
Counted == IF Owner(Uniques) # {} THEN s < 0 ELSE s = Cardinality(Owner({"shared"}))

\* assert(s == min) in unlock(): the mark of a unique owner stays what it is.
Marked == Owner(Uniques) # {} => s = Lowest

\* A lock that nobody owns has no owner.
Released == Owner({"upgrade"} \cup Uniques) = {} => u = None

\* Nobody sleeps beside a lock that he could take: as long as no owner is left
\* who will notify, one of the waiters that can go on is being resumed.
NoLostWakeup ==
  (\A c \in Ctx : has[c] = "none" \/ want[c] = "promote") =>
    \A c \in asleep : Can(c, want[c]) => \E d \in Ctx : ~Running(d) /\ d \notin asleep
=============================================================================

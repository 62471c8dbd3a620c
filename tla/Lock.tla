-------------------------------- MODULE Lock --------------------------------
(***************************************************************************)
(* What a mutual exclusion lock of the ctx library promises, without       *)
(* queues, alarms or notifications: at most one holder, only a context     *)
(* that asked for the lock gets it, and the lock does not stay free while  *)
(* contexts wait for it.                                                   *)
(***************************************************************************)
CONSTANTS Ctx, None

VARIABLES holder,   \* the context that has the lock, or None
          waiting   \* the contexts that wait for it

lvars == <<holder, waiting>>

LInit == holder = None /\ waiting = {}

\* The lock is taken at once, by a context that does not wait.
Take(c) == /\ holder = None
           /\ c \notin waiting
           /\ holder' = c /\ UNCHANGED waiting

Enqueue(c) == /\ holder \notin {None, c}
              /\ c \notin waiting
              /\ waiting' = waiting \cup {c} /\ UNCHANGED holder

Grant(c) == /\ holder = None
            /\ c \in waiting
            /\ holder' = c /\ waiting' = waiting \ {c}

\* A timeout, an interrupt or a termination ends the wait.
Abandon(c) == /\ c \in waiting
              /\ waiting' = waiting \ {c} /\ UNCHANGED holder

Release(c) == /\ holder = c
              /\ holder' = None /\ UNCHANGED waiting

LNext == \E c \in Ctx : \/ Take(c) \/ Enqueue(c) \/ Grant(c)
                        \/ Abandon(c) \/ Release(c)

LSafe == LInit /\ [][LNext]_lvars

\* A free lock with waiters is taken, or its waiters leave.
Progress == /\ holder = None /\ waiting # {}
            /\ \E c \in Ctx : Take(c) \/ Grant(c) \/ Abandon(c)

LSpec == LSafe /\ WF_lvars(Progress)
=============================================================================

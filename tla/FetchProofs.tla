----------------------------- MODULE FetchProofs -----------------------------
(***************************************************************************)
(* m::fetch for any number of callers, keys and servers, any capacity and  *)
(* any limit of attempts: no request is without an attempt, and the worker *)
(* does not sleep beside one.                                              *)
(***************************************************************************)
EXTENDS Fetch, TLAPS

Places == {"idle", "dock", "lock", "start", "joined", "wait", "relock",
           "check", "again", "over", "sweep", "end"} \cup Answered

\* Where the worker has the mutex.
Busy == {"check", "again", "over", "sweep", "end"}

Types == /\ requests \subseteq Key /\ finished \subseteq requests
         /\ joined \in [Key -> SUBSET Caller]
         /\ future \in [Key -> {"none", "pending", "good", "bad"}]
         /\ at \in [Context -> Places]
         /\ asks \in [Caller -> Key \cup {None}]
         /\ work \in Key \cup {None}
         /\ \A c \in Caller : at[c] \in {"dock", "lock", "start", "joined"} => asks[c] \in Key

\* Requests change under the mutex.
Exclusive == /\ \A c \in Caller : at[c] = "start" => holder = c
             /\ at[Worker] \in Busy => holder = Worker

\* What a caller makes an attempt for.
Starts == \A c \in Caller : at[c] = "start" => asks[c] \in Unfinished /\ future[asks[c]] = "none"

\* What the worker goes on with.
Works ==
  /\ at[Worker] = "again" \/ (at[Worker] = "sweep" /\ work # None)
       => work \in Unfinished /\ future[work] = "none"
  /\ at[Worker] = "check" => work \in Unfinished /\ future[work] \in {"good", "bad"}
  /\ at[Worker] = "over" => work \in finished /\ joined[work] = {}

\* What comes of its wait.
Takes ==
  /\ at[Worker] \in {"wait", "relock"} /\ got # None
       => got \in Unfinished /\ future[got] \in {"good", "bad"}
  /\ at[Worker] = "relock" /\ ~late => got # None
  /\ at[Worker] \in {"dock", "lock"} => got = None /\ watched = {}

\* There are attempts for requests only.
Gone == \A k \in Key \ requests : future[k] = "none"

IInv == Types /\ Exclusive /\ Starts /\ Works /\ Takes /\ Gone /\ InFlight /\ Attended /\ Held

USE FetchAssumption

LEMMA InitHolds == Init => IInv
BY DEF Init, IInv, Types, Exclusive, Starts, Works, Takes, Gone, InFlight, Attended, Held,
   Context, Places, Answered, Busy, Unfinished, Attempting

LEMMA AskKeeps == ASSUME IInv, NEW c \in Caller, NEW k \in Key, Ask(c, k) PROVE IInv'
BY DEF Ask, Goes, request, pass, dock, IInv, Types, Exclusive, Starts, Works, Takes, Gone,
   InFlight, Attended, Held, Context, Places, Answered, Busy, Unfinished, Attempting

LEMMA ResumeKeeps == ASSUME IInv, NEW c \in Context, Resume(c) PROVE IInv'
BY DEF Resume, Ready, Goes, request, pass, dock, IInv, Types, Exclusive, Starts, Works,
   Takes, Gone, InFlight, Attended, Held, Context, Places, Answered, Busy, Unfinished,
   Attempting

LEMMA EnterKeeps == ASSUME IInv, NEW c \in Caller, Enter(c) PROVE IInv'
BY DEF Enter, Notify, Foremost, Goes, request, pass, dock, IInv, Types, Exclusive, Starts,
   Works, Takes, Gone, InFlight, Attended, Held, Context, Places, Answered, Busy,
   Unfinished, Attempting

LEMMA LeaveKeeps == ASSUME IInv, NEW c \in Caller, Leave(c) PROVE IInv'
BY DEF Leave, Foremost, Goes, request, pass, dock, IInv, Types, Exclusive, Starts, Works,
   Takes, Gone, InFlight, Attended, Held, Context, Places, Answered, Busy, Unfinished,
   Attempting

LEMMA AnswerKeeps == ASSUME IInv, NEW k \in Key, Answer(k) PROVE IInv'
BY DEF Answer, request, pass, dock, IInv, Types, Exclusive, Starts, Works, Takes, Gone,
   InFlight, Attended, Held, Context, Places, Answered, Busy, Unfinished, Attempting

LEMMA LateKeeps == ASSUME IInv, NEW k \in Key, Late(k) PROVE IInv'
BY DEF Late, request, pass, dock, IInv, Types, Exclusive, Starts, Works, Takes, Gone,
   InFlight, Attended, Held, Context, Places, Answered, Busy, Unfinished, Attempting

\* The worker goes on with an answer.
LEMMA HandleKeeps ==
  ASSUME IInv, NEW k \in Unfinished, future[k] \in {"good", "bad"}, at[Worker] \in {"lock", "wait", "relock"},
         holder = None, holder' = Worker, Handle(k),
         UNCHANGED <<requests, finished, joined, future, asks, dock>>
  PROVE  IInv'
BY DEF Handle, Goes, dock, IInv, Types, Exclusive, Starts, Works, Takes, Gone, InFlight,
   Attended, Held, Context, Places, Answered, Busy, Unfinished, Attempting

\* The worker goes on with the cleanup.
LEMMA SweepKeeps ==
  ASSUME IInv, at[Worker] \in {"lock", "wait", "relock"},
         holder = None, holder' = Worker, Sweep({}),
         UNCHANGED <<requests, finished, joined, future, asks, dock>>
  PROVE  IInv'
BY DEF Sweep, Goes, dock, IInv, Types, Exclusive, Starts, Works, Takes, Gone, InFlight,
   Attended, Held, Context, Places, Answered, Busy, Unfinished, Attempting

LEMMA LookKeeps == ASSUME IInv, Look PROVE IInv'
<1>1. CASE Arrived # {}
  <2>1. PICK k \in Arrived : Handle(k)
    BY <1>1 DEF Look
  <2>2. k \in Unfinished /\ future[k] \in {"good", "bad"}
    BY DEF Arrived, IInv, InFlight, Unfinished
  <2> QED BY <1>1, <2>1, <2>2, HandleKeeps DEF Look
<1>2. CASE Arrived = {} /\ Pending # {}
  BY <1>2 DEF Look, Goes, dock, IInv, Types, Exclusive, Starts, Works, Takes, Gone,
           InFlight, Attended, Held, Context, Places, Answered, Busy, Unfinished, Attempting
<1>3. CASE Arrived = {} /\ Pending = {}
  BY <1>3, SweepKeeps DEF Look
<1> QED BY <1>1, <1>2, <1>3

LEMMA RingKeeps == ASSUME IInv, Ring \/ Relock PROVE IInv'
<1>1. CASE holder = None /\ got # None /\ Handle(got) /\ holder' = Worker
  BY <1>1, HandleKeeps DEF Ring, Relock, request, IInv, Takes
<1>2. CASE holder = None /\ Sweep({}) /\ holder' = Worker
  BY <1>2, SweepKeeps DEF Ring, Relock, request
<1>3. CASE Ring /\ holder # None
  <2>1. ~late' => got # None
    BY <1>3, Zenon DEF Ring
  <2> QED BY <1>3, <2>1 DEF Ring, Goes, request, dock, IInv, Types, Exclusive, Starts,
     Works, Takes, Gone, InFlight, Attended, Held, Context, Places, Answered, Busy,
     Unfinished, Attempting
<1> QED BY <1>1, <1>2, <1>3 DEF Ring, Relock, Back, IInv, Takes

LEMMA CheckedKeeps == ASSUME IInv, Checked PROVE IInv'
BY DEF Checked, Abandoned, Erase, Cancel, Goes, request, pass, dock, IInv, Types,
   Exclusive, Starts, Works, Takes, Gone, InFlight, Attended, Held, Context, Places,
   Answered, Busy, Unfinished, Attempting

LEMMA OverKeeps == ASSUME IInv, Over PROVE IInv'
BY DEF Over, Abandoned, Erase, Sweep, Goes, request, pass, dock, IInv, Types, Exclusive,
   Starts, Works, Takes, Gone, InFlight, Attended, Held, Context, Places, Answered, Busy,
   Unfinished, Attempting

LEMMA AttemptKeeps ==
  ASSUME IInv, NEW c \in Context, NEW k \in Unfinished, NEW sent, NEW failed,
         future[k] = "none", Attempt(c, k, sent, failed), IF c = Worker THEN work = k ELSE asks[c] = k,
         \/ c # Worker /\ at[c] = "start" /\ sent = "joined" /\ failed = "error"
         \/ c = Worker /\ at[c] = "again" /\ sent = "end" /\ failed = "over"
         \/ c = Worker /\ at[c] = "sweep" /\ sent = "sweep" /\ failed = "sweep"
  PROVE  IInv'
<1>1. ASSUME NEW s \in Server, Failed(k, s), UNCHANGED asks PROVE IInv'
  BY <1>1 DEF Failed, dock, pass, IInv, Types, Exclusive, Starts, Works, Takes, Gone,
           InFlight, Attended, Held, Context, Places, Answered, Busy, Unfinished, Attempting
<1>2. ASSUME NEW s \in Server, Sent(k, s), Goes(c, sent), Tell(c), UNCHANGED <<asks, watched, got, late>>,
             IF c = Worker THEN holder' = holder /\ work' = None ELSE holder' = None /\ work' = work
      PROVE  IInv'
  BY <1>2 DEF Sent, Goes, Tell, IInv, Types, Exclusive, Starts, Works, Takes, Gone,
           InFlight, Attended, Held, Context, Places, Answered, Busy, Unfinished, Attempting
<1>3. ASSUME Finish(k), Answers(joined[k], "error", c, failed), UNCHANGED <<asks, watched, got, late>>,
             IF c = Worker THEN UNCHANGED <<holder, dock>> ELSE holder' = None /\ Notify,
             work' = IF failed = "sweep" THEN None ELSE work
      PROVE  IInv'
  BY <1>3 DEF Finish, Answers, Notify, dock, IInv, Types, Exclusive, Starts, Works,
     Takes, Gone, InFlight, Attended, Held, Context, Places, Answered, Busy, Unfinished,
     Attempting
<1> QED BY <1>1, <1>2, <1>3 DEF Attempt, Proffered

LEMMA SweepNextKeeps == ASSUME IInv, SweepNext PROVE IInv'
BY DEF SweepNext, Stale, Abandoned, Cancel, Goes, request, pass, dock, IInv, Types,
   Exclusive, Starts, Works, Takes, Gone, InFlight, Attended, Held, Context, Places,
   Answered, Busy, Unfinished, Attempting

LEMMA SweepEndKeeps == ASSUME IInv, SweepEnd PROVE IInv'
BY DEF SweepEnd, Answers, Erase, Goes, request, pass, dock, IInv, Types, Exclusive,
   Starts, Works, Takes, Gone, InFlight, Attended, Held, Context, Places, Answered, Busy,
   Unfinished, Attempting

LEMMA EndPassKeeps == ASSUME IInv, EndPass PROVE IInv'
BY DEF EndPass, Ready, Notify, Foremost, Goes, request, pass, dock, IInv, Types,
   Exclusive, Starts, Works, Takes, Gone, InFlight, Attended, Held, Context, Places,
   Answered, Busy, Unfinished, Attempting

LEMMA NextKeeps == ASSUME IInv, [Next]_vars PROVE IInv'
<1>1. CASE UNCHANGED vars
  BY <1>1 DEF vars, request, pass, dock, IInv, Types, Exclusive, Starts, Works, Takes, Gone,
           InFlight, Attended, Held, Context, Places, Answered, Busy, Unfinished, Attempting
<1>2. ASSUME NEW c \in Caller, FirstAttempt(c) PROVE IInv'
  BY <1>2, AttemptKeeps DEF FirstAttempt, IInv, Starts, Context
<1>3. CASE Again \/ SweepAttempt
  BY <1>3, AttemptKeeps DEF Again, SweepAttempt, IInv, Works, Context
<1> QED BY <1>1, <1>2, <1>3, AskKeeps, ResumeKeeps, EnterKeeps, LeaveKeeps, AnswerKeeps, LateKeeps,
           LookKeeps, RingKeeps, CheckedKeeps, OverKeeps, SweepNextKeeps, SweepEndKeeps, EndPassKeeps
        DEF Next, Passes

\* The mutex, the worker's wait and the callers' attempts agree in every
\* reachable state of the fetch unit.
THEOREM Invariance == Spec => []IInv
BY InitHolds, NextKeeps, PTL DEF Spec

\* Every request has an attempt or somebody making one, over failures of the
\* attempts and callers that leave; a finished one has none.
THEOREM AttemptsInFlight == Spec => []InFlight
<1>1. IInv => InFlight
  BY DEF IInv
<1> QED BY <1>1, Invariance, PTL

\* Whoever waits for an answer is still a future of the request he joined.
THEOREM FuturesHeld == Spec => []Held
<1>1. IInv => Held
  BY DEF IInv
<1> QED BY <1>1, Invariance, PTL

\* The worker is never asleep in fetch::dock beside a request under way.
THEOREM RequestsAttended == Spec => []Attended
<1>1. IInv => Attended
  BY DEF IInv
<1> QED BY <1>1, Invariance, PTL
=============================================================================

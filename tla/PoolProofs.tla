----------------------------- MODULE PoolProofs -----------------------------
(***************************************************************************)
(* The pool, for any number of workers and clients and every choice of     *)
(* limits, dispatch, interrupts, terminations and submitting handlers,     *)
(* while the queue takes something: clients are served, and so is the queue*)
(* until it is deserted.  And the calls of module ForEach over it, for any *)
(* number of elements: a frame outlives the closures that refer to it,     *)
(* because the latch counts at least those that are queued or run.         *)
(***************************************************************************)
EXTENDS ForEach, ListProofs, FiniteSetTheorems

Popping == {w \in Worker : pc[w] = "pop"}
Blocked == {c \in Client : pc[c] = "full"}

\* The docks list those that wait on them, once.
Listed == /\ \A w \in Worker : pc[w] \in {"posted", "pop", "work"} \cup Finished
          /\ \A c \in Client : pc[c] \in {"out", "full"}
          /\ Distinct(idle) /\ ToSet(idle) = Popping
          /\ Distinct(full) /\ ToSet(full) = Blocked

Working == \E w \in Worker : pc[w] = "work"

\* The clients' part, about who waits instead of the list.
Attended == \/ Blocked = {} \/ WouldBlock
            \/ \E c \in Blocked : c \notin asleep
            \/ size > 0 \/ Working

\* A worker was terminated in pop().
Gone == \E w \in Worker : pc[w] = "left"

\* The n last contexts of a list are not in A.
Late(q, n, A) == \A i \in DOMAIN q : i > Len(q) - n => q[i] \notin A

\* While nobody has left pop(), as many workers at the end of the list as there
\* are closures are being resumed: each push() notified another one.  Who leaves
\* passes its notification to the front, which may have one.
Noticed == Gone \/ Late(idle, size, asleep)

IInv == TypeOK /\ Listed /\ QueueServed /\ Attended /\ Noticed

-----------------------------------------------------------------------------
(* Lists.                                                                  *)

LEMMA ForemostProperties ==
  ASSUME NEW S, NEW q \in Seq(S)
  PROVE  /\ Foremost(q) \subseteq ToSet(q) /\ ToSet(q) \subseteq S
         /\ ToSet(q) # {} => \E x \in ToSet(q) : x \in Foremost(q)
<1>1. ToSet(q) \subseteq S
  BY DEF ToSet
<1>2. CASE q = <<>>
  BY <1>1, <1>2 DEF Foremost, ToSet
<1>3. CASE q # <<>>
  BY <1>1, <1>3, HeadInList DEF Foremost
<1> QED BY <1>2, <1>3

LEMMA PrependDistinct ==
  ASSUME NEW S, NEW q \in Seq(S), Distinct(q), NEW c \in S, c \notin ToSet(q)
  PROVE  /\ <<c>> \o q \in Seq(S)
         /\ Distinct(<<c>> \o q)
         /\ ToSet(<<c>> \o q) = ToSet(q) \cup {c}
<1> DEFINE r == <<c>> \o q
<1>0. Len(q) \in Nat /\ DOMAIN q = 1 .. Len(q)
  BY LenProperties
<1>1. /\ r \in Seq(S) /\ Len(r) = Len(q) + 1
      /\ \A k \in 1 .. Len(q) + 1 : r[k] = IF k = 1 THEN c ELSE q[k - 1]
  BY <1>0
<1>2. DOMAIN r = 1 .. Len(q) + 1
  BY <1>0, <1>1, LenProperties
<1> HIDE DEF r
<1>3. \A k \in DOMAIN r \ {1} : k - 1 \in DOMAIN q /\ r[k] = q[k - 1]
  BY <1>0, <1>1, <1>2
<1>4. Distinct(r)
  <2>1. ASSUME NEW k \in DOMAIN r \ {1} PROVE r[k] # c
    BY <1>3, <2>1 DEF ToSet
  <2> QED BY <1>0, <1>1, <1>2, <1>3, <2>1 DEF Distinct
<1>5. ToSet(r) = ToSet(q) \cup {c}
  <2>1. ASSUME NEW k \in DOMAIN q PROVE k + 1 \in DOMAIN r /\ r[k + 1] = q[k]
    BY <1>0, <1>1, <1>2
  <2>2. 1 \in DOMAIN r /\ r[1] = c
    BY <1>0, <1>1, <1>2
  <2> QED BY <1>3, <2>1, <2>2 DEF ToSet
<1> QED BY <1>1, <1>4, <1>5 DEF r

LEMMA LateNone ==
  ASSUME NEW S, NEW q \in Seq(S), NEW A
  PROVE  Late(q, 0, A)
<1>1. Len(q) \in Nat /\ DOMAIN q = 1 .. Len(q)
  BY LenProperties
<1> QED BY <1>1 DEF Late

LEMMA LateLess ==
  ASSUME NEW S, NEW q \in Seq(S), NEW n \in Nat, NEW A, Late(q, n, A),
         NEW m \in Nat, m <= n, NEW B \in SUBSET A
  PROVE  Late(q, m, B)
<1>1. Len(q) \in Nat /\ DOMAIN q = 1 .. Len(q)
  BY LenProperties
<1> QED BY <1>1 DEF Late

LEMMA LateAwake ==
  ASSUME NEW S, NEW q \in Seq(S), NEW n \in Nat, NEW A, Late(q, n, A),
         n > 0, ToSet(q) # {}
  PROVE  \E c \in ToSet(q) : c \notin A
<1>1. Len(q) \in Nat /\ DOMAIN q = 1 .. Len(q)
  BY LenProperties
<1>2. Len(q) \in DOMAIN q
  BY <1>1 DEF ToSet
<1> QED BY <1>1, <1>2 DEF Late, ToSet

LEMMA ListFinite ==
  ASSUME NEW S, NEW q \in Seq(S)
  PROVE  IsFiniteSet(ToSet(q))
<1>1. Len(q) \in Nat /\ DOMAIN q = 1 .. Len(q)
  BY LenProperties
<1>2. q \in Surjection(1 .. Len(q), ToSet(q))
  BY <1>1 DEF Surjection, ToSet
<1>3. IsFiniteSet(1 .. Len(q))
  BY <1>1, FS_Interval
<1> QED BY <1>2, <1>3, FS_Surjection

\* Who leaves the list with a closure leaves the others for the rest of them.
LEMMA LateUnlink ==
  ASSUME NEW S, NEW q \in Seq(S), NEW c \in ToSet(q), NEW n \in Nat \ {0}, NEW A,
         Late(q, n, A)
  PROVE  Late(Unlink(q, c), n - 1, A)
<1> DEFINE k == CHOOSE i \in DOMAIN q : q[i] = c
           r == RemoveAt(q, k)
<1>1. Len(q) \in Nat /\ DOMAIN q = 1 .. Len(q)
  BY LenProperties
<1>2. k \in 1 .. Len(q)
  BY <1>1 DEF ToSet
<1>3. Unlink(q, c) = r
  BY DEF Unlink
<1> HIDE DEF k
<1>4. /\ r \in Seq(S) /\ Len(r) = Len(q) - 1
      /\ \A i \in 1 .. Len(q) - 1 : r[i] = IF i < k THEN q[i] ELSE q[i + 1]
  BY <1>2, RemoveAtIndices
<1> HIDE DEF r
<1>5. DOMAIN r = 1 .. Len(q) - 1
  BY <1>4, LenProperties
<1>6. ASSUME NEW i \in DOMAIN r, i > Len(r) - (n - 1) PROVE r[i] \notin A
  <2>1. /\ i \in DOMAIN q /\ i + 1 \in DOMAIN q
        /\ i > Len(q) - n /\ i + 1 > Len(q) - n
    BY <1>1, <1>4, <1>5, <1>6
  <2>2. r[i] = q[i] \/ r[i] = q[i + 1]
    BY <1>4, <1>5
  <2> QED BY <2>1, <2>2 DEF Late
<1> QED BY <1>3, <1>6 DEF Late

\* The one that is notified goes to the end.
LEMMA LateRotate ==
  ASSUME NEW S, NEW q \in Seq(S), NEW n \in Nat, NEW A, Late(q, n, A)
  PROVE  Late(Rotate(q), n + 1, A \ Foremost(q))
<1>1. CASE q = <<>>
  BY <1>1 DEF Rotate, Late
<1>2. CASE q # <<>>
  <2> DEFINE t == Tail(q)
             h == Head(q)
  <2>1. Len(q) \in Nat /\ DOMAIN q = 1 .. Len(q) /\ h \in S
    BY <1>2, LenProperties, HeadInList
  <2>2. /\ t \in Seq(S) /\ Len(t) = Len(q) - 1
        /\ \A i \in 1 .. Len(q) - 1 : t[i] = q[i + 1]
    BY <1>2, HeadTailProperties
  <2> HIDE DEF t, h
  <2> DEFINE r == Append(t, h)
  <2>3. /\ r \in Seq(S) /\ Len(r) = Len(t) + 1
        /\ \A i \in 1 .. Len(t) : r[i] = t[i]
        /\ r[Len(t) + 1] = h
    <3>1. t \in Seq(S) /\ h \in S
      BY <2>1, <2>2
    <3> QED BY <3>1, AppendProperties
  <2> HIDE DEF r
  <2>4. DOMAIN r = 1 .. Len(q) /\ Len(r) = Len(q) /\ r[Len(q)] = h
    BY <2>1, <2>2, <2>3, LenProperties
  <2>5. ASSUME NEW i \in DOMAIN r, i > Len(r) - (n + 1)
        PROVE  r[i] \notin A \ Foremost(q)
    <3>1. CASE i = Len(q)
      BY <1>2, <2>4, <3>1 DEF Foremost, h
    <3>2. CASE i # Len(q)
      <4>1. i \in 1 .. Len(q) - 1 /\ i + 1 \in DOMAIN q /\ i + 1 > Len(q) - n
        BY <2>1, <2>4, <2>5, <3>2
      <4>2. r[i] = q[i + 1]
        BY <2>2, <2>3, <4>1
      <4> QED BY <4>1, <4>2 DEF Late
    <3> QED BY <3>1, <3>2
  <2>6. Rotate(q) = r
    BY <1>2 DEF Rotate, r, t, h
  <2> QED BY <2>5, <2>6 DEF Late
<1> QED BY <1>1, <1>2

-----------------------------------------------------------------------------
(* Workers.                                                                *)

\* Nobody who has finished comes back.
LEMMA GoneStays ==
  ASSUME \A x \in Worker : pc[x] \in Finished => pc'[x] = pc[x]
  PROVE  (Gone => Gone') /\ (Deserted => Deserted')
BY DEF Gone, Deserted, Finished

\* What main()'s loop leads to, whoever is notified on the way.
LEMMA LoopKeeps ==
  ASSUME IInv, NEW w \in Worker, pc[w] \notin Finished,
         NEW q \in Seq(Worker), Distinct(q), ToSet(q) = Popping \ {w},
         Gone \/ (size > 0 => Late(q, size - 1, asleep)),
         NEW awake \in SUBSET Member, Loop(w, q, awake),
         full' \in Seq(Client), Distinct(full'), ToSet(full') = Blocked,
         interrupted' \in SUBSET Member, terminated' = terminated
  PROVE  /\ TypeOK' /\ Listed' /\ QueueServed' /\ Noticed'
         /\ Blocked' = Blocked /\ asleep' \cap Client = (asleep \ awake) \cap Client
         /\ size > 0 => Working'
         /\ size = 0 => /\ size' = size
                        /\ pc' = [pc EXCEPT ![w] = "pop"]
<1>0. /\ pc \in [Member -> Pc] /\ size \in Nat /\ asleep \in SUBSET Member
      /\ w \in Member /\ w \notin Client /\ TypeOK /\ terminated \subseteq Worker
  BY PoolAssumption DEF IInv, TypeOK, Member
<1>1. CASE size > 0
  <2>1. /\ size' = size - 1 /\ idle' = q /\ asleep' = asleep \ awake
        /\ pc' = [pc EXCEPT ![w] = "work"]
    BY <1>1 DEF Loop
  <2>2. /\ pc' \in [Member -> Pc] /\ pc'[w] = "work"
        /\ \A x \in Member \ {w} : pc'[x] = pc[x]
    BY <1>0, <2>1 DEF Pc, Finished
  <2>3. Popping' = Popping \ {w} /\ Blocked' = Blocked
    BY <1>0, <2>2 DEF Popping, Blocked, Member
  <2>4. TypeOK'
    BY <1>0, <1>1, <2>1, <2>2 DEF TypeOK
  <2>5. Listed'
    BY <1>0, <2>1, <2>2, <2>3 DEF Listed, IInv, Member
  <2>6. QueueServed' /\ Working'
    BY <2>2 DEF QueueServed, ConsumerNotified, Working
  <2>7. Noticed'
    <3>1. CASE Gone
      BY <1>0, <2>2, <3>1, GoneStays DEF Noticed, Member
    <3>2. CASE ~Gone
      BY <1>0, <1>1, <2>1, <3>2, LateLess DEF Noticed
    <3> QED BY <3>1, <3>2
  <2> QED BY <1>1, <2>1, <2>3, <2>4, <2>5, <2>6, <2>7
<1>2. CASE size = 0
  <2>1. /\ size' = size /\ asleep' = (asleep \ awake) \cup {w}
        /\ pc' = [pc EXCEPT ![w] = "pop"]
        /\ idle' = IF Dispatch = "LIFO" THEN <<w>> \o q ELSE Append(q, w)
    BY <1>2 DEF Loop
  <2>2. /\ pc' \in [Member -> Pc] /\ pc'[w] = "pop"
        /\ \A x \in Member \ {w} : pc'[x] = pc[x]
    BY <1>0, <2>1 DEF Pc, Finished
  <2>3. Popping' = Popping \cup {w} /\ Blocked' = Blocked
    BY <1>0, <2>2 DEF Popping, Blocked, Member
  <2>4. idle' \in Seq(Worker) /\ Distinct(idle') /\ ToSet(idle') = Popping'
    BY <2>1, <2>3, AppendDistinct, PrependDistinct
  <2>5. TypeOK'
    BY <1>0, <1>2, <2>1, <2>2, <2>4 DEF TypeOK
  <2>6. Listed'
    BY <1>0, <2>1, <2>2, <2>3, <2>4 DEF Listed, IInv, Member
  <2>7. QueueServed'
    BY <1>2, <2>1 DEF QueueServed, ConsumerNotified
  <2>8. Noticed'
    <3>1. Late(idle', 0, asleep')
      BY <2>4, LateNone
    <3>2. size' = 0
      BY <1>2, <2>1
    <3> QED BY <3>1, <3>2 DEF Noticed
  <2> QED BY <1>0, <1>2, <2>1, <2>3, <2>5, <2>6, <2>7, <2>8
<1> QED BY <1>0, <1>1, <1>2

\* The loop after q_max was notified: by a new worker, or the end of a closure.
LEMMA NotifiedKeeps ==
  ASSUME IInv, NEW w \in Worker, pc[w] \in {"posted", "work"},
         Loop(w, idle, Foremost(full)), full' = Rotate(full),
         interrupted' \in SUBSET Member, terminated' = terminated
  PROVE  IInv'
<1>0. Gone \/ (size > 0 => Late(idle, size - 1, asleep))
  BY LateLess DEF IInv, Noticed, TypeOK
<1>1. /\ idle \in Seq(Worker) /\ Distinct(idle) /\ ToSet(idle) = Popping \ {w}
      /\ full \in Seq(Client) /\ Distinct(full) /\ ToSet(full) = Blocked
  BY DEF IInv, TypeOK, Listed, Popping
<1>2. full' \in Seq(Client) /\ Distinct(full') /\ ToSet(full') = Blocked
  BY <1>1, RotateProperties
<1>3. /\ Foremost(full) \in SUBSET Member
      /\ Blocked # {} => \E c \in Blocked : c \in Foremost(full)
  BY <1>1, ForemostProperties DEF Member
<1>4. /\ TypeOK' /\ Listed' /\ QueueServed' /\ Noticed'
      /\ Blocked' = Blocked /\ asleep' \cap Client = (asleep \ Foremost(full)) \cap Client
  BY <1>0, <1>1, <1>2, <1>3, LoopKeeps DEF Finished
<1>5. Attended'
  BY <1>3, <1>4 DEF Attended, Blocked
<1> QED BY <1>4, <1>5 DEF IInv

LEMMA PopInterruptedKeeps ==
  ASSUME IInv, NEW w \in Worker, PopInterrupted(w) PROVE IInv'
<1> DEFINE q == Unlink(idle, w)
<1>1. /\ pc[w] = "pop" /\ Loop(w, q, Foremost(q)) /\ full' = full
      /\ interrupted' \in SUBSET Member /\ terminated' = terminated
  BY DEF PopInterrupted, Clear, IInv, TypeOK
<1>2. /\ idle \in Seq(Worker) /\ Distinct(idle) /\ ToSet(idle) = Popping /\ w \in Popping
      /\ full \in Seq(Client) /\ Distinct(full) /\ ToSet(full) = Blocked
  BY <1>1 DEF IInv, TypeOK, Listed, Popping
<1>3. /\ q \in Seq(Worker) /\ Distinct(q) /\ ToSet(q) = Popping \ {w}
      /\ Gone \/ (size > 0 => Late(q, size - 1, asleep))
  BY <1>2, UnlinkProperties, LateUnlink DEF IInv, Noticed, TypeOK
<1> HIDE DEF q
<1>4. Foremost(q) \in SUBSET Member /\ Foremost(q) \cap Client = {}
  BY <1>3, ForemostProperties, PoolAssumption DEF Member
<1>5. /\ TypeOK' /\ Listed' /\ QueueServed' /\ Noticed'
      /\ Blocked' = Blocked /\ asleep' \cap Client = (asleep \ Foremost(q)) \cap Client
      /\ size > 0 => Working'
      /\ size = 0 => size' = size /\ pc' = [pc EXCEPT ![w] = "pop"]
  BY <1>1, <1>2, <1>3, <1>4, LoopKeeps DEF Finished
<1>6. Attended'
  <2>1. CASE size > 0
    BY <1>5, <2>1 DEF Attended
  <2>2. CASE size = 0
    <3>1. pc' = pc /\ size' = size
      BY <1>1, <1>5, <2>2 DEF IInv, TypeOK
    <3>2. (WouldBlock <=> WouldBlock') /\ (Working <=> Working')
      BY <3>1 DEF WouldBlock, Avail, Working
    <3>3. \A c \in Blocked : c \notin asleep => c \notin asleep'
      BY <1>4, <1>5 DEF Blocked
    <3> QED BY <1>5, <3>1, <3>2, <3>3 DEF IInv, Attended
  <2>3. size \in Nat
    BY DEF IInv, TypeOK
  <2> QED BY <2>1, <2>2, <2>3
<1> QED BY <1>1, <1>5, <1>6 DEF IInv

LEMMA PopResumeKeeps ==
  ASSUME IInv, NEW w \in Worker, PopResume(w) PROVE IInv'
<1>0. /\ pc \in [Member -> Pc] /\ size \in Nat /\ w \in Member /\ w \notin Client
      /\ pc[w] = "pop" /\ UNCHANGED <<full, flags>>
      /\ idle \in Seq(Worker) /\ Distinct(idle) /\ ToSet(idle) = Popping /\ w \in Popping
  BY PoolAssumption DEF PopResume, IInv, TypeOK, Listed, Popping, Member
<1>1. CASE size > 0
  <2>1. /\ size' = size - 1 /\ idle' = Unlink(idle, w) /\ asleep' = asleep
        /\ pc' = [pc EXCEPT ![w] = "work"]
    BY <1>1 DEF PopResume
  <2>2. idle' \in Seq(Worker) /\ Distinct(idle') /\ ToSet(idle') = Popping \ {w}
    BY <1>0, <2>1, UnlinkProperties
  <2>3. /\ pc' \in [Member -> Pc] /\ pc'[w] = "work"
        /\ \A x \in Member \ {w} : pc'[x] = pc[x]
    BY <1>0, <2>1 DEF Pc, Finished
  <2>4. Popping' = Popping \ {w} /\ Blocked' = Blocked
    BY <1>0, <2>3 DEF Popping, Blocked, Member
  <2>5. TypeOK' /\ terminated' = terminated
    BY <1>0, <1>1, <2>1, <2>2, <2>3 DEF IInv, TypeOK, flags
  <2>6. Listed'
    BY <1>0, <2>2, <2>3, <2>4 DEF Listed, IInv, Member
  <2>7. QueueServed' /\ Attended'
    BY <2>3 DEF QueueServed, ConsumerNotified, Attended, Working
  <2>8. Noticed'
    <3>1. CASE Gone
      BY <1>0, <2>3, <2>5, <3>1, GoneStays DEF IInv, Noticed, Finished, Member
    <3>2. CASE Late(idle, size, asleep)
      BY <1>0, <1>1, <2>1, <3>2, LateUnlink DEF Noticed
    <3> QED BY <3>1, <3>2 DEF IInv, Noticed
  <2> QED BY <2>5, <2>6, <2>7, <2>8 DEF IInv
<1>2. CASE size = 0
  <2>1. asleep' = asleep \cup {w} /\ UNCHANGED <<size, pc, idle, full, flags>>
    BY <1>0, <1>2 DEF PopResume
  <2>2. Noticed'
    BY <1>0, <1>2, <2>1, LateNone DEF Noticed
  <2> QED BY <1>0, <1>2, <2>1, <2>2
          DEF IInv, TypeOK, Listed, QueueServed, Deserted, ConsumerNotified, Attended,
              Popping, Blocked, Working, WouldBlock, Avail, flags
<1> QED BY <1>0, <1>1, <1>2

LEMMA StartFlaggedKeeps ==
  ASSUME IInv, NEW w \in Worker, StartFlagged(w) PROVE IInv'
<1>1. /\ pc[w] = "posted" /\ pc' = [pc EXCEPT ![w] = "unborn"]
      /\ UNCHANGED <<size, idle, full, asleep, terminated>>
      /\ interrupted' = interrupted \ {w}
  BY DEF StartFlagged, Clear
<1>2. /\ pc' \in [Member -> Pc] /\ pc'[w] = "unborn" /\ w \in Member /\ w \notin Client
      /\ \A x \in Member \ {w} : pc'[x] = pc[x]
  BY <1>1, PoolAssumption DEF IInv, TypeOK, Pc, Finished, Member
<1>3. Popping' = Popping /\ Blocked' = Blocked /\ (Working <=> Working')
  BY <1>1, <1>2 DEF Popping, Blocked, Working, Member
<1>4. WouldBlock' <=> WouldBlock
  BY <1>1, <1>3 DEF WouldBlock, Avail, Popping
<1>5. TypeOK' /\ Listed'
  BY <1>1, <1>2, <1>3 DEF IInv, TypeOK, Listed, Finished, Member
<1>6. QueueServed'
  <2>1. (\E v \in Worker : pc'[v] = "pop") => \E v \in Worker : pc[v] = "pop"
    BY <1>3 DEF Popping
  <2>2. Deserted => Deserted'
    BY <1>1, <1>2, GoneStays DEF Finished, Member
  <2> QED BY <1>1, <1>2, <2>1, <2>2 DEF IInv, QueueServed, ConsumerNotified, Member
<1>7. Attended'
  BY <1>1, <1>3, <1>4 DEF IInv, Attended
<1>8. Noticed'
  BY <1>1, <1>2, GoneStays DEF IInv, Noticed, Finished, Member
<1> QED BY <1>1, <1>5, <1>6, <1>7, <1>8 DEF IInv

\* A worker that is terminated leaves pop(): whoever is next is notified.
LEMMA PopTerminatedKeeps ==
  ASSUME IInv, NEW w \in Worker, PopTerminated(w) PROVE IInv'
<1>1. /\ pc[w] = "pop" /\ w \in terminated /\ pc' = [pc EXCEPT ![w] = "left"]
      /\ idle' = Unlink(idle, w) /\ asleep' = asleep \ Foremost(idle')
      /\ UNCHANGED <<size, full, interrupted, terminated>>
  BY DEF PopTerminated, flags
<1>2. /\ pc' \in [Member -> Pc] /\ pc'[w] = "left" /\ w \in Member /\ w \notin Client
      /\ \A x \in Member \ {w} : pc'[x] = pc[x]
      /\ Worker \cap Client = {} /\ size \in Nat
  BY <1>1, PoolAssumption DEF IInv, TypeOK, Pc, Finished, Member
<1>3. /\ Popping' = Popping \ {w} /\ Blocked' = Blocked /\ w \in Popping
      /\ Working => Working'
  BY <1>1, <1>2 DEF Popping, Blocked, Working, Member
<1>4. idle \in Seq(Worker) /\ Distinct(idle) /\ ToSet(idle) = Popping
  BY DEF IInv, TypeOK, Listed
<1>5. idle' \in Seq(Worker) /\ Distinct(idle') /\ ToSet(idle') = Popping'
  BY <1>1, <1>3, <1>4, UnlinkProperties
<1>6. /\ Foremost(idle') \subseteq Popping'
      /\ Popping' # {} => \E x \in Popping' : x \in Foremost(idle')
  BY <1>5, ForemostProperties
<1>7. TypeOK' /\ Listed'
  BY <1>1, <1>2, <1>3, <1>5 DEF IInv, TypeOK, Listed, Finished, Member
<1>8. QueueServed'
  BY <1>1, <1>6 DEF QueueServed, ConsumerNotified, Popping
<1>9. Noticed'
  BY <1>1, <1>2 DEF Noticed, Gone
<1>10. WouldBlock => WouldBlock'
  <2>1. IsFiniteSet(Popping)
    BY <1>4, ListFinite
  <2>2. Avail = Cardinality(Popping) /\ Avail' = Cardinality(Popping \ {w})
    BY <1>3 DEF Avail, Popping
  <2>3. Cardinality(Popping) \in Nat /\ Cardinality(Popping \ {w}) = Cardinality(Popping) - 1
    BY <1>3, <2>1, FS_CardinalityType, FS_RemoveElement
  <2> QED BY <1>1, <1>2, <2>2, <2>3, PoolAssumption DEF WouldBlock
<1>11. Attended'
  <2>1. ASSUME NEW c \in Blocked, c \notin asleep PROVE c \notin asleep'
    BY <1>1, <2>1
  <2> QED BY <1>1, <1>3, <1>10, <2>1 DEF IInv, Attended
<1> QED BY <1>1, <1>7, <1>8, <1>9, <1>11 DEF IInv

\* It leaves main() after a closure: nobody is notified for what is queued, but
\* everybody was, unless somebody has left pop() before.
LEMMA JobTerminatedKeeps ==
  ASSUME IInv, NEW w \in Worker, JobTerminated(w) PROVE IInv'
<1>1. /\ pc[w] = "work" /\ w \in terminated /\ pc' = [pc EXCEPT ![w] = "quit"]
      /\ full' = Rotate(full) /\ asleep' = asleep \ Foremost(full)
      /\ UNCHANGED <<size, idle, interrupted, terminated>>
  BY DEF JobTerminated, flags
<1>2. /\ pc' \in [Member -> Pc] /\ pc'[w] = "quit" /\ w \in Member /\ w \notin Client
      /\ \A x \in Member \ {w} : pc'[x] = pc[x]
      /\ Worker \cap Client = {} /\ size \in Nat
  BY <1>1, PoolAssumption DEF IInv, TypeOK, Pc, Finished, Member
<1>3. Popping' = Popping /\ Blocked' = Blocked
  BY <1>1, <1>2 DEF Popping, Blocked, Member
<1>4. /\ idle \in Seq(Worker) /\ ToSet(idle) = Popping
      /\ full \in Seq(Client) /\ Distinct(full) /\ ToSet(full) = Blocked
  BY DEF IInv, TypeOK, Listed
<1>5. full' \in Seq(Client) /\ Distinct(full') /\ ToSet(full') = Blocked
  BY <1>1, <1>4, RotateProperties
<1>6. Blocked # {} => \E c \in Blocked : c \in Foremost(full)
  BY <1>4, ForemostProperties
<1>7. TypeOK' /\ Listed'
  BY <1>1, <1>2, <1>3, <1>5 DEF IInv, TypeOK, Listed, Finished, Member
<1>8. Gone => Gone'
  BY <1>1, <1>2 DEF Gone, Member
<1>9. QueueServed'
  <2>1. CASE Gone
    BY <1>2, <1>8, <2>1 DEF QueueServed, Deserted, Gone
  <2>2. CASE ~Gone
    <3>1. size > 0 /\ Popping # {} => \E x \in Popping : x \notin asleep
      BY <1>2, <1>4, <2>2, LateAwake DEF IInv, Noticed
    <3>2. \A x \in Popping : pc'[x] = "pop" /\ (x \notin asleep => x \notin asleep')
      BY <1>1, <1>3 DEF Popping
    <3> QED BY <1>1, <1>3, <3>1, <3>2 DEF QueueServed, ConsumerNotified, Popping
  <2> QED BY <2>1, <2>2
<1>10. Noticed'
  BY <1>1, <1>8 DEF IInv, Noticed, Late
<1>11. Attended'
  BY <1>1, <1>3, <1>6 DEF Attended
<1> QED BY <1>1, <1>7, <1>9, <1>10, <1>11 DEF IInv

-----------------------------------------------------------------------------
(* Clients.                                                                *)

\* A submission that does not wait: a closure is queued, or there is one.
LEMMA PushKeeps ==
  ASSUME IInv, Hard > 0, Push,
         pc' \in [Member -> Pc], \A w \in Worker : pc'[w] = pc[w],
         \A c \in Client : pc'[c] \in {"out", "full"},
         full' \in Seq(Client), Distinct(full'), ToSet(full') = Blocked',
         UNCHANGED flags
  PROVE  IInv'
<1>0. /\ size \in Nat /\ Hard \in Nat /\ Hard > 0
      /\ idle \in Seq(Worker) /\ Distinct(idle) /\ ToSet(idle) = Popping
  BY PoolAssumption DEF IInv, TypeOK, Listed
<1>1. Popping' = Popping
  BY DEF Popping
<1>2. /\ idle' \in Seq(Worker) /\ Distinct(idle') /\ ToSet(idle') = Popping
      /\ size' \in Nat /\ size' > 0 /\ asleep' \in SUBSET asleep
  BY <1>0, RotateProperties DEF Push
<1>3. TypeOK' /\ terminated' = terminated
  BY <1>2 DEF IInv, TypeOK, flags
<1>4. Listed'
  BY <1>1, <1>2 DEF IInv, Listed
<1>5. QueueServed'
  <2>1. CASE size < Hard
    <3>1. asleep' = asleep \ Foremost(idle)
      BY <2>1 DEF Push
    <3>2. Popping # {} => \E w \in Popping : w \in Foremost(idle)
      BY <1>0, ForemostProperties
    <3> QED BY <3>1, <3>2 DEF QueueServed, ConsumerNotified, Popping
  <2>2. CASE ~(size < Hard)
    <3>1. size > 0 /\ asleep' = asleep
      BY <1>0, <2>2 DEF Push
    <3> QED BY <3>1 DEF IInv, QueueServed, Deserted, ConsumerNotified
  <2> QED BY <2>1, <2>2
<1>6. Attended'
  BY <1>2 DEF Attended
<1>7. Noticed'
  <2>1. CASE Gone
    BY <1>3, <2>1, GoneStays DEF IInv, Noticed
  <2>2. CASE Late(idle, size, asleep) /\ size < Hard
    BY <1>0, <2>2, LateRotate DEF Noticed, Push
  <2>3. CASE Late(idle, size, asleep) /\ ~(size < Hard)
    BY <2>3 DEF Noticed, Push
  <2> QED BY <2>1, <2>2, <2>3 DEF IInv, Noticed
<1> QED BY <1>3, <1>4, <1>5, <1>6, <1>7 DEF IInv

\* A client waits.
LEMMA WaitKeeps ==
  ASSUME IInv, NEW c \in Client, WouldBlock,
         pc' = [pc EXCEPT ![c] = "full"], asleep' = asleep \cup {c},
         full' \in Seq(Client), Distinct(full'), ToSet(full') = Blocked \cup {c},
         UNCHANGED <<size, idle, flags>>
  PROVE  IInv'
<1>1. /\ pc' \in [Member -> Pc] /\ pc'[c] = "full" /\ c \in Member /\ c \notin Worker
      /\ \A x \in Member \ {c} : pc'[x] = pc[x]
  BY PoolAssumption DEF IInv, TypeOK, Pc, Finished, Member
<1>2. \A w \in Worker : pc'[w] = pc[w]
  BY <1>1 DEF Member
<1>3. Popping' = Popping /\ Blocked' = Blocked \cup {c}
  BY <1>1, <1>2 DEF Popping, Blocked, Member
<1>4. WouldBlock'
  BY <1>3 DEF WouldBlock, Avail, Popping
<1>5. TypeOK' /\ Listed' /\ terminated' = terminated
  BY <1>1, <1>2, <1>3 DEF IInv, TypeOK, Listed, Member, flags
<1>6. QueueServed'
  BY <1>1, <1>2 DEF IInv, QueueServed, Deserted, ConsumerNotified
<1>7. Noticed'
  <2>1. \A i \in DOMAIN idle : idle[i] # c
    BY <1>1 DEF IInv, TypeOK
  <2>2. Gone => Gone'
    BY <1>2, <1>5, GoneStays DEF IInv
  <2> QED BY <2>1, <2>2 DEF IInv, Noticed, Late
<1> QED BY <1>4, <1>5, <1>6, <1>7 DEF IInv, Attended

LEMMA SubmitKeeps ==
  ASSUME IInv, Hard > 0, NEW c \in Client, Submit(c) PROVE IInv'
<1>1. /\ pc[c] = "out" /\ UNCHANGED flags /\ c \notin Blocked
      /\ full \in Seq(Client) /\ Distinct(full) /\ ToSet(full) = Blocked
  BY DEF Submit, IInv, TypeOK, Listed, Blocked
<1>2. CASE WouldBlock
  <2>1. /\ full' = Append(full, c) /\ pc' = [pc EXCEPT ![c] = "full"]
        /\ asleep' = asleep \cup {c} /\ UNCHANGED <<size, idle>>
    BY <1>2 DEF Submit
  <2>2. full' \in Seq(Client) /\ Distinct(full') /\ ToSet(full') = Blocked \cup {c}
    BY <1>1, <2>1, AppendDistinct
  <2> QED BY <1>1, <1>2, <2>1, <2>2, WaitKeeps
<1>3. CASE ~WouldBlock
  <2>1. Push /\ UNCHANGED <<pc, full>>
    BY <1>3 DEF Submit
  <2>2. Blocked' = Blocked
    BY <2>1 DEF Blocked
  <2> QED BY <1>1, <2>1, <2>2, PushKeeps DEF IInv, TypeOK, Listed
<1> QED BY <1>2, <1>3

\* A client leaves the list of q_max.
LEMMA LeavesFull ==
  ASSUME IInv, NEW c \in Client, pc[c] = "full",
         full' = Unlink(full, c), pc' = [pc EXCEPT ![c] = "out"]
  PROVE  /\ full' \in Seq(Client) /\ Distinct(full') /\ ToSet(full') = Blocked'
         /\ pc' \in [Member -> Pc] /\ \A w \in Worker : pc'[w] = pc[w]
         /\ \A d \in Client : pc'[d] \in {"out", "full"}
<1>1. /\ full \in Seq(Client) /\ Distinct(full) /\ ToSet(full) = Blocked /\ c \in Blocked
  BY DEF IInv, TypeOK, Listed, Blocked
<1>2. full' \in Seq(Client) /\ Distinct(full') /\ ToSet(full') = Blocked \ {c}
  BY <1>1, UnlinkProperties
<1>3. /\ pc' \in [Member -> Pc] /\ pc'[c] = "out" /\ c \in Member /\ c \notin Worker
      /\ \A x \in Member \ {c} : pc'[x] = pc[x]
  BY PoolAssumption DEF IInv, TypeOK, Pc, Finished, Member
<1>4. Blocked' = Blocked \ {c}
  BY <1>3 DEF Blocked, Member
<1> QED BY <1>2, <1>3, <1>4 DEF IInv, Listed, Member

LEMMA SubmitResumeKeeps ==
  ASSUME IInv, Hard > 0, NEW c \in Client, SubmitResume(c) PROVE IInv'
<1>1. pc[c] = "full" /\ UNCHANGED flags
  BY DEF SubmitResume
<1>2. CASE WouldBlock
  <2>1. asleep' = asleep \cup {c} /\ UNCHANGED <<pc, full, size, idle>>
    BY <1>2 DEF SubmitResume
  <2>2. pc' = [pc EXCEPT ![c] = "full"] /\ Blocked = Blocked \cup {c}
    BY <1>1, <2>1 DEF IInv, TypeOK, Blocked
  <2> QED BY <1>1, <1>2, <2>1, <2>2, WaitKeeps DEF IInv, TypeOK, Listed
<1>3. CASE ~WouldBlock
  <2>1. Push /\ full' = Unlink(full, c) /\ pc' = [pc EXCEPT ![c] = "out"]
    BY <1>3 DEF SubmitResume
  <2> QED BY <1>1, <2>1, LeavesFull, PushKeeps
<1> QED BY <1>2, <1>3

LEMMA SubmitInterruptedKeeps ==
  ASSUME IInv, NEW c \in Client, SubmitInterrupted(c) PROVE IInv'
<1>1. /\ pc[c] = "full" /\ full' = Unlink(full, c) /\ pc' = [pc EXCEPT ![c] = "out"]
      /\ asleep' = asleep \ Foremost(full') /\ UNCHANGED <<size, idle, terminated>>
      /\ interrupted' = interrupted \ {c}
  BY DEF SubmitInterrupted, Clear
<1>2. /\ full' \in Seq(Client) /\ Distinct(full') /\ ToSet(full') = Blocked'
      /\ pc' \in [Member -> Pc] /\ \A w \in Worker : pc'[w] = pc[w]
      /\ \A d \in Client : pc'[d] \in {"out", "full"}
  BY <1>1, LeavesFull
<1>3. Popping' = Popping
  BY <1>2 DEF Popping
<1>4. Blocked' # {} => \E d \in Blocked' : d \in Foremost(full')
  BY <1>2, ForemostProperties
<1>5. TypeOK' /\ Listed' /\ terminated' = terminated
  BY <1>1, <1>2, <1>3 DEF IInv, TypeOK, Listed
<1>6. QueueServed'
  BY <1>1, <1>2 DEF IInv, QueueServed, Deserted, ConsumerNotified
<1>7. Attended'
  BY <1>1, <1>4 DEF Attended
<1>8. Noticed'
  <2>1. Gone => Gone'
    BY <1>2, <1>5, GoneStays DEF IInv
  <2> QED BY <1>1, <2>1 DEF IInv, Noticed, Late
<1> QED BY <1>5, <1>6, <1>7, <1>8 DEF IInv

-----------------------------------------------------------------------------

LEMMA InterruptKeeps ==
  ASSUME IInv, NEW c \in Member, Interrupt(c) PROVE IInv'
<1>1. /\ UNCHANGED <<pc, size, idle, full, terminated>>
      /\ asleep' = asleep \ {c} /\ interrupted' = interrupted \cup {c}
  BY DEF Interrupt
<1> QED BY <1>1 DEF IInv, TypeOK, Listed, QueueServed, Deserted, ConsumerNotified, Attended,
                    Popping, Blocked, Working, WouldBlock, Avail, Noticed, Gone, Late

LEMMA TerminateKeeps ==
  ASSUME IInv, NEW w \in Worker, Terminate(w) PROVE IInv'
<1>1. /\ UNCHANGED <<pc, size, idle, full, interrupted>> /\ w \in Terminable
      /\ asleep' = asleep \ {w} /\ terminated' = terminated \cup {w}
  BY DEF Terminate
<1> QED BY <1>1 DEF IInv, TypeOK, Listed, QueueServed, Deserted, ConsumerNotified, Attended,
                    Popping, Blocked, Working, WouldBlock, Avail, Noticed, Gone, Late

LEMMA StutterKeeps == ASSUME IInv, UNCHANGED vars PROVE IInv'
BY DEF vars, flags, IInv, TypeOK, Listed, QueueServed, Deserted, ConsumerNotified, Attended,
       Popping, Blocked, Working, WouldBlock, Avail, Noticed, Gone, Late

LEMMA NextKeeps == ASSUME IInv, Hard > 0, [Next]_vars PROVE IInv'
<1>1. ASSUME NEW w \in Worker, Start(w) \/ JobDone(w) \/ JobThrew(w) PROVE IInv'
  <2>1. /\ pc[w] \in {"posted", "work"}
        /\ Loop(w, idle, Foremost(full)) /\ full' = Rotate(full)
        /\ interrupted' \in SUBSET Member /\ terminated' = terminated
    BY <1>1 DEF Start, JobDone, JobThrew, Clear, flags, IInv, TypeOK
  <2> QED BY <2>1, NotifiedKeeps
<1>2. ASSUME NEW w \in Worker, WorkerStep(w) PROVE IInv'
  BY <1>1, <1>2, StartFlaggedKeeps, PopResumeKeeps, PopInterruptedKeeps,
     PopTerminatedKeeps, JobTerminatedKeeps DEF WorkerStep
<1>3. ASSUME NEW w \in Worker, Terminate(w) PROVE IInv'
  BY <1>3, TerminateKeeps
<1>4. CASE SubmitHandler
  <2>1. Push /\ UNCHANGED <<pc, full, flags>>
    BY <1>4 DEF SubmitHandler
  <2>2. Blocked' = Blocked
    BY <2>1 DEF Blocked
  <2> QED BY <2>1, <2>2, PushKeeps DEF IInv, TypeOK, Listed
<1> QED BY <1>2, <1>3, <1>4, SubmitKeeps, SubmitResumeKeeps, SubmitInterruptedKeeps,
           InterruptKeeps, StutterKeeps DEF Next, ClientStep, Member

LEMMA InitHolds == ASSUME Init PROVE IInv
<1>1. /\ pc = [c \in Member |-> IF c \in Worker THEN "posted" ELSE "out"]
      /\ Worker \cap Client = {} /\ size = 0 /\ idle = <<>> /\ full = <<>>
  BY PoolAssumption DEF Init
<1>2. Popping = {} /\ Blocked = {}
  BY <1>1 DEF Popping, Blocked, Member
<1>3. TypeOK /\ terminated = {}
  BY <1>1 DEF Init, TypeOK, Pc
<1>4. Listed
  BY <1>1, <1>2 DEF Listed, Distinct, ToSet, Member
<1>5. Noticed
  BY <1>1, <1>3 DEF Noticed, Late, Init
<1> QED BY <1>1, <1>2, <1>3, <1>4, <1>5 DEF IInv, QueueServed, ConsumerNotified, Attended

\* In every reachable state of a pool that takes closures, whoever is interrupted
\* or terminated, docks, queue and contexts agree, clients are attended to, and
\* until a worker was terminated in pop() every push has woken another worker.
THEOREM Invariance == ASSUME Hard > 0 PROVE Spec => []IInv
<1>1. Init => IInv
  BY InitHolds
<1>2. IInv /\ [Next]_vars => IInv'
  BY NextKeeps
<1> QED BY <1>1, <1>2, PTL DEF Spec

\* A closure that is queued has a worker that will look at the queue, or the pool
\* was deserted, whoever is interrupted and however many workers are terminated,
\* in whatever order workers and submitters test.
THEOREM QueueIsServed == ASSUME Hard > 0 PROVE Spec => []QueueServed
<1>1. IInv => QueueServed
  BY DEF IInv
<1> QED BY <1>1, Invariance, PTL

\* A client that could submit is being resumed, or will be at the end of some
\* closure, whatever is interrupted or terminated.
THEOREM ClientsAreServed == ASSUME Hard > 0 PROVE Spec => []ClientsServed
<1>1. ASSUME IInv PROVE ClientsServed
  <2>1. full \in Seq(Client) /\ ToSet(full) = Blocked
    BY <1>1 DEF IInv, TypeOK, Listed
  <2>2. full # <<>> => Blocked # {}
    BY <2>1, HeadInList
  <2>3. ASSUME NEW c \in Blocked, c \notin asleep PROVE \E i \in DOMAIN full : full[i] \notin asleep
    BY <2>1, <2>3 DEF ToSet
  <2> QED BY <1>1, <2>2, <2>3 DEF IInv, Attended, ClientsServed, Working
<1> QED BY <1>1, Invariance, PTL

\* While a closure is queued and workers wait, one of these is being resumed,
\* until a worker was terminated in pop(): one that is interrupted, overtaken, or
\* terminated in its closure takes no notification with it.
THEOREM NoClosureStranded ==
  ASSUME Hard > 0
  PROVE  Spec => []((\A w \in Worker : pc[w] # "left") => NoStrandedClosure)
<1> DEFINE Kept == (\A w \in Worker : pc[w] # "left") => NoStrandedClosure
<1>1. ASSUME IInv PROVE Kept
  <2>1. idle \in Seq(Worker) /\ size \in Nat
    BY <1>1 DEF IInv, TypeOK
  <2>2. ASSUME size > 0, idle # <<>>, \A w \in Worker : pc[w] # "left"
        PROVE  \E i \in DOMAIN idle : idle[i] \notin asleep
    <3>1. Late(idle, size, asleep)
      BY <1>1, <2>2 DEF IInv, Noticed, Gone
    <3>2. ToSet(idle) # {}
      BY <2>1, <2>2, HeadInList
    <3>3. \E w \in ToSet(idle) : w \notin asleep
      BY <2>1, <2>2, <3>1, <3>2, LateAwake
    <3> QED BY <3>3 DEF ToSet
  <2> QED BY <2>2 DEF NoStrandedClosure
<1> HIDE DEF Kept
<1>2. Spec => []Kept
  BY <1>1, Invariance, PTL
<1> QED BY <1>2 DEF Kept

-----------------------------------------------------------------------------
(* The number of workers inside pop().                                     *)

LEMMA AvailNat ==
  ASSUME IInv
  PROVE  Avail \in Nat /\ Avail = Cardinality(Popping) /\ IsFiniteSet(Popping)
<1>1. IsFiniteSet(Popping)
  BY ListFinite DEF IInv, TypeOK, Listed
<1> QED BY <1>1, FS_CardinalityType DEF Avail, Popping

\* Who takes a closure leaves pop(), if that is where it was.
LEMMA TakingCounts ==
  ASSUME IInv, IInv', NEW w \in Worker, Soft = 0, size <= Avail,
         pc' = [pc EXCEPT ![w] = "work"], size' = size - 1
  PROVE  size' <= Avail'
<1>1. /\ pc \in [Member -> Pc] /\ w \in Member /\ size \in Nat
  BY DEF IInv, TypeOK, Member
<1>2. Popping' = Popping \ {w}
  BY <1>1 DEF Popping, Member
<1>3. Avail' = Cardinality(Popping') /\ Avail' \in Nat
  BY AvailNat, FS_CardinalityType, <1>2, FS_RemoveElement DEF Avail, Popping
<1>4. Avail' >= Avail - 1
  BY <1>2, <1>3, AvailNat, FS_RemoveElement
<1> QED BY <1>1, <1>3, <1>4, AvailNat

LEMMA LoopCounts ==
  ASSUME IInv, IInv', NEW w \in Worker, NEW q, NEW A, Soft = 0, size <= Avail,
         Loop(w, q, A)
  PROVE  size' <= Avail'
<1>1. CASE size > 0
  BY <1>1, TakingCounts DEF Loop
<1>2. CASE size = 0
  <2>1. size' = 0 /\ IsFiniteSet(Popping')
    BY <1>2, ListFinite DEF Loop, IInv, TypeOK, Listed
  <2>2. Avail' \in Nat
    BY <2>1, FS_CardinalityType DEF Avail, Popping
  <2> QED BY <2>1, <2>2
<1> QED BY <1>1, <1>2 DEF IInv, TypeOK

LEMMA PushCounts ==
  ASSUME IInv, Soft = 0, ~WouldBlock, Push, \A w \in Worker : pc'[w] = pc[w]
  PROVE  size' <= Avail'
<1>0. Avail' = Avail
  BY DEF Avail
<1>1. Avail' = Avail /\ Avail \in Nat /\ size \in Nat /\ size < Avail
  BY <1>0, AvailNat DEF WouldBlock, IInv, TypeOK
<1>2. size' = size + 1 \/ size' = size
  BY DEF Push
<1> QED BY <1>1, <1>2

LEMMA SameCounts ==
  ASSUME IInv, size <= Avail, size' = size, \A w \in Worker : pc[w] = "pop" => pc'[w] = "pop",
         \A w \in Worker : pc'[w] = "pop" => pc[w] = "pop"
  PROVE  size' <= Avail'
BY DEF Avail

LEMMA NoQueueingKept == ASSUME IInv, IInv', NoQueueing, [Next]_vars PROVE NoQueueing'
<1> SUFFICES ASSUME Soft = 0, ~Handlers, terminated' = {} PROVE size' <= Avail'
  BY DEF NoQueueing
<1>1. terminated = {} /\ pc \in [Member -> Pc] /\ Worker \cap Client = {}
  BY PoolAssumption
     DEF Next, WorkerStep, ClientStep, vars, flags, Start, StartFlagged, PopResume,
         PopInterrupted, PopTerminated, JobDone, JobThrew, JobTerminated, Clear, Terminate,
         Interrupt, Submit, SubmitResume, SubmitInterrupted, SubmitHandler, IInv, TypeOK
<1>2. size <= Avail
  BY <1>1 DEF NoQueueing
<1>3. ASSUME NEW w \in Worker, WorkerStep(w) PROVE size' <= Avail'
  <2>1. CASE Start(w) \/ PopInterrupted(w) \/ JobDone(w) \/ JobThrew(w)
    BY <1>2, <2>1, LoopCounts DEF Start, PopInterrupted, JobDone, JobThrew
  <2>2. CASE StartFlagged(w)
    <3>1. size' = size /\ pc[w] = "posted" /\ pc' = [pc EXCEPT ![w] = "unborn"]
      BY <2>2 DEF StartFlagged
    <3> QED BY <1>1, <1>2, <3>1, SameCounts DEF Member
  <2>3. CASE PopResume(w)
    <3>1. CASE size > 0
      BY <1>2, <2>3, <3>1, TakingCounts DEF PopResume
    <3>2. CASE ~(size > 0)
      BY <1>2, <2>3, <3>2, SameCounts DEF PopResume
    <3> QED BY <3>1, <3>2
  <2> QED BY <1>1, <1>3, <2>1, <2>2, <2>3 DEF WorkerStep, PopTerminated, JobTerminated
<1>4. ASSUME NEW c \in Client, Submit(c) \/ SubmitResume(c) PROVE size' <= Avail'
  <2>1. CASE WouldBlock
    <3>1. /\ size' = size
          /\ pc' = [pc EXCEPT ![c] = "full"] \/ pc' = pc
      BY <1>4, <2>1 DEF Submit, SubmitResume
    <3> QED BY <1>1, <1>2, <3>1, SameCounts DEF Member
  <2>2. CASE ~WouldBlock
    <3>1. Push /\ (pc' = [pc EXCEPT ![c] = "out"] \/ pc' = pc)
      BY <1>4, <2>2 DEF Submit, SubmitResume
    <3>2. \A w \in Worker : pc'[w] = pc[w]
      BY <1>1, <3>1 DEF Member
    <3> QED BY <2>2, <3>1, <3>2, PushCounts
  <2> QED BY <2>1, <2>2
<1>5. ASSUME NEW c \in Client, SubmitInterrupted(c) PROVE size' <= Avail'
  <2>1. size' = size /\ pc' = [pc EXCEPT ![c] = "out"]
    BY <1>5 DEF SubmitInterrupted
  <2> QED BY <1>1, <1>2, <2>1, SameCounts DEF Member
<1>6. ASSUME UNCHANGED <<pc, size>> PROVE size' <= Avail'
  BY <1>2, <1>6, SameCounts
<1> QED BY <1>3, <1>4, <1>5, <1>6
        DEF Next, ClientStep, SubmitHandler, Terminate, Interrupt, vars

\* Contexts alone never queue more closures than there are workers that wait
\* for one, when opts::queue_max_soft is zero, in whatever order their tests
\* and the workers' steps interleave.
THEOREM NothingQueues == ASSUME Hard > 0 PROVE Spec => []NoQueueing
<1>1. Init => NoQueueing
  <2>1. ASSUME Init PROVE size <= Avail
    BY <2>1, InitHolds, AvailNat DEF Init
  <2> QED BY <2>1 DEF NoQueueing
<1>2. IInv /\ IInv' /\ NoQueueing /\ [Next]_vars => NoQueueing'
  BY NoQueueingKept
<1> QED BY <1>1, <1>2, Invariance, PTL DEF Spec

-----------------------------------------------------------------------------
(* The calls of module ForEach.                                            *)

LEMMA CallStepIsPoolStep == ASSUME [CallNext]_callVars PROVE [Next]_vars
<1>1. ASSUME NEW c \in Client, Begin(c) \/ Call(c) PROVE [Next]_vars
  BY <1>1 DEF Begin, Call, Send, SendResume, SendInterrupted, EndLoop, AwaitResume,
              Next, ClientStep
<1>2. ASSUME NEW w \in Worker, Work(w) PROVE [Next]_vars
  BY <1>2 DEF Work, Next, WorkerStep
<1>3. ASSUME OtherJob \/ Signal PROVE [Next]_vars
  BY <1>3 DEF OtherJob, Signal, Next
<1> QED BY <1>1, <1>2, <1>3 DEF CallNext, callVars

\* Whatever calls there are, the pool under them behaves as module Pool says.
THEOREM CallsUseThePool == CallSpec => Spec
<1>1. CallInit => Init
  BY DEF CallInit
<1>2. [CallNext]_callVars => [Next]_vars
  BY CallStepIsPoolStep
<1> QED BY <1>1, <1>2, PTL DEF Spec, CallSpec

\* So queue and clients are served under the calls too, as far as without them.
THEOREM CallsAreServed == ASSUME Hard > 0 PROVE CallSpec => [](QueueServed /\ ClientsServed)
BY CallsUseThePool, QueueIsServed, ClientsAreServed, PTL

\* The closures of c in the queue q, and the workers that run one.
Places(q, c) == {i \in DOMAIN q : c \in q[i]}
Runners(c) == {w \in Worker : c \in job[w]}

LEMMA PlacesFinite ==
  ASSUME NEW S, NEW q \in Seq(S), NEW c
  PROVE  IsFiniteSet(Places(q, c)) /\ Cardinality(Places(q, c)) \in Nat
<1>1. Len(q) \in Nat /\ DOMAIN q = 1 .. Len(q)
  BY LenProperties
<1>2. IsFiniteSet(1 .. Len(q)) /\ Places(q, c) \in SUBSET (1 .. Len(q))
  BY <1>1, FS_Interval DEF Places
<1> QED BY <1>2, FS_Subset, FS_CardinalityType

\* A closure is queued.
LEMMA PlacesAppend ==
  ASSUME NEW S, NEW q \in Seq(S), NEW c, NEW d \in S
  PROVE  Cardinality(Places(Append(q, d), c)) =
           Cardinality(Places(q, c)) + (IF c \in d THEN 1 ELSE 0)
<1> DEFINE r == Append(q, d)
<1>1. Len(q) \in Nat /\ DOMAIN q = 1 .. Len(q)
  BY LenProperties
<1>2. /\ r \in Seq(S) /\ Len(r) = Len(q) + 1
      /\ \A i \in 1 .. Len(q) : r[i] = q[i]
      /\ r[Len(q) + 1] = d
  BY AppendProperties
<1> HIDE DEF r
<1>3. DOMAIN r = 1 .. Len(q) + 1
  BY <1>1, <1>2, LenProperties
<1>4. IsFiniteSet(Places(q, c)) /\ Cardinality(Places(q, c)) \in Nat
  BY PlacesFinite
<1>5. CASE c \in d
  <2>1. Places(r, c) = Places(q, c) \cup {Len(q) + 1}
    BY <1>1, <1>2, <1>3, <1>5 DEF Places
  <2>2. Len(q) + 1 \notin Places(q, c)
    BY <1>1 DEF Places
  <2> QED BY <1>4, <1>5, <2>1, <2>2, FS_AddElement DEF r
<1>6. CASE c \notin d
  <2>1. Places(r, c) = Places(q, c)
    BY <1>1, <1>2, <1>3, <1>6 DEF Places
  <2> QED BY <1>4, <1>6, <2>1 DEF r
<1> QED BY <1>5, <1>6

\* A closure is taken.
LEMMA PlacesTail ==
  ASSUME NEW S, NEW q \in Seq(S), q # <<>>, NEW c
  PROVE  Cardinality(Places(Tail(q), c)) =
           Cardinality(Places(q, c)) - (IF c \in Head(q) THEN 1 ELSE 0)
<1> DEFINE t == Tail(q)
           P == Places(t, c)
           R == Places(q, c) \ {1}
           f == [i \in P |-> i + 1]
<1>1. Len(q) \in Nat /\ DOMAIN q = 1 .. Len(q) /\ Head(q) = q[1] /\ 1 \in DOMAIN q
  BY LenProperties, HeadInList
<1>2. /\ t \in Seq(S) /\ Len(t) = Len(q) - 1
      /\ \A i \in 1 .. Len(q) - 1 : t[i] = q[i + 1]
  BY HeadTailProperties
<1> HIDE DEF t
<1>3. DOMAIN t = 1 .. Len(q) - 1
  BY <1>1, <1>2, LenProperties
<1>4. \A i \in P : i \in 1 .. Len(q) - 1 /\ i + 1 \in R
  BY <1>1, <1>2, <1>3 DEF Places
<1>5. \A k \in R : k - 1 \in P /\ (k - 1) + 1 = k
  BY <1>1, <1>2, <1>3 DEF Places
<1>6. f \in Bijection(P, R)
  <2>1. f \in [P -> R]
    BY <1>4
  <2>2. \A i, j \in P : f[i] = f[j] => i = j
    BY <1>4
  <2>3. \A k \in R : \E i \in P : f[i] = k
    BY <1>5
  <2> HIDE DEF f, P, R
  <2> QED BY <2>1, <2>2, <2>3 DEF Bijection, Injection, Surjection, IsInjective
<1>7. IsFiniteSet(P) /\ IsFiniteSet(Places(q, c)) /\ Cardinality(Places(q, c)) \in Nat
  BY <1>2, PlacesFinite
<1>8. Cardinality(R) = Cardinality(P)
  BY <1>6, <1>7, FS_Bijection DEF ExistsBijection
<1>9. 1 \in Places(q, c) <=> c \in Head(q)
  BY <1>1 DEF Places
<1>10. Cardinality(P) = Cardinality(Places(q, c)) - (IF c \in Head(q) THEN 1 ELSE 0)
  <2>1. Cardinality(R) = IF 1 \in Places(q, c) THEN Cardinality(Places(q, c)) - 1
                                               ELSE Cardinality(Places(q, c))
    BY <1>7, FS_RemoveElement
  <2> HIDE DEF P, R
  <2>2. CASE c \in Head(q)
    BY <1>8, <1>9, <2>1, <2>2
  <2>3. CASE c \notin Head(q)
    BY <1>7, <1>8, <1>9, <2>1, <2>3
  <2> QED BY <2>2, <2>3
<1> QED BY <1>10 DEF t

\* Who waits for the pool with an element that was counted already.
Pending(c) == IF pc[c] = "full" THEN 1 ELSE 0

\* The closures of c that were sent: finished, queued, running, or not yet in.
Held(c) == fin[c] + Cardinality(Places(jobs, c)) + Cardinality(Runners(c)) + Pending(c)

\* No more was sent than there is.
Few(c) == snd[c] <= Elements[c]

Accounted(c) == /\ IsFiniteSet(Runners(c))
                /\ Few(c)
                /\ Held(c) <= snd[c]
                /\ at[c] = "done" => snd[c] <= fin[c]

CallInv == /\ pc \in [Member -> Pc] /\ at \in [Client -> At]
           /\ jobs \in Seq(SUBSET Client) /\ Len(jobs) = size
           /\ job \in [Worker -> SUBSET Client]
           /\ snd \in [Client -> Nat] /\ fin \in [Client -> Nat]
           /\ \A c \in Client : Accounted(c)

\* No client of a latch meets opts::queue_max_hard, which is unlimited unless a
\* pool is given one: operator() would throw out of the frame.
Fits == /\ Soft <= Hard
        /\ Soft = 0 => IsFiniteSet(Worker) /\ Cardinality(Worker) <= Hard
Roomy == Latched = {} \/ Fits

\* The numbers that Held adds.
LEMMA HeldParts ==
  ASSUME CallInv, NEW c \in Client
  PROVE  /\ snd[c] \in Nat /\ fin[c] \in Nat /\ Pending(c) \in {0, 1}
         /\ Cardinality(Places(jobs, c)) \in Nat /\ Cardinality(Runners(c)) \in Nat
BY PlacesFinite, FS_CardinalityType DEF CallInv, Accounted, Pending

\* When a call has returned, nothing that was sent is left.
LEMMA NothingLeft == ASSUME CallInv PROVE Framed
<1> SUFFICES ASSUME NEW c \in Client, at[c] = "done"
             PROVE  /\ \A i \in DOMAIN jobs : c \notin jobs[i]
                    /\ \A w \in Worker : c \notin job[w]
  BY DEF Framed
<1>1. snd[c] <= fin[c] /\ Held(c) <= snd[c]
  BY DEF CallInv, Accounted
<1>2. Cardinality(Places(jobs, c)) = 0 /\ Cardinality(Runners(c)) = 0
  BY <1>1, HeldParts DEF Held
<1>3. Places(jobs, c) = {} /\ Runners(c) = {}
  BY <1>2, PlacesFinite, FS_EmptySet DEF CallInv, Accounted
<1> QED BY <1>3 DEF Places, Runners

\* A worker goes from one closure to another, or to none.
LEMMA RunnersMove ==
  ASSUME CallInv, NEW w \in Worker, NEW T \in SUBSET Client,
         job' = [job EXCEPT ![w] = T], NEW c \in Client
  PROVE  /\ IsFiniteSet(Runners(c)')
         /\ Cardinality(Runners(c)') = Cardinality(Runners(c))
              - (IF c \in job[w] THEN 1 ELSE 0) + (IF c \in T THEN 1 ELSE 0)
<1> DEFINE R == Runners(c)
           B == R \ {w}
<1>1. IsFiniteSet(R) /\ Cardinality(R) \in Nat
  BY FS_CardinalityType DEF CallInv, Accounted
<1>2. w \in R <=> c \in job[w]
  BY DEF Runners
<1>3. job'[w] = T /\ \A x \in Worker \ {w} : job'[x] = job[x]
  BY DEF CallInv
<1>4. Runners(c)' = IF c \in T THEN B \cup {w} ELSE B
  BY <1>3 DEF Runners
<1> HIDE DEF R
<1>5. /\ IsFiniteSet(B)
      /\ Cardinality(B) = IF w \in R THEN Cardinality(R) - 1 ELSE Cardinality(R)
  BY <1>1, FS_RemoveElement
<1>6. w \notin B
  OBVIOUS
<1> HIDE DEF B
<1>7. IsFiniteSet(B \cup {w}) /\ Cardinality(B \cup {w}) = Cardinality(B) + 1
  BY <1>5, <1>6, FS_AddElement
<1>8. Cardinality(B) = Cardinality(R) - (IF c \in job[w] THEN 1 ELSE 0)
  <2>1. CASE w \in R
    BY <1>2, <1>5, <2>1
  <2>2. CASE w \notin R
    BY <1>1, <1>2, <1>5, <2>2
  <2> QED BY <2>1, <2>2
<1>9. CASE c \in T
  BY <1>4, <1>7, <1>8, <1>9 DEF R
<1>10. CASE c \notin T
  <2>1. Cardinality(B) \in Int
    BY <1>1, <1>8
  <2> QED BY <1>4, <1>5, <1>8, <1>10, <2>1 DEF R
<1> QED BY <1>9, <1>10

\* What a client's step has to do to the account of its call.
LEMMA ClientAccounts ==
  ASSUME CallInv, NEW c \in Client,
         pc' \in [Member -> Pc], \A d \in Client \ {c} : pc'[d] = pc[d],
         at' \in [Client -> At], \A d \in Client \ {c} : at'[d] = at[d],
         snd' \in [Client -> Nat], \A d \in Client \ {c} : snd'[d] = snd[d],
         UNCHANGED <<fin, job>>,
         Few(c)',
         at'[c] = "done" => snd'[c] <= fin[c],
         NEW n \in {0, 1}, size' = size + n,
         jobs' = IF n = 1 THEN Append(jobs, {c}) ELSE jobs,
         n + Pending(c)' + snd[c] <= Pending(c) + snd'[c]
  PROVE  CallInv'
<1>1. /\ jobs \in Seq(SUBSET Client) /\ Len(jobs) = size /\ Len(jobs) \in Nat
      /\ {c} \in SUBSET Client
  BY LenProperties DEF CallInv
<1>2. jobs' \in Seq(SUBSET Client) /\ Len(jobs') = size'
  <2>1. CASE n = 1
    BY <1>1, <2>1, AppendProperties
  <2>2. CASE n = 0
    BY <1>1, <2>2
  <2> QED BY <2>1, <2>2
<1>3. ASSUME NEW d \in Client
      PROVE  Cardinality(Places(jobs', d)) =
               Cardinality(Places(jobs, d)) + (IF d = c THEN n ELSE 0)
  <2>0. Cardinality(Places(jobs, d)) \in Nat
    BY HeldParts
  <2>1. CASE n = 1
    <3>1. jobs' = Append(jobs, {c})
      BY <2>1
    <3>2. Cardinality(Places(jobs', d)) =
            Cardinality(Places(jobs, d)) + (IF d \in {c} THEN 1 ELSE 0)
      BY <1>1, <3>1, PlacesAppend
    <3> QED BY <2>1, <3>2
  <2>2. CASE n = 0
    BY <2>0, <2>2
  <2> QED BY <2>1, <2>2
<1>4. \A d \in Client : Runners(d)' = Runners(d)
  BY DEF Runners
<1>5. ASSUME NEW d \in Client PROVE Accounted(d)'
  <2>1. Accounted(d) /\ fin'[d] = fin[d] /\ Runners(d)' = Runners(d)
    BY <1>4 DEF CallInv
  <2>2. CASE d # c
    <3>0. Cardinality(Places(jobs, d)) \in Nat
      BY HeldParts
    <3>1. /\ pc'[d] = pc[d] /\ at'[d] = at[d] /\ snd'[d] = snd[d]
          /\ Cardinality(Places(jobs', d)) = Cardinality(Places(jobs, d))
      <4>1. Cardinality(Places(jobs', d)) = Cardinality(Places(jobs, d)) + 0
        BY <1>3, <2>2
      <4>2. d \in Client \ {c}
        BY <2>2
      <4> QED BY <3>0, <4>1, <4>2
    <3>2. Held(d)' = Held(d)
      BY <2>1, <3>1 DEF Held, Pending
    <3> QED BY <2>1, <3>1, <3>2 DEF Accounted, Few
  <2>3. CASE d = c
    <3>1. Cardinality(Places(jobs', c)) = Cardinality(Places(jobs, c)) + n
      BY <1>3
    <3>2. Held(c)' = fin[c] + (Cardinality(Places(jobs, c)) + n)
                       + Cardinality(Runners(c)) + Pending(c)'
      BY <2>1, <2>3, <3>1 DEF Held
    <3>3. Pending(c)' \in {0, 1} /\ snd'[c] \in Nat
      BY DEF Pending
    <3>4. Held(c)' <= snd'[c]
      <4>1. fin[c] + Cardinality(Places(jobs, c)) + Cardinality(Runners(c)) + Pending(c) <= snd[c]
        BY <2>1, <2>3 DEF Accounted, Held
      <4>2. /\ snd[c] \in Nat /\ fin[c] \in Nat /\ Pending(c) \in Nat
            /\ Cardinality(Places(jobs, c)) \in Nat /\ Cardinality(Runners(c)) \in Nat
        BY HeldParts
      <4>3. n + Pending(c)' + snd[c] <= Pending(c) + snd'[c] /\ n \in Nat
        OBVIOUS
      <4> DEFINE f == fin[c]
                 p == Cardinality(Places(jobs, c))
                 r == Cardinality(Runners(c))
                 k == Pending(c)
                 s == snd[c]
                 k1 == Pending(c)'
                 s1 == snd'[c]
      <4>4. /\ f + p + r + k <= s /\ n + k1 + s <= k + s1
            /\ f \in Nat /\ p \in Nat /\ r \in Nat /\ k \in Nat /\ s \in Nat
            /\ k1 \in Nat /\ s1 \in Nat /\ n \in Nat
        BY <3>3, <4>1, <4>2, <4>3
      <4>5. Held(c)' = f + (p + n) + r + k1
        BY <3>2
      <4> HIDE DEF f, p, r, k, s, k1, s1
      <4>6. f + (p + n) + r + k1 <= s1
        BY ONLY <4>4
      <4> QED BY <4>5, <4>6 DEF s1
    <3> QED BY <2>1, <2>3, <3>4 DEF Accounted
  <2> QED BY <2>2, <2>3
<1> QED BY <1>2, <1>5 DEF CallInv

\* The wait for the closures returns when all that were sent have finished.
LEMMA AwaitReturns ==
  ASSUME CallInv, NEW c \in Client, Await(c),
         snd' \in [Client -> Nat], Few(c)', fin' = fin
  PROVE  /\ at' \in [Client -> At] /\ \A d \in Client \ {c} : at'[d] = at[d]
         /\ at'[c] = "done" => snd'[c] <= fin[c]
<1>1. at' = [at EXCEPT ![c] = IF Ready(c)' THEN "done" ELSE "wait"]
  BY DEF Await
<1>2. Elements[c] \in Nat /\ snd'[c] \in Nat /\ fin[c] \in Nat
  BY ForEachAssumption DEF CallInv
<1>3. Ready(c)' => snd'[c] <= fin[c]
  BY <1>2 DEF Ready, Few
<1> QED BY <1>1, <1>3 DEF CallInv, At

\* The pool takes a closure of a client that need not wait.
LEMMA RoomForPush ==
  ASSUME pc \in [Member -> Pc], size \in Nat, ~WouldBlock, Fits
  PROVE  size < Hard
<1>1. CASE size < Soft
  BY <1>1, PoolAssumption DEF Fits
<1>2. CASE Soft = 0 /\ size < Avail
  <2>1. {w \in Worker : pc[w] = "pop"} \in SUBSET Worker
    OBVIOUS
  <2>2. Avail <= Cardinality(Worker) /\ Avail \in Nat /\ Cardinality(Worker) \in Nat
    BY <1>2, <2>1, FS_Subset, FS_CardinalityType DEF Fits, Avail
  <2> QED BY <1>2, <2>2, PoolAssumption DEF Fits
<1> QED BY <1>1, <1>2 DEF WouldBlock

\* What follows the pool's answer, if an element was counted for it.
LEMMA SubmittedAccounts ==
  ASSUME CallInv, Roomy, NEW c \in Client, Submitted(c),
         pc' \in [Member -> Pc], \A d \in Client \ {c} : pc'[d] = pc[d],
         snd' \in [Client -> Nat], \A d \in Client \ {c} : snd'[d] = snd[d],
         UNCHANGED <<fin, job>>, Few(c)', at[c] = "loop",
         snd[c] + 1 <= Pending(c) + snd'[c],
         \/ pc'[c] = "full" /\ size' = size
         \/ pc'[c] # "full" /\ ~WouldBlock /\ Push
  PROVE  CallInv'
<1>0. size \in Nat /\ snd[c] \in Nat /\ snd'[c] \in Nat
  BY LenProperties DEF CallInv
<1>1. CASE pc'[c] = "full"
  <2>1. UNCHANGED <<at, jobs>> /\ size' = size + 0 /\ Pending(c)' = 1
    BY <1>0, <1>1 DEF Submitted, Pending
  <2>2. /\ at' \in [Client -> At] /\ \A d \in Client \ {c} : at'[d] = at[d]
        /\ at'[c] # "done"
    BY <2>1 DEF CallInv
  <2>3. 0 + Pending(c)' + snd[c] <= Pending(c) + snd'[c]
    BY <1>0, <2>1, HeldParts
  <2> QED BY <2>1, <2>2, <2>3, ClientAccounts
<1>2. CASE pc'[c] # "full" /\ size' = size
  <2>1. jobs' = jobs /\ Pending(c)' = 0
    BY <1>2 DEF Submitted, Pending
  <2>2. c \notin Latched
    <3>1. ~(size < Hard)
      BY <1>0, <1>2 DEF Push
    <3> QED BY <1>0, <1>2, <3>1, RoomForPush DEF Roomy, CallInv
  <2>3. Await(c)
    BY <1>2, <2>2 DEF Submitted
  <2>4. /\ at' \in [Client -> At] /\ \A d \in Client \ {c} : at'[d] = at[d]
        /\ at'[c] = "done" => snd'[c] <= fin[c]
    BY <2>3, AwaitReturns
  <2>5. 0 + Pending(c)' + snd[c] <= Pending(c) + snd'[c] /\ size' = size + 0
    BY <1>0, <1>2, <2>1, HeldParts
  <2> QED BY <2>1, <2>4, <2>5, ClientAccounts
<1>3. CASE pc'[c] # "full" /\ size' # size
  <2>1. jobs' = Append(jobs, {c}) /\ Pending(c)' = 0
    BY <1>3 DEF Submitted, Pending
  <2>2. size' = size + 1
    BY <1>3 DEF Push
  <2>3. Await(c) \/ UNCHANGED at
    BY <1>3 DEF Submitted
  <2>4. /\ at' \in [Client -> At] /\ \A d \in Client \ {c} : at'[d] = at[d]
        /\ at'[c] = "done" => snd'[c] <= fin[c]
    BY <2>3, AwaitReturns DEF CallInv
  <2>5. 1 + Pending(c)' + snd[c] <= Pending(c) + snd'[c]
    BY <1>0, <2>1, HeldParts
  <2> QED BY <2>1, <2>2, <2>4, <2>5, ClientAccounts
<1> QED BY <1>1, <1>2, <1>3

LEMMA SendAccounts == ASSUME CallInv, Roomy, NEW c \in Client, Send(c) PROVE CallInv'
<1>1. /\ at[c] = "loop" /\ snd[c] < Elements[c] /\ Submit(c) /\ Submitted(c)
      /\ snd' = [snd EXCEPT ![c] = @ + 1] /\ UNCHANGED <<fin, job>>
  BY DEF Send
<1>2. /\ snd[c] \in Nat /\ size \in Nat /\ pc \in [Member -> Pc] /\ c \in Member
      /\ pc[c] = "out"
  BY <1>1, LenProperties DEF CallInv, Member, Submit
<1>3. /\ snd' \in [Client -> Nat] /\ snd'[c] = snd[c] + 1 /\ Few(c)'
      /\ \A d \in Client \ {c} : snd'[d] = snd[d]
  <2>1. Elements[c] \in Nat
    BY ForEachAssumption
  <2>2. snd' \in [Client -> Nat] /\ snd'[c] = snd[c] + 1
    BY <1>1, <1>2 DEF CallInv
  <2>3. \A d \in Client \ {c} : snd'[d] = snd[d]
    BY <1>1 DEF CallInv
  <2> QED BY <1>1, <1>2, <2>1, <2>2, <2>3 DEF Few
<1>4. snd[c] + 1 <= Pending(c) + snd'[c]
  BY <1>2, <1>3 DEF Pending
<1>5. \/ pc' = [pc EXCEPT ![c] = "full"] /\ size' = size
      \/ pc' = pc /\ ~WouldBlock /\ Push
  BY <1>1 DEF Submit
<1>6. /\ pc' \in [Member -> Pc] /\ \A d \in Client \ {c} : pc'[d] = pc[d]
      /\ \/ pc'[c] = "full" /\ size' = size
         \/ pc'[c] # "full" /\ ~WouldBlock /\ Push
  BY <1>2, <1>5 DEF Pc, Member
<1> QED BY <1>1, <1>3, <1>4, <1>6, SubmittedAccounts

LEMMA SendResumeAccounts ==
  ASSUME CallInv, Roomy, NEW c \in Client, SendResume(c) PROVE CallInv'
<1>1. /\ at[c] = "loop" /\ SubmitResume(c) /\ Submitted(c)
      /\ UNCHANGED <<snd, fin, job>> /\ pc[c] = "full"
  BY DEF SendResume, SubmitResume, counts
<1>2. snd[c] \in Nat /\ pc \in [Member -> Pc] /\ c \in Member /\ Few(c)'
  BY <1>1 DEF CallInv, Accounted, Few, Member
<1>3. snd' \in [Client -> Nat] /\ snd[c] + 1 <= Pending(c) + snd'[c]
  BY <1>1, <1>2 DEF Pending, CallInv
<1>4. \/ pc' = pc /\ size' = size
      \/ pc' = [pc EXCEPT ![c] = "out"] /\ ~WouldBlock /\ Push
  BY <1>1 DEF SubmitResume
<1>5. /\ pc' \in [Member -> Pc] /\ \A d \in Client \ {c} : pc'[d] = pc[d]
      /\ \/ pc'[c] = "full" /\ size' = size
         \/ pc'[c] # "full" /\ ~WouldBlock /\ Push
  BY <1>1, <1>2, <1>4 DEF Pc, Member
<1> QED BY <1>1, <1>2, <1>3, <1>5, SubmittedAccounts

LEMMA OtherCallAccounts ==
  ASSUME CallInv, NEW c \in Client,
         Begin(c) \/ SendInterrupted(c) \/ EndLoop(c) \/ AwaitResume(c)
  PROVE  CallInv'
<1>1. /\ UNCHANGED <<size, jobs, snd, fin, job>>
      /\ pc' = pc \/ pc' = [pc EXCEPT ![c] = "out"]
      /\ at' = [at EXCEPT ![c] = "loop"] \/ Await(c)
  BY DEF Begin, SendInterrupted, SubmitInterrupted, EndLoop, AwaitResume, vars, counts
<1>2. /\ snd[c] \in Nat /\ size \in Nat /\ pc \in [Member -> Pc] /\ c \in Member
      /\ snd' \in [Client -> Nat] /\ snd'[c] = snd[c] /\ Few(c)'
  BY <1>1, LenProperties DEF CallInv, Accounted, Few, Member
<1>3. /\ at' \in [Client -> At] /\ \A d \in Client \ {c} : at'[d] = at[d]
      /\ at'[c] = "done" => snd'[c] <= fin[c]
  <2>1. CASE at' = [at EXCEPT ![c] = "loop"]
    BY <2>1 DEF CallInv, At
  <2>2. CASE Await(c)
    BY <1>1, <1>2, <2>2, AwaitReturns
  <2> QED BY <1>1, <2>1, <2>2
<1>4. pc' \in [Member -> Pc] /\ \A d \in Client \ {c} : pc'[d] = pc[d]
  BY <1>1, <1>2 DEF Pc, Member
<1>5. 0 + Pending(c)' + snd[c] <= Pending(c) + snd'[c] /\ size' = size + 0
  BY <1>1, <1>2 DEF Pending
<1> QED BY <1>1, <1>2, <1>3, <1>4, <1>5, ClientAccounts

\* A worker finishes the closure it has and may take another: what is held of
\* each call stays the same.
LEMMA WorkAccounts == ASSUME CallInv, NEW w \in Worker, Work(w) PROVE CallInv'
<1> DEFINE taken == IF size' < size THEN Head(jobs) ELSE {}
<1>1. /\ UNCHANGED <<at, snd>> /\ job' = [job EXCEPT ![w] = taken]
      /\ jobs' = IF size' < size THEN Tail(jobs) ELSE jobs
      /\ fin' = [c \in Client |-> IF c \in job[w] THEN fin[c] + 1 ELSE fin[c]]
  BY DEF Work, Take, Finish
<1>2. /\ pc' = pc \/ \E k \in Pc : pc' = [pc EXCEPT ![w] = k]
      /\ size' = size \/ (size > 0 /\ size' = size - 1)
  BY DEF Work, Start, StartFlagged, PopResume, PopInterrupted, PopTerminated, JobDone,
         JobThrew, JobTerminated, Loop, Pc, Finished
<1>3. /\ jobs \in Seq(SUBSET Client) /\ Len(jobs) = size /\ size \in Nat
      /\ pc \in [Member -> Pc] /\ w \in Member /\ Worker \cap Client = {}
      /\ job \in [Worker -> SUBSET Client] /\ fin \in [Client -> Nat]
  BY LenProperties, PoolAssumption DEF CallInv, Member
<1>4. pc' \in [Member -> Pc] /\ \A c \in Client : pc'[c] = pc[c]
  BY <1>2, <1>3 DEF Member
<1>5. /\ taken \in SUBSET Client /\ jobs' \in Seq(SUBSET Client) /\ Len(jobs') = size'
      /\ \A c \in Client : Cardinality(Places(jobs', c)) =
                             Cardinality(Places(jobs, c)) - (IF c \in taken THEN 1 ELSE 0)
  <2>1. CASE size' = size
    <3>1. ~(size' < size) /\ taken = {} /\ jobs' = jobs
      BY <1>1, <1>3, <2>1
    <3>2. \A c \in Client : Cardinality(Places(jobs, c)) \in Nat
      BY HeldParts
    <3> QED BY <1>3, <2>1, <3>1, <3>2
  <2>2. CASE size > 0 /\ size' = size - 1
    <3>1. size' < size /\ taken = Head(jobs) /\ jobs' = Tail(jobs) /\ jobs # <<>>
      BY <1>1, <1>3, <2>2
    <3>2. Head(jobs) \in SUBSET Client
      BY <1>3, <3>1, HeadInList
    <3>3. Tail(jobs) \in Seq(SUBSET Client) /\ Len(Tail(jobs)) = Len(jobs) - 1
      BY <1>3, <3>1, HeadTailProperties
    <3>4. \A c \in Client : Cardinality(Places(Tail(jobs), c)) =
                              Cardinality(Places(jobs, c)) - (IF c \in Head(jobs) THEN 1 ELSE 0)
      BY <1>3, <3>1, PlacesTail
    <3> QED BY <1>3, <2>2, <3>1, <3>2, <3>3, <3>4
  <2> QED BY <1>2, <2>1, <2>2
<1> HIDE DEF taken
<1>6. job' \in [Worker -> SUBSET Client] /\ fin' \in [Client -> Nat]
  BY <1>1, <1>3, <1>5
<1>7. ASSUME NEW c \in Client PROVE Accounted(c)'
  <2>1. fin'[c] = fin[c] + (IF c \in job[w] THEN 1 ELSE 0)
    BY <1>1, <1>3
  <2>2. /\ IsFiniteSet(Runners(c)')
        /\ Cardinality(Runners(c)') = Cardinality(Runners(c))
             - (IF c \in job[w] THEN 1 ELSE 0) + (IF c \in taken THEN 1 ELSE 0)
    BY <1>1, <1>5, RunnersMove
  <2>3. Cardinality(Places(jobs', c)) =
          Cardinality(Places(jobs, c)) - (IF c \in taken THEN 1 ELSE 0)
    BY <1>5
  <2>4. Pending(c)' = Pending(c)
    BY <1>4 DEF Pending
  <2>5. Held(c)' = Held(c)
    <3>1. Held(c)' = fin'[c] + Cardinality(Places(jobs', c)) + Cardinality(Runners(c)')
                       + Pending(c)'
      BY DEF Held
    <3>2. ASSUME NEW f \in Nat, NEW q \in Nat, NEW r \in Nat, NEW k \in Nat,
                 NEW x \in {0, 1}, NEW y \in {0, 1}
          PROVE  (f + x) + (q - y) + (r - x + y) + k = f + q + r + k
      BY <3>2
    <3>3. /\ fin[c] \in Nat /\ Cardinality(Places(jobs, c)) \in Nat
          /\ Cardinality(Runners(c)) \in Nat /\ Pending(c) \in Nat
      BY HeldParts
    <3>4. /\ (IF c \in job[w] THEN 1 ELSE 0) \in {0, 1}
          /\ (IF c \in taken THEN 1 ELSE 0) \in {0, 1}
      OBVIOUS
    <3> QED BY ONLY <2>1, <2>2, <2>3, <2>4, <3>1, <3>2, <3>3, <3>4 DEF Held
  <2>6. fin[c] \in Nat /\ snd[c] \in Nat /\ fin[c] <= fin'[c]
    BY <2>1, HeldParts
  <2>7. Accounted(c) /\ at'[c] = at[c] /\ snd'[c] = snd[c] /\ fin'[c] \in Nat
    BY <1>1, <1>6 DEF CallInv
  <2> QED BY <2>2, <2>5, <2>6, <2>7 DEF Accounted, Few
<1> QED BY <1>1, <1>4, <1>5, <1>6, <1>7 DEF CallInv

LEMMA OtherJobAccounts == ASSUME CallInv, OtherJob PROVE CallInv'
<1>1. /\ UNCHANGED <<at, snd, fin, job, pc>>
      /\ jobs' = IF size' > size THEN Append(jobs, {}) ELSE jobs
      /\ size' = size \/ size' = size + 1
  BY DEF OtherJob, SubmitHandler, Push, counts
<1>2. /\ jobs \in Seq(SUBSET Client) /\ Len(jobs) = size /\ size \in Nat
      /\ {} \in SUBSET Client
  BY LenProperties DEF CallInv
<1>3. /\ jobs' \in Seq(SUBSET Client) /\ Len(jobs') = size'
      /\ \A c \in Client : Cardinality(Places(jobs', c)) = Cardinality(Places(jobs, c))
  <2>1. CASE size' = size
    BY <1>1, <1>2, <2>1
  <2>2. CASE size' = size + 1
    <3>1. jobs' = Append(jobs, {})
      BY <1>1, <1>2, <2>2
    <3>2. ASSUME NEW c \in Client
          PROVE  Cardinality(Places(jobs', c)) = Cardinality(Places(jobs, c))
      <4>1. Cardinality(Places(jobs', c)) =
              Cardinality(Places(jobs, c)) + (IF c \in {} THEN 1 ELSE 0)
        BY <1>2, <3>1, PlacesAppend
      <4> QED BY <4>1, HeldParts
    <3> QED BY <1>2, <2>2, <3>1, <3>2, AppendProperties
  <2> QED BY <1>1, <2>1, <2>2
<1>4. ASSUME NEW c \in Client PROVE Accounted(c)'
  <2>1. Runners(c)' = Runners(c) /\ Pending(c)' = Pending(c) /\ Accounted(c)
    BY <1>1 DEF Runners, Pending, CallInv
  <2>2. Held(c)' = Held(c)
    BY <1>1, <1>3, <2>1 DEF Held
  <2> QED BY <1>1, <2>1, <2>2 DEF Accounted, Few
<1> QED BY <1>1, <1>3, <1>4 DEF CallInv

LEMMA SameAccounts ==
  ASSUME CallInv, UNCHANGED <<pc, size, at, snd, fin, jobs, job>> PROVE CallInv'
BY DEF CallInv, Accounted, Few, Held, Pending, Runners

LEMMA CallNextAccounts == ASSUME CallInv, Roomy, [CallNext]_callVars PROVE CallInv'
<1>1. ASSUME Signal \/ UNCHANGED callVars PROVE CallInv'
  BY <1>1, SameAccounts DEF Signal, Interrupt, Terminate, callVars, vars, counts
<1> QED BY <1>1, SendAccounts, SendResumeAccounts, OtherCallAccounts, WorkAccounts,
           OtherJobAccounts DEF CallNext, Call

LEMMA CallInitAccounts == ASSUME CallInit PROVE CallInv
<1>1. /\ jobs = <<>> /\ size = 0 /\ job = [w \in Worker |-> {}]
      /\ snd = [c \in Client |-> 0] /\ fin = [c \in Client |-> 0]
      /\ at = [c \in Client |-> "out"]
      /\ pc = [c \in Member |-> IF c \in Worker THEN "posted" ELSE "out"]
  BY DEF CallInit, Init
<1>2. \A c \in Client : Places(jobs, c) = {} /\ Runners(c) = {} /\ Pending(c) = 0
  BY <1>1, PoolAssumption DEF Places, Runners, Pending, Member
<1>3. ASSUME NEW c \in Client PROVE Accounted(c)
  <2>1. /\ Cardinality(Places(jobs, c)) = 0 /\ IsFiniteSet(Runners(c))
        /\ Cardinality(Runners(c)) = 0
    BY <1>2, FS_EmptySet
  <2> QED BY <1>1, <1>2, <2>1, ForEachAssumption DEF Accounted, Few, Held
<1> QED BY <1>1, <1>3 DEF CallInv, At, Pc

\* However a call of concurrent_for_each or of concurrent is left, none of the
\* closures that refer to its frame is queued or running any more, for any
\* number of calls, elements and workers, whatever throws or is interrupted.
THEOREM CallsKeepTheirFrames == ASSUME Roomy PROVE CallSpec => []Framed
<1>1. CallInit => CallInv
  BY CallInitAccounts
<1>2. CallInv /\ [CallNext]_callVars => CallInv'
  BY CallNextAccounts
<1>3. CallInv => Framed
  BY NothingLeft
<1> QED BY <1>1, <1>2, <1>3, PTL DEF CallSpec
=============================================================================

---------------------------- MODULE ContextProofs ----------------------------
(***************************************************************************)
(* Contexts are not forgotten, put back to sleep or deleted too early:     *)
(* the safety of ctx::context, for any set of contexts, any flags they are *)
(* spawned with, any signals and any number of pending notes.              *)
(***************************************************************************)
EXTENDS Context, SequenceTheorems, TLAPS

-----------------------------------------------------------------------------
(* The operators of module Ctx change one entry of the table.              *)

Table == [Ctx -> CtxState]

\* No context but c has moved.
OthersKept(x, y, c) == \A d \in Ctx \ {c} : y[d] = x[d]

LEMMA LeaveProperties ==
  ASSUME NEW x \in Table, NEW c \in Ctx
  PROVE  /\ Leave(x, c) \in Table
         /\ OthersKept(x, Leave(x, c), c)
         /\ Leave(x, c)[c].at = "wait" /\ Leave(x, c)[c].notes = 0
         /\ Leave(x, c)[c].flags = x[c].flags
BY DEF Leave, Table, CtxState, At, OthersKept

LEMMA EnterProperties ==
  ASSUME NEW x \in Table, NEW c \in Ctx
  PROVE  /\ Enter(x, c) \in Table
         /\ OthersKept(x, Enter(x, c), c)
         /\ Enter(x, c)[c].at = "run" /\ Enter(x, c)[c].notes = 1
         /\ Enter(x, c)[c].flags = x[c].flags
BY DEF Enter, Table, CtxState, At, OthersKept

LEMMA ThrowProperties ==
  ASSUME NEW x \in Table, NEW c \in Ctx
  PROVE  /\ Throw(x, c) \in Table
         /\ OthersKept(x, Throw(x, c), c)
         /\ Throw(x, c)[c].at = x[c].at /\ Throw(x, c)[c].notes = x[c].notes
BY DEF Throw, Thrown, Table, CtxState, Flag, OthersKept

LEMMA InterruptibleProperties ==
  ASSUME NEW x \in Table, NEW c \in Ctx, NEW b \in BOOLEAN
  PROVE  /\ Interruptible(x, c, b) \in Table
         /\ OthersKept(x, Interruptible(x, c, b), c)
         /\ Interruptible(x, c, b)[c].at = x[c].at
         /\ Interruptible(x, c, b)[c].notes = x[c].notes
         /\ Requested(Interruptible(x, c, b)[c]) <=> Requested(x[c])
         /\ ~b => "NOINTERRUPT" \in Interruptible(x, c, b)[c].flags
BY DEF Interruptible, Table, CtxState, Flag, OthersKept, Requested

\* Lighting a flag wakes, keeps the notes and does not hide the others.
LEMMA FlaggedProperties ==
  ASSUME NEW x \in Table, NEW c \in Ctx, NEW f \in Flag
  PROVE  /\ Flagged(x, c, f) \in Table
         /\ OthersKept(x, Flagged(x, c, f), c)
         /\ Flagged(x, c, f)[c].at \in {x[c].at, Cancelled(x[c].at)}
         /\ Flagged(x, c, f)[c].at = "wait" => Flagged(x, c, f)[c] = x[c]
         /\ Flagged(x, c, f)[c].notes = x[c].notes
         /\ x[c].flags \subseteq Flagged(x, c, f)[c].flags
BY DEF Flagged, Cancelled, Table, CtxState, At, OthersKept

\* A note wakes whoever has none, and touches nobody else.
LEMMA NoteProperties ==
  ASSUME NEW x \in Table, NEW S
  PROVE  /\ Note(x, S) \in Table
         /\ \A c \in Ctx \ S : Note(x, S)[c] = x[c]
         /\ \A c \in Ctx \cap S :
              /\ Note(x, S)[c].flags = x[c].flags
              /\ Note(x, S)[c].notes = x[c].notes + 1
              /\ Note(x, S)[c].at = IF x[c].notes = 0 THEN Cancelled(x[c].at)
                                                       ELSE x[c].at
<1> DEFINE y == Note(x, S)
<1>1. ASSUME NEW c \in Ctx \ S PROVE y[c] = x[c] /\ y[c] \in CtxState
  BY DEF Note, Table
<1>2. ASSUME NEW c \in Ctx \cap S
      PROVE  /\ y[c].flags = x[c].flags
             /\ y[c].notes = x[c].notes + 1
             /\ y[c].at = IF x[c].notes = 0 THEN Cancelled(x[c].at) ELSE x[c].at
             /\ y[c] \in CtxState
  <2> DEFINE a == IF x[c].notes = 0 THEN Cancelled(x[c].at) ELSE x[c].at
  <2>1. y[c] = [at |-> a, notes |-> x[c].notes + 1, flags |-> x[c].flags]
    BY DEF Note
  <2>2. x[c] \in CtxState /\ a \in At
    BY DEF Table, CtxState, Cancelled, At
  <2> HIDE DEF a
  <2>3. /\ y[c].at = a /\ y[c].notes = x[c].notes + 1 /\ y[c].flags = x[c].flags
        /\ y[c] \in CtxState
    BY <2>1, <2>2 DEF CtxState
  <2> QED BY <2>3 DEF a
<1>3. y \in Table
  BY <1>1, <1>2 DEF Note, Table
<1> QED BY <1>1, <1>2, <1>3 DEF y

LEMMA EndProperties ==
  ASSUME NEW x \in Table, NEW c \in Ctx
  PROVE  /\ End(x, c) \in Table
         /\ OthersKept(x, End(x, c), c)
         /\ End(x, c)[c].at = "done"
BY DEF End, Table, CtxState, At, OthersKept

-----------------------------------------------------------------------------
(* The inductive invariant.                                                *)

\* One context runs at a time.
Single == \A c, d \in Ctx : Running(c) /\ Running(d) => c = d

\* The parents in `nest` are suspended once each, with nothing requested, and
\* each is owned, if by one of them, by one further out: whoever runs on top of
\* the stack owns none of them, and so terminates none of them.
Stacked ==
  \A i \in DOMAIN nest :
    /\ cx[nest[i]].at = "nest" /\ ~Requested(cx[nest[i]])
    /\ \A j \in DOMAIN nest : /\ nest[i] = nest[j] => i = j
                              /\ owner[nest[i]] = nest[j] => j < i
    /\ \A c \in Ctx : Running(c) => owner[nest[i]] # c

\* A context that is not constructed yet, or finished, owns nothing.
Alive == \A c \in Ctx : cx[c].at \in {"none", "done"} => Children(c) = {}

\* Nobody owns itself, and what is not constructed is not owned.
Rooted == \A c \in Ctx : /\ owner[c] # c
                         /\ cx[c].at = "none" => owner[c] = "none"

\* Where the waits of this module's own are, and that the two that cannot be
\* interrupted are inside their scope.
Scoped == \A c \in Ctx :
  /\ pc[c] \in {"yield", "join", "destroy"} => Suspended(cx, c)
  /\ pc[c] \in {"yield", "destroy"} => Suppressed(cx, c)
  /\ c \in deferred => pc[c] = "yield"

\* A context is joined by its owner, which alone can delete it.
Joined == \A c \in Ctx :
  pc[c] \in {"join", "destroy"} => target[c] \in Ctx /\ owner[target[c]] = c

\* What was deleted has no owner.
Disowned == \A d \in freed : owner[d] \notin Ctx

IInv == /\ TypeOK /\ NoLostNote /\ OneNoteRunning /\ NoMissedJoin
        /\ NoFreeWhileActive
        /\ Single /\ Stacked /\ Alive /\ Rooted /\ Scoped /\ Joined /\ Disowned

LEMMA InitIInv == ASSUME Init PROVE IInv
<1>0. Root \in Ctx /\ None \notin Ctx /\ {"none", "self"} \cap Ctx = {}
  BY ContextAssumption
<1>1. \A c \in Ctx : /\ cx[c].at = IF c = Root THEN "posted" ELSE "none"
                     /\ cx[c].notes = 0 /\ cx[c].flags = {} /\ cx[c] \in CtxState
  BY DEF Init, Fresh, CtxState, At
<1>2. cx \in [Ctx -> CtxState]
  <2>1. \E f : cx = [c \in Ctx |-> f[c]]
    <3>1. cx = [c \in Ctx |-> cx[c]]
      BY DEF Init
    <3> QED BY <3>1
  <2> QED BY <1>1, <2>1
<1>3. TypeOK
  BY <1>0, <1>2 DEF Init, TypeOK, Pc, Owner
<1>4. \A c \in Ctx : pc[c] = "user" /\ owner[c] \notin Ctx /\ owner[c] \in {"none", "self"}
                     /\ (c # Root => owner[c] = "none")
  BY <1>0 DEF Init
<1>5. DOMAIN nest = {} /\ freed = {} /\ deferred = {}
  BY DEF Init
<1> QED
  BY <1>0, <1>1, <1>3, <1>4, <1>5
  DEF IInv, NoLostNote, OneNoteRunning, Interruption, Requested,
      NoMissedJoin, NoFreeWhileActive, Single, Stacked, Alive, Rooted, Scoped, Joined,
      Disowned, Running, Children

\* What others may do to a context that does not take the step: cancel its
\* alarm, give it notes, and light flags unless it is below the caller.
Roused(e) ==
  /\ cx'[e].at = cx[e].at \/ (cx[e].at = "wait" /\ cx'[e].at = "wake")
  /\ cx'[e].at \in {"run", "wait"} => cx'[e] = cx[e]
  /\ (\E i \in DOMAIN nest : nest[i] = e) => cx'[e] = cx[e]
  /\ cx[e].flags \subseteq cx'[e].flags

\* A step of one context: it lives before it, it may finish if it owns nothing
\* and leaves nobody waiting for it, and it may delete what it owns.
LEMMA Effect ==
  ASSUME IInv, NEW c \in Ctx, TypeOK', nest' = nest,
         \A e \in Ctx \ {c} : Roused(e) /\ pc'[e] = pc[e] /\ target'[e] = target[e],
         \A d \in Ctx : owner'[d] = owner[d] \/ (owner[d] = c /\ owner'[d] = "none"),
         \A d \in freed' : d \in freed \/ (Finished(d)' /\ owner'[d] \notin Ctx),
         cx[c].at \notin {"none", "nest", "done"},
         cx'[c].at \notin {"none", "nest"},
         cx'[c].at = "done" => /\ Children(c) = {}
                               /\ \A e \in Ctx : pc'[e] \in {"join", "destroy"} /\ target'[e] = c
                                                 => cx'[e].at # "wait",
         cx'[c].at = "run" => cx'[c].notes = 1 /\ (Running(c) \/ NoCurrent(cx)),
         Running(c) \/ ~Running(c)' \/ nest = <<>>,
         cx'[c].at = "wait" => /\ cx'[c].notes = 0
                               /\ \/ ~Suspended(cx, c) \/ cx'[c] = cx[c]
                                  \/ ~Interruption(cx'[c])
                               /\ pc'[c] \in {"join", "destroy"} => ~Finished(target'[c]),
         pc'[c] \in {"yield", "join", "destroy"} => Suspended(cx', c),
         pc'[c] \in {"yield", "destroy"} => Suppressed(cx', c),
         \A d \in deferred' : pc'[d] = "yield",
         pc'[c] \in {"join", "destroy"} => target'[c] \in Ctx /\ owner'[target'[c]] = c
  PROVE  IInv' /\ Woken
<1> USE DEF IInv
<1>0. {"none", "self"} \cap Ctx = {}
  BY ContextAssumption
<1>1. \A d \in Ctx : /\ Finished(d) => Finished(d)'
                     /\ d # c => (Finished(d)' <=> Finished(d))
                     /\ cx'[d].at = "none" <=> cx[d].at = "none"
                     /\ d # c => (Running(d)' <=> Running(d))
  BY DEF Finished, Running, Roused
<1>2. \A d, e \in Ctx : owner'[d] = e => owner[d] = e
  BY <1>0
<1>3. \A d \in Ctx : Children(d)' \subseteq Children(d)
  BY <1>2 DEF Children
<1>4. NoLostNote' /\ OneNoteRunning'
  BY DEF NoLostNote, OneNoteRunning, Running, Roused
<1>5. Woken
  <2>1. ASSUME NEW e \in Ctx \ {c}, cx'[e].at = "wait" PROVE cx'[e] = cx[e]
    BY <2>1 DEF Roused
  <2> QED BY <2>1 DEF Woken
<1>6. NoMissedJoin'
  <2>1. ASSUME NEW e \in Ctx \ {c}, pc'[e] \in {"join", "destroy"}, cx'[target'[e]].at = "done"
        PROVE  cx'[e].at # "wait"
    <3>1. pc[e] \in {"join", "destroy"} /\ target[e] \in Ctx /\ target'[e] = target[e]
      BY <2>1 DEF Joined
    <3>2. CASE target[e] = c
      BY <2>1, <3>1, <3>2 DEF Finished
    <3>3. CASE target[e] # c
      BY <1>1, <2>1, <3>1, <3>3 DEF NoMissedJoin, Roused, Finished
    <3> QED BY <3>2, <3>3
  <2>2. ASSUME pc'[c] \in {"join", "destroy"}, cx'[target'[c]].at = "done"
        PROVE  cx'[c].at # "wait"
    <3>1. CASE target'[c] = c
      BY <2>2, <3>1 DEF Finished
    <3>2. CASE target'[c] # c
      BY <1>1, <2>2, <3>2 DEF Finished, Joined, TypeOK
    <3> QED BY <3>1, <3>2
  <2> QED BY <2>1, <2>2 DEF NoMissedJoin, Finished
<1>7. NoFreeWhileActive'
  BY <1>1 DEF NoFreeWhileActive, TypeOK
<1>8. Single'
  BY <1>1 DEF Single, Running, NoCurrent
<1>9. Stacked'
  <2>1. ASSUME NEW i \in DOMAIN nest
        PROVE  /\ nest[i] \in Ctx \ {c} /\ cx'[nest[i]] = cx[nest[i]]
               /\ \A d \in Ctx : Running(d)' => Running(d)
               /\ \A d \in Ctx : owner'[nest[i]] = d => owner[nest[i]] = d
    <3>1. nest[i] \in Ctx /\ cx[nest[i]].at = "nest" /\ nest # <<>>
      BY DEF TypeOK, Stacked
    <3>2. nest[i] # c
      BY <3>1
    <3>3. Roused(nest[i])
      BY <3>1, <3>2
    <3> QED BY <1>1, <1>2, <3>1, <3>2, <3>3 DEF Roused
  <2>2. \A j \in DOMAIN nest : nest[j] \in Ctx
    BY DEF TypeOK
  <2> QED BY <2>1, <2>2 DEF Stacked
<1>10. Alive' /\ Rooted' /\ Disowned'
  <2>1. Alive'
    BY <1>1, <1>3 DEF Alive, Finished
  <2>2. Rooted'
    BY <1>1, <1>2 DEF Rooted
  <2>3. Disowned'
    <3>1. ASSUME NEW d \in freed' PROVE owner'[d] \notin Ctx
      BY <1>0 DEF Disowned, TypeOK
    <3> QED BY <3>1 DEF Disowned
  <2> QED BY <2>1, <2>2, <2>3
<1>11. Scoped'
  BY DEF Scoped, Suspended, Suppressed, Roused
<1>12. Joined'
  BY DEF Joined
<1> QED BY <1>4, <1>5, <1>6, <1>7, <1>8, <1>9, <1>10, <1>11, <1>12

\* The same for the steps that touch nobody else and delete nothing.
LEMMA Moves ==
  ASSUME IInv, NEW c \in Ctx, TypeOK',
         UNCHANGED <<life, nest>>,
         \A d \in Ctx \ {c} : cx'[d] = cx[d] /\ pc'[d] = pc[d] /\ target'[d] = target[d],
         cx[c].at \notin {"none", "nest", "done"},
         cx'[c].at \notin {"none", "nest", "done"},
         cx'[c].at = "run" => cx'[c].notes = 1 /\ (Running(c) \/ NoCurrent(cx)),
         Running(c) \/ ~Running(c)' \/ nest = <<>>,
         cx'[c].at = "wait" => /\ cx'[c].notes = 0
                               /\ \/ ~Suspended(cx, c) \/ cx'[c] = cx[c]
                                  \/ ~Interruption(cx'[c])
                               /\ pc'[c] \in {"join", "destroy"} => ~Finished(target'[c]),
         pc'[c] \in {"yield", "join", "destroy"} => Suspended(cx', c),
         pc'[c] \in {"yield", "destroy"} => Suppressed(cx', c),
         \A d \in deferred' : pc'[d] = "yield",
         pc'[c] \in {"join", "destroy"} => target'[c] \in Ctx /\ owner[target'[c]] = c
  PROVE  IInv' /\ Woken
<1>1. owner' = owner /\ freed' = freed /\ nest' = nest
  BY DEF life
<1>2. \A e \in Ctx \ {c} : Roused(e)
  BY DEF Roused
<1> QED BY <1>1, <1>2, Effect

-----------------------------------------------------------------------------
(* The actions that move one context.                                      *)

\* What a resumption makes of the table.
LEMMA Resumed ==
  ASSUME TypeOK, NEW c \in Ctx, NEW b \in BOOLEAN,
         \/ cx' = Enter(cx, c)
         \/ cx' = Throw(Enter(cx, c), c)
         \/ cx' = Interruptible(Enter(cx, c), c, b)
  PROVE  /\ cx' \in Table
         /\ \A d \in Ctx \ {c} : cx'[d] = cx[d]
         /\ cx'[c].at = "run" /\ cx'[c].notes = 1
<1> DEFINE x == Enter(cx, c)
<1>1. cx \in Table
  BY DEF TypeOK, Table
<1>2. /\ x \in Table /\ x[c].at = "run" /\ x[c].notes = 1
      /\ \A d \in Ctx \ {c} : x[d] = cx[d]
  BY <1>1, EnterProperties DEF OthersKept
<1> HIDE DEF x
<1>3. /\ Throw(x, c) \in Table /\ Throw(x, c)[c].at = "run"
      /\ Throw(x, c)[c].notes = 1
      /\ \A d \in Ctx \ {c} : Throw(x, c)[d] = cx[d]
  BY <1>2, ThrowProperties DEF OthersKept
<1>4. /\ Interruptible(x, c, b) \in Table /\ Interruptible(x, c, b)[c].at = "run"
      /\ Interruptible(x, c, b)[c].notes = 1
      /\ \A d \in Ctx \ {c} : Interruptible(x, c, b)[d] = cx[d]
  BY <1>2, InterruptibleProperties DEF OthersKept
<1> QED BY <1>2, <1>3, <1>4 DEF x

\* What a suspension makes of it.
LEMMA Left ==
  ASSUME TypeOK, NEW c \in Ctx, cx' = Leave(cx, c)
  PROVE  /\ cx' \in Table
         /\ \A d \in Ctx \ {c} : cx'[d] = cx[d]
         /\ cx'[c].at = "wait" /\ cx'[c].notes = 0 /\ cx'[c].flags = cx[c].flags
         /\ Interruption(cx'[c]) <=> Interruption(cx[c])
         /\ Suspended(cx', c)
         /\ Suppressed(cx', c) <=> Suppressed(cx, c)
<1>1. cx \in Table
  BY DEF TypeOK, Table
<1> QED
  BY <1>1, LeaveProperties
  DEF OthersKept, Interruption, Requested, Suspended, Suppressed

LEMMA RaisedProperties ==
  ASSUME TypeOK, NEW c \in Ctx, NEW p \in Raised(c)
  PROVE  p \in {"user", "unwind"} /\ p \in Pc
BY DEF Raised, Pc

LEMMA StartStep == ASSUME IInv, NEW c \in Ctx, Start(c) PROVE IInv' /\ Woken
<1>0. TypeOK
  BY DEF IInv
<1>1. /\ cx' \in Table /\ cx'[c].at = "run" /\ cx'[c].notes = 1
      /\ \A d \in Ctx \ {c} : cx'[d] = cx[d]
  BY <1>0, Resumed DEF Start
<1>2. UNCHANGED <<life, scope, nest, deferred>>
      /\ cx[c].at = "posted" /\ NoCurrent(cx) /\ nest = <<>>
  BY DEF Start, Loop
<1>3. /\ pc' \in [Ctx -> Pc] /\ pc'[c] \in {pc[c], "unwind"}
      /\ \A d \in Ctx \ {c} : pc'[d] = pc[d]
  BY <1>0 DEF Start, TypeOK, Pc
<1>4. pc[c] \notin {"yield", "join", "destroy"} /\ c \notin deferred
  BY <1>2 DEF IInv, Scoped, Suspended
<1>5. TypeOK'
  BY <1>0, <1>1, <1>2, <1>3 DEF TypeOK, life, scope, Table
<1>6. target' = target /\ UNCHANGED <<life, nest>> /\ deferred' = deferred
  BY <1>2 DEF scope
<1>7. \A d \in deferred' : pc'[d] = "yield"
  BY <1>0, <1>3, <1>4, <1>6 DEF IInv, Scoped, TypeOK
<1> QED BY <1>1, <1>2, <1>3, <1>4, <1>5, <1>6, <1>7, Moves

LEMMA WaitStep == ASSUME IInv, NEW c \in Ctx, Wait(c) PROVE IInv' /\ Woken
<1>0. TypeOK
  BY DEF IInv
<1>1. /\ cx' \in Table /\ cx'[c].at = "wait" /\ cx'[c].notes = 0
      /\ \A d \in Ctx \ {c} : cx'[d] = cx[d]
  BY <1>0, Left DEF Wait
<1>2. /\ UNCHANGED <<pc, life, scope, nest, deferred>>
      /\ Running(c) /\ cx[c].at = "run" /\ pc[c] = "user" /\ ~Suspended(cx, c)
  BY DEF Wait, InUser, Running, Suspended
<1>3. TypeOK'
  BY <1>0, <1>1, <1>2 DEF TypeOK, life, scope, Table
<1>4. target' = target /\ UNCHANGED <<life, nest>> /\ deferred' = deferred /\ pc' = pc
  BY <1>2 DEF scope
<1>5. \A d \in deferred' : pc'[d] = "yield"
  BY <1>0, <1>4 DEF IInv, Scoped, TypeOK
<1> QED BY <1>1, <1>2, <1>3, <1>4, <1>5, Moves

LEMMA ResumeStep == ASSUME IInv, NEW c \in Ctx, Resume(c) PROVE IInv' /\ Woken
<1>0. TypeOK
  BY DEF IInv
<1>1. /\ cx' \in Table /\ cx'[c].at = "run" /\ cx'[c].notes = 1
      /\ \A d \in Ctx \ {c} : cx'[d] = cx[d]
  BY <1>0, Resumed DEF Resume
<1>2. /\ UNCHANGED <<life, scope, nest, deferred>>
      /\ cx[c].at = "wake" /\ pc[c] = "user" /\ NoCurrent(cx) /\ nest = <<>>
  BY DEF Resume, Loop
<1>3. /\ pc' \in [Ctx -> Pc] /\ pc'[c] \in {"user", "unwind"}
      /\ \A d \in Ctx \ {c} : pc'[d] = pc[d]
  BY <1>0, <1>2, RaisedProperties DEF Resume, TypeOK
<1>4. TypeOK'
  BY <1>0, <1>1, <1>2, <1>3 DEF TypeOK, life, scope, Table
<1>5. target' = target /\ UNCHANGED <<life, nest>> /\ deferred' = deferred
  BY <1>2 DEF scope
<1>6. \A d \in deferred' : pc'[d] = "yield"
  BY <1>0, <1>2, <1>3, <1>5 DEF IInv, Scoped, TypeOK
<1> QED BY <1>1, <1>2, <1>3, <1>4, <1>5, <1>6, Moves

LEMMA InterruptionPointStep ==
  ASSUME IInv, NEW c \in Ctx, InterruptionPoint(c) PROVE IInv' /\ Woken
<1>0. TypeOK /\ cx \in Table
  BY DEF IInv, TypeOK, Table
<1>1. /\ UNCHANGED <<life, scope, nest, deferred>>
      /\ Running(c) /\ cx[c].at = "run" /\ pc[c] = "user" /\ cx[c].notes = 1
  BY DEF InterruptionPoint, InUser, Running, IInv, OneNoteRunning
<1>2. /\ cx' \in Table /\ cx'[c].at = "run" /\ cx'[c].notes = 1
      /\ \A d \in Ctx \ {c} : cx'[d] = cx[d]
  BY <1>0, <1>1, ThrowProperties DEF InterruptionPoint, OthersKept
<1>3. /\ pc' \in [Ctx -> Pc] /\ pc'[c] \in {"user", "unwind"}
      /\ \A d \in Ctx \ {c} : pc'[d] = pc[d]
  BY <1>0, RaisedProperties DEF InterruptionPoint, TypeOK
<1>4. TypeOK'
  BY <1>0, <1>1, <1>2, <1>3 DEF TypeOK, life, scope, Table
<1>5. target' = target /\ UNCHANGED <<life, nest>> /\ deferred' = deferred
  BY <1>1 DEF scope
<1>6. \A d \in deferred' : pc'[d] = "yield"
  BY <1>0, <1>1, <1>3, <1>5 DEF IInv, Scoped, TypeOK
<1> QED BY <1>1, <1>2, <1>3, <1>4, <1>5, <1>6, Moves

\* A note or a flag reaches a context that is posted or suspended: where it is
\* otherwise, and what it does, stay the same.
LEMMA Reached ==
  ASSUME IInv, NEW d \in Ctx, cx' \in Table,
         \A c \in Ctx \ {d} : cx'[c] = cx[c],
         cx[d].at \in {"posted", "wait", "wake"},
         cx'[d].at \in {cx[d].at, Cancelled(cx[d].at)},
         cx'[d].at = "wait" => cx'[d] = cx[d],
         cx[d].flags \subseteq cx'[d].flags,
         UNCHANGED <<pc, life, scope, nest>>, deferred' \subseteq deferred
  PROVE  IInv' /\ Woken
<1>0. TypeOK
  BY DEF IInv
<1>1. TypeOK'
  BY <1>0 DEF TypeOK, life, scope, Table
<1>2. target' = target /\ pc' = pc /\ UNCHANGED <<life, nest>>
  BY DEF scope
<1>3. \A c \in deferred' : pc'[c] = "yield"
  BY <1>0, <1>2 DEF IInv, Scoped, TypeOK
<1>4. /\ cx'[d].at \in {"posted", "wait", "wake"}
      /\ cx[d].at \in {"wait", "wake"} => cx'[d].at \in {"wait", "wake"}
      /\ ~Running(d)'
  BY DEF Cancelled, Running
<1>5. pc'[d] \in {"yield", "join", "destroy"} => Suspended(cx', d)
  BY <1>2, <1>4 DEF IInv, Scoped, Suspended
<1>6. pc'[d] \in {"yield", "destroy"} => Suppressed(cx', d)
  BY <1>2 DEF IInv, Scoped, Suppressed
<1>7. pc'[d] \in {"join", "destroy"} => target'[d] \in Ctx /\ owner[target'[d]] = d
  BY <1>2 DEF IInv, Joined
<1>8. cx'[d].at = "wait" => /\ cx'[d].notes = 0
                            /\ cx'[d] = cx[d]
                            /\ pc'[d] \in {"join", "destroy"} => ~Finished(target'[d])
  BY <1>2 DEF IInv, NoLostNote, NoMissedJoin
<1> QED BY <1>1, <1>2, <1>3, <1>4, <1>5, <1>6, <1>7, <1>8, Moves

LEMMA NotifyCtxStep == ASSUME IInv, NEW d \in Ctx, NotifyCtx(d) PROVE IInv' /\ Woken
<1>1. /\ UNCHANGED <<pc, life, scope, nest, deferred>>
      /\ cx[d].at \in {"posted", "wait", "wake"} /\ cx' = Note(cx, {d}) /\ cx \in Table
      /\ cx[d].at = "wait" => cx[d].notes = 0
  BY DEF NotifyCtx, IInv, TypeOK, Table, NoLostNote
<1>2. /\ cx' \in Table
      /\ \A c \in Ctx \ {d} : cx'[c] = cx[c]
      /\ cx'[d].flags = cx[d].flags
      /\ cx'[d].at \in {cx[d].at, Cancelled(cx[d].at)}
      /\ cx'[d].at # "wait"
  BY <1>1, NoteProperties DEF Cancelled
<1> QED BY <1>1, <1>2, Reached

LEMMA SignalStep == ASSUME IInv, NEW d \in Ctx, Signal(d) PROVE IInv' /\ Woken
<1>1. PICK f \in Signals : cx' = Flagged(cx, d, f)
  BY DEF Signal
<1>2. /\ UNCHANGED <<pc, life, scope, nest, deferred>>
      /\ cx[d].at \in {"posted", "wait", "wake"} /\ cx \in Table /\ f \in Flag
  BY ContextAssumption DEF Signal, IInv, TypeOK, Table, Flag
<1>3. /\ cx' \in Table
      /\ \A c \in Ctx \ {d} : cx'[c] = cx[c]
      /\ cx[d].flags \subseteq cx'[d].flags
      /\ cx'[d].at \in {cx[d].at, Cancelled(cx[d].at)}
      /\ cx'[d].at = "wait" => cx'[d] = cx[d]
  BY <1>1, <1>2, FlaggedProperties DEF OthersKept
<1> QED BY <1>2, <1>3, Reached

LEMMA CountDownStep == ASSUME IInv, NEW d \in Ctx, CountDown(d) PROVE IInv' /\ Woken
<1>1. /\ UNCHANGED <<pc, life, scope, nest>>
      /\ cx' = Note(cx, {d}) /\ cx \in Table
      /\ d \in deferred /\ deferred' \subseteq deferred
      /\ cx[d].at = "wait" => cx[d].notes = 0
  BY DEF CountDown, IInv, TypeOK, Table, NoLostNote
<1>2. cx[d].at \in {"wait", "wake"}
  BY <1>1 DEF IInv, Scoped, Suspended
<1>3. /\ cx' \in Table
      /\ \A c \in Ctx \ {d} : cx'[c] = cx[c]
      /\ cx'[d].flags = cx[d].flags
      /\ cx'[d].at \in {cx[d].at, Cancelled(cx[d].at)}
      /\ cx'[d].at # "wait"
  BY <1>1, <1>2, NoteProperties DEF Cancelled
<1> QED BY <1>1, <1>2, <1>3, Reached

LEMMA CourtesyYieldStep ==
  ASSUME IInv, NEW c \in Ctx, CourtesyYield(c) PROVE IInv' /\ Woken
<1> DEFINE x == Interruptible(cx, c, FALSE)
<1>0. TypeOK /\ cx \in Table
  BY DEF IInv, TypeOK, Table
<1>1. x \in Table /\ "NOINTERRUPT" \in x[c].flags /\ \A d \in Ctx \ {c} : x[d] = cx[d]
  BY <1>0, InterruptibleProperties DEF OthersKept
<1>2. cx' = Leave(x, c)
  BY DEF CourtesyYield
<1> HIDE DEF x
<1>3. /\ cx' \in Table /\ cx'[c].at = "wait" /\ cx'[c].notes = 0
      /\ \A d \in Ctx \ {c} : cx'[d] = cx[d]
      /\ "NOINTERRUPT" \in cx'[c].flags
  BY <1>1, <1>2, LeaveProperties DEF OthersKept
<1>4. /\ UNCHANGED <<target, back, life, nest>>
      /\ Running(c) /\ cx[c].at = "run"
      /\ theirs' \in [Ctx -> BOOLEAN] /\ deferred' = deferred \cup {c}
  BY <1>0 DEF CourtesyYield, InUser, Running, Suppressed, TypeOK
<1>5. /\ pc' \in [Ctx -> Pc] /\ pc'[c] = "yield"
      /\ \A d \in Ctx \ {c} : pc'[d] = pc[d]
  BY <1>0 DEF CourtesyYield, TypeOK, Pc
<1>6. TypeOK'
  BY <1>0, <1>3, <1>4, <1>5 DEF TypeOK, life, Table
<1>7. /\ ~Interruption(cx'[c]) /\ Suppressed(cx', c) /\ Suspended(cx', c)
      /\ ~Running(c)'
  BY <1>3 DEF Interruption, Suppressed, Suspended, Running
<1>8. \A d \in deferred' : pc'[d] = "yield"
  BY <1>0, <1>4, <1>5 DEF IInv, Scoped, TypeOK
<1> QED BY <1>3, <1>4, <1>5, <1>6, <1>7, <1>8, Moves

LEMMA ResumeYieldStep ==
  ASSUME IInv, NEW c \in Ctx, ResumeYield(c) PROVE IInv' /\ Woken
<1>0. TypeOK /\ theirs[c] \in BOOLEAN
  BY DEF IInv, TypeOK
<1>1. /\ UNCHANGED <<life, target, back, nest, deferred>>
      /\ cx[c].at = "wake" /\ pc[c] = "yield" /\ NoCurrent(cx) /\ nest = <<>>
      /\ theirs' \in [Ctx -> BOOLEAN] /\ Suppressed(cx, c)
  BY <1>0 DEF ResumeYield, Loop, TypeOK, IInv, Scoped
<1>2. CASE c \in deferred
  <2>1. cx' = Leave(cx, c) /\ pc' = pc
    BY <1>2 DEF ResumeYield
  <2>2. /\ cx' \in Table /\ cx'[c].at = "wait" /\ cx'[c].notes = 0
        /\ \A d \in Ctx \ {c} : cx'[d] = cx[d]
        /\ Suppressed(cx', c) /\ Suspended(cx', c)
    BY <1>0, <1>1, <2>1, Left
  <2>3. TypeOK'
    BY <1>0, <1>1, <2>1, <2>2 DEF TypeOK, life, Table
  <2>4. ~Interruption(cx'[c]) /\ ~Running(c)'
    BY <2>2 DEF Interruption, Suppressed, Running
  <2>5. \A d \in deferred' : pc'[d] = "yield"
    BY <1>0, <1>1, <2>1 DEF IInv, Scoped, TypeOK
  <2> QED BY <1>1, <2>1, <2>2, <2>3, <2>4, <2>5, Moves
<1>3. CASE c \notin deferred
  <2>1. cx' = Interruptible(Enter(cx, c), c, theirs[c]) /\ pc' = [pc EXCEPT ![c] = "user"]
    BY <1>3 DEF ResumeYield
  <2>2. /\ cx' \in Table /\ cx'[c].at = "run" /\ cx'[c].notes = 1
        /\ \A d \in Ctx \ {c} : cx'[d] = cx[d]
    BY <1>0, <2>1, Resumed
  <2>3. /\ pc' \in [Ctx -> Pc] /\ pc'[c] = "user"
        /\ \A d \in Ctx \ {c} : pc'[d] = pc[d]
    BY <1>0, <2>1 DEF TypeOK, Pc
  <2>4. TypeOK'
    BY <1>0, <1>1, <2>2, <2>3 DEF TypeOK, life, Table
  <2>5. \A d \in deferred' : pc'[d] = "yield"
    BY <1>0, <1>1, <1>3, <2>3 DEF IInv, Scoped, TypeOK
  <2> QED BY <1>1, <2>2, <2>3, <2>4, <2>5, Moves
<1> QED BY <1>2, <1>3

LEMMA JoinStep ==
  ASSUME IInv, NEW c \in Ctx, NEW d \in Ctx, Join(c, d) PROVE IInv' /\ Woken
<1>0. TypeOK
  BY DEF IInv
<1>1. /\ cx' \in Table /\ cx'[c].at = "wait" /\ cx'[c].notes = 0
      /\ \A e \in Ctx \ {c} : cx'[e] = cx[e]
      /\ Suspended(cx', c)
  BY <1>0, Left DEF Join
<1>2. /\ UNCHANGED <<back, theirs, life, nest, deferred>>
      /\ Running(c) /\ cx[c].at = "run" /\ pc[c] = "user" /\ ~Suspended(cx, c)
      /\ owner[d] = c /\ ~Finished(d) /\ ~Running(c)'
  BY <1>1 DEF Join, InUser, Running, Suspended, Children
<1>3. /\ pc' \in [Ctx -> Pc] /\ pc'[c] = "join"
      /\ \A e \in Ctx \ {c} : pc'[e] = pc[e]
      /\ target' \in [Ctx -> Ctx \cup {None}] /\ target'[c] = d
      /\ \A e \in Ctx \ {c} : target'[e] = target[e]
  BY <1>0 DEF Join, TypeOK, Pc
<1>4. TypeOK'
  BY <1>0, <1>1, <1>2, <1>3 DEF TypeOK, life, Table
<1>5. \A e \in deferred' : pc'[e] = "yield"
  BY <1>0, <1>2, <1>3 DEF IInv, Scoped, TypeOK
<1> QED BY <1>1, <1>2, <1>3, <1>4, <1>5, Moves

LEMMA ResumeJoinStep ==
  ASSUME IInv, NEW c \in Ctx, ResumeJoin(c) PROVE IInv' /\ Woken
<1>0. TypeOK
  BY DEF IInv
<1>1. /\ UNCHANGED <<back, theirs, life, nest, deferred>>
      /\ cx[c].at = "wake" /\ pc[c] = "join" /\ NoCurrent(cx) /\ nest = <<>>
      /\ c \notin deferred
  BY DEF ResumeJoin, Loop, IInv, Scoped
<1>2. CASE /\ cx' \in {Enter(cx, c), Throw(Enter(cx, c), c)}
           /\ \E p \in Raised(c) \cup {"user"} : pc' = [pc EXCEPT ![c] = p]
           /\ target' = [target EXCEPT ![c] = None]
  <2>1. /\ cx' \in Table /\ cx'[c].at = "run" /\ cx'[c].notes = 1
        /\ \A d \in Ctx \ {c} : cx'[d] = cx[d]
    BY <1>0, <1>2, Resumed
  <2>2. /\ pc' \in [Ctx -> Pc] /\ pc'[c] \in {"user", "unwind"}
        /\ \A d \in Ctx \ {c} : pc'[d] = pc[d]
        /\ target' \in [Ctx -> Ctx \cup {None}]
        /\ \A d \in Ctx \ {c} : target'[d] = target[d]
    BY <1>0, <1>2, RaisedProperties DEF TypeOK, Pc
  <2>3. TypeOK'
    BY <1>0, <1>1, <2>1, <2>2 DEF TypeOK, life, Table
  <2>4. \A d \in deferred' : pc'[d] = "yield"
    BY <1>0, <1>1, <2>2 DEF IInv, Scoped, TypeOK
  <2> QED BY <1>1, <2>1, <2>2, <2>3, <2>4, Moves
<1>3. CASE /\ ~Interruption(cx[c]) /\ ~Finished(target[c])
           /\ cx' = Leave(cx, c) /\ UNCHANGED <<pc, target>>
  <2>1. /\ cx' \in Table /\ cx'[c].at = "wait" /\ cx'[c].notes = 0
        /\ \A d \in Ctx \ {c} : cx'[d] = cx[d]
        /\ ~Interruption(cx'[c]) /\ Suspended(cx', c)
    BY <1>0, <1>3, Left
  <2>2. TypeOK'
    BY <1>0, <1>1, <1>3, <2>1 DEF TypeOK, life, Table
  <2>3. /\ \A d \in deferred' : pc'[d] = "yield"
        /\ ~Running(c)' /\ target[c] \in Ctx /\ owner[target[c]] = c
    BY <1>0, <1>1, <1>3, <2>1 DEF IInv, Scoped, Joined, TypeOK, Running
  <2> QED BY <1>1, <1>3, <2>1, <2>2, <2>3, Moves
<1> QED BY <1>2, <1>3 DEF ResumeJoin

-----------------------------------------------------------------------------
(* Destruction and the end of a context.                                   *)

\* Deleting what has finished, by the owner that runs after the step.
LEMMA Deletion ==
  ASSUME IInv, NEW c \in Ctx, NEW t \in Ctx, owner[t] = c, Finished(t), Delete(t),
         cx' \in Table, \A d \in Ctx \ {c} : cx'[d] = cx[d],
         cx[c].at \in {"run", "wake"}, cx'[c].at = "run", cx'[c].notes = 1,
         Running(c) \/ Loop,
         pc' \in [Ctx -> Pc], pc'[c] \in {"user", "unwind"},
         \A d \in Ctx \ {c} : pc'[d] = pc[d],
         target' \in [Ctx -> Ctx \cup {None}],
         \A d \in Ctx \ {c} : target'[d] = target[d],
         back' \in [Ctx -> {"user", "unwind"}], theirs' \in [Ctx -> BOOLEAN],
         pc[c] # "yield", UNCHANGED <<nest, deferred>>
  PROVE  IInv' /\ Woken
<1>0. TypeOK
  BY DEF IInv
<1>1. /\ freed' = freed \cup {t} /\ owner' = [owner EXCEPT ![t] = "none"]
      /\ waitjoin' = waitjoin
  BY DEF Delete
<1>2. /\ \A d \in Ctx : owner'[d] = owner[d] \/ (owner[d] = c /\ owner'[d] = "none")
      /\ owner'[t] = "none" /\ owner' \in [Ctx -> Owner]
  BY <1>0, <1>1 DEF TypeOK, Owner
<1>3. TypeOK'
  BY <1>0, <1>1, <1>2 DEF TypeOK, Table
<1>4. t # c /\ Finished(t)' /\ "none" \notin Ctx
  BY ContextAssumption DEF Finished
<1>5. \A d \in freed' : d \in freed \/ (Finished(d)' /\ owner'[d] \notin Ctx)
  BY <1>1, <1>2, <1>4
<1>6. \A e \in Ctx \ {c} : Roused(e)
  BY DEF Roused
<1>7. \A d \in deferred' : pc'[d] = "yield"
  BY <1>0 DEF IInv, Scoped, TypeOK
<1> QED BY <1>2, <1>3, <1>5, <1>6, <1>7, Effect DEF Loop

LEMMA ResumeDestroyStep ==
  ASSUME IInv, NEW c \in Ctx, ResumeDestroy(c) PROVE IInv' /\ Woken
<1>0. TypeOK /\ theirs[c] \in BOOLEAN /\ back[c] \in {"user", "unwind"}
  BY DEF IInv, TypeOK
<1>1. /\ UNCHANGED <<nest, deferred>> /\ Loop /\ nest = <<>>
      /\ cx[c].at = "wake" /\ pc[c] = "destroy"
      /\ target[c] \in Ctx /\ owner[target[c]] = c /\ Suppressed(cx, c)
  BY DEF ResumeDestroy, Loop, IInv, Joined, Scoped
<1>2. CASE Finished(target[c])
  <2>1. /\ cx' = Interruptible(Enter(cx, c), c, theirs[c])
        /\ pc' = [pc EXCEPT ![c] = back[c]]
        /\ target' = [target EXCEPT ![c] = None]
        /\ back' = [back EXCEPT ![c] = "user"]
        /\ theirs' = [theirs EXCEPT ![c] = TRUE]
        /\ Delete(target[c])
    BY <1>2 DEF ResumeDestroy
  <2>2. /\ cx' \in Table /\ cx'[c].at = "run" /\ cx'[c].notes = 1
        /\ \A d \in Ctx \ {c} : cx'[d] = cx[d]
    BY <1>0, <2>1, Resumed
  <2>3. /\ pc' \in [Ctx -> Pc] /\ pc'[c] \in {"user", "unwind"}
        /\ \A d \in Ctx \ {c} : pc'[d] = pc[d]
        /\ target' \in [Ctx -> Ctx \cup {None}]
        /\ \A d \in Ctx \ {c} : target'[d] = target[d]
        /\ back' \in [Ctx -> {"user", "unwind"}] /\ theirs' \in [Ctx -> BOOLEAN]
    BY <1>0, <2>1 DEF TypeOK, Pc
  <2> QED BY <1>1, <1>2, <2>1, <2>2, <2>3, Deletion
<1>3. CASE ~Finished(target[c])
  <2>1. cx' = Leave(cx, c) /\ UNCHANGED <<pc, scope, life>>
    BY <1>3 DEF ResumeDestroy
  <2>2. /\ cx' \in Table /\ cx'[c].at = "wait" /\ cx'[c].notes = 0
        /\ \A d \in Ctx \ {c} : cx'[d] = cx[d]
        /\ Suppressed(cx', c) /\ Suspended(cx', c)
    BY <1>0, <1>1, <2>1, Left
  <2>3. TypeOK'
    BY <1>0, <1>1, <2>1, <2>2 DEF TypeOK, life, scope, Table
  <2>4. ~Interruption(cx'[c]) /\ ~Running(c)'
    BY <2>2 DEF Interruption, Suppressed, Running
  <2>5. /\ \A d \in deferred' : pc'[d] = "yield"
        /\ target' = target /\ pc' = pc /\ UNCHANGED life
    BY <1>0, <1>1, <2>1 DEF IInv, Scoped, TypeOK, scope
  <2> QED BY <1>1, <1>3, <2>2, <2>3, <2>4, <2>5, Moves
<1> QED BY <1>2, <1>3

LEMMA DestroyStep ==
  ASSUME IInv, NEW c \in Ctx, NEW d \in Ctx, Destroy(c, d) PROVE IInv' /\ Woken
<1>0. TypeOK /\ cx \in Table
  BY DEF IInv, TypeOK, Table
<1>1. /\ UNCHANGED <<nest, deferred>>
      /\ Running(c) /\ cx[c].at = "run" /\ cx[c].notes = 1
      /\ pc[c] \in {"user", "unwind"} /\ owner[d] = c /\ d # c
  BY DEF Destroy, Running, IInv, OneNoteRunning, Children, Rooted
<1>2. CASE Finished(d)
  <2>1. Delete(d) /\ UNCHANGED <<cx, pc, scope>>
    BY <1>2 DEF Destroy
  <2>2. /\ target' = target /\ back' = back /\ theirs' = theirs
        /\ cx' = cx /\ pc' = pc
    BY <2>1 DEF scope
  <2> QED BY <1>0, <1>1, <1>2, <2>1, <2>2, Deletion DEF TypeOK
<1>3. CASE ~Finished(d)
  <2> DEFINE x == Interruptible(cx, c, FALSE)
             y == IF d \in waitjoin THEN x ELSE Terminate(x, d)
  <2>1. /\ cx' = Leave(y, c)
        /\ pc' = [pc EXCEPT ![c] = "destroy"]
        /\ target' = [target EXCEPT ![c] = d]
        /\ back' = [back EXCEPT ![c] = pc[c]]
        /\ theirs' = [theirs EXCEPT ![c] = ~Suppressed(cx, c)]
        /\ UNCHANGED life
    BY <1>3 DEF Destroy
  <2>2. /\ x \in Table /\ "NOINTERRUPT" \in x[c].flags
        /\ \A e \in Ctx \ {c} : x[e] = cx[e]
    BY <1>0, InterruptibleProperties DEF OthersKept
  <2> HIDE DEF x
  <2>3. /\ y \in Table /\ "NOINTERRUPT" \in y[c].flags
        /\ \A e \in Ctx \ {c, d} : y[e] = cx[e]
        /\ y[d].at \in {cx[d].at, Cancelled(cx[d].at)}
        /\ y[d].at = "wait" => y[d] = cx[d]
        /\ cx[d].flags \subseteq y[d].flags
    <3>1. CASE d \in waitjoin
      BY <1>1, <2>2, <3>1
    <3>2. CASE d \notin waitjoin
      <4>1. y = Flagged(x, d, "TERMINATED")
        BY <3>2 DEF Terminate
      <4> HIDE DEF y
      <4>2. /\ y \in Table /\ OthersKept(x, y, d)
            /\ y[d].at \in {x[d].at, Cancelled(x[d].at)}
            /\ y[d].at = "wait" => y[d] = x[d]
            /\ x[d].flags \subseteq y[d].flags
        BY <2>2, <4>1, FlaggedProperties DEF Flag
      <4> QED BY <1>1, <2>2, <4>2 DEF OthersKept
    <3> QED BY <3>1, <3>2
  <2> HIDE DEF y
  <2>4. /\ cx' \in Table /\ cx'[c].at = "wait" /\ cx'[c].notes = 0
        /\ "NOINTERRUPT" \in cx'[c].flags
        /\ \A e \in Ctx \ {c} : cx'[e] = y[e]
    BY <2>1, <2>3, LeaveProperties DEF OthersKept
  <2>5. /\ pc' \in [Ctx -> Pc] /\ pc'[c] = "destroy"
        /\ \A e \in Ctx \ {c} : pc'[e] = pc[e]
        /\ target' \in [Ctx -> Ctx \cup {None}] /\ target'[c] = d
        /\ \A e \in Ctx \ {c} : target'[e] = target[e]
        /\ back' \in [Ctx -> {"user", "unwind"}] /\ theirs' \in [Ctx -> BOOLEAN]
    BY <1>0, <1>1, <2>1 DEF TypeOK, Pc, Suppressed
  <2>6. TypeOK'
    BY <1>0, <1>1, <2>1, <2>4, <2>5 DEF TypeOK, life, Table
  <2>7. /\ ~Interruption(cx'[c]) /\ Suppressed(cx', c) /\ Suspended(cx', c)
        /\ ~Running(c)' /\ ~Running(d)
    BY <1>1, <2>4 DEF Interruption, Suppressed, Suspended, Running, IInv, Single
  <2>8. /\ \A i \in DOMAIN nest : nest[i] # d
        /\ cx'[d].at # "run"
    BY <1>1, <2>3, <2>4, <2>7 DEF IInv, Stacked, Running, Cancelled
  <2>9. \A e \in Ctx \ {c} : Roused(e)
    BY <1>1, <2>3, <2>4, <2>8 DEF Roused, Cancelled
  <2>10. \A e \in deferred' : pc'[e] = "yield"
    BY <1>0, <1>1, <2>5 DEF IInv, Scoped, TypeOK
  <2>11. owner' = owner /\ freed' = freed
    BY <2>1 DEF life
  <2> QED BY <1>1, <1>3, <2>4, <2>5, <2>6, <2>7, <2>9, <2>10, <2>11, Effect
<1> QED BY <1>2, <1>3

LEMMA FinishStep == ASSUME IInv, NEW c \in Ctx, Finish(c) PROVE IInv' /\ Woken
<1> DEFINE x == Note(cx, Adjoindre)
<1>0. TypeOK /\ cx \in Table
  BY DEF IInv, TypeOK, Table
<1>1. /\ cx' = End(x, c) /\ UNCHANGED <<scope, owner, waitjoin, nest, deferred>>
      /\ freed' = (IF owner[c] = "self" THEN freed \cup {c} ELSE freed)
      /\ pc' = [pc EXCEPT ![c] = "user"]
      /\ Running(c) /\ cx[c].at = "run" /\ pc[c] \in {"user", "unwind"}
      /\ Children(c) = {}
  BY DEF Finish, Running
<1>2. /\ x \in Table
      /\ \A e \in Ctx \ Adjoindre : x[e] = cx[e]
      /\ \A e \in Adjoindre : /\ e \in Ctx /\ cx[e].at \in {"wait", "wake"}
                              /\ x[e].flags = cx[e].flags
                              /\ x[e].at = "wake"
  <2>1. \A e \in Adjoindre : e \in Ctx /\ cx[e].at \in {"wait", "wake"}
                             /\ (cx[e].at = "wait" => cx[e].notes = 0)
    BY DEF Adjoindre, Suspended, IInv, NoLostNote
  <2> QED BY <1>0, <2>1, NoteProperties DEF Cancelled
<1> HIDE DEF x
<1>3. /\ cx' \in Table /\ cx'[c].at = "done"
      /\ \A e \in Ctx \ {c} : cx'[e] = x[e]
  BY <1>1, <1>2, EndProperties DEF OthersKept
<1>4. /\ pc' \in [Ctx -> Pc] /\ pc'[c] = "user"
      /\ \A e \in Ctx \ {c} : pc'[e] = pc[e]
  BY <1>0, <1>1 DEF TypeOK, Pc
<1>5. TypeOK'
  BY <1>0, <1>1, <1>3, <1>4 DEF TypeOK, scope, Table
<1>6. \A e \in Ctx \ {c} : Roused(e)
  BY <1>2, <1>3 DEF Roused, IInv, Stacked
<1>7. \A e \in Ctx : pc'[e] \in {"join", "destroy"} /\ target'[e] = c => cx'[e].at # "wait"
  <2>1. ASSUME NEW e \in Ctx, pc'[e] \in {"join", "destroy"} PROVE e \in Adjoindre \ {c}
    BY <1>4, <2>1 DEF IInv, Scoped, Adjoindre
  <2> QED BY <1>2, <1>3, <2>1
<1>8. /\ \A d \in freed' : d \in freed \/ (Finished(d)' /\ owner'[d] \notin Ctx)
      /\ target' = target /\ owner' = owner /\ nest' = nest
  BY <1>1, <1>3, ContextAssumption DEF Finished, scope
<1>9. \A e \in deferred' : pc'[e] = "yield"
  BY <1>0, <1>1, <1>4 DEF IInv, Scoped, TypeOK
<1> QED BY <1>1, <1>3, <1>4, <1>5, <1>6, <1>7, <1>8, <1>9, Effect

-----------------------------------------------------------------------------
(* Construction.                                                           *)

\* Only the new context gets an owner, which is not itself, and it had none.
LEMMA Constructed ==
  ASSUME IInv, NEW c \in Ctx, NEW d \in Ctx, NEW fl, Running(c), Construct(c, d, fl)
  PROVE  /\ d # c /\ d \notin freed /\ cx[d].at = "none" /\ d \notin deferred
         /\ pc[d] \notin {"yield", "join", "destroy"}
         /\ owner' \in [Ctx -> Owner] /\ waitjoin' \in SUBSET Ctx
         /\ owner'[d] # d
         /\ \A e \in Ctx \ {d} : owner'[e] = owner[e]
         /\ \A e \in Ctx : owner'[e] # d
         /\ \A e \in Ctx \ {c} : Children(e)' \subseteq Children(e)
         /\ \A e \in Ctx : pc[e] \in {"join", "destroy"} => target[e] # d
         /\ \A i \in DOMAIN nest : nest[i] # d /\ nest[i] # c
<1>0. /\ TypeOK /\ {"none", "self"} \cap Ctx = {} /\ cx[c].at = "run" /\ cx[d].at = "none"
      /\ owner' = [owner EXCEPT ![d] = IF "DETACH" \in fl THEN "self" ELSE c]
      /\ waitjoin' = IF "WAIT_JOIN" \in fl THEN waitjoin \cup {d} ELSE waitjoin
  BY ContextAssumption DEF IInv, Running, Construct
<1>1. d # c /\ d \notin freed /\ Children(d) = {} /\ owner[d] = "none"
  BY <1>0 DEF IInv, NoFreeWhileActive, Finished, Alive, Rooted
<1>2. /\ owner'[d] \in {"self", c} /\ owner' \in [Ctx -> Owner] /\ waitjoin' \in SUBSET Ctx
      /\ \A e \in Ctx \ {d} : owner'[e] = owner[e]
  BY <1>0 DEF TypeOK, Owner
<1>3. pc[d] \notin {"yield", "join", "destroy"} /\ d \notin deferred
  BY <1>0 DEF IInv, Scoped, Suspended
<1>4. \A i \in DOMAIN nest : nest[i] # d /\ nest[i] # c
  BY <1>0 DEF IInv, Stacked
<1>5. \A e \in Ctx : owner'[e] # d
  BY <1>0, <1>1, <1>2 DEF Children
<1>6. \A e \in Ctx \ {c} : Children(e)' \subseteq Children(e)
  BY <1>0, <1>2 DEF Children
<1>7. \A e \in Ctx : pc[e] \in {"join", "destroy"} => target[e] # d
  BY <1>0, <1>1 DEF IInv, Joined
<1> QED BY <1>0, <1>1, <1>2, <1>3, <1>4, <1>5, <1>6, <1>7

LEMMA SpawnPostStep ==
  ASSUME IInv, NEW c \in Ctx, NEW d \in Ctx, SpawnPost(c, d) PROVE IInv' /\ Woken
<1> USE DEF IInv
<1>0. TypeOK /\ Running(c) /\ cx[c].at = "run"
  BY DEF SpawnPost, InUser, Running
<1>1. PICK fl \in SpawnFlags : Construct(c, d, fl)
  BY DEF SpawnPost
<1>2. /\ d # c /\ d \notin freed /\ cx[d].at = "none" /\ d \notin deferred
      /\ pc[d] \notin {"yield", "join", "destroy"}
      /\ owner' \in [Ctx -> Owner] /\ waitjoin' \in SUBSET Ctx
      /\ owner'[d] # d
      /\ \A e \in Ctx \ {d} : owner'[e] = owner[e]
      /\ \A e \in Ctx \ {c} : Children(e)' \subseteq Children(e)
      /\ \A e \in Ctx : pc[e] \in {"join", "destroy"} => target[e] # d
      /\ \A i \in DOMAIN nest : nest[i] # d /\ nest[i] # c
  BY <1>0, <1>1, Constructed
<1>3. /\ UNCHANGED <<pc, freed, nest, deferred>> /\ target' = target
      /\ UNCHANGED scope
  BY DEF SpawnPost, scope
<1>4. /\ cx' \in [Ctx -> CtxState] /\ cx'[d].at = "posted"
      /\ \A e \in Ctx \ {d} : cx'[e] = cx[e]
  BY <1>0 DEF SpawnPost, TypeOK, CtxState, At
<1>5. TypeOK'
  BY <1>0, <1>2, <1>3, <1>4 DEF TypeOK, scope
<1>6. \A e \in Ctx : /\ Finished(e)' <=> Finished(e)
                     /\ Running(e)' <=> Running(e)
                     /\ cx'[e].at = "none" => e # d
  BY <1>2, <1>4 DEF Finished, Running
<1>7. NoLostNote' /\ OneNoteRunning' /\ Woken /\ Single'
  BY <1>2, <1>4, <1>6 DEF NoLostNote, OneNoteRunning, Woken, Suspended, Single, Running
<1>8. NoMissedJoin'
  BY <1>2, <1>3, <1>4, <1>6 DEF NoMissedJoin, Joined
<1>9. NoFreeWhileActive' /\ Disowned'
  BY <1>0, <1>2, <1>3, <1>6 DEF NoFreeWhileActive, Disowned, TypeOK
<1>10. Stacked'
  BY <1>0, <1>2, <1>3, <1>4, <1>6 DEF Stacked, TypeOK
<1>11. Alive' /\ Rooted'
  <2>1. \A e \in Ctx : cx'[e].at \in {"none", "done"} => Children(e)' = {}
    BY <1>0, <1>2, <1>4 DEF Alive
  <2> QED BY <2>1, <1>2, <1>4 DEF Alive, Rooted
<1>12. Scoped' /\ Joined'
  BY <1>2, <1>3, <1>4 DEF Scoped, Joined, Suspended, Suppressed
<1> QED BY <1>5, <1>7, <1>8, <1>9, <1>10, <1>11, <1>12

LEMMA SpawnDispatchStep ==
  ASSUME IInv, NEW c \in Ctx, NEW d \in Ctx, SpawnDispatch(c, d) PROVE IInv' /\ Woken
<1> USE DEF IInv
<1>0. TypeOK /\ cx \in Table /\ Running(c) /\ cx[c].at = "run" /\ ~Requested(cx[c])
  BY DEF SpawnDispatch, InUser, Running, TypeOK, Table
<1>1. PICK fl \in SpawnFlags : Construct(c, d, fl)
  BY DEF SpawnDispatch
<1>2. /\ d # c /\ d \notin freed /\ cx[d].at = "none" /\ d \notin deferred
      /\ pc[d] \notin {"yield", "join", "destroy"}
      /\ owner' \in [Ctx -> Owner] /\ waitjoin' \in SUBSET Ctx
      /\ owner'[d] # d
      /\ \A e \in Ctx \ {d} : owner'[e] = owner[e]
      /\ \A e \in Ctx : owner'[e] # d
      /\ \A e \in Ctx \ {c} : Children(e)' \subseteq Children(e)
      /\ \A e \in Ctx : pc[e] \in {"join", "destroy"} => target[e] # d
      /\ \A i \in DOMAIN nest : nest[i] # d /\ nest[i] # c
  BY <1>0, <1>1, Constructed
<1>3. /\ UNCHANGED <<back, freed, deferred>> /\ nest' = Append(nest, c)
      /\ pc' = [pc EXCEPT ![c] = "dispatch"]
      /\ target' = [target EXCEPT ![c] = d]
      /\ theirs' \in [Ctx -> BOOLEAN]
  BY <1>0 DEF SpawnDispatch, TypeOK, Suppressed
<1>4. /\ cx' \in Table /\ cx'[d].at = "run" /\ cx'[d].notes = 1
      /\ cx'[c].at = "nest" /\ ~Requested(cx'[c])
      /\ \A e \in Ctx \ {c, d} : cx'[e] = cx[e]
  <2> DEFINE x == Interruptible(cx, c, FALSE)
             y == [x EXCEPT ![c].at = "nest"]
  <2>1. x \in Table /\ ~Requested(x[c]) /\ \A e \in Ctx \ {c} : x[e] = cx[e]
    BY <1>0, InterruptibleProperties DEF OthersKept
  <2> HIDE DEF x
  <2>2. /\ y \in Table /\ y[c].at = "nest" /\ y[c].flags = x[c].flags
        /\ \A e \in Ctx \ {c} : y[e] = cx[e]
    BY <2>1 DEF Table, CtxState, At
  <2>3. cx' = Enter(y, d)
    BY DEF SpawnDispatch, x
  <2> HIDE DEF y
  <2> QED BY <1>2, <2>1, <2>2, <2>3, EnterProperties DEF OthersKept, Requested
<1>5. /\ pc' \in [Ctx -> Pc] /\ pc'[c] = "dispatch" /\ \A e \in Ctx \ {c} : pc'[e] = pc[e]
      /\ target' \in [Ctx -> Ctx \cup {None}]
      /\ \A e \in Ctx \ {c} : target'[e] = target[e]
  BY <1>0, <1>3 DEF TypeOK, Pc
<1>6. /\ nest \in Seq(Ctx) /\ Len(nest) \in Nat /\ DOMAIN nest = 1 .. Len(nest)
      /\ nest' \in Seq(Ctx) /\ DOMAIN nest' = 1 .. Len(nest) + 1
      /\ \A i \in 1 .. Len(nest) : nest'[i] = nest[i]
      /\ nest'[Len(nest) + 1] = c
  <2>1. nest \in Seq(Ctx)
    BY <1>0 DEF TypeOK
  <2>2. Len(nest) \in Nat /\ DOMAIN nest = 1 .. Len(nest)
    BY <2>1, LenProperties
  <2>3. /\ nest' \in Seq(Ctx) /\ Len(nest') = Len(nest) + 1
        /\ \A i \in 1 .. Len(nest) : nest'[i] = nest[i]
        /\ nest'[Len(nest) + 1] = c
    BY <1>3, <2>1, AppendProperties
  <2> QED BY <2>1, <2>2, <2>3, LenProperties
<1>7. TypeOK'
  BY <1>0, <1>2, <1>3, <1>4, <1>5, <1>6 DEF TypeOK, Table
<1>8. \A e \in Ctx : /\ Finished(e)' <=> Finished(e)
                     /\ Running(e)' <=> e = d
                     /\ cx'[e].at = "none" => cx[e].at = "none" /\ e \notin {c, d}
  BY <1>0, <1>2, <1>4 DEF Finished, Running, Single
<1>9. NoLostNote' /\ OneNoteRunning' /\ Woken /\ Single'
  BY <1>0, <1>2, <1>4, <1>8 DEF NoLostNote, OneNoteRunning, Woken, Suspended, Single
<1>10. NoMissedJoin'
  BY <1>2, <1>4, <1>5, <1>8 DEF NoMissedJoin, Joined
<1>11. NoFreeWhileActive' /\ Disowned'
  BY <1>0, <1>2, <1>3, <1>8 DEF NoFreeWhileActive, Disowned, TypeOK
<1>12. Stacked'
  <2>1. ASSUME NEW i \in 1 .. Len(nest)
        PROVE  /\ nest'[i] = nest[i] /\ nest[i] \in Ctx \ {c, d}
               /\ cx'[nest[i]] = cx[nest[i]] /\ owner'[nest[i]] = owner[nest[i]]
               /\ owner[nest[i]] # c /\ owner'[nest[i]] # d
    BY <1>0, <1>2, <1>4, <1>6 DEF Stacked, TypeOK
  <2>2. owner'[c] = owner[c] /\ owner[c] # c
    BY <1>2 DEF Rooted
  <2>3. ASSUME NEW i \in 1 .. Len(nest) + 1
        PROVE  /\ cx'[nest'[i]].at = "nest" /\ ~Requested(cx'[nest'[i]])
               /\ \A e \in Ctx : Running(e)' => owner'[nest'[i]] # e
    BY <1>2, <1>4, <1>6, <1>8, <2>1 DEF Stacked
  <2>4. ASSUME NEW i \in 1 .. Len(nest) + 1, NEW j \in 1 .. Len(nest) + 1
        PROVE  /\ nest'[i] = nest'[j] => i = j
               /\ owner'[nest'[i]] = nest'[j] => j < i
    <3>1. CASE i \in 1 .. Len(nest) /\ j \in 1 .. Len(nest)
      BY <1>6, <2>1, <3>1 DEF Stacked
    <3>2. CASE i \in 1 .. Len(nest) /\ j = Len(nest) + 1
      BY <1>6, <2>1, <3>2
    <3>3. CASE i = Len(nest) + 1 /\ j \in 1 .. Len(nest)
      BY <1>6, <2>1, <3>3
    <3>4. CASE i = Len(nest) + 1 /\ j = Len(nest) + 1
      BY <1>6, <2>2, <3>4
    <3> QED BY <1>6, <3>1, <3>2, <3>3, <3>4
  <2> QED BY <1>6, <2>3, <2>4 DEF Stacked
<1>13. Alive' /\ Rooted'
  <2>1. \A e \in Ctx : cx'[e].at \in {"none", "done"} => Children(e)' = {}
    BY <1>0, <1>2, <1>4 DEF Alive
  <2> QED BY <2>1, <1>2, <1>8 DEF Alive, Rooted
<1>14. Scoped' /\ Joined'
  BY <1>0, <1>2, <1>3, <1>4, <1>5 DEF Scoped, Joined, Suspended, Suppressed
<1> QED BY <1>7, <1>9, <1>10, <1>11, <1>12, <1>13, <1>14

\* The parent goes on as it was: nothing was requested of it meanwhile, so that
\* the scope does not throw and the child is not deleted.
LEMMA ResumeParentStep == ASSUME IInv, ResumeParent PROVE IInv' /\ Woken
<1> DEFINE c == nest[Len(nest)]
           x == Interruptible(Enter(cx, c), c, theirs[c])
<1> USE DEF IInv
<1>0. TypeOK /\ cx \in Table /\ nest \in Seq(Ctx) /\ nest # <<>> /\ NoCurrent(cx)
  BY DEF ResumeParent, TypeOK, Table
<1>1. /\ Len(nest) \in Nat \ {0} /\ DOMAIN nest = 1 .. Len(nest)
      /\ c \in Ctx /\ cx[c].at = "nest" /\ ~Requested(cx[c])
  <2>1. Len(nest) \in Nat \ {0} /\ DOMAIN nest = 1 .. Len(nest)
    BY <1>0, LenProperties, EmptySeq
  <2> QED BY <1>0, <2>1 DEF Stacked
<1>2. /\ IF Interruption(x[c])
         THEN TRUE
         ELSE /\ cx' = x
              /\ pc' = [pc EXCEPT ![c] = "user"]
              /\ UNCHANGED <<freed, owner>>
      /\ target' = [target EXCEPT ![c] = None]
      /\ theirs' = [theirs EXCEPT ![c] = TRUE]
      /\ nest' = SubSeq(nest, 1, Len(nest) - 1)
      /\ UNCHANGED <<waitjoin, back, deferred>>
  BY DEF ResumeParent, Last, Front
<1> HIDE DEF c
<1>3. /\ x \in Table /\ x[c].at = "run" /\ x[c].notes = 1 /\ ~Requested(x[c])
      /\ \A e \in Ctx \ {c} : x[e] = cx[e]
  <2> DEFINE y == Enter(cx, c)
  <2>1. /\ y \in Table /\ y[c].at = "run" /\ y[c].notes = 1 /\ ~Requested(y[c])
        /\ \A e \in Ctx \ {c} : y[e] = cx[e]
    BY <1>0, <1>1, EnterProperties DEF OthersKept, Requested
  <2> HIDE DEF y
  <2>2. theirs[c] \in BOOLEAN
    BY <1>0, <1>1 DEF TypeOK
  <2>3. /\ Interruptible(y, c, theirs[c]) \in Table
        /\ Interruptible(y, c, theirs[c])[c].at = "run"
        /\ Interruptible(y, c, theirs[c])[c].notes = 1
        /\ ~Requested(Interruptible(y, c, theirs[c])[c])
        /\ \A e \in Ctx \ {c} : Interruptible(y, c, theirs[c])[e] = cx[e]
    BY <1>1, <2>1, <2>2, InterruptibleProperties DEF OthersKept
  <2> QED BY <2>3 DEF y
<1> HIDE DEF x
<1>4. /\ cx' = x /\ pc' = [pc EXCEPT ![c] = "user"] /\ freed' = freed /\ owner' = owner
  BY <1>2, <1>3 DEF Interruption
<1>5. /\ nest' \in Seq(Ctx) /\ DOMAIN nest' = 1 .. Len(nest) - 1
      /\ \A i \in 1 .. Len(nest) - 1 : nest'[i] = nest[i]
  <2>1. /\ nest' \in Seq(Ctx) /\ Len(nest') = Len(nest) - 1
        /\ \A i \in 1 .. Len(nest) - 1 : nest'[i] = nest[i]
    BY <1>0, <1>1, <1>2, SubSeqProperties
  <2> QED BY <2>1, LenProperties
<1>6. /\ pc' \in [Ctx -> Pc] /\ pc'[c] = "user" /\ \A e \in Ctx \ {c} : pc'[e] = pc[e]
      /\ target' \in [Ctx -> Ctx \cup {None}] /\ theirs' \in [Ctx -> BOOLEAN]
      /\ \A e \in Ctx \ {c} : target'[e] = target[e]
  BY <1>0, <1>1, <1>2, <1>4 DEF TypeOK, Pc
<1>7. TypeOK'
  BY <1>0, <1>2, <1>3, <1>4, <1>5, <1>6 DEF TypeOK, Table
<1>8. \A e \in Ctx : /\ Finished(e)' <=> Finished(e)
                     /\ Running(e)' <=> e = c
                     /\ cx'[e].at \in {"none", "done"} => cx[e] = cx'[e]
  BY <1>0, <1>1, <1>3, <1>4 DEF Finished, Running, NoCurrent
<1>9. NoLostNote' /\ OneNoteRunning' /\ Woken /\ Single'
  BY <1>1, <1>3, <1>4, <1>8 DEF NoLostNote, OneNoteRunning, Woken, Suspended, Single
<1>10. NoMissedJoin'
  BY <1>3, <1>4, <1>6, <1>8 DEF NoMissedJoin, Joined
<1>11. NoFreeWhileActive' /\ Disowned'
  BY <1>0, <1>4, <1>8 DEF NoFreeWhileActive, Disowned, TypeOK
<1>12. Stacked'
  <2>1. ASSUME NEW i \in 1 .. Len(nest) - 1
        PROVE  /\ nest'[i] = nest[i] /\ i \in DOMAIN nest /\ nest[i] \in Ctx \ {c}
               /\ cx'[nest[i]] = cx[nest[i]] /\ owner[nest[i]] # c
    <3>1. i \in DOMAIN nest /\ Len(nest) \in DOMAIN nest /\ ~(Len(nest) < i) /\ i # Len(nest)
      BY <1>1
    <3>2. nest[i] # c /\ owner[nest[i]] # c
      BY <3>1 DEF c, Stacked
    <3> QED BY <1>0, <1>3, <1>4, <1>5, <3>1, <3>2 DEF TypeOK
  <2> QED BY <1>4, <1>5, <1>8, <2>1 DEF Stacked
<1>13. Alive' /\ Rooted'
  BY <1>4, <1>8 DEF Alive, Rooted, Children
<1>14. Scoped' /\ Joined'
  BY <1>1, <1>2, <1>3, <1>4, <1>6 DEF Scoped, Joined, Suspended, Suppressed
<1> QED BY <1>7, <1>9, <1>10, <1>11, <1>12, <1>13, <1>14

-----------------------------------------------------------------------------
(* The theorems.                                                           *)

LEMMA NextStep == ASSUME IInv, Next PROVE IInv' /\ Woken
<1>1. CASE ResumeParent
  BY <1>1, ResumeParentStep
<1>2. ASSUME NEW c \in Ctx,
             \/ Start(c) \/ Wait(c) \/ Resume(c) \/ InterruptionPoint(c)
             \/ NotifyCtx(c) \/ Signal(c)
             \/ CourtesyYield(c) \/ CountDown(c) \/ ResumeYield(c)
             \/ ResumeJoin(c) \/ ResumeDestroy(c) \/ Finish(c)
      PROVE  IInv' /\ Woken
  BY <1>2, StartStep, WaitStep, ResumeStep, InterruptionPointStep, NotifyCtxStep,
     SignalStep, CourtesyYieldStep, CountDownStep, ResumeYieldStep, ResumeJoinStep,
     ResumeDestroyStep, FinishStep
<1>3. ASSUME NEW c \in Ctx, NEW d \in Ctx,
             \/ SpawnPost(c, d) \/ SpawnDispatch(c, d) \/ Join(c, d) \/ Destroy(c, d)
      PROVE  IInv' /\ Woken
  BY <1>3, SpawnPostStep, SpawnDispatchStep, JoinStep, DestroyStep
<1> QED BY <1>1, <1>2, <1>3 DEF Next

LEMMA StutterStep == ASSUME IInv, UNCHANGED vars PROVE IInv'
<1>1. /\ cx' = cx /\ pc' = pc /\ target' = target /\ owner' = owner /\ freed' = freed
      /\ nest' = nest /\ deferred' = deferred /\ waitjoin' = waitjoin
      /\ back' = back /\ theirs' = theirs
  BY DEF vars
<1> QED
  BY <1>1
  DEF IInv, TypeOK, NoLostNote, OneNoteRunning, NoMissedJoin,
      NoFreeWhileActive, Single, Stacked, Alive, Rooted, Scoped, Joined, Disowned,
      Running, Finished, Children, Suspended, Suppressed

\* The inductive invariant holds of every behaviour of the contexts.
THEOREM Invariance == Spec => []IInv
<1>1. Init => IInv
  BY InitIInv
<1>2. IInv /\ [Next]_vars => IInv'
  BY NextStep, StutterStep
<1> QED BY <1>1, <1>2, PTL DEF Spec

\* Every notification of a suspended context cancels its alarm.
THEOREM NotesNotLost == Spec => []NoLostNote
<1>1. IInv => NoLostNote
  BY DEF IInv
<1> QED BY <1>1, Invariance, PTL

\* No loop of the library goes back to sleep over an interrupt or a termination
\* that reached it in its sleep and that would throw.
THEOREM InterruptsEndSleep == Spec => InterruptsWake
<1>1. IInv /\ [Next]_vars => [Woken]_vars
  BY NextStep
<1> QED BY <1>1, Invariance, PTL DEF Spec, InterruptsWake

\* Whoever joins a context that finished has been woken.
THEOREM JoinsNotMissed == Spec => []NoMissedJoin
<1>1. IInv => NoMissedJoin
  BY DEF IInv
<1> QED BY <1>1, Invariance, PTL

\* A context is deleted only when its base frame has returned: the branch of
\* the constructor that deletes a child it dispatched is never taken.
THEOREM FreedWhenFinished == Spec => []NoFreeWhileActive
<1>1. IInv => NoFreeWhileActive
  BY DEF IInv
<1> QED BY <1>1, Invariance, PTL

\* assert(notes == 1) in ctx::wait(): the counter of the context that runs is
\* one, whoever notifies.
THEOREM RunsWithOneNote == Spec => []OneNoteRunning
<1>1. IInv => OneNoteRunning
  BY DEF IInv
<1> QED BY <1>1, Invariance, PTL

\* What a context joins is its own and was not deleted, and a context that has
\* finished leaves nobody without an owner.
Owned == /\ \A c \in Ctx : pc[c] \in {"join", "destroy"} => target[c] \notin freed
         /\ \A c, d \in Ctx : owner[d] = c => cx[c].at \notin {"none", "done"}

THEOREM JoinedNotDeleted == Spec => []Owned
<1>1. IInv => Owned
  BY DEF IInv, Owned, Joined, Disowned, Alive, Children
<1> QED BY <1>1, Invariance, PTL
=============================================================================

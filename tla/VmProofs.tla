------------------------------ MODULE VmProofs ------------------------------
(***************************************************************************)
(* What the sequence of module Vm guarantees for any number of             *)
(* evaluations, of events and of restarts; then what the loops of VmArray   *)
(* do with an array of any length.                                          *)
(***************************************************************************)
EXTENDS Vm, ListProofs

\* The phases in which an evaluation has its number, has been counted in
\* sequence::uncommitted, and has composed its entry.
Early == {"NONE", "DUPWAIT", "DUPCHK", "FETCH"}
Unindexed == {"PREINDEX", "PRECOMMIT", "AUTH_RELA", "COMMIT", "EVALUATE"}
Counted == {"COMMIT", "EVALUATE", "POST", "WRITE", "RETIRE", "NOTIFY"}
Ahead == Unindexed \cup {"POST"}

Entries == db \cup UNION {txn[e] : e \in Eval}

\* The list of vm::dock holds the evaluations that are held, each once.
Queue == /\ Distinct(dupq)
         /\ \A e \in Eval : e \in ToSet(dupq) <=> phase[e] = "DUPWAIT"

Numbers == /\ \A e \in Eval : seq[e] = 0 <=> phase[e] \in Early
           /\ \A e, f \in Eval : seq[e] # 0 /\ seq[e] = seq[f] => e = f

\* An evaluation under way has an event.
Held == \A e \in Eval : phase[e] # "NONE" => event[e] # None

\* A child is on top of an evaluation of a client's event that posts, and
\* has a higher number.
Nested(k) == /\ phase[parent[k]] = "POST"
             /\ parent[parent[k]] = None
             /\ phase[k] \notin {"NONE", "WRITE", "RETIRE"}
             /\ event[k] \notin Event
             /\ seq[k] # 0 => seq[parent[k]] < seq[k]

Nesting == /\ \A k \in Eval : parent[k] # None => Nested(k)
           /\ \A j, k \in Eval : parent[j] # None /\ parent[j] = parent[k] => j = k

Counters == retired <= committed /\ committed <= uncommitted

\* Where a number is, relative to the counters.
Ranges == \A e \in Eval :
            /\ phase[e] \in Ahead => committed < seq[e]
            /\ phase[e] \in {"WRITE", "RETIRE"} => seq[e] <= committed
            /\ phase[e] \in Counted => seq[e] <= uncommitted

\* No index in use is that of an evaluation that will still compose with it.
Composed == \A a \in Entries :
              /\ a[1] <= uncommitted
              /\ \A e \in Eval : phase[e] \in Unindexed => a[1] # seq[e]

\* The entry of an evaluation is where its phase says.
Carried == \A e \in Eval : ~ParentPost(e) =>
             /\ phase[e] \in {"POST", "WRITE"} => <<seq[e], event[e]>> \in txn[e]
             /\ phase[e] = "RETIRE" => <<seq[e], event[e]>> \in db

RetiredInDb == retired = 0 \/ \E a \in db : a[1] = retired

IInv == /\ TypeOK /\ Held /\ Queue /\ Numbers /\ Nesting /\ Counters /\ Ranges
        /\ NotOvertaken /\ TurnKept
        /\ Composed /\ IndexUnique /\ Carried /\ RetiredInDb

-----------------------------------------------------------------------------

\* Membership in Entries, so that the union need not be expanded again.
LEMMA EntriesMember ==
  \A a : a \in Entries <=> a \in db \/ \E e \in Eval : a \in txn[e]
BY DEF Entries

\* The same of the next state.
LEMMA EntriesMemberNext ==
  \A a : a \in Entries' <=> a \in db' \/ \E e \in Eval : a \in txn'[e]
BY DEF Entries

\* IndexUnique speaks of Entries.
LEMMA IndexUniqueEntries ==
  /\ IndexUnique <=> \A a, b \in Entries : a[1] = b[1] => a = b
  /\ IndexUnique' <=> \A a, b \in Entries' : a[1] = b[1] => a = b
BY DEF IndexUnique, Entries

\* Evaluations leave the machine: those of S, and whoever is below one of them.
LEMMA LeavingKeeps ==
  ASSUME IInv, TypeOK', NEW S \in SUBSET Eval,
         \A k \in Eval : parent[k] \in S => k \in S,
         \A f \in S : phase'[f] = "NONE" /\ seq'[f] = 0 /\ parent'[f] = None,
         \A f \in Eval \ S : /\ phase'[f] = phase[f] /\ event'[f] = event[f]
                             /\ seq'[f] = seq[f] /\ parent'[f] = parent[f]
                             /\ txn'[f] = txn[f],
         \A f \in Eval : txn'[f] \subseteq txn[f],
         Distinct(dupq'), ToSet(dupq') = ToSet(dupq) \ S,
         db \subseteq db', db' \subseteq Entries,
         UNCHANGED counters
  PROVE  IInv'
<1> USE VmAssumption
<1>1. Queue' /\ Held'
  BY DEF IInv, Queue, Held, TypeOK
<1>2. Numbers'
  BY DEF IInv, Numbers, TypeOK, Early
<1>3. Nesting'
  BY DEF IInv, Nesting, Nested, TypeOK
<1>4. Counters'
  BY DEF IInv, Counters, counters
<1>5. Ranges'
  BY DEF IInv, Ranges, counters, Ahead, Unindexed, Counted
<1>6. NotOvertaken'
  BY DEF IInv, NotOvertaken, counters
<1>7. TurnKept'
  <2>1. committed' = committed /\ committed \in Nat /\ ~(0 > committed)
    BY DEF IInv, TypeOK, counters
  <2>2. ASSUME NEW f \in Eval, phase'[f] \in {"EVALUATE", "POST"}, parent'[f] = None
        PROVE  SeqNext(committed, f)'
    <3>1. f \notin S /\ phase[f] = phase'[f] /\ seq'[f] = seq[f] /\ parent[f] = None
      BY <2>2
    <3>2. SeqNext(committed, f)
      BY <2>2, <3>1 DEF IInv, TurnKept, ParentPost
    <3> QED BY <2>1, <3>1, <3>2 DEF SeqNext
  <2> QED BY <2>2 DEF TurnKept, ParentPost
<1>8. Entries' \subseteq Entries
  BY EntriesMember, EntriesMemberNext
<1>9. Composed'
  BY <1>8 DEF IInv, Composed, counters, Unindexed
<1>10. IndexUnique'
  BY <1>8, IndexUniqueEntries DEF IInv
<1>11. Carried'
  BY DEF IInv, Carried, ParentPost
<1>12. RetiredInDb'
  BY DEF IInv, RetiredInDb, counters
<1> QED
  BY <1>1, <1>2, <1>3, <1>4, <1>5, <1>6, <1>7, <1>9, <1>10, <1>11, <1>12 DEF IInv

\* vm::dock keeps its members when it is notified once or twice.
LEMMA TurnedKeeps ==
  ASSUME dupq \in Seq(Eval), Distinct(dupq), NEW twice \in BOOLEAN
  PROVE  /\ Turned(dupq, twice) \in Seq(Eval)
         /\ Distinct(Turned(dupq, twice))
         /\ ToSet(Turned(dupq, twice)) = ToSet(dupq)
<1>1. /\ Rotate(dupq) \in Seq(Eval)
      /\ Distinct(Rotate(dupq))
      /\ ToSet(Rotate(dupq)) = ToSet(dupq)
  BY RotateProperties
<1>2. /\ Rotate(Rotate(dupq)) \in Seq(Eval)
      /\ Distinct(Rotate(Rotate(dupq)))
      /\ ToSet(Rotate(Rotate(dupq))) = ToSet(dupq)
  BY <1>1, RotateProperties
<1> QED BY <1>1, <1>2 DEF Turned

\* A stack of evaluations ends inside execute_pdu().
LEMMA LeaveKeeps ==
  ASSUME IInv, NEW S \in SUBSET Eval, Leave(S),
         \A k \in Eval : parent[k] \in S => k \in S,
         \A f \in S : phase[f] # "DUPWAIT",
         db \subseteq db', db' \subseteq Entries, db' \in SUBSET Entry,
         UNCHANGED counters
  PROVE  IInv'
<1>1. /\ dupq' \in Seq(Eval) /\ Distinct(dupq')
      /\ ToSet(dupq') = ToSet(dupq)
  <2>1. (Cardinality(S) = 2) \in BOOLEAN
    OBVIOUS
  <2> QED BY <2>1, TurnedKeeps DEF Leave, IInv, TypeOK, Queue
<1>2. ToSet(dupq') = ToSet(dupq) \ S
  BY <1>1 DEF IInv, Queue
<1>3. TypeOK'
  <2>1. TypeOK
    BY DEF IInv
  <2>2. phase' \in [Eval -> Phase]
    BY <2>1 DEF TypeOK, Leave, Phase
  <2>3. event' \in [Eval -> Id \cup {None}]
    BY <2>1 DEF TypeOK, Leave
  <2>4. seq' \in [Eval -> 0..MaxSeq]
    BY <2>1, VmAssumption DEF TypeOK, Leave
  <2>5. parent' \in [Eval -> Eval \cup {None}]
    BY <2>1 DEF TypeOK, Leave
  <2>6. txn' \in [Eval -> SUBSET Entry]
    BY <2>1 DEF TypeOK, Leave
  <2>7. asleep' \in SUBSET Eval
    BY <2>1 DEF TypeOK, Leave
  <2> QED BY <1>1, <2>1, <2>2, <2>3, <2>4, <2>5, <2>6, <2>7 DEF TypeOK, counters
<1>4. \A f \in S : phase'[f] = "NONE" /\ seq'[f] = 0 /\ parent'[f] = None
  BY DEF Leave
<1>5. \A f \in Eval \ S : /\ phase'[f] = phase[f] /\ event'[f] = event[f]
                          /\ seq'[f] = seq[f] /\ parent'[f] = parent[f]
                          /\ txn'[f] = txn[f]
  BY DEF Leave
<1>6. \A f \in Eval : txn'[f] \subseteq txn[f]
  BY DEF Leave
<1> QED BY <1>1, <1>2, <1>3, <1>4, <1>5, <1>6, LeavingKeeps

\* An evaluation goes from one phase to another, and composes nothing.
LEMMA PhaseKeeps ==
  ASSUME IInv, NEW e \in Eval, NEW p \in Phase,
         p \notin {"NONE", "POST", "WRITE", "RETIRE"}, phase[e] # "NONE",
         phase[e] = "POST" => Child(e) = {},
         phase' = [phase EXCEPT ![e] = p],
         UNCHANGED <<event, seq, parent, txn, retired, committed, db>>,
         uncommitted' \in 0..MaxSeq, uncommitted <= uncommitted',
         asleep' \in SUBSET Eval, dupq' \in Seq(Eval), Queue',
         phase[e] \in Early <=> p \in Early,
         p \in Unindexed => phase[e] \in Unindexed,
         p \in Counted => seq[e] <= uncommitted',
         p = "EVALUATE" => ParentPost(e) \/ SeqNext(committed, e)
  PROVE  IInv'
<1>0. /\ \A f \in Eval : phase'[f] = IF f = e THEN p ELSE phase[f]
      /\ \A f \in Eval : seq[f] \in 0..MaxSeq
      /\ committed \in Nat /\ uncommitted \in Nat /\ retired \in Nat
      /\ MaxSeq \in Nat /\ uncommitted' \in Nat
  BY VmAssumption DEF IInv, TypeOK
<1>1. TypeOK' /\ Held'
  BY DEF IInv, TypeOK, Held
<1>2. Numbers'
  BY <1>0 DEF IInv, Numbers
<1>3. Nesting'
  <2>1. \A k \in Eval : parent[k] = e => phase[e] # "POST"
    BY DEF Child
  <2> QED BY <1>0, <2>1 DEF IInv, Nesting, Nested
<1>4. Counters'
  BY <1>0 DEF IInv, Counters
<1>5. Ranges'
  BY <1>0 DEF IInv, Ranges, Ahead, Unindexed, Counted
<1>6. NotOvertaken'
  BY <1>0 DEF IInv, NotOvertaken, Numbers, Early, Unindexed, Phase
<1>7. TurnKept'
  <2>1. ASSUME NEW f \in Eval PROVE SeqNext(committed, f)' <=> SeqNext(committed, f)
    BY DEF SeqNext
  <2> QED BY <1>0, <2>1 DEF IInv, TurnKept, ParentPost
<1>8. Entries' = Entries
  BY DEF Entries
<1>9. Composed'
  <2>1. ASSUME NEW a \in Entries PROVE a[1] <= uncommitted'
    <3>1. a \in Entry
      BY EntriesMember DEF IInv, TypeOK
    <3>2. a[1] <= uncommitted /\ a[1] \in Nat
      BY <3>1, <1>0 DEF IInv, Composed, Entry
    <3> QED BY <3>2, <1>0
  <2>2. ASSUME NEW a \in Entries, NEW f \in Eval, phase'[f] \in Unindexed
        PROVE  a[1] # seq'[f]
    BY <2>2, <1>0 DEF IInv, Composed
  <2> QED BY <1>8, <2>1, <2>2 DEF Composed
<1>10. IndexUnique'
  BY <1>8, IndexUniqueEntries DEF IInv
<1>11. Carried'
  BY <1>0 DEF IInv, Carried, ParentPost
<1>12. RetiredInDb'
  BY DEF IInv, RetiredInDb
<1> QED
  BY <1>1, <1>2, <1>3, <1>4, <1>5, <1>6, <1>7, <1>9, <1>10, <1>11, <1>12 DEF IInv

-----------------------------------------------------------------------------
(* The actions.                                                            *)

LEMMA InitHolds == Init => IInv
<1> SUFFICES ASSUME Init PROVE IInv
  OBVIOUS
<1> USE VmAssumption DEF Init
<1>1. TypeOK
  BY DEF TypeOK, Phase
<1>2. Queue /\ Held
  BY DEF Queue, Distinct, ToSet, Held
<1>3. Numbers /\ Nesting /\ Counters /\ NotOvertaken
  BY DEF Numbers, Nesting, Counters, NotOvertaken, Early
<1>4. Ranges /\ TurnKept /\ Carried /\ RetiredInDb
  BY DEF Ranges, TurnKept, Carried, RetiredInDb, Ahead, Unindexed, Counted
<1>5. Entries = {}
  BY DEF Entries
<1>6. Composed /\ IndexUnique
  BY <1>5, IndexUniqueEntries DEF Composed
<1> QED BY <1>1, <1>2, <1>3, <1>4, <1>6 DEF IInv

\* A new evaluation, at the bottom of a stack or on top of a POST phase.
LEMMA EnterKeeps ==
  ASSUME IInv, NEW e \in Eval, NEW id \in Id, NEW q \in Eval \cup {None},
         Enter(e, id, q),
         q # None => /\ phase[q] = "POST" /\ parent[q] = None
                     /\ id \notin Event /\ Child(q) = {}
  PROVE  IInv'
<1>1. PICK p \in {"DUPWAIT", "DUPCHK"} :
        /\ phase[e] = "NONE"
        /\ phase' = [phase EXCEPT ![e] = p]
        /\ dupq' = IF p = "DUPWAIT" THEN Append(dupq, e) ELSE dupq
        /\ asleep' \in SUBSET Eval
  BY DEF Enter, Goto, Sleep, docks, IInv, TypeOK
<1>2. /\ event' = [event EXCEPT ![e] = id]
      /\ parent' = [parent EXCEPT ![e] = q]
      /\ UNCHANGED <<seq, txn, retired, committed, uncommitted, db>>
  BY DEF Enter, counters
<1>3. /\ \A f \in Eval : phase'[f] = IF f = e THEN p ELSE phase[f]
      /\ \A f \in Eval : event'[f] = IF f = e THEN id ELSE event[f]
      /\ \A f \in Eval : parent'[f] = IF f = e THEN q ELSE parent[f]
  BY <1>1, <1>2 DEF IInv, TypeOK
<1>4. dupq' \in Seq(Eval) /\ Queue'
  <2>1. e \notin ToSet(dupq) /\ Distinct(dupq) /\ dupq \in Seq(Eval)
    BY <1>1 DEF IInv, Queue, TypeOK
  <2>2. /\ Append(dupq, e) \in Seq(Eval) /\ Distinct(Append(dupq, e))
        /\ ToSet(Append(dupq, e)) = ToSet(dupq) \cup {e}
    BY <2>1, AppendDistinct
  <2>3. CASE p = "DUPWAIT"
    BY <1>1, <1>3, <2>2, <2>3 DEF IInv, Queue
  <2>4. CASE p = "DUPCHK"
    BY <1>1, <1>3, <2>1, <2>4 DEF IInv, Queue
  <2> QED BY <2>3, <2>4
<1>5. TypeOK' /\ Held'
  BY <1>1, <1>2, <1>3, <1>4, VmAssumption DEF IInv, TypeOK, Held, Phase, Id
<1>6. Numbers'
  BY <1>1, <1>2, <1>3 DEF IInv, Numbers, Early
<1>7. seq[e] = 0
  BY <1>1 DEF IInv, Numbers, Early
<1>8. Nesting'
  <2>1. ASSUME NEW k \in Eval, parent'[k] # None PROVE Nested(k)'
    <3>1. CASE k = e
      BY <1>1, <1>2, <1>3, <1>7, <2>1, <3>1 DEF Nested
    <3>2. CASE k # e
      <4>1. parent[k] = parent'[k] /\ Nested(k) /\ parent[k] \in Eval
        BY <1>3, <2>1, <3>2 DEF IInv, Nesting, TypeOK
      <4>2. parent[k] # e
        BY <1>1, <4>1 DEF Nested
      <4> QED BY <1>1, <1>2, <1>3, <3>2, <4>1, <4>2 DEF Nested
    <3> QED BY <3>1, <3>2
  <2>2. \A j, k \in Eval : parent'[j] # None /\ parent'[j] = parent'[k] => j = k
    BY <1>3 DEF IInv, Nesting, Child
  <2> QED BY <2>1, <2>2 DEF Nesting
<1>9. Counters' /\ RetiredInDb'
  BY <1>2 DEF IInv, Counters, RetiredInDb
<1>10. Ranges'
  BY <1>1, <1>2, <1>3 DEF IInv, Ranges, Ahead, Unindexed, Counted
<1>11. NotOvertaken'
  BY <1>2, <1>3, <1>7 DEF IInv, NotOvertaken
<1>12. TurnKept'
  <2>1. ASSUME NEW f \in Eval PROVE SeqNext(committed, f)' <=> SeqNext(committed, f)
    BY <1>2 DEF SeqNext
  <2> QED BY <1>1, <1>3, <2>1 DEF IInv, TurnKept, ParentPost
<1>13. Entries' = Entries
  BY <1>2 DEF Entries
<1>14. Composed'
  BY <1>1, <1>2, <1>3, <1>13 DEF IInv, Composed, Unindexed
<1>15. IndexUnique'
  BY <1>13, IndexUniqueEntries DEF IInv
<1>16. Carried'
  BY <1>1, <1>2, <1>3 DEF IInv, Carried, ParentPost
<1> QED BY <1>5, <1>4, <1>6, <1>8, <1>9, <1>10, <1>11, <1>12, <1>14, <1>15, <1>16 DEF IInv

LEMMA StartKeeps == ASSUME IInv, NEW e \in Eval, Start(e) PROVE IInv'
BY EnterKeeps DEF Start, Id

LEMMA PostKeeps == ASSUME IInv, NEW e \in Eval, Post(e) PROVE IInv'
<1>1. PICK k \in Eval : Enter(k, Txnid(e), e)
  BY DEF Post
<1>2. phase[e] = "POST" /\ Child(e) = {} /\ event[e] \in Sent
  BY DEF Post, Owes
<1>3. event[e] \in Event /\ seq[e] \in 1..MaxSeq
  <2>1. seq[e] # 0
    BY <1>2 DEF IInv, Numbers, Early
  <2>2. seq[e] \in 0..MaxSeq /\ MaxSeq \in Nat
    BY VmAssumption DEF IInv, TypeOK
  <2> QED BY <1>2, <2>1, <2>2, VmAssumption
<1>4. Txnid(e) \in Id /\ Txnid(e) \notin Event
  BY <1>3, VmAssumption DEF Txnid, Id
<1>5. parent[e] = None
  BY <1>3 DEF IInv, Nesting, Nested
<1> QED BY <1>1, <1>2, <1>4, <1>5, EnterKeeps

LEMMA NonconformingKeeps == ASSUME IInv, Nonconforming PROVE IInv'
<1>1. /\ dupq' \in Seq(Eval) /\ Distinct(dupq')
      /\ ToSet(dupq') = ToSet(dupq)
  BY RotateProperties DEF Nonconforming, IInv, TypeOK, Queue
<1>2. TypeOK'
  BY <1>1 DEF IInv, TypeOK, Nonconforming, evals, counters
<1>3. db' = db /\ db \subseteq Entries
  BY EntriesMember DEF Nonconforming
<1> QED BY <1>1, <1>2, <1>3, LeavingKeeps DEF Nonconforming, evals

LEMMA DupResumeKeeps == ASSUME IInv, NEW e \in Eval, DupResume(e) PROVE IInv'
<1>1. e \in ToSet(dupq) /\ dupq \in Seq(Eval) /\ Distinct(dupq)
  BY DEF DupResume, IInv, Queue, TypeOK
<1>2. /\ Unlink(dupq, e) \in Seq(Eval) /\ Distinct(Unlink(dupq, e))
      /\ ToSet(Unlink(dupq, e)) = ToSet(dupq) \ {e}
  BY <1>1, UnlinkProperties
<1>3. PICK p \in {"DUPWAIT", "DUPCHK"} :
        /\ phase' = [phase EXCEPT ![e] = p]
        /\ dupq' = IF p = "DUPCHK" THEN Unlink(dupq, e) ELSE dupq
        /\ asleep' \in SUBSET Eval
  BY DEF DupResume, Goto, IInv, TypeOK
<1>4. \A f \in Eval : phase'[f] = IF f = e THEN p ELSE phase[f]
  BY <1>3 DEF IInv, TypeOK
<1>5. dupq' \in Seq(Eval) /\ Queue'
  BY <1>1, <1>2, <1>3, <1>4 DEF IInv, Queue, DupResume
<1>6. uncommitted' \in 0..MaxSeq /\ uncommitted <= uncommitted'
  BY DEF DupResume, counters, IInv, TypeOK
<1> QED
  BY <1>3, <1>5, <1>6, PhaseKeeps
  DEF DupResume, counters, Early, Unindexed, Counted, Phase

LEMMA DupUnwindKeeps == ASSUME IInv, NEW e \in Eval, DupUnwind(e) PROVE IInv'
<1>1. e \in ToSet(dupq) /\ dupq \in Seq(Eval) /\ Distinct(dupq)
  BY DEF DupUnwind, IInv, Queue, TypeOK
<1>2. /\ Unlink(dupq, e) \in Seq(Eval) /\ Distinct(Unlink(dupq, e))
      /\ ToSet(Unlink(dupq, e)) = ToSet(dupq) \ {e}
  BY <1>1, UnlinkProperties
<1>3. /\ dupq' \in Seq(Eval) /\ Distinct(dupq')
      /\ ToSet(dupq') = ToSet(dupq) \ {e}
  BY <1>2, RotateProperties DEF DupUnwind
<1>4. TypeOK'
  BY <1>3 DEF IInv, TypeOK, DupUnwind, counters, Phase
<1>5. /\ phase'[e] = "NONE" /\ seq'[e] = 0 /\ parent'[e] = None
      /\ \A k \in Eval : parent[k] # e
  BY VmAssumption
  DEF DupUnwind, IInv, TypeOK, Numbers, Nesting, Nested, Early, ParentPost
<1>6. /\ \A f \in Eval \ {e} : phase'[f] = phase[f] /\ event'[f] = event[f]
      /\ UNCHANGED <<seq, parent, txn, counters, db>>
  BY DEF DupUnwind, IInv, TypeOK
<1>7. db' \subseteq Entries
  BY <1>6, EntriesMember
<1> QED BY <1>3, <1>4, <1>5, <1>6, <1>7, LeavingKeeps

LEMMA DupCheckKeeps == ASSUME IInv, NEW e \in Eval, DupCheck(e) PROVE IInv'
<1>1. CASE Leave({e})
  <2>1. /\ \A k \in Eval : parent[k] # e
        /\ phase[e] # "DUPWAIT"
    BY VmAssumption DEF DupCheck, IInv, Nesting, Nested
  <2>2. db \subseteq Entries /\ db' = db /\ db \in SUBSET Entry
    BY EntriesMember DEF DupCheck, IInv, TypeOK
  <2> QED BY <1>1, <2>1, <2>2, LeaveKeeps DEF DupCheck
<1>2. CASE Goto(e, "FETCH") /\ UNCHANGED <<event, seq, parent, txn, docks>>
  <2>1. \A f \in Eval : phase'[f] = IF f = e THEN "FETCH" ELSE phase[f]
    BY <1>2 DEF IInv, TypeOK, Goto
  <2>2. dupq' \in Seq(Eval) /\ asleep' \in SUBSET Eval /\ Queue'
    BY <1>2, <2>1 DEF IInv, TypeOK, docks, Queue, DupCheck
  <2>3. uncommitted' \in 0..MaxSeq /\ uncommitted <= uncommitted'
    BY DEF DupCheck, counters, IInv, TypeOK
  <2> QED
    BY <1>2, <2>2, <2>3, PhaseKeeps
    DEF DupCheck, Goto, counters, Early, Unindexed, Counted, Phase
<1> QED BY <1>1, <1>2 DEF DupCheck

\* The phases between two dispatches, when vm::dock is left alone.
LEMMA TurnKeeps ==
  ASSUME IInv, NEW e \in Eval,
         NEW p \in {"PRECOMMIT", "AUTH_RELA", "COMMIT", "EVALUATE"},
         phase[e] \in Unindexed,
         phase' = [phase EXCEPT ![e] = p],
         UNCHANGED <<event, seq, parent, txn, dupq, retired, committed, db>>,
         asleep' \in SUBSET Eval,
         uncommitted' \in 0..MaxSeq, uncommitted <= uncommitted',
         p \in {"COMMIT", "EVALUATE"} => seq[e] <= uncommitted',
         p = "EVALUATE" => ParentPost(e) \/ SeqNext(committed, e)
  PROVE  IInv'
<1>1. \A f \in Eval : phase'[f] = IF f = e THEN p ELSE phase[f]
  BY DEF IInv, TypeOK
<1>2. dupq' \in Seq(Eval) /\ Queue'
  BY <1>1 DEF IInv, TypeOK, Queue, Unindexed
<1>3. phase[e] # "POST" /\ phase[e] # "NONE" /\ phase[e] \notin Early
  BY DEF Unindexed, Early
<1> QED BY <1>2, <1>3, PhaseKeeps DEF Early, Unindexed, Counted, Phase

LEMMA PrecommitKeeps == ASSUME IInv, NEW e \in Eval, Precommit(e) PROVE IInv'
<1>1. PICK p \in {"PRECOMMIT", "AUTH_RELA"} :
        phase' = [phase EXCEPT ![e] = p] /\ asleep' \in SUBSET Eval
  BY DEF Precommit, Goto, Sleep, IInv, TypeOK
<1>2. uncommitted' \in 0..MaxSeq /\ uncommitted <= uncommitted'
  BY DEF Precommit, counters, IInv, TypeOK
<1> QED BY <1>1, <1>2, TurnKeeps DEF Precommit, counters, Unindexed

LEMMA RelativeKeeps == ASSUME IInv, NEW e \in Eval, Relative(e) PROVE IInv'
<1>1. PICK p \in {"COMMIT", "EVALUATE"} :
        /\ phase' = [phase EXCEPT ![e] = p] /\ asleep' \in SUBSET Eval
        /\ p = "EVALUATE" => ParentPost(e) \/ SeqNext(committed, e)
  BY DEF Relative, Goto, Sleep, CommitTurn, IInv, TypeOK
<1>2. /\ uncommitted' \in 0..MaxSeq /\ uncommitted <= uncommitted'
      /\ seq[e] <= uncommitted'
  BY VmAssumption DEF Relative, Uncommit, IInv, TypeOK
<1> QED BY <1>1, <1>2, TurnKeeps DEF Relative, Unindexed

LEMMA CommitResumeKeeps == ASSUME IInv, NEW e \in Eval, CommitResume(e) PROVE IInv'
<1>1. PICK p \in {"COMMIT", "EVALUATE"} :
        /\ phase' = [phase EXCEPT ![e] = p] /\ asleep' \in SUBSET Eval
        /\ p = "EVALUATE" => ParentPost(e) \/ SeqNext(committed, e)
  BY DEF CommitResume, Goto, CommitTurn, IInv, TypeOK
<1>2. /\ uncommitted' \in 0..MaxSeq /\ uncommitted <= uncommitted'
      /\ seq[e] <= uncommitted'
  BY DEF CommitResume, counters, IInv, TypeOK, Ranges, Counted
<1> QED BY <1>1, <1>2, TurnKeeps DEF CommitResume, counters, Unindexed

\* A number is given out, above all others.
LEMMA SequenceKeeps == ASSUME IInv, NEW e \in Eval, Sequence(e) PROVE IInv'
<1>1. PICK s \in 1..MaxSeq :
        /\ s > uncommitted /\ \A f \in Eval : s > seq[f]
        /\ seq' = [seq EXCEPT ![e] = s]
  BY DEF Sequence
<1>2. /\ phase[e] = "FETCH" /\ phase' = [phase EXCEPT ![e] = "PREINDEX"]
      /\ UNCHANGED <<event, parent, txn, dupq, asleep, retired, committed,
                     uncommitted, db>>
  BY DEF Sequence, Goto, docks, counters
<1>3. /\ \A f \in Eval : phase'[f] = IF f = e THEN "PREINDEX" ELSE phase[f]
      /\ \A f \in Eval : seq'[f] = IF f = e THEN s ELSE seq[f]
      /\ s \in Nat /\ s # 0
      /\ \A f \in Eval : seq[f] \in Nat
      /\ committed \in Nat /\ uncommitted \in Nat /\ retired \in Nat
  BY <1>1, <1>2, VmAssumption DEF IInv, TypeOK
<1>4. retired < s /\ committed < s
  BY <1>1, <1>3 DEF IInv, Counters
<1>5. TypeOK' /\ Held'
  BY <1>1, <1>2, <1>3, VmAssumption DEF IInv, TypeOK, Held, Phase
<1>6. Queue'
  BY <1>2, <1>3 DEF IInv, Queue
<1>7. Numbers'
  BY <1>1, <1>2, <1>3 DEF IInv, Numbers, Early
<1>8. Nesting'
  <2>1. ASSUME NEW k \in Eval, parent[k] # None PROVE Nested(k)'
    <3>1. Nested(k) /\ parent[k] \in Eval /\ parent[k] # e
      BY <1>2, <2>1 DEF IInv, Nesting, Nested, TypeOK
    <3>2. seq'[parent[k]] = seq[parent[k]] /\ phase'[parent[k]] = phase[parent[k]]
      BY <1>3, <3>1
    <3>3. CASE k = e
      BY <1>1, <1>2, <1>3, <3>1, <3>2, <3>3 DEF Nested
    <3>4. CASE k # e
      BY <1>2, <1>3, <3>1, <3>2, <3>4 DEF Nested
    <3> QED BY <3>3, <3>4
  <2> QED BY <1>2, <2>1 DEF IInv, Nesting
<1>9. Counters' /\ RetiredInDb'
  BY <1>2 DEF IInv, Counters, RetiredInDb
<1>10. Ranges'
  BY <1>2, <1>3, <1>4 DEF IInv, Ranges, Ahead, Unindexed, Counted
<1>11. NotOvertaken'
  BY <1>2, <1>3, <1>4 DEF IInv, NotOvertaken
<1>12. TurnKept'
  <2>1. ASSUME NEW f \in Eval, f # e, SeqNext(committed, f)
        PROVE  SeqNext(committed, f)'
    BY <2>1, <1>1, <1>2, <1>3 DEF SeqNext
  <2> QED BY <1>2, <1>3, <2>1 DEF IInv, TurnKept, ParentPost
<1>13. Entries' = Entries
  BY <1>2 DEF Entries
<1>14. Composed'
  <2>1. ASSUME NEW a \in Entries PROVE a[1] # s
    <3>1. a \in Entry
      BY EntriesMember DEF IInv, TypeOK
    <3>2. a[1] <= uncommitted /\ a[1] \in Nat
      BY <3>1, VmAssumption DEF IInv, Composed, Entry
    <3> QED BY <3>2, <1>1, <1>3
  <2> QED BY <1>2, <1>3, <1>13, <2>1 DEF IInv, Composed
<1>15. IndexUnique'
  BY <1>13, IndexUniqueEntries DEF IInv
<1>16. Carried'
  BY <1>2, <1>3 DEF IInv, Carried, ParentPost
<1> QED BY <1>5, <1>6, <1>7, <1>8, <1>9, <1>10, <1>11, <1>12, <1>14, <1>15, <1>16 DEF IInv

\* The entry is composed, in the evaluation's own transaction or its parent's.
LEMMA IndexKeeps == ASSUME IInv, NEW e \in Eval, Index(e) PROVE IInv'
<1> DEFINE x == <<seq[e], event[e]>>
           t == IF ParentPost(e) THEN parent[e] ELSE e
<1>1. /\ phase[e] = "EVALUATE" /\ phase' = [phase EXCEPT ![e] = "POST"]
      /\ UNCHANGED <<event, seq, parent, dupq, asleep, retired, committed,
                     uncommitted, db>>
  BY DEF Index, Goto, docks, counters
<1>2. x \in Entry /\ seq[e] \in Nat
  <2>1. seq[e] # 0
    BY <1>1 DEF IInv, Numbers, Early
  <2>2. seq[e] \in 1..MaxSeq
    BY <2>1, VmAssumption DEF IInv, TypeOK
  <2>3. event[e] # None
    BY <1>1 DEF IInv, Held
  <2> QED BY <2>2, <2>3, VmAssumption DEF Entry, IInv, TypeOK
<1>3. /\ t \in Eval
      /\ txn' \in [Eval -> SUBSET Entry]
      /\ txn'[t] \subseteq txn[t] \cup {x} /\ x \in txn'[t]
      /\ \A f \in Eval \ {e} : txn[f] \subseteq txn'[f]
      /\ \A f \in Eval \ {t} : txn'[f] = txn[f]
  <2>1. /\ txn \in [Eval -> SUBSET Entry] /\ parent \in [Eval -> Eval \cup {None}]
    BY DEF IInv, TypeOK
  <2>2. CASE ParentPost(e)
    <3>1. /\ t = parent[e] /\ t \in Eval
          /\ txn' = [txn EXCEPT ![t] = @ \cup {x}]
      BY <2>1, <2>2 DEF Index, ParentPost
    <3> HIDE DEF t, x
    <3> QED BY <1>2, <2>1, <3>1
  <2>3. CASE ~ParentPost(e)
    <3>1. t = e /\ txn' = [txn EXCEPT ![t] = {x}]
      BY <2>3 DEF Index
    <3> HIDE DEF t, x
    <3> QED BY <1>2, <2>1, <3>1
  <2> QED BY <2>2, <2>3
<1>4. \A f \in Eval : phase'[f] = IF f = e THEN "POST" ELSE phase[f]
  BY <1>1 DEF IInv, TypeOK
<1> HIDE DEF t
<1>5. \A a \in Entries' : a \in Entries \/ a = x
  BY <1>1, <1>3, EntriesMember, EntriesMemberNext
<1>6. TypeOK' /\ Held'
  BY <1>1, <1>3, <1>4 DEF IInv, TypeOK, Held, Phase
<1>7. Queue' /\ Numbers' /\ Counters' /\ RetiredInDb'
  BY <1>1, <1>4 DEF IInv, Queue, Numbers, Early, Counters, RetiredInDb
<1>8. Nesting'
  BY <1>1, <1>4 DEF IInv, Nesting, Nested, TypeOK
<1>9. Ranges'
  BY <1>1, <1>4 DEF IInv, Ranges, Ahead, Unindexed, Counted
<1>10. NotOvertaken'
  BY <1>1, <1>4 DEF IInv, NotOvertaken
<1>11. TurnKept'
  <2>1. ASSUME NEW f \in Eval PROVE SeqNext(committed, f)' <=> SeqNext(committed, f)
    BY <1>1 DEF SeqNext
  <2> QED BY <1>1, <1>4, <2>1 DEF IInv, TurnKept, ParentPost
<1>12. /\ x[1] <= uncommitted
       /\ \A f \in Eval \ {e} : x[1] # seq[f]
  BY <1>1 DEF IInv, Ranges, Counted, Numbers, Early
<1>13. Composed'
  BY <1>1, <1>4, <1>5, <1>12 DEF IInv, Composed, Unindexed
<1>14. \A a \in Entries : a[1] # x[1]
  BY <1>1 DEF IInv, Composed, Unindexed
<1>15. IndexUnique'
  BY <1>5, <1>14, IndexUniqueEntries DEF IInv
<1>16. Carried'
  BY <1>1, <1>3, <1>4 DEF IInv, Carried, ParentPost, t
<1> QED BY <1>6, <1>7, <1>8, <1>9, <1>10, <1>11, <1>13, <1>15, <1>16 DEF IInv

\* The POST hook is done: the number of an evaluation at the bottom of its
\* stack is committed.
LEMMA PostedKeeps == ASSUME IInv, NEW e \in Eval, Posted(e) PROVE IInv'
<1>1. CASE ParentPost(e)
  <2>1. \A f \in Eval : phase'[f] = IF f = e THEN "NOTIFY" ELSE phase[f]
    BY <1>1 DEF Posted, Accept, IInv, TypeOK
  <2>2. dupq' \in Seq(Eval) /\ Queue' /\ asleep' \in SUBSET Eval
    BY <1>1, <2>1 DEF Posted, Accept, IInv, TypeOK, Queue
  <2>3. uncommitted' \in 0..MaxSeq /\ uncommitted <= uncommitted'
    BY DEF Posted, IInv, TypeOK
  <2>4. seq[e] <= uncommitted
    BY DEF Posted, IInv, Ranges, Counted
  <2> QED
    BY <1>1, <2>2, <2>3, <2>4, PhaseKeeps
    DEF Posted, Accept, Early, Unindexed, Counted, Phase
<1>2. CASE ~ParentPost(e)
  <2>1. /\ phase[e] = "POST" /\ Child(e) = {} /\ committed' = seq[e]
        /\ phase' = [phase EXCEPT ![e] = "WRITE"]
        /\ UNCHANGED <<event, seq, parent, txn, dupq, asleep, retired,
                       uncommitted, db>>
    BY <1>2 DEF Posted, Goto
  <2>2. /\ \A f \in Eval : phase'[f] = IF f = e THEN "WRITE" ELSE phase[f]
        /\ \A f \in Eval : seq[f] \in Nat
        /\ committed \in Nat /\ uncommitted \in Nat /\ retired \in Nat
    BY <2>1, VmAssumption DEF IInv, TypeOK
  <2>3. SeqNext(committed, e)
    BY <1>2, <2>1 DEF IInv, TurnKept
  <2>4. \A f \in Eval \ {e} : seq[f] > committed => seq[f] > seq[e]
    BY <2>1, <2>2, <2>3 DEF SeqNext, IInv, Numbers, Early
  <2>5. TypeOK' /\ Held'
    BY <2>1, <2>2 DEF IInv, TypeOK, Held, Phase
  <2>6. Queue' /\ Numbers' /\ RetiredInDb'
    BY <2>1, <2>2 DEF IInv, Queue, Numbers, Early, RetiredInDb
  <2>7. Nesting'
    BY <1>2, <2>1, <2>2 DEF IInv, Nesting, Nested, Child, ParentPost
  <2>8. Counters'
    BY <2>1, <2>2, <2>3 DEF IInv, Counters, SeqNext, Ranges, Counted
  <2>9. Ranges'
    <3>1. ASSUME NEW f \in Eval, phase'[f] \in Ahead PROVE committed' < seq'[f]
      <4>1. f # e /\ phase[f] \in Ahead
        BY <2>2, <3>1 DEF Ahead, Unindexed
      <4> QED BY <2>1, <2>2, <2>4, <4>1 DEF IInv, Ranges
    <3>2. ASSUME NEW f \in Eval, phase'[f] \in {"WRITE", "RETIRE"}
          PROVE  seq'[f] <= committed'
      BY <2>1, <2>2, <2>3, <3>2 DEF IInv, Ranges, SeqNext
    <3>3. ASSUME NEW f \in Eval, phase'[f] \in Counted PROVE seq'[f] <= uncommitted'
      BY <2>1, <2>2, <3>3 DEF IInv, Ranges, Counted
    <3> QED BY <3>1, <3>2, <3>3 DEF Ranges
  <2>10. NotOvertaken'
    BY <2>1, <2>2 DEF IInv, NotOvertaken
  <2>11. TurnKept'
    <3>1. ASSUME NEW f \in Eval, f # e, phase[f] \in {"EVALUATE", "POST"}, ~ParentPost(f)
          PROVE  FALSE
      <4>1. SeqNext(committed, f)
        BY <3>1 DEF IInv, TurnKept
      <4>2. seq[f] <= seq[e] /\ seq[f] > committed
        BY <2>3, <4>1 DEF SeqNext
      <4> QED BY <2>2, <2>4, <3>1, <4>2
    <3> QED BY <2>1, <2>2, <3>1 DEF TurnKept, ParentPost
  <2>12. Entries' = Entries
    BY <2>1 DEF Entries
  <2>13. Composed'
    BY <2>1, <2>2, <2>12 DEF IInv, Composed, Unindexed
  <2>14. IndexUnique'
    BY <2>12, IndexUniqueEntries DEF IInv
  <2>15. Carried'
    BY <2>1, <2>2 DEF IInv, Carried, ParentPost
  <2> QED BY <2>5, <2>6, <2>7, <2>8, <2>9, <2>10, <2>11, <2>13, <2>14, <2>15 DEF IInv
<1> QED BY <1>1, <1>2

\* The turn to retire sets the counter to the evaluation's own number: the
\* clamp has nothing to correct.
LEMMA ReleaseIsOwn ==
  ASSUME IInv, NEW e \in Eval, SeqNext(retired, e)
  PROVE  Release(e) = seq[e]
<1> DEFINE above == \E f \in Eval : SeqNext(seq[e], f)
           s == CHOOSE s \in 1..MaxSeq : \E f \in Eval : SeqNext(seq[e], f) /\ seq[f] = s
<1>1. seq[e] \in 0..MaxSeq /\ retired \in 0..MaxSeq /\ MaxSeq \in Nat
  BY VmAssumption DEF IInv, TypeOK
<1>2. ~(seq[e] < retired + 1)
  BY <1>1 DEF SeqNext
<1>3. ASSUME above PROVE ~(seq[e] > s)
  <2>1. PICK f \in Eval : SeqNext(seq[e], f)
    BY <1>3
  <2>2. seq[f] \in 0..MaxSeq /\ seq[f] > seq[e]
    BY <2>1 DEF SeqNext, IInv, TypeOK
  <2>3. seq[f] \in 1..MaxSeq
    BY <1>1, <2>2
  <2>4. s \in 1..MaxSeq /\ \E g \in Eval : SeqNext(seq[e], g) /\ seq[g] = s
    BY <2>1, <2>3
  <2>5. s > seq[e]
    BY <2>4 DEF SeqNext
  <2> QED BY <1>1, <2>4, <2>5
<1> HIDE DEF s
<1>4. CASE above
  BY <1>2, <1>3, <1>4 DEF Release, s
<1>5. CASE ~above
  BY <1>1, <1>2, <1>5 DEF Release
<1> QED BY <1>4, <1>5

\* An evaluation whose entry is in the database retires, or waits for that.
LEMMA RetiringKeeps ==
  ASSUME IInv, NEW e \in Eval, phase[e] \in {"WRITE", "RETIRE"}, TryRetire(e),
         db \subseteq db', db' \subseteq Entries, db' \in SUBSET Entry,
         <<seq[e], event[e]>> \in db',
         UNCHANGED <<event, seq, parent, txn, dupq, committed, uncommitted>>
  PROVE  IInv'
<1>1. PICK p \in {"NOTIFY", "RETIRE"} :
        /\ phase' = [phase EXCEPT ![e] = p] /\ asleep' \in SUBSET Eval
        /\ \/ p = "NOTIFY" /\ SeqNext(retired, e) /\ retired' = seq[e]
           \/ p = "RETIRE" /\ retired' = retired
  BY ReleaseIsOwn DEF TryRetire, Accept, Goto, Sleep, IInv, TypeOK
<1>2. /\ \A f \in Eval : phase'[f] = IF f = e THEN p ELSE phase[f]
      /\ \A f \in Eval : seq[f] \in 0..MaxSeq
      /\ committed \in Nat /\ uncommitted \in Nat /\ retired \in 0..MaxSeq
      /\ MaxSeq \in Nat
  BY <1>1, VmAssumption DEF IInv, TypeOK
<1>3. parent[e] = None
  BY DEF IInv, Nesting, Nested
<1>4. seq[e] <= committed
  BY DEF IInv, Ranges
<1>5. TypeOK' /\ Held'
  BY <1>1, <1>2 DEF IInv, TypeOK, Held, Phase
<1>6. Queue' /\ Numbers'
  BY <1>1, <1>2 DEF IInv, Queue, Numbers, Early
<1>7. Nesting'
  <2>1. \A k \in Eval : parent[k] # e
    BY VmAssumption DEF IInv, Nesting, Nested
  <2> QED BY <1>2, <1>3, <2>1 DEF IInv, Nesting, Nested, TypeOK
<1>8. Counters'
  BY <1>1, <1>2, <1>4 DEF IInv, Counters
<1>9. Ranges'
  BY <1>1, <1>2 DEF IInv, Ranges, Ahead, Unindexed, Counted
<1>10. NotOvertaken'
  <2>1. ASSUME NEW f \in Eval, seq[f] # 0, phase'[f] # "NOTIFY", p = "NOTIFY"
        PROVE  seq[e] < seq[f]
    <3>1. f # e /\ retired < seq[f]
      BY <1>2, <2>1 DEF IInv, NotOvertaken
    <3>2. seq[e] <= seq[f] /\ seq[e] # seq[f]
      BY <1>1, <1>2, <2>1, <3>1 DEF SeqNext, IInv, Numbers
    <3> QED BY <1>2, <3>2
  <2>2. ASSUME p = "RETIRE" PROVE NotOvertaken'
    BY <1>1, <1>2, <2>2 DEF IInv, NotOvertaken
  <2> QED BY <1>1, <2>1, <2>2 DEF NotOvertaken
<1>11. TurnKept'
  <2>1. ASSUME NEW f \in Eval PROVE SeqNext(committed, f)' <=> SeqNext(committed, f)
    BY DEF SeqNext
  <2> QED BY <1>2, <2>1 DEF IInv, TurnKept, ParentPost
<1>12. Entries' \subseteq Entries
  BY EntriesMember, EntriesMemberNext
<1>13. Composed'
  BY <1>2, <1>12 DEF IInv, Composed, Unindexed
<1>14. IndexUnique'
  BY <1>12, IndexUniqueEntries DEF IInv
<1>15. Carried'
  BY <1>2 DEF IInv, Carried, ParentPost
<1>16. RetiredInDb'
  BY <1>1 DEF IInv, RetiredInDb
<1> QED BY <1>5, <1>6, <1>7, <1>8, <1>9, <1>10, <1>11, <1>13, <1>14, <1>15, <1>16 DEF IInv

LEMMA WriteKeeps == ASSUME IInv, NEW e \in Eval, Write(e) PROVE IInv'
<1>1. parent[e] = None
  BY DEF Write, IInv, Nesting, Nested
<1>2. <<seq[e], event[e]>> \in txn[e] /\ txn[e] \subseteq Entry /\ db \subseteq Entry
  BY <1>1 DEF Write, IInv, Carried, ParentPost, TypeOK
<1>3. db' = db \cup txn[e] /\ db' \subseteq Entries
  BY EntriesMember DEF Write
<1> QED BY <1>2, <1>3, RetiringKeeps DEF Write

LEMMA RetireKeeps == ASSUME IInv, NEW e \in Eval, Retire(e) PROVE IInv'
<1>1. parent[e] = None
  BY DEF Retire, IInv, Nesting, Nested
<1>2. <<seq[e], event[e]>> \in db /\ db \subseteq Entry
  BY <1>1 DEF Retire, IInv, Carried, ParentPost, TypeOK
<1>3. db' = db /\ db' \subseteq Entries
  BY EntriesMember DEF Retire
<1> QED BY <1>2, <1>3, RetiringKeeps DEF Retire

LEMMA WriteInterruptedKeeps ==
  ASSUME IInv, NEW e \in Eval, WriteInterrupted(e) PROVE IInv'
<1>1. \A k \in Eval : parent[k] # e
  BY VmAssumption DEF WriteInterrupted, IInv, Nesting, Nested
<1>2. txn[e] \subseteq Entry /\ db \subseteq Entry
  BY DEF IInv, TypeOK
<1>3. db' = db \cup txn[e] /\ db' \subseteq Entries
  BY EntriesMember DEF WriteInterrupted
<1> QED BY <1>1, <1>2, <1>3, LeaveKeeps DEF WriteInterrupted

LEMMA FaultKeeps == ASSUME IInv, NEW e \in Eval, Fault(e) PROVE IInv'
<1> DEFINE S == {e} \cup ({parent[e]} \ {None})
<1>1. S \in SUBSET Eval
  BY DEF IInv, TypeOK
<1>2. ASSUME NEW k \in Eval, parent[k] \in S PROVE k \in S
  <2>1. parent[k] # e
    BY DEF Fault, Child
  <2>2. parent[k] = parent[e] /\ parent[k] # None
    BY <1>2, <2>1
  <2>3. k = e
    BY <2>2 DEF IInv, Nesting
  <2> QED BY <2>3
<1>3. \A f \in S : phase[f] # "DUPWAIT"
  BY DEF Fault, IInv, Nesting, Nested
<1>4. db' = db /\ db \subseteq Entries /\ db \in SUBSET Entry
  BY EntriesMember DEF Fault, IInv, TypeOK
<1>5. Leave(S) /\ UNCHANGED counters
  BY DEF Fault
<1> HIDE DEF S
<1> QED BY <1>1, <1>2, <1>3, <1>4, <1>5, LeaveKeeps

LEMMA FinishKeeps == ASSUME IInv, NEW e \in Eval, Finish(e) PROVE IInv'
<1>1. /\ dupq' \in Seq(Eval) /\ Distinct(dupq')
      /\ ToSet(dupq') = ToSet(dupq) \ {e}
  BY RotateProperties DEF Finish, IInv, Queue, TypeOK
<1>2. TypeOK'
  BY <1>1, VmAssumption DEF IInv, TypeOK, Finish, counters, Phase
<1>3. /\ phase'[e] = "NONE" /\ seq'[e] = 0 /\ parent'[e] = None
      /\ \A k \in Eval : parent[k] # e
  BY VmAssumption DEF Finish, IInv, TypeOK, Nesting, Nested
<1>4. /\ \A f \in Eval \ {e} : /\ phase'[f] = phase[f] /\ event'[f] = event[f]
                              /\ seq'[f] = seq[f] /\ parent'[f] = parent[f]
                              /\ txn'[f] = txn[f]
      /\ \A f \in Eval : txn'[f] \subseteq txn[f]
  BY DEF Finish, IInv, TypeOK
<1>5. db' = db /\ db \subseteq Entries /\ UNCHANGED counters
  BY EntriesMember DEF Finish
<1> QED BY <1>1, <1>2, <1>3, <1>4, <1>5, LeavingKeeps

\* The last index of the database is where the counters restart.
LEMMA CrashKeeps == ASSUME IInv, Crash PROVE IInv'
<1>1. PICK n \in 0..MaxSeq :
        Highest(n) /\ retired' = n /\ committed' = n /\ uncommitted' = n
  BY DEF Crash, Restart
<1>2. /\ \A e \in Eval : /\ phase'[e] = "NONE" /\ event'[e] = None /\ seq'[e] = 0
                        /\ parent'[e] = None /\ txn'[e] = {}
      /\ dupq' = <<>> /\ asleep' = {} /\ db' = db
  BY DEF Crash
<1>3. TypeOK'
  BY <1>1, <1>2, VmAssumption DEF IInv, TypeOK, Crash, Phase
<1>4. Held' /\ Numbers' /\ Nesting' /\ NotOvertaken' /\ TurnKept'
  BY <1>2 DEF Held, Numbers, Early, Nesting, NotOvertaken, TurnKept
<1>5. Queue'
  BY <1>2 DEF Queue, Distinct, ToSet
<1>6. Counters'
  BY <1>1, VmAssumption DEF Counters
<1>7. Ranges' /\ Carried'
  BY <1>2 DEF Ranges, Carried, Ahead, Unindexed, Counted
<1>8. Entries' = db
  BY <1>2, EntriesMemberNext
<1>9. Composed'
  BY <1>1, <1>2, <1>8 DEF Composed, Highest, Unindexed
<1>10. IndexUnique'
  BY <1>8, EntriesMember, IndexUniqueEntries DEF IInv
<1>11. RetiredInDb'
  BY <1>1, <1>2 DEF RetiredInDb, Highest
<1> QED BY <1>3, <1>4, <1>5, <1>6, <1>7, <1>9, <1>10, <1>11 DEF IInv

LEMMA StutterKeeps == ASSUME IInv, UNCHANGED vars PROVE IInv'
<1>1. /\ UNCHANGED <<phase, event, seq, parent, txn, dupq, asleep, retired,
                     committed, uncommitted, db>>
  BY DEF vars, evals, docks, counters
<1>2. db' \subseteq Entries
  BY <1>1, EntriesMember
<1>3. TypeOK' /\ Distinct(dupq') /\ ToSet(dupq') = ToSet(dupq) \ {}
  BY <1>1 DEF IInv, TypeOK, Queue
<1>4. {} \in SUBSET Eval /\ db \subseteq db' /\ UNCHANGED counters
  BY <1>1 DEF counters
<1>5. \A f \in Eval : txn'[f] \subseteq txn[f]
  BY <1>1
<1>6. \A f \in Eval \ {} : /\ phase'[f] = phase[f] /\ event'[f] = event[f]
                           /\ seq'[f] = seq[f] /\ parent'[f] = parent[f]
                           /\ txn'[f] = txn[f]
  BY <1>1
<1> QED BY <1>2, <1>3, <1>4, <1>5, <1>6, LeavingKeeps

-----------------------------------------------------------------------------

LEMMA NextKeeps == ASSUME IInv, [Next]_vars PROVE IInv'
<1>1. ASSUME NEW e \in Eval, Step(e) PROVE IInv'
  BY <1>1, DupResumeKeeps, DupCheckKeeps, SequenceKeeps, PrecommitKeeps,
     RelativeKeeps, CommitResumeKeeps, IndexKeeps, PostKeeps, PostedKeeps,
     WriteKeeps, RetireKeeps, FinishKeeps DEF Step
<1>2. ASSUME NEW e \in Eval, Other(e) PROVE IInv'
  BY <1>2, StartKeeps, DupUnwindKeeps, WriteInterruptedKeeps, FaultKeeps DEF Other
<1> QED BY <1>1, <1>2, NonconformingKeeps, CrashKeeps, StutterKeeps DEF Next

THEOREM Invariance == Spec => []IInv
BY InitHolds, NextKeeps, PTL DEF Spec

\* Every variable keeps to the values the code can give it.
THEOREM TypeCorrect == Spec => []TypeOK
<1>1. IInv => TypeOK
  BY DEF IInv
<1> QED BY <1>1, Invariance, PTL

\* An index belongs to one event, whatever fails and over every restart.
THEOREM IndexesAreUnique == Spec => []IndexUnique
<1>1. IInv => IndexUnique
  BY DEF IInv
<1> QED BY <1>1, Invariance, PTL

\* COMMIT admits one evaluation at a time, and keeps others out until it is done.
THEOREM TurnsAreKept == Spec => []TurnKept
<1>1. IInv => TurnKept
  BY DEF IInv
<1> QED BY <1>1, Invariance, PTL

\* Retirement never passes an evaluation that has not retired.
THEOREM NobodyIsOvertaken == Spec => []NotOvertaken
<1>1. IInv => NotOvertaken
  BY DEF IInv
<1> QED BY <1>1, Invariance, PTL

\* sequence::retired never goes back, not even over a restart.
THEOREM RetiredGoesForward == Spec => RetiredForward
<1>1. ASSUME IInv, [Next]_vars PROVE retired' >= retired
  <2>0. retired \in Nat /\ \A e \in Eval : seq[e] \in Nat
    BY <1>1, VmAssumption DEF IInv, TypeOK
  <2>1. ASSUME NEW e \in Eval, TryRetire(e) PROVE retired' >= retired
    BY <1>1, <2>0, <2>1, ReleaseIsOwn DEF TryRetire, SeqNext
  <2>2. ASSUME Crash PROVE retired' >= retired
    <3>1. PICK n \in 0..MaxSeq : Highest(n) /\ retired' = n
      BY <2>2 DEF Crash, Restart
    <3>2. retired = 0 \/ \E a \in db : a[1] = retired
      BY <1>1 DEF IInv, RetiredInDb
    <3> QED BY <2>0, <3>1, <3>2, VmAssumption DEF Highest
  <2>3. ASSUME NEW e \in Eval, Step(e) PROVE retired' >= retired
    <3>1. CASE Write(e) \/ Retire(e)
      BY <2>1, <3>1 DEF Write, Retire
    <3>2. CASE ~(Write(e) \/ Retire(e))
      BY <2>0, <2>3, <3>2
      DEF Step, DupResume, DupCheck, Sequence, Precommit, Relative, CommitResume,
          Index, Post, Enter, Posted, Finish, counters
    <3> QED BY <3>1, <3>2
  <2>4. ASSUME NEW e \in Eval, Other(e) PROVE retired' >= retired
    BY <2>0, <2>4 DEF Other, Start, Enter, DupUnwind, WriteInterrupted, Fault, counters
  <2> QED
    BY <2>0, <2>2, <2>3, <2>4, <1>1 DEF Next, Nonconforming, vars, counters
<1> QED BY <1>1, Invariance, PTL DEF Spec, RetiredForward

\* sequence::committed only goes back in a restart.
THEOREM CommittedGoesForward == Spec => CommittedForward
<1>1. ASSUME IInv, [Next]_vars
      PROVE  committed' < committed => (\A e \in Eval : ~Alive(e))'
  <2>0. committed \in Nat
    BY <1>1, VmAssumption DEF IInv, TypeOK
  <2>1. CASE Crash
    BY <2>1 DEF Crash, Alive
  <2>2. ASSUME NEW e \in Eval, Posted(e) PROVE ~(committed' < committed)
    <3>1. ~ParentPost(e) => committed < seq[e] /\ seq[e] \in Nat
      BY <1>1, <2>0, <2>2, VmAssumption DEF Posted, IInv, TypeOK, Ranges, Ahead
    <3> QED BY <2>0, <2>2, <3>1 DEF Posted
  <2>3. ASSUME NEW e \in Eval, Step(e) PROVE ~(committed' < committed)
    BY <2>0, <2>2, <2>3
    DEF Step, DupResume, DupCheck, Sequence, Precommit, Relative, CommitResume,
        Index, Post, Enter, Write, Retire, Finish, counters
  <2>4. ASSUME NEW e \in Eval, Other(e) PROVE ~(committed' < committed)
    BY <2>0, <2>4 DEF Other, Start, Enter, DupUnwind, WriteInterrupted, Fault, counters
  <2> QED
    BY <2>0, <2>1, <2>3, <2>4, <1>1 DEF Next, Nonconforming, vars, counters
<1> QED BY <1>1, Invariance, PTL DEF Spec, CommittedForward
-----------------------------------------------------------------------------
(* Events are accepted once, messages together with their transaction ids. *)

\* The phases in which an event isn't in the database, and among them those
\* before its entry is composed.
Fresh == {"FETCH", "PREINDEX", "PRECOMMIT", "AUTH_RELA", "COMMIT", "EVALUATE", "POST", "WRITE"}
Uncomposed == {"DUPWAIT", "DUPCHK", "FETCH", "PREINDEX", "PRECOMMIT", "AUTH_RELA", "COMMIT",
               "EVALUATE"}

Past(e) == phase[e] \notin {"NONE", "DUPWAIT"}

\* One evaluation at a time of each event is past DUPWAIT.
Alone == \A e, f \in Eval : Past(e) /\ Past(f) /\ event[e] = event[f] => e = f

\* Only a child records a transaction id, its parent's.
Kin == \A e \in Eval : phase[e] # "NONE" =>
         IF parent[e] = None THEN event[e] \in Event ELSE event[e] = Txnid(parent[e])

Unwritten == \A e \in Eval : phase[e] \in Fresh => \A a \in db : a[2] # event[e]

\* What is composed at the bottom of a stack: one entry for the event, and at
\* most one for the transaction id.
Contents == \A e \in Eval : phase[e] \in {"POST", "WRITE"} /\ parent[e] = None =>
              /\ \A a \in txn[e] : a = <<seq[e], event[e]>> \/ a[2] = Txnid(e)
              /\ \A a, b \in txn[e] : a[2] = b[2] => a = b

\* A child composes its entry once.
Awaited == \A k \in Eval : parent[k] # None /\ phase[k] \in Uncomposed =>
             \A a \in txn[parent[k]] : a[2] # event[k]

\* A message is written with its transaction id.
Complete == \A e \in Eval : phase[e] = "WRITE" /\ event[e] \in Sent =>
              \E a \in txn[e] : a[2] = Txnid(e)

OneEntry == \A a, b \in db : a[2] = b[2] => a = b

OInv == /\ Alone /\ Kin /\ Unwritten /\ Contents /\ Awaited /\ Complete
        /\ OneEntry /\ TxnidWithMessage

-----------------------------------------------------------------------------

\* Evaluations end: those of S, and whoever is below one of them.
LEMMA EndingOnce ==
  ASSUME IInv, OInv, NEW S \in SUBSET Eval,
         \A k \in Eval : parent[k] \in S => k \in S,
         \A f \in S : phase'[f] = "NONE" /\ parent'[f] = None,
         \A f \in Eval \ S : /\ phase'[f] = phase[f] /\ event'[f] = event[f]
                             /\ seq'[f] = seq[f] /\ parent'[f] = parent[f]
                             /\ txn'[f] = txn[f],
         db' = db
  PROVE  OInv'
<1>1. Alone'
  BY DEF OInv, Alone, Past
<1>2. \A f \in Eval \ S : parent[f] # None => parent[f] \in Eval \ S
  BY DEF IInv, TypeOK
<1>3. Kin' /\ Awaited'
  BY <1>2, VmAssumption DEF OInv, Kin, Awaited, Uncomposed, Txnid
<1>4. Unwritten'
  BY DEF OInv, Unwritten, Fresh
<1>5. Contents'
  BY DEF OInv, Contents, Txnid
<1>6. Complete'
  <2>1. SUFFICES ASSUME NEW f \in Eval, phase'[f] = "WRITE", event'[f] \in Sent
                 PROVE  \E a \in txn'[f] : a[2] = Txnid(f)'
    BY DEF Complete
  <2>2. f \in Eval \ S
    BY <2>1
  <2>3. event'[f] = event[f] /\ seq'[f] = seq[f] /\ txn'[f] = txn[f] /\ phase[f] = "WRITE"
    BY <2>1, <2>2
  <2>4. PICK a \in txn[f] : a[2] = Txnid(f)
    BY <2>1, <2>3 DEF OInv, Complete
  <2> QED BY <2>3, <2>4 DEF Txnid
<1>7. OneEntry' /\ TxnidWithMessage'
  BY DEF OInv, OneEntry, TxnidWithMessage, Exists
<1> QED BY <1>1, <1>3, <1>4, <1>5, <1>6, <1>7 DEF OInv

\* An evaluation goes from one phase to another, and writes nothing.
LEMMA PhaseOnce ==
  ASSUME IInv, OInv, NEW e \in Eval, NEW p \in Phase \ {"NONE"}, phase[e] # "NONE",
         phase' = [phase EXCEPT ![e] = p],
         UNCHANGED <<event, seq, parent, txn, db>>,
         phase[e] = "DUPWAIT" => p = "DUPWAIT" \/ Holding(event[e]) = {},
         p \in Fresh => phase[e] \in Fresh \/ ~Exists(event[e]),
         p \in {"POST", "WRITE"} => phase[e] \in {"POST", "WRITE"},
         p \in Uncomposed => phase[e] \in Uncomposed,
         p = "WRITE" /\ event[e] \in Sent => \E a \in txn[e] : a[2] = Txnid(e)
  PROVE  OInv'
<1>1. \A f \in Eval : phase'[f] = IF f = e THEN p ELSE phase[f]
  BY DEF IInv, TypeOK
<1>2. Alone'
  BY <1>1 DEF OInv, Alone, Past, Holding
<1>3. Kin' /\ Awaited'
  BY <1>1 DEF OInv, Kin, Awaited, Txnid
<1>4. Unwritten'
  <2>1. ASSUME p \in Fresh, NEW a \in db PROVE a[2] # event[e]
    <3>1. a \in Entry
      BY DEF IInv, TypeOK
    <3>2. a[1] \in 1..MaxSeq /\ a = <<a[1], a[2]>>
      BY <3>1 DEF Entry
    <3> QED BY <2>1, <3>2 DEF OInv, Unwritten, Exists
  <2> QED BY <1>1, <2>1 DEF OInv, Unwritten
<1>5. Contents'
  BY <1>1 DEF OInv, Contents, Txnid
<1>6. Complete'
  BY <1>1 DEF OInv, Complete, Txnid
<1>7. OneEntry' /\ TxnidWithMessage'
  BY DEF OInv, OneEntry, TxnidWithMessage, Exists
<1> QED BY <1>2, <1>3, <1>4, <1>5, <1>6, <1>7 DEF OInv

LEMMA InitOnce == Init => OInv
BY VmAssumption
DEF Init, OInv, Alone, Past, Kin, Unwritten, Fresh, Contents, Awaited, Complete, OneEntry,
    TxnidWithMessage, Exists

\* A new evaluation: of an event of somebody's, or of its parent's transaction id.
LEMMA EnterOnce ==
  ASSUME IInv, OInv, NEW e \in Eval, NEW id \in Id, NEW q \in Eval \cup {None},
         Enter(e, id, q),
         IF q = None THEN id \in Event
         ELSE q # e /\ id = Txnid(q) /\ \A a \in txn[q] : a[2] # id
  PROVE  OInv'
<1>1. PICK p \in {"DUPWAIT", "DUPCHK"} :
        /\ phase' = [phase EXCEPT ![e] = p]
        /\ p = "DUPCHK" => Holding(id) = {}
  BY DEF Enter, Goto, Sleep
<1>2. /\ phase[e] = "NONE"
      /\ \A f \in Eval : phase'[f] = IF f = e THEN p ELSE phase[f]
      /\ \A f \in Eval : event'[f] = IF f = e THEN id ELSE event[f]
      /\ \A f \in Eval : parent'[f] = IF f = e THEN q ELSE parent[f]
      /\ UNCHANGED <<seq, txn, db>>
  BY <1>1 DEF Enter, IInv, TypeOK
<1>3. \A k \in Eval : parent[k] # e
  BY <1>2, VmAssumption DEF IInv, Nesting, Nested
<1>4. Alone'
  BY <1>1, <1>2 DEF OInv, Alone, Past, Holding
<1>5. Kin'
  BY <1>2, <1>3, VmAssumption DEF OInv, Kin, Txnid, IInv, TypeOK
<1>6. Awaited'
  BY <1>2, <1>3, VmAssumption DEF OInv, Awaited
<1>7. Unwritten' /\ Complete'
  BY <1>2 DEF OInv, Unwritten, Complete, Fresh, Txnid
<1>8. Contents'
  BY <1>2 DEF OInv, Contents, Txnid
<1>9. OneEntry' /\ TxnidWithMessage'
  BY <1>2 DEF OInv, OneEntry, TxnidWithMessage, Exists
<1> QED BY <1>4, <1>5, <1>6, <1>7, <1>8, <1>9 DEF OInv

LEMMA StartOnce == ASSUME IInv, OInv, NEW e \in Eval, Start(e) PROVE OInv'
BY EnterOnce DEF Start, Id

LEMMA PostOnce == ASSUME IInv, OInv, NEW e \in Eval, Post(e) PROVE OInv'
<1>1. PICK k \in Eval : Enter(k, Txnid(e), e)
  BY DEF Post
<1>2. phase[e] = "POST" /\ event[e] \in Event /\ \A a \in txn[e] : a[2] # Txnid(e)
  BY VmAssumption DEF Post, Owes
<1>3. k # e
  BY <1>1, <1>2 DEF Enter
<1>4. seq[e] # 0 /\ seq[e] \in 0..MaxSeq
  BY <1>2 DEF IInv, TypeOK, Numbers, Early
<1>5. Txnid(e) \in Id
  BY <1>2, <1>4, VmAssumption DEF Txnid, Id
<1> QED BY <1>1, <1>2, <1>3, <1>5, EnterOnce, VmAssumption

LEMMA DupCheckOnce == ASSUME IInv, OInv, NEW e \in Eval, DupCheck(e) PROVE OInv'
<1>1. CASE Exists(event[e])
  <2>1. \A k \in Eval : parent[k] # e
    BY VmAssumption DEF DupCheck, IInv, Nesting, Nested
  <2> QED BY <1>1, <2>1, EndingOnce DEF DupCheck, Leave
<1>2. CASE ~Exists(event[e])
  BY <1>2, PhaseOnce DEF DupCheck, Goto, Phase, Fresh, Uncomposed
<1> QED BY <1>1, <1>2

LEMMA SequenceOnce == ASSUME IInv, OInv, NEW e \in Eval, Sequence(e) PROVE OInv'
<1>1. /\ phase[e] = "FETCH" /\ \A f \in Eval \ {e} : seq'[f] = seq[f]
      /\ \A f \in Eval : phase'[f] = IF f = e THEN "PREINDEX" ELSE phase[f]
      /\ UNCHANGED <<event, parent, txn, db>>
  BY DEF Sequence, Goto, IInv, TypeOK
<1>2. \A k \in Eval : parent[k] # e
  BY <1>1, VmAssumption DEF IInv, Nesting, Nested
<1>3. Alone'
  BY <1>1 DEF OInv, Alone, Past
<1>4. Kin'
  BY <1>1, <1>2 DEF OInv, Kin, Txnid, IInv, TypeOK
<1>5. Unwritten' /\ Awaited'
  BY <1>1 DEF OInv, Unwritten, Awaited, Fresh, Uncomposed
<1>6. Contents'
  BY <1>1 DEF OInv, Contents, Txnid
<1>7. Complete'
  BY <1>1 DEF OInv, Complete, Txnid
<1>8. OneEntry' /\ TxnidWithMessage'
  BY <1>1 DEF OInv, OneEntry, TxnidWithMessage, Exists
<1> QED BY <1>3, <1>4, <1>5, <1>6, <1>7, <1>8 DEF OInv

LEMMA IndexOnce == ASSUME IInv, OInv, NEW e \in Eval, Index(e) PROVE OInv'
<1> DEFINE x == <<seq[e], event[e]>>
<1>1. /\ phase[e] = "EVALUATE"
      /\ \A f \in Eval : phase'[f] = IF f = e THEN "POST" ELSE phase[f]
      /\ UNCHANGED <<event, seq, parent, db>>
  BY DEF Index, Goto, IInv, TypeOK, counters
<1>2. \A k \in Eval : parent[k] # e
  BY <1>1, VmAssumption DEF IInv, Nesting, Nested
<1>3. \A f \in Eval : txn'[f] = IF parent[e] = None
                                THEN IF f = e THEN {x} ELSE txn[f]
                                ELSE IF f = parent[e] THEN txn[f] \cup {x} ELSE txn[f]
  BY DEF Index, ParentPost, IInv, TypeOK
<1>4. Alone' /\ Kin' /\ OneEntry' /\ TxnidWithMessage'
  BY <1>1 DEF OInv, Alone, Past, Kin, Txnid, OneEntry, TxnidWithMessage, Exists
<1>5. Unwritten'
  BY <1>1 DEF OInv, Unwritten, Fresh
<1>6. Contents'
  <2>1. CASE parent[e] = None
    BY <1>1, <1>3, <2>1 DEF OInv, Contents, Txnid
  <2>2. CASE parent[e] # None
    <3>1. \A a \in txn[parent[e]] : a[2] # x[2]
      BY <1>1, <2>2 DEF OInv, Awaited, Uncomposed
    <3>2. x[2] = Txnid(parent[e])
      BY <1>1, <2>2 DEF OInv, Kin
    <3> HIDE DEF x
    <3>3. \A f \in Eval : Txnid(f)' = Txnid(f)
      BY <1>1 DEF Txnid
    <3>4. SUFFICES ASSUME NEW f \in Eval, phase'[f] \in {"POST", "WRITE"}, parent[f] = None
                   PROVE  /\ \A a \in txn'[f] : a = <<seq[f], event[f]>> \/ a[2] = Txnid(f)
                          /\ \A a, b \in txn'[f] : a[2] = b[2] => a = b
      BY <1>1, <3>3 DEF Contents
    <3>5. f # e /\ phase[f] \in {"POST", "WRITE"}
      BY <1>1, <2>2, <3>4
    <3>6. /\ \A a \in txn[f] : a = <<seq[f], event[f]>> \/ a[2] = Txnid(f)
          /\ \A a, b \in txn[f] : a[2] = b[2] => a = b
      BY <3>4, <3>5 DEF OInv, Contents
    <3>7. CASE f = parent[e]
      <4>1. txn'[f] = txn[f] \cup {x}
        BY <1>3, <2>2, <3>7
      <4>2. x[2] = Txnid(f) /\ \A a \in txn[f] : a[2] # x[2]
        BY <3>1, <3>2, <3>7
      <4> QED BY <3>6, <4>1, <4>2
    <3>8. CASE f # parent[e]
      BY <1>3, <2>2, <3>6, <3>8
    <3> QED BY <3>7, <3>8
  <2> QED BY <2>1, <2>2
<1>7. Awaited'
  <2>1. ASSUME NEW k \in Eval, parent[k] # None, k # e PROVE txn'[parent[k]] = txn[parent[k]]
    BY <1>2, <1>3, <2>1 DEF IInv, Nesting, TypeOK
  <2> QED BY <1>1, <2>1 DEF OInv, Awaited, Uncomposed
<1>8. Complete'
  <2>1. \A f \in Eval \ {e} : txn[f] \subseteq txn'[f]
    BY <1>3
  <2> QED BY <1>1, <2>1 DEF OInv, Complete, Txnid
<1> QED BY <1>4, <1>5, <1>6, <1>7, <1>8 DEF OInv

LEMMA PostedOnce == ASSUME IInv, OInv, NEW e \in Eval, Posted(e) PROVE OInv'
<1>1. PICK p \in {"NOTIFY", "WRITE"} :
        phase' = [phase EXCEPT ![e] = p] /\ (p = "WRITE" => parent[e] = None)
  BY DEF Posted, Accept, Goto, ParentPost
<1>2. event[e] \in Sent => \E a \in txn[e] : a[2] = Txnid(e)
  BY DEF Posted, Owes
<1> QED BY <1>1, <1>2, PhaseOnce DEF Posted, Phase, Fresh, Uncomposed

\* What an evaluation writes is new, and whole.
LEMMA WritingOnce ==
  ASSUME IInv, OInv, NEW e \in Eval, phase[e] = "WRITE", db' = db \cup txn[e]
  PROVE  /\ OneEntry' /\ TxnidWithMessage'
         /\ \A f \in Eval \ {e} : phase[f] \in Fresh => \A a \in db' : a[2] # event[f]
<1>1. parent[e] = None /\ event[e] \in Event /\ seq[e] \in 1..MaxSeq
  <2>1. parent[e] = None
    BY DEF IInv, Nesting, Nested
  <2>2. seq[e] # 0 /\ seq[e] \in 0..MaxSeq
    BY DEF IInv, TypeOK, Numbers, Early
  <2> QED BY <2>1, <2>2, VmAssumption DEF OInv, Kin
<1>2. /\ <<seq[e], event[e]>> \in txn[e]
      /\ \A a \in txn[e] : a = <<seq[e], event[e]>> \/ a[2] = Txnid(e)
      /\ \A a, b \in txn[e] : a[2] = b[2] => a = b
  BY <1>1 DEF IInv, Carried, ParentPost, OInv, Contents
<1>3. Txnid(e) = <<event[e], seq[e]>> /\ Txnid(e) \notin Event
  BY <1>1, VmAssumption DEF Txnid
<1>4. \A a \in db : a[2] # event[e]
  BY DEF OInv, Unwritten, Fresh
<1>5. \A a \in db : a[2] # Txnid(e)
  <2>1. ASSUME NEW a \in db, a[2] = Txnid(e) PROVE FALSE
    <3>1. a[1] \in 1..MaxSeq /\ a = <<a[1], <<event[e], seq[e]>>>>
      BY <1>3, <2>1 DEF IInv, TypeOK, Entry
    <3>2. <<seq[e], event[e]>> \in db
      BY <1>1, <2>1, <3>1 DEF OInv, TxnidWithMessage
    <3> QED BY <1>4, <3>2
  <2> QED BY <2>1
<1>6. OneEntry'
  BY <1>2, <1>4, <1>5 DEF OInv, OneEntry
<1>7. ASSUME NEW i \in 1..MaxSeq, NEW s \in 1..MaxSeq, NEW id \in Event,
             <<i, <<id, s>>>> \in db'
      PROVE  <<s, id>> \in db'
  <2>1. CASE <<i, <<id, s>>>> \in db
    BY <2>1 DEF OInv, TxnidWithMessage
  <2>2. CASE <<i, <<id, s>>>> \in txn[e]
    <3>1. <<id, s>> \notin Event
      BY VmAssumption
    <3>2. <<id, s>> = <<event[e], seq[e]>>
      BY <1>1, <1>2, <1>3, <2>2, <3>1
    <3> QED BY <1>2, <3>2
  <2> QED BY <1>7, <2>1, <2>2
<1>8. ASSUME NEW i \in 1..MaxSeq, NEW id \in Sent, <<i, id>> \in db'
      PROVE  \E j \in 1..MaxSeq : <<j, <<id, i>>>> \in db'
  <2>1. CASE <<i, id>> \in db
    BY <2>1 DEF OInv, TxnidWithMessage, Exists
  <2>2. CASE <<i, id>> \in txn[e]
    <3>1. i = seq[e] /\ id = event[e]
      BY <1>2, <1>3, <2>2, VmAssumption
    <3>2. PICK a \in txn[e] : a[2] = Txnid(e)
      BY <3>1 DEF OInv, Complete
    <3>3. a[1] \in 1..MaxSeq /\ a = <<a[1], <<id, i>>>>
      BY <1>3, <3>1, <3>2 DEF IInv, TypeOK, Entry
    <3> QED BY <3>3
  <2> QED BY <1>8, <2>1, <2>2
<1>9. ASSUME NEW f \in Eval \ {e}, phase[f] \in Fresh, NEW a \in txn[e]
      PROVE  a[2] # event[f]
  <2>1. event[f] # event[e]
    BY <1>9 DEF OInv, Alone, Past, Fresh
  <2>2. event[f] # Txnid(e)
    <3>1. SUFFICES ASSUME event[f] = Txnid(e) PROVE FALSE
      OBVIOUS
    <3>2. parent[f] # None /\ event[f] = Txnid(parent[f])
      BY <1>3, <1>9, <3>1 DEF OInv, Kin, Fresh
    <3>3. parent[f] \in Eval /\ phase[parent[f]] = "POST" /\ event[parent[f]] = event[e]
      BY <1>3, <3>1, <3>2 DEF IInv, TypeOK, Nesting, Nested, Txnid
    <3> QED BY <3>3 DEF OInv, Alone, Past
  <2> QED BY <1>2, <2>1, <2>2
<1> QED BY <1>6, <1>7, <1>8, <1>9 DEF OInv, Unwritten, TxnidWithMessage, Exists

LEMMA WriteOnce == ASSUME IInv, OInv, NEW e \in Eval, Write(e) PROVE OInv'
<1>1. PICK p \in {"NOTIFY", "RETIRE"} : phase' = [phase EXCEPT ![e] = p]
  BY DEF Write, TryRetire, Accept, Sleep, Goto
<1>2. /\ \A f \in Eval : phase'[f] = IF f = e THEN p ELSE phase[f]
      /\ phase[e] = "WRITE" /\ db' = db \cup txn[e]
      /\ UNCHANGED <<event, seq, parent, txn>>
  BY <1>1 DEF Write, IInv, TypeOK
<1>3. Alone' /\ Kin' /\ Awaited'
  BY <1>2 DEF OInv, Alone, Past, Kin, Awaited, Txnid, Uncomposed
<1>4. Contents' /\ Complete'
  BY <1>2 DEF OInv, Contents, Complete, Txnid
<1>5. OneEntry' /\ TxnidWithMessage' /\ Unwritten'
  BY <1>2, WritingOnce DEF Unwritten, Fresh
<1> QED BY <1>3, <1>4, <1>5 DEF OInv

LEMMA WriteInterruptedOnce ==
  ASSUME IInv, OInv, NEW e \in Eval, WriteInterrupted(e) PROVE OInv'
<1>1. /\ phase[e] = "WRITE" /\ db' = db \cup txn[e]
      /\ phase'[e] = "NONE" /\ parent'[e] = None
      /\ \A f \in Eval \ {e} : /\ phase'[f] = phase[f] /\ event'[f] = event[f]
                               /\ seq'[f] = seq[f] /\ parent'[f] = parent[f]
                               /\ txn'[f] = txn[f]
  BY DEF WriteInterrupted, Leave
<1>2. \A k \in Eval : parent[k] # e
  BY <1>1, VmAssumption DEF IInv, Nesting, Nested
<1>3. Alone' /\ Complete'
  <2>1. Alone'
    BY <1>1 DEF OInv, Alone, Past
  <2>2. ASSUME NEW f \in Eval, phase'[f] = "WRITE", event'[f] \in Sent
        PROVE  \E a \in txn'[f] : a[2] = Txnid(f)'
    <3>1. f \in Eval \ {e}
      BY <1>1, <2>2
    <3>2. /\ event'[f] = event[f] /\ seq'[f] = seq[f] /\ txn'[f] = txn[f]
          /\ phase[f] = "WRITE"
      BY <1>1, <2>2, <3>1
    <3>3. PICK a \in txn[f] : a[2] = Txnid(f)
      BY <2>2, <3>2 DEF OInv, Complete
    <3> QED BY <3>2, <3>3 DEF Txnid
  <2>3. Complete'
    BY <2>2 DEF Complete
  <2> QED BY <2>1, <2>3
<1>4. \A f \in Eval \ {e} : parent[f] # None => parent[f] \in Eval \ {e}
  BY <1>2 DEF IInv, TypeOK
<1>5. Kin' /\ Awaited'
  BY <1>1, <1>4 DEF OInv, Kin, Awaited, Txnid
<1>6. Contents'
  BY <1>1 DEF OInv, Contents, Txnid
<1>7. OneEntry' /\ TxnidWithMessage' /\ Unwritten'
  BY <1>1, WritingOnce DEF Unwritten, Fresh
<1> QED BY <1>3, <1>5, <1>6, <1>7 DEF OInv

LEMMA FaultOnce == ASSUME IInv, OInv, NEW e \in Eval, Fault(e) PROVE OInv'
<1> DEFINE S == {e} \cup ({parent[e]} \ {None})
<1>1. S \in SUBSET Eval
  BY DEF IInv, TypeOK
<1>2. ASSUME NEW k \in Eval, parent[k] \in S PROVE k \in S
  <2>1. parent[k] # e
    BY DEF Fault, Child
  <2>2. parent[k] = parent[e] /\ parent[k] # None
    BY <1>2, <2>1
  <2> QED BY <2>2 DEF IInv, Nesting
<1>3. Leave(S) /\ db' = db
  BY DEF Fault
<1> HIDE DEF S
<1> QED BY <1>1, <1>2, <1>3, EndingOnce DEF Leave

LEMMA NextOnce == ASSUME IInv, OInv, [Next]_vars PROVE OInv'
<1>1. ASSUME NEW e \in Eval, DupResume(e) PROVE OInv'
  <2>1. PICK p \in {"DUPWAIT", "DUPCHK"} :
          /\ phase' = [phase EXCEPT ![e] = p]
          /\ p = "DUPCHK" => Holding(event[e]) = {}
    BY <1>1 DEF DupResume, Goto, IInv, TypeOK
  <2>2. phase[e] = "DUPWAIT" /\ UNCHANGED <<event, seq, parent, txn, db>>
    BY <1>1 DEF DupResume
  <2> QED BY <2>1, <2>2, PhaseOnce DEF Phase, Fresh, Uncomposed
<1>2. ASSUME NEW e \in Eval, Precommit(e) \/ Relative(e) \/ CommitResume(e) PROVE OInv'
  <2>1. PICK p \in {"PRECOMMIT", "AUTH_RELA", "COMMIT", "EVALUATE"} :
          phase' = [phase EXCEPT ![e] = p]
    BY <1>2 DEF Precommit, Relative, CommitResume, Goto, Sleep, IInv, TypeOK
  <2>2. /\ phase[e] \in {"PREINDEX", "PRECOMMIT", "AUTH_RELA", "COMMIT"}
        /\ UNCHANGED <<event, seq, parent, txn, db>>
    BY <1>2 DEF Precommit, Relative, CommitResume
  <2> QED BY <2>1, <2>2, PhaseOnce DEF Phase, Fresh, Uncomposed
<1>3. ASSUME NEW e \in Eval, Retire(e) PROVE OInv'
  BY <1>3, PhaseOnce DEF Retire, TryRetire, Accept, Goto, Sleep, Phase, Fresh, Uncomposed
<1>4. ASSUME NEW e \in Eval, DupUnwind(e) \/ Finish(e) PROVE OInv'
  <2>1. \A k \in Eval : parent[k] # e
    BY <1>4, VmAssumption DEF DupUnwind, Finish, IInv, Nesting, Nested
  <2>2. /\ {e} \in SUBSET Eval /\ phase'[e] = "NONE" /\ parent'[e] = None /\ db' = db
        /\ \A f \in Eval \ {e} : /\ phase'[f] = phase[f] /\ event'[f] = event[f]
                                 /\ seq'[f] = seq[f] /\ parent'[f] = parent[f]
                                 /\ txn'[f] = txn[f]
    BY <1>4 DEF DupUnwind, Finish, ParentPost, IInv, TypeOK
  <2> QED BY <2>1, <2>2, EndingOnce
<1>5. ASSUME NEW e \in Eval, Step(e) \/ Other(e) PROVE OInv'
  BY <1>1, <1>2, <1>3, <1>4, <1>5, StartOnce, PostOnce, DupCheckOnce, SequenceOnce, IndexOnce,
     PostedOnce, WriteOnce, WriteInterruptedOnce, FaultOnce DEF Step, Other
<1>6. CASE Crash
  BY <1>6, EndingOnce DEF Crash, IInv, TypeOK
<1>7. CASE Nonconforming \/ UNCHANGED vars
  BY <1>7, EndingOnce, VmAssumption DEF Nonconforming, vars, evals
<1> QED BY <1>5, <1>6, <1>7 DEF Next

LEMMA OnceHolds == Spec => []OInv
<1>1. Init => IInv /\ OInv
  BY InitHolds, InitOnce
<1>2. IInv /\ OInv /\ [Next]_vars => (IInv /\ OInv)'
  BY NextKeeps, NextOnce
<1> QED BY <1>1, <1>2, PTL DEF Spec

\* No event is accepted twice, by however many evaluations that were offered it, over
\* their failures and over restarts.
THEOREM EventsAcceptedOnce == Spec => []AcceptedOnce
<1>1. OInv => AcceptedOnce
  BY DEF OInv, OneEntry, Alone, Past, AcceptedOnce, Holding
<1> QED BY <1>1, OnceHolds, PTL

\* A message and its transaction id are written both or neither.
THEOREM TxnidsWithMessages == Spec => []TxnidWithMessage
<1>1. OInv => TxnidWithMessage
  BY DEF OInv
<1> QED BY <1>1, OnceHolds, PTL

-----------------------------------------------------------------------------
(* The evaluation of an array (module VmArray), whose loop counters i, j    *)
(* and k are `batch`, `asked` and `nth` here.                               *)
CONSTANTS MaxSize, Batch, Width, Limit, Replays
VARIABLES pdus, it, size, batch, asked, nth, existing, evaluated, result, pc, present

Array == INSTANCE VmArray WITH i <- batch, j <- asked, k <- nth

\* At each place of the loops the counters say how many events are behind.
Behind == CASE pc = "each" -> it - size + batch + nth
            [] pc \in {"chunk", "batch", "done"} -> it - size + batch
            [] pc = "thrown" -> evaluated

\* The events that were handled are those behind, and so are those counted; a
\* chunk that is left has no events ahead, and nor has the array, below the limit.
Tallied ==
  /\ Array!Size \in Nat
  /\ it \in 0..Array!Size /\ size \in 0..it /\ batch \in 0..size
  /\ asked \in Nat /\ nth \in 0..asked
  /\ evaluated \in 0..Array!Size
  /\ DOMAIN result = 1..Array!Size
  /\ pc \in {"chunk", "batch", "each", "done", "thrown"}
  /\ pc \in {"chunk", "done"} => batch = size
  /\ pc = "each" => batch + asked <= size
  /\ evaluated = Behind
  /\ \A n \in 1..Array!Size : result[n] # "none" <=> n <= evaluated
  /\ pc = "done" => it = Array!Size \/ evaluated >= Limit

\* What is collected for a batch is a number of events of the chunk.
LEMMA Collected ==
  ASSUME NEW a \in Nat, NEW b \in Nat, NEW c \in Int
  PROVE  /\ Array!Max({Array!Min({a, b, c}), 0}) \in Nat
         /\ Array!Max({Array!Min({a, b, c}), 0}) <= a
         /\ Array!Max({Array!Min({a, b, c}), 0}) <= b
<1> DEFINE m == Array!Min({a, b, c})
           x == Array!Max({m, 0})
<1>1. m \in {a, b, c} /\ m <= a /\ m <= b
  <2>1. \E y \in {a, b, c} : \A z \in {a, b, c} : y <= z
    OBVIOUS
  <2> QED BY <2>1 DEF Array!Min
<1> HIDE DEF m
<1>2. x \in {m, 0} /\ x >= 0
  <2>1. \E y \in {m, 0} : \A z \in {m, 0} : y >= z
    BY <1>1
  <2> QED BY <2>1 DEF Array!Max
<1> QED BY <1>1, <1>2 DEF m

LEMMA Taken ==
  ASSUME NEW a \in Nat, NEW b \in Nat
  PROVE  Array!Min({a, b}) \in 0..b
<1>1. \E y \in {a, b} : \A z \in {a, b} : y <= z
  OBVIOUS
<1>2. Array!Min({a, b}) \in {a, b} /\ Array!Min({a, b}) <= b
  BY <1>1 DEF Array!Min
<1> QED BY <1>2

LEMMA ArrayInit ==
  ASSUME MaxSize \in Nat, Array!Init
  PROVE  Tallied
<1>1. PICK n \in 1..MaxSize : pdus \in [1..n -> Event]
  BY DEF Array!Init
<1>2. Array!Size = n /\ n \in Nat
  BY <1>1 DEF Array!Size
<1>3. result = [m \in 1..n |-> "none"]
  BY <1>2 DEF Array!Init
<1> QED BY <1>2, <1>3 DEF Array!Init, Tallied, Behind

\* An event of a batch was handled, in whatever way.
LEMMA BecomesTallied ==
  ASSUME Tallied, pc = "each", nth < asked, pc' = pc,
         NEW r \in {"skipped", "accept", "exists", "fault"}, Array!Becomes(r)
  PROVE  Tallied'
<1>1. pdus' = pdus /\ Array!Size' = Array!Size
  BY DEF Array!Becomes, Array!Size
<1>2. Array!Place(batch + nth) = evaluated + 1 /\ evaluated + 1 \in 1..Array!Size
  BY DEF Tallied, Behind, Array!Place
<1>3. /\ DOMAIN result' = 1..Array!Size
      /\ \A n \in 1..Array!Size : result'[n] = IF n = evaluated + 1 THEN r ELSE result[n]
  BY <1>2 DEF Tallied, Array!Becomes
<1>4. \A n \in 1..Array!Size : result'[n] # "none" <=> n <= evaluated + 1
  BY <1>2, <1>3 DEF Tallied
<1> QED BY <1>1, <1>2, <1>3, <1>4 DEF Tallied, Behind, Array!Becomes

LEMMA ArrayStep ==
  ASSUME Batch \in Nat, Limit \in Nat, Tallied, [Array!Next]_(Array!vars)
  PROVE  Tallied'
<1> USE DEF Tallied, Behind
<1>1. CASE Array!Chunk
  <2>1. Array!Size' = Array!Size
    BY <1>1 DEF Array!Chunk, Array!Size
  <2>2. size' \in 0..(Array!Size - it)
    <3>1. Array!Size - it \in Nat
      BY <1>1
    <3> QED BY <1>1, <3>1, Taken DEF Array!Chunk
  <2> QED BY <1>1, <2>1, <2>2 DEF Array!Chunk
<1>2. CASE Array!ChunkDone
  <2>1. Array!Size' = Array!Size
    BY <1>2 DEF Array!ChunkDone, Array!Size
  <2> QED BY <1>2, <2>1 DEF Array!ChunkDone
<1>3. CASE Array!NextBatch
  <2>1. Array!Size' = Array!Size
    BY <1>3 DEF Array!NextBatch, Array!Size
  <2>2. asked' \in Nat /\ asked' <= size - batch
    <3>1. Batch \in Int /\ size - batch \in Nat /\ Limit - evaluated \in Int
      BY <1>3 DEF Array!NextBatch
    <3> QED BY <1>3, <3>1, Collected DEF Array!NextBatch
  <2> QED BY <1>3, <2>1, <2>2 DEF Array!NextBatch
<1>4. CASE Array!BatchDone
  <2>1. Array!Size' = Array!Size
    BY <1>4 DEF Array!BatchDone, Array!Size
  <2> QED BY <1>4, <2>1 DEF Array!BatchDone
<1>5. CASE Array!Skip
  BY <1>5, BecomesTallied DEF Array!Skip
<1>6. CASE Array!Execute
  BY <1>6, BecomesTallied DEF Array!Execute
<1>7. CASE Array!Throw
  <2>1. Array!Size' = Array!Size
    BY <1>7 DEF Array!Throw, Array!Size
  <2> QED BY <1>7, <2>1 DEF Array!Throw
<1>8. CASE Array!Arrive \/ UNCHANGED Array!vars
  <2>1. Array!Size' = Array!Size
    BY <1>8 DEF Array!Arrive, Array!vars, Array!Size
  <2> QED BY <1>8, <2>1 DEF Array!Arrive, Array!vars
<1> QED BY <1>1, <1>2, <1>3, <1>4, <1>5, <1>6, <1>7, <1>8 DEF Array!Next, Array!Step

\* The loops over chunks, batches and events of execute() leave no event out
\* and take none twice, for any length of the array and of its chunks, whatever
\* exists already or is written meanwhile, and whatever the shift yields.
THEOREM EveryEventOnce ==
  ASSUME MaxSize \in Nat, Batch \in Nat, Limit \in Nat
  PROVE  Array!Spec => []Array!EachOnce
<1>1. Array!Init => Tallied
  BY ArrayInit
<1>2. Tallied /\ [Array!Next]_(Array!vars) => Tallied'
  BY ArrayStep
<1>3. Tallied => Array!EachOnce
  <2> SUFFICES ASSUME Tallied PROVE Array!EachOnce
    OBVIOUS
  <2> USE DEF Tallied, Behind
  <2>1. {n \in 1..Array!Size : result[n] # "none"} = 1..evaluated
    OBVIOUS
  <2> QED BY <2>1 DEF Array!EachOnce
<1> QED BY <1>1, <1>2, <1>3, PTL DEF Array!Spec

\* The bits that are set say of their events that they exist.
Marked == /\ asked <= Batch
          /\ pc = "each" => \A b \in existing :
               b \in 0..asked - 1 /\ pdus[it - size + batch + b + 1] \in present

\* Below the sign of an int the shift yields the bit that is asked for.
LEMMA ShiftedFits ==
  ASSUME Width \in Nat, NEW n \in Nat, n < Width - 1
  PROVE  Array!Shifted(n) = {{n}}
BY DEF Array!Shifted

LEMMA MarkedStep ==
  ASSUME Batch \in Nat, Limit \in Nat, Tallied, Marked, [Array!Next]_(Array!vars)
  PROVE  Marked'
<1> USE DEF Tallied, Behind, Marked
<1>1. pdus' = pdus
  BY DEF Array!Next, Array!Step, Array!Chunk, Array!ChunkDone, Array!NextBatch, Array!BatchDone,
         Array!Skip, Array!Execute, Array!Throw, Array!Arrive, Array!Becomes, Array!vars
<1>2. present \subseteq present'
  BY DEF Array!Next, Array!Step, Array!Chunk, Array!ChunkDone, Array!NextBatch, Array!BatchDone,
         Array!Skip, Array!Execute, Array!Throw, Array!Arrive, Array!Becomes, Array!vars
<1>3. CASE Array!NextBatch
  <2>1. Batch \in Nat /\ size - batch \in Nat /\ Limit - evaluated \in Int
    BY <1>3 DEF Array!NextBatch
  <2>2. asked' \in Nat /\ asked' <= Batch
    BY <1>3, <2>1, Collected DEF Array!NextBatch
  <2>3. \A b \in existing' : b \in 0..asked' - 1 /\ pdus[it - size + batch + b + 1] \in present
    <3>1. \A b \in Array!Query(asked') :
            b \in 0..asked' - 1 /\ pdus[it - size + (batch + b) + 1] \in present
      BY DEF Array!Query, Array!Place
    <3>2. existing' \subseteq Array!Query(asked')
      BY <1>3 DEF Array!NextBatch
    <3>3. \A b \in 0..asked' - 1 : it - size + (batch + b) + 1 = it - size + batch + b + 1
      BY <2>2
    <3> QED BY <3>1, <3>2, <3>3
  <2>4. UNCHANGED <<it, size, batch, present>>
    BY <1>3 DEF Array!NextBatch
  <2> QED BY <1>1, <2>2, <2>3, <2>4
<1>4. CASE ~Array!NextBatch
  <2>1. \/ pc' # "each" /\ asked' = asked
        \/ UNCHANGED <<it, size, batch, asked, existing, pc>>
    BY <1>4 DEF Array!Next, Array!Step, Array!Chunk, Array!ChunkDone, Array!BatchDone,
       Array!Skip, Array!Execute, Array!Throw, Array!Arrive, Array!Becomes, Array!vars
  <2> QED BY <1>1, <1>2, <2>1
<1> QED BY <1>3, <1>4

\* What execute() passes over is in the database, wherever an int has the bit of
\* its place in the batch, for chunks and ints of any length: of the code's batches
\* of 64 these are the first 31, and the run vm_shift shows the others.
THEOREM SkippedExist ==
  ASSUME MaxSize \in Nat, Batch \in Nat, Limit \in Nat, Width \in Nat
  PROVE  Array!Spec => Array!SkippedWithinInt
<1>1. Array!Init => Tallied /\ Marked
  <2> SUFFICES ASSUME Array!Init PROVE Tallied /\ Marked
    OBVIOUS
  <2>1. Tallied
    BY ArrayInit
  <2> QED BY <2>1 DEF Array!Init, Marked
<1>2. Tallied /\ Marked /\ [Array!Next]_(Array!vars) => (Tallied /\ Marked)'
  BY ArrayStep, MarkedStep
<1>3. Tallied /\ Marked =>
        [Array!Skip /\ nth < Width - 1 => pdus[Array!Place(batch + nth)] \in present]_(Array!vars)
  <2> SUFFICES ASSUME Tallied, Marked, Array!Skip, nth < Width - 1
               PROVE  pdus[Array!Place(batch + nth)] \in present
    OBVIOUS
  <2>1. nth \in Nat
    BY DEF Tallied, Behind, Array!Skip
  <2>2. nth \in existing /\ pc = "each"
    BY <2>1, ShiftedFits DEF Array!Skip
  <2>3. it - size + (batch + nth) + 1 = it - size + batch + nth + 1
    BY <2>1 DEF Tallied, Behind
  <2> QED BY <2>2, <2>3 DEF Marked, Array!Place
<1> QED BY <1>1, <1>2, <1>3, PTL DEF Array!Spec, Array!SkippedWithinInt
=============================================================================

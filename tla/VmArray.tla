------------------------------ MODULE VmArray -------------------------------
(***************************************************************************)
(* ircd::m::vm::execute() of an array of events (src/matrix/vm_execute.cc):*)
(* the loops that take a JSON array in chunks, ask the database which      *)
(* events of a batch exist already, and evaluate the rest one by one while *)
(* other contexts write events too.  The evaluation of one event is module *)
(* Vm; here it is its result.                                              *)
(***************************************************************************)
EXTENDS Integers, Sequences, FiniteSetsExt

CONSTANTS Event,
          MaxSize,   \* bound on the array
          Batch,     \* events asked for at once, and of a chunk: 64 in the code
          Width,     \* bits of an int: 32 in the code
          Limit,     \* opts::limit
          Replays    \* opts::replays

\* They are numbers with 0 < Width < Batch, but for MaxSize and Limit, which may
\* be 0; Replays is TRUE or FALSE.

VARIABLES pdus,        \* the array
          it,          \* how many events were taken from it
          size,        \* events.size() of the chunk, and its loops:
          i, j, k,
          existing,    \* the bits that are set
          evaluated,   \* eval::evaluated
          result,      \* what became of each event of the array
          pc,
          present      \* the events in the database

vars == <<pdus, it, size, i, j, k, existing, evaluated, result, pc, present>>

Result == {"none", "skipped", "accept", "exists", "fault"}

Size == Len(pdus)

Init == /\ \E n \in 1..MaxSize : pdus \in [1..n -> Event]
        /\ present \in SUBSET Event
        /\ it = 0 /\ size = 0 /\ i = 0 /\ j = 0 /\ k = 0
        /\ existing = {} /\ evaluated = 0
        /\ result = [n \in 1..Size |-> "none"]
        /\ pc = "chunk"

\* The place in the array of the chunk's event number n.
Place(n) == it - size + n + 1

\* The bits m::exists() sets for the batch of n events.
Query(n) == {b \in 0..n - 1 : pdus[Place(i + b)] \in present}

\* The bits of `1 << n`, an int, once it is converted to 64 bits: the sign is
\* extended, and a shift by the width or more is undefined; builds mask the
\* distance, yield zero, or shift 64 bits.
Shifted(n) == LET int(b) == IF b = Width - 1 THEN b..Batch - 1 ELSE {b}
              IN  IF n < Width THEN {int(n)} ELSE {int(n % Width), {}, {n}}

-----------------------------------------------------------------------------
\* execute(eval, json::array): the next chunk, after the last is done.
Chunk == /\ pc = "chunk"
         /\ size' = Min({Batch, Size - it})
         /\ it' = it + size'
         /\ i' = 0
         /\ pc' = "batch"
         /\ UNCHANGED <<pdus, j, k, existing, evaluated, result, present>>

ChunkDone == /\ pc = "batch" /\ i >= size
             /\ pc' = IF it < Size /\ evaluated < Limit THEN "chunk" ELSE "done"
             /\ UNCHANGED <<pdus, it, size, i, j, k, existing, evaluated, result, present>>

\* execute(eval, vector_view): the ids of a batch are collected and asked for.
NextBatch == /\ pc = "batch" /\ i < size
             /\ j' = Max({Min({Batch, size - i, Limit - evaluated}), 0})
             /\ existing' = IF Replays THEN {} ELSE Query(j')
             /\ k' = 0
             /\ pc' = "each"
             /\ UNCHANGED <<pdus, it, size, i, evaluated, result, present>>

BatchDone == /\ pc = "each" /\ k = j
             /\ i' = i + j
             /\ pc' = "batch"
             /\ UNCHANGED <<pdus, it, size, j, k, existing, evaluated, result, present>>

Becomes(r) == /\ result' = [result EXCEPT ![Place(i + k)] = r]
              /\ k' = k + 1 /\ evaluated' = evaluated + 1
              /\ UNCHANGED <<pdus, it, size, i, j, existing>>

\* The bit says that the event exists.
Skip == /\ pc = "each" /\ k < j
        /\ \E bits \in Shifted(k) : existing \cap bits # {}
        /\ Becomes("skipped")
        /\ UNCHANGED <<pc, present>>

\* execute(eval, event) returns: ACCEPT, EXISTS when another context was faster,
\* or a fault that is not thrown.
Execute == /\ pc = "each" /\ k < j
           /\ \E bits \in Shifted(k) : existing \cap bits = {}
           /\ LET id == pdus[Place(i + k)]
              IN  \/ /\ Replays \/ id \notin present
                     /\ Becomes("accept")
                     /\ present' = present \cup {id}
                  \/ /\ ~Replays /\ id \in present
                     /\ Becomes("exists")
                     /\ UNCHANGED present
                  \/ Becomes("fault") /\ UNCHANGED present
           /\ UNCHANGED pc

\* It throws, and so does the whole evaluation.
Throw == /\ pc = "each" /\ k < j
         /\ \E bits \in Shifted(k) : existing \cap bits = {}
         /\ pc' = "thrown"
         /\ UNCHANGED <<pdus, it, size, i, j, k, existing, evaluated, result, present>>

\* Another context writes an event.
Arrive == /\ \E id \in Event \ present : present' = present \cup {id}
          /\ pc \notin {"done", "thrown"}
          /\ UNCHANGED <<pdus, it, size, i, j, k, existing, evaluated, result, pc>>

Step == Chunk \/ ChunkDone \/ NextBatch \/ BatchDone \/ Skip \/ Execute \/ Throw
Next == Step \/ Arrive

Spec == Init /\ [][Next]_vars

(* Fairness.  The evaluation of an event ends (module Vm), and the loops    *)
(* around it go on.                                                         *)
FairSpec == Spec /\ WF_vars(Step)

-----------------------------------------------------------------------------
(* Properties.                                                             *)

TypeOK == /\ it \in 0..Size /\ size \in 0..Batch /\ size <= it
          /\ i \in 0..size /\ j \in 0..Batch /\ k \in 0..j
          /\ existing \subseteq 0..Batch - 1
          /\ evaluated \in 0..Size
          /\ result \in [1..Size -> Result]
          /\ pc \in {"chunk", "batch", "each", "done", "thrown"}
          /\ present \subseteq Event

\* "Indicating which events already exist": an event that is passed over is in
\* the database, wherever it stood in the array and whoever wrote meanwhile.
OnlyExistingSkipped == \A n \in 1..Size : result[n] = "skipped" => pdus[n] \in present

\* ... which holds of the events of a batch whose bits an int has: the place in
\* the batch, the bit and the place in the array agree, over all chunks.
SkippedWithinInt ==
  [][Skip /\ k < Width - 1 => pdus[Place(i + k)] \in present]_vars

\* Over chunks and batches no event is left out and none taken twice: those that
\* were handled are the first ones, each was counted, and all are if the limit
\* allows.
EachOnce == /\ {n \in 1..Size : result[n] # "none"} = 1..evaluated
            /\ pc = "done" /\ evaluated < Limit => evaluated = Size

\* An evaluation of an array ends.
Returns == <>(pc \in {"done", "thrown"})
=============================================================================

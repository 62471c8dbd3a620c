------------------------------ MODULE Response ------------------------------
(***************************************************************************)
(* How a link of ircd::server takes the answers of its committed tags off  *)
(* the connection (link::process_read() and the tag::read_*() and          *)
(* tag::make_read_*() below it, src/ircd/server.cc).  The remote's bytes   *)
(* arrive in pieces.  A piece goes to where the first tag wants its next   *)
(* bytes: its head buffer, its content buffer, a chunk; head and chunk     *)
(* heads are searched for in those buffers, so that the piece may end with *)
(* something else than it began with, to be moved to where it belongs.     *)
(*                                                                         *)
(* A terminator of headers or of a line is one byte here, and a head and   *)
(* the size of a chunk one byte before it.                                 *)
(***************************************************************************)
EXTENDS Integers, SequencesExt

CONSTANTS Messages,   \* sequences of the messages the remote may answer with
          Kinds,      \* the buffers the clients may give
          HeadMax,    \* size(in.head)
          ContentMax, \* size(in.content), of its own
          ScratchMin  \* what a chunk head needs of the head buffer

ASSUME ResponseAssumption ==
  /\ Kinds \subseteq {"fixed", "contiguous", "dynamic"}
  /\ HeadMax \in Nat \ {0} /\ ContentMax \in Nat \ {0} /\ ScratchMin \in Nat

VARIABLES messages,  \* what the remote answers: <<its framing, its sizes>>
          wire,      \* the bytes that were not read yet
          t,         \* the first tag: its buffers and tag::state
          pc,        \* what has to be done with `view`
          view,      \* the bytes that were read, or what is left of them
          underrun,  \* the overrun of the tag before
          got,       \* what became of the requests before the first tag's
          strained   \* history: the first answer to come as Strains says, or 0

vars == <<messages, wire, t, pc, view, underrun, got, strained>>

-----------------------------------------------------------------------------
(* The messages and their bytes.                                           *)

Lesser(a, b) == IF a < b THEN a ELSE b

Eol == <<"eol", "head">>
ChunkEnd == <<"eol", "data">>
Data(m, c, n) == [i \in 1..n |-> <<"data", <<m, c, i>>>>]
Chunk(m, c, n) == <<<<"size", n>>, Eol>> \o Data(m, c, n) \o <<ChunkEnd>>

\* The contents of the messages, and their texts.
Bodies == [ms \in Messages |-> [m \in DOMAIN ms |->
             LET sizes == ms[m][2]
             IN  FlattenSeq([c \in DOMAIN sizes |-> Data(m, c, sizes[c])])]]

Texts == [ms \in Messages |-> [m \in DOMAIN ms |->
            LET sizes == ms[m][2]
            IN  <<<<"head", m>>, <<"end", m>>>> \o
                IF ms[m][1] = "length" THEN Bodies[ms][m]
                ELSE FlattenSeq([c \in DOMAIN sizes |-> Chunk(m, c, sizes[c])])
                       \o Chunk(m, 0, 0)]]

Body(m) == Bodies[messages][m]

\* Memory.
Junk(n) == [i \in 1..n |-> <<"junk", 0>>]
Put(mem, at, bytes) ==
  LET new == bytes
      n == Len(mem)
  IN  IF at >= n THEN mem
      ELSE SubSeq(SubSeq(mem, 1, at) \o new \o SubSeq(mem, at + Len(new) + 1, n), 1, n)
Find(bytes, k) == SelectInSeq(bytes, LAMBDA b : b[1] = k)

-----------------------------------------------------------------------------
(* Tags.                                                                   *)

\* tag::state::chunk_length while a chunk head is read
HeadMode == -1

NewTag(kind, truncate) ==
  [kind |-> kind, truncate |-> truncate, canceled |-> FALSE, status |-> FALSE,
   head |-> Junk(HeadMax),
   content |-> IF kind = "fixed" THEN Junk(ContentMax) ELSE <<>>,
   chunks |-> <<>>, head_read |-> 0, content_read |-> 0, content_length |-> 0,
   chunk_read |-> 0, chunk_length |-> 0]

Dynamic == t.kind = "dynamic"
Scratch == SubSeq(t.head, t.head_read + 1, HeadMax)

\* tag::content_overflow()
Overflow(u) == IF u.content_length > Len(u.content)
               THEN u.content_length - Len(u.content) ELSE 0

\* A client that lets its answer be truncated has given a buffer for it.
NewTags == {NewTag(kind, FALSE) : kind \in Kinds}
             \cup {NewTag(kind, TRUE) : kind \in Kinds \ {"dynamic"}}

Init == /\ messages \in Messages
        /\ wire = FlattenSeq(Texts[messages])
        /\ t \in NewTags
        /\ pc = "wait" /\ view = <<>> /\ underrun = <<>> /\ got = <<>>
        /\ strained = 0

-----------------------------------------------------------------------------
(* How a read may end.                                                     *)

\* The tag wants more: link::process_read() returns to wait_readable().
Await(u) == /\ t' = u /\ pc' = "wait"
            /\ view' = <<>> /\ underrun' = <<>>
            /\ UNCHANGED got

\* An exception: the link is reset.
Throw == /\ got' = Append(got, <<"error", <<>>>>)
         /\ pc' = "closed"
         /\ UNCHANGED <<t, view, underrun>>

\* The tag is done and leaves the queue; `over` is for the next one.
Finish(u, how, over) ==
  /\ got' = Append(got, IF u.canceled THEN <<"canceled", <<>>>>
                        ELSE IF how = "error" THEN <<"error", <<>>>>
                        ELSE <<how, u.content>>)
  /\ view' = <<>> /\ underrun' = over
  /\ IF Len(got') = Len(messages)
     THEN pc' = "done" /\ UNCHANGED t
     ELSE /\ pc' = "next"
          /\ t' \in NewTags

-----------------------------------------------------------------------------
(* Reading from the socket.                                                *)

\* tag::make_read_buffer(): the room for what comes next.
Room == IF ~t.status THEN HeadMax - t.head_read
        ELSE IF t.chunk_length = HeadMode /\ Dynamic
        THEN IF Len(Scratch) - t.chunk_read < ScratchMin THEN 0
             ELSE Len(Scratch) - t.chunk_read
        ELSE IF t.chunk_length = HeadMode THEN Len(t.content) - t.content_read
        ELSE IF t.chunk_length # 0 /\ Dynamic
        THEN Len(Last(t.chunks)) - t.chunk_read
        ELSE IF t.chunk_length # 0
        THEN Lesser(Len(t.content), t.content_length) - t.content_read
        ELSE IF t.content_read >= Len(t.content)
        THEN t.content_length - t.content_read
        ELSE Len(t.content) - t.content_read

\* ... and what is written there.
Received(bytes) ==
  IF ~t.status THEN [t EXCEPT !.head = Put(@, t.head_read, bytes)]
  ELSE IF t.chunk_length = HeadMode /\ Dynamic
  THEN [t EXCEPT !.head = Put(@, t.head_read + t.chunk_read, bytes)]
  ELSE IF t.chunk_length # 0 /\ Dynamic
  THEN [t EXCEPT !.chunks[Len(t.chunks)] = Put(@, t.chunk_read, bytes)]
  ELSE [t EXCEPT !.content = Put(@, t.content_read, bytes)]

\* tag::read_buffer()
Phase == IF ~t.status THEN "head"
         ELSE IF t.chunk_length = HeadMode THEN "chunk"
         ELSE IF t.chunk_length # 0 THEN "data" ELSE "content"

\* link::process_read_next(): the underrun comes first in the buffer, but is
\* not in the view.
Read == /\ pc \in {"wait", "next"}
        /\ IF Len(underrun) >= Room
           THEN Throw /\ UNCHANGED wire
           ELSE \E n \in 1..Lesser(Len(wire), Room - Len(underrun)) :
                  LET bytes == SubSeq(wire, 1, n)
                  IN  /\ wire' = SubSeq(wire, n + 1, Len(wire))
                      /\ t' = Received(underrun \o bytes)
                      /\ view' = bytes /\ pc' = Phase
                      /\ underrun' = <<>>
                      /\ UNCHANGED got
        /\ UNCHANGED messages

\* Nothing has come for the next tag yet.
ReadNothing == /\ pc = "next" /\ Await(t)
               /\ UNCHANGED <<messages, wire>>

-----------------------------------------------------------------------------
(* Head and content.                                                       *)

\* tag::read_content() of n bytes, with content_completed()
TakeContent(u, n, over) ==
  LET all == Len(u.content) + Overflow(u)
      v == [u EXCEPT !.content_read = @ + Lesser(n, all - @)]
  IN  IF v.content_read = all
      THEN Finish(v, IF Overflow(v) > 0 /\ ~v.truncate THEN "error"
                     ELSE IF Overflow(v) > 0 THEN "part" ELSE "value", over)
      ELSE Await(v)

ReadContent == /\ pc = "content" /\ TakeContent(t, Len(view), <<>>)
               /\ UNCHANGED <<messages, wire>>

\* The head ends: content that came with it goes to the content buffer, which
\* is the rest of the head buffer, the client's, or one of the right size.
HeadDone(end, beyond) ==
  LET m == t.head[1][2]
      length == Len(Body(m))
      u == [t EXCEPT !.status = TRUE, !.head_read = end,
                     !.content = IF t.kind = "contiguous"
                                 THEN SubSeq(t.head, end + 1, HeadMax) ELSE @]
      fit == SubSeq(beyond, 1, Lesser(Len(beyond), Len(u.content)))
      n == Lesser(length, Len(beyond))
  IN  IF messages[m][1] = "chunked"
      THEN /\ t' = [u EXCEPT !.chunk_length = HeadMode, !.content = Put(@, 0, fit)]
           /\ view' = (IF Dynamic THEN beyond ELSE fit)
           /\ pc' = "chunk" /\ UNCHANGED <<underrun, got>>
      ELSE LET room == IF Dynamic THEN Junk(length)
                       ELSE SubSeq(u.content, 1, Lesser(length, Len(u.content)))
           IN  TakeContent([u EXCEPT !.content_length = length,
                                     !.content = Put(room, 0, SubSeq(beyond, 1, n))],
                           n, SubSeq(beyond, n + 1, Len(beyond)))

\* tag::read_head()
ReadHead ==
  LET candidate == SubSeq(t.head, 1, t.head_read + Len(view))
      end == Find(candidate, "end")
  IN  /\ pc = "head"
      /\ IF end = 0 THEN Await([t EXCEPT !.head_read = @ + Len(view)])
         ELSE IF end # 2 \/ t.head[1][1] # "head" THEN Throw
         ELSE HeadDone(end, SubSeq(candidate, end + 1, Len(candidate)))
      /\ UNCHANGED <<messages, wire>>

-----------------------------------------------------------------------------
(* Chunks.                                                                 *)

\* The grammar takes an empty line for the head of an empty chunk.
Bad == -1
ChunkSize(line) == IF line[1][1] = "eol" THEN 0
                   ELSE IF line[1][1] = "size" /\ line[2][1] = "eol"
                   THEN line[1][2] ELSE Bad


\* A bug: the end of line is taken back from what was read, not from its end.
CompletedLong(u) ==
  [u EXCEPT !.content_read = @ - 1, !.chunk_length = @ - 1, !.chunk_read = @ - 1]

\* chunk_content_completed(), chunk_dynamic_content_completed(): the end of
\* line after the chunk is hidden again.
Completed(u) ==
  LET v == [u EXCEPT !.content_length = @ - 1, !.content_read = @ - 1,
                     !.chunk_length = @ - 1, !.chunk_read = @ - 1]
      d == [v EXCEPT !.chunks = Append(Front(@), Front(Last(@)))]
  IN  IF ~Dynamic THEN v ELSE d

\* tag::read_chunk_content(), read_chunk_dynamic_content() of n bytes
TakeChunk(u, n, over) ==
  LET rest == IF Dynamic THEN Len(Last(u.chunks)) - u.chunk_read
              ELSE u.content_length - u.content_read
      v == [u EXCEPT !.chunk_read = @ + Lesser(n, rest),
                     !.content_read = @ + Lesser(n, rest)]
      w == Completed(v)
  IN  IF (IF Dynamic THEN v.chunk_read # v.chunk_length
                     ELSE v.content_read # v.content_length)
      THEN Await(v)
      ELSE IF w.chunk_length = 0
      THEN Finish([w EXCEPT !.content = IF Dynamic THEN FlattenSeq(w.chunks)
                                        ELSE SubSeq(@, 1, w.content_length)],
                  "value", over)
      ELSE IF over = <<>>
      THEN Await([w EXCEPT !.chunk_length = HeadMode, !.chunk_read = 0])
      ELSE /\ t' = [w EXCEPT !.chunk_length = HeadMode, !.chunk_read = 0]
           /\ view' = over /\ pc' = "nested"
           /\ UNCHANGED <<underrun, got>>

ReadChunk == /\ pc = "data" /\ TakeChunk(t, Len(view), <<>>)
             /\ UNCHANGED <<messages, wire>>

\* tag::read_chunk_head(): in the content buffer, after the chunks before it,
\* where it is overwritten by its chunk.
ReadChunkHead ==
  LET base == t.content_length
      candidate == SubSeq(t.content, base + 1, t.content_read + Len(view))
      end == Find(candidate, "eol")
      beyond == SubSeq(candidate, end + 1, Len(candidate))
      size == ChunkSize(candidate)
      n == Lesser(size + 1, Len(beyond))
  IN  /\ pc \in {"chunk", "nested"} /\ ~Dynamic
      /\ IF end = 0 THEN Await([t EXCEPT !.content_read = @ + Len(view)])
         ELSE IF size = Bad THEN Throw
         ELSE TakeChunk([t EXCEPT !.content = Put(@, base, beyond),
                                  !.content_length = base + size + 1,
                                  !.content_read = base,
                                  !.chunk_length = size + 1],
                        n, SubSeq(beyond, n + 1, Len(beyond)))
      /\ UNCHANGED <<messages, wire>>

\* tag::read_chunk_dynamic_head(): in the scratch space behind the head, or
\* where the chunk before it ended.
ReadDynamicHead ==
  LET candidate == IF pc = "nested" THEN view
                   ELSE SubSeq(Scratch, 1, t.chunk_read + Len(view))
      end == Find(candidate, "eol")
      more == Lesser(end, Len(view))
      used == t.chunk_read + more
      beyond == SubSeq(candidate, used + 1, used + Len(view) - more)
      size == ChunkSize(candidate)
      n == Lesser(size + 1, Len(beyond))
  IN  /\ pc \in {"chunk", "nested"} /\ Dynamic
      /\ IF end = 0 THEN Await([t EXCEPT !.chunk_read = @ + Len(view),
                                         !.content_read = @ + Len(view)])
         ELSE IF size = Bad THEN Throw
         ELSE TakeChunk([t EXCEPT !.chunks = Append(@, Put(Junk(size + 1), 0, beyond)),
                                  !.content_length = @ + size + 1,
                                  !.content_read = @ + more - used,
                                  !.chunk_length = size + 1,
                                  !.chunk_read = 0],
                        n, SubSeq(beyond, n + 1, Len(beyond)))
      /\ UNCHANGED <<messages, wire>>

-----------------------------------------------------------------------------
(* Cancellation.                                                           *)


\* server::cancel() puts a dummy's buffers in the place of the client's, with
\* what the heads need of these.  The last tag's link is closed instead.
Cancel ==
  LET of(mem, from, to) == Put(Junk(Len(mem)), from, SubSeq(mem, from + 1, to))
  IN  /\ pc = "wait" /\ ~t.canceled /\ Len(got) + 1 < Len(messages)
      /\ t' = [t EXCEPT
                !.canceled = TRUE,
                !.kind = IF t.status \/ Dynamic THEN @ ELSE "fixed",
                !.head = IF ~t.status THEN of(@, 0, t.head_read)
                         ELSE of(@, t.head_read, t.head_read +
                                   IF t.chunk_length # 0 /\ Dynamic
                                   THEN Lesser(t.chunk_read, Len(Scratch)) ELSE 0),
                !.content = IF ~t.status /\ t.kind = "contiguous" THEN Junk(HeadMax)
                            ELSE IF t.chunk_length = HeadMode /\ ~Dynamic
                            THEN of(@, t.content_length, t.content_read)
                            ELSE Junk(Len(@))]
      /\ UNCHANGED <<messages, wire, pc, view, underrun, got>>

-----------------------------------------------------------------------------
Progress == \/ Read \/ ReadNothing \/ ReadHead \/ ReadContent
            \/ ReadChunk \/ ReadChunkHead \/ ReadDynamicHead

\* The three ways for an answer to come that the code does not get right,
\* whatever else happens: its beginning in the record the answer before it ended
\* in (the overrun is copied, but not counted), a chunk's end and the next head
\* in one record when chunks share a buffer (the end of line is hidden before the
\* next head is searched for), and a chunk's head in two records when they do
\* not (what came before is counted twice).
Strains ==
  IF pc' = "next" /\ underrun' # <<>> THEN Len(got') + 1
  ELSE IF pc' = "nested" /\ ~Dynamic THEN Len(got) + 1
  ELSE IF pc \in {"chunk", "nested"} /\ pc' = "wait" /\ Dynamic /\ t'.chunk_read > 0
  THEN Len(got) + 1 ELSE 0

Record == strained' = IF strained = 0 THEN Strains ELSE strained

Handle == Progress /\ Record

Next == Handle \/ (Cancel /\ UNCHANGED strained)

Spec == Init /\ [][Next]_vars

\* The handlers go on, and what the remote sends arrives.
FairSpec == Spec /\ WF_vars(Handle)

-----------------------------------------------------------------------------
(* Properties.                                                             *)

\* "demultiplexed so all responses will be received": a client whose request
\* returns has all of its own answer and nothing else, or the beginning of it
\* if that is what it asks for.
Own(m) == /\ got[m][1] = "value" => got[m][2] = Body(m)
          /\ got[m][1] = "part" => IsStrictPrefix(got[m][2], Body(m))

Demultiplexed == \A m \in DOMAIN got : Own(m)


\* Whatever comes, counters stay within what they count: a head, a chunk or its
\* head never runs out of its buffer, and content that does is discarded.
InBounds ==
  /\ t.head_read <= HeadMax
  /\ ~t.status => t.content_read = 0 /\ t.chunk_length = 0
  /\ t.status /\ t.chunk_length = 0 => t.content_read <= t.content_length
  /\ t.chunk_length = HeadMode /\ Dynamic => t.chunk_read <= Len(Scratch)
  /\ t.chunk_length = HeadMode /\ ~Dynamic =>
       t.content_length <= t.content_read /\ t.content_read <= Len(t.content)
  /\ t.chunk_length > 0 /\ Dynamic =>
       t.chunk_read <= t.chunk_length /\ Len(Last(t.chunks)) = t.chunk_length
  /\ t.chunk_length > 0 /\ ~Dynamic =>
       t.content_read <= t.content_length /\ t.content_read <= Len(t.content)

\* Every request ends, and with an answer if its buffers are large enough.
Ample(m) == Len(Texts[messages][m]) <= Lesser(HeadMax, ContentMax)
Ended == /\ pc \in {"done", "closed"}
         /\ \A m \in DOMAIN got : Ample(m) => got[m][1] \notin {"error", "part"}

\* "Data pointed to by overrun will remain intact between iterations".
Intact == <>Ended

\* So it is unless an answer is strained.
Returns == <>(Ended \/ strained # 0)
=============================================================================

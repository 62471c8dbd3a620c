------------------------------- MODULE Server -------------------------------
(***************************************************************************)
(* ircd::server (src/ircd/server.cc): requests to one remote host.  A peer *)
(* has a few links, each a connection with a queue of tags; a tag carries  *)
(* one request through the pipeline of its link, and the answers come back *)
(* in the order of the requests, with nothing in them that tells whose they*)
(* are.  Requests are canceled at any time by their owners.                *)
(*                                                                         *)
(* The handlers of the event loop do not yield: a handler is a run of steps*)
(* taken from `work`, the calls it has still to make, and nothing else     *)
(* happens before `work` is empty.  Since a request has one tag during its *)
(* life, that tag is written as the request, also after the request's owner*)
(* is gone.                                                                *)
(***************************************************************************)
EXTENDS Integers, FiniteSets, List

CONSTANTS Request,     \* the requests made of this remote
          Link,        \* names for links
          LinkMin,     \* ircd.server.peer.link.min
          CommitMax,   \* ircd.server.link.tag_commit_max
          Pieces,      \* in how many pieces a request can be written
          MaxFaults,   \* bound on the failures of the network
          MayQuit      \* whether the daemon may quit

\* ircd.server.peer.link.max is the number of names.
LinkMax == Cardinality(Link)

ASSUME ServerAssumption == /\ LinkMin \in Nat
                           /\ CommitMax \in Nat \ {0}
                           /\ Pieces \in Nat \ {0}
                           /\ MaxFaults \in Nat /\ MayQuit \in BOOLEAN
                           /\ IsFiniteSet(Link) /\ Link # {}

VARIABLES future,      \* the future of each request
          holder,      \* tag::request: the "user"'s, a "dummy" or "none"
          unwritten,   \* the pieces of the request still to write
          links,       \* peer::links
          queue,       \* link::queue
          socket,      \* link::socket
          opInit, opFini, opWrite, opRead,   \* the links with that flag
          opResolve, fini,                   \* peer::op_resolve, op_fini
          remote, expired,                   \* peer::remote, remote_expires
          err,         \* peer::e, and if error_clear_default has passed
          closing,     \* a deferred peer::close() is in the event loop
          wire,        \* what the remote has of each connection to answer
          inbox,       \* the answers not read yet: <<request, status>>
          answered,    \* the requests the remote has answered
          faults,      \* failures of the network so far
          run,         \* ircd::run::level, then how far ~init() has come
          work         \* the calls the current handler has still to make

requests == <<future, holder, unwritten>>
conns == <<links, queue, socket>>
ops == <<opInit, opFini, opWrite, opRead>>
peer == <<opResolve, fini, remote, expired, err, closing, run>>
net == <<wire, inbox, answered>>
vars == <<requests, conns, ops, peer, net, faults, work>>

Init == /\ future = [r \in Request |-> "none"]
        /\ holder = [r \in Request |-> "none"]
        /\ unwritten = [r \in Request |-> Pieces]
        /\ links = <<>>
        /\ queue = [l \in Link |-> <<>>]
        /\ socket = [l \in Link |-> "none"]
        /\ opInit = {} /\ opFini = {} /\ opWrite = {} /\ opRead = {}
        /\ opResolve = FALSE /\ fini = FALSE
        /\ remote = FALSE /\ expired = TRUE
        /\ err = "none" /\ closing = FALSE
        /\ wire = [l \in Link |-> <<>>]
        /\ inbox = [l \in Link |-> <<>>]
        /\ answered = {} /\ faults = 0
        /\ run = "RUN" /\ work = <<>>

-----------------------------------------------------------------------------
(* Tags, links and the peer.                                               *)

Call(op, x) == [op |-> op, of |-> x]

\* The handler goes on with these calls, before those it had still to make.
Then(calls) == work' = calls \o Tail(work)
Calling(op) == work # <<>> /\ Head(work).op = op
Idle == work = <<>>

\* tag::committed(): something of it was revealed to the remote.
Committed(r) == unwritten[r] < Pieces
TagCommitted(l) == Cardinality({i \in DOMAIN queue[l] : Committed(queue[l][i])})

\* The first of the tags in q that is one of S.
First(q, S) == q[CHOOSE i \in DOMAIN q :
                   q[i] \in S /\ \A j \in DOMAIN q : q[j] \in S => i <= j]

\* tag::abandoned(): its promise was kept.
Abandoned(r) == future[r] # "pending"
Canceled(r) == holder[r] = "dummy"

Linked == ToSet(links)
Ready(l) == socket[l] = "open" /\ l \notin opInit \cup opFini

\* peer::err_check() of a request, and the level of ircd::run.
Refusing == fini \/ run # "RUN" \/ err = "fresh"

\* tag::set_exception() of tags that then leave their queue.
FailTags(S) ==
  /\ future' = [r \in Request |-> IF r \in S /\ ~Abandoned(r)
                                  THEN "error" ELSE future[r]]
  /\ holder' = [r \in Request |-> IF r \in S THEN "none" ELSE holder[r]]
  /\ UNCHANGED unwritten

\* link::wait_writable(), link::wait_readable() of an open link.
WaitWritable(l) == opWrite' = opWrite \cup ({l} \ opFini)
WaitReadable(l) == opRead' = opRead \cup ({l} \ opFini)

\* peer::handle_finished(): in RUN a peer in error is kept, to remember that.
FinishPeer(links_, resolving, ending) ==
  run' = IF links_ = <<>> /\ ~resolving /\ ending /\ (run # "RUN" \/ err = "none")
         THEN "CLOSED" ELSE run

\* peer::handle_finished(link)
Delete(l) ==
  /\ links' = Unlink(links, l)
  /\ queue' = [queue EXCEPT ![l] = <<>>]
  /\ socket' = [socket EXCEPT ![l] = "none"]
  /\ opFini' = opFini \ {l}
  /\ FinishPeer(links', opResolve, fini)

\* A bug: the link is deleted while handlers of it are still to be called.
ShutNow(l, pending) == Delete(l)

\* The socket of l is closed: whoever of handle_close() and the handlers of
\* what was pending comes last deletes the link.
Shut(l, pending) == IF pending
                    THEN /\ socket' = [socket EXCEPT ![l] = "closed"]
                         /\ UNCHANGED <<links, queue, opFini, run>>
                    ELSE Delete(l)

Pending(l) == l \in opInit \cup opWrite \cup opRead

\* What was on its way is lost with the connection.
Sever(l) == /\ wire' = [wire EXCEPT ![l] = <<>>]
            /\ inbox' = [inbox EXCEPT ![l] = <<>>]

\* link::open().  A link that is closed, but not deleted since a wait of its
\* old socket has still to end, is given a socket nobody will close.
Opening(S) ==
  /\ socket' = [l \in Link |-> IF l \notin S THEN socket[l]
                               ELSE IF l \in opFini THEN "stuck" ELSE "connecting"]
  /\ opInit' = opInit \cup S

-----------------------------------------------------------------------------
(* Submitting a request, or submitting it again.                           *)

\* server::submit(), where get() starts the resolution of a remote.
Submit(r) ==
  /\ Idle /\ run = "RUN" /\ future[r] = "none"
  /\ opResolve' = (opResolve \/ (expired /\ ~fini))
  /\ work' = <<Call("submit", r)>>
  /\ UNCHANGED <<requests, conns, ops, fini, remote, expired, err, closing, run,
                 net, faults>>

\* The exception reaches the caller, or the future if there is one.
Refuse(r) == IF future[r] = "none"
             THEN /\ future' = [future EXCEPT ![r] = "refused"]
                  /\ UNCHANGED <<holder, unwritten>>
             ELSE FailTags({r})

\* peer::submit(), where err_check() clears an error of long ago.
SubmitCall(r) ==
  LET clear == err = "old" /\ ~fini
  IN  /\ Head(work) = Call("submit", r)
      /\ err' = IF clear THEN "none" ELSE err
      /\ fini' = (fini \/ (clear /\ run # "RUN"))
      /\ IF Refusing
         THEN Refuse(r) /\ Then(<<>>)
         ELSE /\ Then([i \in DOMAIN links |-> Call("cleanup", links[i])]
                        \o <<Call("place", r)>>)
              /\ UNCHANGED requests
      /\ UNCHANGED <<conns, ops, opResolve, remote, expired, closing, run, net,
                     faults>>

\* link::cleanup_canceled(), one turn of its loop for each tag it removes.
CleanupCall(l) ==
  LET gone == {r \in ToSet(queue[l]) : ~Committed(r) /\ holder[r] = "none"}
      dead == {r \in ToSet(queue[l]) : Committed(r) /\ Canceled(r)}
  IN  /\ Head(work) = Call("cleanup", l)
      /\ IF gone # {}
         THEN \E r \in gone : /\ queue' = [queue EXCEPT ![l] = Unlink(@, r)]
                             /\ Then(<<Call("cleanup", l)>>)
         ELSE /\ Then(IF dead # {} /\ Cardinality(dead) = TagCommitted(l)
                      THEN <<Call("close", l)>> ELSE <<>>)
              /\ UNCHANGED queue
      /\ UNCHANGED <<requests, links, socket, ops, peer, net, faults>>

\* peer::link_get(): a link with room in its pipe is preferred to the others,
\* among which the bytes they have to move decide.
Room(l) == TagCommitted(l) < CommitMax
Best == LET cands == Linked \ opFini
        IN  {l \in cands : Room(l) \/ \A k \in cands : ~Room(k)}

MayAdd == Len(links) < LinkMax

\* A bug: a link that rests is not told of the request.
ProdNever(l) == UNCHANGED opWrite

Prod(l) == IF Ready(l) THEN WaitWritable(l) ELSE UNCHANGED opWrite

\* link::submit()
Enqueue(r, l) ==
  /\ queue' = [queue EXCEPT ![l] = Append(@, r)]
  /\ future' = [future EXCEPT ![r] = "pending"]
  /\ holder' = [holder EXCEPT ![r] = "user"]
  /\ UNCHANGED unwritten

PlaceCall(r) ==
  /\ Head(work) = Call("place", r) /\ Then(<<>>)
  /\ \/ \E l \in Best :
          /\ Room(l) \/ ~MayAdd
          /\ Enqueue(r, l)
          /\ Prod(l)
          /\ UNCHANGED <<links, socket, opInit>>
     \/ /\ MayAdd /\ \A l \in Best : ~Room(l)
        /\ \E l \in Link \ Linked :
             /\ links' = Append(links, l)
             /\ Opening(IF remote THEN {l} ELSE {})
             /\ Enqueue(r, l)
        /\ UNCHANGED opWrite
     \/ /\ ~MayAdd /\ Best = {}
        /\ Refuse(r)
        /\ UNCHANGED <<conns, opInit, opWrite>>
  /\ UNCHANGED <<opFini, opRead, peer, net, faults>>

-----------------------------------------------------------------------------
(* Closing: link::close() with SSL_NOTIFY or RST.                          *)

\* A bug: the queue of the link is not dispersed.
CloseUndispersed(l, op, how) ==
  /\ Head(work) = Call(op, l)
  /\ opFini' = opFini \cup {l}
  /\ Then(IF l \in opFini THEN <<>> ELSE <<Call(how, l)>>)
  /\ UNCHANGED <<requests, conns, opInit, opWrite, opRead, peer, net, faults>>

CloseCall(l, op, how) ==
  /\ Head(work) = Call(op, l)
  /\ opFini' = opFini \cup {l}
  /\ Then(IF l \in opFini THEN <<>>
          ELSE <<Call("disperse", l), Call(how, l)>>)
  /\ UNCHANGED <<requests, conns, opInit, opWrite, opRead, peer, net, faults>>

\* A bug: also what was committed is submitted again.
WaitingAny(r) == holder[r] # "none"

Waiting(r) == holder[r] # "none" /\ ~Committed(r)

\* peer::disperse(): what is not committed is submitted again, in order,
\* then the rest fails.
DisperseCall(l) ==
  /\ Head(work) = Call("disperse", l)
  /\ LET waiting == {r \in Request : Waiting(r)}
     IN  IF waiting \cap ToSet(queue[l]) # {}
         THEN LET next == First(queue[l], waiting)
              IN  /\ queue' = [queue EXCEPT ![l] = Unlink(@, next)]
                  /\ Then(<<Call("submit", next), Call("disperse", l)>>)
                  /\ UNCHANGED requests
         ELSE /\ FailTags(ToSet(queue[l]))
              /\ queue' = [queue EXCEPT ![l] = <<>>]
              /\ Then(<<>>)
  /\ UNCHANGED <<links, socket, ops, peer, net, faults>>

\* net::close(): with RST, without a connection or without a socket the link
\* is told at once.
AbortCall(l) == /\ Head(work) = Call("abort", l) /\ Then(<<>>)
                /\ Shut(l, socket[l] # "none" /\ Pending(l))
                /\ Sever(l)
                /\ UNCHANGED <<requests, opInit, opWrite, opRead, opResolve, fini,
                               remote, expired, err, closing, answered, faults>>

NotifyCall(l) == /\ Head(work) = Call("notify", l)
                 /\ Sever(l)
                 /\ IF socket[l] \in {"connecting", "open"}
                    THEN /\ socket' = [socket EXCEPT ![l] = "closing"]
                         /\ Then(<<>>)
                         /\ UNCHANGED <<links, queue>>
                    ELSE Then(<<Call("abort", l)>>) /\ UNCHANGED conns
                 /\ UNCHANGED <<requests, ops, peer, answered, faults>>

\* peer::close()
ClosePeerCall ==
  /\ Calling("closepeer")
  /\ fini' = TRUE
  /\ Then(IF fini THEN <<>>
          ELSE [i \in DOMAIN links |-> Call("close", links[i])]
                 \o <<Call("finished", "peer")>>)
  /\ UNCHANGED <<requests, conns, ops, opResolve, remote, expired, err, closing,
                 run, net, faults>>

FinishedCall == /\ Calling("finished") /\ Then(<<>>)
                /\ FinishPeer(links, opResolve, fini)
                /\ UNCHANGED <<requests, conns, ops, opResolve, fini, remote,
                               expired, err, closing, net, faults>>

-----------------------------------------------------------------------------
(* The writer's loop and the reader's.  An error of the connection makes   *)
(* either end with peer::handle_error(): the committed tags fail, which    *)
(* link::close() would do too, and the link is closed.                     *)

Fault == faults < MaxFaults /\ faults' = faults + 1

\* A bug: the writer also starts on what was canceled.
DiscardedNever(r) == FALSE

\* What is canceled before anything of it was written is never written.
Discarded(r) == holder[r] = "none"

\* What process_write() can leave of a tag: a writable socket takes something.
Remaining(r) == 0..(unwritten[r] - 1)

\* link::handle_writable_success(), at the first tag that is not written.
WriteCall(l) ==
  LET left == {r \in ToSet(queue[l]) : unwritten[r] > 0}
      next == First(queue[l], left)
  IN /\ Head(work) = Call("write", l)
     /\ IF \E r \in ToSet(queue[l]) : Committed(r) /\ Canceled(r) /\ TagCommitted(l) = 1
        THEN Then(<<Call("close", l)>>) /\ UNCHANGED <<unwritten, queue, opWrite, opRead, wire>>
        ELSE IF left = {} \/ (~Room(l) /\ next # Head(queue[l]))
        THEN Then(<<>>) /\ UNCHANGED <<unwritten, queue, opWrite, opRead, wire>>
        ELSE IF Discarded(next)
        THEN /\ queue' = [queue EXCEPT ![l] = Unlink(@, next)]
             /\ Then(<<Call("write", l)>>)
             /\ UNCHANGED <<unwritten, opWrite, opRead, wire>>
        ELSE /\ IF TagCommitted(l) = 0 THEN WaitReadable(l) ELSE UNCHANGED opRead
             /\ wire' = IF Committed(next) THEN wire
                        ELSE [wire EXCEPT ![l] = Append(@, next)]
             /\ \E n \in Remaining(next) :
                  /\ unwritten' = [unwritten EXCEPT ![next] = n]
                  /\ IF n = 0
                     THEN Then(<<Call("write", l)>>) /\ UNCHANGED opWrite
                     ELSE Then(<<>>) /\ WaitWritable(l)
             /\ UNCHANGED queue
     /\ UNCHANGED <<future, holder, links, socket, opInit, opFini, peer, inbox,
                    answered, faults>>

WriteFails(l) ==
  /\ Head(work) = Call("write", l) /\ Fault
  /\ Then(<<Call("reset", l)>>)
  /\ UNCHANGED <<requests, conns, ops, peer, net>>

\* link::discard_read(): with nothing to discard it throws an end of file.
DiscardRead(l) ==
  /\ inbox' = [inbox EXCEPT ![l] = <<>>]
  /\ IF inbox[l] # <<>>
     THEN Then(<<>>) /\ WaitReadable(l)
     ELSE Then(<<Call("reset", l)>>) /\ UNCHANGED opRead

\* link::process_read() ends with one tag, told by the order of the answers.
TagDone(l) ==
  LET r == Head(queue[l])
      status == Head(inbox[l])[2]
  IN  /\ future' = IF Abandoned(r) THEN future ELSE [future EXCEPT ![r] = "value"]
      /\ holder' = [holder EXCEPT ![r] = "none"]
      /\ queue' = [queue EXCEPT ![l] = Tail(@)]
      /\ inbox' = [inbox EXCEPT ![l] = Tail(@)]
      /\ err' = IF status = "unavailable" THEN "fresh" ELSE err
      /\ closing' = (closing \/ err' # "none")
      /\ IF err' = "none" /\ ~Room(l) THEN WaitWritable(l) ELSE UNCHANGED opWrite
      /\ Then(<<Call(IF queue'[l] = <<>> THEN "linkdone" ELSE "read", l)>>)
      /\ UNCHANGED <<unwritten, opRead>>

\* link::handle_readable_success()
ReadCall(l) ==
  LET r == Head(queue[l])
  IN /\ Head(work) = Call("read", l)
     /\ IF queue[l] = <<>> \/ ~Committed(r)
        THEN DiscardRead(l) /\ UNCHANGED <<requests, queue, opWrite, err, closing>>
        ELSE IF Canceled(r) /\ TagCommitted(l) = 1
        THEN /\ Then(<<Call("close", l)>>)
             /\ UNCHANGED <<requests, queue, opWrite, opRead, err, closing, inbox>>
        ELSE IF inbox[l] = <<>>
        THEN /\ WaitReadable(l) /\ Then(<<>>)
             /\ UNCHANGED <<requests, queue, opWrite, err, closing, inbox>>
        ELSE TagDone(l)
     /\ UNCHANGED <<links, socket, opInit, opFini, opResolve, fini, remote, expired,
                    run, wire, answered, faults>>

\* The answer is not understood, or larger than the buffers given for it.
ReadFails(l) ==
  /\ Head(work) = Call("read", l) /\ inbox[l] # <<>> /\ Fault
  /\ Then(<<Call("reset", l)>>)
  /\ UNCHANGED <<requests, conns, ops, peer, net>>

\* peer::handle_link_done()
LinkDoneCall(l) ==
  /\ Head(work) = Call("linkdone", l)
  /\ IF Cardinality({k \in Linked : Ready(k)}) > LinkMin
     THEN Then(<<Call("close", l)>>) /\ UNCHANGED opRead
     ELSE Then(<<>>) /\ WaitReadable(l)
  /\ UNCHANGED <<requests, conns, opInit, opFini, opWrite, peer, net, faults>>

LinkCall(l) == \/ CleanupCall(l) \/ DisperseCall(l) \/ AbortCall(l) \/ NotifyCall(l)
               \/ CloseCall(l, "close", "notify") \/ CloseCall(l, "reset", "abort")
               \/ WriteCall(l) \/ WriteFails(l)
               \/ ReadCall(l) \/ ReadFails(l) \/ LinkDoneCall(l)

-----------------------------------------------------------------------------
(* The handlers the event loop calls.                                      *)

Start(calls) == Idle /\ work' = calls

\* link::handle_open()
Opened(l) ==
  /\ Start(<<>>) /\ l \in opInit
  /\ opInit' = opInit \ {l}
  /\ socket' = [socket EXCEPT ![l] = IF @ = "connecting" THEN "open" ELSE @]
  /\ WaitWritable(l)
  /\ UNCHANGED <<requests, links, queue, opFini, opRead, peer, net, faults>>

\* link::handle_open() with an error: the attempt failed, or was canceled by
\* the link's close.
OpenFails(l) ==
  /\ l \in opInit /\ opInit' = opInit \ {l}
  /\ IF socket[l] \in {"connecting", "stuck"} THEN Fault ELSE UNCHANGED faults
  /\ err' = IF l = Head(links) THEN "fresh" ELSE err
  /\ IF fini /\ socket[l] = "closed" /\ l \in opFini
     THEN Start(<<>>) /\ Shut(l, l \in opWrite \cup opRead)
     ELSE /\ Start(IF fini THEN <<>> ELSE <<Call("reset", l)>>)
          /\ socket' = [socket EXCEPT ![l] = IF @ = "connecting" THEN "closed" ELSE @]
          /\ UNCHANGED <<links, queue, opFini, run>>
  /\ UNCHANGED <<requests, opWrite, opRead, opResolve, fini, remote, expired,
                 closing, net>>

\* link::handle_close() after the notification or its timeout; the waits it
\* canceled are served before, or after.
HandleClose(l) ==
  /\ socket[l] = "closing" /\ l \notin opInit
  /\ Start(<<>>)
  /\ Shut(l, Pending(l))
  /\ UNCHANGED <<requests, opInit, opWrite, opRead, opResolve, fini, remote,
                 expired, err, closing, net, faults>>

\* link::handle_writable(), handle_readable() of a wait the close canceled.
Stopped(l) ==
  /\ Start(<<>>)
  /\ socket[l] \in {"closing", "closed"}
  /\ \E W \in {opWrite, opWrite \ {l}}, R \in {opRead, opRead \ {l}} :
       /\ (W = opWrite) # (R = opRead)
       /\ opWrite' = W /\ opRead' = R
       /\ IF socket[l] = "closed" /\ l \in opFini
          THEN Shut(l, l \in opInit \cup W \cup R)
          ELSE UNCHANGED <<conns, opFini, run>>
  /\ UNCHANGED <<requests, opInit, opResolve, fini, remote, expired, err, closing,
                 net, faults>>

\* link::handle_writable()
Writable(l) ==
  /\ l \in opWrite /\ socket[l] = "open"
  /\ opWrite' = opWrite \ {l}
  /\ \/ Start(<<Call("write", l)>>) /\ UNCHANGED faults
     \/ Start(<<Call("reset", l)>>) /\ Fault
  /\ UNCHANGED <<requests, conns, opInit, opFini, opRead, peer, net>>

\* link::handle_readable(): an answer, or the end of the connection.
Readable(l) ==
  /\ l \in opRead /\ socket[l] = "open"
  /\ opRead' = opRead \ {l}
  /\ \/ inbox[l] # <<>> /\ Start(<<Call("read", l)>>) /\ UNCHANGED faults
     \/ Start(<<Call("reset", l)>>) /\ Fault
  /\ UNCHANGED <<requests, conns, opInit, opFini, opWrite, peer, net>>

\* A bug: the peer that is closing is left before it is found finished.
ResolvedInVain == UNCHANGED run

\* handle_resolve_*() looks whether only the resolution was waited for.
ResolvedLast == FinishPeer(links, FALSE, TRUE)

\* The last of peer::handle_resolve_SRV(), _AAAA() and _A().
Resolved ==
  /\ opResolve /\ opResolve' = FALSE
  /\ fini' = (fini \/ run # "RUN")
  /\ IF fini'
     THEN /\ Start(<<>>)
          /\ ResolvedLast
          /\ UNCHANGED <<socket, opInit, remote, expired, err, faults>>
     ELSE /\ \/ /\ remote' = TRUE /\ expired' = FALSE
                /\ Opening({l \in Linked \ opInit : socket[l] \in {"none", "closed"}})
                /\ Start(<<>>)
                /\ UNCHANGED <<err, faults>>
             \/ /\ Start(<<Call("closepeer", "peer")>>) /\ Fault
                /\ err' = "fresh"
                /\ UNCHANGED <<remote, expired, socket, opInit>>
          /\ UNCHANGED run
  /\ UNCHANGED <<requests, links, queue, opFini, opWrite, opRead, closing, net>>

\* The peer::close() that handle_tag_done() left to the event loop.
DeferredClose ==
  /\ closing /\ closing' = FALSE
  /\ Start(<<Call("closepeer", "peer")>>)
  /\ UNCHANGED <<requests, conns, ops, opResolve, fini, remote, expired, err, run,
                 net, faults>>

-----------------------------------------------------------------------------
(* The owners of the requests, the remote, time and the operator.          *)

\* server::cancel(): a tag that is committed is left a dummy in the place of
\* its request, to take the answer.
Cancel(r) ==
  /\ Start(<<>>) /\ future[r] = "pending"
  /\ future' = [future EXCEPT ![r] = "canceled"]
  /\ holder' = [holder EXCEPT ![r] = IF Committed(r) THEN "dummy" ELSE "none"]
  /\ UNCHANGED <<unwritten, conns, ops, peer, net, faults>>

\* The remote answers what it has received as a whole, in order.
Answer(l) ==
  /\ Start(<<>>) /\ socket[l] = "open" /\ wire[l] # <<>>
  /\ unwritten[Head(wire[l])] = 0
  /\ wire' = [wire EXCEPT ![l] = Tail(@)]
  /\ \E status \in {"ok", "unavailable"} :
       inbox' = [inbox EXCEPT ![l] = Append(@, <<Head(wire[l]), status>>)]
  /\ answered' = answered \cup {Head(wire[l])}
  /\ UNCHANGED <<requests, conns, ops, peer, faults>>

\* peer::remote_expires, and error_clear_default after the error.
RemoteExpires == /\ Start(<<>>) /\ remote /\ ~expired /\ expired' = TRUE
                 /\ UNCHANGED <<requests, conns, ops, opResolve, fini, remote, err,
                                closing, run, net, faults>>

ErrorExpires == /\ Start(<<>>) /\ err = "fresh" /\ err' = "old"
                /\ UNCHANGED <<requests, conns, ops, opResolve, fini, remote,
                               expired, closing, run, net, faults>>

\* server::errclear(), when the remote is heard of or from the console.
ErrorClear == /\ Start(<<>>) /\ run = "RUN" /\ (err # "none" \/ fini)
              /\ err' = "none" /\ fini' = FALSE
              /\ UNCHANGED <<requests, conns, ops, opResolve, remote, expired,
                             closing, run, net, faults>>

\* server::init::~init(): the level changes, interrupt(), then close().
Quit == /\ Start(<<>>) /\ MayQuit /\ run = "RUN" /\ run' = "QUIT"
        /\ UNCHANGED <<requests, conns, ops, opResolve, fini, remote, expired, err,
                       closing, net, faults>>

Interrupt == /\ Start(<<>>) /\ run = "QUIT" /\ run' = "INTERRUPTED"
             /\ FailTags(UNION {ToSet(queue[l]) : l \in Linked})
             /\ queue' = [l \in Link |-> <<>>]
             /\ UNCHANGED <<links, socket, ops, opResolve, fini, remote, expired,
                            err, closing, net, faults>>

Close == /\ Start(<<Call("closepeer", "peer")>>)
         /\ run = "INTERRUPTED" /\ run' = "CLOSING"
         /\ UNCHANGED <<requests, conns, ops, opResolve, fini, remote, expired, err,
                        closing, net, faults>>

-----------------------------------------------------------------------------
RequestCall(r) == SubmitCall(r) \/ PlaceCall(r)
Calls == /\ ~Idle
         /\ \/ \E r \in Request : RequestCall(r)
            \/ \E l \in Link : LinkCall(l)
            \/ ClosePeerCall \/ FinishedCall

Handlers(l) == \/ Opened(l) \/ OpenFails(l) \/ HandleClose(l) \/ Stopped(l)
               \/ Writable(l) \/ Readable(l) \/ Answer(l)

Next == \/ Calls
        \/ \E l \in Link : Handlers(l)
        \/ Resolved \/ DeferredClose
        \/ \E r \in Request : Submit(r) \/ Cancel(r)
        \/ RemoteExpires \/ ErrorExpires \/ ErrorClear
        \/ Quit \/ Interrupt \/ Close

Spec == Init /\ [][Next]_vars

\* What goes on by itself: the event loop serves what is ready, the remote
\* answers, attempts to connect and to resolve end, and a daemon that quits
\* goes on to close.  As what can happen is bounded, it is enough that this
\* never stops, in whatever order it is served and with no failure's help.
Progress == /\ \/ Calls
               \/ \E l \in Link : Handlers(l)
               \/ Resolved \/ DeferredClose \/ Interrupt \/ Close
            /\ faults' = faults

FairSpec == Spec /\ WF_vars(Progress)

-----------------------------------------------------------------------------
(* Properties.                                                             *)

\* The type of the state.
TypeOK ==
  /\ future \in [Request -> {"none", "pending", "value", "error", "canceled",
                             "refused"}]
  /\ holder \in [Request -> {"none", "user", "dummy"}]
  /\ unwritten \in [Request -> 0..Pieces]
  /\ links \in Seq(Link)
  /\ queue \in [Link -> Seq(Request)]
  /\ socket \in [Link -> {"none", "connecting", "open", "closing", "closed",
                       "stuck"}]
  /\ opInit \subseteq Link /\ opFini \subseteq Link
  /\ opWrite \subseteq Link /\ opRead \subseteq Link
  /\ opResolve \in BOOLEAN /\ fini \in BOOLEAN
  /\ remote \in BOOLEAN /\ expired \in BOOLEAN
  /\ err \in {"none", "fresh", "old"} /\ closing \in BOOLEAN
  /\ run \in {"RUN", "QUIT", "INTERRUPTED", "CLOSING", "CLOSED"}
  /\ wire \in [Link -> Seq(Request)]
  /\ inbox \in [Link -> Seq(Request \X {"ok", "unavailable"})]
  /\ answered \subseteq Request /\ faults \in 0..MaxFaults

\* The requests the answers of link l, read or not sent yet, are for.
Due(l) == [i \in DOMAIN inbox[l] |-> inbox[l][i][1]] \o wire[l]

\* The tags of an open link that are committed come first in its queue, are
\* no more than its pipe takes (server.cc:2644) and are, in order, the ones
\* whose answers will arrive: nothing in an answer tells whose it is.
Pipeline ==
  \A l \in Linked : socket[l] = "open" /\ run \in {"RUN", "QUIT"} =>
    /\ l \notin opFini => Due(l) = SubSeq(queue[l], 1, TagCommitted(l))
    /\ \A i \in DOMAIN queue[l] : Committed(queue[l][i]) <=> i <= TagCommitted(l)
    /\ TagCommitted(l) <= CommitMax

\* Whoever waits for a request waits for a tag in the queue of one link, or
\* for one a handler is about to put there: none is lost when a link is
\* closed, dispersed or deleted.
Kept(r) == \/ \E i \in DOMAIN work : work[i] \in {Call("submit", r), Call("place", r)}
           \/ Cardinality({l \in Linked : r \in ToSet(queue[l])}) = 1
NoneForgotten == \A r \in Request : future[r] = "pending" => Kept(r)

\* A handler that will be called is one of a link that exists, and a link
\* that was closed is still to be told by one.
HandlersLive ==
  Idle => /\ opInit \cup opFini \cup opWrite \cup opRead \subseteq Linked
          /\ \A l \in opFini : \/ socket[l] \in {"closing", "stuck"}
                             \/ l \in opInit \cup opWrite \cup opRead

E == INSTANCE Exchange WITH call <- future,
                            revealed <- {r \in Request : Committed(r)}

\* The peer, its links and their queues implement the exchange.
ImplementsExchange == E!Spec

\* Every request is settled.
Settled == \A r \in Request : future[r] = "pending" ~> future[r] # "pending"

\* server::wait() ends: the peer is deleted, with all of its links, once
\* server::close() comes to a peer that is open, whatever it is doing then.
Quits == (Calling("closepeer") /\ run = "CLOSING" /\ ~fini
            /\ \A l \in Link : socket[l] # "stuck") ~> run = "CLOSED"

\* As Quits, for every peer (server.cc:2007: wait for all links to close).
Ends == run = "CLOSING" ~> run = "CLOSED"

\* A request the peer turns away comes within one TTL of its error.
TurnedAway == [][\A r \in Request :
                   future[r] = "none" /\ future'[r] = "refused" /\ run = "RUN"
                     => err = "fresh" \/ Calling("place")]_vars
=============================================================================

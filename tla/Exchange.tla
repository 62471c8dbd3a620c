------------------------------ MODULE Exchange ------------------------------
(***************************************************************************)
(* What a client of another server is promised for its requests, without   *)
(* connections, queues or tags: a request is revealed to the remote at most*)
(* once and never after the client gave it up, the client receives the     *)
(* remote's answer to this very request or an error, and each request is   *)
(* settled once.                                                           *)
(***************************************************************************)
CONSTANTS Request    \* the requests of the clients

VARIABLES call,      \* what has become of each request
          revealed,  \* the requests the remote has received something of
          answered   \* the requests the remote has answered

vars == <<call, revealed, answered>>

Init == /\ call = [r \in Request |-> "none"]
        /\ revealed = {}
        /\ answered = {}

Becomes(S, was, is) ==
  /\ \A r \in S : call[r] = was
  /\ call' = [r \in Request |-> IF r \in S THEN is ELSE call[r]]

Submit(r) == Becomes({r}, "none", "pending") /\ UNCHANGED <<revealed, answered>>
Refuse(r) == Becomes({r}, "none", "refused") /\ UNCHANGED <<revealed, answered>>
Cancel(r) == Becomes({r}, "pending", "canceled") /\ UNCHANGED <<revealed, answered>>
Fail(S) == Becomes(S, "pending", "error") /\ UNCHANGED <<revealed, answered>>

Reveal(r) == /\ call[r] = "pending" /\ r \notin revealed
             /\ revealed' = revealed \cup {r}
             /\ UNCHANGED <<call, answered>>

Answer(r) == /\ r \in revealed \ answered
             /\ answered' = answered \cup {r}
             /\ UNCHANGED <<call, revealed>>

Return(r) == /\ r \in answered
             /\ Becomes({r}, "pending", "value")
             /\ UNCHANGED <<revealed, answered>>

Next == \/ \E r \in Request : \/ Submit(r) \/ Refuse(r) \/ Cancel(r)
                              \/ Reveal(r) \/ Answer(r) \/ Return(r)
        \/ \E S \in SUBSET Request : Fail(S)

Spec == Init /\ [][Next]_vars
=============================================================================

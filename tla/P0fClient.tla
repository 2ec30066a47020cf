------------------------------ MODULE P0fClient ------------------------------
(***************************************************************************)
(* plugins/connect.p0f.js: one client of the p0f daemon serves the         *)
(* lookup_rdns hooks of all connections.  The daemon answers in the order  *)
(* of the queries, which the client pairs with receive_queue.  When its    *)
(* socket fails the client calls back the waiting queries and tries to     *)
(* connect again from an interval.                                         *)
(***************************************************************************)
EXTENDS Naturals, Sequences

CONSTANTS
    Queries,     \* connections whose address is asked for
    MaxErrors    \* bound: failures of the socket

VARIABLES
    client,      \* the fields of P0FClient
    sock,        \* "connecting", "up", "down"
    daemon,      \* what was written and p0f has not answered
    hook,        \* per query: "idle", "waiting", "over" (timed out), or the answer
    errors

vars == <<client, sock, daemon, hook, errors>>

Init ==
    /\ client = [send_queue |-> <<>>, receive_queue |-> <<>>, connected |-> FALSE,
                 ready |-> FALSE, has_error |-> FALSE, restart_interval |-> FALSE,
                 ticking |-> FALSE]
    /\ sock = "connecting"
    /\ daemon = <<>>
    /\ hook = [q \in Queries |-> "idle"]
    /\ errors = 0

-----------------------------------------------------------------------------
(* A callback: the hook's answer, unless its time is over.                 *)
Called(h, q, result) == IF h[q] = "waiting" THEN [h EXCEPT ![q] = result] ELSE h

CalledAll(h, queue, result) ==
    [q \in Queries |->
        IF h[q] = "waiting" /\ \E i \in DOMAIN queue : queue[i] = q THEN result ELSE h[q]]

\* A loop "for i < queue.length" that shifts the queue goes over the first
\* half of it.
Looped(queue) == SubSeq(queue, 1, (Len(queue) + 1) \div 2)
Kept(queue) == SubSeq(queue, (Len(queue) + 1) \div 2 + 1, Len(queue))

\* How many of the queries to send are written, up to the one that fills
\* the socket.
Written(queue) == {w \in (0..Len(Looped(queue))) \X BOOLEAN :
                     IF w[2] THEN w[1] > 0 ELSE w[1] = Len(Looped(queue))}

\* process_send_queue, after the client became ready: c is the client then.
process_send_queue(c) ==
    \E w \in Written(c.send_queue) :
        LET sent == SubSeq(c.send_queue, 1, w[1]) IN
        /\ client' = [c EXCEPT !.send_queue = SubSeq(@, w[1] + 1, Len(@)),
                               !.receive_queue = @ \o sent, !.ready = ~w[2]]
        /\ daemon' = daemon \o sent

-----------------------------------------------------------------------------
(* hook_lookup_rdns and query.                                             *)
query(q) ==
    /\ hook[q] = "idle"
    /\ UNCHANGED <<sock, errors>>
    /\ \/ /\ client.has_error \/ ~client.connected
          /\ hook' = [hook EXCEPT ![q] = "error"]
          /\ UNCHANGED <<client, daemon>>
       \/ /\ ~client.has_error /\ client.connected
          /\ hook' = [hook EXCEPT ![q] = "waiting"]
          /\ \/ /\ ~client.ready
                /\ client' = [client EXCEPT !.send_queue = Append(@, q)]
                /\ UNCHANGED daemon
             \/ /\ client.ready
                /\ \E room \in BOOLEAN :
                     client' = [client EXCEPT !.receive_queue = Append(@, q), !.ready = room]
                /\ daemon' = Append(daemon, q)

\* 'connect': the interval is cleared, but restart_interval is kept.
connect ==
    /\ sock = "connecting"
    /\ sock' = "up"
    /\ process_send_queue([client EXCEPT !.connected = TRUE, !.has_error = FALSE, !.ready = TRUE,
                                         !.ticking = FALSE])
    /\ UNCHANGED <<hook, errors>>

drain ==
    /\ sock = "up" /\ ~client.ready
    /\ process_send_queue([client EXCEPT !.ready = TRUE])
    /\ UNCHANGED <<sock, hook, errors>>

\* p0f answers the oldest query; decode_response takes the head of the
\* receive queue for the one it belongs to.
decode_response ==
    /\ sock = "up" /\ daemon # <<>>
    /\ daemon' = Tail(daemon)
    /\ client' = [client EXCEPT !.receive_queue = Tail(@)]
    /\ hook' = Called(hook, Head(client.receive_queue),
                      IF Head(client.receive_queue) = Head(daemon) THEN "own" ELSE "other's")
    /\ UNCHANGED <<sock, errors>>

\* 'error': both queues are gone through, by loops that shift them.
error ==
    /\ sock \in {"up", "connecting"}
    /\ errors < MaxErrors
    /\ errors' = errors + 1
    /\ sock' = "down"
    /\ daemon' = <<>>
    /\ client' = [client EXCEPT !.connected = FALSE, !.has_error = TRUE,
                                !.restart_interval = TRUE, !.ticking = @ \/ ~client.restart_interval,
                                !.receive_queue = Kept(@), !.send_queue = Kept(@)]
    /\ hook' = CalledAll(CalledAll(hook, Looped(client.receive_queue), "error"),
                         Looped(client.send_queue), "error")

\* The interval: another socket.  (A socket that neither connects nor fails
\* within the five seconds is left out.)
restart ==
    /\ client.ticking /\ sock = "down"
    /\ sock' = "connecting"
    /\ UNCHANGED <<client, daemon, hook, errors>>

\* The hook times out in plugins.js.
hook_timeout(q) ==
    /\ hook[q] = "waiting"
    /\ hook' = [hook EXCEPT ![q] = "over"]
    /\ UNCHANGED <<client, sock, daemon, errors>>

Next ==
    \/ \E q \in Queries : query(q) \/ hook_timeout(q)
    \/ connect \/ drain \/ decode_response \/ error \/ restart

Spec == Init /\ [][Next]_vars

-----------------------------------------------------------------------------
(* Properties.                                                             *)

\* connect.p0f.js:53, "Clear the receive queue": after a failure nothing is
\* left in it, so that the answers of the next socket are paired anew.
ReceiveQueueCleared == client.has_error => client.receive_queue = <<>>

\* What a hook is answered is about its own client.
OwnFingerprint == \A q \in Queries : hook[q] # "other's"

\* The receive queue holds what p0f is working on, so that every answer goes
\* to the connection it is about: no step breaks that but a failure of the
\* socket with more than one query waiting, which leaves half of them behind.
InStep == client.receive_queue = daemon

KeptInStep == InStep /\ ~(errors' > errors /\ Len(client.receive_queue) > 1) => InStep'

StaysInStep == [][KeptInStep]_vars

\* A hook that is waiting is in one of the queues: none is forgotten.
WaitingIsQueued ==
    \A q \in Queries : hook[q] = "waiting" =>
        \E i \in DOMAIN (client.receive_queue \o client.send_queue) :
            (client.receive_queue \o client.send_queue)[i] = q
=============================================================================

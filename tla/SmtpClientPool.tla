--------------------------- MODULE SmtpClientPool ---------------------------
(***************************************************************************)
(* The pool of SMTP clients (smtp_client.js) and the two queue plugins     *)
(* that use it: smtp_forward opens a client for the queue hook and sends   *)
(* the stored message, smtp_proxy holds one from MAIL to the last dot.     *)
(*                                                                         *)
(* A client knows one command at a time and takes whatever line arrives    *)
(* for its reply.  The model keeps, beside that belief, the commands the   *)
(* upstream server has not answered (wire) and the envelope it has really  *)
(* accepted (srv), so that the two can be compared.  One action is one     *)
(* event of the process: a line from upstream, a lost socket, a command of *)
(* a sender or his leaving.  The listeners it runs synchronously are       *)
(* operators on the whole state, a record w; so are the commands a sender  *)
(* has pipelined, which run inside the call that answers his hook.         *)
(***************************************************************************)
EXTENDS Integers, Sequences, FiniteSets, SequencesExt, Functions

CONSTANTS
    Conns,        \* connections of senders
    Plugins,      \* subset of {"forward", "forward_each", "proxy"}
    NRcpt,        \* recipients of a message smtp_forward sends
    MaxAsked,     \* bound: RCPT commands of a message smtp_proxy passes on
    MaxTx,        \* bound: messages of all connections
    Sizes,        \* what max_connections may be
    MaxClients,   \* bound: clients that anything refers to
    Caps,         \* what EHLO may offer, subset of {"XCLIENT", "STARTTLS"}
    Auth,         \* config.auth is set
    SlowUpstream  \* a hook may time out while a client works for it

ASSUME PoolAssumption ==
    /\ Plugins \subseteq {"forward", "forward_each", "proxy"}
    /\ {NRcpt, MaxAsked, MaxTx, MaxClients} \union Sizes \subseteq Nat \ {0}
    /\ Caps \subseteq {"XCLIENT", "STARTTLS"}
    /\ {Auth, SlowUpstream} \subseteq BOOLEAN

VARIABLES
    plugin,    \* the plugin of this server
    max_connections,  \* of its pool
    cl,        \* the clients
    wire,      \* per client: commands upstream has not answered
    srv,       \* per client: the envelope upstream has accepted
    cn,        \* the connections
    avail,     \* the pool's idle clients
    waiting,   \* acquire calls the pool has not served
    accepted   \* messages upstream has answered 250 to

vars == <<plugin, max_connections, cl, wire, srv, cn, avail, waiting, accepted>>

Ids == 1..MaxClients
NoTx == <<>>                      \* a transaction is <<connection, number>>
Idle == [from |-> NoTx, rcpts |-> {}, body |-> FALSE]

NewClient == [state |-> "none", command |-> "greeting", connected |-> FALSE,
              authenticated |-> FALSE, xclient |-> FALSE, tls |-> FALSE,
              ears |-> <<>>, pool |-> FALSE, next |-> <<>>,
              txn |-> NoTx, rcpt |-> 0, slipped |-> FALSE]

NewConn == [up |-> TRUE, tx |-> 0, count |-> 0, asked |-> 0, rcpts |-> 0, data |-> FALSE,
            hook |-> "", calls |-> 0, note |-> 0, told |-> {}]

Init ==
    /\ plugin \in Plugins /\ max_connections \in Sizes
    /\ cl = [k \in Ids |-> NewClient]
    /\ wire = [k \in Ids |-> <<>>]
    /\ srv = [k \in Ids |-> Idle]
    /\ cn = [c \in Conns |-> NewConn]
    /\ avail = <<>>
    /\ waiting = <<>>
    /\ accepted = {}

\* During an event, ahead is what the sender whose hook it answers has sent
\* beyond it.
Now == [cl |-> cl, wire |-> wire, srv |-> srv, cn |-> cn, avail |-> avail,
        waiting |-> waiting, accepted |-> accepted, ahead |-> <<>>]
With(x) == [Now EXCEPT !.ahead = x]

\* The name of a destroyed client is free once nothing refers to it.
Garbage(w, k) ==
    /\ w.cl[k].state = "DESTROYED"
    /\ \A c \in Conns : /\ w.cn[c].note # k
                        /\ w.cn[c].hook = "" \/ w.cl[k].next # <<c, w.cn[c].calls>>
Collected(w) == [w EXCEPT !.cl = [k \in Ids |-> IF Garbage(w, k) THEN NewClient ELSE w.cl[k]]]

Become(w) ==
    /\ cl' = Collected(w).cl /\ wire' = w.wire /\ srv' = w.srv /\ cn' = w.cn
    /\ avail' = w.avail /\ waiting' = w.waiting /\ accepted' = w.accepted
    /\ UNCHANGED <<plugin, max_connections>>

Tx(w, c) == IF w.cn[c].tx = 0 THEN NoTx ELSE <<c, w.cn[c].tx>>

-----------------------------------------------------------------------------
(***************************************************************************)
(* SMTPClient: writing, releasing, destroying.                             *)
(***************************************************************************)

BodyOpen(w, k) == w.wire[k] # <<>> /\ ~Last(w.wire[k]).whole
AwaitsBody(w, k) == w.srv[k].body /\ w.wire[k] = <<>>

\* While the message is being written, a command becomes part of its text.
send_command(w, k, cmd, tx) ==
    LET u == [w EXCEPT !.cl[k].command = cmd] IN
    CASE w.cl[k].state = "DESTROYED" -> w
      [] w.cl[k].state # "DESTROYED" /\ BodyOpen(w, k) ->
            [u EXCEPT !.wire[k][Len(w.wire[k])].clean = FALSE]
      [] w.cl[k].state # "DESTROYED" /\ AwaitsBody(w, k) -> u
      [] OTHER -> [u EXCEPT !.wire[k] =
            Append(@, [cmd |-> cmd, tx |-> tx, whole |-> TRUE, clean |-> TRUE])]

start_data(w, k, tx) ==
    IF w.cl[k].state = "DESTROYED" THEN w
    ELSE [w EXCEPT !.cl[k].command = "dot",
                   !.wire[k] = Append(@, [cmd |-> "dot", tx |-> tx,
                                          whole |-> FALSE, clean |-> TRUE])]

\* No client is idle twice.
Without(s, k) == IF Contains(s, k) THEN RemoveAt(s, CHOOSE i \in 1..Len(s) : s[i] = k) ELSE s

\* Of a destroyed client only its state and the hook it owes matter.
destroy(w, k) ==
    [w EXCEPT !.cl[k] = [NewClient EXCEPT !.state = "DESTROYED", !.next = w.cl[k].next,
                                          !.slipped = w.cl[k].slipped],
              !.wire[k] = <<>>, !.srv[k] = Idle,
              !.avail = Without(@, k)]

\* slipped: a reply is still to come, or another connection has the client.
\* (call_next sets it too: a hook is answered before upstream has replied.)
release(w, k) ==
    IF ~w.cl[k].connected \/ w.cl[k].command = "data" THEN destroy(w, k)
    ELSE IF w.cl[k].state = "DESTROYED" THEN w
    ELSE send_command(
           [w EXCEPT !.cl[k] =
               [@ EXCEPT !.state = "RELEASED", !.ears = <<>>, !.pool = TRUE,
                         !.slipped = \/ w.cl[k].slipped
                                     \/ w.wire[k] # <<>>
                                     \/ w.cl[k].state # "ACTIVE"]],
           k, "rset", NoTx)

\* connection.transaction is null.
Dead(w, c) == w.cn[c].tx = 0

-----------------------------------------------------------------------------
(***************************************************************************)
(* Acquiring a client.                                                     *)
(***************************************************************************)

helo(w, k, c) ==
    IF Auth /\ ~w.cl[k].authenticated THEN send_command(w, k, "auth", NoTx)
    ELSE IF Dead(w, c) THEN release(w, k)
    ELSE send_command(w, k, "mail", Tx(w, c))

\* (..._Name: the form of a mutant that PROJECT.json names.)
get_client_plugin_KeepsTxn(w, k, call) ==
    LET u == [w EXCEPT !.cl[k].state = "ACTIVE"]
        s == IF ~u.cl[k].connected THEN u
             ELSE IF u.cl[k].xclient THEN send_command(u, k, "xclient", NoTx)
             ELSE helo(u, k, call.conn)
    IN  [s EXCEPT !.cl[k].ears = Append(@, call.conn),
                  !.cl[k].next = <<call.conn, call.id>>,
                  !.cl[k].txn = IF @ = NoTx THEN call.tx ELSE @, !.cl[k].rcpt = 0,
                  !.cn[call.conn].note = IF plugin = "proxy" THEN k ELSE @]

\* get_client_plugin's callback: a client that is connected starts at once,
\* before the plugin adds its listeners and its next.
get_client_plugin(w, k, call) ==
    LET u == [w EXCEPT !.cl[k].state = "ACTIVE"]
        s == IF ~u.cl[k].connected THEN u
             ELSE IF u.cl[k].xclient THEN send_command(u, k, "xclient", NoTx)
             ELSE helo(u, k, call.conn)
    IN  [s EXCEPT !.cl[k] = [@ EXCEPT !.ears = Append(s.cl[k].ears, call.conn),
                                      !.next = <<call.conn, call.id>>,
                                      !.txn = call.tx, !.rcpt = 0],
                  !.cn[call.conn].note = IF plugin = "proxy" THEN k ELSE @]

Open(w) == {k \in Ids : w.cl[k].state \notin {"none", "DESTROYED"}}
Fresh(w) == {k \in Ids : w.cl[k].state = "none"}
CanCreate(w) == Fresh(w) # {} /\ Cardinality(Open(w)) < max_connections

Create(w, call) ==
    LET k == CHOOSE i \in Fresh(w) : \A j \in Fresh(w) : i <= j
        greeting == [cmd |-> "greeting", tx |-> NoTx, whole |-> TRUE, clean |-> TRUE]
    IN  get_client_plugin([w EXCEPT !.cl[k] = NewClient, !.wire[k] = <<greeting>>], k, call)

acquire(w, call) ==
    CASE w.avail # <<>> ->
            get_client_plugin([w EXCEPT !.avail = Tail(@)], Head(w.avail), call)
      [] w.avail = <<>> /\ CanCreate(w) -> Create(w, call)
      [] OTHER -> [w EXCEPT !.waiting = Append(@, call)]

\* pool.release: the client goes to the next caller, or becomes idle.
pool_release(w, k) ==
    IF w.waiting # <<>>
    THEN get_client_plugin([w EXCEPT !.waiting = Tail(@)], k, Head(w.waiting))
    ELSE [w EXCEPT !.avail = IF Contains(@, k) THEN @ ELSE Append(@, k)]

-----------------------------------------------------------------------------
(***************************************************************************)
(* The commands of a sender and the hooks they run.                        *)
(***************************************************************************)

Reset(w, c) ==
    [w EXCEPT !.cn[c] = [@ EXCEPT !.tx = 0, !.asked = 0, !.rcpts = 0, !.data = FALSE]]

\* A late answer, to a hook that is over, is ignored by plugins.js.
Awaits(w, c, id) == w.cn[c].hook # "" /\ w.cn[c].calls = id

\* What a hook's answer does to the connection.
Answer(w, c, id, ret, k) ==
    LET h == w.cn[c].hook
        u == [w EXCEPT !.cn[c].hook = ""] IN
    IF ~Awaits(w, c, id) THEN w
    ELSE CASE h = "rcpt_ok" /\ ret = "cont" -> [u EXCEPT !.cn[c].rcpts = @ + 1]
           [] h = "rcpt_ok" /\ ret # "cont" -> u
           [] h = "mail" /\ ret = "cont" -> u
           [] h = "data" /\ ret = "cont" -> [u EXCEPT !.cn[c].data = TRUE]
           [] h = "queue" /\ ret = "ok" ->
                 Reset([u EXCEPT !.cn[c].told =
                           @ \union {[tx |-> w.cn[c].tx, slipped |-> w.cl[k].slipped]}], c)
           [] OTHER -> Reset(u, c)

\* delete connection.notes.smtp_client
Forget(w, c) == [w EXCEPT !.cn[c].note = 0]

\* A hook starts and is given its next.
Call(w, c, h) == [w EXCEPT !.cn[c] = [@ EXCEPT !.hook = h, !.calls = w.cn[c].calls + 1]]
Pending(w, c) == [conn |-> c, id |-> w.cn[c].calls, tx |-> Tx(w, c)]

hook_mail(w, c) ==
    LET t == w.cn[c].count + 1
        v == [w EXCEPT !.cn[c] = [@ EXCEPT !.tx = t, !.count = t, !.asked = 0, !.rcpts = 0]]
        u == Call(v, c, "mail")
    IN  IF plugin = "proxy" THEN acquire(u, Pending(u, c)) ELSE v

\* A hook of smtp_proxy that sends cmd to the client in the notes.
Forwarded(w, c, h, cmd) ==
    LET u == Call(w, c, h)
        k == w.cn[c].note
        s == [u EXCEPT !.cl[k].next = <<c, u.cn[c].calls>>]
    IN  IF k = 0 THEN Answer(u, c, u.cn[c].calls, "cont", 0)
        ELSE IF cmd = "dot" THEN start_data(s, k, Tx(u, c))
        ELSE send_command(s, k, cmd, Tx(u, c))

hook_rcpt_ok(w, c) ==
    LET v == Forwarded(w, c, "rcpt_ok", "rcpt") IN [v EXCEPT !.cn[c].asked = @ + 1]

hook_data(w, c) == Forwarded(w, c, "data", "data")

hook_queue(w, c) ==
    LET u == Call(w, c, "queue") IN
    IF plugin = "proxy" THEN Forwarded(w, c, "queue", "dot") ELSE acquire(u, Pending(u, c))

\* hook_rset and hook_quit.
Let_go(w, c) == IF w.cn[c].note = 0 THEN w ELSE Forget(release(w, w.cn[c].note), c)
hook_rset(w, c) == Reset(Let_go(w, c), c)

\* The connection's checks: other commands are answered without a hook.
\* "text" is the message and its dot, all there is after DATA.
Commanded == {"mail", "rcpt", "data", "text", "rset"}
Valid(w, c, cmd) ==
    LET n == w.cn[c] IN
    /\ n.up /\ n.hook = "" /\ (n.data => cmd = "text")
    /\ CASE cmd = "mail" -> SumFunction([d \in Conns |-> w.cn[d].count]) < MaxTx
         [] cmd = "rcpt" -> plugin = "proxy" /\ n.tx # 0 /\ n.asked < MaxAsked
         [] cmd = "data" -> plugin = "proxy" /\ n.tx # 0 /\ n.rcpts > 0
         [] cmd = "text" -> n.tx # 0 /\ (n.data \/ plugin # "proxy")
         [] cmd = "rset" -> n.tx # 0 \/ n.note # 0

Run(w, c, cmd) ==
    CASE cmd = "mail" -> hook_mail(w, c)
      [] cmd = "rcpt" -> hook_rcpt_ok(w, c)
      [] cmd = "data" -> hook_data(w, c)
      [] cmd = "text" -> hook_queue(w, c)
      [] cmd = "rset" -> hook_rset(w, c)

\* _process_data: what was pipelined is run when no hook is in its way.
Pipelined(w, c) ==
    IF w.ahead = <<>> \/ w.cn[c].hook # "" THEN w
    ELSE LET v == [w EXCEPT !.ahead = Tail(@)] IN
         IF Valid(w, c, Head(w.ahead)) THEN Run(v, c, Head(w.ahead)) ELSE v

process_data(w, c) == Pipelined(Pipelined(w, c), c)

\* respond() ends with _process_data: the caller of next() goes on when the
\* pipelined commands have been run.
call_next(w, k, ret) ==
    LET n == w.cl[k].next
        early == w.cl[k].slipped \/ w.wire[k] # <<>>
        u == [w EXCEPT !.cl[k].next = <<>>] IN
    CASE n = <<>> -> w
      [] n # <<>> /\ ~Awaits(w, n[1], n[2]) -> u
      [] OTHER -> process_data(Answer([u EXCEPT !.cl[k].slipped = early],
                                      n[1], n[2], ret, k), n[1])

-----------------------------------------------------------------------------
(***************************************************************************)
(* Listeners.  ev is the event: the name of a command that succeeded, or   *)
(* "bad_code"; code is "2xx", "4xx" or "5xx".                              *)
(***************************************************************************)

\* smtp_forward: hook_queue's listeners.
send_rcpt_Pipelines(w, k, c) ==
    LET u == send_command([w EXCEPT !.cl[k].rcpt = @ + 1], k, "rcpt", w.cl[k].txn) IN
    CASE Dead(w, c) -> release(w, k)
      [] ~Dead(w, c) /\ u.cl[k].rcpt = NRcpt -> send_command(u, k, "data", NoTx)
      [] OTHER -> u

send_rcpt(w, k, c) ==
    CASE Dead(w, c) -> release(w, k)
      [] ~Dead(w, c) /\ w.cl[k].rcpt = NRcpt -> send_command(w, k, "data", NoTx)
      [] OTHER -> send_command([w EXCEPT !.cl[k].rcpt = @ + 1], k, "rcpt", w.cl[k].txn)

forward_dot(w, k, c) ==
    CASE Dead(w, c) -> release(w, k)
      [] ~Dead(w, c) /\ w.cl[k].rcpt < NRcpt -> send_command(w, k, "rset", NoTx)
      [] OTHER -> release(call_next(w, k, "ok"), k)

forward_ear_Silent(w, k, c, ev, code) ==
    CASE ev = "mail" -> send_rcpt(w, k, c)
      [] ev = "rcpt" -> IF plugin = "forward_each" THEN send_command(w, k, "data", NoTx)
                        ELSE send_rcpt(w, k, c)
      [] ev = "dot" -> forward_dot(w, k, c)
      [] ev \in {"data", "rset", "bad_code"} /\ Dead(w, c) -> release(w, k)
      [] ev = "data" /\ ~Dead(w, c) -> start_data(w, k, w.cl[k].txn)
      [] ev = "rset" /\ ~Dead(w, c) -> send_command(w, k, "mail", w.cl[k].txn)
      [] ev = "bad_code" /\ ~Dead(w, c) -> release(w, k)
      [] OTHER -> w

forward_ear(w, k, c, ev, code) ==
    CASE ev = "mail" -> send_rcpt(w, k, c)
      [] ev = "rcpt" -> IF plugin = "forward_each" THEN send_command(w, k, "data", NoTx)
                        ELSE send_rcpt(w, k, c)
      [] ev = "dot" -> forward_dot(w, k, c)
      [] ev \in {"data", "rset", "bad_code"} /\ Dead(w, c) -> release(w, k)
      [] ev = "data" /\ ~Dead(w, c) -> start_data(w, k, w.cl[k].txn)
      [] ev = "rset" /\ ~Dead(w, c) -> send_command(w, k, "mail", w.cl[k].txn)
      [] ev = "bad_code" /\ ~Dead(w, c) -> release(call_next(w, k, "deny"), k)
      [] OTHER -> w

\* smtp_proxy: hook_mail's listeners.  Pipelined commands may have changed
\* what they find after call_next.
proxy_ear(w, k, c, ev, code) ==
    CASE ev \in {"mail", "rcpt", "data"} -> call_next(w, k, "cont")
      [] ev = "dot" /\ Dead(w, c) -> Forget(release(w, k), c)
      [] ev = "dot" /\ ~Dead(w, c) -> Forget(release(call_next(w, k, "ok"), k), c)
      [] ev = "bad_code" ->
            LET u == call_next(w, k, "deny") IN
            IF u.cl[k].command = "rcpt" THEN u ELSE Forget(release(u, k), c)
      [] OTHER -> w

Ear(w, k, c, ev, code) ==
    IF plugin = "proxy" THEN proxy_ear(w, k, c, ev, code)
    ELSE forward_ear(w, k, c, ev, code)

\* The listeners release() left: rset makes the client idle, any bad code
\* ends it.
pool_ear(w, k, ev) ==
    CASE w.cl[k].state = "DESTROYED" -> w
      [] w.cl[k].state # "DESTROYED" /\ ev = "rset" ->
            pool_release([w EXCEPT !.cl[k] = [@ EXCEPT !.state = "IDLE", !.pool = FALSE]], k)
      [] w.cl[k].state # "DESTROYED" /\ ev = "bad_code" -> destroy(w, k)
      [] OTHER -> w

\* emit: the listeners of the moment, in the order they were added; those
\* a listener removes meanwhile are still called.
Listeners(u, k, ears, ev, code) ==
    LET after[i \in 0..Len(ears)] ==
            IF i = 0 THEN u ELSE Ear(after[i - 1], k, ears[i], ev, code)
    IN  after[Len(ears)]

emit(w, k, ev, code) ==
    LET ears == w.cl[k].ears
        u == IF w.cl[k].pool THEN pool_ear(w, k, ev) ELSE w
    IN  CASE ears = <<>> -> u
          [] ears # <<>> /\ ev = "helo" -> helo(u, k, Last(ears))
          [] OTHER -> Listeners(u, k, IF ev = "bad_code" THEN <<Last(ears)>> ELSE ears, ev, code)

-----------------------------------------------------------------------------
(***************************************************************************)
(* A line from upstream.                                                   *)
(***************************************************************************)

\* A line that is no SMTP reply.
junk(w, k) ==
    LET u == call_next(w, k, "cont")
    IN  destroy(IF plugin = "proxy" THEN Forget(u, Last(w.cl[k].ears)) ELSE u, k)

\* The switch on the command, after a good reply or one the listeners
\* let pass; cap is what EHLO offers.
switch(w, k, code, cap) ==
    LET cmd == w.cl[k].command IN
    CASE cmd = "greeting" ->
            send_command([w EXCEPT !.cl[k].connected = TRUE], k, "ehlo", NoTx)
      [] cmd = "ehlo" /\ cap = "XCLIENT" -> send_command(w, k, "xclient", NoTx)
      [] cmd = "ehlo" /\ cap = "STARTTLS" -> send_command(w, k, "starttls", NoTx)
      [] cmd = "xclient" -> send_command([w EXCEPT !.cl[k].xclient = TRUE], k, "ehlo", NoTx)
      [] cmd = "starttls" -> send_command([w EXCEPT !.cl[k].tls = TRUE], k, "ehlo", NoTx)
      [] OTHER -> emit(IF cmd = "auth" THEN [w EXCEPT !.cl[k].authenticated = TRUE] ELSE w,
                       k, IF cmd \in {"ehlo", "helo", "auth"} THEN "helo" ELSE cmd, code)

\* A refusal, then the switch on whatever the command is by now: after a
\* pipelined RCPT it is one that upstream has not answered.
bad_code(w, k, code, cap) ==
    LET u == emit(w, k, "bad_code", code)
    IN  IF u.cl[k].state = "ACTIVE" THEN switch(u, k, code, cap) ELSE u

on_line_Only5xx(w, k, code, cap) ==
    LET cmd == w.cl[k].command IN
    CASE cmd = "ehlo" /\ code = "5xx" -> send_command(w, k, "helo", NoTx)
      [] cmd = "xclient" /\ code = "5xx" -> emit([w EXCEPT !.cl[k].command = "helo"], k, "helo", code)
      [] code \in {"2xx", "4xx"} -> switch(w, k, code, cap)
      [] OTHER -> bad_code(w, k, code, cap)

on_line(w, k, code, cap) ==
    LET cmd == w.cl[k].command IN
    CASE cmd = "ehlo" /\ code = "5xx" -> send_command(w, k, "helo", NoTx)
      [] cmd = "xclient" /\ code = "5xx" -> emit([w EXCEPT !.cl[k].command = "helo"], k, "helo", code)
      [] code = "2xx" -> switch(w, k, code, cap)
      [] OTHER -> bad_code(w, k, code, cap)

\* The upstream server: which replies it may give to a command, and what
\* it has accepted after a good one.
Allowed(s, h) ==
    CASE h.cmd = "mail" /\ s.from # NoTx -> {"5xx"}
      [] h.cmd = "rcpt" /\ s.from = NoTx -> {"5xx"}
      [] h.cmd = "data" /\ s.rcpts = {} -> {"5xx"}
      [] h.cmd = "dot" /\ ~s.body -> {"5xx"}
      [] OTHER -> {"2xx", "4xx", "5xx"}

Upstream(w, k, h, code) ==
    LET s == w.srv[k] IN
    CASE h.cmd = "dot" ->
            [w EXCEPT !.srv[k] = Idle,
                      !.accepted = IF code # "2xx" THEN @
                        ELSE @ \union {[from |-> s.from, rcpts |-> s.rcpts, body |-> h.tx,
                                        clean |-> h.clean, slipped |-> w.cl[k].slipped]}]
      [] h.cmd = "mail" /\ code = "2xx" -> [w EXCEPT !.srv[k].from = h.tx]
      [] h.cmd = "rcpt" /\ code = "2xx" -> [w EXCEPT !.srv[k].rcpts = @ \union {h.tx}]
      [] h.cmd = "data" /\ code = "2xx" -> [w EXCEPT !.srv[k].body = TRUE]
      [] h.cmd \in {"rset", "ehlo", "helo"} -> [w EXCEPT !.srv[k] = Idle]
      [] OTHER -> w

Offered(k) == IF cl[k].command = "ehlo"
              THEN {""} \union (Caps \ ((IF cl[k].xclient THEN {"XCLIENT"} ELSE {})
                                       \union (IF cl[k].tls THEN {"STARTTLS"} ELSE {})))
              ELSE {""}

\* c's hook waits for an answer that k has to give.
Held(k, c) == cn[c].hook # "" /\ cl[k].next = <<c, cn[c].calls>>

\* Bound: two pipelined commands matter to one event.  None is run unless k
\* answers a hook, and only smtp_proxy has hooks for RCPT and DATA.
Ahead(k) ==
    LET X == {x \in Commanded : plugin = "proxy" \/ x \notin {"rcpt", "data"}}
    IN  {<<>>} \union (IF \A c \in Conns : ~Held(k, c) THEN {}
                       ELSE {<<x>> : x \in X} \union (X \X X))

line(k) ==
    /\ wire[k] # <<>> /\ Head(wire[k]).whole
    /\ \E code \in Allowed(srv[k], Head(wire[k])), cap \in Offered(k), ahead \in Ahead(k) :
          Become(on_line(Upstream([With(ahead) EXCEPT !.wire[k] = Tail(@)],
                                  k, Head(wire[k]), code), k, code, cap))

\* Only a client in use has a listener for 'error'.
unrecognised(k) ==
    /\ wire[k] # <<>> /\ Head(wire[k]).whole /\ cl[k].ears # <<>>
    /\ \E ahead \in Ahead(k) : Become(junk(With(ahead), k))

\* message_stream has written the last dot.
piped(k) ==
    /\ BodyOpen(Now, k)
    /\ Become([Now EXCEPT !.wire[k][Len(wire[k])].whole = TRUE])

\* closed: the client is destroyed before its state is compared with
\* ACTIVE, so that no 'error' is emitted and no hook is answered.
closed(k) ==
    /\ cl[k].state \in {"ACTIVE", "IDLE", "RELEASED"}
    /\ Become(destroy(Now, k))

\* generic-pool (external) serves a waiting call when a client has gone.
dispense ==
    /\ waiting # <<>> /\ CanCreate(Now)
    /\ Become(Create([Now EXCEPT !.waiting = Tail(@)], Head(waiting)))

-----------------------------------------------------------------------------
(***************************************************************************)
(* Connections and the plugins' hooks.                                     *)
(***************************************************************************)

command(c, cmd) == Valid(Now, c, cmd) /\ Become(Run(Now, c, cmd))

\* Another plugin refuses MAIL, DATA or the message: the transaction is
\* dropped and no hook of ours is run.
rejected(c) ==
    /\ cn[c].up /\ cn[c].hook = "" /\ cn[c].tx # 0
    /\ Become(Reset(Now, c))

\* The sender leaves; the transaction is dropped before hook_disconnect,
\* whose call_next finds the hook cancelled.
disconnect(c) ==
    LET w == Reset([Now EXCEPT !.cn[c] = [@ EXCEPT !.up = FALSE, !.hook = ""]], c)
        k == cn[c].note IN
    /\ cn[c].up
    /\ Become(IF k = 0 THEN w ELSE call_next(Let_go(w, c), k, "cont"))

Working(c) ==
    \/ \E i \in 1..Len(waiting) : waiting[i].conn = c /\ waiting[i].id = cn[c].calls
    \/ \E k \in Ids : cl[k].state = "ACTIVE" /\ cl[k].next = <<c, cn[c].calls>>

\* plugin_timeout: DENYSOFT.  The docs ask for timeouts below it, so that
\* it ends only hooks no client works for.
hook_timeout(c) ==
    /\ cn[c].hook # "" /\ (SlowUpstream \/ ~Working(c))
    /\ Become(Answer(Now, c, cn[c].calls, "denysoft", 0))

Next ==
    \/ \E k \in Ids : line(k) \/ unrecognised(k) \/ piped(k) \/ closed(k)
    \/ dispense
    \/ \E c \in Conns : \/ \E cmd \in Commanded : command(c, cmd)
                        \/ rejected(c) \/ disconnect(c) \/ hook_timeout(c)

Spec == Init /\ [][Next]_vars

-----------------------------------------------------------------------------
(***************************************************************************)
(* Properties.                                                             *)
(***************************************************************************)

\* A client never reused too early, whose callers were never answered before
\* upstream was done (slipped is neither), is in step with upstream: at most
\* one command is unanswered, and it is the one the next line is taken to be
\* the reply to, and none when the client is idle.
InStep ==
    \A k \in Ids :
        cl[k].state \in {"ACTIVE", "IDLE", "RELEASED"} /\ ~cl[k].slipped =>
            /\ Len(wire[k]) <= 1
            /\ wire[k] # <<>> => Head(wire[k]).cmd = cl[k].command /\ Head(wire[k]).clean
            /\ cl[k].state = "IDLE" => wire[k] = <<>>

\* Upstream takes one message at a time: sender, recipients and text are
\* those of one transaction, and nothing is written into the text, of a
\* client that is not slipped.
OneEnvelope ==
    \A m \in accepted : ~m.slipped =>
        m.clean /\ m.from = m.body /\ m.rcpts = {m.body}

\* A sender whose queue hook is answered OK by a client that is not slipped
\* has his message upstream.
TellsTruth ==
    \A c \in Conns : \A t \in cn[c].told :
        t.slipped \/ \E m \in accepted : m.body = <<c, t.tx>>

\* c's hook has its answer still to come: its call is in the pool's queue,
\* a client in use holds its next, or one that was lost does (closed answers
\* nobody, the plugin timeout must).
Awaited(c) ==
    cn[c].hook = "" \/ Working(c) \/ \E k \in Ids : Held(k, c) /\ cl[k].state = "DESTROYED"

\* No step loses the next of a hook that waits, one just started included,
\* but that of a client reused too early: such a client drops what it holds
\* for the next caller's.
KeepsHooks ==
    [][\A c \in Conns : Awaited(c) =>
         Awaited(c)' \/ \E k \in Ids : cl'[k].slipped /\ (Held(k, c) \/ Held(k, c)')]_vars

\* smtp_client.js:166: "we can't reuse a connection that was mid-data".
NoReuseMidData ==
    \A k \in Ids : cl[k].state \in {"RELEASED", "IDLE"} => ~BodyOpen(Now, k)

\* smtp_proxy.js:3, "passes back any errors seen on the ongoing server": but
\* not of a pipelined command that a reply to another was taken for.
ErrorsPassedBack ==
    \A c \in Conns : \A t \in cn[c].told : \E m \in accepted : m.body = <<c, t.tx>>
=============================================================================

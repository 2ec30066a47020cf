--------------------------- MODULE SmtpConnection ---------------------------
(***************************************************************************)
(* haraka/connection.js: one SMTP connection, from the connect hooks to    *)
(* the end, with pipelining: its state, the lines that wait in its buffer, *)
(* its transaction, and the hooks whose plugins have not called back.      *)
(*                                                                         *)
(* JavaScript runs to completion: what a callback or a socket event leaves *)
(* to _process_data is done (loop) before the next event.  One function is *)
(* registered for every hook of a command, and answers later; PluginHooks  *)
(* has what more than one, the deny hook and the plugin timeout add, so an *)
(* answer here is the one that the respond function gets.                  *)
(*                                                                         *)
(* A line is a command of the client, or the text of a message with the    *)
(* dot that ends it.  Its number, n, is how the module knows which command *)
(* a reply answers; the greeting has number 1.                             *)
(***************************************************************************)
EXTENDS Naturals, Sequences

CONSTANTS
    Commands,      \* the commands that the client sends
    Async,         \* which of "reset_transaction" and "disconnect" have a
                   \* plugin; without one they are answered at once
    Impatient,     \* TRUE when the client may send before it was answered
    MaxLines,      \* bound: lines sent by the client, with the greeting
    MaxBuffer      \* bound: lines in the buffer

Envelope == {"HELO", "EHLO", "MAIL", "RCPT", "DATA", "RSET", "NOOP", "VRFY", "QUIT"}
Texts    == {"TEXT",       \* a message, and its dot
             "BIG",        \* one larger than databytes
             "MANY",       \* one with too many Received headers
             "BARE"}       \* one that ends with a bare line-feed

ASSUME ConnectionAssumption ==
    /\ Commands \subseteq Envelope \cup Texts
    /\ Async \subseteq {"reset_transaction", "disconnect"}
    /\ Impatient \in BOOLEAN
    /\ MaxLines \in Nat
    /\ MaxBuffer \in Nat

VARIABLES
    conn,          \* the Connection object
    client         \* what the client knows and has sent

vars == <<conn, client>>

----------------------------------------------------------------------------
States == {"CMD", "LOOP", "DATA", "PAUSE", "PAUSE_SMTP", "PAUSE_DATA",
           "DISCONNECTING", "DISCONNECTED"}

Line == [cmd : Commands, n : Nat]

(* A hook whose plugin has not called back, or, as dns, end_data and       *)
(* send_email, another callback that is waited for.                        *)
Waits == {"dns", "end_data", "send_email"}
Hooks == Waits \cup
    {"lookup_rdns", "connect", "helo", "ehlo", "capabilities", "mail", "rcpt", "rcpt_ok",
     "data", "max_data_exceeded", "data_post", "queue", "queue_outbound", "queue_ok",
     "rset", "noop", "vrfy", "quit", "reset_transaction", "disconnect"}

(* What reset_transaction is to do next: its cb.                           *)
Continuations == {"none", "resume", "disconnect", "helo", "ehlo", "mail"}

Hook == [hook : Hooks, n : Nat, cb : Continuations]

Transaction == [there     : BOOLEAN,
                rcpt_to   : Seq(Nat),     \* the lines that named them
                resetting : BOOLEAN]
NoTran  == [there |-> FALSE, rcpt_to |-> <<>>, resetting |-> FALSE]
NewTran == [there |-> TRUE, rcpt_to |-> <<>>, resetting |-> FALSE]

Connection ==
    [state        : States,
     prev_state   : {"null", "CMD"},
     current_data : Seq(Line),
     hello_host   : BOOLEAN,
     esmtp        : BOOLEAN,
     relaying     : BOOLEAN,
     transaction  : Transaction,
     hooks        : SUBSET Hook,          \* called, and not cancelled
     current_hook : SUBSET Hook,          \* the one called last, or null
     paused       : BOOLEAN,              \* client.pause()
     later        : BOOLEAN,              \* a timer will call _process_data
     loop         : BOOLEAN,              \* _process_data is to go on
     thrown       : BOOLEAN]              \* an exception ended the process

(* The client counts replies and keeps the recipients that were accepted   *)
(* since its last MAIL; told and queued are the texts it has a 250 for,    *)
(* and those that a queue has.                                             *)
Client ==
    [sent     : Nat,
     last     : Commands \cup {"none"},
     replied  : Nat,                      \* commands that were answered
     inorder  : BOOLEAN,                  \* every reply was to the oldest one
     accepted : Seq(Nat),
     told     : SUBSET Nat,
     queued   : SUBSET Nat]

TypeOK == conn \in Connection /\ client \in Client

----------------------------------------------------------------------------
(* The functions of connection.js, from one state of both to the next:     *)
(* w is [conn, client].                                                    *)

Open(c)  == c.state \notin {"DISCONNECTING", "DISCONNECTED"}

NoReset(w) == \/ ~w.conn.transaction.there
              \/ w.conn.transaction.resetting

run_hook(w, hook, n) ==
    LET h == [hook |-> hook, n |-> n, cb |-> "none"] IN
    [w EXCEPT !.conn.hooks = @ \cup {h}, !.conn.current_hook = {h}]

wait_for(w, hook, n) ==
    [w EXCEPT !.conn.hooks = @ \cup {[hook |-> hook, n |-> n, cb |-> "none"]}]

(* run_hooks cancels the hook that runs, for a reset or a disconnect.      *)
cancel_current(w) ==
    [w EXCEPT !.conn.hooks = @ \ w.conn.current_hook, !.conn.current_hook = {}]

respond_Always(w, n) ==   \* mutant: whether or not it is disconnected
    [w EXCEPT !.conn.state = IF @ = "LOOP" THEN @ ELSE "CMD",
              !.conn.loop = TRUE,
              !.client.replied = @ + 1,
              !.client.inorder = @ /\ n = w.client.replied + 1]

respond_NoLoop(w, n) ==   \* mutant: _process_data is not called
    IF w.conn.state = "DISCONNECTED" THEN w
    ELSE [w EXCEPT !.conn.state = IF @ = "LOOP" THEN @ ELSE "CMD",
                   !.client.replied = @ + 1,
                   !.client.inorder = @ /\ n = w.client.replied + 1]

(* client.write, and the command loop is open again; the functions below   *)
(* apply respond's func to the result.                                     *)
respond(w, n) ==
    IF w.conn.state = "DISCONNECTED" THEN w
    ELSE [w EXCEPT !.conn.state = IF @ = "LOOP" THEN @ ELSE "CMD",
                   !.conn.loop = TRUE,
                   !.client.replied = @ + 1,
                   !.client.inorder = @ /\ n = w.client.replied + 1]

loop_respond(w, n) ==
    IF Open(w.conn) THEN respond([w EXCEPT !.conn.state = "LOOP"], n) ELSE w

pause(w) ==
    IF ~Open(w.conn) THEN w
    ELSE [w EXCEPT !.conn.paused = TRUE,
                   !.conn.prev_state = IF w.conn.state = "PAUSE_DATA" THEN @ ELSE w.conn.state,
                   !.conn.state = "PAUSE_DATA"]

resume_KeepsPaused(w) ==   \* mutant: client.resume() is forgotten
    IF ~Open(w.conn) THEN w
    ELSE [w EXCEPT !.conn.state = IF w.conn.prev_state = "null" THEN @ ELSE w.conn.prev_state,
                   !.conn.prev_state = "null", !.conn.loop = TRUE]

resume(w) ==
    IF ~Open(w.conn) THEN w
    ELSE [w EXCEPT !.conn.paused = FALSE,
                   !.conn.state = IF w.conn.prev_state = "null" THEN @ ELSE w.conn.prev_state,
                   !.conn.prev_state = "null",
                   !.conn.loop = TRUE]

disconnect_respond(w) == [w EXCEPT !.conn.state = "DISCONNECTED"]

(* disconnect's hook, when the transaction has been reset.                 *)
run_disconnect(w) ==
    LET v == cancel_current(w) IN
    IF "disconnect" \in Async THEN run_hook(v, "disconnect", 0) ELSE disconnect_respond(v)

(* init_transaction, after the reset.                                      *)
new_transaction(w, n) ==
    run_hook([w EXCEPT !.conn.transaction = NewTran, !.client.accepted = <<>>], "mail", n)

continue(w, cb, n) ==
    CASE cb = "none"       -> w
      [] cb = "resume"     -> resume(w)
      [] cb = "disconnect" -> run_disconnect(w)
      [] cb = "mail"       -> new_transaction(w, n)
      [] cb \in {"helo", "ehlo"} -> run_hook([w EXCEPT !.conn.hello_host = TRUE], cb, n)

reset_transaction_respond(w, cb, n) ==
    continue([w EXCEPT !.conn.transaction = NoTran], cb, n)

(* A transaction that is being reset already is dropped at once.           *)
reset_transaction(w, cb, n) ==
    IF NoReset(w) THEN reset_transaction_respond(w, cb, n)
    ELSE IF "reset_transaction" \notin Async
    THEN reset_transaction_respond(cancel_current(w), cb, n)
    ELSE LET h == [hook |-> "reset_transaction", n |-> n, cb |-> cb]
             v == cancel_current(w)
         IN  [v EXCEPT !.conn.transaction.resetting = TRUE,
                       !.conn.hooks = @ \cup {h}, !.conn.current_hook = {h}]

disconnect(w) ==
    IF ~Open(w.conn) THEN w
    ELSE reset_transaction([w EXCEPT !.conn.state = "DISCONNECTING"], "disconnect", 0)

(* What dereferences the transaction throws when it is gone.               *)
with_transaction(w, v) ==
    IF w.conn.transaction.there THEN v ELSE [w EXCEPT !.conn.thrown = TRUE]

(* Three of respond's funcs.                                               *)
reject(w, n)       == reset_transaction(respond(w, n), "none", n)
hang_up(w, n)      == disconnect(respond(w, n))
resume_after(w, n) == reset_transaction(respond(w, n), "resume", n)

----------------------------------------------------------------------------
(* The commands: cmd_helo and so on, and the end of the text.              *)

cmd(w, line) ==
    LET n == line.n
        t == w.conn.transaction
    IN
    CASE line.cmd \in {"HELO", "EHLO"} ->
           reset_transaction(w, IF line.cmd = "HELO" THEN "helo" ELSE "ehlo", n)
      [] line.cmd = "MAIL" ->
           IF w.conn.hello_host THEN reset_transaction(w, "mail", n) ELSE respond(w, n)
      [] line.cmd = "RCPT" ->
           IF t.there
           THEN run_hook([w EXCEPT !.conn.transaction.rcpt_to = Append(@, n)], "rcpt", n)
           ELSE respond(w, n)
      [] line.cmd = "DATA" ->
           IF t.rcpt_to # <<>> THEN run_hook(w, "data", n) ELSE respond(w, n)
      [] line.cmd = "RSET" -> run_hook(w, "rset", n)
      [] line.cmd = "NOOP" -> run_hook(w, "noop", n)
      [] line.cmd = "VRFY" -> run_hook(w, "vrfy", n)
      [] line.cmd = "QUIT" -> run_hook(w, "quit", n)

(* The dot.  The socket is paused until the mail is queued or refused.     *)
data_done(w, line) ==
    LET v == pause([w EXCEPT !.conn.state = "CMD"]) IN
    CASE line.cmd = "BIG"  -> run_hook(v, "max_data_exceeded", line.n)
      [] line.cmd = "MANY" -> reject(v, line.n)
      [] line.cmd = "TEXT" -> wait_for(v, "end_data", line.n)

(* Other lines in the text are text.                                       *)
accumulate_data(w, line) ==
    with_transaction(w,
        CASE line.cmd = "BARE" -> reject(w, line.n)
          [] line.cmd \in Texts \ {"BARE"} -> data_done(w, line)
          [] line.cmd \notin Texts -> w)

process_line_Unpaused(w, line) ==   \* mutant: the next command may overtake this one
    CASE w.conn.state = "DATA" -> accumulate_data(w, line)
      [] w.conn.state = "CMD"  -> cmd(w, line)
      [] w.conn.state = "LOOP" ->
           IF line.cmd = "QUIT" THEN cmd(w, line) ELSE respond(w, line.n)

process_line(w, line) ==
    CASE w.conn.state = "DATA" -> accumulate_data(w, line)
      [] w.conn.state = "CMD"  -> cmd([w EXCEPT !.conn.state = "PAUSE_SMTP"], line)
      [] w.conn.state = "LOOP" ->
           IF line.cmd = "QUIT" THEN cmd(w, line) ELSE respond(w, line.n)

----------------------------------------------------------------------------
(* The answers of plugins: lookup_rdns_respond and so on.  DENYSOFT is     *)
(* deny with another code, and DENYSOFTDISCONNECT likewise.                *)
Answers == {"cont", "ok", "deny", "denydisconnect"}

pop(w) == [w EXCEPT !.conn.transaction.rcpt_to = SubSeq(@, 1, Len(@) - 1)]

lookup_rdns_respond(w, n, retval) ==
    CASE retval = "ok"   -> run_hook(w, "connect", n)
      [] retval = "cont" -> wait_for(w, "dns", n)
      [] retval = "deny" -> loop_respond(w, n)
      [] retval = "denydisconnect" -> hang_up(w, n)

connect_respond(w, n, retval) ==
    CASE retval = "deny" -> loop_respond(w, n)
      [] retval = "denydisconnect" -> hang_up(w, n)
      [] retval \in {"ok", "cont"} -> respond(w, n)

hello_respond(w, hook, n, retval) ==
    CASE retval = "deny" -> [respond(w, n) EXCEPT !.conn.hello_host = FALSE]
      [] retval = "denydisconnect" -> hang_up(w, n)
      [] retval \in {"ok", "cont"} /\ hook = "helo" -> respond(w, n)
      [] retval \in {"ok", "cont"} /\ hook = "ehlo" ->
           [run_hook(w, "capabilities", n) EXCEPT !.conn.esmtp = TRUE]

(* mail and vrfy; data, but for its go-ahead.                              *)
refuse_respond(w, n, retval) ==
    CASE retval = "deny" -> reject(w, n)
      [] retval = "denydisconnect" -> hang_up(w, n)
      [] retval \in {"ok", "cont"} -> respond(w, n)

noop_respond(w, n, retval) ==
    IF retval = "denydisconnect" THEN hang_up(w, n) ELSE respond(w, n)

rcpt_ok_respond_NoPop(w, n, retval) ==   \* mutant: the refused recipient stays
    IF ~w.conn.transaction.there THEN w
    ELSE CASE retval = "deny" -> respond(w, n)
           [] retval = "denydisconnect" -> hang_up(w, n)
           [] retval \in {"ok", "cont"} ->
                [respond(w, n) EXCEPT !.client.accepted = Append(@, n)]

(* The hook's recipient is the last of the transaction.                    *)
rcpt_ok_respond(w, n, retval) ==
    IF ~w.conn.transaction.there THEN w
    ELSE CASE retval = "deny" -> pop(respond(w, n))
           [] retval = "denydisconnect" -> hang_up(w, n)
           [] retval \in {"ok", "cont"} ->
                [respond(w, n) EXCEPT !.client.accepted = Append(@, n)]

rcpt_respond(w, n, retval) ==
    IF ~w.conn.transaction.there THEN w
    ELSE IF retval = "ok" \/ (retval = "cont" /\ w.conn.relaying)
    THEN run_hook(w, "rcpt_ok", n)
    ELSE IF retval = "denydisconnect" THEN hang_up(w, n)
    ELSE pop(respond(w, n))      \* denied, or nobody knows the recipient

data_respond(w, n, retval) ==
    IF retval \in {"deny", "denydisconnect"} THEN refuse_respond(w, n, retval)
    ELSE with_transaction(w, [respond(w, n) EXCEPT !.conn.state = "DATA"])

(* The text of a message, when a queue has it, or nobody wants it.         *)
queue_ok(w, n) == run_hook([w EXCEPT !.client.queued = @ \cup {n}], "queue_ok", n)

data_post_respond(w, n, retval) ==
    with_transaction(w,
        CASE retval = "deny" -> resume_after(w, n)
          [] retval = "denydisconnect" -> hang_up(w, n)
          [] retval \in {"ok", "cont"} ->
               run_hook(w, IF w.conn.relaying THEN "queue_outbound" ELSE "queue", n))

queue_respond_Accepts(w, hook, n, retval) ==   \* mutant: 250 when no plugin took it
    CASE retval = "ok"   -> queue_ok(w, n)
      [] retval = "deny" -> resume_after(w, n)
      [] retval = "denydisconnect" -> hang_up(w, n)
      [] retval = "cont" /\ hook = "queue_outbound" ->
           with_transaction(w, wait_for(w, "send_email", n))
      [] retval = "cont" /\ hook = "queue" -> run_hook(w, "queue_ok", n)

queue_respond(w, hook, n, retval) ==
    CASE retval = "ok"   -> queue_ok(w, n)
      [] retval = "deny" -> resume_after(w, n)
      [] retval = "denydisconnect" -> hang_up(w, n)
      [] retval = "cont" /\ hook = "queue_outbound" ->
           with_transaction(w, wait_for(w, "send_email", n))
      [] retval = "cont" /\ hook = "queue" -> resume_after(w, n)

queue_ok_respond(w, n) ==
    resume_after([w EXCEPT !.client.told = IF w.conn.state = "DISCONNECTED" THEN @
                                           ELSE @ \cup {n}], n)

respond_method(w, h, retval) ==
    LET n == h.n IN
    CASE h.hook = "lookup_rdns"  -> lookup_rdns_respond(w, n, retval)
      [] h.hook = "connect"      -> connect_respond(w, n, retval)
      [] h.hook \in {"helo", "ehlo"} -> hello_respond(w, h.hook, n, retval)
      [] h.hook = "capabilities" -> respond(w, n)
      [] h.hook = "mail"         -> IF w.conn.transaction.there
                                    THEN refuse_respond(w, n, retval) ELSE w
      [] h.hook = "vrfy"         -> refuse_respond(w, n, retval)
      [] h.hook = "rcpt"         -> rcpt_respond(w, n, retval)
      [] h.hook = "rcpt_ok"      -> rcpt_ok_respond(w, n, retval)
      [] h.hook = "data"         -> data_respond(w, n, retval)
      [] h.hook = "data_post"    -> data_post_respond(w, n, retval)
      [] h.hook \in {"queue", "queue_outbound"} -> queue_respond(w, h.hook, n, retval)
      [] h.hook = "queue_ok"     -> queue_ok_respond(w, n)
      [] h.hook = "max_data_exceeded" -> reject(w, n)
      [] h.hook = "rset"         -> reject(w, n)
      [] h.hook = "noop"         -> noop_respond(w, n, retval)
      [] h.hook = "quit"         -> hang_up(w, n)
      [] h.hook = "reset_transaction" -> reset_transaction_respond(w, h.cb, n)
      [] h.hook = "disconnect"   -> disconnect_respond(w)

----------------------------------------------------------------------------
State == [conn |-> conn, client |-> client]
Become(w) == conn' = w.conn /\ client' = w.client

Init ==
    LET h == [hook |-> "lookup_rdns", n |-> 1, cb |-> "none"] IN
    /\ conn = [state |-> "PAUSE", prev_state |-> "null", current_data |-> <<>>,
               hello_host |-> FALSE, esmtp |-> FALSE, relaying |-> FALSE,
               transaction |-> NoTran, hooks |-> {h}, current_hook |-> {h},
               paused |-> FALSE, later |-> FALSE, loop |-> FALSE, thrown |-> FALSE]
    /\ client = [sent |-> 1, last |-> "none", replied |-> 0, inorder |-> TRUE,
                 accepted |-> <<>>, told |-> {}, queued |-> {}]

(* The event loop is free, and the process lives.                          *)
Idle == ~conn.loop /\ ~conn.thrown

(* RFC 2920: with PIPELINING, a client may go on after these.              *)
MayGoOn == {"MAIL", "RCPT", "RSET"} \cup Texts

MaySend(command) ==
    /\ client.sent < MaxLines /\ Len(conn.current_data) < MaxBuffer
    /\ client.last # "QUIT"
    /\ (command \in Texts) <=> (conn.state = "DATA" /\ client.last = "DATA")
    /\ \/ client.sent = client.replied
       \/ conn.esmtp /\ client.last \in MayGoOn
       \/ Impatient /\ client.last # "DATA"

(* A data event: one line of the client.                                   *)
process_data ==
    /\ Idle /\ Open(conn) /\ ~conn.paused
    /\ \E command \in Commands :
         /\ MaySend(command)
         /\ conn' = [conn EXCEPT !.current_data =
                                    Append(@, [cmd |-> command, n |-> client.sent + 1]),
                                 !.loop = TRUE]
         /\ client' = [client EXCEPT !.sent = @ + 1, !.last = command]

(* One turn of _process_data's while loop, which ends without a line that  *)
(* it may take.                                                            *)
Waiting == conn.state \in {"PAUSE", "PAUSE_SMTP"}
Pipelined == /\ conn.esmtp /\ conn.current_data # <<>>
             /\ \/ Head(conn.current_data).cmd \in {"MAIL", "RCPT", "RSET"}
                \/ Len(conn.current_data) = 1

stop ==
    /\ conn.loop /\ ~conn.thrown
    /\ \/ ~Open(conn)
       \/ conn.current_data = <<>>
       \/ conn.state = "PAUSE_DATA"
       \/ Waiting /\ Pipelined
    /\ conn' = [conn EXCEPT !.loop = FALSE]
    /\ UNCHANGED client

early_talker ==
    /\ conn.loop /\ ~conn.thrown /\ conn.current_data # <<>>
    /\ Waiting /\ ~Pipelined
    /\ conn' = [conn EXCEPT !.loop = FALSE, !.later = TRUE]
    /\ UNCHANGED client

take_line ==
    /\ conn.loop /\ ~conn.thrown /\ conn.current_data # <<>>
    /\ conn.state \in {"CMD", "LOOP", "DATA"}
    /\ Become(process_line([State EXCEPT !.conn.current_data = Tail(@)],
                           Head(conn.current_data)))

(* The early talker's delay is over.                                       *)
timer ==
    /\ Idle /\ conn.later
    /\ conn' = [conn EXCEPT !.later = FALSE, !.loop = TRUE]
    /\ UNCHANGED client

(* A plugin calls back.  Those of rcpt may turn relaying on.               *)
answer(h) ==
    /\ Idle /\ h \in conn.hooks /\ h.hook \notin Waits
    /\ \E retval \in Answers, relaying \in {conn.relaying, h.hook = "rcpt" \/ conn.relaying} :
         Become(respond_method([State EXCEPT !.conn.hooks = @ \ {h},
                                             !.conn.current_hook = {},
                                             !.conn.relaying = relaying], h, retval))

(* The resolver, the message stream and outbound.js call back.             *)
dns(h) ==
    /\ Idle /\ h \in conn.hooks /\ h.hook = "dns"
    /\ Become(run_hook([State EXCEPT !.conn.hooks = @ \ {h}], "connect", h.n))

end_data(h) ==
    /\ Idle /\ h \in conn.hooks /\ h.hook = "end_data"
    /\ LET w == [State EXCEPT !.conn.hooks = @ \ {h}] IN
       Become(IF conn.transaction.there THEN run_hook(w, "data_post", h.n) ELSE w)

send_email(h) ==
    /\ Idle /\ h \in conn.hooks /\ h.hook = "send_email"
    /\ LET w == [State EXCEPT !.conn.hooks = @ \ {h}] IN
       \/ Become(queue_ok(w, h.n))
       \/ Become(resume_after(w, h.n))

(* The client is gone: fail().                                             *)
close ==
    /\ Idle /\ Open(conn)
    /\ Become(disconnect(State))

(* Nothing was heard or said for inactivity_timeout: 421, and fail().      *)
timeout ==
    /\ Idle /\ Open(conn)
    /\ Become(disconnect([State EXCEPT !.conn.state = "CMD", !.conn.loop = TRUE]))

Next ==
    \/ process_data \/ stop \/ early_talker \/ take_line \/ timer
    \/ \E h \in conn.hooks : answer(h) \/ dns(h) \/ end_data(h) \/ send_email(h)
    \/ close \/ timeout

Spec == Init /\ [][Next]_vars

(* The event loop turns, timers go off, and what was called calls back (a  *)
(* plugin is timed out otherwise), also when an early talker's timer keeps *)
(* the loop busy now and then.  Nothing makes the client act.              *)
FairSpec ==
    /\ Spec
    /\ WF_vars(stop) /\ WF_vars(early_talker) /\ WF_vars(take_line) /\ WF_vars(timer)
    /\ SF_vars(\E h \in conn.hooks : answer(h) \/ dns(h) \/ end_data(h) \/ send_email(h))

----------------------------------------------------------------------------
(* Properties.                                                             *)

(* Replies are sent in the order of the commands, one for each, whatever   *)
(* is pipelined and however long its plugins take.                         *)
RepliesInOrder == client.inorder /\ client.replied <= client.sent

(* No exception, and no open connection where nothing is under way and     *)
(* a command is unanswered, a line waits in the buffer, or the socket is   *)
(* not read.  The code does leave it paused after a message that is too    *)
(* big or has too many Received headers: then only the timeout helps.      *)
Quiet == Idle /\ Open(conn) /\ ~conn.later /\ conn.hooks = {}

NoStall ==
    /\ ~conn.thrown
    /\ Quiet => /\ client.replied = client.sent
                /\ conn.current_data = <<>>
                /\ conn.state \in {"CMD", "LOOP", "DATA"}
                /\ conn.paused => client.last \in {"BIG", "MANY"}

(* What is queued goes to the recipients that the client was told were     *)
(* accepted since its MAIL, all of them and no other.                      *)
EnvelopeIsAccepted ==
    \A h \in conn.hooks :
        h.hook \in {"data", "end_data", "data_post", "queue", "queue_outbound", "send_email"}
          /\ Open(conn)
        => /\ conn.transaction.rcpt_to = client.accepted
           /\ client.accepted # <<>>

(* The client is told that a mail was queued only when a queue has it, and *)
(* is told that, unless its connection is gone.                            *)
QueuedIsTold ==
    /\ client.told \subseteq client.queued
    /\ Quiet => client.told = client.queued

(* A connection that was closed is not opened again.                       *)
ClosedForGood == [][~Open(conn) => ~Open(conn')]_vars

(* Where a plugin handles reset_transaction, no transaction is dropped for *)
(* which its hook was not called.                                          *)
ResetHookFirst ==
    [][conn.transaction.there /\ ~conn'.transaction.there
         => conn.transaction.resetting]_vars

(* Every command is answered, or the connection is closed.                 *)
EventuallyAnswered ==
    \A n \in 1..MaxLines : (client.sent >= n) ~> (client.replied >= n \/ ~Open(conn))

=============================================================================

----------------------- MODULE SmtpConnection_proofs -----------------------
(***************************************************************************)
(* Theorems about SmtpConnection for every number of lines, every set of   *)
(* commands, patient clients and impatient ones.                           *)
(*                                                                         *)
(* The model's functions go from one state of both variables to the next,  *)
(* and so do the lemmas: each says of one function of connection.js that   *)
(* it leads from what holds when it is called (Handling, Taken, Back) to a *)
(* state that is Good.  The steps, at the end, only put these together.    *)
(***************************************************************************)
EXTENDS SmtpConnection, SequenceTheorems, TLAPS

(* The hypothesis: no plugin handles reset_transaction or disconnect, as   *)
(* in config/plugins.  With one, the next line overtakes the reset, and a  *)
(* late callback opens a closing connection.                               *)
Plain == Async = {}

World == [conn : Connection, client : Client]

----------------------------------------------------------------------------
(* The invariant: a connection is served, has asked the plugins, or gone.  *)

(* The lines in the buffer are numbered from n on, up to the last sent.    *)
Numbered(lines, n, sent) ==
    /\ sent + 1 = n + Len(lines)
    /\ \A i \in 1..Len(lines) : lines[i].n = n + i - 1

(* Nothing follows DATA before it is answered, and nothing QUIT.           *)
Finals == {"DATA", "QUIT"}
Lasting(lines, last) ==
    \A i \in 1..Len(lines) :
       /\ lines[i].cmd \notin Texts
       /\ lines[i].cmd \in Finals => i = Len(lines) /\ last = lines[i].cmd

Plausible(t) == ~t.resetting /\ (t.there \/ t.rcpt_to = <<>>)

Sane(w) == /\ w \in World
           /\ ~w.conn.thrown /\ w.client.inorder
           /\ Plausible(w.conn.transaction)

Agreed(w) == w.conn.transaction.there => w.conn.transaction.rcpt_to = w.client.accepted

Ready(w) == w.conn.transaction.there /\ w.client.accepted # <<>>

(* The line whose reply comes next.                                        *)
Oldest(w) == w.client.replied + 1

(* The line before those in the buffer is being handled.                   *)
Behind(w, n) ==
    /\ Open(w.conn)
    /\ n = Oldest(w)
    /\ Numbered(w.conn.current_data, n + 1, w.client.sent)
    /\ Lasting(w.conn.current_data, w.client.last)

Reading(w) ==
    /\ w.conn.state \in {"CMD", "LOOP"}
    /\ Lasting(w.conn.current_data, w.client.last)
    /\ w.conn.state = "LOOP" => ~w.conn.transaction.there /\ ~w.conn.paused
    /\ w.conn.paused => /\ w.conn.current_data = <<>>
                        /\ w.client.last \in {"BIG", "MANY"}

ReadingText(w) ==
    /\ w.conn.state = "DATA" /\ ~w.conn.paused
    /\ Ready(w)
    /\ IF w.conn.current_data = <<>> THEN w.client.last = "DATA"
       ELSE /\ Len(w.conn.current_data) = 1
            /\ w.conn.current_data[1].cmd = w.client.last
            /\ w.client.last \in Texts

Serving(w) ==
    /\ Sane(w)
    /\ w.conn.hooks = {} /\ w.conn.current_hook = {}
    /\ Numbered(w.conn.current_data, Oldest(w), w.client.sent)
    /\ w.conn.current_data # <<>> => w.conn.loop
    /\ Agreed(w)
    /\ w.client.queued = w.client.told
    /\ Reading(w) \/ ReadingText(w)

OfGreeting == {"lookup_rdns", "dns", "connect"}
OfHello    == {"helo", "ehlo", "capabilities"}
OfCommand  == OfHello \cup {"mail", "rcpt", "rcpt_ok", "data", "rset", "noop", "vrfy", "quit"}
OfText     == {"max_data_exceeded", "end_data", "data_post", "queue", "queue_outbound",
               "send_email", "queue_ok"}

(* What is so while the plugins of a hook are asked.                       *)
Asked(w, hook, n) ==
    LET c == w.conn
        k == w.client
        t == c.transaction
    IN
    /\ hook \in OfGreeting => c.state = "PAUSE" /\ ~t.there
    /\ hook \in OfCommand => \/ c.state = "PAUSE_SMTP"
                            \/ (c.state = "LOOP" /\ hook = "quit" /\ ~t.there)
    /\ hook \in OfText => /\ c.state = "PAUSE_DATA" /\ c.paused /\ Ready(w)
                          /\ k.last = IF hook = "max_data_exceeded" THEN "BIG" ELSE "TEXT"
    /\ hook \notin OfText => ~c.paused
    /\ hook \in OfText \cup {"data", "quit"} => c.current_data = <<>>
    /\ hook \in {"data", "quit"} => k.last = IF hook = "data" THEN "DATA" ELSE "QUIT"
    /\ hook \in OfHello => ~t.there
    /\ hook \notin {"rcpt", "rcpt_ok"} => Agreed(w)
    /\ hook \in {"rcpt", "rcpt_ok"} => t.there /\ t.rcpt_to = Append(k.accepted, n)
    /\ hook = "mail" => t.there
    /\ hook = "data" => Ready(w)
    /\ k.queued = IF hook = "queue_ok" THEN k.told \cup {n} ELSE k.told

Asking(w, h) ==
    /\ Sane(w)
    /\ w.conn.hooks = {h}
    /\ w.conn.current_hook = IF h.hook \in Waits THEN {} ELSE {h}
    /\ h.hook \in OfGreeting \cup OfCommand \cup OfText
    /\ Behind(w, h.n)
    /\ Asked(w, h.hook, h.n)

Late == Waits \cup {"connect", "queue_ok"}

Gone(w) ==
    /\ Sane(w)
    /\ w.conn.state = "DISCONNECTED" /\ ~w.conn.transaction.there
    /\ \A h \in w.conn.hooks : h.hook \in Late
    /\ w.client.replied <= w.client.sent
    /\ w.client.told \subseteq w.client.queued

Good(w) == Serving(w) \/ (\E h \in Hook : Asking(w, h)) \/ Gone(w)

LEMMA WorldFields ==
    ASSUME NEW w \in World
    PROVE  /\ w.conn \in Connection /\ w.client \in Client
           /\ w = [conn |-> w.conn, client |-> w.client]
  BY DEF World

(* The functions, field by field.                                          *)
LEMMA RespondIs ==
    ASSUME NEW w \in World, w.conn.state # "DISCONNECTED", NEW n
    PROVE  LET c == w.conn
               k == w.client
           IN  respond(w, n) =
                 [conn |-> [c EXCEPT !.state = IF @ = "LOOP" THEN @ ELSE "CMD", !.loop = TRUE],
                  client |-> [k EXCEPT !.replied = @ + 1,
                                       !.inorder = @ /\ n = k.replied + 1]]
  BY DEF respond, World

LEMMA RespondWorld ==
    ASSUME NEW w \in World, NEW n
    PROVE  respond(w, n) \in World
  <1>1. CASE w.conn.state = "DISCONNECTED"
    BY <1>1 DEF respond
  <1>2. CASE w.conn.state # "DISCONNECTED"
    <2>. DEFINE c == [w.conn EXCEPT !.state = IF @ = "LOOP" THEN @ ELSE "CMD", !.loop = TRUE]
                k == [w.client EXCEPT !.replied = @ + 1,
                                      !.inorder = @ /\ n = w.client.replied + 1]
    <2>1. c \in Connection
      BY WorldFields DEF Connection, States
    <2>2. k \in Client
      <3>1. w.client \in Client
        BY WorldFields
      <3>2. w.client.replied + 1 \in Nat
        BY <3>1 DEF Client
      <3>3. (w.client.inorder /\ n = w.client.replied + 1) \in BOOLEAN
        OBVIOUS
      <3>. QED
        BY <3>1, <3>2, <3>3 DEF Client
    <2>3. respond(w, n) = [conn |-> c, client |-> k]
      BY <1>2, RespondIs
    <2>. HIDE DEF c, k
    <2>. QED
      BY <2>1, <2>2, <2>3 DEF World
  <1>. QED
    BY <1>1, <1>2

LEMMA CancelNothing ==
    ASSUME NEW w \in World, w.conn.current_hook = {}
    PROVE  cancel_current(w) = w
  <1>. DEFINE c == [w.conn EXCEPT !.hooks = @ \ w.conn.current_hook, !.current_hook = {}]
  <1>1. c = w.conn
    BY WorldFields DEF Connection
  <1>2. cancel_current(w) = [w EXCEPT !.conn = c]
    BY WorldFields DEF cancel_current
  <1>. QED
    BY <1>1, <1>2, WorldFields

(* With nothing to cancel, a reset drops the transaction and goes on.      *)
Dropped(w) == [w EXCEPT !.conn.transaction = NoTran]

LEMMA ResetIs ==
    ASSUME Plain, NEW w \in World, w.conn.current_hook = {}, NEW cb, NEW n
    PROVE  reset_transaction(w, cb, n) = continue(Dropped(w), cb, n)
  BY CancelNothing DEF reset_transaction, reset_transaction_respond, Dropped, Plain

LEMMA DroppedWorld ==
    ASSUME NEW w \in World
    PROVE  /\ Dropped(w) = [conn |-> [w.conn EXCEPT !.transaction = NoTran], client |-> w.client]
           /\ Dropped(w) \in World
  <1>1. NoTran \in Transaction
    BY EmptySeq DEF NoTran, Transaction
  <1>2. [w.conn EXCEPT !.transaction = NoTran] \in Connection
    BY <1>1, WorldFields DEF Connection
  <1>. QED
    BY <1>2, WorldFields DEF Dropped, World

LEMMA ResumeWorld ==
    ASSUME NEW w \in World, Open(w.conn)
    PROVE  /\ resume(w) =
                [conn |-> [w.conn EXCEPT !.paused = FALSE,
                             !.state = IF w.conn.prev_state = "null" THEN w.conn.state
                                      ELSE w.conn.prev_state,
                             !.prev_state = "null", !.loop = TRUE],
                 client |-> w.client]
           /\ resume(w) \in World
  <1>. DEFINE c == [w.conn EXCEPT !.paused = FALSE,
                      !.state = IF w.conn.prev_state = "null" THEN w.conn.state
                                      ELSE w.conn.prev_state,
                      !.prev_state = "null", !.loop = TRUE]
  <1>1. resume(w) = [conn |-> c, client |-> w.client]
    <2>. DEFINE p == [w.conn EXCEPT !.paused = FALSE]
                e == IF w.conn.prev_state = "null" THEN w.conn.state ELSE w.conn.prev_state
    <2>1. p.state = w.conn.state
      BY WorldFields DEF Connection
    <2>2. (IF w.conn.prev_state = "null" THEN p.state ELSE w.conn.prev_state) = e
      BY <2>1
    <2>3. [w EXCEPT !.conn = p].conn.state = w.conn.state
      BY <2>1, WorldFields
    <2>4. resume(w) = [w EXCEPT !.conn.paused = FALSE, !.conn.state = e,
                                !.conn.prev_state = "null", !.conn.loop = TRUE]
      BY <2>2, <2>3, WorldFields DEF resume
    <2>5. c = [w.conn EXCEPT !.paused = FALSE, !.state = e, !.prev_state = "null",
                             !.loop = TRUE]
      OBVIOUS
    <2>. HIDE DEF c, e, p
    <2>. QED
      BY <2>4, <2>5 DEF World
  <1>2. c \in Connection
    <2>1. w.conn \in Connection
      BY WorldFields
    <2>2. (IF w.conn.prev_state = "null" THEN w.conn.state ELSE w.conn.prev_state) \in States
      BY <2>1 DEF Connection, States
    <2>. QED
      BY <2>1, <2>2 DEF Connection
  <1>. HIDE DEF c
  <1>3. resume(w) \in World
    BY <1>1, <1>2, WorldFields DEF World
  <1>. QED
    BY <1>1, <1>3 DEF c

LEMMA CancelWorld ==
    ASSUME NEW w \in World
    PROVE  /\ cancel_current(w) =
                [conn |-> [w.conn EXCEPT !.hooks = @ \ w.conn.current_hook, !.current_hook = {}],
                 client |-> w.client]
           /\ cancel_current(w) \in World
  <1>. DEFINE c == [w.conn EXCEPT !.hooks = @ \ w.conn.current_hook, !.current_hook = {}]
  <1>1. cancel_current(w) = [conn |-> c, client |-> w.client]
    <2>. DEFINE hs == w.conn.hooks \ w.conn.current_hook
    <2>1. cancel_current(w) = [w EXCEPT !.conn.hooks = hs, !.conn.current_hook = {}]
      BY DEF cancel_current
    <2>2. c = [w.conn EXCEPT !.hooks = hs, !.current_hook = {}]
      OBVIOUS
    <2>. HIDE DEF hs, c
    <2>. QED
      BY <2>1, <2>2 DEF World
  <1>2. c \in Connection
    BY WorldFields DEF Connection
  <1>. HIDE DEF c
  <1>3. cancel_current(w) \in World
    BY <1>1, <1>2, WorldFields DEF World
  <1>. QED
    BY <1>1, <1>3 DEF c

LEMMA CancelFields ==
    ASSUME NEW w \in World, NEW v, v = cancel_current(w)
    PROVE  /\ v \in World /\ v.client = w.client
           /\ v.conn.hooks = w.conn.hooks \ w.conn.current_hook /\ v.conn.current_hook = {}
           /\ v.conn.state = w.conn.state /\ v.conn.transaction = w.conn.transaction
           /\ v.conn.thrown = w.conn.thrown
  <1>1. w.conn \in Connection
    BY WorldFields
  <1>. DEFINE c == [w.conn EXCEPT !.hooks = @ \ w.conn.current_hook, !.current_hook = {}]
  <1>2. v = [conn |-> c, client |-> w.client] /\ v \in World
    BY CancelWorld
  <1>3. c.hooks = w.conn.hooks \ w.conn.current_hook /\ c.current_hook = {}
        /\ c.state = w.conn.state /\ c.transaction = w.conn.transaction
        /\ c.thrown = w.conn.thrown
    BY <1>1 DEF Connection
  <1>. HIDE DEF c
  <1>. QED
    BY <1>2, <1>3

LEMMA StateWorld ==
    ASSUME NEW w \in World, NEW s \in States
    PROVE  /\ [w EXCEPT !.conn.state = s] =
                [conn |-> [w.conn EXCEPT !.state = s], client |-> w.client]
           /\ [w EXCEPT !.conn.state = s] \in World
  <1>1. [w.conn EXCEPT !.state = s] \in Connection
    BY WorldFields DEF Connection
  <1>. QED
    BY <1>1, WorldFields DEF World

(* After disconnect only what cannot be cancelled calls back.              *)
Leaving(w) ==
    /\ Sane(w) /\ Open(w.conn)
    /\ \A h \in w.conn.hooks : h.hook \in Late \/ h \in w.conn.current_hook
    /\ w.client.replied <= w.client.sent
    /\ w.client.told \subseteq w.client.queued

LEMMA DisconnectGone ==
    ASSUME Plain, NEW w, Leaving(w)
    PROVE  Gone(disconnect(w))
  <1>. DEFINE v == [w EXCEPT !.conn.state = "DISCONNECTING"]
              x == IF NoReset(v) THEN v ELSE cancel_current(v)
              y == Dropped(x)
              z == cancel_current(y)
  <1>1. w \in World /\ ~w.conn.transaction.resetting /\ Open(w.conn)
    BY DEF Leaving, Sane, Plausible
  <1>2. v \in World /\ v = [conn |-> [w.conn EXCEPT !.state = "DISCONNECTING"],
                            client |-> w.client]
    BY <1>1, StateWorld DEF States
  <1>3. x \in World /\ x.client = w.client /\ x.conn.thrown = w.conn.thrown
        /\ \/ x.conn.hooks = w.conn.hooks /\ x.conn.current_hook = w.conn.current_hook
           \/ x.conn.hooks = w.conn.hooks \ w.conn.current_hook /\ x.conn.current_hook = {}
    <2>1. v.client = w.client /\ v.conn.thrown = w.conn.thrown /\ v.conn.hooks = w.conn.hooks
          /\ v.conn.current_hook = w.conn.current_hook
      BY <1>1, <1>2, WorldFields DEF Connection
    <2>. HIDE DEF v
    <2>2. cancel_current(v) \in World /\ cancel_current(v).client = w.client
          /\ cancel_current(v).conn.thrown = w.conn.thrown
          /\ cancel_current(v).conn.hooks = w.conn.hooks \ w.conn.current_hook
          /\ cancel_current(v).conn.current_hook = {}
      BY <1>2, <2>1, CancelFields
    <2>. QED
      BY <1>2, <2>1, <2>2
  <1>4. disconnect(w) = [z EXCEPT !.conn.state = "DISCONNECTED"]
    BY <1>1 DEF disconnect, reset_transaction, reset_transaction_respond, continue,
      run_disconnect, disconnect_respond, Dropped, Plain
  <1>. HIDE DEF v, x
  <1>5. y \in World /\ y.client = w.client /\ y.conn.transaction = NoTran
        /\ y.conn.hooks = x.conn.hooks /\ y.conn.current_hook = x.conn.current_hook
        /\ y.conn.thrown = w.conn.thrown
    BY <1>3, DroppedWorld, WorldFields DEF Connection
  <1>. HIDE DEF y
  <1>6. z \in World /\ z.client = w.client /\ z.conn.transaction = NoTran
        /\ z.conn.hooks = y.conn.hooks \ y.conn.current_hook /\ z.conn.thrown = w.conn.thrown
    BY <1>5, CancelFields DEF z
  <1>. HIDE DEF z
  <1>. DEFINE d == [z EXCEPT !.conn.state = "DISCONNECTED"]
  <1>7. d \in World /\ d.client = w.client /\ d.conn.state = "DISCONNECTED"
        /\ d.conn.transaction = NoTran /\ d.conn.hooks = z.conn.hooks
        /\ d.conn.thrown = w.conn.thrown
    <2>1. z.conn \in Connection
      BY <1>6, WorldFields
    <2>. DEFINE c == [z.conn EXCEPT !.state = "DISCONNECTED"]
    <2>2. d \in World /\ d = [conn |-> c, client |-> z.client]
      BY <1>6, StateWorld DEF States
    <2>. QED
      BY <1>6, <2>1, <2>2 DEF Connection
  <1>. HIDE DEF d
  <1>8. d.conn.hooks = w.conn.hooks \ w.conn.current_hook
    BY <1>3, <1>5, <1>6, <1>7
  <1>9. Gone(d)
    BY <1>7, <1>8 DEF Gone, Leaving, Sane, Plausible, NoTran
  <1>. QED
    BY <1>4, <1>9 DEF d

Called(hook, n) == [hook |-> hook, n |-> n, cb |-> "none"]

LEMMA RunHookWorld ==
    ASSUME NEW w \in World, NEW hook \in Hooks, NEW n \in Nat
    PROVE  /\ Called(hook, n) \in Hook
           /\ run_hook(w, hook, n) =
                [conn |-> [w.conn EXCEPT !.hooks = @ \cup {Called(hook, n)},
                                         !.current_hook = {Called(hook, n)}],
                 client |-> w.client]
           /\ run_hook(w, hook, n) \in World
           /\ wait_for(w, hook, n) =
                [conn |-> [w.conn EXCEPT !.hooks = @ \cup {Called(hook, n)}], client |-> w.client]
           /\ wait_for(w, hook, n) \in World
  <1>. DEFINE c == [w.conn EXCEPT !.hooks = @ \cup {Called(hook, n)},
                                  !.current_hook = {Called(hook, n)}]
              d == [w.conn EXCEPT !.hooks = @ \cup {Called(hook, n)}]
  <1>1. Called(hook, n) \in Hook
    BY DEF Called, Hook, Continuations
  <1>2. run_hook(w, hook, n) = [conn |-> c, client |-> w.client]
    <2>. DEFINE hs == w.conn.hooks \cup {Called(hook, n)}
                g == {Called(hook, n)}
    <2>1. run_hook(w, hook, n) = [w EXCEPT !.conn.hooks = hs, !.conn.current_hook = g]
      BY DEF run_hook, Called
    <2>2. c = [w.conn EXCEPT !.hooks = hs, !.current_hook = g]
      OBVIOUS
    <2>. HIDE DEF hs, g, c
    <2>. QED
      BY <2>1, <2>2 DEF World
  <1>3. wait_for(w, hook, n) = [conn |-> d, client |-> w.client]
    BY DEF wait_for, Called, World
  <1>4. c \in Connection
    BY <1>1, WorldFields DEF Connection
  <1>5. d \in Connection
    BY <1>1, WorldFields DEF Connection
  <1>. HIDE DEF c, d
  <1>6. run_hook(w, hook, n) \in World /\ wait_for(w, hook, n) \in World
    BY <1>2, <1>3, <1>4, <1>5, WorldFields DEF World
  <1>. QED
    BY <1>1, <1>2, <1>3, <1>6 DEF c, d

LEMMA NoTranFields == NoTran \in Transaction /\ ~NoTran.there /\ Plausible(NoTran)
  BY EmptySeq DEF NoTran, Transaction, Plausible

AfterReply(w) == IF w.conn.state = "LOOP" THEN "LOOP" ELSE "CMD"

LEMMA RespondFields ==
    ASSUME NEW w \in World, w.conn.state # "DISCONNECTED", NEW n, n = Oldest(w),
           NEW v, v = respond(w, n)
    PROVE  /\ v \in World
           /\ v.conn.state = AfterReply(w)
           /\ v.conn.loop
           /\ v.conn.current_data = w.conn.current_data
           /\ v.conn.transaction = w.conn.transaction
           /\ v.conn.hooks = w.conn.hooks /\ v.conn.current_hook = w.conn.current_hook
           /\ v.conn.paused = w.conn.paused /\ v.conn.thrown = w.conn.thrown
           /\ v.client.sent = w.client.sent /\ v.client.last = w.client.last
           /\ v.client.replied = n /\ v.client.inorder = w.client.inorder
           /\ v.client.accepted = w.client.accepted
           /\ v.client.told = w.client.told /\ v.client.queued = w.client.queued
  <1>. DEFINE c == [w.conn EXCEPT !.state = IF @ = "LOOP" THEN @ ELSE "CMD", !.loop = TRUE]
              k == [w.client EXCEPT !.replied = @ + 1,
                                    !.inorder = @ /\ n = w.client.replied + 1]
  <1>1. w.conn \in Connection /\ w.client \in Client
    BY WorldFields
  <1>2. v = [conn |-> c, client |-> k] /\ v \in World
    BY RespondIs, RespondWorld
  <1>. USE DEF Oldest, AfterReply
  <1>3. /\ c.state = AfterReply(w)
        /\ c.loop /\ c.current_data = w.conn.current_data
        /\ c.transaction = w.conn.transaction
        /\ c.hooks = w.conn.hooks /\ c.current_hook = w.conn.current_hook
        /\ c.paused = w.conn.paused /\ c.thrown = w.conn.thrown
    BY <1>1 DEF Connection
  <1>4. /\ k.sent = w.client.sent /\ k.last = w.client.last
        /\ k.replied = n /\ k.inorder = w.client.inorder
        /\ k.accepted = w.client.accepted
        /\ k.told = w.client.told /\ k.queued = w.client.queued
    <2>1. w.client.inorder \in BOOLEAN
      BY <1>1 DEF Client
    <2>2. k = [w.client EXCEPT !.replied = n, !.inorder = w.client.inorder]
      BY <2>1
    <2>. HIDE DEF k
    <2>. QED
      BY <1>1, <2>2 DEF Client
  <1>. HIDE DEF c, k
  <1>. QED
    BY <1>2, <1>3, <1>4

LEMMA DroppedFields ==
    ASSUME NEW w \in World, NEW v, v = Dropped(w)
    PROVE  /\ v \in World
           /\ v.conn.transaction = NoTran
           /\ v.conn.state = w.conn.state /\ v.conn.loop = w.conn.loop
           /\ v.conn.current_data = w.conn.current_data
           /\ v.conn.hooks = w.conn.hooks /\ v.conn.current_hook = w.conn.current_hook
           /\ v.conn.paused = w.conn.paused /\ v.conn.thrown = w.conn.thrown
           /\ v.client = w.client
  <1>. DEFINE c == [w.conn EXCEPT !.transaction = NoTran]
  <1>1. w.conn \in Connection
    BY WorldFields
  <1>2. v = [conn |-> c, client |-> w.client] /\ v \in World
    BY DroppedWorld
  <1>3. /\ c.transaction = NoTran
        /\ c.state = w.conn.state /\ c.loop = w.conn.loop
        /\ c.current_data = w.conn.current_data
        /\ c.hooks = w.conn.hooks /\ c.current_hook = w.conn.current_hook
        /\ c.paused = w.conn.paused /\ c.thrown = w.conn.thrown
    BY <1>1 DEF Connection
  <1>. HIDE DEF c
  <1>. QED
    BY <1>2, <1>3

LEMMA ResumeFields ==
    ASSUME NEW w \in World, w.conn.state = "CMD", NEW v, v = resume(w)
    PROVE  /\ v \in World
           /\ v.conn.state = "CMD" /\ v.conn.loop /\ ~v.conn.paused
           /\ v.conn.transaction = w.conn.transaction
           /\ v.conn.current_data = w.conn.current_data
           /\ v.conn.hooks = w.conn.hooks /\ v.conn.current_hook = w.conn.current_hook
           /\ v.conn.thrown = w.conn.thrown
           /\ v.client = w.client
  <1>. DEFINE c == [w.conn EXCEPT !.paused = FALSE,
                      !.state = IF w.conn.prev_state = "null" THEN w.conn.state
                                ELSE w.conn.prev_state,
                      !.prev_state = "null", !.loop = TRUE]
  <1>1. w.conn \in Connection
    BY WorldFields
  <1>2. v = [conn |-> c, client |-> w.client] /\ v \in World
    BY ResumeWorld DEF Open
  <1>3. /\ c.state = "CMD" /\ c.loop /\ ~c.paused
        /\ c.transaction = w.conn.transaction
        /\ c.current_data = w.conn.current_data
        /\ c.hooks = w.conn.hooks /\ c.current_hook = w.conn.current_hook
        /\ c.thrown = w.conn.thrown
    BY <1>1 DEF Connection
  <1>. HIDE DEF c
  <1>. QED
    BY <1>2, <1>3

LEMMA RunHookFields ==
    ASSUME NEW w \in World, w.conn.hooks = {},
           NEW hook \in Hooks, NEW n \in Nat, NEW h, h = Called(hook, n),
           NEW v, v = run_hook(w, hook, n)
    PROVE  /\ v \in World /\ h \in Hook
           /\ v.conn.hooks = {h} /\ v.conn.current_hook = {h}
           /\ v.conn.state = w.conn.state
           /\ v.conn.transaction = w.conn.transaction
           /\ v.conn.current_data = w.conn.current_data
           /\ v.conn.paused = w.conn.paused /\ v.conn.thrown = w.conn.thrown
           /\ v.client = w.client
  <1>. DEFINE c == [w.conn EXCEPT !.hooks = @ \cup {h}, !.current_hook = {h}]
  <1>1. w.conn \in Connection
    BY WorldFields
  <1>2. h \in Hook /\ v \in World
    BY RunHookWorld
  <1>3. v = [conn |-> c, client |-> w.client]
    BY RunHookWorld
  <1>4. /\ c.hooks = {h} /\ c.current_hook = {h}
        /\ c.state = w.conn.state /\ c.transaction = w.conn.transaction
        /\ c.current_data = w.conn.current_data
        /\ c.paused = w.conn.paused /\ c.thrown = w.conn.thrown
    BY <1>1 DEF Connection
  <1>. HIDE DEF c
  <1>. QED
    BY <1>2, <1>3, <1>4

LEMMA WaitForFields ==
    ASSUME NEW w \in World, w.conn.hooks = {}, w.conn.current_hook = {},
           NEW hook \in Hooks, NEW n \in Nat, NEW h, h = Called(hook, n),
           NEW v, v = wait_for(w, hook, n)
    PROVE  /\ v \in World /\ h \in Hook
           /\ v.conn.hooks = {h} /\ v.conn.current_hook = {}
           /\ v.conn.state = w.conn.state
           /\ v.conn.transaction = w.conn.transaction
           /\ v.conn.current_data = w.conn.current_data
           /\ v.conn.paused = w.conn.paused /\ v.conn.thrown = w.conn.thrown
           /\ v.client = w.client
  <1>. DEFINE c == [w.conn EXCEPT !.hooks = @ \cup {h}]
  <1>1. w.conn \in Connection
    BY WorldFields
  <1>2. h \in Hook /\ v \in World
    BY RunHookWorld
  <1>3. v = [conn |-> c, client |-> w.client]
    BY RunHookWorld
  <1>4. /\ c.hooks = {h} /\ c.current_hook = {}
        /\ c.state = w.conn.state /\ c.transaction = w.conn.transaction
        /\ c.current_data = w.conn.current_data
        /\ c.paused = w.conn.paused /\ c.thrown = w.conn.thrown
    BY <1>1 DEF Connection
  <1>. HIDE DEF c
  <1>. QED
    BY <1>2, <1>3, <1>4

----------------------------------------------------------------------------
(* A line that was answered.                                               *)

(* No plugin is asked.                                                     *)
Alone(w) == w.conn.hooks = {} /\ w.conn.current_hook = {}

LEMMA RespondServes ==
    ASSUME NEW w, NEW n, Sane(w), Behind(w, n), Alone(w), Agreed(w),
           w.client.queued = w.client.told,
           w.conn.state = "LOOP" => ~w.conn.transaction.there /\ ~w.conn.paused,
           w.conn.paused => w.conn.current_data = <<>> /\ w.client.last \in {"BIG", "MANY"}
    PROVE  Serving(respond(w, n))
  <1>. PICK v : v = respond(w, n)
    OBVIOUS
  <1>1. w \in World /\ w.conn.state # "DISCONNECTED" /\ n = Oldest(w)
    BY DEF Sane, Behind, Open
  <1>2. /\ v \in World
        /\ v.conn.state = AfterReply(w)
        /\ v.conn.loop /\ v.conn.current_data = w.conn.current_data
        /\ v.conn.transaction = w.conn.transaction
        /\ v.conn.hooks = w.conn.hooks /\ v.conn.current_hook = w.conn.current_hook
        /\ v.conn.paused = w.conn.paused /\ v.conn.thrown = w.conn.thrown
        /\ v.client.sent = w.client.sent /\ v.client.last = w.client.last
        /\ v.client.replied = n
        /\ v.client.inorder = w.client.inorder
        /\ v.client.accepted = w.client.accepted
        /\ v.client.told = w.client.told /\ v.client.queued = w.client.queued
    BY <1>1, RespondFields
  <1>3. Numbered(v.conn.current_data, Oldest(v), v.client.sent)
    BY <1>2 DEF Behind, Oldest
  <1>4. Reading(v)
    BY <1>2 DEF Reading, Behind, AfterReply
  <1>5. Sane(v) /\ Agreed(v)
    BY <1>2 DEF Sane, Agreed
  <1>6. Serving(v)
    BY <1>2, <1>3, <1>4, <1>5 DEF Serving, Alone
  <1>. QED
    BY <1>6

LEMMA RejectServes ==
    ASSUME Plain, NEW w, NEW n, Sane(w), Behind(w, n), Alone(w),
           w.client.queued = w.client.told, w.conn.state # "LOOP",
           w.conn.paused => w.conn.current_data = <<>> /\ w.client.last \in {"BIG", "MANY"}
    PROVE  Serving(reject(w, n))
  <1>. PICK v : v = respond(w, n)
    OBVIOUS
  <1>. DEFINE x == Dropped(v)
  <1>1. w \in World /\ w.conn.state # "DISCONNECTED" /\ n = Oldest(w)
    BY DEF Sane, Behind, Open
  <1>2. /\ v \in World /\ v.conn.state = "CMD"
        /\ v.conn.loop /\ v.conn.current_data = w.conn.current_data
        /\ v.conn.hooks = {} /\ v.conn.current_hook = {}
        /\ v.conn.paused = w.conn.paused /\ v.conn.thrown = w.conn.thrown
        /\ v.client.sent = w.client.sent /\ v.client.last = w.client.last
        /\ v.client.replied = n
        /\ v.client.inorder = w.client.inorder
        /\ v.client.told = w.client.told /\ v.client.queued = w.client.queued
    BY <1>1, RespondFields DEF Alone, AfterReply
  <1>3. reject(w, n) = x
    <2>1. reset_transaction(v, "none", n) = continue(x, "none", n)
      BY <1>2, ResetIs
    <2>. QED
      BY <2>1 DEF reject, continue
  <1>4. /\ x \in World /\ x.conn.transaction = NoTran
        /\ x.conn.state = "CMD"
        /\ x.conn.loop /\ x.conn.current_data = w.conn.current_data
        /\ x.conn.hooks = {} /\ x.conn.current_hook = {}
        /\ x.conn.paused = w.conn.paused /\ x.conn.thrown = w.conn.thrown
        /\ x.client = v.client
    BY <1>2, DroppedFields
  <1>. HIDE DEF x
  <1>5. Numbered(x.conn.current_data, Oldest(x), x.client.sent)
    BY <1>2, <1>4 DEF Behind, Oldest
  <1>6. Reading(x)
    BY <1>2, <1>4 DEF Reading, Behind
  <1>7. Sane(x) /\ Agreed(x)
    BY NoTranFields, <1>2, <1>4 DEF Sane, Agreed
  <1>8. Serving(x)
    BY <1>2, <1>4, <1>5, <1>6, <1>7 DEF Serving
  <1>. QED
    BY <1>3, <1>8

LEMMA ResumeServes ==
    ASSUME Plain, NEW w, NEW n, Sane(w), Behind(w, n), Alone(w),
           w.client.queued = w.client.told, w.conn.state = "PAUSE_DATA"
    PROVE  Serving(resume_after(w, n))
  <1>. PICK v : v = respond(w, n)
    OBVIOUS
  <1>. DEFINE x == Dropped(v)
              y == resume(x)
  <1>1. w \in World /\ w.conn.state # "DISCONNECTED" /\ n = Oldest(w)
    BY DEF Sane, Behind, Open
  <1>2. /\ v \in World /\ v.conn.state = "CMD"
        /\ v.conn.loop /\ v.conn.current_data = w.conn.current_data
        /\ v.conn.hooks = {} /\ v.conn.current_hook = {}
        /\ v.conn.thrown = w.conn.thrown
        /\ v.client.sent = w.client.sent /\ v.client.last = w.client.last
        /\ v.client.replied = n
        /\ v.client.inorder = w.client.inorder
        /\ v.client.told = w.client.told /\ v.client.queued = w.client.queued
    BY <1>1, RespondFields DEF Alone, AfterReply
  <1>3. resume_after(w, n) = y
    <2>1. reset_transaction(v, "resume", n) = continue(x, "resume", n)
      BY <1>2, ResetIs
    <2>. QED
      BY <2>1 DEF resume_after, continue
  <1>4. /\ x \in World /\ x.conn.transaction = NoTran
        /\ x.conn.state = "CMD"
        /\ x.conn.current_data = w.conn.current_data
        /\ x.conn.hooks = {} /\ x.conn.current_hook = {}
        /\ x.conn.thrown = w.conn.thrown
        /\ x.client = v.client
    BY <1>2, DroppedFields
  <1>. HIDE DEF x
  <1>5. /\ y \in World /\ y.conn.transaction = NoTran
        /\ y.conn.state = "CMD" /\ y.conn.loop /\ ~y.conn.paused
        /\ y.conn.current_data = w.conn.current_data
        /\ y.conn.hooks = {} /\ y.conn.current_hook = {}
        /\ y.conn.thrown = w.conn.thrown
        /\ y.client = v.client
    BY <1>4, ResumeFields
  <1>. HIDE DEF y
  <1>6. Numbered(y.conn.current_data, Oldest(y), y.client.sent)
    BY <1>2, <1>5 DEF Behind, Oldest
  <1>7. Reading(y)
    BY <1>2, <1>5 DEF Reading, Behind
  <1>8. Sane(y) /\ Agreed(y)
    BY NoTranFields, <1>2, <1>5 DEF Sane, Agreed
  <1>9. Serving(y)
    BY <1>2, <1>5, <1>6, <1>7, <1>8 DEF Serving
  <1>. QED
    BY <1>3, <1>9

LEMMA BehindReplied ==
    ASSUME NEW w \in World, NEW n, Behind(w, n)
    PROVE  /\ n \in Nat /\ w.client.replied \in Nat /\ w.client.sent \in Nat
           /\ n <= w.client.sent
  <1>. DEFINE s == Len(w.conn.current_data)
              r == w.client.replied
              t == w.client.sent
  <1>1. r \in Nat /\ t \in Nat
    BY WorldFields DEF Client
  <1>2. w.conn.current_data \in Seq(Line)
    BY WorldFields DEF Connection
  <1>3. s \in Nat
    BY <1>2, LenProperties
  <1>4. t + 1 = n + 1 + s /\ n = r + 1
    BY DEF Behind, Numbered, Oldest
  <1>. HIDE DEF s, r, t
  <1>5. n \in Nat /\ n <= t
    BY <1>1, <1>3, <1>4
  <1>. QED
    BY <1>1, <1>5 DEF r, t

LEMMA HangUpGone ==
    ASSUME Plain, NEW w, NEW n, Sane(w), Behind(w, n), Alone(w),
           w.client.told \subseteq w.client.queued
    PROVE  Gone(hang_up(w, n))
  <1>. PICK v : v = respond(w, n)
    OBVIOUS
  <1>1. w \in World /\ Open(w.conn) /\ w.conn.state # "DISCONNECTED"
        /\ n = Oldest(w)
    BY DEF Sane, Behind, Open
  <1>2. /\ v \in World
        /\ v.conn.state = AfterReply(w)
        /\ v.conn.hooks = {} /\ v.conn.thrown = w.conn.thrown
        /\ v.conn.transaction = w.conn.transaction
        /\ v.client.sent = w.client.sent /\ v.client.replied = n
        /\ v.client.inorder = w.client.inorder
        /\ v.client.told = w.client.told /\ v.client.queued = w.client.queued
    BY <1>1, RespondFields DEF Alone, AfterReply
  <1>3. v.client.replied <= v.client.sent
    BY <1>1, <1>2, BehindReplied
  <1>4. Open(v.conn)
    BY <1>2 DEF Open, AfterReply
  <1>5. Leaving(v)
    BY <1>2, <1>3, <1>4 DEF Leaving, Sane
  <1>. QED
    BY <1>5, DisconnectGone DEF hang_up

----------------------------------------------------------------------------
(* What a handler may change before it asks or answers.                    *)

(* The line n, or the answer of its plugins, is being handled.             *)
Handling(w, n) == Sane(w) /\ Behind(w, n) /\ Alone(w)

WithState(w, s) == [w EXCEPT !.conn.state = s]
WithHello(w, b) == [w EXCEPT !.conn.hello_host = b]
WithTransaction(w, t) == [w EXCEPT !.conn.transaction = t]
WithAccepted(w, s) == [w EXCEPT !.client.accepted = s]
WithQueued(w, Q) == [w EXCEPT !.client.queued = Q]
WithTold(w, T) == [w EXCEPT !.client.told = T]

LEMMA ConnUpdate ==
    ASSUME NEW w, NEW n, Handling(w, n), NEW c \in Connection,
           NEW v, v = [conn |-> c, client |-> w.client], Open(c),
           c.current_data = w.conn.current_data, c.hooks = w.conn.hooks,
           c.current_hook = w.conn.current_hook, c.thrown = w.conn.thrown,
           Plausible(c.transaction)
    PROVE  Handling(v, n) /\ v.conn = c /\ v.client = w.client
  <1>1. v.conn = c /\ v.client = w.client
    OBVIOUS
  <1>2. v \in World
    BY WorldFields DEF World, Handling, Sane
  <1>3. Sane(v) /\ Alone(v)
    BY <1>1, <1>2 DEF Handling, Sane, Alone
  <1>4. Behind(v, n)
    BY <1>1 DEF Handling, Behind, Oldest
  <1>. QED
    BY <1>1, <1>3, <1>4 DEF Handling

LEMMA StateUpdate ==
    ASSUME NEW w, NEW n, Handling(w, n), NEW s \in States \ {"DISCONNECTING", "DISCONNECTED"},
           NEW v, v = WithState(w, s)
    PROVE  /\ Handling(v, n)
           /\ v.conn.state = s /\ v.conn.transaction = w.conn.transaction
           /\ v.conn.paused = w.conn.paused
           /\ v.conn.current_data = w.conn.current_data
           /\ v.client = w.client
  <1>. DEFINE c == [w.conn EXCEPT !.state = s]
  <1>1. w \in World /\ w.conn \in Connection /\ Plausible(w.conn.transaction)
    BY WorldFields DEF Handling, Sane
  <1>2. v = [conn |-> c, client |-> w.client]
    BY <1>1, StateWorld DEF WithState
  <1>3. c \in Connection
    BY <1>1 DEF Connection
  <1>4. /\ c.state = s /\ c.transaction = w.conn.transaction
        /\ c.paused = w.conn.paused /\ c.current_data = w.conn.current_data
        /\ c.hooks = w.conn.hooks /\ c.current_hook = w.conn.current_hook
        /\ c.thrown = w.conn.thrown
    BY <1>1 DEF Connection
  <1>. HIDE DEF c
  <1>5. Open(c)
    BY <1>4 DEF Open
  <1>6. Handling(v, n) /\ v.conn = c /\ v.client = w.client
    BY <1>1, <1>2, <1>3, <1>4, <1>5, ConnUpdate
  <1>. QED
    BY <1>4, <1>6

LEMMA HelloUpdate ==
    ASSUME NEW w, NEW n, Handling(w, n), NEW b \in BOOLEAN,
           NEW v, v = WithHello(w, b)
    PROVE  /\ Handling(v, n)
           /\ v.conn.state = w.conn.state /\ v.conn.transaction = w.conn.transaction
           /\ v.conn.paused = w.conn.paused
           /\ v.conn.current_data = w.conn.current_data
           /\ v.client = w.client
  <1>. DEFINE c == [w.conn EXCEPT !.hello_host = b]
  <1>1. w \in World /\ w.conn \in Connection /\ Plausible(w.conn.transaction) /\ Open(w.conn)
    BY WorldFields DEF Handling, Sane, Behind
  <1>2. v = [conn |-> c, client |-> w.client]
    BY <1>1 DEF World, WithHello
  <1>3. c \in Connection
    BY <1>1 DEF Connection
  <1>4. /\ c.state = w.conn.state /\ c.transaction = w.conn.transaction
        /\ c.paused = w.conn.paused /\ c.current_data = w.conn.current_data
        /\ c.hooks = w.conn.hooks /\ c.current_hook = w.conn.current_hook
        /\ c.thrown = w.conn.thrown
    BY <1>1 DEF Connection
  <1>. HIDE DEF c
  <1>5. Open(c)
    BY <1>1, <1>4 DEF Open
  <1>6. Handling(v, n) /\ v.conn = c /\ v.client = w.client
    BY <1>1, <1>2, <1>3, <1>4, <1>5, ConnUpdate
  <1>. QED
    BY <1>4, <1>6

LEMMA TransactionUpdate ==
    ASSUME NEW w, NEW n, Handling(w, n), NEW t, t \in Transaction, Plausible(t),
           NEW v, v = WithTransaction(w, t)
    PROVE  /\ Handling(v, n)
           /\ v.conn.state = w.conn.state /\ v.conn.transaction = t
           /\ v.conn.paused = w.conn.paused
           /\ v.conn.current_data = w.conn.current_data
           /\ v.client = w.client
  <1>. DEFINE c == [w.conn EXCEPT !.transaction = t]
  <1>1. w \in World /\ w.conn \in Connection /\ Open(w.conn)
    BY WorldFields DEF Handling, Sane, Behind
  <1>2. v = [conn |-> c, client |-> w.client]
    BY <1>1 DEF World, WithTransaction
  <1>3. c \in Connection
    BY <1>1 DEF Connection
  <1>4. /\ c.state = w.conn.state /\ c.transaction = t
        /\ c.paused = w.conn.paused /\ c.current_data = w.conn.current_data
        /\ c.hooks = w.conn.hooks /\ c.current_hook = w.conn.current_hook
        /\ c.thrown = w.conn.thrown
    BY <1>1 DEF Connection
  <1>. HIDE DEF c
  <1>5. Open(c)
    BY <1>1, <1>4 DEF Open
  <1>6. Handling(v, n) /\ v.conn = c /\ v.client = w.client
    BY <1>1, <1>2, <1>3, <1>4, <1>5, ConnUpdate
  <1>. QED
    BY <1>4, <1>6

LEMMA PauseUpdate ==
    ASSUME NEW w, NEW n, Handling(w, n), w.conn.state = "CMD", NEW v, v = pause(w)
    PROVE  /\ Handling(v, n)
           /\ v.conn.state = "PAUSE_DATA" /\ v.conn.transaction = w.conn.transaction
           /\ v.conn.paused
           /\ v.conn.current_data = w.conn.current_data
           /\ v.client = w.client
  <1>. DEFINE c == [w.conn EXCEPT !.paused = TRUE, !.prev_state = "CMD", !.state = "PAUSE_DATA"]
  <1>1. w \in World /\ w.conn \in Connection /\ Plausible(w.conn.transaction)
    BY WorldFields DEF Handling, Sane
  <1>2. v = [conn |-> c, client |-> w.client]
    <2>1. v = [w EXCEPT !.conn.paused = TRUE, !.conn.prev_state = "CMD",
                        !.conn.state = "PAUSE_DATA"]
      BY <1>1 DEF pause, Open, World, Connection
    <2>. QED
      BY <1>1, <2>1 DEF World
  <1>3. c \in Connection
    BY <1>1 DEF Connection, States
  <1>4. /\ c.state = "PAUSE_DATA" /\ c.transaction = w.conn.transaction
        /\ c.paused /\ c.current_data = w.conn.current_data
        /\ c.hooks = w.conn.hooks /\ c.current_hook = w.conn.current_hook
        /\ c.thrown = w.conn.thrown
    BY <1>1 DEF Connection
  <1>. HIDE DEF c
  <1>5. Open(c)
    BY <1>4 DEF Open
  <1>6. Handling(v, n) /\ v.conn = c /\ v.client = w.client
    BY <1>1, <1>2, <1>3, <1>4, <1>5, ConnUpdate
  <1>. QED
    BY <1>4, <1>6

LEMMA ClientUpdate ==
    ASSUME NEW w, NEW n, Handling(w, n), NEW k \in Client,
           NEW v, v = [conn |-> w.conn, client |-> k],
           k.sent = w.client.sent, k.last = w.client.last, k.replied = w.client.replied,
           k.inorder = w.client.inorder
    PROVE  Handling(v, n) /\ v.conn = w.conn /\ v.client = k
  <1>1. w.conn \in Connection
    BY WorldFields DEF Handling, Sane
  <1>2. v.conn = w.conn /\ v.client = k /\ v \in World
    <2>1. v.conn = w.conn /\ v.client = k
      OBVIOUS
    <2>2. [conn |-> w.conn, client |-> k] \in World
      BY <1>1 DEF World
    <2>. QED
      BY <2>1, <2>2
  <1>3. Sane(v) /\ Alone(v)
    BY <1>2 DEF Handling, Sane, Alone
  <1>4. Behind(v, n)
    BY <1>2 DEF Handling, Behind, Oldest
  <1>. QED
    BY <1>2, <1>3, <1>4 DEF Handling

LEMMA AcceptedUpdate ==
    ASSUME NEW w, NEW n, Handling(w, n), NEW s \in Seq(Nat),
           NEW v, v = WithAccepted(w, s)
    PROVE  /\ Handling(v, n)
           /\ v.conn = w.conn
           /\ v.client.accepted = s /\ v.client.last = w.client.last
           /\ v.client.told = w.client.told /\ v.client.queued = w.client.queued
  <1>. DEFINE k == [w.client EXCEPT !.accepted = s]
  <1>1. w \in World /\ w.client \in Client
    BY WorldFields DEF Handling, Sane
  <1>2. v = [conn |-> w.conn, client |-> k]
    BY <1>1 DEF World, WithAccepted
  <1>3. k \in Client
    BY <1>1 DEF Client
  <1>4. /\ k.accepted = s /\ k.last = w.client.last /\ k.told = w.client.told
        /\ k.queued = w.client.queued /\ k.sent = w.client.sent
        /\ k.replied = w.client.replied /\ k.inorder = w.client.inorder
    BY <1>1 DEF Client
  <1>. HIDE DEF k
  <1>. QED
    BY <1>2, <1>3, <1>4, ClientUpdate

LEMMA QueuedUpdate ==
    ASSUME NEW w, NEW n, Handling(w, n), NEW Q \in SUBSET Nat,
           NEW v, v = WithQueued(w, Q)
    PROVE  /\ Handling(v, n)
           /\ v.conn = w.conn
           /\ v.client.queued = Q /\ v.client.last = w.client.last
           /\ v.client.accepted = w.client.accepted /\ v.client.told = w.client.told
  <1>. DEFINE k == [w.client EXCEPT !.queued = Q]
  <1>1. w \in World /\ w.client \in Client
    BY WorldFields DEF Handling, Sane
  <1>2. v = [conn |-> w.conn, client |-> k]
    BY <1>1 DEF World, WithQueued
  <1>3. k \in Client
    BY <1>1 DEF Client
  <1>4. /\ k.queued = Q /\ k.last = w.client.last /\ k.accepted = w.client.accepted
        /\ k.told = w.client.told /\ k.sent = w.client.sent
        /\ k.replied = w.client.replied /\ k.inorder = w.client.inorder
    BY <1>1 DEF Client
  <1>. HIDE DEF k
  <1>. QED
    BY <1>2, <1>3, <1>4, ClientUpdate

LEMMA ToldUpdate ==
    ASSUME NEW w, NEW n, Handling(w, n), NEW T \in SUBSET Nat,
           NEW v, v = WithTold(w, T)
    PROVE  /\ Handling(v, n)
           /\ v.conn = w.conn
           /\ v.client.told = T /\ v.client.last = w.client.last
           /\ v.client.accepted = w.client.accepted /\ v.client.queued = w.client.queued
  <1>. DEFINE k == [w.client EXCEPT !.told = T]
  <1>1. w \in World /\ w.client \in Client
    BY WorldFields DEF Handling, Sane
  <1>2. v = [conn |-> w.conn, client |-> k]
    BY <1>1 DEF World, WithTold
  <1>3. k \in Client
    BY <1>1 DEF Client
  <1>4. /\ k.told = T /\ k.last = w.client.last /\ k.accepted = w.client.accepted
        /\ k.queued = w.client.queued /\ k.sent = w.client.sent
        /\ k.replied = w.client.replied /\ k.inorder = w.client.inorder
    BY <1>1 DEF Client
  <1>. HIDE DEF k
  <1>. QED
    BY <1>2, <1>3, <1>4, ClientUpdate

----------------------------------------------------------------------------
(* Questions and answers.                                                  *)

LEMMA HookAsks ==
    ASSUME NEW w, NEW n, Handling(w, n), NEW hook \in OfGreeting \cup OfCommand \cup OfText,
           Asked(w, hook, n),
           NEW v, v = IF hook \in Waits THEN wait_for(w, hook, n) ELSE run_hook(w, hook, n)
    PROVE  Good(v)
  <1>1. PICK h : h = Called(hook, n)
    OBVIOUS
  <1>2. w \in World /\ w.conn.hooks = {} /\ w.conn.current_hook = {} /\ Behind(w, n)
    BY DEF Handling, Sane, Alone
  <1>3. n \in Nat /\ hook \in Hooks
    BY <1>2, BehindReplied DEF OfGreeting, OfCommand, OfHello, OfText, Hooks, Waits
  <1>4. /\ v \in World /\ h \in Hook
        /\ v.conn.hooks = {h}
        /\ v.conn.current_hook = IF hook \in Waits THEN {} ELSE {h}
        /\ v.conn.state = w.conn.state
        /\ v.conn.transaction = w.conn.transaction
        /\ v.conn.current_data = w.conn.current_data
        /\ v.conn.paused = w.conn.paused /\ v.conn.thrown = w.conn.thrown
        /\ v.client = w.client
    <2>1. CASE hook \in Waits
      <3>1. v = wait_for(w, hook, n)
        BY <2>1
      <3>. QED
        BY <1>1, <1>2, <1>3, <2>1, <3>1, WaitForFields
    <2>2. CASE hook \notin Waits
      <3>1. v = run_hook(w, hook, n)
        BY <2>2
      <3>. QED
        BY <1>1, <1>2, <1>3, <2>2, <3>1, RunHookFields
    <2>. QED
      BY <2>1, <2>2
  <1>5. h.hook = hook /\ h.n = n
    BY <1>1 DEF Called
  <1>6. Behind(v, n)
    BY <1>2, <1>4 DEF Behind, Oldest, Open
  <1>7. Asked(v, hook, n)
    BY <1>4 DEF Asked, Ready, Agreed
  <1>8. Sane(v)
    BY <1>4 DEF Handling, Sane
  <1>9. Asking(v, h)
    BY <1>4, <1>5, <1>6, <1>7, <1>8 DEF Asking
  <1>. QED
    BY <1>4, <1>9 DEF Good

LEMMA RunHookGood ==
    ASSUME NEW w, NEW n, Handling(w, n),
           NEW hook \in (OfGreeting \cup OfCommand \cup OfText) \ Waits, Asked(w, hook, n)
    PROVE  Good(run_hook(w, hook, n))
  BY HookAsks

LEMMA WaitForGood ==
    ASSUME NEW w, NEW n, Handling(w, n), NEW hook \in Waits, Asked(w, hook, n)
    PROVE  Good(wait_for(w, hook, n))
  BY HookAsks DEF Waits, OfGreeting, OfText

(* After respond, with more to do.                                         *)
Answered(w) ==
    /\ Sane(w) /\ Alone(w) /\ Open(w.conn) /\ w.conn.loop
    /\ Numbered(w.conn.current_data, Oldest(w), w.client.sent)
    /\ Lasting(w.conn.current_data, w.client.last)
    /\ w.client.queued = w.client.told

LEMMA RespondAnswered ==
    ASSUME NEW w, NEW n, Handling(w, n), w.client.queued = w.client.told,
           NEW v, v = respond(w, n)
    PROVE  /\ Answered(v)
           /\ v.conn.state = AfterReply(w)
           /\ v.conn.transaction = w.conn.transaction
           /\ v.conn.paused = w.conn.paused
           /\ v.conn.current_data = w.conn.current_data
           /\ v.client.accepted = w.client.accepted /\ v.client.last = w.client.last
  <1>1. w \in World /\ w.conn.state # "DISCONNECTED" /\ n = Oldest(w)
    BY DEF Handling, Sane, Behind, Open
  <1>2. /\ v \in World /\ v.conn.state = AfterReply(w)
        /\ v.conn.loop /\ v.conn.current_data = w.conn.current_data
        /\ v.conn.transaction = w.conn.transaction
        /\ v.conn.hooks = {} /\ v.conn.current_hook = {}
        /\ v.conn.paused = w.conn.paused /\ v.conn.thrown = w.conn.thrown
        /\ v.client.sent = w.client.sent /\ v.client.last = w.client.last
        /\ v.client.replied = n
        /\ v.client.inorder = w.client.inorder
        /\ v.client.accepted = w.client.accepted
        /\ v.client.told = w.client.told /\ v.client.queued = w.client.queued
    BY <1>1, RespondFields DEF Handling, Alone
  <1>3. Sane(v) /\ Alone(v) /\ Open(v.conn)
    BY <1>2 DEF Handling, Sane, Alone, Open, AfterReply
  <1>4. Numbered(v.conn.current_data, Oldest(v), v.client.sent)
    BY <1>2 DEF Handling, Behind, Oldest
  <1>5. Lasting(v.conn.current_data, v.client.last)
    BY <1>2 DEF Handling, Behind
  <1>. QED
    BY <1>2, <1>3, <1>4, <1>5 DEF Answered

LEMMA AnsweredConn ==
    ASSUME NEW w, Answered(w), NEW c \in Connection,
           NEW v, v = [conn |-> c, client |-> w.client], Open(c), c.loop = w.conn.loop,
           c.current_data = w.conn.current_data, c.hooks = w.conn.hooks,
           c.current_hook = w.conn.current_hook, c.thrown = w.conn.thrown,
           Plausible(c.transaction)
    PROVE  Answered(v) /\ v.conn = c /\ v.client = w.client
  <1>1. v.conn = c /\ v.client = w.client
    OBVIOUS
  <1>2. v \in World
    BY WorldFields DEF World, Answered, Sane
  <1>3. Sane(v) /\ Alone(v)
    BY <1>1, <1>2 DEF Answered, Sane, Alone
  <1>. QED
    BY <1>1, <1>3 DEF Answered, Oldest

LEMMA AnsweredServes ==
    ASSUME NEW w, Answered(w), Agreed(w), Reading(w) \/ ReadingText(w)
    PROVE  Good(w)
  BY DEF Good, Serving, Answered, Alone

(* 250, 4xx or 5xx, and nothing else changes.                              *)
LEMMA RespondGood ==
    ASSUME NEW w, NEW n, Handling(w, n), Agreed(w), w.client.queued = w.client.told,
           ~w.conn.paused, w.conn.state = "LOOP" => ~w.conn.transaction.there
    PROVE  Good(respond(w, n))
  BY RespondServes DEF Handling, Good

LEMMA RejectGood ==
    ASSUME Plain, NEW w, NEW n, Handling(w, n), w.client.queued = w.client.told,
           w.conn.state # "LOOP",
           w.conn.paused => w.conn.current_data = <<>> /\ w.client.last \in {"BIG", "MANY"}
    PROVE  Good(reject(w, n))
  BY RejectServes DEF Handling, Good

LEMMA ResumeGood ==
    ASSUME Plain, NEW w, NEW n, Handling(w, n), w.client.queued = w.client.told,
           w.conn.state = "PAUSE_DATA"
    PROVE  Good(resume_after(w, n))
  BY ResumeServes DEF Handling, Good

LEMMA HangUpGood ==
    ASSUME Plain, NEW w, NEW n, Handling(w, n), w.client.queued = w.client.told
    PROVE  Good(hang_up(w, n))
  BY HangUpGone DEF Handling, Good

----------------------------------------------------------------------------
(* A line of a command.                                                    *)

LEMMA DroppedHandling ==
    ASSUME NEW w, NEW n, Handling(w, n), NEW v, v = Dropped(w)
    PROVE  /\ Handling(v, n) /\ ~v.conn.transaction.there
           /\ v.conn.state = w.conn.state /\ v.conn.paused = w.conn.paused
           /\ v.conn.current_data = w.conn.current_data
           /\ v.client = w.client
  <1>1. v = WithTransaction(w, NoTran)
    BY DEF Dropped, WithTransaction
  <1>2. NoTran \in Transaction /\ ~NoTran.there /\ Plausible(NoTran)
    BY NoTranFields
  <1>. QED
    BY <1>1, <1>2, TransactionUpdate

LEMMA ResetHandling ==
    ASSUME Plain, NEW w, NEW n, Handling(w, n), NEW cb
    PROVE  reset_transaction(w, cb, n) = continue(Dropped(w), cb, n)
  BY ResetIs DEF Handling, Sane, Alone

Taken(w, line) ==
    /\ Handling(w, line.n)
    /\ line.cmd \in Envelope
    /\ w.conn.state = "PAUSE_SMTP" \/ line.cmd = "QUIT"
    /\ w.conn.state \in {"PAUSE_SMTP", "LOOP"}
    /\ w.conn.state = "LOOP" => ~w.conn.transaction.there
    /\ ~w.conn.paused
    /\ Agreed(w)
    /\ w.client.queued = w.client.told
    /\ line.cmd \in Finals => w.conn.current_data = <<>> /\ w.client.last = line.cmd

LEMMA HelloGood ==
    ASSUME Plain, NEW w, NEW line, Taken(w, line), line.cmd \in {"HELO", "EHLO"}
    PROVE  Good(cmd(w, line))
  <1>1. PICK n : n = line.n
    OBVIOUS
  <1>2. PICK cb : cb = IF line.cmd = "HELO" THEN "helo" ELSE "ehlo"
    OBVIOUS
  <1>3. PICK v : v = Dropped(w)
    OBVIOUS
  <1>4. PICK x : x = WithHello(v, TRUE)
    OBVIOUS
  <1>5. cmd(w, line) = run_hook(x, cb, n)
    <2>1. cmd(w, line) = reset_transaction(w, cb, n)
      BY <1>1, <1>2 DEF cmd
    <2>2. reset_transaction(w, cb, n) = continue(v, cb, n)
      BY <1>1, <1>3, ResetHandling DEF Taken
    <2>3. cb \in {"helo", "ehlo"}
      BY <1>2
    <2>4. continue(v, cb, n) = run_hook(x, cb, n)
      BY <1>4, <2>3 DEF continue, WithHello
    <2>. QED
      BY <2>1, <2>2, <2>4
  <1>6. /\ Handling(v, n) /\ ~v.conn.transaction.there
        /\ v.conn.state = w.conn.state /\ v.conn.paused = w.conn.paused
        /\ v.conn.current_data = w.conn.current_data
        /\ v.client = w.client
    BY <1>1, <1>3, DroppedHandling DEF Taken
  <1>7. /\ Handling(x, n)
        /\ x.conn.state = v.conn.state /\ x.conn.transaction = v.conn.transaction
        /\ x.conn.paused = v.conn.paused
        /\ x.conn.current_data = v.conn.current_data
        /\ x.client = v.client
    BY <1>4, <1>6, HelloUpdate
  <1>8. cb \in OfHello
    BY <1>2 DEF OfHello
  <1>9. Asked(x, cb, n)
    BY <1>2, <1>6, <1>7 DEF Taken, Asked, Agreed, OfGreeting, OfCommand, OfHello, OfText
  <1>. QED
    BY <1>2, <1>5, <1>7, <1>8, <1>9, RunHookGood DEF OfCommand, OfHello, Waits

LEMMA MailGood ==
    ASSUME Plain, NEW w, NEW line, Taken(w, line), line.cmd = "MAIL"
    PROVE  Good(cmd(w, line))
  <1>1. PICK n : n = line.n
    OBVIOUS
  <1>2. CASE ~w.conn.hello_host
    <2>1. cmd(w, line) = respond(w, n)
      BY <1>1, <1>2 DEF cmd
    <2>. QED
      BY <1>1, <2>1, RespondGood DEF Taken
  <1>3. CASE w.conn.hello_host
    <2>1. PICK v : v = Dropped(w)
      OBVIOUS
    <2>2. PICK x : x = WithTransaction(v, NewTran)
      OBVIOUS
    <2>3. PICK y : y = WithAccepted(x, <<>>)
      OBVIOUS
    <2>4. cmd(w, line) = run_hook(y, "mail", n)
      <3>1. cmd(w, line) = reset_transaction(w, "mail", n)
        BY <1>1, <1>3 DEF cmd
      <3>2. reset_transaction(w, "mail", n) = continue(v, "mail", n)
        BY <1>1, <2>1, ResetHandling DEF Taken
      <3>3. continue(v, "mail", n) = new_transaction(v, n)
        BY DEF continue
      <3>4. new_transaction(v, n) = run_hook(y, "mail", n)
        BY <2>2, <2>3 DEF new_transaction, WithTransaction, WithAccepted
      <3>. QED
        BY <3>1, <3>2, <3>3, <3>4
    <2>5. /\ Handling(v, n)
          /\ v.conn.state = w.conn.state /\ v.conn.paused = w.conn.paused
          /\ v.conn.current_data = w.conn.current_data
          /\ v.client = w.client
      BY <1>1, <2>1, DroppedHandling DEF Taken
    <2>6. NewTran \in Transaction /\ Plausible(NewTran)
          /\ NewTran.there /\ NewTran.rcpt_to = <<>>
      BY EmptySeq DEF NewTran, Transaction, Plausible
    <2>7. /\ Handling(x, n)
          /\ x.conn.state = v.conn.state /\ x.conn.transaction = NewTran
          /\ x.conn.paused = v.conn.paused
          /\ x.conn.current_data = v.conn.current_data
          /\ x.client = v.client
      BY <2>2, <2>5, <2>6, TransactionUpdate
    <2>8. /\ Handling(y, n) /\ y.conn = x.conn
          /\ y.client.accepted = <<>> /\ y.client.last = x.client.last
          /\ y.client.told = x.client.told /\ y.client.queued = x.client.queued
      <3>1. PICK s \in Seq(Nat) : s = <<>>
        BY EmptySeq
      <3>2. y = WithAccepted(x, s)
        BY <2>3, <3>1
      <3>3. Handling(y, n) /\ y.conn = x.conn /\ y.client.accepted = s
            /\ y.client.last = x.client.last
            /\ y.client.told = x.client.told /\ y.client.queued = x.client.queued
        BY <2>7, <3>2, AcceptedUpdate
      <3>. QED
        BY <3>1, <3>3
    <2>9. Asked(y, "mail", n)
      BY <2>5, <2>6, <2>7, <2>8 DEF Taken, Asked, Agreed, OfGreeting, OfCommand, OfHello, OfText
    <2>. QED
      BY <2>4, <2>8, <2>9, RunHookGood DEF OfCommand, Waits
  <1>. QED
    BY <1>2, <1>3

(* With a recipient added or taken away.                                   *)
LEMMA RcptToUpdate ==
    ASSUME NEW w \in World, NEW s
    PROVE  [w EXCEPT !.conn.transaction.rcpt_to = s] =
              [w EXCEPT !.conn.transaction = [w.conn.transaction EXCEPT !.rcpt_to = s]]
  BY WorldFields DEF World, Connection

LEMMA RcptGood ==
    ASSUME NEW w, NEW line, Taken(w, line), line.cmd = "RCPT"
    PROVE  Good(cmd(w, line))
  <1>1. PICK n : n = line.n
    OBVIOUS
  <1>2. CASE ~w.conn.transaction.there
    <2>1. cmd(w, line) = respond(w, n)
      BY <1>1, <1>2 DEF cmd
    <2>. QED
      BY <1>1, <2>1, RespondGood DEF Taken
  <1>3. CASE w.conn.transaction.there
    <2>. DEFINE s == Append(w.conn.transaction.rcpt_to, n)
    <2>1. PICK t : t = [w.conn.transaction EXCEPT !.rcpt_to = s]
      OBVIOUS
    <2>2. PICK x : x = WithTransaction(w, t)
      OBVIOUS
    <2>3. w \in World /\ Handling(w, n) /\ n \in Nat
      BY <1>1, BehindReplied DEF Taken, Handling, Sane
    <2>4. w.conn.transaction \in Transaction
      BY <2>3, WorldFields DEF Connection
    <2>5. cmd(w, line) = run_hook(x, "rcpt", n)
      <3>1. cmd(w, line) = run_hook([w EXCEPT !.conn.transaction.rcpt_to = s], "rcpt", n)
        BY <1>1, <1>3 DEF cmd
      <3>. QED
        BY <2>1, <2>2, <2>3, <3>1, RcptToUpdate DEF WithTransaction
    <2>6. s \in Seq(Nat)
      BY <2>3, <2>4, AppendProperties DEF Transaction
    <2>7. t \in Transaction /\ t.there /\ ~t.resetting /\ t.rcpt_to = s
      <3>1. ~w.conn.transaction.resetting
        BY <2>3 DEF Handling, Sane, Plausible
      <3>. HIDE DEF s
      <3>. QED
        BY <1>3, <2>1, <2>4, <2>6, <3>1 DEF Transaction
    <2>8. /\ Handling(x, n)
          /\ x.conn.state = w.conn.state /\ x.conn.transaction = t
          /\ x.conn.paused = w.conn.paused
          /\ x.conn.current_data = w.conn.current_data
          /\ x.client = w.client
      <3>1. Plausible(t) /\ t \in Transaction
        BY <2>7 DEF Plausible
      <3>. QED
        BY <2>2, <2>3, <2>7, <3>1, TransactionUpdate
    <2>9. t.rcpt_to = Append(w.client.accepted, n)
      BY <1>3, <2>7 DEF Taken, Agreed
    <2>. HIDE DEF s
    <2>10. Asked(x, "rcpt", n)
      BY <2>7, <2>8, <2>9 DEF Taken, Asked, OfGreeting, OfCommand, OfHello, OfText
    <2>. QED
      BY <2>5, <2>8, <2>10, RunHookGood DEF OfCommand, Waits
  <1>. QED
    BY <1>2, <1>3

LEMMA CmdGood ==
    ASSUME Plain, NEW w, NEW line, Taken(w, line)
    PROVE  Good(cmd(w, line))
  <1>1. PICK n : n = line.n
    OBVIOUS
  <1>2. CASE line.cmd \in {"HELO", "EHLO"}
    BY <1>2, HelloGood
  <1>3. CASE line.cmd = "MAIL"
    BY <1>3, MailGood
  <1>4. CASE line.cmd = "RCPT"
    BY <1>4, RcptGood
  <1>5. CASE line.cmd = "DATA"
    <2>1. CASE w.conn.transaction.rcpt_to = <<>>
      <3>1. cmd(w, line) = respond(w, n)
        BY <1>1, <1>5, <2>1 DEF cmd
      <3>. QED
        BY <1>1, <3>1, RespondGood DEF Taken
    <2>2. CASE w.conn.transaction.rcpt_to # <<>>
      <3>1. cmd(w, line) = run_hook(w, "data", n)
        BY <1>1, <1>5, <2>2 DEF cmd
      <3>2. w.conn.transaction.there /\ w.client.accepted # <<>>
        BY <2>2 DEF Taken, Handling, Sane, Plausible, Agreed
      <3>3. Asked(w, "data", n)
        BY <1>5, <3>2 DEF Taken, Asked, Agreed, Ready, Finals, OfGreeting, OfCommand, OfHello,
          OfText
      <3>. QED
        BY <1>1, <3>1, <3>3, RunHookGood DEF Taken, OfCommand, Waits
    <2>. QED
      BY <2>1, <2>2
  <1>6. CASE line.cmd \in {"RSET", "NOOP", "VRFY", "QUIT"}
    <2>1. PICK hook : hook = CASE line.cmd = "RSET" -> "rset"
                               [] line.cmd = "NOOP" -> "noop"
                               [] line.cmd = "VRFY" -> "vrfy"
                               [] line.cmd = "QUIT" -> "quit"
      OBVIOUS
    <2>2. cmd(w, line) = run_hook(w, hook, n)
      BY <1>1, <1>6, <2>1 DEF cmd
    <2>3. hook \in {"rset", "noop", "vrfy", "quit"} /\ (hook = "quit" <=> line.cmd = "QUIT")
      BY <1>6, <2>1
    <2>4. Asked(w, hook, n)
      BY <2>3 DEF Taken, Asked, Agreed, Finals, OfGreeting, OfCommand, OfHello, OfText
    <2>. QED
      BY <1>1, <2>2, <2>3, <2>4, RunHookGood DEF Taken, OfCommand, Waits
  <1>. QED
    BY <1>2, <1>3, <1>4, <1>5, <1>6 DEF Taken, Envelope

----------------------------------------------------------------------------
(* The buffer.                                                             *)

LEMMA TailNumbered ==
    ASSUME NEW lines \in Seq(Line), lines # <<>>, NEW n \in Nat, NEW sent \in Nat,
           Numbered(lines, n, sent)
    PROVE  Head(lines) \in Line /\ Head(lines).n = n /\ Numbered(Tail(lines), n + 1, sent)
  <1>. DEFINE s == Len(lines)
              rest == Tail(lines)
  <1>1. /\ Head(lines) = lines[1] /\ Head(lines) \in Line
        /\ rest \in Seq(Line) /\ Len(rest) = s - 1
        /\ \A i \in 1..Len(rest) : rest[i] = lines[i + 1]
    BY HeadTailProperties
  <1>2. s \in Nat /\ s > 0
    BY LenProperties, EmptySeq
  <1>3. sent + 1 = n + s /\ \A i \in 1..s : lines[i].n = n + i - 1
    BY DEF Numbered
  <1>. HIDE DEF s, rest
  <1>4. sent + 1 = (n + 1) + (s - 1)
    BY <1>2, <1>3
  <1>5. lines[1].n = n
    <2>1. 1 \in 1..s /\ n + 1 - 1 = n
      BY <1>2
    <2>. QED
      BY <1>3, <2>1
  <1>6. ASSUME NEW i \in 1..(s - 1)
        PROVE  rest[i].n = (n + 1) + i - 1
    <2>1. i + 1 \in 1..s /\ n + (i + 1) - 1 = (n + 1) + i - 1
      BY <1>2
    <2>. QED
      BY <1>1, <1>3, <2>1
  <1>. QED
    BY <1>1, <1>4, <1>5, <1>6 DEF Numbered, rest

LEMMA TailLasting ==
    ASSUME NEW lines \in Seq(Line), lines # <<>>, NEW last, Lasting(lines, last)
    PROVE  /\ Lasting(Tail(lines), last)
           /\ Head(lines).cmd \notin Texts
           /\ Head(lines).cmd \in Finals => Tail(lines) = <<>> /\ last = Head(lines).cmd
  <1>. DEFINE s == Len(lines)
              rest == Tail(lines)
  <1>1. /\ Head(lines) = lines[1]
        /\ rest \in Seq(Line) /\ Len(rest) = s - 1
        /\ \A i \in 1..Len(rest) : rest[i] = lines[i + 1]
    BY HeadTailProperties
  <1>2. s \in Nat /\ s > 0
    BY LenProperties, EmptySeq
  <1>3. \A i \in 1..s : /\ lines[i].cmd \notin Texts
                        /\ lines[i].cmd \in Finals => i = s /\ last = lines[i].cmd
    BY DEF Lasting
  <1>4. s = 1 => rest = <<>>
    <2>1. rest # <<>> => Len(rest) \in Nat \ {0}
      BY <1>1, EmptySeq
    <2>. HIDE DEF s, rest
    <2>2. s = 1 => Len(rest) = 0
      BY <1>1
    <2>. QED
      BY <2>1, <2>2
  <1>. HIDE DEF s, rest
  <1>5. ASSUME NEW i \in 1..(s - 1)
        PROVE  /\ rest[i].cmd \notin Texts
               /\ rest[i].cmd \in Finals => i = s - 1 /\ last = rest[i].cmd
    <2>1. i + 1 \in 1..s
      BY <1>2
    <2>2. rest[i] = lines[i + 1]
      BY <1>1
    <2>3. i + 1 = s => i = s - 1
      BY <1>2
    <2>. QED
      BY <1>3, <2>1, <2>2, <2>3
  <1>6. 1 \in 1..s
    BY <1>2
  <1>7. Lasting(rest, last)
    BY <1>1, <1>5 DEF Lasting
  <1>. QED
    BY <1>1, <1>3, <1>4, <1>6, <1>7 DEF rest

WithLines(w, lines) == [w EXCEPT !.conn.current_data = lines]

LEMMA LinesFields ==
    ASSUME NEW w \in World, NEW lines, lines \in Seq(Line), NEW v, v = WithLines(w, lines)
    PROVE  /\ v \in World
           /\ v.conn.current_data = lines
           /\ v.conn.state = w.conn.state /\ v.conn.transaction = w.conn.transaction
           /\ v.conn.paused = w.conn.paused /\ v.conn.hooks = w.conn.hooks
           /\ v.conn.current_hook = w.conn.current_hook
           /\ v.conn.thrown = w.conn.thrown
           /\ v.client = w.client
  <1>. DEFINE c == [w.conn EXCEPT !.current_data = lines]
  <1>1. w.conn \in Connection /\ w.client \in Client
    BY WorldFields
  <1>2. v = [conn |-> c, client |-> w.client]
    BY DEF World, WithLines
  <1>3. c \in Connection
    BY <1>1 DEF Connection
  <1>4. /\ c.current_data = lines
        /\ c.state = w.conn.state /\ c.transaction = w.conn.transaction
        /\ c.paused = w.conn.paused /\ c.hooks = w.conn.hooks
        /\ c.current_hook = w.conn.current_hook /\ c.thrown = w.conn.thrown
    BY <1>1 DEF Connection
  <1>. HIDE DEF c
  <1>5. v \in World
    BY <1>1, <1>2, <1>3 DEF World
  <1>. QED
    BY <1>2, <1>4, <1>5

(* The line that is next, when it is taken from the buffer.                *)
LEMMA TakenFromBuffer ==
    ASSUME NEW s, Serving(s), s.conn.current_data # <<>>,
           NEW line, line = Head(s.conn.current_data),
           NEW w, w = WithLines(s, Tail(s.conn.current_data))
    PROVE  /\ Handling(w, line.n) /\ line \in Line
           /\ Reading(s) =>
                 /\ line.cmd \notin Texts
                 /\ line.cmd \in Finals =>
                        w.conn.current_data = <<>> /\ w.client.last = line.cmd
           /\ ReadingText(s) => /\ line.cmd \in Texts /\ w.client.last = line.cmd
                                 /\ w.conn.current_data = <<>>
           /\ w.conn.state = s.conn.state /\ w.conn.paused = s.conn.paused
           /\ w.conn.transaction = s.conn.transaction
           /\ w.client = s.client
  <1>. DEFINE lines == s.conn.current_data
              rest == Tail(lines)
              n == Oldest(s)
              sent == s.client.sent
  <1>1. s \in World /\ lines \in Seq(Line) /\ rest \in Seq(Line)
        /\ s.client.replied \in Nat /\ s.client.sent \in Nat
    <2>1. s \in World /\ s.conn \in Connection /\ s.client \in Client
      BY WorldFields DEF Serving, Sane
    <2>2. lines \in Seq(Line) /\ s.client.replied \in Nat /\ s.client.sent \in Nat
      BY <2>1 DEF Connection, Client
    <2>. QED
      BY <2>1, <2>2, HeadTailProperties
  <1>2. n \in Nat /\ Numbered(lines, n, sent)
    BY <1>1 DEF Serving, Oldest
  <1>3. /\ w \in World /\ w.conn.current_data = rest
        /\ w.conn.state = s.conn.state /\ w.conn.transaction = s.conn.transaction
        /\ w.conn.paused = s.conn.paused /\ w.conn.hooks = s.conn.hooks
        /\ w.conn.current_hook = s.conn.current_hook /\ w.conn.thrown = s.conn.thrown
        /\ w.client = s.client
    <2>1. PICK r : r = rest
      OBVIOUS
    <2>2. w = WithLines(s, r) /\ r \in Seq(Line)
      BY <1>1, <2>1
    <2>3. /\ w \in World /\ w.conn.current_data = r
          /\ w.conn.state = s.conn.state /\ w.conn.transaction = s.conn.transaction
          /\ w.conn.paused = s.conn.paused /\ w.conn.hooks = s.conn.hooks
          /\ w.conn.current_hook = s.conn.current_hook /\ w.conn.thrown = s.conn.thrown
          /\ w.client = s.client
      BY <1>1, <2>2, LinesFields
    <2>. QED
      BY <2>1, <2>3
  <1>. HIDE DEF n, rest, lines, sent
  <1>4. line \in Line /\ line.n = n /\ Numbered(rest, n + 1, sent)
    <2>1. lines # <<>> /\ line = Head(lines)
      BY DEF lines
    <2>2. sent \in Nat
      BY <1>1 DEF sent
    <2>. QED
      BY <1>1, <1>2, <2>1, <2>2, TailNumbered DEF rest
  <1>5. ASSUME Reading(s)
        PROVE  /\ Lasting(rest, w.client.last)
               /\ line.cmd \notin Texts
               /\ line.cmd \in Finals => rest = <<>> /\ w.client.last = line.cmd
    <2>1. lines # <<>> /\ line = Head(lines) /\ Lasting(lines, s.client.last)
      BY <1>5 DEF lines, Reading
    <2>. QED
      BY <1>1, <1>3, <2>1, TailLasting DEF rest
  <1>6. ASSUME ReadingText(s)
        PROVE  /\ Lasting(rest, w.client.last) /\ rest = <<>>
               /\ line.cmd \in Texts /\ w.client.last = line.cmd
    <2>1. Len(lines) = 1 /\ lines[1].cmd = s.client.last /\ s.client.last \in Texts
      BY <1>6 DEF ReadingText, lines
    <2>2. line = lines[1]
      BY <1>1 DEF lines
    <2>3. Len(rest) = 0
      BY <1>1, <2>1, HeadTailProperties, EmptySeq DEF rest
    <2>4. rest = <<>>
      BY <1>1, <2>3, EmptySeq
    <2>5. Lasting(rest, w.client.last)
      BY <2>3 DEF Lasting
    <2>. QED
      BY <1>3, <2>1, <2>2, <2>4, <2>5
  <1>7. Sane(w) /\ Alone(w)
    BY <1>3 DEF Serving, Sane, Alone
  <1>8. Behind(w, n)
    <2>1. Open(w.conn)
      BY <1>3 DEF Serving, Reading, ReadingText, Open
    <2>2. Lasting(rest, w.client.last)
      BY <1>5, <1>6 DEF Serving
    <2>3. n = Oldest(w)
      BY <1>3 DEF n, Oldest
    <2>. QED
      BY <1>3, <1>4, <2>1, <2>2, <2>3 DEF Behind, sent
  <1>. QED
    BY <1>3, <1>4, <1>5, <1>6, <1>7, <1>8 DEF Handling

(* The text of a message.                                                  *)
TextTaken(w, line) ==
    /\ Handling(w, line.n)
    /\ w.conn.state = "DATA" /\ ~w.conn.paused
    /\ Ready(w) /\ Agreed(w)
    /\ w.client.queued = w.client.told
    /\ line.cmd \in Texts
    /\ w.conn.current_data = <<>> /\ w.client.last = line.cmd

LEMMA AccumulateGood ==
    ASSUME Plain, NEW w, NEW line, TextTaken(w, line)
    PROVE  Good(accumulate_data(w, line))
  <1>1. PICK n : n = line.n
    OBVIOUS
  <1>2. CASE line.cmd = "BARE"
    <2>1. accumulate_data(w, line) = reject(w, n)
      BY <1>1, <1>2 DEF TextTaken, Ready, accumulate_data, with_transaction, Texts
    <2>. QED
      BY <1>1, <2>1, RejectGood DEF TextTaken
  <1>3. CASE line.cmd # "BARE"
    <2>1. PICK x : x = WithState(w, "CMD")
      OBVIOUS
    <2>2. PICK v : v = pause(x)
      OBVIOUS
    <2>3. /\ Handling(x, n)
          /\ x.conn.state = "CMD" /\ x.conn.transaction = w.conn.transaction
          /\ x.conn.current_data = w.conn.current_data
          /\ x.client = w.client
      BY <1>1, <2>1, StateUpdate DEF TextTaken, States
    <2>4. /\ Handling(v, n)
          /\ v.conn.state = "PAUSE_DATA" /\ v.conn.transaction = w.conn.transaction
          /\ v.conn.paused
          /\ v.conn.current_data = <<>> /\ v.client = w.client
      BY <2>2, <2>3, PauseUpdate DEF TextTaken
    <2>5. accumulate_data(w, line) = data_done(w, line)
      BY <1>3 DEF TextTaken, Ready, accumulate_data, with_transaction
    <2>6. CASE line.cmd = "BIG"
      <3>1. data_done(w, line) = run_hook(v, "max_data_exceeded", n)
        BY <1>1, <2>1, <2>2, <2>6 DEF data_done, WithState
      <3>2. Asked(v, "max_data_exceeded", n)
        BY <2>4, <2>6 DEF TextTaken, Asked, Ready, Agreed, OfGreeting, OfCommand, OfHello,
          OfText
      <3>. QED
        BY <2>4, <2>5, <3>1, <3>2, RunHookGood DEF OfText, Waits
    <2>7. CASE line.cmd = "MANY"
      <3>1. data_done(w, line) = reject(v, n)
        BY <1>1, <2>1, <2>2, <2>7 DEF data_done, WithState
      <3>. QED
        BY <2>4, <2>5, <2>7, <3>1, RejectGood DEF TextTaken
    <2>8. CASE line.cmd = "TEXT"
      <3>1. data_done(w, line) = wait_for(v, "end_data", n)
        BY <1>1, <2>1, <2>2, <2>8 DEF data_done, WithState
      <3>2. Asked(v, "end_data", n)
        BY <2>4, <2>8 DEF TextTaken, Asked, Ready, Agreed, OfGreeting, OfCommand, OfHello,
          OfText
      <3>. QED
        BY <2>4, <2>5, <3>1, <3>2, WaitForGood DEF Waits
    <2>. QED
      BY <1>3, <2>6, <2>7, <2>8 DEF TextTaken, Texts
  <1>. QED
    BY <1>2, <1>3

LEMMA LineGood ==
    ASSUME Plain, NEW s, Serving(s), s.conn.current_data # <<>>,
           NEW line, line = Head(s.conn.current_data),
           NEW w, w = WithLines(s, Tail(s.conn.current_data))
    PROVE  Good(process_line(w, line))
  <1>1. /\ Handling(w, line.n) /\ line \in Line
        /\ Reading(s) =>
              /\ line.cmd \notin Texts
              /\ line.cmd \in Finals => w.conn.current_data = <<>> /\ w.client.last = line.cmd
        /\ ReadingText(s) => /\ line.cmd \in Texts /\ w.client.last = line.cmd
                              /\ w.conn.current_data = <<>>
        /\ w.conn.state = s.conn.state /\ w.conn.paused = s.conn.paused
        /\ w.conn.transaction = s.conn.transaction
        /\ w.client = s.client
    BY TakenFromBuffer
  <1>2. Agreed(w) /\ w.client.queued = w.client.told
    BY <1>1 DEF Serving, Agreed
  <1>3. CASE ReadingText(s)
    <2>1. TextTaken(w, line)
      BY <1>1, <1>2, <1>3 DEF TextTaken, ReadingText, Ready
    <2>2. process_line(w, line) = accumulate_data(w, line)
      BY <2>1 DEF TextTaken, process_line
    <2>. QED
      BY <2>1, <2>2, AccumulateGood
  <1>4. CASE Reading(s)
    <2>1. line.cmd \in Envelope /\ ~w.conn.paused
      BY <1>1, <1>4, ConnectionAssumption DEF Line, Reading
    <2>2. CASE w.conn.state = "CMD"
      <3>1. PICK x : x = WithState(w, "PAUSE_SMTP")
        OBVIOUS
      <3>2. process_line(w, line) = cmd(x, line)
        BY <2>2, <3>1 DEF process_line, WithState
      <3>3. /\ Handling(x, line.n)
            /\ x.conn.state = "PAUSE_SMTP" /\ x.conn.transaction = w.conn.transaction
            /\ x.conn.paused = w.conn.paused
            /\ x.conn.current_data = w.conn.current_data
            /\ x.client = w.client
        BY <1>1, <3>1, StateUpdate DEF States
      <3>4. Taken(x, line)
        BY <1>1, <1>2, <1>4, <2>1, <3>3 DEF Taken, Agreed
      <3>. QED
        BY <3>2, <3>4, CmdGood
    <2>3. CASE w.conn.state = "LOOP"
      <3>1. ~w.conn.transaction.there
        BY <1>1, <1>4, <2>3 DEF Reading
      <3>2. CASE line.cmd = "QUIT"
        <4>1. Taken(w, line)
          BY <1>1, <1>2, <1>4, <2>1, <2>3, <3>1, <3>2 DEF Taken
        <4>2. process_line(w, line) = cmd(w, line)
          BY <2>3, <3>2 DEF process_line
        <4>. QED
          BY <4>1, <4>2, CmdGood
      <3>3. CASE line.cmd # "QUIT"
        <4>1. process_line(w, line) = respond(w, line.n)
          BY <2>3, <3>3 DEF process_line
        <4>. QED
          BY <1>1, <1>2, <2>1, <3>1, <4>1, RespondGood
      <3>. QED
        BY <3>2, <3>3
    <2>. QED
      BY <1>1, <1>4, <2>2, <2>3 DEF Reading
  <1>. QED
    BY <1>3, <1>4 DEF Serving

----------------------------------------------------------------------------
(* The answers of plugins, while the connection is open.                   *)

(* What the questions and the answers of a hook start from: its callback   *)
(* has gone, all else is as it was asked.                                  *)
Back(w, hook, n) == Handling(w, n) /\ Asked(w, hook, n)

LEMMA GreetingGood ==
    ASSUME Plain, NEW w, NEW n, NEW retval \in Answers
    PROVE  /\ Back(w, "lookup_rdns", n) => Good(lookup_rdns_respond(w, n, retval))
           /\ Back(w, "connect", n) => Good(connect_respond(w, n, retval))
           /\ Back(w, "dns", n) => Good(run_hook(w, "connect", n))
  <1>. USE DEF Answers
  <1>1. ASSUME NEW hook \in OfGreeting, Back(w, hook, n)
        PROVE  /\ Handling(w, n) /\ Open(w.conn) /\ w.conn.state = "PAUSE"
               /\ ~w.conn.transaction.there /\ ~w.conn.paused
               /\ Agreed(w) /\ w.client.queued = w.client.told
               /\ Asked(w, "connect", n) /\ Asked(w, "dns", n)
    BY <1>1 DEF Back, Asked, Agreed, OfGreeting, OfCommand, OfHello, OfText, Handling, Behind
  <1>2. ASSUME NEW hook \in OfGreeting, Back(w, hook, n)
        PROVE  /\ Good(loop_respond(w, n)) /\ Good(respond(w, n)) /\ Good(hang_up(w, n))
               /\ Good(run_hook(w, "connect", n)) /\ Good(wait_for(w, "dns", n))
    <2>1. Good(respond(w, n)) /\ Good(hang_up(w, n))
      BY <1>1, <1>2, RespondGood, HangUpGood
    <2>2. Good(run_hook(w, "connect", n)) /\ Good(wait_for(w, "dns", n))
      BY <1>1, <1>2, RunHookGood, WaitForGood DEF OfGreeting, Waits
    <2>3. Good(loop_respond(w, n))
      <3>1. PICK x : x = WithState(w, "LOOP")
        OBVIOUS
      <3>2. /\ Handling(x, n)
            /\ x.conn.state = "LOOP" /\ x.conn.transaction = w.conn.transaction
            /\ x.conn.paused = w.conn.paused
            /\ x.client = w.client
        BY <1>1, <1>2, <3>1, StateUpdate DEF States
      <3>3. loop_respond(w, n) = respond(x, n)
        BY <1>1, <1>2, <3>1 DEF loop_respond, WithState
      <3>. QED
        BY <1>1, <1>2, <3>2, <3>3, RespondGood DEF Agreed
    <2>. QED
      BY <2>1, <2>2, <2>3
  <1>. QED
    BY <1>2 DEF lookup_rdns_respond, connect_respond, OfGreeting

(* Answers that leave the hello, the recipients and the text alone.        *)
LEMMA CommandAnswers ==
    ASSUME Plain, NEW w, NEW n, NEW hook \in OfCommand, Back(w, hook, n)
    PROVE  /\ hook \notin {"rcpt", "rcpt_ok"} => Good(respond(w, n))
           /\ hook # "quit" => Good(reject(w, n))
           /\ Good(hang_up(w, n))
  BY RespondGood, RejectGood, HangUpGood
    DEF Back, Asked, OfGreeting, OfCommand, OfHello, OfText

WithEsmtp(w, b) == [w EXCEPT !.conn.esmtp = b]

LEMMA EsmtpIs ==
    ASSUME NEW w \in World, NEW b
    PROVE  WithEsmtp(w, b) = [conn |-> [w.conn EXCEPT !.esmtp = b], client |-> w.client]
  BY DEF World, WithEsmtp

LEMMA HelloAnswerGood ==
    ASSUME Plain, NEW w, NEW n, NEW hook \in {"helo", "ehlo"}, Back(w, hook, n),
           NEW retval \in Answers
    PROVE  Good(hello_respond(w, hook, n, retval))
  <1>. USE DEF Answers
  <1>1. Good(respond(w, n)) /\ Good(hang_up(w, n))
    BY CommandAnswers DEF OfCommand, OfHello
  <1>2. /\ Handling(w, n) /\ w.conn.state = "PAUSE_SMTP" /\ ~w.conn.transaction.there
        /\ ~w.conn.paused
        /\ w.client.queued = w.client.told /\ Asked(w, "capabilities", n)
    BY DEF Back, Asked, Agreed, OfGreeting, OfCommand, OfHello, OfText
  <1>3. CASE retval = "deny"
    <2>1. PICK v : v = respond(w, n)
      OBVIOUS
    <2>2. PICK x : x = WithHello(v, FALSE)
      OBVIOUS
    <2>3. /\ Answered(v)
          /\ v.conn.state = "CMD" /\ ~v.conn.transaction.there /\ ~v.conn.paused
      BY <1>2, <2>1, RespondAnswered DEF AfterReply
    <2>. DEFINE c == [v.conn EXCEPT !.hello_host = FALSE]
    <2>4. v \in World /\ v.conn \in Connection
      BY <2>3, WorldFields DEF Answered, Sane
    <2>5. x = [conn |-> c, client |-> v.client]
      BY <2>2, <2>4 DEF World, WithHello
    <2>6. c \in Connection
      BY <2>4 DEF Connection
    <2>7. /\ c.state = v.conn.state /\ c.transaction = v.conn.transaction
          /\ c.paused = v.conn.paused /\ c.current_data = v.conn.current_data
          /\ c.hooks = v.conn.hooks /\ c.current_hook = v.conn.current_hook
          /\ c.thrown = v.conn.thrown /\ c.loop = v.conn.loop
      BY <2>4 DEF Connection
    <2>. HIDE DEF c
    <2>8. Open(c) /\ Plausible(c.transaction)
      BY <2>3, <2>7 DEF Open, Answered, Sane
    <2>9. Answered(x) /\ x.conn = c /\ x.client = v.client
      BY <2>3, <2>5, <2>6, <2>7, <2>8, AnsweredConn
    <2>10. Agreed(x) /\ Reading(x)
      BY <2>3, <2>7, <2>9 DEF Agreed, Reading, Answered
    <2>11. hello_respond(w, hook, n, retval) = x
      BY <1>3, <2>1, <2>2 DEF hello_respond, WithHello
    <2>. QED
      BY <2>9, <2>10, <2>11, AnsweredServes
  <1>4. CASE retval = "denydisconnect"
    BY <1>1, <1>4 DEF hello_respond
  <1>5. CASE retval \in {"ok", "cont"} /\ hook = "helo"
    BY <1>1, <1>5 DEF hello_respond
  <1>6. CASE retval \in {"ok", "cont"} /\ hook = "ehlo"
    <2>1. PICK v : v = run_hook(w, "capabilities", n)
      OBVIOUS
    <2>2. PICK h : h = Called("capabilities", n)
      OBVIOUS
    <2>3. w \in World /\ w.conn.hooks = {} /\ n \in Nat
      BY <1>2, BehindReplied DEF Handling, Sane, Alone
    <2>4. /\ v \in World /\ h \in Hook
          /\ v.conn.hooks = {h} /\ v.conn.current_hook = {h}
          /\ v.conn.state = w.conn.state
          /\ v.conn.transaction = w.conn.transaction
          /\ v.conn.current_data = w.conn.current_data
          /\ v.conn.paused = w.conn.paused /\ v.conn.thrown = w.conn.thrown
          /\ v.client = w.client
      BY <2>1, <2>2, <2>3, RunHookFields DEF Hooks
    <2>. PICK b : b = TRUE
      OBVIOUS
    <2>. DEFINE c == [v.conn EXCEPT !.esmtp = b]
    <2>5. v.conn \in Connection
      BY <2>4, WorldFields
    <2>6. PICK x : x = [conn |-> c, client |-> v.client]
      OBVIOUS
    <2>7. WithEsmtp(v, b) = x
      BY <2>4, <2>6, EsmtpIs
    <2>8. c \in Connection
      BY <2>5 DEF Connection
    <2>9. /\ c.state = v.conn.state /\ c.transaction = v.conn.transaction
          /\ c.paused = v.conn.paused /\ c.current_data = v.conn.current_data
          /\ c.hooks = v.conn.hooks /\ c.current_hook = v.conn.current_hook
          /\ c.thrown = v.conn.thrown
      BY <2>5 DEF Connection
    <2>. HIDE DEF c
    <2>10. x.conn = c /\ x.client = w.client /\ x \in World
      BY <2>4, <2>6, <2>8, WorldFields DEF World
    <2>11. h.hook = "capabilities" /\ h.n = n
      BY <2>2 DEF Called
    <2>12. Sane(x) /\ Behind(x, n) /\ Asked(x, "capabilities", n)
      BY <1>2, <2>4, <2>9, <2>10 DEF Handling, Sane, Behind, Open, Oldest, Asked, Agreed, Ready
    <2>13. Asking(x, h)
      BY <2>4, <2>9, <2>10, <2>11, <2>12 DEF Asking, OfCommand, OfHello, Waits
    <2>14. hello_respond(w, hook, n, retval) = x
      BY <1>6, <2>1, <2>7 DEF hello_respond, WithEsmtp
    <2>. QED
      BY <2>4, <2>13, <2>14 DEF Good
  <1>. QED
    BY <1>3, <1>4, <1>5, <1>6


LEMMA RefuseAnswers ==
    ASSUME Plain, NEW w, NEW n, NEW hook \in {"mail", "vrfy", "noop", "data"}, Back(w, hook, n),
           NEW retval \in Answers
    PROVE  Good(refuse_respond(w, n, retval)) /\ Good(noop_respond(w, n, retval))
  BY CommandAnswers DEF refuse_respond, noop_respond, Answers, OfCommand

(* The recipients, when the last was refused.                              *)
LEMMA FrontOfAppend ==
    ASSUME NEW s \in Seq(Nat), NEW n \in Nat, NEW a, a = Append(s, n)
    PROVE  SubSeq(a, 1, Len(a) - 1) = s
  <1>. DEFINE k == Len(s)
              f == SubSeq(a, 1, k)
  <1>1. /\ a \in Seq(Nat) /\ Len(a) = k + 1 /\ k \in Nat
        /\ \A i \in 1..k : a[i] = s[i]
    BY AppendProperties, LenProperties
  <1>2. /\ f \in Seq(Nat)
        /\ Len(f) = IF 1 <= k THEN k - 1 + 1 ELSE 0
        /\ \A i \in 1..(k - 1 + 1) : f[i] = a[1 + i - 1]
    <2>. HIDE DEF k
    <2>1. \A i \in 1..k : i \in 1..Len(a)
      BY <1>1
    <2>2. 1 \in 1..Len(a) + 1 /\ k \in 0..Len(a)
      BY <1>1
    <2>. QED
      BY <1>1, <2>1, <2>2, SubSeqProperties
  <1>3. Len(f) = k
    <2>. HIDE DEF f, k
    <2>. QED
      BY <1>1, <1>2
  <1>4. \A i \in 1..k : f[i] = s[i]
    <2>. HIDE DEF f, k
    <2>1. \A i \in 1..k : 1 + i - 1 = i /\ i \in 1..(k - 1 + 1)
      BY <1>1
    <2>. QED
      BY <1>1, <1>2, <2>1
  <1>5. f = s
    BY <1>2, <1>3, <1>4, SeqEqual
  <1>6. Len(a) - 1 = k
    <2>. HIDE DEF k
    <2>. QED
      BY <1>1
  <1>. QED
    BY <1>5, <1>6

LEMMA PopIs ==
    ASSUME NEW w \in World, NEW s, w.conn.transaction.rcpt_to = s
    PROVE  pop(w) = [conn |-> [w.conn EXCEPT !.transaction =
                                  [w.conn.transaction EXCEPT !.rcpt_to = SubSeq(s, 1, Len(s) - 1)]],
                     client |-> w.client]
  <1>1. PICK f : f = SubSeq(s, 1, Len(s) - 1)
    OBVIOUS
  <1>2. pop(w) = [w EXCEPT !.conn.transaction.rcpt_to = f]
    BY <1>1 DEF pop
  <1>. QED
    BY <1>1, <1>2, WorldFields DEF World, Connection

(* 4xx or 5xx to RCPT.                                                     *)
LEMMA PopGood ==
    ASSUME NEW w, NEW n, NEW hook \in {"rcpt", "rcpt_ok"}, Back(w, hook, n)
    PROVE  Good(pop(respond(w, n)))
  <1>1. PICK v : v = respond(w, n)
    OBVIOUS
  <1>2. /\ Handling(w, n) /\ w.conn.state = "PAUSE_SMTP" /\ ~w.conn.paused
        /\ w.client.queued = w.client.told /\ w.conn.transaction.there
        /\ w.conn.transaction.rcpt_to = Append(w.client.accepted, n)
    BY DEF Back, Asked, OfGreeting, OfCommand, OfHello, OfText
  <1>3. /\ Answered(v) /\ v.conn.state = "CMD" /\ ~v.conn.paused
        /\ v.conn.transaction = w.conn.transaction
        /\ v.client.accepted = w.client.accepted
    BY <1>1, <1>2, RespondAnswered DEF AfterReply
  <1>4. PICK s : s = v.client.accepted
    OBVIOUS
  <1>5. PICK t : t = [v.conn.transaction EXCEPT !.rcpt_to = s]
    OBVIOUS
  <1>. DEFINE c == [v.conn EXCEPT !.transaction = t]
  <1>6. v \in World /\ v.conn \in Connection /\ v.client \in Client
    BY <1>3, WorldFields DEF Answered, Sane
  <1>7. s \in Seq(Nat) /\ n \in Nat /\ v.conn.transaction \in Transaction
    <2>1. w \in World /\ Behind(w, n)
      BY <1>2 DEF Handling, Sane
    <2>2. n \in Nat
      BY <2>1, BehindReplied
    <2>. QED
      BY <1>4, <1>6, <2>2 DEF Client, Connection
  <1>8. t \in Transaction /\ t.there /\ t.rcpt_to = s /\ Plausible(t)
    <2>1. v.conn.transaction.there /\ ~v.conn.transaction.resetting
      BY <1>2, <1>3 DEF Answered, Sane, Plausible
    <2>. QED
      BY <1>5, <1>7, <2>1 DEF Transaction, Plausible
  <1>9. c \in Connection
    BY <1>6, <1>8 DEF Connection
  <1>10. /\ c.state = v.conn.state /\ c.transaction = t
         /\ c.paused = v.conn.paused /\ c.current_data = v.conn.current_data
         /\ c.hooks = v.conn.hooks /\ c.current_hook = v.conn.current_hook
         /\ c.thrown = v.conn.thrown /\ c.loop = v.conn.loop
    BY <1>6 DEF Connection
  <1>11. PICK x : x = [conn |-> c, client |-> v.client]
    OBVIOUS
  <1>12. pop(v) = x
    <2>1. PICK a : a = Append(s, n)
      OBVIOUS
    <2>2. v.conn.transaction.rcpt_to = a /\ SubSeq(a, 1, Len(a) - 1) = s
      BY <1>2, <1>3, <1>4, <1>7, <2>1, FrontOfAppend
    <2>3. pop(v) = [conn |-> [v.conn EXCEPT !.transaction =
                                 [v.conn.transaction EXCEPT !.rcpt_to = SubSeq(a, 1, Len(a) - 1)]],
                    client |-> v.client]
      BY <1>6, <2>2, PopIs
    <2>. QED
      BY <1>5, <1>11, <2>2, <2>3
  <1>. HIDE DEF c
  <1>13. Open(c) /\ Plausible(c.transaction)
    BY <1>3, <1>8, <1>10 DEF Open
  <1>14. Answered(x) /\ x.conn = c /\ x.client = v.client
    BY <1>3, <1>9, <1>10, <1>11, <1>13, AnsweredConn
  <1>15. Agreed(x) /\ Reading(x)
    BY <1>3, <1>4, <1>8, <1>10, <1>14 DEF Agreed, Reading, Answered
  <1>. QED
    BY <1>1, <1>12, <1>14, <1>15, AnsweredServes

(* 250 to RCPT.                                                            *)
LEMMA AcceptGood ==
    ASSUME NEW w, NEW n, Back(w, "rcpt_ok", n)
    PROVE  Good([respond(w, n) EXCEPT !.client.accepted = Append(@, n)])
  <1>1. PICK v : v = respond(w, n)
    OBVIOUS
  <1>2. /\ Handling(w, n) /\ w.conn.state = "PAUSE_SMTP" /\ ~w.conn.paused
        /\ w.client.queued = w.client.told /\ w.conn.transaction.there
        /\ w.conn.transaction.rcpt_to = Append(w.client.accepted, n)
    BY DEF Back, Asked, OfGreeting, OfCommand, OfHello, OfText
  <1>3. /\ Answered(v) /\ v.conn.state = "CMD" /\ ~v.conn.paused
        /\ v.conn.transaction = w.conn.transaction
        /\ v.client.accepted = w.client.accepted
    BY <1>1, <1>2, RespondAnswered DEF AfterReply
  <1>4. PICK s : s = Append(v.client.accepted, n)
    OBVIOUS
  <1>5. v \in World /\ v.conn \in Connection /\ v.client \in Client
    BY <1>3, WorldFields DEF Answered, Sane
  <1>6. s \in Seq(Nat)
    <2>1. w \in World /\ Behind(w, n)
      BY <1>2 DEF Handling, Sane
    <2>2. n \in Nat
      BY <2>1, BehindReplied
    <2>3. v.client.accepted \in Seq(Nat)
      BY <1>5 DEF Client
    <2>. QED
      BY <1>4, <2>2, <2>3, AppendProperties
  <1>. DEFINE k == [v.client EXCEPT !.accepted = s]
  <1>7. PICK x : x = [conn |-> v.conn, client |-> k]
    OBVIOUS
  <1>8. WithAccepted(v, s) = x
    BY <1>5, <1>7 DEF World, WithAccepted
  <1>9. /\ k \in Client
        /\ k.accepted = s /\ k.last = v.client.last /\ k.told = v.client.told
        /\ k.queued = v.client.queued /\ k.sent = v.client.sent
        /\ k.replied = v.client.replied /\ k.inorder = v.client.inorder
    BY <1>5, <1>6 DEF Client
  <1>. HIDE DEF k
  <1>10. x.conn = v.conn /\ x.client = k /\ x \in World
    BY <1>5, <1>7, <1>9 DEF World
  <1>11. Sane(x) /\ Alone(x)
    BY <1>3, <1>9, <1>10 DEF Answered, Sane, Alone
  <1>12. Answered(x)
    BY <1>3, <1>9, <1>10, <1>11 DEF Answered, Oldest
  <1>13. Agreed(x) /\ Reading(x)
    BY <1>2, <1>3, <1>4, <1>9, <1>10, <1>12 DEF Agreed, Reading, Answered
  <1>14. [v EXCEPT !.client.accepted = Append(@, n)] = x
    BY <1>4, <1>8 DEF WithAccepted
  <1>. QED
    BY <1>1, <1>12, <1>13, <1>14, AnsweredServes

LEMMA RcptAnswers ==
    ASSUME Plain, NEW w, NEW n, NEW retval \in Answers
    PROVE  /\ Back(w, "rcpt", n) => Good(rcpt_respond(w, n, retval))
           /\ Back(w, "rcpt_ok", n) => Good(rcpt_ok_respond(w, n, retval))
  <1>. USE DEF Answers
  <1>1. ASSUME NEW hook \in {"rcpt", "rcpt_ok"}, Back(w, hook, n)
        PROVE  /\ w.conn.transaction.there
               /\ Good(pop(respond(w, n))) /\ Good(hang_up(w, n))
               /\ Good(run_hook(w, "rcpt_ok", n))
    <2>1. w.conn.transaction.there /\ Asked(w, "rcpt_ok", n) /\ Handling(w, n)
      BY <1>1 DEF Back, Asked, OfGreeting, OfCommand, OfHello, OfText
    <2>2. Good(run_hook(w, "rcpt_ok", n))
      BY <2>1, RunHookGood DEF OfCommand, Waits
    <2>. QED
      BY <1>1, <2>1, <2>2, PopGood, CommandAnswers DEF OfCommand
  <1>2. ASSUME Back(w, "rcpt", n)
        PROVE  Good(rcpt_respond(w, n, retval))
    BY <1>1, <1>2 DEF rcpt_respond
  <1>3. ASSUME Back(w, "rcpt_ok", n)
        PROVE  Good(rcpt_ok_respond(w, n, retval))
    <2>1. Good([respond(w, n) EXCEPT !.client.accepted = Append(@, n)])
      BY <1>3, AcceptGood
    <2>2. CASE retval \in {"ok", "cont"}
      BY <1>1, <1>3, <2>1, <2>2 DEF rcpt_ok_respond
    <2>3. CASE retval \in {"deny", "denydisconnect"}
      BY <1>1, <1>3, <2>3 DEF rcpt_ok_respond
    <2>. QED
      BY <2>2, <2>3
  <1>. QED
    BY <1>2, <1>3


(* 354, and the text follows.                                              *)
LEMMA DataGood ==
    ASSUME Plain, NEW w, NEW n, Back(w, "data", n), NEW retval \in Answers
    PROVE  Good(data_respond(w, n, retval))
  <1>1. PICK v : v = respond(w, n)
    OBVIOUS
  <1>2. PICK x : x = WithState(v, "DATA")
    OBVIOUS
  <1>3. /\ Handling(w, n) /\ w.conn.state = "PAUSE_SMTP" /\ ~w.conn.paused
        /\ w.conn.current_data = <<>> /\ w.client.last = "DATA"
        /\ w.client.queued = w.client.told /\ Ready(w) /\ Agreed(w)
    BY DEF Back, Asked, OfGreeting, OfCommand, OfHello, OfText
  <1>4. /\ Answered(v) /\ ~v.conn.paused
        /\ v.conn.transaction = w.conn.transaction
        /\ v.conn.current_data = <<>> /\ v.client.last = "DATA"
        /\ v.client.accepted = w.client.accepted
    BY <1>1, <1>3, RespondAnswered
  <1>5. v \in World /\ v.conn \in Connection
    BY <1>4, WorldFields DEF Answered, Sane
  <1>. DEFINE c == [v.conn EXCEPT !.state = "DATA"]
  <1>6. x = [conn |-> c, client |-> v.client]
    BY <1>2, <1>5 DEF World, WithState
  <1>7. c \in Connection
    BY <1>5 DEF Connection, States
  <1>8. /\ c.state = "DATA" /\ c.transaction = v.conn.transaction
        /\ c.paused = v.conn.paused /\ c.current_data = v.conn.current_data
        /\ c.hooks = v.conn.hooks /\ c.current_hook = v.conn.current_hook
        /\ c.thrown = v.conn.thrown /\ c.loop = v.conn.loop
    BY <1>5 DEF Connection
  <1>. HIDE DEF c
  <1>9. Open(c) /\ Plausible(c.transaction)
    BY <1>4, <1>8 DEF Open, Answered, Sane
  <1>10. Answered(x) /\ x.conn = c /\ x.client = v.client
    BY <1>4, <1>6, <1>7, <1>8, <1>9, AnsweredConn
  <1>11. Agreed(x) /\ ReadingText(x)
    BY <1>3, <1>4, <1>8, <1>10 DEF Agreed, ReadingText, Ready
  <1>12. Good(x)
    BY <1>10, <1>11, AnsweredServes
  <1>13. CASE retval \in {"deny", "denydisconnect"}
    BY <1>13, RefuseAnswers DEF data_respond
  <1>14. CASE retval \in {"ok", "cont"}
    <2>1. w.conn.transaction.there
      BY <1>3 DEF Ready
    <2>2. data_respond(w, n, retval) = [respond(w, n) EXCEPT !.conn.state = "DATA"]
      BY <1>14, <2>1 DEF data_respond, with_transaction
    <2>. QED
      BY <1>1, <1>2, <1>12, <2>2 DEF WithState
  <1>. QED
    BY <1>13, <1>14 DEF Answers

(* The plugins of a text, and the message stream.                          *)
LEMMA TextBack ==
    ASSUME NEW w, NEW n, NEW hook \in OfText, Back(w, hook, n)
    PROVE  /\ Handling(w, n) /\ w.conn.state = "PAUSE_DATA" /\ w.conn.paused
           /\ w.conn.current_data = <<>> /\ Ready(w) /\ Agreed(w)
           /\ w.client.last = IF hook = "max_data_exceeded" THEN "BIG" ELSE "TEXT"
           /\ w.client.queued = IF hook = "queue_ok" THEN w.client.told \cup {n}
                                ELSE w.client.told
  BY DEF Back, Asked, OfGreeting, OfCommand, OfHello, OfText

LEMMA TextAsked ==
    ASSUME NEW w, NEW n, w.conn.state = "PAUSE_DATA", w.conn.paused,
           w.conn.current_data = <<>>, Ready(w), Agreed(w), w.client.last = "TEXT",
           NEW hook \in OfText \ {"max_data_exceeded"},
           w.client.queued = IF hook = "queue_ok" THEN w.client.told \cup {n}
                             ELSE w.client.told
    PROVE  Asked(w, hook, n)
  BY DEF Asked, OfGreeting, OfCommand, OfHello, OfText

(* What follows a text that no plugin refused.                             *)
LEMMA TextAnswers ==
    ASSUME Plain, NEW w, NEW n,
           NEW hook \in OfText \ {"max_data_exceeded", "queue_ok"}, Back(w, hook, n)
    PROVE  /\ w.conn.transaction.there
           /\ Good(resume_after(w, n)) /\ Good(hang_up(w, n))
           /\ \A next \in {"data_post", "queue", "queue_outbound"} : Good(run_hook(w, next, n))
           /\ Good(wait_for(w, "send_email", n))
           /\ Good(queue_ok(w, n))
  <1>1. /\ Handling(w, n) /\ w.conn.state = "PAUSE_DATA" /\ w.conn.paused
        /\ w.conn.current_data = <<>> /\ Ready(w) /\ Agreed(w)
        /\ w.client.last = "TEXT" /\ w.client.queued = w.client.told
    BY TextBack
  <1>2. Good(resume_after(w, n)) /\ Good(hang_up(w, n))
    BY <1>1, ResumeGood, HangUpGood
  <1>3. ASSUME NEW next \in OfText \ {"max_data_exceeded", "queue_ok"}
        PROVE  Asked(w, next, n)
    BY <1>1, TextAsked
  <1>4. \A next \in {"data_post", "queue", "queue_outbound"} : Good(run_hook(w, next, n))
    <2>1. SUFFICES ASSUME NEW next \in {"data_post", "queue", "queue_outbound"}
                   PROVE  Good(run_hook(w, next, n))
      OBVIOUS
    <2>2. /\ next \in (OfGreeting \cup OfCommand \cup OfText) \ Waits
          /\ next \in OfText \ {"max_data_exceeded", "queue_ok"}
      BY DEF OfText, Waits
    <2>. QED
      BY <1>1, <1>3, <2>2, RunHookGood
  <1>5. Good(wait_for(w, "send_email", n))
    BY <1>1, <1>3, WaitForGood DEF OfText, Waits
  <1>6. Good(queue_ok(w, n))
    <2>1. Handling(w, n) /\ w \in World /\ Behind(w, n) /\ w.client \in Client
      BY <1>1, WorldFields DEF Handling, Sane
    <2>2. n \in Nat /\ w.client.told \in SUBSET Nat
      BY <2>1, BehindReplied DEF Client
    <2>3. PICK Q : Q = w.client.told \cup {n}
      OBVIOUS
    <2>4. PICK x : x = WithQueued(w, Q)
      OBVIOUS
    <2>5. Q \in SUBSET Nat
      BY <2>2, <2>3
    <2>7. /\ Handling(x, n) /\ x.conn = w.conn
          /\ x.client.accepted = w.client.accepted /\ x.client.last = w.client.last
          /\ x.client.told = w.client.told /\ x.client.queued = Q
      BY <2>1, <2>4, <2>5, QueuedUpdate
    <2>8. Ready(x) /\ Agreed(x)
      BY <1>1, <2>7 DEF Ready, Agreed
    <2>9. Asked(x, "queue_ok", n)
      <3>1. x.client.queued = x.client.told \cup {n}
        BY <2>3, <2>7
      <3>2. "queue_ok" \in OfText \ {"max_data_exceeded"}
        BY DEF OfText
      <3>. QED
        BY <1>1, <2>7, <2>8, <3>1, <3>2, TextAsked
    <2>10. Good(run_hook(x, "queue_ok", n))
      BY <2>7, <2>9, RunHookGood DEF OfText, Waits
    <2>11. queue_ok(w, n) = run_hook(x, "queue_ok", n)
      BY <1>1, <2>3, <2>4 DEF queue_ok, WithQueued
    <2>. QED
      BY <2>10, <2>11
  <1>. QED
    BY <1>1, <1>2, <1>4, <1>5, <1>6 DEF Ready

LEMMA TextGood ==
    ASSUME Plain, NEW w, NEW n, NEW retval \in Answers
    PROVE  /\ Back(w, "data_post", n) => Good(data_post_respond(w, n, retval))
           /\ \A hook \in {"queue", "queue_outbound"} :
                 Back(w, hook, n) => Good(queue_respond(w, hook, n, retval))
           /\ Back(w, "max_data_exceeded", n) => Good(reject(w, n))
           /\ Back(w, "queue_ok", n) => Good(queue_ok_respond(w, n))
  <1>. USE DEF Answers
  <1>1. ASSUME Back(w, "data_post", n)
        PROVE  Good(data_post_respond(w, n, retval))
    <2>1. /\ w.conn.transaction.there
          /\ Good(resume_after(w, n)) /\ Good(hang_up(w, n))
          /\ \A next \in {"data_post", "queue", "queue_outbound"} : Good(run_hook(w, next, n))
      BY <1>1, TextAnswers DEF OfText
    <2>. QED
      BY <2>1 DEF data_post_respond, with_transaction
  <1>2. ASSUME NEW hook \in {"queue", "queue_outbound"}, Back(w, hook, n)
        PROVE  Good(queue_respond(w, hook, n, retval))
    <2>1. /\ w.conn.transaction.there
          /\ Good(resume_after(w, n)) /\ Good(hang_up(w, n))
          /\ Good(wait_for(w, "send_email", n))
          /\ Good(queue_ok(w, n))
      BY <1>2, TextAnswers DEF OfText
    <2>. QED
      BY <2>1 DEF queue_respond, with_transaction
  <1>3. ASSUME Back(w, "max_data_exceeded", n)
        PROVE  Good(reject(w, n))
    <2>1. /\ Handling(w, n) /\ w.conn.state = "PAUSE_DATA"
          /\ w.conn.current_data = <<>> /\ w.client.last = "BIG"
          /\ w.client.queued = w.client.told
      BY <1>3, TextBack DEF OfText
    <2>. QED
      BY <2>1, RejectGood
  <1>4. ASSUME Back(w, "queue_ok", n)
        PROVE  Good(queue_ok_respond(w, n))
    <2>1. /\ Handling(w, n) /\ w.conn.state = "PAUSE_DATA"
          /\ w.client.queued = w.client.told \cup {n}
      BY <1>4, TextBack DEF OfText
    <2>2. PICK T : T = w.client.told \cup {n}
      OBVIOUS
    <2>3. PICK x : x = WithTold(w, T)
      OBVIOUS
    <2>4. T \in SUBSET Nat
      <3>1. w.client \in Client
        BY <2>1, WorldFields DEF Handling, Sane
      <3>. QED
        BY <2>1, <2>2, <3>1 DEF Client
    <2>7. /\ Handling(x, n) /\ x.conn = w.conn
          /\ x.client.told = T /\ x.client.queued = w.client.queued
      BY <2>1, <2>3, <2>4, ToldUpdate
    <2>8. Good(resume_after(x, n))
      BY <2>1, <2>2, <2>7, ResumeGood
    <2>9. queue_ok_respond(w, n) = resume_after(x, n)
      BY <2>1, <2>2, <2>3 DEF queue_ok_respond, WithTold
    <2>. QED
      BY <2>8, <2>9
  <1>. QED
    BY <1>1, <1>2, <1>3, <1>4


(* Whichever hook was asked, its answer is handled well.                   *)
LEMMA AnswerGood ==
    ASSUME Plain, NEW w, NEW h \in Hook, NEW retval \in Answers,
           h.hook \in (OfGreeting \cup OfCommand \cup OfText) \ Waits, Back(w, h.hook, h.n)
    PROVE  Good(respond_method(w, h, retval))
  <1>1. PICK n : n = h.n
    OBVIOUS
  <1>2. CASE h.hook \in OfGreeting
    <2>1. \/ /\ h.hook = "lookup_rdns"
             /\ respond_method(w, h, retval) = lookup_rdns_respond(w, n, retval)
          \/ /\ h.hook = "connect"
             /\ respond_method(w, h, retval) = connect_respond(w, n, retval)
      BY <1>1, <1>2 DEF OfGreeting, Waits, respond_method
    <2>. QED
      BY <1>1, <2>1, GreetingGood
  <1>3. CASE h.hook \in OfHello
    <2>1. CASE h.hook = "capabilities"
      <3>1. Good(respond(w, n))
        BY <1>1, <2>1, CommandAnswers DEF OfCommand, OfHello
      <3>. QED
        BY <1>1, <2>1, <3>1 DEF respond_method
    <2>2. CASE h.hook \in {"helo", "ehlo"}
      <3>1. PICK hook : hook = h.hook
        OBVIOUS
      <3>2. respond_method(w, h, retval) = hello_respond(w, hook, n, retval)
        BY <1>1, <2>2, <3>1 DEF respond_method
      <3>. QED
        BY <1>1, <2>2, <3>1, <3>2, HelloAnswerGood
    <2>. QED
      BY <1>3, <2>1, <2>2 DEF OfHello
  <1>4. CASE h.hook \in {"mail", "vrfy", "noop"}
    <2>1. w.conn.transaction.there \/ h.hook # "mail"
      BY DEF Back, Asked
    <2>2. \/ respond_method(w, h, retval) = refuse_respond(w, n, retval)
          \/ respond_method(w, h, retval) = noop_respond(w, n, retval)
      BY <1>1, <1>4, <2>1 DEF respond_method
    <2>3. PICK hook : hook = h.hook
      OBVIOUS
    <2>4. Good(refuse_respond(w, n, retval)) /\ Good(noop_respond(w, n, retval))
      BY <1>1, <1>4, <2>3, RefuseAnswers
    <2>. QED
      BY <2>2, <2>4
  <1>5. CASE h.hook \in {"rcpt", "rcpt_ok"}
    <2>1. \/ h.hook = "rcpt" /\ respond_method(w, h, retval) = rcpt_respond(w, n, retval)
          \/ h.hook = "rcpt_ok" /\ respond_method(w, h, retval) = rcpt_ok_respond(w, n, retval)
      BY <1>1, <1>5 DEF respond_method
    <2>. QED
      BY <1>1, <2>1, RcptAnswers
  <1>6. CASE h.hook = "data"
    <2>1. respond_method(w, h, retval) = data_respond(w, n, retval)
      BY <1>1, <1>6 DEF respond_method
    <2>. QED
      BY <1>1, <1>6, <2>1, DataGood
  <1>7. CASE h.hook \in {"rset", "quit"}
    <2>1. PICK hook : hook = h.hook
      OBVIOUS
    <2>2. (hook # "quit" => Good(reject(w, n))) /\ Good(hang_up(w, n))
      BY <1>1, <1>7, <2>1, CommandAnswers DEF OfCommand
    <2>. QED
      BY <1>1, <1>7, <2>1, <2>2 DEF respond_method
  <1>8. CASE h.hook \in OfText
    <2>1. \/ h.hook = "data_post" /\ respond_method(w, h, retval) = data_post_respond(w, n, retval)
          \/ h.hook = "max_data_exceeded" /\ respond_method(w, h, retval) = reject(w, n)
          \/ h.hook = "queue_ok" /\ respond_method(w, h, retval) = queue_ok_respond(w, n)
          \/ /\ h.hook \in {"queue", "queue_outbound"}
             /\ respond_method(w, h, retval) = queue_respond(w, h.hook, n, retval)
      BY <1>1, <1>8 DEF OfText, Waits, respond_method
    <2>2. PICK hook : hook = h.hook
      OBVIOUS
    <2>. QED
      BY <1>1, <2>1, <2>2, TextGood
  <1>. QED
    BY <1>2, <1>3, <1>4, <1>5, <1>6, <1>7, <1>8 DEF OfCommand

(* The callback of a hook takes it from those that run.                    *)
CalledBack(w, h, r) ==
    [w EXCEPT !.conn.hooks = @ \ {h}, !.conn.current_hook = {}, !.conn.relaying = r]

Ended(w, h) == [w EXCEPT !.conn.hooks = @ \ {h}]

LEMMA CalledBackFields ==
    ASSUME NEW w \in World, NEW h, NEW r \in BOOLEAN,
           NEW v, v = CalledBack(w, h, r) \/ (v = Ended(w, h) /\ w.conn.current_hook = {})
    PROVE  /\ v \in World
           /\ v.conn.hooks = w.conn.hooks \ {h} /\ v.conn.current_hook = {}
           /\ v.conn.state = w.conn.state
           /\ v.conn.transaction = w.conn.transaction
           /\ v.conn.current_data = w.conn.current_data
           /\ v.conn.paused = w.conn.paused /\ v.conn.thrown = w.conn.thrown
           /\ v.client = w.client
  <1>1. w.conn \in Connection /\ w.client \in Client
    BY WorldFields
  <1>2. PICK H : H = w.conn.hooks \ {h}
    OBVIOUS
  <1>3. H \in SUBSET Hook
    BY <1>1, <1>2 DEF Connection
  <1>4. CASE v = CalledBack(w, h, r)
    <2>. DEFINE c == [w.conn EXCEPT !.hooks = H, !.current_hook = {}, !.relaying = r]
    <2>1. v = [conn |-> c, client |-> w.client]
      BY <1>2, <1>4 DEF World, CalledBack
    <2>2. c \in Connection
      BY <1>1, <1>3 DEF Connection
    <2>3. /\ c.hooks = H /\ c.current_hook = {}
          /\ c.state = w.conn.state /\ c.transaction = w.conn.transaction
          /\ c.current_data = w.conn.current_data
          /\ c.paused = w.conn.paused /\ c.thrown = w.conn.thrown
      BY <1>1 DEF Connection
    <2>. HIDE DEF c
    <2>4. v \in World
      BY <1>1, <2>1, <2>2 DEF World
    <2>. QED
      BY <1>2, <2>1, <2>3, <2>4
  <1>5. CASE v = Ended(w, h) /\ w.conn.current_hook = {}
    <2>. DEFINE c == [w.conn EXCEPT !.hooks = H]
    <2>1. v = [conn |-> c, client |-> w.client]
      BY <1>2, <1>5 DEF World, Ended
    <2>2. c \in Connection
      BY <1>1, <1>3 DEF Connection
    <2>3. /\ c.hooks = H /\ c.current_hook = w.conn.current_hook
          /\ c.state = w.conn.state /\ c.transaction = w.conn.transaction
          /\ c.current_data = w.conn.current_data
          /\ c.paused = w.conn.paused /\ c.thrown = w.conn.thrown
      BY <1>1 DEF Connection
    <2>. HIDE DEF c
    <2>4. v \in World
      BY <1>1, <2>1, <2>2 DEF World
    <2>. QED
      BY <1>2, <1>5, <2>1, <2>3, <2>4
  <1>. QED
    BY <1>4, <1>5

LEMMA AskingBack ==
    ASSUME NEW s, NEW h, Asking(s, h), NEW r \in BOOLEAN, NEW v,
           v = CalledBack(s, h, r) \/ (v = Ended(s, h) /\ h.hook \in Waits)
    PROVE  Back(v, h.hook, h.n)
  <1>1. /\ s \in World /\ Sane(s) /\ s.conn.hooks = {h} /\ Behind(s, h.n)
        /\ Asked(s, h.hook, h.n)
        /\ s.conn.current_hook = IF h.hook \in Waits THEN {} ELSE {h}
    BY DEF Asking, Sane
  <1>2. v = CalledBack(s, h, r) \/ (v = Ended(s, h) /\ s.conn.current_hook = {})
    BY <1>1
  <1>3. /\ v \in World
        /\ v.conn.hooks = s.conn.hooks \ {h} /\ v.conn.current_hook = {}
        /\ v.conn.state = s.conn.state
        /\ v.conn.transaction = s.conn.transaction
        /\ v.conn.current_data = s.conn.current_data
        /\ v.conn.paused = s.conn.paused /\ v.conn.thrown = s.conn.thrown
        /\ v.client = s.client
    BY <1>1, <1>2, CalledBackFields
  <1>4. Alone(v) /\ Sane(v)
    BY <1>1, <1>3 DEF Alone, Sane
  <1>5. Behind(v, h.n)
    BY <1>1, <1>3 DEF Behind, Oldest, Open
  <1>6. PICK hook, n : hook = h.hook /\ n = h.n
    OBVIOUS
  <1>7. Asked(s, hook, n)
    BY <1>1, <1>6
  <1>8. Asked(v, hook, n)
    BY <1>3, <1>7 DEF Asked, Ready, Agreed
  <1>. QED
    BY <1>4, <1>5, <1>6, <1>8 DEF Back, Handling

----------------------------------------------------------------------------
(* The answers that come when the connection is gone.                      *)

LEMMA GoneStays ==
    ASSUME NEW w, Gone(w), NEW v, Sane(v),
           v.conn.state = w.conn.state, ~v.conn.transaction.there,
           \A h \in v.conn.hooks : h.hook \in Late \/ h \in w.conn.hooks,
           v.client = w.client
    PROVE  Gone(v)
  BY DEF Gone

LEMMA GoneDropped ==
    ASSUME NEW w, Gone(w)
    PROVE  Gone(Dropped(w))
  <1>1. PICK v : v = Dropped(w)
    OBVIOUS
  <1>2. w \in World
    BY DEF Gone, Sane
  <1>3. /\ v \in World /\ v.conn.transaction = NoTran
        /\ v.conn.state = w.conn.state /\ v.conn.hooks = w.conn.hooks
        /\ v.conn.thrown = w.conn.thrown /\ v.client = w.client
    BY <1>1, <1>2, DroppedFields
  <1>4. Sane(v) /\ ~v.conn.transaction.there
    BY <1>3, NoTranFields DEF Gone, Sane
  <1>. QED
    BY <1>1, <1>3, <1>4, GoneStays

LEMMA GoneAnswers ==
    ASSUME NEW w, Gone(w), NEW n
    PROVE  /\ respond(w, n) = w /\ loop_respond(w, n) = w /\ hang_up(w, n) = w
           /\ Gone(resume_after(w, n))
  <1>1. w.conn.state = "DISCONNECTED" /\ ~w.conn.transaction.there
    BY DEF Gone
  <1>2. respond(w, n) = w /\ loop_respond(w, n) = w
    BY <1>1 DEF respond, loop_respond, Open
  <1>3. hang_up(w, n) = w
    BY <1>1, <1>2 DEF hang_up, disconnect, Open
  <1>4. resume_after(w, n) = Dropped(w)
    <2>1. PICK x : x = Dropped(w)
      OBVIOUS
    <2>2. resume_after(w, n) = resume(x)
      BY <1>1, <1>2, <2>1
        DEF resume_after, reset_transaction, NoReset, reset_transaction_respond, continue, Dropped
    <2>3. x.conn.state = "DISCONNECTED"
      BY <2>1, GoneDropped DEF Gone
    <2>. QED
      BY <2>1, <2>2, <2>3 DEF resume, Open
  <1>. QED
    BY <1>2, <1>3, <1>4, GoneDropped

LEMMA GoneHook ==
    ASSUME NEW w, Gone(w), NEW n \in Nat, NEW hook \in Late
    PROVE  Gone(run_hook(w, hook, n))
  <1>1. PICK v : v = run_hook(w, hook, n)
    OBVIOUS
  <1>2. PICK h : h = Called(hook, n)
    OBVIOUS
  <1>3. w \in World /\ hook \in Hooks
    BY DEF Gone, Sane, Late, Hooks, Waits
  <1>. DEFINE c == [w.conn EXCEPT !.hooks = @ \cup {h}, !.current_hook = {h}]
  <1>4. v = [conn |-> c, client |-> w.client] /\ v \in World
    BY <1>1, <1>2, <1>3, RunHookWorld
  <1>5. w.conn \in Connection
    BY <1>3, WorldFields
  <1>6. /\ c.state = w.conn.state /\ c.transaction = w.conn.transaction
        /\ c.thrown = w.conn.thrown /\ c.hooks = w.conn.hooks \cup {h}
    BY <1>5 DEF Connection
  <1>. HIDE DEF c
  <1>7. v.conn = c /\ v.client = w.client
    BY <1>4
  <1>8. Sane(v)
    BY <1>4, <1>6, <1>7 DEF Gone, Sane
  <1>9. h.hook = hook
    BY <1>2 DEF Called
  <1>. QED
    BY <1>1, <1>6, <1>7, <1>8, <1>9, GoneStays DEF Gone

LEMMA GoneQueued ==
    ASSUME NEW w, Gone(w), NEW n \in Nat
    PROVE  Gone(queue_ok(w, n))
  <1>. DEFINE k == [w.client EXCEPT !.queued = @ \cup {n}]
  <1>1. w \in World /\ w.conn \in Connection /\ w.client \in Client
    BY WorldFields DEF Gone, Sane
  <1>2. PICK x : x = [conn |-> w.conn, client |-> k]
    OBVIOUS
  <1>3. queue_ok(w, n) = run_hook(x, "queue_ok", n)
    BY <1>1, <1>2 DEF queue_ok, World
  <1>4. /\ k \in Client /\ k.queued = w.client.queued \cup {n} /\ k.told = w.client.told
        /\ k.replied = w.client.replied /\ k.sent = w.client.sent
        /\ k.inorder = w.client.inorder
    BY <1>1 DEF Client
  <1>. HIDE DEF k
  <1>5. x \in World /\ x.conn = w.conn /\ x.client = k
    BY <1>1, <1>2, <1>4 DEF World
  <1>6. Gone(x)
    <2>1. Sane(x)
      BY <1>4, <1>5 DEF Gone, Sane
    <2>2. x.client.told \subseteq x.client.queued
      BY <1>4, <1>5 DEF Gone
    <2>. QED
      BY <1>4, <1>5, <2>1, <2>2 DEF Gone
  <1>. QED
    BY <1>3, <1>6, GoneHook DEF Late

LEMMA GoneAnswer ==
    ASSUME NEW w, Gone(w), NEW h \in Hook, h.hook \in Late \ Waits, NEW retval \in Answers
    PROVE  Gone(respond_method(w, h, retval))
  <1>1. PICK n : n = h.n
    OBVIOUS
  <1>2. /\ respond(w, n) = w /\ loop_respond(w, n) = w /\ hang_up(w, n) = w
        /\ Gone(resume_after(w, n))
    BY GoneAnswers
  <1>3. CASE h.hook = "connect"
    <2>1. respond_method(w, h, retval) = connect_respond(w, n, retval)
      BY <1>1, <1>3 DEF respond_method
    <2>. QED
      BY <1>2, <2>1 DEF connect_respond, Answers
  <1>4. CASE h.hook = "queue_ok"
    <2>1. respond_method(w, h, retval) = queue_ok_respond(w, n)
      BY <1>1, <1>4 DEF respond_method
    <2>2. w \in World /\ w.client \in Client /\ w.conn.state = "DISCONNECTED"
      BY WorldFields DEF Gone, Sane
    <2>3. PICK T : T = w.client.told
      OBVIOUS
    <2>4. WithTold(w, T) = w
      BY <2>2, <2>3 DEF WithTold, World, Client
    <2>5. queue_ok_respond(w, n) = resume_after(WithTold(w, T), n)
      BY <2>2, <2>3 DEF queue_ok_respond, WithTold
    <2>. QED
      BY <1>2, <2>1, <2>4, <2>5
  <1>. QED
    BY <1>3, <1>4 DEF Late

LEMMA GoneBack ==
    ASSUME NEW s, Gone(s), NEW h, NEW r \in BOOLEAN, NEW v,
           v = CalledBack(s, h, r) \/ v = Ended(s, h)
    PROVE  Gone(v)
  <1>1. s \in World /\ s.conn \in Connection /\ s.client \in Client
    BY WorldFields DEF Gone, Sane
  <1>2. PICK H : H = s.conn.hooks \ {h}
    OBVIOUS
  <1>3. H \in SUBSET Hook /\ \A g \in H : g \in s.conn.hooks
    BY <1>1, <1>2 DEF Connection
  <1>5. ASSUME NEW c_1, \/ c_1 = [s.conn EXCEPT !.hooks = H, !.current_hook = {}, !.relaying = r]
                        \/ c_1 = [s.conn EXCEPT !.hooks = H],
               v = [conn |-> c_1, client |-> s.client]
        PROVE  Gone(v)
    <2>1. /\ c_1 \in Connection /\ c_1.hooks = H /\ c_1.state = s.conn.state
          /\ c_1.transaction = s.conn.transaction /\ c_1.thrown = s.conn.thrown
      BY <1>1, <1>3, <1>5 DEF Connection
    <2>2. v.conn = c_1 /\ v.client = s.client
      BY <1>5
    <2>3. v \in World
      BY <1>1, <1>5, <2>1 DEF World
    <2>4. Sane(v)
      BY <2>1, <2>2, <2>3 DEF Gone, Sane
    <2>. QED
      BY <1>3, <2>1, <2>2, <2>4, GoneStays DEF Gone
  <1>6. \/ v = [conn |-> [s.conn EXCEPT !.hooks = H, !.current_hook = {}, !.relaying = r],
                client |-> s.client]
        \/ v = [conn |-> [s.conn EXCEPT !.hooks = H], client |-> s.client]
    BY <1>1, <1>2 DEF World, CalledBack, Ended
  <1>. QED
    BY <1>5, <1>6

----------------------------------------------------------------------------
(* The steps.                                                              *)

(* What calls the plugins, or is called by them, leads from a state of     *)
(* both to the next.                                                       *)
LEMMA BecomeIs ==
    ASSUME NEW w \in World, Become(w)
    PROVE  State' = w
  BY WorldFields DEF Become, State

LEMMA GoodWorld ==
    ASSUME NEW w, Good(w)
    PROVE  w \in World /\ Sane(w) /\ w.conn \in Connection /\ w.client \in Client
  BY WorldFields DEF Good, Serving, Asking, Gone, Sane

LEMMA BecomeGood ==
    ASSUME NEW w, Good(w), Become(w)
    PROVE  Good(State')
  BY GoodWorld, BecomeIs

LEMMA BecomeGone ==
    ASSUME NEW w, Gone(w), Become(w)
    PROVE  Gone(State')
  BY BecomeIs DEF Gone, Sane

LEMMA StateFields == State.conn = conn /\ State.client = client
  BY DEF State

(* The loop's flag, and the timer's, matter to a buffer that is served.    *)
LEMMA FlagsGood ==
    ASSUME NEW s, Good(s), NEW c, c \in Connection,
           NEW v, v = [conn |-> c, client |-> s.client],
           c.state = s.conn.state, c.transaction = s.conn.transaction,
           c.current_data = s.conn.current_data, c.hooks = s.conn.hooks,
           c.current_hook = s.conn.current_hook, c.paused = s.conn.paused,
           c.thrown = s.conn.thrown,
           Serving(s) => c.loop \/ c.current_data = <<>>
    PROVE  Good(v) /\ (Gone(s) => Gone(v))
  <1>1. /\ v.conn = c /\ v.client = s.client /\ v \in World
        /\ s \in World /\ Sane(s)
    BY GoodWorld DEF World
  <1>2. Sane(v)
    BY <1>1 DEF Sane
  <1>3. ASSUME Serving(s)
        PROVE  Serving(v)
    <2>1. Reading(s) => Reading(v)
      BY <1>1 DEF Reading
    <2>2. ReadingText(s) => ReadingText(v)
      BY <1>1 DEF ReadingText, Ready
    <2>. QED
      BY <1>1, <1>2, <1>3, <2>1, <2>2 DEF Serving, Agreed, Oldest
  <1>4. ASSUME NEW h \in Hook, Asking(s, h)
        PROVE  Asking(v, h)
    <2>1. PICK hook, n : hook = h.hook /\ n = h.n
      OBVIOUS
    <2>2. Behind(s, n) /\ Asked(s, hook, n)
      BY <1>4, <2>1 DEF Asking
    <2>3. Behind(v, n)
      BY <1>1, <2>2 DEF Behind, Open, Oldest
    <2>4. Asked(v, hook, n)
      BY <1>1, <2>2 DEF Asked, Ready, Agreed
    <2>. QED
      BY <1>1, <1>2, <1>4, <2>1, <2>3, <2>4 DEF Asking
  <1>5. ASSUME Gone(s)
        PROVE  Gone(v)
    BY <1>1, <1>2, <1>5 DEF Gone
  <1>. QED
    BY <1>3, <1>4, <1>5 DEF Good

LEMMA LoopGood ==
    ASSUME Good(State), stop \/ early_talker \/ timer
    PROVE  Good(State') /\ (Gone(State) => Gone(State'))
  <1>1. /\ State.conn = conn /\ State.client = client
        /\ conn \in Connection
    BY GoodWorld, StateFields
  <1>2. State' = [conn |-> conn', client |-> client]
    BY DEF State, stop, early_talker, timer
  <1>3. /\ conn' \in Connection
        /\ conn'.state = conn.state /\ conn'.transaction = conn.transaction
        /\ conn'.current_data = conn.current_data /\ conn'.hooks = conn.hooks
        /\ conn'.current_hook = conn.current_hook /\ conn'.paused = conn.paused
        /\ conn'.thrown = conn.thrown
    BY <1>1 DEF Connection, stop, early_talker, timer
  <1>4. ASSUME Serving(State)
        PROVE  conn'.loop \/ conn'.current_data = <<>>
    <2>1. conn.state \in {"CMD", "LOOP", "DATA"}
      BY <1>1, <1>4 DEF Serving, Reading, ReadingText
    <2>2. CASE stop
      BY <1>3, <2>1, <2>2 DEF stop, Waiting, Open
    <2>3. CASE early_talker
      BY <2>1, <2>3 DEF early_talker, Waiting
    <2>4. CASE timer
      BY <1>1, <2>4 DEF timer, Connection
    <2>. QED
      BY <2>2, <2>3, <2>4
  <1>5. PICK s, v, c : s = State /\ v = State' /\ c = conn'
    OBVIOUS
  <1>6. Good(v) /\ (Gone(s) => Gone(v))
    BY <1>1, <1>2, <1>3, <1>4, <1>5, FlagsGood
  <1>. QED
    BY <1>5, <1>6

LEMMA TakeLineGood ==
    ASSUME Plain, Good(State), take_line
    PROVE  Good(State') /\ ~Gone(State)
  <1>1. PICK s : s = State
    OBVIOUS
  <1>2. s.conn = conn /\ Good(s) /\ s \in World
    BY <1>1, GoodWorld, StateFields
  <1>3. conn.current_data # <<>> /\ conn.state \in {"CMD", "LOOP", "DATA"}
    BY DEF take_line
  <1>4. Serving(s) /\ ~Gone(s)
    <2>1. ASSUME NEW h \in Hook, Asking(s, h)
          PROVE  FALSE
      BY <1>2, <1>3, <2>1 DEF Asking, Asked
    <2>. QED
      BY <1>2, <1>3, <2>1 DEF Good, Gone
  <1>5. PICK line : line = Head(conn.current_data)
    OBVIOUS
  <1>6. PICK w : w = WithLines(s, Tail(s.conn.current_data))
    OBVIOUS
  <1>7. Good(process_line(w, line))
    BY <1>2, <1>3, <1>4, <1>5, <1>6, LineGood
  <1>8. Become(process_line(w, line))
    BY <1>1, <1>2, <1>5, <1>6 DEF take_line, WithLines
  <1>. QED
    BY <1>1, <1>4, <1>7, <1>8, BecomeGood

(* A callback, of a plugin or of what else is waited for.                  *)
LEMMA AnswerStep ==
    ASSUME Plain, Good(State), NEW h \in conn.hooks, answer(h)
    PROVE  Good(State') /\ (Gone(State) => Gone(State'))
  <1>1. PICK s : s = State
    OBVIOUS
  <1>2. s.conn = conn /\ Good(s) /\ s \in World /\ conn \in Connection
    BY <1>1, GoodWorld, StateFields
  <1>3. h \in Hook /\ h.hook \notin Waits
    BY <1>2 DEF Connection, answer
  <1>4. PICK retval \in Answers, r \in {conn.relaying, h.hook = "rcpt" \/ conn.relaying} :
            Become(respond_method(CalledBack(s, h, r), h, retval))
    BY <1>1 DEF answer, CalledBack
  <1>5. r \in BOOLEAN
    BY <1>2 DEF Connection
  <1>6. PICK v : v = CalledBack(s, h, r)
    OBVIOUS
  <1>7. ASSUME Gone(s)
        PROVE  Gone(State')
    <2>1. Gone(v) /\ h.hook \in Late \ Waits
      BY <1>2, <1>3, <1>5, <1>6, <1>7, GoneBack DEF Gone
    <2>2. Gone(respond_method(v, h, retval))
      BY <1>3, <2>1, GoneAnswer
    <2>. QED
      BY <1>4, <1>6, <2>2, BecomeGone
  <1>8. ASSUME NEW g \in Hook, Asking(s, g)
        PROVE  Good(State')
    <2>1. Asking(s, h) /\ h.hook \in (OfGreeting \cup OfCommand \cup OfText) \ Waits
      BY <1>2, <1>3, <1>8 DEF Asking
    <2>2. Back(v, h.hook, h.n)
      BY <1>5, <1>6, <2>1, AskingBack
    <2>3. Good(respond_method(v, h, retval))
      BY <1>3, <2>1, <2>2, AnswerGood
    <2>. QED
      BY <1>4, <1>6, <2>3, BecomeGood
  <1>9. ~Serving(s)
    BY <1>2 DEF Serving
  <1>. QED
    BY <1>1, <1>2, <1>7, <1>8, <1>9 DEF Good

LEMMA WaitStep ==
    ASSUME Plain, Good(State), NEW h \in conn.hooks, dns(h) \/ end_data(h) \/ send_email(h)
    PROVE  Good(State') /\ (Gone(State) => Gone(State'))
  <1>1. PICK s : s = State
    OBVIOUS
  <1>2. s.conn = conn /\ Good(s) /\ s \in World /\ conn \in Connection
    BY <1>1, GoodWorld, StateFields
  <1>3. h \in Hook /\ h.hook \in Waits
    BY <1>2 DEF Connection, Waits, dns, end_data, send_email
  <1>4. PICK v : v = Ended(s, h)
    OBVIOUS
  <1>5. PICK n : n = h.n
    OBVIOUS
  <1>6. n \in Nat
    BY <1>3, <1>5 DEF Hook
  <1>7. \/ h.hook = "dns" /\ Become(run_hook(v, "connect", n))
        \/ h.hook = "end_data" /\ conn.transaction.there /\ Become(run_hook(v, "data_post", n))
        \/ h.hook = "end_data" /\ ~conn.transaction.there /\ Become(v)
        \/ h.hook = "send_email" /\ (Become(queue_ok(v, n)) \/ Become(resume_after(v, n)))
    BY <1>1, <1>4, <1>5 DEF dns, end_data, send_email, Ended
  <1>8. ASSUME Gone(s)
        PROVE  Gone(State')
    <2>1. Gone(v)
      BY <1>4, <1>8, GoneBack
    <2>2. Gone(run_hook(v, "connect", n)) /\ Gone(queue_ok(v, n)) /\ Gone(resume_after(v, n))
      BY <1>6, <2>1, GoneHook, GoneQueued, GoneAnswers DEF Late
    <2>3. ~conn.transaction.there
      BY <1>2, <1>8 DEF Gone
    <2>. QED
      BY <1>7, <2>1, <2>2, <2>3, BecomeGone
  <1>9. ASSUME NEW g \in Hook, Asking(s, g)
        PROVE  Good(State')
    <2>1. Asking(s, h)
      BY <1>2, <1>9 DEF Asking
    <2>2. Back(v, h.hook, n)
      BY <1>3, <1>4, <1>5, <2>1, AskingBack
    <2>3. CASE h.hook = "dns"
      <3>1. Good(run_hook(v, "connect", n))
        BY <2>2, <2>3, GreetingGood DEF Answers
      <3>. QED
        BY <1>7, <2>3, <3>1, BecomeGood
    <2>4. CASE h.hook \in {"end_data", "send_email"}
      <3>1. PICK hook : hook = h.hook
        OBVIOUS
      <3>2. hook \in OfText \ {"max_data_exceeded", "queue_ok"}
        BY <2>4, <3>1 DEF OfText
      <3>3. /\ v.conn.transaction.there
            /\ Good(resume_after(v, n)) /\ Good(queue_ok(v, n))
            /\ Good(run_hook(v, "data_post", n))
        BY <2>2, <3>1, <3>2, TextAnswers
      <3>4. conn.transaction.there
        <4>1. Asked(s, hook, n)
          BY <1>5, <2>1, <3>1 DEF Asking
        <4>. QED
          BY <1>2, <3>2, <4>1 DEF Asked, Ready
      <3>. QED
        BY <1>7, <2>4, <3>3, <3>4, BecomeGood
    <2>. QED
      BY <1>3, <2>3, <2>4 DEF Waits
  <1>10. ~Serving(s)
    BY <1>2 DEF Serving
  <1>. QED
    BY <1>1, <1>2, <1>8, <1>9, <1>10 DEF Good


(* The client sends a line.                                                *)
LEMMA AppendNumbered ==
    ASSUME NEW lines \in Seq(Line), NEW n \in Nat, NEW sent \in Nat,
           Numbered(lines, n, sent), NEW line \in Line, line.n = sent + 1
    PROVE  Numbered(Append(lines, line), n, sent + 1)
  <1>. DEFINE k == Len(lines)
  <1>1. PICK more : more = Append(lines, line)
    OBVIOUS
  <1>2. /\ Len(more) = k + 1 /\ k \in Nat
        /\ \A i \in 1..k : more[i] = lines[i]
        /\ more[k + 1] = line
    BY <1>1, AppendProperties, LenProperties
  <1>3. sent + 1 = n + k /\ \A i \in 1..k : lines[i].n = n + i - 1
    BY DEF Numbered
  <1>. HIDE DEF k
  <1>4. (sent + 1) + 1 = n + (k + 1)
    BY <1>2, <1>3
  <1>5. ASSUME NEW i \in 1..(k + 1)
        PROVE  more[i].n = n + i - 1
    <2>1. CASE i \in 1..k
      BY <1>2, <1>3, <2>1
    <2>2. CASE i = k + 1
      <3>1. sent + 1 = n + (k + 1) - 1
        BY <1>2, <1>3
      <3>. QED
        BY <1>2, <2>2, <3>1
    <2>. QED
      BY <1>2, <2>1, <2>2
  <1>. QED
    BY <1>1, <1>2, <1>4, <1>5 DEF Numbered

LEMMA AppendLasting ==
    ASSUME NEW lines \in Seq(Line), NEW last, last \notin Finals, Lasting(lines, last),
           NEW line \in Line, line.cmd \notin Texts
    PROVE  Lasting(Append(lines, line), line.cmd)
  <1>. DEFINE k == Len(lines)
  <1>1. PICK more : more = Append(lines, line)
    OBVIOUS
  <1>2. /\ Len(more) = k + 1 /\ k \in Nat
        /\ \A i \in 1..k : more[i] = lines[i]
        /\ more[k + 1] = line
    BY <1>1, AppendProperties, LenProperties
  <1>3. \A i \in 1..k : lines[i].cmd \notin Texts \cup Finals
    BY DEF Lasting
  <1>. HIDE DEF k
  <1>4. ASSUME NEW i \in 1..(k + 1)
        PROVE  /\ more[i].cmd \notin Texts
               /\ more[i].cmd \in Finals => i = k + 1 /\ line.cmd = more[i].cmd
    <2>1. i \in 1..k \/ i = k + 1
      BY <1>2
    <2>. QED
      BY <1>2, <1>3, <2>1
  <1>. QED
    BY <1>1, <1>2, <1>4 DEF Lasting

Sent(s, line) ==
    [conn |-> [s.conn EXCEPT !.current_data = Append(@, line), !.loop = TRUE],
     client |-> [s.client EXCEPT !.sent = @ + 1, !.last = line.cmd]]

LEMMA SentFields ==
    ASSUME NEW s \in World, NEW line \in Line, NEW v, v = Sent(s, line),
           NEW lines, lines = Append(s.conn.current_data, line)
    PROVE  /\ v \in World
           /\ v.conn.current_data = lines /\ v.conn.loop
           /\ v.conn.state = s.conn.state /\ v.conn.transaction = s.conn.transaction
           /\ v.conn.hooks = s.conn.hooks /\ v.conn.current_hook = s.conn.current_hook
           /\ v.conn.paused = s.conn.paused /\ v.conn.thrown = s.conn.thrown
           /\ v.client.sent = s.client.sent + 1 /\ v.client.last = line.cmd
           /\ v.client.replied = s.client.replied /\ v.client.inorder = s.client.inorder
           /\ v.client.accepted = s.client.accepted
           /\ v.client.told = s.client.told /\ v.client.queued = s.client.queued
  <1>. DEFINE c == [s.conn EXCEPT !.current_data = lines, !.loop = TRUE]
              k == [s.client EXCEPT !.sent = @ + 1, !.last = line.cmd]
  <1>1. s.conn \in Connection /\ s.client \in Client
    BY WorldFields
  <1>2. lines \in Seq(Line)
    <2>1. s.conn.current_data \in Seq(Line)
      BY <1>1 DEF Connection
    <2>. QED
      BY <2>1, AppendProperties
  <1>3. v = [conn |-> c, client |-> k]
    BY DEF Sent
  <1>4. c \in Connection
    BY <1>1, <1>2 DEF Connection
  <1>5. k \in Client
    <2>1. s.client.sent \in Nat
      BY <1>1 DEF Client
    <2>2. s.client.sent + 1 \in Nat /\ line.cmd \in Commands
      BY <2>1 DEF Line
    <2>. QED
      BY <1>1, <2>2 DEF Client
  <1>6. /\ c.current_data = lines /\ c.loop
        /\ c.state = s.conn.state /\ c.transaction = s.conn.transaction
        /\ c.hooks = s.conn.hooks /\ c.current_hook = s.conn.current_hook
        /\ c.paused = s.conn.paused /\ c.thrown = s.conn.thrown
    BY <1>1 DEF Connection
  <1>7. /\ k.sent = s.client.sent + 1 /\ k.last = line.cmd
        /\ k.replied = s.client.replied /\ k.inorder = s.client.inorder
        /\ k.accepted = s.client.accepted
        /\ k.told = s.client.told /\ k.queued = s.client.queued
    BY <1>1 DEF Client
  <1>. HIDE DEF c, k
  <1>8. v \in World
    BY <1>3, <1>4, <1>5 DEF World
  <1>. QED
    BY <1>3, <1>6, <1>7, <1>8

(* The client does not send behind DATA or QUIT.                           *)
LEMMA NothingBehind ==
    ASSUME Plain, NEW h, Asking(State, h), NEW command, MaySend(command)
    PROVE  client.last \notin Finals
  <1>1. State \in World /\ Behind(State, h.n)
    BY DEF Asking, Sane
  <1>2. State.client = client /\ State.conn = conn
    BY DEF State
  <1>3. PICK lines, sent, replied, n :
            /\ lines = conn.current_data /\ sent = client.sent
            /\ replied = client.replied /\ n = h.n
    OBVIOUS
  <1>4. lines \in Seq(Line) /\ sent \in Nat /\ replied \in Nat
    BY <1>1, <1>2, <1>3, WorldFields DEF Connection, Client
  <1>5. n = replied + 1 /\ sent + 1 = (n + 1) + Len(lines)
    BY <1>1, <1>2, <1>3 DEF Behind, Oldest, Numbered
  <1>6. Len(lines) \in Nat
    BY <1>4, LenProperties
  <1>7. sent # replied
    BY <1>4, <1>5, <1>6
  <1>. QED
    BY <1>3, <1>7 DEF MaySend, MayGoOn, Finals, Texts

LEMMA ProcessDataGood ==
    ASSUME Plain, Good(State), process_data
    PROVE  Good(State') /\ ~Gone(State)
  <1>1. PICK s : s = State
    OBVIOUS
  <1>2. s.conn = conn /\ s.client = client /\ Good(s) /\ s \in World
        /\ conn \in Connection /\ client \in Client
    BY <1>1, GoodWorld, StateFields
  <1>3. PICK command \in Commands :
            /\ MaySend(command)
            /\ conn' = [conn EXCEPT !.current_data =
                                       Append(@, [cmd |-> command, n |-> client.sent + 1]),
                                    !.loop = TRUE]
            /\ client' = [client EXCEPT !.sent = @ + 1, !.last = command]
    BY DEF process_data
  <1>4. PICK sent : sent = client.sent
    OBVIOUS
  <1>5. sent \in Nat
    BY <1>2, <1>4 DEF Client
  <1>6. PICK line : line = [cmd |-> command, n |-> sent + 1]
    OBVIOUS
  <1>7. line \in Line /\ line.cmd = command /\ line.n = sent + 1
    BY <1>3, <1>5, <1>6 DEF Line
  <1>8. PICK v : v = Sent(s, line)
    OBVIOUS
  <1>9. State' = v
    BY <1>2, <1>3, <1>4, <1>6, <1>7, <1>8 DEF State, Sent
  <1>10. PICK old, new : old = conn.current_data /\ new = Append(old, line)
    OBVIOUS
  <1>11. /\ v \in World
         /\ v.conn.current_data = new /\ v.conn.loop
         /\ v.conn.state = conn.state /\ v.conn.transaction = conn.transaction
         /\ v.conn.hooks = conn.hooks /\ v.conn.current_hook = conn.current_hook
         /\ v.conn.paused = conn.paused /\ v.conn.thrown = conn.thrown
         /\ v.client.sent = sent + 1 /\ v.client.last = command
         /\ v.client.replied = client.replied /\ v.client.inorder = client.inorder
         /\ v.client.accepted = client.accepted
         /\ v.client.told = client.told /\ v.client.queued = client.queued
    BY <1>2, <1>4, <1>7, <1>8, <1>10, SentFields
  <1>12. old \in Seq(Line) /\ client.replied \in Nat
    BY <1>2, <1>10 DEF Connection, Client
  <1>13. ~conn.loop /\ Open(conn) /\ ~conn.paused
    BY DEF process_data, Idle
  <1>14. Sane(v)
    BY <1>2, <1>11, GoodWorld DEF Sane
  <1>15. ~Gone(s)
    BY <1>2, <1>13 DEF Gone, Open
  <1>16. ASSUME Serving(s)
         PROVE  Good(v)
    <2>1. PICK o : o = Oldest(s)
      OBVIOUS
    <2>2. o \in Nat /\ o = Oldest(v)
      BY <1>2, <1>11, <1>12, <2>1 DEF Oldest
    <2>3. old = <<>> /\ Numbered(old, o, sent)
      BY <1>2, <1>4, <1>10, <1>13, <1>16, <2>1 DEF Serving
    <2>4. Numbered(new, o, sent + 1)
      BY <1>5, <1>7, <1>10, <1>12, <2>2, <2>3, AppendNumbered
    <2>5. new = <<line>>
      BY <1>10, <2>3
    <2>6. Len(new) = 1 /\ new[1] = line /\ new # <<>>
      BY <2>5
    <2>7. ASSUME Reading(s)
          PROVE  Reading(v)
      <3>1. conn.state # "DATA"
        BY <1>2, <2>7 DEF Reading
      <3>2. command \notin Texts
        BY <1>3, <3>1 DEF MaySend
      <3>3. Lasting(new, command)
        <4>1. ASSUME NEW i \in 1..Len(new)
              PROVE  i = 1
          BY <2>6
        <4>. QED
          BY <1>7, <2>6, <3>2, <4>1 DEF Lasting
      <3>. QED
        BY <1>2, <1>11, <1>13, <2>7, <3>3 DEF Reading
    <2>8. ASSUME ReadingText(s)
          PROVE  ReadingText(v)
      <3>1. conn.state = "DATA" /\ client.last = "DATA"
        BY <1>2, <1>10, <2>3, <2>8 DEF ReadingText
      <3>2. command \in Texts
        BY <1>3, <3>1 DEF MaySend
      <3>. QED
        BY <1>2, <1>7, <1>11, <1>13, <2>6, <2>8, <3>1, <3>2 DEF ReadingText, Ready
    <2>9. Numbered(v.conn.current_data, Oldest(v), v.client.sent)
      BY <1>11, <2>2, <2>4
    <2>10. Agreed(v)
      BY <1>2, <1>11, <1>16 DEF Serving, Agreed
    <2>. QED
      BY <1>2, <1>11, <1>14, <1>16, <2>7, <2>8, <2>9, <2>10 DEF Serving, Good
  <1>17. ASSUME NEW h \in Hook, Asking(s, h)
         PROVE  Good(v)
    <2>1. PICK hook, n : hook = h.hook /\ n = h.n
      OBVIOUS
    <2>2. Behind(s, n) /\ Asked(s, hook, n) /\ hook \in OfGreeting \cup OfCommand \cup OfText
      BY <1>17, <2>1 DEF Asking
    <2>3. n \in Nat
      BY <1>2, <2>2, BehindReplied
    <2>4. client.last \notin Finals
      BY <1>1, <1>3, <1>17, NothingBehind
    <2>5. hook \notin OfText \cup {"data", "quit"} /\ conn.state # "DATA"
      BY <1>2, <1>13, <2>2, <2>4 DEF Asked, Finals, OfGreeting
    <2>6. command \notin Texts
      BY <1>3, <2>5 DEF MaySend
    <2>7. Numbered(new, n + 1, sent + 1)
      <3>1. Numbered(old, n + 1, sent)
        BY <1>2, <1>4, <1>10, <2>2 DEF Behind
      <3>2. n + 1 \in Nat
        BY <2>3
      <3>. QED
        BY <1>5, <1>7, <1>10, <1>12, <3>1, <3>2, AppendNumbered
    <2>8. Lasting(new, command)
      <3>1. Lasting(old, client.last)
        BY <1>2, <1>10, <2>2 DEF Behind
      <3>. QED
        <4>1. line.cmd \notin Texts
          BY <1>7, <2>6
        <4>2. Lasting(Append(old, line), line.cmd)
          BY <1>7, <1>12, <2>4, <3>1, <4>1, AppendLasting
        <4>. QED
          BY <1>7, <1>10, <4>2
    <2>9. Behind(v, n)
      <3>1. n = Oldest(v)
        BY <1>2, <1>11, <2>2 DEF Behind, Oldest
      <3>2. Numbered(v.conn.current_data, n + 1, v.client.sent)
        BY <1>11, <2>7
      <3>3. Lasting(v.conn.current_data, v.client.last)
        BY <1>11, <2>8
      <3>. QED
        BY <1>11, <1>13, <3>1, <3>2, <3>3 DEF Behind, Open
    <2>10. Asked(v, hook, n)
      BY <1>2, <1>11, <2>2, <2>5 DEF Asked, Ready, Agreed
    <2>11. Asking(v, h)
      BY <1>2, <1>11, <1>14, <1>17, <2>1, <2>2, <2>9, <2>10 DEF Asking
    <2>. QED
      BY <2>11 DEF Good
  <1>. QED
    BY <1>1, <1>2, <1>9, <1>15, <1>16, <1>17 DEF Good


(* The connection closes, or is timed out.                                 *)
LEMMA GoodLeaves ==
    ASSUME NEW s, Good(s), Open(s.conn)
    PROVE  Leaving(s)
  <1>1. s \in World /\ Sane(s) /\ s.conn \in Connection /\ s.client \in Client
    BY GoodWorld
  <1>2. PICK sent, replied, lines :
            /\ sent = s.client.sent /\ replied = s.client.replied
            /\ lines = s.conn.current_data
    OBVIOUS
  <1>3. sent \in Nat /\ replied \in Nat /\ Len(lines) \in Nat
    <2>1. sent \in Nat /\ replied \in Nat /\ lines \in Seq(Line)
      BY <1>1, <1>2 DEF Client, Connection
    <2>. QED
      BY <2>1, LenProperties
  <1>4. ASSUME Serving(s)
        PROVE  Leaving(s)
    <2>1. sent + 1 = (replied + 1) + Len(lines)
      BY <1>2, <1>4 DEF Serving, Numbered, Oldest
    <2>2. replied <= sent
      BY <1>3, <2>1
    <2>3. s.conn.hooks = {} /\ s.client.told \subseteq s.client.queued
      BY <1>4 DEF Serving
    <2>. QED
      BY <1>1, <1>2, <2>2, <2>3 DEF Leaving
  <1>5. ASSUME NEW h \in Hook, Asking(s, h)
        PROVE  Leaving(s)
    <2>1. sent + 1 = ((replied + 1) + 1) + Len(lines)
      BY <1>2, <1>5 DEF Asking, Behind, Numbered, Oldest
    <2>2. replied <= sent
      BY <1>3, <2>1
    <2>3. s.client.told \subseteq s.client.queued
      BY <1>5 DEF Asking, Asked
    <2>4. \A g \in s.conn.hooks : g.hook \in Late \/ g \in s.conn.current_hook
      BY <1>5 DEF Asking, Late
    <2>. QED
      BY <1>1, <1>2, <2>2, <2>3, <2>4 DEF Leaving
  <1>6. ~Gone(s)
    BY DEF Gone, Open
  <1>. QED
    BY <1>4, <1>5, <1>6 DEF Good

LEMMA CloseGone ==
    ASSUME Plain, Good(State), close \/ timeout
    PROVE  Good(State') /\ ~Gone(State)
  <1>1. PICK s : s = State
    OBVIOUS
  <1>2. s.conn = conn /\ Good(s) /\ s \in World /\ Open(conn)
    BY <1>1, StateFields, GoodWorld DEF close, timeout
  <1>3. Leaving(s) /\ ~Gone(s)
    BY <1>2, GoodLeaves DEF Gone, Open
  <1>4. CASE close
    <2>1. Gone(disconnect(s))
      BY <1>3, DisconnectGone
    <2>2. Become(disconnect(s))
      BY <1>1, <1>4 DEF close
    <2>. QED
      BY <1>1, <1>3, <2>1, <2>2, BecomeGone DEF Good
  <1>5. CASE timeout
    <2>. DEFINE c == [s.conn EXCEPT !.state = "CMD", !.loop = TRUE]
    <2>1. PICK x : x = [s EXCEPT !.conn.state = "CMD", !.conn.loop = TRUE]
      OBVIOUS
    <2>2. x = [conn |-> c, client |-> s.client]
      BY <1>2, <2>1 DEF World
    <2>3. s.conn \in Connection /\ s.client \in Client
      BY <1>2, WorldFields
    <2>4. /\ c \in Connection
          /\ c.state = "CMD" /\ c.transaction = s.conn.transaction
          /\ c.hooks = s.conn.hooks /\ c.current_hook = s.conn.current_hook
          /\ c.thrown = s.conn.thrown
      BY <2>3 DEF Connection, States
    <2>. HIDE DEF c
    <2>5. x \in World /\ x.conn = c /\ x.client = s.client
      BY <2>2, <2>3, <2>4 DEF World
    <2>6. Sane(x)
      BY <1>3, <2>4, <2>5 DEF Leaving, Sane
    <2>7. Leaving(x)
      BY <1>3, <2>4, <2>5, <2>6 DEF Leaving, Open
    <2>8. Gone(disconnect(x))
      BY <2>7, DisconnectGone
    <2>9. Become(disconnect(x))
      BY <1>1, <1>5, <2>1 DEF timeout
    <2>. QED
      BY <1>1, <1>3, <2>8, <2>9, BecomeGone DEF Good
  <1>. QED
    BY <1>4, <1>5

(* The greeting's first hook has been asked.                               *)
LEMMA InitGood ==
    ASSUME Init
    PROVE  Good(State)
  <1>1. PICK h : h = [hook |-> "lookup_rdns", n |-> 1, cb |-> "none"]
    OBVIOUS
  <1>2. h \in Hook /\ h.hook = "lookup_rdns" /\ h.n = 1
    BY <1>1 DEF Hook, Hooks, Continuations
  <1>3. /\ conn.state = "PAUSE" /\ conn.current_data = <<>>
        /\ conn.transaction = NoTran /\ conn.hooks = {h} /\ conn.current_hook = {h}
        /\ ~conn.paused /\ ~conn.thrown
        /\ client.sent = 1 /\ client.replied = 0
        /\ client.inorder /\ client.accepted = <<>> /\ client.told = {} /\ client.queued = {}
    BY <1>1 DEF Init
  <1>4. conn \in Connection
    <2>1. PICK empty \in Seq(Line) : empty = <<>>
      BY EmptySeq
    <2>2. PICK t \in Transaction : t = NoTran
      BY NoTranFields
    <2>. QED
      BY <1>1, <1>2, <2>1, <2>2 DEF Init, Connection, States
  <1>5. client \in Client
    <2>1. PICK empty \in Seq(Nat) : empty = <<>>
      BY EmptySeq
    <2>. QED
      BY <2>1 DEF Init, Client
  <1>6. PICK s : s = State
    OBVIOUS
  <1>7. s \in World /\ s.conn = conn /\ s.client = client
    BY <1>4, <1>5, <1>6 DEF State, World
  <1>8. Sane(s)
    BY <1>3, <1>7, NoTranFields DEF Sane
  <1>9. Behind(s, 1)
    <2>1. Numbered(<<>>, 1 + 1, 1) /\ Lasting(<<>>, client.last)
      BY DEF Numbered, Lasting
    <2>2. 1 = 0 + 1
      OBVIOUS
    <2>. QED
      BY <1>3, <1>7, <2>1, <2>2 DEF Behind, Oldest, Open
  <1>10. Asked(s, "lookup_rdns", 1)
    BY <1>3, <1>7, NoTranFields DEF Asked, Agreed, OfGreeting, OfCommand, OfHello, OfText
  <1>11. Asking(s, h)
    BY <1>2, <1>3, <1>7, <1>8, <1>9, <1>10 DEF Asking, OfGreeting, Waits
  <1>. QED
    BY <1>2, <1>6, <1>11 DEF Good

LEMMA StepGood ==
    ASSUME Plain, Good(State), [Next]_vars
    PROVE  Good(State') /\ (Gone(State) => Gone(State'))
  <1>1. CASE process_data
    BY <1>1, ProcessDataGood
  <1>2. CASE stop \/ early_talker \/ timer
    BY <1>2, LoopGood
  <1>3. CASE take_line
    BY <1>3, TakeLineGood
  <1>4. ASSUME NEW h \in conn.hooks, answer(h)
        PROVE  Good(State') /\ (Gone(State) => Gone(State'))
    BY <1>4, AnswerStep
  <1>5. ASSUME NEW h \in conn.hooks, dns(h) \/ end_data(h) \/ send_email(h)
        PROVE  Good(State') /\ (Gone(State) => Gone(State'))
    BY <1>5, WaitStep
  <1>6. CASE close \/ timeout
    BY <1>6, CloseGone
  <1>7. CASE UNCHANGED vars
    <2>1. State' = State
      BY <1>7 DEF vars, State
    <2>. QED
      BY <2>1
  <1>. QED
    BY <1>1, <1>2, <1>3, <1>4, <1>5, <1>6, <1>7 DEF Next

----------------------------------------------------------------------------
(* What the invariant says of the connection.                              *)

LEMMA GoodType == Good(State) => TypeOK
  BY GoodWorld, StateFields DEF TypeOK

LEMMA GoodReplies == Good(State) => RepliesInOrder
  <1>. SUFFICES ASSUME Good(State)
                PROVE  client.inorder /\ client.replied <= client.sent
    BY DEF RepliesInOrder
  <1>1. PICK s : s = State
    OBVIOUS
  <1>2. s.conn = conn /\ s.client = client /\ Good(s) /\ Sane(s)
    BY <1>1, StateFields, GoodWorld
  <1>3. CASE Open(s.conn)
    BY <1>2, <1>3, GoodLeaves DEF Leaving, Sane
  <1>4. CASE ~Open(s.conn)
    <2>1. Gone(s)
      BY <1>2, <1>4 DEF Good, Serving, Reading, ReadingText, Asking, Behind, Open
    <2>. QED
      BY <1>2, <2>1 DEF Gone, Sane
  <1>. QED
    BY <1>3, <1>4

(* A quiet connection is served, and its buffer is empty.                  *)
LEMMA QuietServed ==
    ASSUME Good(State), Quiet
    PROVE  Serving(State) /\ conn.current_data = <<>>
  <1>1. PICK s : s = State
    OBVIOUS
  <1>2. s.conn = conn /\ Good(s)
    BY <1>1, StateFields
  <1>3. ~conn.loop /\ Open(conn) /\ conn.hooks = {}
    BY DEF Quiet, Idle
  <1>4. ~Gone(s) /\ \A h \in Hook : ~Asking(s, h)
    BY <1>2, <1>3 DEF Gone, Open, Asking
  <1>5. Serving(s)
    BY <1>2, <1>4 DEF Good
  <1>. QED
    BY <1>1, <1>2, <1>3, <1>5 DEF Serving

LEMMA GoodStalls == Good(State) => NoStall
  <1>. SUFFICES ASSUME Good(State)
                PROVE  NoStall
    OBVIOUS
  <1>1. PICK s : s = State
    OBVIOUS
  <1>2. /\ s.conn = conn /\ s.client = client /\ Good(s) /\ Sane(s)
        /\ client \in Client
    BY <1>1, StateFields, GoodWorld
  <1>3. ~conn.thrown
    BY <1>2 DEF Sane
  <1>4. ASSUME Quiet
        PROVE  /\ client.replied = client.sent
               /\ conn.current_data = <<>>
               /\ conn.state \in {"CMD", "LOOP", "DATA"}
               /\ conn.paused => client.last \in {"BIG", "MANY"}
    <2>1. Serving(s) /\ conn.current_data = <<>>
      BY <1>1, <1>4, QuietServed
    <2>2. client.replied = client.sent
      <3>1. PICK sent, replied : sent = client.sent /\ replied = client.replied
        OBVIOUS
      <3>2. sent \in Nat /\ replied \in Nat
        BY <1>2, <3>1 DEF Client
      <3>3. sent + 1 = (replied + 1) + Len(<<>>)
        BY <1>2, <2>1, <3>1 DEF Serving, Numbered, Oldest
      <3>4. Len(<<>>) = 0
        OBVIOUS
      <3>5. sent = replied
        BY <3>2, <3>3, <3>4
      <3>. QED
        BY <3>1, <3>5
    <2>. QED
      BY <1>2, <2>1, <2>2 DEF Serving, Reading, ReadingText
  <1>. QED
    BY <1>3, <1>4 DEF NoStall

LEMMA GoodEnvelope == Good(State) => EnvelopeIsAccepted
  <1>. SUFFICES ASSUME Good(State), Open(conn), NEW h \in conn.hooks,
                       h.hook \in {"data", "end_data", "data_post", "queue",
                                   "queue_outbound", "send_email"}
                PROVE  /\ conn.transaction.rcpt_to = client.accepted
                       /\ client.accepted # <<>>
    BY DEF EnvelopeIsAccepted
  <1>1. PICK s : s = State
    OBVIOUS
  <1>2. s.conn = conn /\ s.client = client /\ Good(s)
    BY <1>1, StateFields
  <1>3. Asking(s, h)
    <2>1. ~Gone(s) /\ ~Serving(s)
      BY <1>2 DEF Gone, Serving, Open
    <2>2. PICK g \in Hook : Asking(s, g)
      BY <1>2, <2>1 DEF Good
    <2>3. h = g
      BY <1>2, <2>2 DEF Asking
    <2>. QED
      BY <2>2, <2>3
  <1>4. PICK hook, n : hook = h.hook /\ n = h.n
    OBVIOUS
  <1>5. Asked(s, hook, n)
    BY <1>3, <1>4 DEF Asking
  <1>6. Ready(s) /\ Agreed(s)
    BY <1>4, <1>5 DEF Asked, OfText
  <1>. QED
    BY <1>2, <1>6 DEF Ready, Agreed

LEMMA GoodTold == Good(State) => QueuedIsTold
  <1>. SUFFICES ASSUME Good(State)
                PROVE  /\ client.told \subseteq client.queued
                       /\ Quiet => client.told = client.queued
    BY DEF QueuedIsTold
  <1>1. PICK s : s = State
    OBVIOUS
  <1>2. s.conn = conn /\ s.client = client /\ Good(s)
    BY <1>1, StateFields
  <1>3. s.client.told \subseteq s.client.queued
    <2>1. ASSUME NEW h \in Hook, Asking(s, h)
          PROVE  s.client.told \subseteq s.client.queued
      BY <2>1 DEF Asking, Asked
    <2>. QED
      BY <1>2, <2>1 DEF Good, Serving, Gone
  <1>4. Quiet => client.told = client.queued
    BY <1>1, <1>2, QuietServed DEF Serving
  <1>. QED
    BY <1>2, <1>3, <1>4

----------------------------------------------------------------------------
(* The theorems.                                                           *)

LEMMA GoodHolds == Plain => (Spec => []Good(State))
  <1>. SUFFICES ASSUME Plain
                PROVE  Spec => []Good(State)
    OBVIOUS
  <1>1. Init => Good(State)
    BY InitGood
  <1>2. Good(State) /\ [Next]_vars => Good(State)'
    BY StepGood
  <1>. QED
    BY <1>1, <1>2, PTL DEF Spec

(* The connection, its hooks and its client keep their types.              *)
THEOREM TypeCorrect == Plain => (Spec => []TypeOK)
  BY GoodHolds, GoodType, PTL

(* However many lines are pipelined and however long their plugins take,   *)
(* each command is answered once, in its turn: process_line pauses the     *)
(* command loop until the hook's respond opens it.                         *)
THEOREM InOrder == Plain => (Spec => []RepliesInOrder)
  BY GoodHolds, GoodReplies, PTL

(* No transaction is used that is gone, and an open connection with        *)
(* nothing under way has answered all and waits for its client, paused     *)
(* only behind a text that is too big or has too many Received headers.    *)
THEOREM NeverStalls == Plain => (Spec => []NoStall)
  BY GoodHolds, GoodStalls, PTL

(* From DATA to the queue, the recipients of the transaction are those     *)
(* that got a 250 since MAIL: rcpt_respond pops the refused ones.          *)
THEOREM Envelopes == Plain => (Spec => []EnvelopeIsAccepted)
  BY GoodHolds, GoodEnvelope, PTL

(* The client has a 250 only for what a queue has, and for all of it when  *)
(* nothing is under way.                                                   *)
THEOREM ToldTrue == Plain => (Spec => []QueuedIsTold)
  BY GoodHolds, GoodTold, PTL

(* What calls back after disconnect leaves the connection closed.          *)
THEOREM StaysClosed == Plain => (Spec => ClosedForGood)
  <1>. SUFFICES ASSUME Plain
                PROVE  Spec => ClosedForGood
    OBVIOUS
  <1>1. Good(State) /\ [Next]_vars => [~Open(conn) => ~Open(conn')]_vars
    <2>. SUFFICES ASSUME Good(State), [Next]_vars, ~Open(conn)
                  PROVE  ~Open(conn')
      OBVIOUS
    <2>1. PICK s, v : s = State /\ v = State'
      OBVIOUS
    <2>2. s.conn = conn /\ v.conn = conn'
      BY <2>1 DEF State
    <2>3. Gone(s)
      BY <2>1, <2>2 DEF Good, Serving, Reading, ReadingText, Asking, Behind, Open
    <2>4. Gone(v)
      BY <2>1, <2>3, StepGood
    <2>. QED
      BY <2>2, <2>4 DEF Gone, Open
  <1>. QED
    BY <1>1, GoodHolds, PTL DEF Spec, ClosedForGood
=============================================================================

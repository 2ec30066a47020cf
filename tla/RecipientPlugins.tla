--------------------------- MODULE RecipientPlugins ---------------------------
(***************************************************************************)
(* plugins/wrte.js and data_post of bitcoin.js: what becomes of the        *)
(* recipients of one mail.  A wrte address is looked up in the database;   *)
(* notes.user is the user found last.  At data_post that user's address is *)
(* replaced by his own and he sets the price; other wrte addresses stay,   *)
(* and the outbound queue sends them to this server again, as a client     *)
(* from the local host, when the invoice is paid.                          *)
(***************************************************************************)
EXTENDS Naturals, Sequences, FiniteSets

CONSTANTS
    Price,      \* [users -> Nat]
    Clients,    \* subset of {"outside", "auth"}: who may send the mail
    Kinds,      \* subset of {"special", "noreply", "other"}: other recipients
    MaxRcpt,    \* bound: RCPT commands of the client
    InTime      \* lookups are answered before the plugin timeout

VARIABLES
    running,
    conn,       \* n, up, from, hook, what a local client has still to name, and
                \*   white: the host of its mail's sender is on the whitelist
    txn,        \* open, rcpt_to, notes.user
    lookups,    \* findOne calls: user, connection, whether the hook waits
    queue,      \* mails queued: recipients, whose invoice they wait for, white
    invoices,   \* user, and the recipients his mail was accepted for
    forwarded   \* users served: whose invoice was paid for it, white

vars == <<running, conn, txn, lookups, queue, invoices, forwarded>>

Users == DOMAIN Price
None == "none"
At(where, who) == <<where, who>>       \* where: "me", "own" (forwarded), "far"

NoTxn == [open |-> FALSE, rcpt_to |-> <<>>, user |-> None]
NewTxn == [NoTxn EXCEPT !.open = TRUE]

Init ==
    /\ running = TRUE
    /\ \E c \in Clients, w \in BOOLEAN :
          conn = [n |-> 1, up |-> TRUE, from |-> c, hook |-> None, todo |-> <<>>, rcpts |-> 0, white |-> w]
    /\ txn = NewTxn
    /\ lookups = {} /\ queue = {} /\ invoices = {} /\ forwarded = {}

Ready == running /\ conn.up /\ txn.open /\ conn.hook = None

-----------------------------------------------------------------------------
(* RCPT: cmd_rcpt adds the recipient before the hooks are asked; a denied  *)
(* one is popped.                                                          *)

In(s) == {s[i] : i \in DOMAIN s}
\* The members of s that are in S, in their order.
Chosen(s, S) ==
    LET chosen[n \in 0..Len(s)] ==
          IF n = 0 THEN <<>>
          ELSE IF s[n] \in S THEN Append(chosen[n - 1], s[n]) ELSE chosen[n - 1]
    IN  chosen[Len(s)]

Push(a) == [txn EXCEPT !.rcpt_to = Append(@, a)]
Popped(t) == [t EXCEPT !.rcpt_to = SubSeq(@, 1, Len(@) - 1)]

\* replaceRcpt, for an alias of the configuration with two addresses.
replaceRcpt(t, from) ==
    [t EXCEPT !.rcpt_to = Append(Append(Chosen(@, In(@) \ {from}), At("far", "staff1")), At("far", "staff2"))]

\* wrte_special_emails denies noreply; wrte_sent_by_localhost decides on the
\* addresses of other hosts.
wrte_special_emails(a) ==
    CASE a = At("me", "special") -> replaceRcpt(Push(a), a)
      [] a = At("me", "noreply") -> txn
      [] OTHER -> IF conn.from = "outside" THEN txn ELSE Push(a)

Others == {At(IF k = "other" THEN "far" ELSE "me", k) : k \in Kinds}

rcpt_other ==
    /\ Ready /\ conn.todo = <<>> /\ conn.from # "local" /\ conn.rcpts < MaxRcpt
    /\ \E a \in Others : txn' = wrte_special_emails(a)
    /\ conn' = [conn EXCEPT !.rcpts = @ + 1]
    /\ UNCHANGED <<running, lookups, queue, invoices, forwarded>>

\* wrte_user_exists asks the database.
wrte_user_exists(u) ==
    /\ txn' = Push(At("me", u))
    /\ lookups' = lookups \union {[user |-> u, conn |-> conn.n, id |-> conn.rcpts, waits |-> TRUE]}
    /\ UNCHANGED <<running, queue, invoices, forwarded>>

rcpt ==
    /\ Ready
    /\ \/ /\ conn.from # "local" /\ conn.rcpts < MaxRcpt
          /\ \E u \in Users : wrte_user_exists(u)
          /\ conn' = [conn EXCEPT !.rcpts = @ + 1, !.hook = "rcpt"]
       \/ /\ conn.todo # <<>>
          /\ wrte_user_exists(Head(conn.todo)[2])
          /\ conn' = [conn EXCEPT !.rcpts = @ + 1, !.hook = "rcpt", !.todo = Tail(@)]

\* The database answers.  found: the account is active, verified and set up.
\* A callback that finds no transaction throws, and the process exits.
found(l) ==
    /\ running /\ l \in lookups
    /\ lookups' = lookups \ {l}
    /\ IF l.conn = conn.n /\ txn.open
       THEN txn' = [txn EXCEPT !.user = l.user] /\ UNCHANGED running
       ELSE running' = FALSE /\ UNCHANGED txn
    /\ conn' = IF l.waits THEN [conn EXCEPT !.hook = None] ELSE conn
    /\ UNCHANGED <<queue, invoices, forwarded>>

not_found(l) ==
    /\ running /\ l \in lookups
    /\ lookups' = lookups \ {l}
    /\ IF l.waits THEN txn' = Popped(txn) /\ conn' = [conn EXCEPT !.hook = None]
       ELSE UNCHANGED <<txn, conn>>
    /\ UNCHANGED <<running, queue, invoices, forwarded>>

Forsaken == {[l EXCEPT !.waits = FALSE] : l \in lookups}

\* plugins.js answers in place of a lookup: DENYSOFT.
hook_timeout ==
    /\ ~InTime /\ running /\ conn.hook = "rcpt"
    /\ lookups' = Forsaken
    /\ txn' = Popped(txn)
    /\ conn' = [conn EXCEPT !.hook = None]
    /\ UNCHANGED <<running, queue, invoices, forwarded>>

\* RSET, and MAIL of another sender.
reset_transaction ==
    /\ Ready /\ conn.from # "local"
    /\ txn' = NewTxn
    /\ \E w \in BOOLEAN : conn' = [conn EXCEPT !.white = w]
    /\ UNCHANGED <<running, lookups, queue, invoices, forwarded>>

disconnect ==
    /\ running /\ conn.up /\ conn.from # "local"
    /\ conn' = [conn EXCEPT !.up = FALSE, !.hook = None]
    /\ txn' = NoTxn
    /\ lookups' = Forsaken
    /\ UNCHANGED <<running, queue, invoices, forwarded>>

-----------------------------------------------------------------------------
(* The message is complete.                                                *)

\* wrte's hook_data_post.
\* (..._Name: the form of a mutant that PROJECT.json names.)
Rewritten_All(t) ==
    [i \in DOMAIN t.rcpt_to |->
        IF t.rcpt_to[i][1] = "me" THEN At("own", t.rcpt_to[i][2]) ELSE t.rcpt_to[i]]

Rewritten(t) ==
    [i \in DOMAIN t.rcpt_to |->
        IF t.rcpt_to[i] = At("me", t.user) THEN At("own", t.user) ELSE t.rcpt_to[i]]

WrteUsers(s) == {u \in Users : At("me", u) \in In(s)}

Queued(s, payer) ==
    queue' = queue \union {[rcpts |-> s, payer |-> payer, white |-> conn.white]}
\* The client quits, or hangs up.
Leave == conn' = [conn EXCEPT !.up = FALSE, !.hook = None] /\ txn' = NoTxn

PriceOf(u) == IF u = None THEN 0 ELSE Price[u]

\* bitcoin's hook_data_post: the sender is whitelisted, or the user is free.
Unpriced == conn.white \/ PriceOf(txn.user) = 0

hook_data_post_free ==
    /\ Ready /\ conn.todo = <<>> /\ txn.rcpt_to # <<>>
    /\ Unpriced
    /\ Queued(Rewritten(txn), None)
    /\ Leave
    /\ lookups' = Forsaken
    /\ UNCHANGED <<running, invoices, forwarded>>

\* The invoice is inserted and sent to the sender.
hook_data_post ==
    /\ Ready /\ conn.todo = <<>> /\ txn.rcpt_to # <<>>
    /\ ~Unpriced
    /\ invoices' = invoices \union {[user |-> txn.user, rcpts |-> WrteUsers(txn.rcpt_to)]}
    /\ Queued(Rewritten(txn), txn.user)
    /\ Leave
    /\ lookups' = Forsaken
    /\ UNCHANGED <<running, forwarded>>

\* The insert fails: DENY.
hook_data_post_error ==
    /\ Ready /\ conn.todo = <<>> /\ txn.rcpt_to # <<>>
    /\ ~Unpriced
    /\ txn' = NoTxn /\ conn' = [conn EXCEPT !.up = FALSE]
    /\ lookups' = Forsaken
    /\ UNCHANGED <<running, queue, invoices, forwarded>>

-----------------------------------------------------------------------------
(* The outbound queue sends a mail whose invoice, if any, is paid; what is *)
(* left for addresses of this host (hook_get_mx) comes back.               *)

Own(e) == {u \in Users : At("own", u) \in In(e.rcpts)}
ToMe(e) == Chosen(e.rcpts, {a \in In(e.rcpts) : a[1] = "me"})

hook_get_mx ==
    /\ running /\ ~conn.up
    /\ \E e \in queue :
          /\ queue' = queue \ {e}
          /\ forwarded' = forwarded \union
                {[user |-> u, payer |-> e.payer, white |-> e.white] : u \in Own(e)}
          /\ IF ToMe(e) = <<>> THEN UNCHANGED <<conn, txn>>
             ELSE /\ conn' = [n |-> conn.n + 1, up |-> TRUE, from |-> "local", hook |-> None,
                              todo |-> ToMe(e), rcpts |-> 0, white |-> e.white]
                  /\ txn' = NewTxn
    /\ UNCHANGED <<running, lookups, invoices>>

\* Every recipient of the local client was denied: the queue bounces them.
local_bounce ==
    /\ Ready /\ conn.from = "local" /\ conn.todo = <<>> /\ txn.rcpt_to = <<>>
    /\ Leave
    /\ lookups' = Forsaken
    /\ UNCHANGED <<running, queue, invoices, forwarded>>

Answered == \E l \in lookups : found(l) \/ not_found(l)
DataPost == hook_data_post_free \/ hook_data_post \/ hook_data_post_error

Next ==
    \/ rcpt_other \/ rcpt \/ Answered \/ hook_timeout
    \/ reset_transaction \/ disconnect \/ DataPost \/ hook_get_mx \/ local_bounce

Spec == Init /\ [][Next]_vars

(* The database and the queue work, and so does the local client.          *)
Onward == rcpt \/ Answered \/ DataPost \/ hook_get_mx \/ local_bounce
FairSpec == Spec /\ WF_vars(Onward)

-----------------------------------------------------------------------------
(* Properties.                                                             *)

\* A user with a price gets a mail only when an invoice of his own for it
\* was paid, whoever else is among its recipients -- unless the site's
\* whitelist has the host of its sender.
PricedByOwn == \A f \in forwarded : Price[f.user] > 0 /\ ~f.white => f.payer = f.user

\* A sender is asked to pay for a user to whom his mail is addressed.
InvoiceIsForRecipient == \A i \in invoices : i.user \in i.rcpts

\* A mail that comes back to this server has been forwarded to one of its
\* users before, so that it does not come back for ever.
LoopServes == \A e \in queue : ToMe(e) # <<>> => Own(e) # {}

\* A lookup that comes back late does no harm.
Survives == running

\* In the end nothing is queued.
AllGone == queue = {} \/ ~running
=============================================================================

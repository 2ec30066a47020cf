------------------------------- MODULE Denials -------------------------------
(***************************************************************************)
(* Plugins that overrule the denials of others: delay_deny.js keeps those  *)
(* made before DATA for the recipients, and karma.js captures and scores   *)
(* them.  Both work from the deny hook, which plugins.js runs for every    *)
(* denial; both deny themselves, at hooks of their own.                    *)
(*                                                                         *)
(* One connection.  "x" stands for every other plugin: it may deny at any  *)
(* hook, and accepts recipients.                                           *)
(***************************************************************************)
EXTENDS Integers, Sequences, FiniteSets

CONSTANTS
    Orders,      \* sequences of "x", "delay_deny", "karma": orders of config/plugins
    MaxRcpt,     \* RCPT commands of the connection
    MaxDenials,  \* denials of x
    MaxCommands, \* EHLO and MAIL commands of the connection
    Negative,    \* karma.ini [thresholds]negative, as a loss: 8
    deny_hooks,  \* karma.ini [deny]hooks
    recipients,  \* karma.ini [recipients]: [bad, neutral, good]
    excluded     \* TRUE: x is excluded from delay_deny's and karma's work

VARIABLES
    order,
    hook, i,     \* the hook that runs, and which plugin's turn it is; or greet (the
                 \*   client is not greeted, hello_host is null), wait, closed, queued
    denial, j,   \* the denial the deny hook is about, and whose turn
    score,       \* karma's results.connect
    todo,        \* awards karma has not given yet
    pre,         \* connection.notes.delay_deny_pre
    txn,         \* the transaction: its rcpt_to, and its delay_deny_pre
    relaying,
    rcpt,        \* RCPT commands so far
    denials,     \* denials of x so far
    commands     \* EHLO and MAIL commands so far

vars == <<order, hook, i, denial, j, score, todo, pre, txn, relaying, rcpt, denials, commands>>

None == [code |-> "none", by |-> "none", hook |-> "none", rcpt |-> 0]
\* denied: a note of the model, MAIL was denied and the denial put off.
NoTxn == [open |-> FALSE, rcpt_to |-> {}, pre |-> <<>>, denied |-> FALSE]

Init ==
    /\ order \in Orders
    /\ hook = "connect" /\ i = 1
    /\ denial = None /\ j = 0
    /\ score = 0 /\ todo = {3, -3}
    /\ pre = <<>> /\ txn = NoTxn
    /\ relaying = FALSE /\ rcpt = 0 /\ denials = 0 /\ commands = 0

-----------------------------------------------------------------------------
(* What a hook's answer leads to (the ..._respond functions of connection. *)
(* js).  A denied connection gets the same answer to all it sends; after a *)
(* denied EHLO the client must greet again; the rest goes on.              *)
\* rcpt_respond: only ok, or a client that may relay, gets to rcpt_ok.
respond(code) ==
    /\ denial' = None /\ j' = 0
    /\ CASE hook = "rcpt" /\ (code = "ok" \/ (code = "cont" /\ relaying)) ->
              hook' = "rcpt_ok" /\ i' = 1 /\ UNCHANGED txn
         [] hook = "rcpt" /\ ~(code = "ok" \/ (code = "cont" /\ relaying)) ->
              hook' = "wait" /\ i' = 0 /\ UNCHANGED txn
         [] hook = "rcpt_ok" ->
              /\ hook' = "wait" /\ i' = 0
              /\ txn' = IF code \in {"cont", "ok"} THEN [txn EXCEPT !.rcpt_to = @ \union {rcpt}] ELSE txn
         [] hook = "connect" ->
              hook' = (IF code \in {"cont", "ok"} THEN "greet" ELSE "closed") /\ i' = 0 /\ UNCHANGED txn
         [] hook = "ehlo" ->
              hook' = (IF code \in {"cont", "ok"} THEN "wait" ELSE "greet") /\ i' = 0 /\ UNCHANGED txn
         [] hook = "mail" ->
              /\ hook' = "wait" /\ i' = 0
              /\ txn' = IF code \in {"cont", "ok"} THEN txn ELSE NoTxn
         [] hook = "data" /\ code \in {"cont", "ok"} ->
              hook' = "data_post" /\ i' = 1 /\ UNCHANGED txn
         [] hook = "data_post" /\ code \in {"cont", "ok"} ->
              hook' = "queued" /\ i' = 0 /\ UNCHANGED txn
         [] hook \in {"data", "data_post"} /\ code \notin {"cont", "ok"} ->
              hook' = "wait" /\ i' = 0 /\ txn' = NoTxn

\* The plugin answered cont: the next one, or the hook's answer.
go_on == IF i < Len(order)
         THEN i' = i + 1 /\ denial' = None /\ j' = 0 /\ UNCHANGED <<hook, txn>>
         ELSE respond("cont")

\* The plugin denied: the deny hook.
deny(code, by) ==
    /\ denial' = [code |-> code, by |-> by, hook |-> hook, rcpt |-> IF hook \in {"rcpt", "rcpt_ok"} THEN rcpt ELSE 0]
    /\ j' = 1
    /\ UNCHANGED <<hook, i, txn>>

Turn(p) == hook \notin {"greet", "wait", "closed", "queued"} /\ denial = None /\ order[i] = p

-----------------------------------------------------------------------------
(* x, at any hook.                                                         *)
x ==
    /\ Turn("x")
    /\ \/ go_on /\ UNCHANGED denials
       \/ hook = "rcpt" /\ respond("ok") /\ UNCHANGED denials
       \/ /\ denials < MaxDenials /\ denials' = denials + 1
          /\ \E code \in {"deny", "denysoft"} : deny(code, "x")
    /\ UNCHANGED <<order, score, todo, pre, relaying, rcpt, commands>>

(* delay_deny's own hook, rcpt_ok (that of DATA only adds a header).  The  *)
(* first denial it kept is answered; one of a recipient is answered once.  *)
\* (..._Name: the form of a mutant that PROJECT.json names.)
hook_rcpt_ok_Once ==   \* mutant: every denial is answered once
    IF relaying \/ pre \o txn.pre = <<>> THEN go_on ELSE
    /\ denial' = [Head(pre \o txn.pre) EXCEPT !.by = "delay_deny", !.hook = hook, !.rcpt = rcpt]
    /\ txn' = IF pre = <<>> THEN [txn EXCEPT !.pre = Tail(@)] ELSE txn
    /\ j' = 1 /\ UNCHANGED <<hook, i>>

hook_rcpt_ok ==
    IF relaying \/ pre \o txn.pre = <<>> THEN go_on ELSE
    LET params == Head(pre \o txn.pre) IN
    /\ denial' = [params EXCEPT !.by = "delay_deny", !.hook = hook, !.rcpt = rcpt]
    /\ txn' = IF pre = <<>> /\ params.hook \in {"rcpt", "rcpt_ok"}
              THEN [txn EXCEPT !.pre = Tail(@)] ELSE txn
    /\ j' = 1 /\ UNCHANGED <<hook, i>>

delay_deny ==
    /\ Turn("delay_deny")
    /\ IF hook = "rcpt_ok" THEN hook_rcpt_ok ELSE go_on
    /\ UNCHANGED <<order, score, todo, pre, relaying, rcpt, denials, commands>>

(* karma: awards first, then the score.  A recipient too many is denied    *)
(* for now; what counts is the commands of the whole connection.           *)
max_recipients ==
    /\ hook \in {"rcpt", "rcpt_ok"} /\ ~relaying
    /\ rcpt >= 2
    /\ rcpt > recipients.bad
    /\ rcpt > recipients.neutral      \* history is 0
    /\ score <= 3 \/ rcpt > recipients.good

Sum(S) == IF 3 \in S THEN (IF -3 \in S THEN 0 ELSE 3) ELSE (IF -3 \in S THEN -3 ELSE 0)

should_we_deny ==
    \E seen \in SUBSET todo :      \* what other plugins have noted by now
        /\ todo' = todo \ seen
        /\ score' = score + Sum(seen)
        /\ IF score + Sum(seen) <= -Negative /\ (IF hook = "rcpt_ok" THEN "rcpt" ELSE hook) \in deny_hooks
           THEN deny("deny", "karma") ELSE go_on

karma ==
    /\ Turn("karma")
    /\ IF max_recipients
       THEN deny("denysoft", "karma") /\ UNCHANGED <<score, todo>>
       ELSE should_we_deny
    /\ UNCHANGED <<order, pre, relaying, rcpt, denials, commands>>

-----------------------------------------------------------------------------
(* The deny hook: the plugins' turns, j.                                   *)
\* The denial stands, or is overruled and the hook's next plugin runs.
stands == IF j < Len(order) THEN j' = j + 1 /\ UNCHANGED <<hook, i, denial, txn>>
          ELSE respond(denial.code)

deny_x == order[j] = "x" /\ stands /\ UNCHANGED <<score, pre>>

\* An overruled denial of txn's hooks is kept there; of the ones before, in pre.
Noted == [txn EXCEPT !.pre = Append(@, denial), !.denied = @ \/ denial.hook = "mail"]

delay_deny_hook_deny ==
    /\ order[j] = "delay_deny"
    /\ IF denial.by = "delay_deny" \/ (denial.by = "x" /\ excluded)
          \/ denial.hook \in {"data", "data_post"}
       THEN stands /\ UNCHANGED pre
       ELSE IF denial.hook \in {"connect", "ehlo"}
       THEN pre' = Append(pre, denial) /\ go_on
       ELSE /\ UNCHANGED pre
            /\ denial' = None /\ j' = 0
            /\ IF i < Len(order)
               THEN i' = i + 1 /\ UNCHANGED hook /\ txn' = Noted
               ELSE /\ hook' = IF hook = "rcpt" /\ relaying THEN "rcpt_ok" ELSE "wait"
                    /\ i' = IF hook = "rcpt" /\ relaying THEN 1 ELSE 0
                    /\ txn' = [Noted EXCEPT !.rcpt_to = IF hook = "rcpt_ok" THEN @ \union {rcpt} ELSE @]
    /\ UNCHANGED score

\* karma scores every denial, and overrules the lasting ones.
karma_hook_deny_ScoresStanding ==   \* mutant: what it captures costs nothing
    /\ order[j] = "karma"
    /\ IF denial.by = "karma" \/ (denial.by = "x" /\ excluded) \/ denial.code = "denysoft"
       THEN score' = score - (IF denial.code = "deny" THEN 2 ELSE 1) /\ stands
       ELSE go_on /\ UNCHANGED score
    /\ UNCHANGED pre

karma_hook_deny ==
    /\ order[j] = "karma"
    /\ score' = score - (IF denial.code = "deny" THEN 2 ELSE 1)
    /\ IF denial.by = "karma" \/ (denial.by = "x" /\ excluded) \/ denial.code = "denysoft"
       THEN stands ELSE go_on
    /\ UNCHANGED pre

deny_hook ==
    /\ denial # None
    /\ deny_x \/ delay_deny_hook_deny \/ karma_hook_deny
    /\ UNCHANGED <<order, todo, relaying, rcpt, denials, commands>>

-----------------------------------------------------------------------------
(* The client's commands.  EHLO ends a transaction and greets; AUTH, which *)
(* its answer offers, makes the client a relaying one.  MAIL needs a       *)
(* greeting, and takes the place of an open transaction.                   *)
Command(h) == hook' = h /\ i' = 1 /\ UNCHANGED <<order, denial, j, score, todo, pre, denials>>

cmd_ehlo == hook \in {"greet", "wait"} /\ commands < MaxCommands /\ Command("ehlo")
            /\ txn' = NoTxn
            /\ commands' = commands + 1 /\ UNCHANGED <<relaying, rcpt>>
cmd_auth == hook = "wait" /\ ~relaying /\ relaying' = TRUE
            /\ UNCHANGED <<order, hook, i, denial, j, score, todo, pre, txn, rcpt, denials, commands>>
cmd_mail == hook = "wait" /\ commands < MaxCommands /\ Command("mail")
            /\ txn' = [NoTxn EXCEPT !.open = TRUE]
            /\ commands' = commands + 1 /\ UNCHANGED <<relaying, rcpt>>
cmd_rcpt == hook = "wait" /\ txn.open /\ rcpt < MaxRcpt /\ Command("rcpt")
            /\ rcpt' = rcpt + 1 /\ UNCHANGED <<txn, relaying, commands>>
cmd_data == hook = "wait" /\ txn.rcpt_to # {} /\ Command("data") /\ UNCHANGED <<txn, relaying, rcpt, commands>>
cmd_rset == hook = "wait" /\ txn.open /\ txn' = NoTxn
            /\ UNCHANGED <<order, hook, i, denial, j, score, todo, pre, relaying, rcpt, denials, commands>>

Next ==
    \/ x \/ delay_deny \/ karma \/ deny_hook
    \/ cmd_ehlo \/ cmd_auth \/ cmd_mail \/ cmd_rcpt \/ cmd_data \/ cmd_rset

Spec == Init /\ [][Next]_vars

-----------------------------------------------------------------------------
Has(p) == p \in {order[n] : n \in DOMAIN order}

(* delay_deny: "Delays all pre-DATA 'deny' results until the recipients    *)
(* are sent."  Once it has put off a denial of the greeting, HELO or MAIL, *)
(* a client that does not relay has no recipient of that session or mail   *)
(* accepted, however many it asks for -- unless karma took the answer.     *)
AcceptedUndenied ==
    \A r \in txn'.rcpt_to \ txn.rcpt_to :
        Has("delay_deny") /\ ~Has("karma") /\ ~relaying => pre = <<>> /\ ~txn.denied

DelayedNotForgotten == [][AcceptedUndenied]_vars

(* karma "captures" the denials of others, and the client goes on as if    *)
(* there had been none; but each of them costs it, and it is never awarded *)
(* more than 3.  So a client that was denied too often gets no message     *)
(* queued, however its commands were spread over greetings, mails and      *)
(* recipients: if karma is the last plugin of data_post, and none is before*)
(* it in the deny hook.                                                    *)
DeniedOftenNotQueued ==
    /\ hook = "queued" /\ order[Len(order)] = "karma" /\ ~Has("delay_deny")
    /\ "data_post" \in deny_hooks
    => denials < Negative + 3

=============================================================================

------------------------------ MODULE Paywall ------------------------------
(***************************************************************************)
(* The life of one mail to a wrte address and of its invoice.  Three       *)
(* processes share the invoice's status in the database and nothing else:  *)
(*                                                                         *)
(*   haraka/plugins/bitcoin.js   creates the invoice, polls its status     *)
(*     into a cache, and holds, sends or drops the queue files of the mail;*)
(*   web/server/invoice.js       marks it opened and charges it, for the   *)
(*     browser sessions of the sender;                                     *)
(*   the payment provider        takes the money.                          *)
(*                                                                         *)
(* The outbound queue is module OutboundQueue: here a queue file is asked  *)
(* about by the send_email hook, and then delivered, deferred or bounced.  *)
(*                                                                         *)
(* A tick of the clock is of the order of the timeouts, hours, so a        *)
(* transaction takes none, and both the invoice's createdAt and the todo's *)
(* queue_time, which a split copies, are 0.  The timeouts of the web       *)
(* server's settings are those of wrte.json.                               *)
(***************************************************************************)
EXTENDS Integers

CONSTANTS
    Files,             \* the queue files of the mail, one per domain
    Sessions,          \* browser sessions that may open the invoice
    OpenTimeout,       \* open_invoice_timeout
    PayTimeout,        \* pay_invoice_timeout
    MaxTempFailures,   \* cfg.maxTempFailures of the outbound queue
    ChargeAnswers,     \* answers to stripe.charges.create: subset of
                       \* {"succeeded", "pending", "declined", "lost"}
    Prompt,            \* TRUE when what is under way, the poll of the invoice
                       \* included, takes no time compared with the timeouts
    MaxTime,           \* bound: the clock
    MaxCrashes,        \* bound: crashes of the mail server
    MaxWebCrashes,     \* bound: crashes of the web server
    MaxPollErrors,     \* bound: failed polls
    MaxHookTimeouts,   \* bound: send_email hooks that time out
    MaxUpdateErrors    \* bound: updates of the mail server that fail

ASSUME TimeAssumption ==
    /\ OpenTimeout \in Nat
    /\ PayTimeout \in Nat
    /\ MaxTime \in Nat
    /\ MaxTempFailures \in Nat
ASSUME AnswersAssumption ==
    ChargeAnswers \subseteq {"succeeded", "pending", "declined", "lost"}

VARIABLES
    now,        \* the clock
    priced,     \* the recipient charges, and the sender is not whitelisted
    smtp,       \* the transaction that brings the mail
    status,     \* the invoice's status in the database
    cache,      \* plugin.invoices[invoice._id]
    polling,    \* on_check_payment is scheduled
    file,       \* the queue files
    session,    \* the browser sessions and their calls to the web server
    charges,    \* history: charges the provider made
    notices,    \* history: mails sent to the sender
    faults      \* history: counts of the faults so far

web  == <<session, charges>>
mail == <<cache, polling, file>>
vars == <<now, priced, smtp, status, cache, polling, file, session, charges,
          notices, faults>>

----------------------------------------------------------------------------
Statuses == {"created", "opened", "timeout_open", "paid", "mispaid", "error",
             "timeout_pay", "delivered"}

(* hmail.todo.notes.status; "none" for a mail without an invoice.          *)
Notes == {"none", "invoice_sent", "invoice_timeout_open", "invoice_timeout_pay",
          "invoice_paid", "invoice_mispaid"}

Pending == {"queued", "held", "updating", "sending", "confirming"}
Ended   == {"delivered", "bounced", "dropped"}

QueueFile == [pc    : {"none"} \cup Pending \cup Ended,
              notes : Notes,     \* in memory
              saved : Notes,     \* in the file
              fails : Nat]

Session == [pc    : {"away", "publishing", "subscribed", "charging",
                     "paid", "mispaid", "error"},
            write : Statuses]    \* what a publication is about to write

TypeOK ==
    /\ now \in 0..MaxTime
    /\ priced \in BOOLEAN
    /\ smtp \in {"data_post", "queueing", "accepted", "refused"}
    /\ status \in Statuses \cup {"none"}
    /\ cache \in Statuses \cup {"absent"}
    /\ polling \in BOOLEAN
    /\ file \in [Files -> QueueFile]
    /\ session \in [Sessions -> Session]
    /\ charges \in Nat
    /\ notices \subseteq {"invoice", "failed", "refund", "confirmed"}
    /\ faults \in [{"crash", "web", "poll", "hook", "update"} -> Nat]

Init ==
    /\ now = 0
    /\ priced \in BOOLEAN
    /\ smtp = "data_post"
    /\ status = "none"
    /\ cache = "absent"
    /\ polling = TRUE
    /\ file = [f \in Files |->
                 [pc |-> "none", notes |-> "none", saved |-> "none", fails |-> 0]]
    /\ session = [s \in Sessions |-> [pc |-> "away", write |-> "created"]]
    /\ charges = 0
    /\ notices = {}
    /\ faults = [k \in {"crash", "web", "poll", "hook", "update"} |-> 0]

Fault(kind, max) ==
    /\ faults[kind] < max
    /\ faults' = [faults EXCEPT ![kind] = @ + 1]

----------------------------------------------------------------------------
(* The transaction.                                                        *)

(* hook_data_post: the sender is whitelisted or the address is free.       *)
hook_data_post_free ==
    /\ smtp = "data_post" /\ ~priced
    /\ smtp' = "queueing"
    /\ UNCHANGED <<now, priced, status, mail, web, notices, faults>>

(* hook_data_post: the invoice is inserted and sent.                       *)
hook_data_post ==
    /\ smtp = "data_post" /\ priced
    /\ status' = "created"
    /\ notices' = notices \cup {"invoice"}
    /\ smtp' = "queueing"
    /\ UNCHANGED <<now, priced, mail, web, faults>>

(* The insert fails: DENY.                                                 *)
hook_data_post_error ==
    /\ smtp = "data_post" /\ priced
    /\ smtp' = "refused"
    /\ UNCHANGED <<now, priced, status, mail, web, notices, faults>>

(* send_trans_email writes the files with the transaction's notes.         *)
queued ==
    LET notes == IF priced THEN "invoice_sent" ELSE "none" IN
    /\ smtp = "queueing"
    /\ smtp' = "accepted"
    /\ file' = [f \in Files |->
                  [pc |-> "queued", notes |-> notes, saved |-> notes, fails |-> 0]]
    /\ UNCHANGED <<now, priced, status, cache, polling, web, notices, faults>>

(* A later plugin, the disk or the client's disconnect refuses the mail;   *)
(* the invoice stays.                                                      *)
refused ==
    /\ smtp = "queueing"
    /\ smtp' = "refused"
    /\ UNCHANGED <<now, priced, status, mail, web, notices, faults>>

----------------------------------------------------------------------------
(* The plugin's copy of the status.                                        *)

(* Invoices younger than twice the payment timeout are read.               *)
on_check_payment ==
    /\ polling
    /\ now < 2 * PayTimeout /\ status # "none"
    /\ cache' = status
    /\ UNCHANGED <<now, priced, smtp, status, polling, file, web, notices, faults>>

(* The query fails, and nothing schedules the next one.                    *)
on_check_payment_error ==
    /\ polling
    /\ Fault("poll", MaxPollErrors)
    /\ polling' = FALSE
    /\ UNCHANGED <<now, priced, smtp, status, cache, file, web, notices>>

----------------------------------------------------------------------------
(* A queue file of the mail.                                               *)

(* What the handler of a held mail makes of the cached status.             *)

Verdict_NoPayTimeout ==   \* mutant: an opened invoice is waited for for ever
    IF cache = "created" /\ now > OpenTimeout THEN "invoice_timeout_open"
    ELSE IF cache = "paid"                    THEN "invoice_paid"
    ELSE IF cache = "mispaid"                 THEN "invoice_mispaid"
    ELSE "wait"

Verdict ==
    IF cache = "created" /\ now > OpenTimeout THEN "invoice_timeout_open"
    ELSE IF cache = "paid"                    THEN "invoice_paid"
    ELSE IF cache = "mispaid"                 THEN "invoice_mispaid"
    ELSE IF cache \notin {"absent", "created"} /\ now > PayTimeout
         THEN "invoice_timeout_pay"
    ELSE "wait"

(* The handler that send_email_respond runs every second.                  *)
delay(f) ==
    /\ file[f].pc = "held"
    /\ Verdict # "wait"
    /\ file' = [file EXCEPT ![f].pc = "queued", ![f].notes = Verdict]
    /\ UNCHANGED <<now, priced, smtp, status, cache, polling, web, notices, faults>>

(* hook_send_email: CONT, STOP, DELAY, or an update before STOP.           *)
Answer(notes) ==
    CASE notes \in {"none", "invoice_paid"}                    -> "sending"
      [] notes = "invoice_timeout_pay"                         -> "updating"
      [] notes = "invoice_sent"                                -> "held"
      [] notes \in {"invoice_timeout_open", "invoice_mispaid"} -> "dropped"

hook_send_email(f) ==
    /\ file[f].pc = "queued"
    /\ file' = [file EXCEPT ![f].pc = Answer(file[f].notes)]
    /\ notices' = IF file[f].notes = "invoice_mispaid"
                  THEN notices \cup {"refund"} ELSE notices
    /\ UNCHANGED <<now, priced, smtp, status, cache, polling, web, faults>>

(* The mail server's updates of the invoice, whose errors it does not read. *)
Updated(to) ==
    \/ status' = to /\ UNCHANGED faults
    \/ Fault("update", MaxUpdateErrors) /\ UNCHANGED status

(* The update that hook_send_email made ends, well or not: send_fail, STOP. *)
timeout_pay_written_Sends(f) ==   \* mutant: next() instead of next(STOP)
    /\ file[f].pc = "updating"
    /\ Updated("timeout_pay")
    /\ notices' = notices \cup {"failed"}
    /\ file' = [file EXCEPT ![f].pc = "sending"]
    /\ UNCHANGED <<now, priced, smtp, cache, polling, web>>

timeout_pay_written(f) ==
    /\ file[f].pc = "updating"
    /\ Updated("timeout_pay")
    /\ notices' = notices \cup {"failed"}
    /\ file' = [file EXCEPT ![f].pc = "dropped"]
    /\ UNCHANGED <<now, priced, smtp, cache, polling, web>>

(* It takes longer than plugin_timeout: the hook is answered DENYSOFT,     *)
(* which send_email_respond takes for leave to send.  The update and the   *)
(* notice follow; the late answer is ignored.                              *)
hook_timeout(f) ==
    /\ file[f].pc = "updating"
    /\ Fault("hook", MaxHookTimeouts)
    /\ status' \in {status, "timeout_pay"}
    /\ notices' = notices \cup {"failed"}
    /\ file' = [file EXCEPT ![f].pc = "sending"]
    /\ UNCHANGED <<now, priced, smtp, cache, polling, web>>

(* The mail is delivered; hook_delivered confirms it if it was paid for,   *)
(* and goes on whether or not its update succeeds.                         *)
delivered(f) ==
    /\ file[f].pc = "sending"
    /\ IF file[f].notes = "invoice_paid"
       THEN /\ file' = [file EXCEPT ![f].pc = "confirming"]
            /\ notices' = notices \cup {"confirmed"}
       ELSE /\ file' = [file EXCEPT ![f].pc = "delivered"]
            /\ UNCHANGED notices
    /\ UNCHANGED <<now, priced, smtp, status, cache, polling, web, faults>>

hook_delivered(f) ==
    /\ file[f].pc = "confirming"
    /\ Updated("delivered")
    /\ file' = [file EXCEPT ![f].pc = "delivered"]
    /\ UNCHANGED <<now, priced, smtp, cache, polling, web, notices>>

(* It is deferred.  A split writes a new file, with the notes as they are  *)
(* now; otherwise only the name of the file changes.                       *)
temp_fail(f) ==
    /\ file[f].pc = "sending"
    /\ file[f].fails + 1 < MaxTempFailures
    /\ \E saved \in {file[f].saved, file[f].notes} :
         file' = [file EXCEPT ![f].pc = "queued", ![f].saved = saved, ![f].fails = @ + 1]
    /\ UNCHANGED <<now, priced, smtp, status, cache, polling, web, notices, faults>>

(* It bounces; no hook of the plugin hears of it.                          *)
bounce(f) ==
    /\ file[f].pc = "sending"
    /\ file' = [file EXCEPT ![f].pc = "bounced"]
    /\ UNCHANGED <<now, priced, smtp, status, cache, polling, web, notices, faults>>

(* The mail server dies and starts again: the files are loaded with the    *)
(* notes they were written with, the cache is empty.  An update on its way *)
(* may or may not have been made.                                          *)
Reloaded(q) ==
    IF q.pc \in Pending THEN [q EXCEPT !.pc = "queued", !.notes = q.saved] ELSE q

crash ==
    /\ Fault("crash", MaxCrashes)
    /\ smtp' = IF smtp = "accepted" THEN smtp ELSE "refused"
    /\ cache' = "absent"
    /\ polling' = TRUE
    /\ file' = [f \in Files |-> Reloaded(file[f])]
    /\ \/ UNCHANGED status
       \/ (\E f \in Files : file[f].pc = "updating") /\ status' = "timeout_pay"
       \/ (\E f \in Files : file[f].pc = "confirming") /\ status' = "delivered"
    /\ UNCHANGED <<now, priced, web, notices>>

----------------------------------------------------------------------------
(* The web server.                                                         *)

(* The publication of the invoice reads the status ...                     *)
publish(s) ==
    /\ session[s].pc = "away" /\ "invoice" \in notices
    /\ session' =
         IF status = "created"
         THEN [session EXCEPT
                 ![s] = [pc    |-> "publishing",
                         write |-> IF now > OpenTimeout THEN "timeout_open" ELSE "opened"]]
         ELSE [session EXCEPT ![s].pc = "subscribed"]
    /\ UNCHANGED <<now, priced, smtp, status, mail, charges, notices, faults>>

(* ... and writes what follows from it.                                    *)
publish_write(s) ==
    /\ session[s].pc = "publishing"
    /\ status' = session[s].write
    /\ session' = [session EXCEPT ![s].pc = "subscribed"]
    /\ UNCHANGED <<now, priced, smtp, mail, charges, notices, faults>>

(* invoice_charge reads the status and asks the provider ...               *)
invoice_charge_Unchecked(s) ==   \* mutant: the status is not looked at
    /\ session[s].pc = "subscribed"
    /\ session' = [session EXCEPT ![s].pc = "charging"]
    /\ UNCHANGED <<now, priced, smtp, status, mail, charges, notices, faults>>

invoice_charge(s) ==
    /\ session[s].pc = "subscribed"
    /\ status = "opened"
    /\ session' = [session EXCEPT ![s].pc = "charging"]
    /\ UNCHANGED <<now, priced, smtp, status, mail, charges, notices, faults>>

(* ... which answers, or whose answer is lost after the charge is made ... *)
Charged_Pending(answer) ==   \* mutant: a charge that did not succeed is "paid"
    IF answer \in {"succeeded", "pending"} THEN "paid" ELSE "error"
Charged(answer) ==
    CASE answer = "succeeded"            -> "paid"
      [] answer = "pending"              -> "mispaid"
      [] answer \in {"declined", "lost"} -> "error"

charge_answer(s) ==
    /\ session[s].pc = "charging"
    /\ \E answer \in ChargeAnswers :
         /\ charges' = IF answer \in {"succeeded", "lost"} THEN charges + 1 ELSE charges
         /\ session' = [session EXCEPT ![s].pc = Charged(answer)]
    /\ UNCHANGED <<now, priced, smtp, status, mail, notices, faults>>

(* ... and the outcome is written, whatever the status is now.             *)
charge_write(s) ==
    /\ session[s].pc \in {"paid", "mispaid", "error"}
    /\ status' = session[s].pc
    /\ session' = [session EXCEPT ![s].pc = "subscribed"]
    /\ UNCHANGED <<now, priced, smtp, mail, charges, notices, faults>>

(* The page is closed, and may be opened again.                            *)
leave(s) ==
    /\ session[s].pc = "subscribed"
    /\ session' = [session EXCEPT ![s].pc = "away"]
    /\ UNCHANGED <<now, priced, smtp, status, mail, charges, notices, faults>>

(* The web server dies: calls under way are forgotten, but a charge that   *)
(* was asked for may be made.                                              *)
web_crash ==
    /\ Fault("web", MaxWebCrashes)
    /\ session' = [s \in Sessions |-> [session[s] EXCEPT !.pc = "away"]]
    /\ \/ UNCHANGED charges
       \/ (\E s \in Sessions : session[s].pc = "charging") /\ charges' = charges + 1
    /\ UNCHANGED <<now, priced, smtp, status, mail, notices>>

----------------------------------------------------------------------------
(* Nothing is under way that takes seconds rather than hours.              *)
Quiet ==
    /\ \A s \in Sessions : session[s].pc \in {"away", "subscribed"}
    /\ \A f \in Files : file[f].pc \in Ended \cup {"none", "held"}
    /\ polling /\ status # "none" /\ now < 2 * PayTimeout => cache = status
    /\ (\E f \in Files : file[f].pc = "held") => Verdict = "wait"

tick ==
    /\ now < MaxTime
    /\ smtp \in {"accepted", "refused"}
    /\ Prompt => Quiet
    /\ now' = now + 1
    /\ UNCHANGED <<priced, smtp, status, mail, web, notices, faults>>

Transaction ==
    hook_data_post_free \/ hook_data_post \/ hook_data_post_error \/ queued \/ refused

Delivery(f) ==
    \/ delay(f)
    \/ hook_send_email(f)
    \/ timeout_pay_written(f)
    \/ hook_timeout(f)
    \/ delivered(f)
    \/ hook_delivered(f)
    \/ temp_fail(f)
    \/ bounce(f)

Browser(s) ==
    \/ publish(s)
    \/ publish_write(s)
    \/ invoice_charge(s)
    \/ charge_answer(s)
    \/ charge_write(s)
    \/ leave(s)

Next ==
    \/ Transaction
    \/ on_check_payment
    \/ on_check_payment_error
    \/ \E f \in Files : Delivery(f)
    \/ crash
    \/ \E s \in Sessions : Browser(s)
    \/ web_crash
    \/ tick

Spec == Init /\ [][Next]_vars

(* The queue, the database and the timers make progress, calls to the web  *)
(* server end and time passes.  The sender need not open or pay anything.  *)
FairSpec ==
    /\ Spec
    /\ WF_vars(on_check_payment)
    /\ WF_vars(tick)
    /\ \A f \in Files : WF_vars(Delivery(f))
    /\ \A s \in Sessions : WF_vars(publish_write(s) \/ charge_answer(s) \/ charge_write(s))

----------------------------------------------------------------------------
(* Properties.                                                             *)

Sent(f) == file[f].pc \in {"sending", "confirming", "delivered", "bounced"}

(* A mail that has a price is given to a server only after its invoice was *)
(* charged, unless the send_email hook timed out.                          *)
UnpaidNeverSent == \A f \in Files : priced /\ Sent(f) => charges > 0
UnpaidNotSent   == faults["hook"] = 0 => UnpaidNeverSent

(* The strengthening of UnpaidNotSent that every step preserves: wherever  *)
(* one of the three processes knows of a payment, a charge was made; and a *)
(* file of a priced mail has a note that hook_send_email looks at.         *)
Money == charges > 0

PaidInv ==
    /\ status = "paid" => Money
    /\ cache = "paid" => Money
    /\ \A s \in Sessions :
         /\ session[s].pc = "paid" => Money
         /\ session[s].write # "paid"
    /\ \A f \in Files :
         /\ file[f].notes = "invoice_paid" \/ file[f].saved = "invoice_paid" => Money
         /\ priced /\ file[f].pc # "none" =>
              file[f].notes # "none" /\ file[f].saved # "none"
    /\ UnpaidNotSent

(* A sender with one browser session pays once, unless the web server died *)
(* before it wrote the outcome of a charge.                                *)
ChargedOnce ==
    faults["web"] = 0 /\ (\A s, t \in Sessions : s = t) => charges <= 1

(* A sender who was told that the mail is not delivered did not have it    *)
(* delivered, unless the mail server restarted or the hook timed out.      *)
FailNoticeIsTrue ==
    faults["crash"] = 0 /\ faults["hook"] = 0 /\ (\A f, g \in Files : f = g)
      => ("failed" \in notices => \A f \in Files : ~Sent(f))

(* While the invoice says paid, the mail is on its way or was delivered or *)
(* bounced: it is not dropped.                                             *)
PaidIsForwarded == status = "paid" => \A f \in Files : file[f].pc # "dropped"

(* Every accepted mail is in the end delivered, bounced or dropped, unless *)
(* a poll fails, or the server restarts when the invoice is too old to be  *)
(* read again: then it may be held for ever.                               *)
TooOldToRead == cache = "absent" /\ now >= 2 * PayTimeout

EventuallyDecided ==
    (smtp = "accepted") ~>
        (faults["poll"] > 0 \/ TooOldToRead \/ \A f \in Files : file[f].pc \in Ended)

============================================================================

--------------------------- MODULE OutboundQueue ---------------------------
(***************************************************************************)
(* The outbound queue of haraka/outbound.js: one message accepted by       *)
(* send_trans_email, split by domain into queue files, and the life of     *)
(* every HMailItem that works on one of those files: delivery slots,       *)
(* plugin hooks, temporary failures, bounces, splitting a file when only   *)
(* some recipients failed, reference counts, and a crash of the process    *)
(* followed by a reload of the queue directory.                            *)
(*                                                                         *)
(* An item is named by a number; numbers are handed out in increasing      *)
(* order, as _fname's timestamps and counter are.  The dialogue with the   *)
(* remote server is module OutboundSession; here a session ends with the   *)
(* reply each recipient got.  Time is abstracted: a timer may fire at any  *)
(* moment, which is also what flush_queue makes it do.                     *)
(***************************************************************************)
EXTENDS Integers, FiniteSets

CONSTANTS
    Rcpts,             \* recipients of the message
    Domains,           \* the groups of recipients that get a file each: the
                       \* hosts of the addresses, or one group per recipient
                       \* when always_split is set
    DomainOf,          \* [Rcpts -> Domains]
    MaxItems,          \* bound: queue files ever created
    MaxTempFailures,   \* cfg.maxTempFailures
    Concurrency,       \* cfg.concurrency_max
    RcptReplies,       \* replies to RCPT, a subset of {"250", "251", "4xx", "5xx"}
    SendReplies,       \* answers of the send_email hook: "cont", "delay", "stop"
    DeferReplies,      \* answers of the deferred hook: "cont", "ok", "denysoft"
    BounceReplies,     \* answers of the bounce hook: "cont", "ok"
    Faults,            \* disk faults: "queue", "split", "rename", "bounce"
    Lmtp,              \* TRUE when the MX is reached with using_lmtp
    NullSender,        \* TRUE when the message is itself a bounce, from <>
    CanDisable,        \* TRUE when the operator may flip cfg.disabled
    MaxDelays,         \* bound: how often the send_email hook answers DELAY
    MaxCrashes         \* bound: crashes of the process

ASSUME ItemsAssumption == MaxItems \in Nat
ASSUME DomainAssumption == DomainOf \in [Rcpts -> Domains]

Items == 1..MaxItems

VARIABLES
    trans,       \* what the caller of send_trans_email knows
    todo,        \* domains that forEachSeries has still to write
    nextId,      \* the next queue file name
    file,        \* the queue file of each item on disk
    rcpts,       \* todo.rcpt_to in that file
    diskFails,   \* the number of attempts in the file's name
    hm,          \* the HMailItem in memory
    fatal,       \* an uncaught exception was thrown: the process exits
    up,          \* the process runs
    disabled,    \* cfg.disabled
    deliveries,  \* history: how often each recipient was accepted by a server
    notified,    \* history: recipients named in a bounce that was queued
    dropped,     \* history: recipients whose mail a plugin told to drop
    lostBounce,  \* history: recipients of a mail that double bounced
    delays,      \* history: DELAY answers so far
    crashes      \* history: crashes so far

disk    == <<file, rcpts, diskFails, nextId>>
history == <<deliveries, notified, dropped, lostBounce, delays, crashes>>
vars    == <<trans, todo, disk, hm, fatal, up, disabled, history>>

----------------------------------------------------------------------------
(* Types.                                                                  *)

Waiting   == {"built", "queued", "timer", "onDisk"}
Busy      == {"send", "sendHook", "mxHook", "session", "deferHook", "renaming"}
Idle      == {"none", "stuck"}
FileState == {"free", "queue", "unlinking", "gone"}

(* pc is the main line of the item's callbacks; dh counts delivered hooks  *)
(* that run, bh bounce hooks, bq bounces being queued; fail and bnc are    *)
(* the recipients a pending split copies to a new file.                    *)
HMail == [pc    : Waiting \cup Busy \cup Idle,
          ref   : Int,
          fails : Nat,
          cb    : {"dummy", "slot", "spent"},
          dh    : Nat,
          bh    : Nat,
          bq    : Nat,
          fail  : SUBSET Rcpts,
          bnc   : SUBSET Rcpts]

NewItem(where, attempts) ==
    [pc |-> where, ref |-> 1, fails |-> attempts, cb |-> "dummy",
     dh |-> 0, bh |-> 0, bq |-> 0, fail |-> {}, bnc |-> {}]

NoItem == [NewItem("none", 0) EXCEPT !.ref = 0]

TypeOK ==
    /\ trans \in {"writing", "ok", "deny", "aborted"}
    /\ todo \subseteq Domains
    /\ nextId \in 1..(MaxItems + 1)
    /\ file \in [Items -> FileState]
    /\ rcpts \in [Items -> SUBSET Rcpts]
    /\ diskFails \in [Items -> Nat]
    /\ hm \in [Items -> HMail]
    /\ fatal \in BOOLEAN
    /\ up \in BOOLEAN
    /\ disabled \in BOOLEAN
    /\ deliveries \in [Rcpts -> Nat]
    /\ notified \subseteq Rcpts
    /\ dropped \subseteq Rcpts
    /\ lostBounce \subseteq Rcpts
    /\ delays \in Nat
    /\ crashes \in Nat

----------------------------------------------------------------------------
(* What the callbacks do to one HMailItem.                                 *)

Alive == up /\ ~fatal

Group(d) == {r \in Rcpts : DomainOf[r] = d}

(* hmail.next_cb(): gives the worker of delivery_queue back.               *)
NextCb(h) == IF h.cb = "slot" THEN [h EXCEPT !.cb = "spent"] ELSE h

(* async.queue lets a worker's callback run only once, else it throws.     *)
Throws(h) == h.cb = "spent"

(* HMailItem.discard: the file goes when the last reference does.          *)
LastRef_OffByOne(h) == h.ref \in {1, 2}   \* mutant
LastRef(h) == h.ref = 1
Discarded(h) ==
    LET g == [h EXCEPT !.ref = @ - 1] IN IF LastRef(h) THEN NextCb(g) ELSE g

(* HMailItem.bounce, up to its hook.                                       *)
Bounced(h) == [h EXCEPT !.pc = IF @ \in Busy THEN "none" ELSE @,
                        !.bh = @ + 1]

(* HMailItem.temp_fail, up to its hook.                                    *)
TempFailed_NoCount(h) == [h EXCEPT !.pc = "deferHook"]   \* mutant: no num_failures++

TempFailed(h) ==
    LET g == [h EXCEPT !.fails = @ + 1] IN
    IF g.fails >= MaxTempFailures
    THEN Bounced(g)
    ELSE [g EXCEPT !.pc = "deferHook"]

(* fs.unlink is asynchronous: the file is there until the call completes.  *)
Unlink(f) == IF f = "queue" THEN "unlinking" ELSE f

Discard(i, h) ==
    /\ hm' = [hm EXCEPT ![i] = Discarded(h)]
    /\ file' = IF LastRef(h) THEN [file EXCEPT ![i] = Unlink(@)] ELSE file
    /\ fatal' = (LastRef(h) /\ Throws(h))

(* HMailItem.double_bounce: removes the file whatever the reference count. *)
DoubleBounce(i, h) ==
    /\ hm' = [hm EXCEPT ![i] = NextCb(h)]
    /\ file' = [file EXCEPT ![i] = Unlink(@)]
    /\ fatal' = Throws(h)
    /\ lostBounce' = lostBounce \cup rcpts[i]

Becomes(i, h) ==
    /\ hm' = [hm EXCEPT ![i] = h]
    /\ UNCHANGED <<file, fatal>>

(* A queue file is written under a temporary name, renamed into the queue  *)
(* directory and read back by the HMailItem that is constructed for it.    *)
NewFile(group) ==
    /\ nextId \in Items
    /\ nextId' = nextId + 1
    /\ rcpts' = [rcpts EXCEPT ![nextId] = group]
    /\ diskFails' = [diskFails EXCEPT ![nextId] = 0]

----------------------------------------------------------------------------
Init ==
    /\ trans = "writing"
    /\ todo = {DomainOf[r] : r \in Rcpts}
    /\ nextId = 1
    /\ file = [i \in Items |-> "free"]
    /\ rcpts = [i \in Items |-> {}]
    /\ diskFails = [i \in Items |-> 0]
    /\ hm = [i \in Items |-> NoItem]
    /\ fatal = FALSE
    /\ up = TRUE
    /\ disabled = FALSE
    /\ deliveries = [r \in Rcpts |-> 0]
    /\ notified = {}
    /\ dropped = {}
    /\ lostBounce = {}
    /\ delays = 0
    /\ crashes = 0

----------------------------------------------------------------------------
(* Accepting the message: send_trans_email.                                *)

Built == {i \in Items : hm[i].pc = "built"}

(* One turn of forEachSeries: a domain's queue file is in place.           *)
process_delivery(d) ==
    /\ Alive /\ trans = "writing" /\ d \in todo
    /\ NewFile(Group(d))
    /\ file' = [file EXCEPT ![nextId] = "queue"]
    /\ hm' = [hm EXCEPT ![nextId] = NewItem("built", 0)]
    /\ todo' = todo \ {d}
    /\ UNCHANGED <<trans, fatal, up, disabled, history>>

(* Writing a file failed: the files already in place are removed and the   *)
(* caller is told DENY.                                                    *)
process_delivery_error_Proceeds ==   \* mutant: DENY, but the items are queued
    /\ Alive /\ trans = "writing" /\ todo # {}
    /\ "queue" \in Faults
    /\ trans' = "deny"
    /\ todo' = {}
    /\ hm' = [i \in Items |->
                IF i \in Built THEN [hm[i] EXCEPT !.pc = "queued"] ELSE hm[i]]
    /\ UNCHANGED <<disk, fatal, up, disabled, history>>

process_delivery_error ==
    /\ Alive /\ trans = "writing" /\ todo # {}
    /\ "queue" \in Faults
    /\ trans' = "deny"
    /\ todo' = {}
    /\ file' = [i \in Items |-> IF i \in Built THEN Unlink(file[i]) ELSE file[i]]
    /\ hm' = [i \in Items |-> IF i \in Built THEN NoItem ELSE hm[i]]
    /\ UNCHANGED <<nextId, rcpts, diskFails, fatal, up, disabled, history>>

(* All files are in place: the items are queued, the caller is told OK.    *)
send_trans_email_done ==
    /\ Alive /\ trans = "writing" /\ todo = {}
    /\ trans' = "ok"
    /\ hm' = [i \in Items |->
                IF i \in Built THEN [hm[i] EXCEPT !.pc = "queued"] ELSE hm[i]]
    /\ UNCHANGED <<todo, disk, fatal, up, disabled, history>>

----------------------------------------------------------------------------
(* One delivery attempt.                                                   *)

Running == {i \in Items : hm[i].cb = "slot"}

(* The worker of delivery_queue takes an item.                             *)
delivery_queue(i) ==
    /\ Alive /\ hm[i].pc = "queued"
    /\ Cardinality(Running) < Concurrency
    /\ Becomes(i, [hm[i] EXCEPT !.pc = "send", !.cb = "slot"])
    /\ UNCHANGED <<trans, todo, nextId, rcpts, diskFails, up, disabled, history>>

(* send() polls while cfg.disabled is set, and keeps its slot.             *)
send(i) ==
    /\ Alive /\ hm[i].pc = "send"
    /\ ~disabled
    /\ Becomes(i, [hm[i] EXCEPT !.pc = "sendHook"])
    /\ UNCHANGED <<trans, todo, nextId, rcpts, diskFails, up, disabled, history>>

(* send_email_respond, DELAY: back to the timer queue.                     *)
send_email_respond_delay(i) ==
    /\ Alive /\ hm[i].pc = "sendHook"
    /\ "delay" \in SendReplies /\ delays < MaxDelays
    /\ delays' = delays + 1
    /\ hm' = [hm EXCEPT ![i] = NextCb([@ EXCEPT !.pc = "timer"])]
    /\ fatal' = Throws(hm[i])
    /\ UNCHANGED <<trans, todo, disk, up, disabled,
                   deliveries, notified, dropped, lostBounce, crashes>>

(* send_email_respond, STOP: a plugin takes the mail out of the queue.     *)
send_email_respond_stop(i) ==
    /\ Alive /\ hm[i].pc = "sendHook"
    /\ "stop" \in SendReplies
    /\ Discard(i, [hm[i] EXCEPT !.pc = "none"])
    /\ dropped' = dropped \cup rcpts[i]
    /\ UNCHANGED <<trans, todo, nextId, rcpts, diskFails, up, disabled,
                   deliveries, notified, lostBounce, delays, crashes>>

(* send_email_respond, any other answer: get_mx.                           *)
send_email_respond(i) ==
    /\ Alive /\ hm[i].pc = "sendHook"
    /\ Becomes(i, [hm[i] EXCEPT !.pc = "mxHook"])
    /\ UNCHANGED <<trans, todo, nextId, rcpts, diskFails, up, disabled, history>>

(* get_mx_respond and found_mx: an MX list, no MX for now, or no MX.       *)
get_mx_respond(i) ==
    /\ Alive /\ hm[i].pc = "mxHook"
    /\ \E h \in {[hm[i] EXCEPT !.pc = "session"], TempFailed(hm[i]), Bounced(hm[i])} :
         Becomes(i, h)
    /\ UNCHANGED <<trans, todo, nextId, rcpts, diskFails, up, disabled, history>>

(* The session fails for the whole mail: every MX tried or a 4xx reply,    *)
(* or a 5xx reply or one that is not SMTP.                                 *)
session_failed(i) ==
    /\ Alive /\ hm[i].pc = "session"
    /\ \E h \in {TempFailed(hm[i]), Bounced(hm[i])} : Becomes(i, h)
    /\ UNCHANGED <<trans, todo, nextId, rcpts, diskFails, up, disabled, history>>

(* finish_processing_mail hands the recipients that were deferred, and     *)
(* those that were rejected, to a split; when they are all the recipients  *)
(* split_to_new_recipients returns this item itself.                       *)
HandFailed_NoRef(h, some, all) ==     \* mutant: no refcount++ before the split
    IF some = {} THEN h
    ELSE IF some = all THEN TempFailed([h EXCEPT !.ref = @ + 1])
    ELSE [h EXCEPT !.fail = some]

HandFailed_NoSplit(h, some, all) ==   \* mutant: the whole mail is deferred
    IF some = {} THEN h ELSE TempFailed([h EXCEPT !.ref = @ + 1])

HandFailed(h, some, all) ==
    LET held == [h EXCEPT !.ref = @ + 1] IN
    IF some = {} THEN h
    ELSE IF some = all THEN TempFailed(held)
    ELSE [held EXCEPT !.fail = some]

HandBounced_NoRef(h, some, all) ==    \* mutants: the same for the rejected
    IF some = {} THEN h
    ELSE IF some = all THEN Bounced([h EXCEPT !.ref = @ + 1])
    ELSE [h EXCEPT !.bnc = some]

HandBounced_NoSplit(h, some, all) ==
    IF some = {} THEN h ELSE Bounced([h EXCEPT !.ref = @ + 1])

HandBounced(h, some, all) ==
    LET held == [h EXCEPT !.ref = @ + 1] IN
    IF some = {} THEN h
    ELSE IF some = all THEN Bounced(held)
    ELSE [held EXCEPT !.bnc = some]

(* The whole of finish_processing_mail: success is its argument.  With     *)
(* LMTP it may be TRUE although every recipient failed after the data.     *)
finish_processing_mail(i, reply, success) ==
    LET With(code) == {r \in rcpts[i] : reply[r] = code}
        ended  == [hm[i] EXCEPT !.pc = "none"]
        failed == HandFailed(ended, With("4xx"), rcpts[i])
        split  == HandBounced(failed, With("5xx"), rcpts[i])
    IN
    /\ Alive /\ hm[i].pc = "session"
    /\ success \in {With("250") # {}, Lmtp \/ With("250") # {}}
    /\ IF success THEN Becomes(i, [split EXCEPT !.dh = @ + 1])
                  ELSE Discard(i, split)
    /\ deliveries' = [r \in Rcpts |->
                        IF r \in With("250") THEN deliveries[r] + 1 ELSE deliveries[r]]
    /\ UNCHANGED <<trans, todo, nextId, rcpts, diskFails, up, disabled,
                   notified, dropped, lostBounce, delays, crashes>>

(* delivered_respond.                                                      *)
delivered_respond(i) ==
    /\ Alive /\ hm[i].dh > 0
    /\ Discard(i, [hm[i] EXCEPT !.dh = @ - 1])
    /\ UNCHANGED <<trans, todo, nextId, rcpts, diskFails, up, disabled, history>>

----------------------------------------------------------------------------
(* Splitting: split_to_new_recipients copies the message into a new file,  *)
(* and its callback fails or bounces the new item and drops the reference  *)
(* that the split held on this one.                                        *)

Readable(i) == file[i] \in {"queue", "unlinking"}

SplitTo(i, group, child, parent) ==
    /\ Readable(i)
    /\ NewFile(group)
    /\ hm' = [hm EXCEPT ![i] = Discarded(parent), ![nextId] = child]
    /\ file' = [file EXCEPT ![i] = IF LastRef(parent) THEN Unlink(@) ELSE @,
                            ![nextId] = "queue"]
    /\ fatal' = (LastRef(parent) /\ Throws(parent))
    /\ UNCHANGED <<trans, todo, up, disabled, history>>

split_failed(i) ==
    /\ Alive /\ hm[i].fail # {}
    /\ SplitTo(i, hm[i].fail, TempFailed(NewItem("none", 0)),
               [hm[i] EXCEPT !.fail = {}])

split_bounced(i) ==
    /\ Alive /\ hm[i].bnc # {}
    /\ SplitTo(i, hm[i].bnc, Bounced(NewItem("none", 0)),
               [hm[i] EXCEPT !.bnc = {}])

(* The copy fails: reading or renaming it bounces this item once, writing  *)
(* it twice, as two 'error' handlers are attached to the stream.           *)
split_error(i) ==
    /\ Alive
    /\ "split" \in Faults \/ ~Readable(i)
    /\ \E h \in {[hm[i] EXCEPT !.fail = {}], [hm[i] EXCEPT !.bnc = {}]} :
         /\ h # hm[i]
         /\ \/ Becomes(i, Bounced(h))
            \/ "split" \in Faults /\ Becomes(i, Bounced(Bounced(h)))
    /\ UNCHANGED <<trans, todo, nextId, rcpts, diskFails, up, disabled, history>>

----------------------------------------------------------------------------
(* Deferring: the deferred hook, the rename that saves the attempt count   *)
(* in the file's name, and the timer.                                      *)

deferred_respond(i) ==
    /\ Alive /\ hm[i].pc = "deferHook"
    /\ Becomes(i, [hm[i] EXCEPT !.pc = "renaming"])
    /\ UNCHANGED <<trans, todo, nextId, rcpts, diskFails, up, disabled, history>>

(* A plugin answers OK: the mail is dropped.                               *)
deferred_respond_ok(i) ==
    /\ Alive /\ hm[i].pc = "deferHook"
    /\ "ok" \in DeferReplies
    /\ Discard(i, [hm[i] EXCEPT !.pc = "none"])
    /\ dropped' = dropped \cup rcpts[i]
    /\ UNCHANGED <<trans, todo, nextId, rcpts, diskFails, up, disabled,
                   deliveries, notified, lostBounce, delays, crashes>>

(* A plugin answers DENYSOFT, or times out.  The answer comes through the  *)
(* deny hook, which calls deferred_respond without the parameters the      *)
(* delay is read from.  The TypeError ends in the catch around a plugin    *)
(* that answered at once, or ends the process.                             *)
deferred_respond_denysoft(i) ==
    /\ Alive /\ hm[i].pc = "deferHook"
    /\ "denysoft" \in DeferReplies
    /\ \/ Becomes(i, [hm[i] EXCEPT !.pc = "stuck"])
       \/ fatal' = TRUE /\ UNCHANGED <<hm, file>>
    /\ UNCHANGED <<trans, todo, nextId, rcpts, diskFails, up, disabled, history>>

requeue_NoTimer(i) ==   \* mutant: not added to temp_fail_queue
    /\ Alive /\ hm[i].pc = "renaming"
    /\ hm' = [hm EXCEPT ![i] = NextCb([@ EXCEPT !.pc = "none"])]
    /\ UNCHANGED <<trans, todo, disk, fatal, up, disabled, history>>

requeue(i) ==
    /\ Alive /\ hm[i].pc = "renaming"
    /\ Readable(i)
    /\ file' = [file EXCEPT ![i] = "queue"]
    /\ diskFails' = [diskFails EXCEPT ![i] = hm[i].fails]
    /\ hm' = [hm EXCEPT ![i] = NextCb([@ EXCEPT !.pc = "timer"])]
    /\ fatal' = Throws(hm[i])
    /\ UNCHANGED <<trans, todo, nextId, rcpts, up, disabled, history>>

requeue_error_Discards(i) ==   \* mutant: no bounce
    /\ Alive /\ hm[i].pc = "renaming"
    /\ "rename" \in Faults
    /\ Discard(i, [hm[i] EXCEPT !.pc = "none"])
    /\ UNCHANGED <<trans, todo, nextId, rcpts, diskFails, up, disabled, history>>

requeue_error(i) ==
    /\ Alive /\ hm[i].pc = "renaming"
    /\ "rename" \in Faults \/ file[i] # "queue"
    /\ Becomes(i, Bounced(hm[i]))
    /\ UNCHANGED <<trans, todo, nextId, rcpts, diskFails, up, disabled, history>>

(* The timer of a deferred, delayed or reloaded item, or flush_queue.      *)
timer(i) ==
    /\ Alive /\ hm[i].pc = "timer"
    /\ Becomes(i, [hm[i] EXCEPT !.pc = "queued"])
    /\ UNCHANGED <<trans, todo, nextId, rcpts, diskFails, up, disabled, history>>

----------------------------------------------------------------------------
(* Bouncing.                                                               *)

(* bounce_respond, CONT: the bounce message is being queued, or this mail  *)
(* was itself a bounce.                                                    *)
bounce_respond(i) ==
    LET h == [hm[i] EXCEPT !.bh = @ - 1] IN
    /\ Alive /\ hm[i].bh > 0
    /\ IF NullSender
       THEN DoubleBounce(i, h)
       ELSE Becomes(i, [h EXCEPT !.bq = @ + 1]) /\ UNCHANGED lostBounce
    /\ UNCHANGED <<trans, todo, nextId, rcpts, diskFails, up, disabled,
                   deliveries, notified, dropped, delays, crashes>>

(* bounce_respond, any other answer, the one of a timeout included: no     *)
(* bounce message is sent.                                                 *)
bounce_respond_ok(i) ==
    /\ Alive /\ hm[i].bh > 0
    /\ "ok" \in BounceReplies
    /\ Discard(i, [hm[i] EXCEPT !.bh = @ - 1])
    /\ dropped' = dropped \cup rcpts[i]
    /\ UNCHANGED <<trans, todo, nextId, rcpts, diskFails, up, disabled,
                   deliveries, notified, lostBounce, delays, crashes>>

(* The bounce message is in the queue.                                     *)
bounce_queued(i) ==
    /\ Alive /\ hm[i].bq > 0
    /\ Readable(i)
    /\ Discard(i, [hm[i] EXCEPT !.bq = @ - 1])
    /\ notified' = notified \cup rcpts[i]
    /\ UNCHANGED <<trans, todo, nextId, rcpts, diskFails, up, disabled,
                   deliveries, dropped, lostBounce, delays, crashes>>

(* It could not be written, or the original could not be read.             *)
bounce_error(i) ==
    /\ Alive /\ hm[i].bq > 0
    /\ "bounce" \in Faults \/ file[i] # "queue"
    /\ DoubleBounce(i, [hm[i] EXCEPT !.bq = @ - 1])
    /\ UNCHANGED <<trans, todo, nextId, rcpts, diskFails, up, disabled,
                   deliveries, notified, dropped, delays, crashes>>

----------------------------------------------------------------------------
(* The disk, the operator, and the process.                                *)

unlinked(i) ==
    /\ up /\ file[i] = "unlinking"
    /\ file' = [file EXCEPT ![i] = "gone"]
    /\ UNCHANGED <<trans, todo, nextId, rcpts, diskFails, hm, fatal, up,
                   disabled, history>>

(* load_config runs again when outbound.ini changes.                       *)
load_config ==
    /\ Alive /\ CanDisable
    /\ disabled' = ~disabled
    /\ UNCHANGED <<trans, todo, disk, hm, fatal, up, history>>

(* The process dies.  An unlink on its way may or may not have happened.   *)
crash ==
    /\ up /\ crashes < MaxCrashes
    /\ crashes' = crashes + 1
    /\ up' = FALSE
    /\ fatal' = FALSE
    /\ trans' = IF trans = "writing" THEN "aborted" ELSE trans
    /\ todo' = {}
    /\ hm' = [i \in Items |-> NoItem]
    /\ \E undone \in SUBSET {i \in Items : file[i] = "unlinking"} :
         file' = [i \in Items |->
                    IF i \in undone THEN "queue"
                    ELSE IF file[i] = "unlinking" THEN "gone" ELSE file[i]]
    /\ UNCHANGED <<nextId, rcpts, diskFails, disabled,
                   deliveries, notified, dropped, lostBounce, delays>>

(* The process starts: load_queue makes an item of each file.              *)
load_queue ==
    /\ ~up
    /\ up' = TRUE
    /\ hm' = [i \in Items |->
                IF file[i] = "queue" THEN NewItem("onDisk", diskFails[i]) ELSE NoItem]
    /\ UNCHANGED <<trans, todo, disk, fatal, disabled, history>>

(* _add_file: at once, or, after a temporary failure, when its time comes. *)
_add_file(i) ==
    /\ Alive /\ hm[i].pc = "onDisk"
    /\ \E pc \in {"queued"} \cup (IF diskFails[i] > 0 THEN {"timer"} ELSE {}) :
         Becomes(i, [hm[i] EXCEPT !.pc = pc])
    /\ UNCHANGED <<trans, todo, nextId, rcpts, diskFails, up, disabled, history>>

----------------------------------------------------------------------------
Accept ==
    \/ \E d \in Domains : process_delivery(d)
    \/ process_delivery_error
    \/ send_trans_email_done

Attempt(i) ==
    \/ delivery_queue(i)
    \/ send(i)
    \/ send_email_respond_delay(i)
    \/ send_email_respond_stop(i)
    \/ send_email_respond(i)
    \/ get_mx_respond(i)
    \/ session_failed(i)
    \/ \E reply \in [rcpts[i] -> RcptReplies], success \in BOOLEAN :
         finish_processing_mail(i, reply, success)

Settle(i) ==
    \/ delivered_respond(i)
    \/ split_failed(i)
    \/ split_bounced(i)
    \/ split_error(i)
    \/ deferred_respond(i)
    \/ deferred_respond_ok(i)
    \/ deferred_respond_denysoft(i)
    \/ requeue(i)
    \/ requeue_error(i)
    \/ timer(i)
    \/ bounce_respond(i)
    \/ bounce_respond_ok(i)
    \/ bounce_queued(i)
    \/ bounce_error(i)
    \/ unlinked(i)

Restart ==
    \/ load_queue
    \/ \E i \in Items : _add_file(i)

Next ==
    \/ Accept
    \/ \E i \in Items : Attempt(i) \/ Settle(i)
    \/ load_config
    \/ crash
    \/ Restart

Spec == Init /\ [][Next]_vars

----------------------------------------------------------------------------
(* Plugins call back or time out, servers answer or time out, timers fire, *)
(* the disk completes calls, and a supervisor restarts the process.        *)
FairSpec ==
    /\ Spec
    /\ WF_vars(Accept)
    /\ \A i \in Items : WF_vars(Attempt(i)) /\ WF_vars(Settle(i))
    /\ WF_vars(Restart)

----------------------------------------------------------------------------
(* Safety.                                                                 *)

Done    == {r \in Rcpts : deliveries[r] > 0}
Told    == notified \cup dropped \cup lostBounce
Settled == Done \cup Told
OnDisk  == UNION {rcpts[i] : i \in {j \in Items : file[j] = "queue"}}

(* Once the caller was told the mail is queued, each recipient is on disk  *)
(* in a file that is not being removed, or was delivered to, or is named   *)
(* in a bounce, or a plugin or a double bounce gave it up: splitting,      *)
(* reference counts, hooks and crashes never lose one.                     *)
NoLoss == trans = "ok" => Rcpts \subseteq Settled \cup OnDisk

(* The callbacks that are still to drop a reference to an item.            *)
Count(cond) == IF cond THEN 1 ELSE 0
Holders(h) ==
    Count(h.pc \notin Idle) + h.dh + h.bh + h.bq + Count(h.fail # {}) + Count(h.bnc # {})

(* HMailItem.refcount is the number of callbacks that use the item's file: *)
(* while the file is queued it is exact, and nobody uses a file that is    *)
(* being removed or has been removed.                                      *)
RefCounts ==
    Alive => \A i \in Items :
        /\ file[i] = "queue" => hm[i].ref = Holders(hm[i])
        /\ file[i] \in {"unlinking", "gone"} => Holders(hm[i]) = 0

(* A queued file of a running process is worked on: some callback, timer   *)
(* or hook will touch it again, and a delivery slot is held only by such   *)
(* an item.  Nothing is left to the next restart.                          *)
NothingForgotten ==
    Alive => \A i \in Items :
        file[i] = "queue" \/ hm[i].cb = "slot" => Holders(hm[i]) > 0

(* next_cb of one attempt is called at most once: async.queue throws on a  *)
(* second call, which ends the process.                                    *)
NeverThrows == ~fatal

(* While the process stays up a recipient is given the mail at most once.  *)
AtMostOnce == crashes = 0 => \A r \in Rcpts : deliveries[r] <= 1

(* The sender is not told of a failure for a recipient who has the mail.   *)
BounceIsTrue == crashes = 0 => Done \cap notified = {}

(* A mail that was refused to its sender is not sent.                      *)
DeniedNotSent == trans = "deny" /\ crashes = 0 => Done = {}

----------------------------------------------------------------------------
(* The inductive invariant behind NoLoss.                                  *)

(* r is settled, or in the queued file of an item made after item i: a     *)
(* split only ever moves recipients to a later file.                       *)
Safe(r, i) ==
    \/ r \in Settled
    \/ \E k \in Items : k > i /\ file[k] = "queue" /\ r \in rcpts[k]

(* References that must be there while a recipient of the item is not told *)
(* of: of several bounces one suffices, as the first to end tells them all.*)
Needed(h) ==
    Count(h.pc # "none") + h.dh + Count(h.fail # {}) + Count(h.bnc # {})
      + Count(h.bh + h.bq > 0)

RefInv(i) ==
    rcpts[i] \subseteq Told \/ hm[i].ref >= Needed(hm[i])

(* An item that is on its main line or bouncing answers for all of its     *)
(* recipients; after that those that are not safe are in a pending split.  *)
CoverInv(i) ==
    /\ hm[i].pc # "none" => hm[i].fail = {} /\ hm[i].bnc = {}
    /\ \/ hm[i].pc # "none"
       \/ hm[i].bh + hm[i].bq > 0
       \/ \A r \in rcpts[i] : Safe(r, i) \/ r \in hm[i].fail \/ r \in hm[i].bnc

FileInv(i) ==
    file[i] # "queue" => \A r \in rcpts[i] : Safe(r, i)

Unused(i) == file[i] = "free" /\ rcpts[i] = {} /\ hm[i] = NoItem

WritingInv ==
    trans = "writing" =>
        /\ up
        /\ \A i \in Items : i < nextId => file[i] = "queue" /\ hm[i] = NewItem("built", 0)
        /\ \A r \in Rcpts : DomainOf[r] \in todo
                            \/ \E k \in Items : file[k] = "queue" /\ r \in rcpts[k]

(* The strengthening of NoLoss that every step preserves.                  *)
LossInv ==
    /\ \A i \in Items : i >= nextId => Unused(i)
    /\ WritingInv
    /\ trans \in {"writing", "ok"} =>
          \A i \in Items : FileInv(i) /\ (up => RefInv(i) /\ CoverInv(i))
    /\ trans = "ok" =>
          \A r \in Rcpts : r \in Settled \/ \E k \in Items : file[k] = "queue" /\ r \in rcpts[k]

----------------------------------------------------------------------------
(* Liveness.                                                               *)

(* Every accepted mail is in the end delivered, bounced or dropped for all *)
(* its recipients, its files are gone and its delivery slots are free.     *)
EventuallySettled ==
    (trans = "ok") ~> /\ Rcpts \subseteq Settled
                      /\ \A i \in Items : file[i] \in {"free", "gone"}
                      /\ Running = {}

============================================================================

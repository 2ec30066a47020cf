------------------------ MODULE OutboundQueue_proofs ------------------------
(***************************************************************************)
(* Theorems about OutboundQueue for every number of recipients, domains    *)
(* and queue files, every limit and every combination of disk faults.      *)
(***************************************************************************)
EXTENDS OutboundQueue, TLAPS

----------------------------------------------------------------------------
(* What the functions on one HMailItem return.                             *)

LEMMA NewItemType ==
    ASSUME NEW where \in Waiting \cup Busy \cup Idle, NEW n \in Nat
    PROVE  NewItem(where, n) \in HMail
  BY DEF NewItem, HMail

LEMMA NoItemType == NoItem \in HMail
  BY DEF NoItem, NewItem, HMail, Idle

LEMMA NextCbType ==
    ASSUME NEW h \in HMail
    PROVE  NextCb(h) \in HMail
  BY DEF NextCb, HMail

LEMMA DiscardedType ==
    ASSUME NEW h \in HMail
    PROVE  Discarded(h) \in HMail
  <1>1. [h EXCEPT !.ref = @ - 1] \in HMail
    BY DEF HMail
  <1>. QED
    BY <1>1, NextCbType DEF Discarded

LEMMA BouncedType ==
    ASSUME NEW h \in HMail
    PROVE  Bounced(h) \in HMail
  <1>1. (IF h.pc \in Busy THEN "none" ELSE h.pc) \in Waiting \cup Busy \cup Idle
    BY DEF HMail, Idle
  <1>2. h.bh + 1 \in Nat
    BY DEF HMail
  <1>. QED
    BY <1>1, <1>2 DEF Bounced, HMail

LEMMA TempFailedType ==
    ASSUME NEW h \in HMail
    PROVE  TempFailed(h) \in HMail
  <1>. DEFINE g == [h EXCEPT !.fails = @ + 1]
  <1>1. g \in HMail
    BY DEF HMail
  <1>2. [g EXCEPT !.pc = "deferHook"] \in HMail
    BY <1>1 DEF HMail, Busy
  <1>. QED
    BY <1>1, <1>2, BouncedType DEF TempFailed

LEMMA HandOverType ==
    ASSUME NEW h \in HMail, NEW some \in SUBSET Rcpts, NEW all
    PROVE  HandFailed(h, some, all) \in HMail /\ HandBounced(h, some, all) \in HMail
  <1>. DEFINE held == [h EXCEPT !.ref = @ + 1]
  <1>1. held \in HMail
    BY DEF HMail
  <1>2. [held EXCEPT !.fail = some] \in HMail /\ [held EXCEPT !.bnc = some] \in HMail
    BY <1>1 DEF HMail
  <1>. QED
    BY <1>1, <1>2, TempFailedType, BouncedType DEF HandFailed, HandBounced

----------------------------------------------------------------------------
(* Type correctness.                                                       *)

USE ItemsAssumption, DomainAssumption DEF Items

(* The part of TypeOK that the updates of one item touch.                  *)
ItemTypes ==
    /\ file \in [Items -> FileState]
    /\ hm \in [Items -> HMail]
    /\ fatal \in BOOLEAN

LEMMA ItemUpdateType ==
    ASSUME TypeOK, NEW i \in Items, NEW h \in HMail,
           Discard(i, h) \/ DoubleBounce(i, h) \/ Becomes(i, h)
    PROVE  ItemTypes'
  <1>1. \A f \in FileState : Unlink(f) \in FileState
    BY DEF Unlink, FileState
  <1>2. CASE Discard(i, h)
    <2>1. Discarded(h) \in HMail
      BY DiscardedType
    <2>. QED
      BY <1>1, <1>2, <2>1, Zenon DEF Discard, TypeOK, ItemTypes, Throws, LastRef
  <1>3. CASE DoubleBounce(i, h)
    <2>1. NextCb(h) \in HMail
      BY NextCbType
    <2>. QED
      BY <1>1, <1>3, <2>1 DEF DoubleBounce, TypeOK, ItemTypes, Throws
  <1>4. CASE Becomes(i, h)
    BY <1>4 DEF Becomes, TypeOK, ItemTypes
  <1>. QED
    BY <1>2, <1>3, <1>4, Zenon

(* The disk variables that only the creation of a file touches.            *)
DiskTypes ==
    /\ nextId \in 1..(MaxItems + 1)
    /\ rcpts \in [Items -> SUBSET Rcpts]
    /\ diskFails \in [Items -> Nat]

LEMMA NewFileType ==
    ASSUME TypeOK, NEW group \in SUBSET Rcpts, NewFile(group)
    PROVE  DiskTypes'
  BY DEF NewFile, TypeOK, DiskTypes

LEMMA SplitToType ==
    ASSUME TypeOK, NEW i \in Items, NEW group \in SUBSET Rcpts,
           NEW child \in HMail, NEW parent \in HMail,
           SplitTo(i, group, child, parent)
    PROVE  ItemTypes' /\ DiskTypes'
  <1>1. DiskTypes'
    BY NewFileType DEF SplitTo
  <1>2. nextId \in Items /\ Discarded(parent) \in HMail
    BY DiscardedType DEF SplitTo, NewFile
  <1>3. hm' \in [Items -> HMail]
    BY <1>2 DEF SplitTo, TypeOK
  <1>4. file' \in [Items -> FileState]
    BY <1>2 DEF SplitTo, TypeOK, Unlink, FileState
  <1>5. fatal' \in BOOLEAN
    BY DEF SplitTo, Throws, LastRef
  <1>. QED
    BY <1>1, <1>3, <1>4, <1>5 DEF ItemTypes

LEMMA AcceptType ==
    ASSUME TypeOK, Accept
    PROVE  TypeOK'
  <1>1. ASSUME NEW d \in Domains, process_delivery(d)
        PROVE  TypeOK'
    <2>1. DiskTypes'
      BY <1>1, NewFileType DEF process_delivery, Group
    <2>2. NewItem("built", 0) \in HMail
      BY NewItemType DEF Waiting
    <2>3. hm' \in [Items -> HMail] /\ file' \in [Items -> FileState]
      BY <1>1, <2>2 DEF process_delivery, TypeOK, FileState
    <2>. QED
      BY <1>1, <2>1, <2>3 DEF process_delivery, TypeOK, DiskTypes, history
  <1>2. ASSUME process_delivery_error
        PROVE  TypeOK'
    <2>1. hm' \in [Items -> HMail]
      BY <1>2, NoItemType DEF process_delivery_error, TypeOK
    <2>2. file' \in [Items -> FileState]
      BY <1>2 DEF process_delivery_error, TypeOK, Unlink, FileState
    <2>. QED
      BY <1>2, <2>1, <2>2 DEF process_delivery_error, TypeOK, history
  <1>3. ASSUME send_trans_email_done
        PROVE  TypeOK'
    <2>1. \A i \in Items : [hm[i] EXCEPT !.pc = "queued"] \in HMail
      BY DEF TypeOK, HMail, Waiting
    <2>2. hm' \in [Items -> HMail]
      BY <1>3, <2>1 DEF send_trans_email_done, TypeOK
    <2>. QED
      BY <1>3, <2>2 DEF send_trans_email_done, TypeOK, disk, history
  <1>. QED
    BY <1>1, <1>2, <1>3 DEF Accept

(* Every update of one field of an item that the actions make.             *)
LEMMA FieldType ==
    ASSUME TypeOK, NEW i \in Items
    PROVE  /\ hm[i] \in HMail
           /\ \A pc \in Waiting \cup Busy \cup Idle : [hm[i] EXCEPT !.pc = pc] \in HMail
           /\ [hm[i] EXCEPT !.fail = {}] \in HMail
           /\ [hm[i] EXCEPT !.bnc = {}] \in HMail
           /\ hm[i].dh > 0 => [hm[i] EXCEPT !.dh = @ - 1] \in HMail
           /\ hm[i].bh > 0 => [hm[i] EXCEPT !.bh = @ - 1] \in HMail
           /\ hm[i].bq > 0 => [hm[i] EXCEPT !.bq = @ - 1] \in HMail
           /\ [hm[i] EXCEPT !.pc = "send", !.cb = "slot"] \in HMail
           /\ hm[i].fails \in Nat
           /\ hm[i].fail \in SUBSET Rcpts /\ hm[i].bnc \in SUBSET Rcpts
  <1>1. hm[i] \in HMail
    BY DEF TypeOK
  <1>2. \A pc \in Waiting \cup Busy \cup Idle : [hm[i] EXCEPT !.pc = pc] \in HMail
    BY <1>1 DEF HMail
  <1>3. [hm[i] EXCEPT !.fail = {}] \in HMail /\ [hm[i] EXCEPT !.bnc = {}] \in HMail
    BY <1>1 DEF HMail
  <1>4. hm[i].dh > 0 => [hm[i] EXCEPT !.dh = @ - 1] \in HMail
    BY <1>1 DEF HMail
  <1>5. hm[i].bh > 0 => [hm[i] EXCEPT !.bh = @ - 1] \in HMail
    BY <1>1 DEF HMail
  <1>6. hm[i].bq > 0 => [hm[i] EXCEPT !.bq = @ - 1] \in HMail
    BY <1>1 DEF HMail
  <1>7. [hm[i] EXCEPT !.pc = "send", !.cb = "slot"] \in HMail
    BY <1>1 DEF HMail, Busy
  <1>8. hm[i].fails \in Nat /\ hm[i].fail \in SUBSET Rcpts /\ hm[i].bnc \in SUBSET Rcpts
    BY <1>1 DEF HMail
  <1>. QED
    BY <1>1, <1>2, <1>3, <1>4, <1>5, <1>6, <1>7, <1>8, Zenon

LEMMA CountUpType ==
    ASSUME NEW h \in HMail
    PROVE  [h EXCEPT !.dh = @ + 1] \in HMail /\ [h EXCEPT !.bq = @ + 1] \in HMail
  BY DEF HMail

LEMMA HistoryType ==
    ASSUME TypeOK, NEW i \in Items
    PROVE  /\ send_email_respond_delay(i) => delays' \in Nat
           /\ \A reply, success : finish_processing_mail(i, reply, success)
                                   => deliveries' \in [Rcpts -> Nat]
  <1>1. send_email_respond_delay(i) => delays' \in Nat
    <2>1. delays \in Nat
      BY DEF TypeOK
    <2>. QED
      BY <2>1 DEF send_email_respond_delay
  <1>2. ASSUME NEW reply, NEW success, finish_processing_mail(i, reply, success)
        PROVE  deliveries' \in [Rcpts -> Nat]
    <2>1. deliveries \in [Rcpts -> Nat]
      BY DEF TypeOK
    <2>2. PICK S : deliveries' = [r \in Rcpts |-> IF r \in S THEN deliveries[r] + 1 ELSE deliveries[r]]
      BY <1>2, Zenon DEF finish_processing_mail
    <2>. QED
      BY <2>1, <2>2
  <1>. QED
    BY <1>1, <1>2, Zenon

LEMMA AttemptType ==
    ASSUME TypeOK, NEW i \in Items, Attempt(i)
    PROVE  TypeOK'
  <1>. USE FieldType, ItemUpdateType DEF TypeOK, ItemTypes, history, Waiting, Busy, Idle
  <1>1. CASE delivery_queue(i)
    BY <1>1 DEF delivery_queue
  <1>2. CASE send(i)
    BY <1>2 DEF send
  <1>3. CASE send_email_respond_delay(i)
    <2>1. [hm[i] EXCEPT !.pc = "timer"] \in HMail
      OBVIOUS
    <2>2. hm' \in [Items -> HMail]
      BY <1>3, <2>1, NextCbType DEF send_email_respond_delay
    <2>3. fatal' \in BOOLEAN
      BY <1>3 DEF send_email_respond_delay, Throws
    <2>4. delays' \in Nat
      BY <1>3, HistoryType
    <2>. QED
      BY <1>3, <2>2, <2>3, <2>4 DEF send_email_respond_delay, disk
  <1>4. CASE send_email_respond_stop(i)
    BY <1>4 DEF send_email_respond_stop
  <1>5. CASE send_email_respond(i)
    BY <1>5 DEF send_email_respond
  <1>6. CASE get_mx_respond(i)
    <2>1. PICK h \in HMail : Becomes(i, h)
      BY <1>6, TempFailedType, BouncedType DEF get_mx_respond
    <2>. QED
      BY <1>6, <2>1 DEF get_mx_respond
  <1>7. CASE session_failed(i)
    <2>1. PICK h \in HMail : Becomes(i, h)
      BY <1>7, TempFailedType, BouncedType DEF session_failed
    <2>. QED
      BY <1>7, <2>1 DEF session_failed
  <1>8. ASSUME NEW reply \in [rcpts[i] -> RcptReplies], NEW success \in BOOLEAN,
               finish_processing_mail(i, reply, success)
        PROVE  TypeOK'
    <2>. DEFINE With(code) == {r \in rcpts[i] : reply[r] = code}
                ended  == [hm[i] EXCEPT !.pc = "none"]
                failed == HandFailed(ended, With("4xx"), rcpts[i])
                split  == HandBounced(failed, With("5xx"), rcpts[i])
    <2>1. ended \in HMail /\ \A code : With(code) \in SUBSET Rcpts
      OBVIOUS
    <2>2. failed \in HMail
      BY <2>1, HandOverType
    <2>3. split \in HMail
      BY <2>1, <2>2, HandOverType
    <2>4. [split EXCEPT !.dh = @ + 1] \in HMail
      BY <2>3, CountUpType
    <2>5. ItemTypes'
      BY <1>8, <2>3, <2>4, ItemUpdateType DEF finish_processing_mail
    <2>6. deliveries' \in [Rcpts -> Nat]
      BY <1>8, HistoryType
    <2>. QED
      BY <1>8, <2>5, <2>6 DEF finish_processing_mail
  <1>. QED
    BY <1>1, <1>2, <1>3, <1>4, <1>5, <1>6, <1>7, <1>8 DEF Attempt

LEMMA SettleType ==
    ASSUME TypeOK, NEW i \in Items, Settle(i)
    PROVE  TypeOK'
  <1>. USE FieldType, ItemUpdateType DEF TypeOK, ItemTypes, history, Waiting, Busy, Idle
  <1>1. CASE delivered_respond(i)
    BY <1>1 DEF delivered_respond
  <1>2. CASE split_failed(i)
    <2>1. TempFailed(NewItem("none", 0)) \in HMail /\ hm[i].fail \in SUBSET Rcpts
      <3>1. NewItem("none", 0) \in HMail
        BY NewItemType
      <3>. QED
        BY <3>1, TempFailedType
    <2>2. ItemTypes' /\ DiskTypes'
      BY <1>2, <2>1, SplitToType DEF split_failed
    <2>. QED
      BY <1>2, <2>2 DEF split_failed, SplitTo, DiskTypes
  <1>3. CASE split_bounced(i)
    <2>1. Bounced(NewItem("none", 0)) \in HMail /\ hm[i].bnc \in SUBSET Rcpts
      <3>1. NewItem("none", 0) \in HMail
        BY NewItemType
      <3>. QED
        BY <3>1, BouncedType
    <2>2. ItemTypes' /\ DiskTypes'
      BY <1>3, <2>1, SplitToType DEF split_bounced
    <2>. QED
      BY <1>3, <2>2 DEF split_bounced, SplitTo, DiskTypes
  <1>4. CASE split_error(i)
    <2>1. PICK h \in {[hm[i] EXCEPT !.fail = {}], [hm[i] EXCEPT !.bnc = {}]} :
             Becomes(i, Bounced(h)) \/ Becomes(i, Bounced(Bounced(h)))
      BY <1>4 DEF split_error
    <2>2. Bounced(h) \in HMail /\ Bounced(Bounced(h)) \in HMail
      BY <2>1, BouncedType
    <2>. QED
      BY <1>4, <2>1, <2>2 DEF split_error
  <1>5. CASE deferred_respond(i)
    BY <1>5 DEF deferred_respond
  <1>6. CASE deferred_respond_ok(i)
    BY <1>6 DEF deferred_respond_ok
  <1>7. CASE deferred_respond_denysoft(i)
    BY <1>7 DEF deferred_respond_denysoft
  <1>8. CASE requeue(i)
    <2>1. [hm[i] EXCEPT !.pc = "timer"] \in HMail
      OBVIOUS
    <2>2. hm' \in [Items -> HMail] /\ diskFails' \in [Items -> Nat]
      BY <1>8, <2>1, NextCbType DEF requeue
    <2>3. fatal' \in BOOLEAN /\ file' \in [Items -> FileState]
      BY <1>8 DEF requeue, Throws, FileState
    <2>. QED
      BY <1>8, <2>2, <2>3 DEF requeue
  <1>9. CASE requeue_error(i)
    BY <1>9, BouncedType DEF requeue_error
  <1>10. CASE timer(i)
    BY <1>10 DEF timer
  <1>11. CASE bounce_respond(i)
    <2>. DEFINE h == [hm[i] EXCEPT !.bh = @ - 1]
    <2>1. h \in HMail /\ [h EXCEPT !.bq = @ + 1] \in HMail
      BY <1>11, CountUpType DEF bounce_respond
    <2>2. ItemTypes'
      BY <1>11, <2>1 DEF bounce_respond
    <2>3. lostBounce' \subseteq Rcpts
      BY <1>11 DEF bounce_respond, DoubleBounce
    <2>. QED
      BY <1>11, <2>2, <2>3 DEF bounce_respond
  <1>12. CASE bounce_respond_ok(i)
    BY <1>12 DEF bounce_respond_ok
  <1>13. CASE bounce_queued(i)
    BY <1>13 DEF bounce_queued
  <1>14. CASE bounce_error(i)
    BY <1>14 DEF bounce_error, DoubleBounce
  <1>15. CASE unlinked(i)
    BY <1>15 DEF unlinked, FileState
  <1>. QED
    BY <1>1, <1>2, <1>3, <1>4, <1>5, <1>6, <1>7, <1>8, <1>9, <1>10, <1>11, <1>12,
       <1>13, <1>14, <1>15 DEF Settle

LEMMA RestartType ==
    ASSUME TypeOK, load_config \/ crash \/ Restart
    PROVE  TypeOK'
  <1>1. CASE load_config
    BY <1>1 DEF load_config, TypeOK, disk, history
  <1>2. CASE crash
    <2>1. hm' \in [Items -> HMail]
      BY <1>2, NoItemType DEF crash
    <2>2. file' \in [Items -> FileState]
      BY <1>2 DEF crash, TypeOK, FileState
    <2>3. crashes' \in Nat
      <3>1. crashes \in Nat
        BY DEF TypeOK
      <3>. QED
        BY <1>2, <3>1 DEF crash
    <2>4. trans' \in {"writing", "ok", "deny", "aborted"} /\ todo' = {}
      BY <1>2 DEF crash, TypeOK
    <2>. QED
      BY <1>2, <2>1, <2>2, <2>3, <2>4 DEF crash, TypeOK
  <1>3. CASE load_queue
    <2>1. hm' \in [Items -> HMail]
      BY <1>3, NoItemType, NewItemType DEF load_queue, TypeOK, Waiting
    <2>. QED
      BY <1>3, <2>1 DEF load_queue, TypeOK, disk, history
  <1>4. ASSUME NEW i \in Items, _add_file(i)
        PROVE  TypeOK'
    <2>1. PICK h \in HMail : Becomes(i, h)
      BY <1>4, FieldType DEF _add_file, Waiting
    <2>2. ItemTypes'
      BY <2>1, ItemUpdateType
    <2>. QED
      BY <1>4, <2>2 DEF _add_file, TypeOK, ItemTypes, history
  <1>. QED
    BY <1>1, <1>2, <1>3, <1>4 DEF Restart

LEMMA InitType == Init => TypeOK
  <1>. SUFFICES ASSUME Init
               PROVE  TypeOK
    OBVIOUS
  <1>1. hm \in [Items -> HMail]
    BY NoItemType DEF Init
  <1>2. file \in [Items -> FileState] /\ rcpts \in [Items -> SUBSET Rcpts]
    BY DEF Init, FileState
  <1>3. nextId \in 1..(MaxItems + 1)
    BY DEF Init
  <1>. QED
    BY <1>1, <1>2, <1>3 DEF Init, TypeOK

LEMMA NextType == TypeOK /\ [Next]_vars => TypeOK'
  <1>1. CASE UNCHANGED vars
    BY <1>1 DEF vars, disk, history, TypeOK
  <1>. QED
    BY <1>1, AcceptType, AttemptType, SettleType, RestartType DEF Next

(* The variables keep their types: in particular a reference count is an   *)
(* integer and the counters of hooks in flight never become negative.      *)
THEOREM TypeCorrect == Spec => []TypeOK
  BY InitType, NextType, PTL DEF Spec

----------------------------------------------------------------------------
(* No recipient is lost.  The inductive invariant is LossInv: a file that  *)
(* goes away has every recipient settled or in a later file (FileInv), and *)
(* it can only go away when the last reference is dropped, which RefInv    *)
(* ties to the callbacks that are left and CoverInv to the recipients.     *)

(* A recipient stays safe when only item i changes and i's file, if it is  *)
(* given up, leaves its own recipients safe.                               *)
LEMMA SafePersists ==
    ASSUME TypeOK, NEW i \in Items, NEW j \in Items, NEW r \in Rcpts,
           \A k \in Items : k # i => file'[k] = file[k],
           rcpts' = rcpts,
           Settled \subseteq Settled',
           \/ file'[i] = file[i]
           \/ file'[i] = "queue"
           \/ \A q \in rcpts[i] : Safe(q, i)',
           Safe(r, j)
    PROVE  Safe(r, j)'
  <1>1. CASE r \in Settled
    BY <1>1 DEF Safe
  <1>2. ASSUME NEW k \in Items, k > j, file[k] = "queue", r \in rcpts[k]
        PROVE  Safe(r, j)'
    <2>1. CASE file'[k] = "queue"
      BY <1>2, <2>1 DEF Safe
    <2>2. CASE file'[k] # "queue"
      <3>1. k = i /\ Safe(r, i)'
        BY <1>2, <2>2
      <3>. QED
        BY <1>2, <3>1 DEF Safe
    <2>. QED
      BY <2>1, <2>2
  <1>. QED
    BY <1>1, <1>2 DEF Safe

(* A step of one item keeps LossInv when the item, as h, still answers for *)
(* its recipients.                                                         *)
LEMMA ItemStep ==
    ASSUME TypeOK, LossInv, NEW i \in Items, NEW h \in HMail,
           i < nextId, trans # "writing",
           hm' = [hm EXCEPT ![i] = h],
           \A k \in Items : k # i => file'[k] = file[k],
           UNCHANGED <<rcpts, nextId, trans, up>>,
           Told \subseteq Told', Settled \subseteq Settled',
           \/ trans # "ok"
           \/ file'[i] = file[i]
           \/ file'[i] = "queue"
           \/ \A r \in rcpts[i] : Safe(r, i)',
           trans = "ok" /\ up =>
             /\ rcpts[i] \subseteq Told' \/ h.ref >= Needed(h)
             /\ h.pc # "none" => h.fail = {} /\ h.bnc = {}
             /\ \/ h.pc # "none"
                \/ h.bh + h.bq > 0
                \/ \A r \in rcpts[i] : Safe(r, i)' \/ r \in h.fail \/ r \in h.bnc
    PROVE  LossInv'
  <1>1. \A j \in Items : j >= nextId' => Unused(j)'
    BY DEF LossInv, Unused, TypeOK
  <1>2. WritingInv'
    BY DEF WritingInv
  <1>3. ASSUME trans = "ok", NEW j \in Items, NEW r \in rcpts[j], Safe(r, j)
        PROVE  Safe(r, j)'
    <2>1. r \in Rcpts
      BY DEF TypeOK
    <2>. QED
      BY <1>3, <2>1, SafePersists
  <1>4. ASSUME trans = "ok", NEW j \in Items
        PROVE  FileInv(j)'
    BY <1>3, <1>4 DEF LossInv, FileInv
  <1>5. ASSUME trans = "ok", up, NEW j \in Items
        PROVE  RefInv(j)' /\ CoverInv(j)'
    <2>1. CASE j = i
      <3>1. hm'[i] = h /\ rcpts' = rcpts
        BY DEF TypeOK
      <3>. QED
        BY <1>5, <2>1, <3>1 DEF RefInv, CoverInv
    <2>2. CASE j # i
      <3>1. hm'[j] = hm[j] /\ rcpts' = rcpts
        BY <2>2 DEF TypeOK
      <3>2. RefInv(j) /\ CoverInv(j)
        BY <1>5 DEF LossInv
      <3>3. RefInv(j)'
        BY <3>1, <3>2 DEF RefInv
      <3>4. CoverInv(j)'
        BY <1>3, <1>5, <3>1, <3>2 DEF CoverInv
      <3>. QED
        BY <3>3, <3>4
    <2>. QED
      BY <2>1, <2>2
  <1>6. ASSUME trans = "ok", NEW r \in Rcpts
        PROVE  r \in Settled' \/ \E k \in Items : file'[k] = "queue" /\ r \in rcpts'[k]
    <2>1. CASE r \in Settled
      BY <2>1
    <2>2. ASSUME NEW k \in Items, file[k] = "queue", r \in rcpts[k]
          PROVE  r \in Settled' \/ \E j \in Items : file'[j] = "queue" /\ r \in rcpts'[j]
      <3>1. CASE file'[k] = "queue"
        BY <2>2, <3>1
      <3>2. CASE file'[k] # "queue"
        <4>1. k = i /\ Safe(r, i)'
          BY <1>6, <2>2, <3>2
        <4>. QED
          BY <4>1 DEF Safe
      <3>. QED
        BY <3>1, <3>2
    <2>. QED
      BY <1>6, <2>1, <2>2 DEF LossInv
  <1>. QED
    BY <1>1, <1>2, <1>4, <1>5, <1>6 DEF LossInv

(* Needed counts non-negative things, and is zero only when all are.       *)
LEMMA NeededNat ==
    ASSUME NEW h \in HMail
    PROVE  /\ Needed(h) \in Nat
           /\ Needed(h) = 0 => /\ h.pc = "none" /\ h.fail = {} /\ h.bnc = {}
                               /\ ~(h.bh + h.bq > 0)
  <1>1. h.dh \in Nat /\ h.bh \in Nat /\ h.bq \in Nat
    BY DEF HMail
  <1>. QED
    BY <1>1 DEF Needed, Count

(* The item's file may go with the last reference: either every recipient  *)
(* is told of, or nothing else uses the item and its recipients are safe.  *)
LEMMA DiscardStep ==
    ASSUME TypeOK, LossInv, NEW i \in Items, NEW h \in HMail,
           i < nextId, trans # "writing", up,
           Discard(i, h),
           UNCHANGED <<rcpts, nextId, trans, up>>,
           Told \subseteq Told', Settled \subseteq Settled',
           trans = "ok" =>
             /\ rcpts[i] \subseteq Told' \/ h.ref >= Needed(h) + 1
             /\ h.pc # "none" => h.fail = {} /\ h.bnc = {}
             /\ \/ h.pc # "none"
                \/ h.bh + h.bq > 0
                \/ \A r \in rcpts[i] : Safe(r, i)' \/ r \in h.fail \/ r \in h.bnc
    PROVE  LossInv'
  <1>. DEFINE g == Discarded(h)
  <1>1. /\ g \in HMail
        /\ g.ref = h.ref - 1 /\ Needed(g) = Needed(h)
        /\ g.pc = h.pc /\ g.fail = h.fail /\ g.bnc = h.bnc /\ g.bh = h.bh /\ g.bq = h.bq
    BY DiscardedType DEF Discarded, NextCb, Needed, HMail
  <1>2. Needed(h) \in Nat /\ h.ref \in Int
    BY NeededNat DEF HMail
  <1>3. ASSUME trans = "ok", file'[i] # file[i]
        PROVE  \A r \in rcpts[i] : Safe(r, i)'
    <2>1. h.ref = 1
      BY <1>3 DEF Discard, LastRef
    <2>2. CASE rcpts[i] \subseteq Told'
      BY <2>2 DEF Safe, Settled
    <2>3. CASE ~(rcpts[i] \subseteq Told')
      <3>1. Needed(h) = 0
        BY <1>2, <1>3, <2>1, <2>3
      <3>. QED
        BY <1>3, <3>1, NeededNat
    <2>. QED
      BY <2>2, <2>3
  <1>4. \A k \in Items : k # i => file'[k] = file[k]
    BY DEF Discard, TypeOK
  <1>5. hm' = [hm EXCEPT ![i] = g]
    BY DEF Discard
  <1>6. trans = "ok" => rcpts[i] \subseteq Told' \/ g.ref >= Needed(g)
    BY <1>1, <1>2
  <1>. HIDE DEF g
  <1>. QED
    BY <1>1, <1>3, <1>4, <1>5, <1>6, ItemStep

LEMMA BecomesStep ==
    ASSUME TypeOK, LossInv, NEW i \in Items, NEW h \in HMail,
           i < nextId, trans # "writing", up,
           Becomes(i, h),
           UNCHANGED <<rcpts, nextId, trans, up>>,
           Told \subseteq Told', Settled \subseteq Settled',
           trans = "ok" =>
             /\ rcpts[i] \subseteq Told' \/ h.ref >= Needed(h)
             /\ h.pc # "none" => h.fail = {} /\ h.bnc = {}
             /\ \/ h.pc # "none"
                \/ h.bh + h.bq > 0
                \/ \A r \in rcpts[i] : Safe(r, i)' \/ r \in h.fail \/ r \in h.bnc
    PROVE  LossInv'
  BY ItemStep DEF Becomes

(* A double bounce removes the file, but tells of every recipient.         *)
LEMMA DoubleBounceStep ==
    ASSUME TypeOK, LossInv, NEW i \in Items, NEW h \in HMail,
           i < nextId, trans # "writing", up,
           DoubleBounce(i, h),
           UNCHANGED <<rcpts, nextId, trans, up, deliveries, notified, dropped>>,
           trans = "ok" => (h.pc # "none" => h.fail = {} /\ h.bnc = {})
    PROVE  LossInv'
  <1>. DEFINE g == NextCb(h)
  <1>1. g \in HMail /\ g.pc = h.pc /\ g.fail = h.fail /\ g.bnc = h.bnc
    BY NextCbType DEF NextCb, HMail
  <1>2. rcpts[i] \subseteq Told' /\ Told \subseteq Told' /\ Settled \subseteq Settled'
    BY DEF DoubleBounce, Told, Settled, Done
  <1>3. \A r \in rcpts[i] : Safe(r, i)'
    BY <1>2 DEF Safe, Settled
  <1>4. \A k \in Items : k # i => file'[k] = file[k]
    BY DEF DoubleBounce, TypeOK
  <1>5. hm' = [hm EXCEPT ![i] = g]
    BY DEF DoubleBounce
  <1>. HIDE DEF g
  <1>. QED
    BY <1>1, <1>2, <1>3, <1>4, <1>5, ItemStep

(* Only items of a message that has been accepted are worked on.           *)
LEMMA ActiveItem ==
    ASSUME TypeOK, LossInv, NEW i \in Items,
           \/ hm[i].pc \notin {"none", "built"}
           \/ hm[i].dh > 0 \/ hm[i].bh > 0 \/ hm[i].bq > 0
           \/ hm[i].fail # {} \/ hm[i].bnc # {}
    PROVE  /\ i < nextId /\ trans # "writing"
           /\ trans = "ok" /\ up => RefInv(i) /\ CoverInv(i)
  <1>1. hm[i] # NoItem /\ hm[i] # NewItem("built", 0)
    BY DEF NoItem, NewItem
  <1>2. i \in Int /\ nextId \in Int
    BY DEF TypeOK
  <1>3. i < nextId
    BY <1>1, <1>2 DEF LossInv, Unused
  <1>4. trans # "writing"
    BY <1>1, <1>3 DEF LossInv, WritingInv
  <1>5. trans = "ok" /\ up => RefInv(i) /\ CoverInv(i)
    BY DEF LossInv
  <1>. QED
    BY <1>3, <1>4, <1>5

(* Safe does not look at the item itself.                                  *)
LEMMA SafeLater ==
    ASSUME TypeOK, NEW i \in Items, NEW r, Safe(r, i),
           \A k \in Items : k # i => file'[k] = file[k],
           rcpts' = rcpts, Settled \subseteq Settled'
    PROVE  Safe(r, i)'
  BY DEF Safe

LEMMA BouncedFields ==
    ASSUME NEW h \in HMail
    PROVE  LET g == Bounced(h) IN
           /\ g.ref = h.ref /\ g.dh = h.dh /\ g.fail = h.fail /\ g.bnc = h.bnc
           /\ g.bh = h.bh + 1 /\ g.bq = h.bq
           /\ g.pc = IF h.pc \in Busy THEN "none" ELSE h.pc
  BY DEF Bounced, HMail

LEMMA TempFailedFields ==
    ASSUME NEW h \in HMail
    PROVE  LET g == TempFailed(h) IN
           /\ g.ref = h.ref /\ g.dh = h.dh /\ g.fail = h.fail /\ g.bnc = h.bnc
           /\ g.bq = h.bq
           /\ \/ g.bh = h.bh /\ g.pc = "deferHook"
              \/ g.bh = h.bh + 1 /\ g.pc = IF h.pc \in Busy THEN "none" ELSE h.pc
  <1>. DEFINE k == [h EXCEPT !.fails = @ + 1]
  <1>1. /\ k \in HMail /\ k.ref = h.ref /\ k.dh = h.dh /\ k.fail = h.fail
        /\ k.bnc = h.bnc /\ k.bh = h.bh /\ k.bq = h.bq /\ k.pc = h.pc
    BY DEF HMail
  <1>2. LET g == [k EXCEPT !.pc = "deferHook"] IN
        /\ g.ref = k.ref /\ g.dh = k.dh /\ g.fail = k.fail /\ g.bnc = k.bnc
        /\ g.bh = k.bh /\ g.bq = k.bq /\ g.pc = "deferHook"
    BY <1>1 DEF HMail
  <1>3. TempFailed(h) = IF k.fails >= MaxTempFailures THEN Bounced(k)
                        ELSE [k EXCEPT !.pc = "deferHook"]
    BY DEF TempFailed
  <1>. HIDE DEF k
  <1>4. CASE k.fails >= MaxTempFailures
    BY <1>1, <1>3, <1>4, BouncedFields
  <1>5. CASE ~(k.fails >= MaxTempFailures)
    BY <1>1, <1>2, <1>3, <1>5
  <1>. QED
    BY <1>4, <1>5

(* Failing or bouncing an item that is not splitting keeps its references. *)
LEMMA FailStep ==
    ASSUME TypeOK, LossInv, NEW i \in Items, Alive, hm[i].pc \in Busy,
           NEW h \in {TempFailed(hm[i]), Bounced(hm[i])},
           Becomes(i, h),
           UNCHANGED <<rcpts, nextId, trans, up, deliveries, notified, dropped, lostBounce>>
    PROVE  LossInv'
  <1>1. hm[i] \in HMail /\ h \in HMail
    BY FieldType, TempFailedType, BouncedType
  <1>2. /\ i < nextId /\ trans # "writing"
        /\ trans = "ok" => RefInv(i) /\ CoverInv(i)
    BY ActiveItem DEF Alive, Busy
  <1>3. Told' = Told /\ Settled' = Settled
    BY DEF Told, Settled, Done
  <1>4. /\ h.ref = hm[i].ref /\ h.dh = hm[i].dh /\ h.fail = hm[i].fail /\ h.bnc = hm[i].bnc
        /\ h.bq = hm[i].bq
        /\ \/ h.bh = hm[i].bh /\ h.pc = "deferHook"
           \/ h.bh = hm[i].bh + 1 /\ h.pc = "none"
    BY <1>1, TempFailedFields, BouncedFields
  <1>5. hm[i].bh \in Nat /\ hm[i].bq \in Nat /\ hm[i].dh \in Nat /\ hm[i].ref \in Int
    BY <1>1 DEF HMail
  <1>6. hm[i].pc # "none"
    BY DEF Busy
  <1>7. Needed(h) <= Needed(hm[i])
    BY <1>4, <1>5, <1>6 DEF Needed, Count
  <1>8. trans = "ok" => rcpts[i] \subseteq Told' \/ h.ref >= Needed(h)
    <2>1. Needed(h) \in Nat /\ Needed(hm[i]) \in Nat
      BY <1>1, NeededNat
    <2>. QED
      BY <1>2, <1>3, <1>4, <1>5, <1>7, <2>1 DEF RefInv
  <1>9. /\ trans = "ok" => h.fail = {} /\ h.bnc = {}
        /\ h.pc # "none" \/ h.bh + h.bq > 0
    BY <1>2, <1>4, <1>5, <1>6 DEF CoverInv
  <1>. QED
    BY <1>1, <1>2, <1>3, <1>8, <1>9, BecomesStep DEF Alive

(* Moving on along the main line keeps everything.                         *)
LEMMA MoveStep ==
    ASSUME TypeOK, LossInv, NEW i \in Items, Alive, hm[i].pc \notin {"none", "built"},
           NEW h \in HMail, h.pc # "none",
           h.ref = hm[i].ref, h.dh = hm[i].dh, h.fail = hm[i].fail, h.bnc = hm[i].bnc,
           h.bh = hm[i].bh, h.bq = hm[i].bq,
           hm' = [hm EXCEPT ![i] = h],
           file' = file \/ file' = [file EXCEPT ![i] = "queue"],
           UNCHANGED <<rcpts, nextId, trans, up, deliveries, notified, dropped, lostBounce>>
    PROVE  LossInv'
  <1>1. /\ i < nextId /\ trans # "writing"
        /\ trans = "ok" => RefInv(i) /\ CoverInv(i)
    BY ActiveItem DEF Alive
  <1>2. Told' = Told /\ Settled' = Settled
    BY DEF Told, Settled, Done
  <1>3. Needed(h) = Needed(hm[i])
    BY DEF Needed, Count
  <1>4. /\ \A k \in Items : k # i => file'[k] = file[k]
        /\ file'[i] = file[i] \/ file'[i] = "queue"
    BY DEF TypeOK
  <1>. QED
    BY <1>1, <1>2, <1>3, <1>4, ItemStep DEF RefInv, CoverInv

(* Handing recipients over takes one reference for one more user, and the  *)
(* recipients are in the split unless the whole item defers or bounces.    *)
LEMMA HandFailedFields ==
    ASSUME NEW h \in HMail, h.pc = "none", h.fail = {},
           NEW some \in SUBSET Rcpts, NEW all,
           NEW g, g = HandFailed(h, some, all)
    PROVE  /\ g.ref - Needed(g) >= h.ref - Needed(h)
           /\ g.bnc = h.bnc
           /\ g.pc # "none" => g.fail = {}
  <1>. DEFINE held == [h EXCEPT !.ref = @ + 1]
  <1>1. /\ held \in HMail /\ held.ref = h.ref + 1 /\ held.pc = "none"
        /\ held.dh = h.dh /\ held.bh = h.bh /\ held.bq = h.bq
        /\ held.fail = {} /\ held.bnc = h.bnc
    BY DEF HMail
  <1>2. h.ref \in Int /\ h.dh \in Nat /\ h.bh \in Nat /\ h.bq \in Nat
    BY DEF HMail
  <1>3. CASE some = {}
    <2>1. g = h
      BY <1>3 DEF HandFailed
    <2>. QED
      BY <1>2, <1>3, <2>1 DEF Needed, Count
  <1>4. CASE some # {} /\ some = all
    <2>1. g = TempFailed(held)
      BY <1>4 DEF HandFailed
    <2>2. /\ g.ref = h.ref + 1 /\ g.dh = h.dh /\ g.fail = {} /\ g.bnc = h.bnc
          /\ g.bq = h.bq
          /\ \/ g.bh = h.bh /\ g.pc = "deferHook"
             \/ g.bh = h.bh + 1 /\ g.pc = "none"
      BY <1>1, <2>1, TempFailedFields DEF Busy
    <2>3. g.ref - Needed(g) >= h.ref - Needed(h)
      BY <1>2, <2>2 DEF Needed, Count
    <2>. QED
      BY <1>2, <1>4, <2>2, <2>3
  <1>5. CASE some # {} /\ some # all
    <2>1. g = [held EXCEPT !.fail = some]
      BY <1>5 DEF HandFailed
    <2>2. /\ g.ref = h.ref + 1 /\ g.pc = "none" /\ g.dh = h.dh /\ g.fail = some
          /\ g.bnc = h.bnc /\ g.bh = h.bh /\ g.bq = h.bq
      BY <1>1, <2>1 DEF HMail
    <2>3. g.ref - Needed(g) >= h.ref - Needed(h)
      BY <1>2, <1>5, <2>2 DEF Needed, Count
    <2>. QED
      BY <2>2, <2>3
  <1>. QED
    BY <1>3, <1>4, <1>5

LEMMA HandFailedCover ==
    ASSUME NEW h \in HMail, h.pc = "none", h.fail = {},
           NEW some \in SUBSET Rcpts, NEW all,
           NEW g, g = HandFailed(h, some, all)
    PROVE  g.pc # "none" \/ g.bh + g.bq > 0 \/ some \subseteq g.fail
  <1>. DEFINE held == [h EXCEPT !.ref = @ + 1]
  <1>1. /\ held \in HMail /\ held.pc = "none" /\ held.bh = h.bh /\ held.bq = h.bq
        /\ h.bh \in Nat /\ h.bq \in Nat
    BY DEF HMail
  <1>2. CASE some = all
    <2>1. some = {} \/ g = TempFailed(held)
      BY <1>2 DEF HandFailed
    <2>2. CASE g = TempFailed(held)
      <3>1. g.pc = "deferHook" \/ (g.bh = h.bh + 1 /\ g.bq = h.bq)
        BY <1>1, <2>2, TempFailedFields DEF Busy
      <3>. QED
        BY <1>1, <3>1
    <2>. QED
      BY <2>1, <2>2
  <1>3. CASE some # all
    BY <1>1, <1>3 DEF HandFailed, HMail
  <1>. QED
    BY <1>2, <1>3

LEMMA HandFailedSome ==
    ASSUME NEW h \in HMail, h.pc = "none", NEW some, NEW all, some # all
    PROVE  HandFailed(h, some, all).pc = "none"
  BY DEF HandFailed, HMail

LEMMA HandBouncedFields ==
    ASSUME NEW h \in HMail, h.bnc = {},
           NEW some \in SUBSET Rcpts, NEW all,
           NEW g, g = HandBounced(h, some, all),
           h.pc = "none" \/ some = {}
    PROVE  /\ g.ref - Needed(g) >= h.ref - Needed(h)
           /\ g.fail = h.fail /\ g.pc = h.pc
           /\ some = {} => g = h
           /\ g.bh + g.bq >= h.bh + h.bq
           /\ g.bh + g.bq > 0 \/ some \subseteq g.bnc
  <1>. DEFINE held == [h EXCEPT !.ref = @ + 1]
  <1>1. /\ held \in HMail /\ held.ref = h.ref + 1 /\ held.pc = h.pc
        /\ held.dh = h.dh /\ held.bh = h.bh /\ held.bq = h.bq
        /\ held.fail = h.fail /\ held.bnc = {}
    BY DEF HMail
  <1>2. h.ref \in Int /\ h.dh \in Nat /\ h.bh \in Nat /\ h.bq \in Nat
    BY DEF HMail
  <1>3. CASE some = {}
    <2>1. g = h
      BY <1>3 DEF HandBounced
    <2>. QED
      BY <1>2, <1>3, <2>1 DEF Needed, Count
  <1>4. CASE some # {} /\ some = all
    <2>1. g = Bounced(held)
      BY <1>4 DEF HandBounced
    <2>2. /\ g.ref = h.ref + 1 /\ g.dh = h.dh /\ g.fail = h.fail /\ g.bnc = h.bnc
          /\ g.bq = h.bq /\ g.bh = h.bh + 1 /\ g.pc = "none" /\ h.pc = "none"
      BY <1>1, <1>4, <2>1, BouncedFields DEF Busy
    <2>3. g.ref - Needed(g) >= h.ref - Needed(h)
      BY <1>2, <2>2 DEF Needed, Count
    <2>. QED
      BY <1>2, <1>4, <2>2, <2>3
  <1>5. CASE some # {} /\ some # all
    <2>1. g = [held EXCEPT !.bnc = some]
      BY <1>5 DEF HandBounced
    <2>2. /\ g.ref = h.ref + 1 /\ g.pc = h.pc /\ g.dh = h.dh /\ g.fail = h.fail
          /\ g.bnc = some /\ g.bh = h.bh /\ g.bq = h.bq
      BY <1>1, <2>1 DEF HMail
    <2>3. g.ref - Needed(g) >= h.ref - Needed(h)
      BY <1>2, <1>5, <2>2 DEF Needed, Count
    <2>. QED
      BY <1>2, <1>5, <2>2, <2>3
  <1>. QED
    BY <1>3, <1>4, <1>5

----------------------------------------------------------------------------
(* Every step preserves LossInv, as long as a server's reply to RCPT is    *)
(* one that finish_processing_mail looks at.                               *)

RepliesUsed == RcptReplies \subseteq {"250", "4xx", "5xx"}

LEMMA FinishLoss ==
    ASSUME TypeOK, LossInv, RepliesUsed, NEW i \in Items,
           NEW reply \in [rcpts[i] -> RcptReplies], NEW success \in BOOLEAN,
           finish_processing_mail(i, reply, success)
    PROVE  LossInv'
  <1>. DEFINE With(code) == {r \in rcpts[i] : reply[r] = code}
              ended  == [hm[i] EXCEPT !.pc = "none"]
              failed == HandFailed(ended, With("4xx"), rcpts[i])
              split  == HandBounced(failed, With("5xx"), rcpts[i])
              last   == [split EXCEPT !.dh = @ + 1]
  <1>1. /\ hm[i] \in HMail /\ hm[i].pc = "session" /\ Alive
        /\ \A code : With(code) \in SUBSET Rcpts
    BY FieldType DEF finish_processing_mail, TypeOK
  <1>2. /\ i < nextId /\ trans # "writing"
        /\ trans = "ok" => RefInv(i) /\ CoverInv(i)
    BY <1>1, ActiveItem DEF Alive
  <1>3. /\ UNCHANGED <<rcpts, nextId, trans, up, notified, dropped, lostBounce>>
        /\ deliveries' = [r \in Rcpts |->
                            IF r \in With("250") THEN deliveries[r] + 1 ELSE deliveries[r]]
        /\ Becomes(i, last) \/ Discard(i, split)
    BY Zenon DEF finish_processing_mail
  <1>4. /\ Told' = Told /\ Settled \subseteq Settled' /\ With("250") \subseteq Settled'
    <2>1. Told' = Told
      BY <1>3 DEF Told
    <2>2. Done \subseteq Done' /\ With("250") \subseteq Done'
      BY <1>1, <1>3 DEF Done, TypeOK
    <2>. QED
      BY <2>1, <2>2 DEF Settled
  <1>5. /\ ended \in HMail /\ ended.pc = "none" /\ ended.ref = hm[i].ref
        /\ ended.fail = hm[i].fail /\ ended.bnc = hm[i].bnc
        /\ Needed(ended) = Needed(hm[i]) - 1
    <2>1. /\ ended \in HMail /\ ended.pc = "none" /\ ended.ref = hm[i].ref
          /\ ended.fail = hm[i].fail /\ ended.bnc = hm[i].bnc
          /\ ended.dh = hm[i].dh /\ ended.bh = hm[i].bh /\ ended.bq = hm[i].bq
      BY <1>1 DEF HMail, Idle
    <2>2. hm[i].dh \in Nat /\ hm[i].bh \in Nat /\ hm[i].bq \in Nat
      BY <1>1 DEF HMail
    <2>. HIDE DEF ended
    <2>. QED
      BY <1>1, <2>1, <2>2 DEF Needed, Count
  <1>6. failed \in HMail /\ split \in HMail
    BY <1>1, <1>5, HandOverType
  <1>7. rcpts[i] \subseteq With("250") \cup With("4xx") \cup With("5xx")
    BY DEF RepliesUsed
  <1>8. last \in HMail /\ last.ref = split.ref /\ Needed(last) = Needed(split) + 1
        /\ last.pc = split.pc /\ last.fail = split.fail /\ last.bnc = split.bnc
        /\ last.bh = split.bh /\ last.bq = split.bq
    <2>. HIDE DEF split
    <2>1. last \in HMail
      BY <1>6, CountUpType
    <2>2. /\ last.ref = split.ref /\ last.dh = split.dh + 1
          /\ last.pc = split.pc /\ last.fail = split.fail /\ last.bnc = split.bnc
          /\ last.bh = split.bh /\ last.bq = split.bq
      BY <1>6 DEF HMail
    <2>3. split.dh \in Nat /\ split.bh \in Nat /\ split.bq \in Nat
      BY <1>6 DEF HMail
    <2>. HIDE DEF last
    <2>. QED
      BY <2>1, <2>2, <2>3 DEF Needed, Count
  <1>9. With("4xx") \cap With("5xx") = {}
    OBVIOUS
  <1>. DEFINE S4 == With("4xx")
              S5 == With("5xx")
              S2 == With("250")
  <1>10. ASSUME trans = "ok"
         PROVE  /\ split.ref - Needed(split) >= hm[i].ref - Needed(hm[i]) + 1
                /\ split.pc # "none" => split.fail = {} /\ split.bnc = {}
                /\ \/ split.pc # "none"
                   \/ split.bh + split.bq > 0
                   \/ S4 \subseteq split.fail /\ S5 \subseteq split.bnc
    <2>1. ended.fail = {} /\ ended.bnc = {}
      BY <1>1, <1>2, <1>5, <1>10 DEF CoverInv
    <2>2. S4 \in SUBSET Rcpts /\ S5 \in SUBSET Rcpts /\ S4 \cap S5 = {} /\ S5 \subseteq rcpts[i]
      BY <1>1, <1>9
    <2>3. /\ failed = HandFailed(ended, S4, rcpts[i])
          /\ split = HandBounced(failed, S5, rcpts[i])
      OBVIOUS
    <2>. HIDE DEF ended, failed, split, S4, S5
    <2>4. /\ failed.ref - Needed(failed) >= ended.ref - Needed(ended)
          /\ failed.bnc = {}
          /\ failed.pc # "none" => failed.fail = {}
          /\ failed.pc # "none" \/ failed.bh + failed.bq > 0 \/ S4 \subseteq failed.fail
      <3>1. ended \in HMail /\ ended.pc = "none" /\ ended.fail = {} /\ ended.bnc = {}
        BY <1>5, <2>1
      <3>2. S4 \in SUBSET Rcpts /\ failed = HandFailed(ended, S4, rcpts[i])
        BY <2>2, <2>3
      <3>3. /\ failed.ref - Needed(failed) >= ended.ref - Needed(ended)
            /\ failed.bnc = ended.bnc
            /\ failed.pc # "none" => failed.fail = {}
            /\ failed.pc # "none" \/ failed.bh + failed.bq > 0 \/ S4 \subseteq failed.fail
        <4>1. /\ failed.ref - Needed(failed) >= ended.ref - Needed(ended)
              /\ failed.bnc = ended.bnc
              /\ failed.pc # "none" => failed.fail = {}
          BY <3>1, <3>2, HandFailedFields
        <4>2. failed.pc # "none" \/ failed.bh + failed.bq > 0 \/ S4 \subseteq failed.fail
          BY <3>1, <3>2, HandFailedCover
        <4>. QED
          BY <4>1, <4>2
      <3>. QED
        BY <3>1, <3>3
    <2>5. failed.pc = "none" \/ S5 = {}
      <3>1. CASE S4 = rcpts[i]
        BY <2>2, <3>1
      <3>2. CASE S4 # rcpts[i]
        BY <1>5, <2>3, <3>2, HandFailedSome
      <3>. QED
        BY <3>1, <3>2
    <2>6. /\ split.ref - Needed(split) >= failed.ref - Needed(failed)
          /\ split.fail = failed.fail /\ split.pc = failed.pc
          /\ S5 = {} => split = failed
          /\ split.bh + split.bq >= failed.bh + failed.bq
          /\ split.bh + split.bq > 0 \/ S5 \subseteq split.bnc
      BY <1>6, <2>2, <2>3, <2>4, <2>5, HandBouncedFields
    <2>7. /\ Needed(ended) \in Nat /\ Needed(failed) \in Nat /\ Needed(split) \in Nat
          /\ Needed(hm[i]) \in Nat
          /\ hm[i].ref \in Int /\ failed.ref \in Int /\ split.ref \in Int
      BY <1>1, <1>5, <1>6, NeededNat DEF HMail
    <2>8. failed.bh + failed.bq \in Nat /\ split.bh + split.bq \in Nat
      BY <1>6 DEF HMail
    <2>9. split.ref - Needed(split) >= hm[i].ref - Needed(hm[i]) + 1
      BY <1>5, <2>4, <2>6, <2>7
    <2>10. split.pc # "none" => split.fail = {} /\ split.bnc = {}
      BY <2>4, <2>5, <2>6
    <2>11. \/ split.pc # "none" \/ split.bh + split.bq > 0
           \/ S4 \subseteq split.fail /\ S5 \subseteq split.bnc
      BY <2>4, <2>6, <2>8
    <2>. QED
      BY <2>9, <2>10, <2>11
  <1>11. ASSUME trans = "ok"
         PROVE  /\ rcpts[i] \subseteq Told' \/ split.ref >= Needed(split) + 1
                /\ \/ split.pc # "none"
                   \/ split.bh + split.bq > 0
                   \/ \A r \in rcpts[i] : Safe(r, i)' \/ r \in split.fail \/ r \in split.bnc
    <2>1. rcpts[i] \subseteq Told \/ hm[i].ref >= Needed(hm[i])
      BY <1>2, <1>11 DEF RefInv
    <2>2. hm[i].ref \in Int /\ split.ref \in Int /\ Needed(hm[i]) \in Nat /\ Needed(split) \in Nat
      BY <1>1, <1>6, NeededNat DEF HMail
    <2>3. \A r \in rcpts[i] : r \in S2 \/ r \in S4 \/ r \in S5
      BY <1>7
    <2>4. \A r \in S2 : Safe(r, i)'
      BY <1>4 DEF Safe
    <2>. HIDE DEF split, S2, S4, S5
    <2>5. rcpts[i] \subseteq Told' \/ split.ref >= Needed(split) + 1
      BY <1>4, <1>10, <1>11, <2>1, <2>2
    <2>. QED
      BY <1>10, <1>11, <2>3, <2>4, <2>5
  <1>12. Needed(split) \in Nat /\ split.ref \in Int
    BY <1>6, NeededNat DEF HMail
  <1>. HIDE DEF split, last
  <1>13. CASE Discard(i, split)
    BY <1>1, <1>2, <1>3, <1>4, <1>6, <1>10, <1>11, <1>13, DiscardStep DEF Alive
  <1>14. CASE Becomes(i, last)
    BY <1>1, <1>2, <1>3, <1>4, <1>8, <1>10, <1>11, <1>12, <1>14, BecomesStep DEF Alive
  <1>. QED
    BY <1>3, <1>13, <1>14

(* A plugin that takes the mail is told of all its recipients.             *)
LEMMA DroppedStep ==
    ASSUME TypeOK, LossInv, NEW i \in Items, NEW h \in HMail, Alive,
           i < nextId, trans # "writing",
           Discard(i, h), dropped' = dropped \cup rcpts[i],
           trans = "ok" => (h.pc # "none" => h.fail = {} /\ h.bnc = {}),
           UNCHANGED <<rcpts, nextId, trans, up, deliveries, notified, lostBounce>>
    PROVE  LossInv'
  <1>1. Told \subseteq Told' /\ Settled \subseteq Settled' /\ rcpts[i] \subseteq Told'
    BY DEF Told, Settled, Done
  <1>2. \A r \in rcpts[i] : Safe(r, i)'
    BY <1>1 DEF Safe, Settled
  <1>. QED
    BY <1>1, <1>2, DiscardStep DEF Alive

(* An item's fields after one of them is set.                              *)
LEMMA SetPc ==
    ASSUME TypeOK, NEW i \in Items, NEW pc \in Waiting \cup Busy \cup Idle,
           NEW h, h = [hm[i] EXCEPT !.pc = pc] \/ h = NextCb([hm[i] EXCEPT !.pc = pc])
    PROVE  /\ h \in HMail /\ h.pc = pc /\ h.ref = hm[i].ref /\ h.dh = hm[i].dh
           /\ h.fail = hm[i].fail /\ h.bnc = hm[i].bnc /\ h.bh = hm[i].bh /\ h.bq = hm[i].bq
  <1>1. hm[i] \in HMail
    BY FieldType
  <1>. DEFINE k == [hm[i] EXCEPT !.pc = pc]
  <1>2. /\ k \in HMail /\ k.pc = pc /\ k.ref = hm[i].ref /\ k.dh = hm[i].dh
        /\ k.fail = hm[i].fail /\ k.bnc = hm[i].bnc /\ k.bh = hm[i].bh /\ k.bq = hm[i].bq
    BY <1>1 DEF HMail
  <1>3. h = k \/ h = NextCb(k)
    OBVIOUS
  <1>. HIDE DEF k
  <1>. QED
    BY <1>2, <1>3 DEF NextCb, HMail

LEMMA MoveTo ==
    ASSUME TypeOK, LossInv, NEW i \in Items, Alive, hm[i].pc \notin {"none", "built"},
           NEW pc \in Waiting \cup Busy \cup Idle, pc # "none",
           NEW h, h = [hm[i] EXCEPT !.pc = pc] \/ h = NextCb([hm[i] EXCEPT !.pc = pc]),
           hm' = [hm EXCEPT ![i] = h],
           file' = file \/ file' = [file EXCEPT ![i] = "queue"],
           UNCHANGED <<rcpts, nextId, trans, up, deliveries, notified, dropped, lostBounce>>
    PROVE  LossInv'
  <1>1. /\ h \in HMail /\ h.pc = pc /\ h.ref = hm[i].ref /\ h.dh = hm[i].dh
        /\ h.fail = hm[i].fail /\ h.bnc = hm[i].bnc /\ h.bh = hm[i].bh /\ h.bq = hm[i].bq
    BY SetPc
  <1>. QED
    BY <1>1, MoveStep

LEMMA AttemptLoss ==
    ASSUME TypeOK, LossInv, RepliesUsed, NEW i \in Items, Attempt(i)
    PROVE  LossInv'
  <1>. USE DEF history
  <1>1. CASE delivery_queue(i)
    <2>. DEFINE h == [hm[i] EXCEPT !.pc = "send", !.cb = "slot"]
    <2>1. /\ h \in HMail /\ h.pc = "send" /\ h.ref = hm[i].ref /\ h.dh = hm[i].dh
          /\ h.fail = hm[i].fail /\ h.bnc = hm[i].bnc /\ h.bh = hm[i].bh /\ h.bq = hm[i].bq
      BY FieldType DEF HMail
    <2>2. hm' = [hm EXCEPT ![i] = h] /\ file' = file
      BY <1>1 DEF delivery_queue, Becomes
    <2>. HIDE DEF h
    <2>. QED
      BY <1>1, <2>1, <2>2, MoveStep DEF delivery_queue
  <1>2. CASE send(i)
    <2>. DEFINE h == [hm[i] EXCEPT !.pc = "sendHook"]
    <2>1. hm' = [hm EXCEPT ![i] = h] /\ file' = file
      BY <1>2 DEF send, Becomes
    <2>. QED
      BY <1>2, <2>1, MoveTo DEF send, Busy
  <1>3. CASE send_email_respond_delay(i)
    <2>. DEFINE h == NextCb([hm[i] EXCEPT !.pc = "timer"])
    <2>1. hm' = [hm EXCEPT ![i] = h] /\ file' = file
      BY <1>3 DEF send_email_respond_delay, disk
    <2>. QED
      BY <1>3, <2>1, MoveTo DEF send_email_respond_delay, disk, Waiting
  <1>4. CASE send_email_respond_stop(i)
    <2>1. [hm[i] EXCEPT !.pc = "none"] \in HMail /\ [hm[i] EXCEPT !.pc = "none"].pc = "none"
      BY SetPc DEF Idle
    <2>2. i < nextId /\ trans # "writing"
      BY <1>4, ActiveItem DEF send_email_respond_stop
    <2>. QED
      BY <1>4, <2>1, <2>2, DroppedStep DEF send_email_respond_stop
  <1>5. CASE send_email_respond(i)
    <2>. DEFINE h == [hm[i] EXCEPT !.pc = "mxHook"]
    <2>1. hm' = [hm EXCEPT ![i] = h] /\ file' = file
      BY <1>5 DEF send_email_respond, Becomes
    <2>. QED
      BY <1>5, <2>1, MoveTo DEF send_email_respond, Busy
  <1>6. CASE get_mx_respond(i)
    <2>1. PICK h \in {[hm[i] EXCEPT !.pc = "session"], TempFailed(hm[i]), Bounced(hm[i])} :
            Becomes(i, h)
      BY <1>6 DEF get_mx_respond
    <2>2. CASE h = [hm[i] EXCEPT !.pc = "session"]
      <3>1. hm' = [hm EXCEPT ![i] = h] /\ file' = file
        BY <2>1 DEF Becomes
      <3>. QED
        BY <1>6, <2>2, <3>1, MoveTo DEF get_mx_respond, Busy
    <2>3. CASE h \in {TempFailed(hm[i]), Bounced(hm[i])}
      BY <1>6, <2>1, <2>3, FailStep DEF get_mx_respond, Busy
    <2>. QED
      BY <2>1, <2>2, <2>3
  <1>7. CASE session_failed(i)
    <2>1. PICK h \in {TempFailed(hm[i]), Bounced(hm[i])} : Becomes(i, h)
      BY <1>7 DEF session_failed
    <2>. QED
      BY <1>7, <2>1, FailStep DEF session_failed, Busy
  <1>. QED
    BY <1>1, <1>2, <1>3, <1>4, <1>5, <1>6, <1>7, FinishLoss DEF Attempt

(* The new file of a split is later than the one that is split, and holds  *)
(* the recipients that the parent stops answering for.                     *)
LEMMA SplitLoss ==
    ASSUME TypeOK, LossInv, NEW i \in Items, Alive, i < nextId, trans # "writing",
           NEW group \in SUBSET Rcpts, NEW child \in HMail, NEW parent \in HMail,
           SplitTo(i, group, child, parent),
           child.ref >= Needed(child), child.fail = {}, child.bnc = {},
           child.pc # "none" \/ child.bh + child.bq > 0,
           trans = "ok" =>
             /\ rcpts[i] \subseteq Told \/ parent.ref >= Needed(parent) + 1
             /\ parent.pc # "none" => parent.fail = {} /\ parent.bnc = {}
             /\ \/ parent.pc # "none"
                \/ parent.bh + parent.bq > 0
                \/ \A r \in rcpts[i] : \/ Safe(r, i) \/ r \in group
                                       \/ r \in parent.fail \/ r \in parent.bnc
    PROVE  LossInv'
  <1>. DEFINE k == nextId
              g == Discarded(parent)
  <1>1. /\ k \in Items /\ i # k /\ k > i /\ nextId' = k + 1
        /\ rcpts' = [rcpts EXCEPT ![k] = group]
        /\ hm' = [hm EXCEPT ![i] = g, ![k] = child]
        /\ file' = [file EXCEPT ![i] = IF LastRef(parent) THEN Unlink(@) ELSE @, ![k] = "queue"]
        /\ trans' = trans /\ up' = up
    BY DEF SplitTo, NewFile
  <1>2. Told' = Told /\ Settled' = Settled
    BY DEF SplitTo, history, Told, Settled, Done
  <1>3. file[k] = "free" /\ rcpts[k] = {}
    BY <1>1 DEF LossInv, Unused
  <1>4. /\ rcpts'[k] = group /\ file'[k] = "queue" /\ hm'[k] = child
        /\ hm'[i] = g
        /\ file'[i] # file[i] => LastRef(parent)
        /\ \A j \in Items : j # k => rcpts'[j] = rcpts[j]
        /\ \A j \in Items : j # k /\ j # i => file'[j] = file[j] /\ hm'[j] = hm[j]
    BY <1>1 DEF TypeOK
  <1>5. /\ g \in HMail
        /\ g.ref = parent.ref - 1 /\ Needed(g) = Needed(parent)
        /\ g.pc = parent.pc /\ g.fail = parent.fail /\ g.bnc = parent.bnc
        /\ g.bh = parent.bh /\ g.bq = parent.bq
    BY DiscardedType DEF Discarded, NextCb, Needed, HMail
  <1>6. Needed(parent) \in Nat /\ parent.ref \in Int
    BY NeededNat DEF HMail
  <1>7. \A r \in group : Safe(r, i)'
    BY <1>1, <1>4 DEF Safe
  <1>8. ASSUME NEW r, Safe(r, i)
        PROVE  Safe(r, i)'
    <2>1. CASE r \in Settled
      BY <1>2, <2>1 DEF Safe
    <2>2. ASSUME NEW j \in Items, j > i, file[j] = "queue", r \in rcpts[j]
          PROVE  Safe(r, i)'
      <3>1. j # k /\ j # i
        BY <1>3, <2>2
      <3>2. file'[j] = "queue" /\ r \in rcpts'[j]
        BY <1>4, <2>2, <3>1
      <3>. QED
        BY <2>2, <3>2 DEF Safe
    <2>. QED
      BY <1>8, <2>1, <2>2 DEF Safe
  <1>. HIDE DEF k, g
  <1>9. ASSUME trans = "ok", file'[i] # file[i]
        PROVE  \A r \in rcpts[i] : Safe(r, i)'
    <2>1. parent.ref = 1
      BY <1>4, <1>9 DEF LastRef
    <2>2. CASE rcpts[i] \subseteq Told
      BY <1>2, <2>2 DEF Safe, Settled
    <2>3. CASE ~(rcpts[i] \subseteq Told)
      <3>1. Needed(parent) = 0
        BY <1>6, <1>9, <2>1, <2>3
      <3>2. parent.pc = "none" /\ parent.fail = {} /\ parent.bnc = {} /\ ~(parent.bh + parent.bq > 0)
        BY <3>1, NeededNat
      <3>. QED
        BY <1>7, <1>8, <1>9, <3>2
    <2>. QED
      BY <2>2, <2>3
  <1>10. ASSUME trans = "ok", NEW j \in Items, NEW r, Safe(r, j)
         PROVE  Safe(r, j)'
    <2>1. CASE r \in Settled
      BY <1>2, <2>1 DEF Safe
    <2>2. ASSUME NEW m \in Items, m > j, file[m] = "queue", r \in rcpts[m]
          PROVE  Safe(r, j)'
      <3>1. m # k
        BY <1>3, <2>2
      <3>2. CASE file'[m] = "queue"
        BY <1>4, <2>2, <3>1, <3>2 DEF Safe
      <3>3. CASE file'[m] # "queue"
        <4>1. m = i
          BY <1>4, <2>2, <3>1, <3>3
        <4>2. Safe(r, i)'
          BY <1>9, <1>10, <2>2, <3>3, <4>1
        <4>. QED
          BY <2>2, <4>1, <4>2 DEF Safe
      <3>. QED
        BY <3>2, <3>3
    <2>. QED
      BY <1>10, <2>1, <2>2 DEF Safe
  <1>11. \A j \in Items : j >= nextId' => Unused(j)'
    <2>1. ASSUME NEW j \in Items, j >= nextId'
          PROVE  Unused(j)'
      <3>1. nextId \in Int /\ j \in Int /\ i \in Int
        BY DEF TypeOK
      <3>2. j >= nextId /\ j # k /\ j # i
        BY <1>1, <2>1, <3>1 DEF k
      <3>3. Unused(j)
        BY <3>2 DEF LossInv
      <3>. QED
        BY <1>4, <3>2, <3>3 DEF Unused
    <2>. QED
      BY <2>1
  <1>12. WritingInv'
    BY <1>1 DEF WritingInv
  <1>13. ASSUME trans = "ok", NEW j \in Items
         PROVE  FileInv(j)'
    <2>1. CASE j = k
      BY <1>4, <2>1 DEF FileInv
    <2>2. CASE j = i /\ file'[i] # file[i]
      BY <1>1, <1>4, <1>9, <1>13, <2>2 DEF FileInv
    <2>3. CASE j # k /\ file'[j] = file[j]
      <3>1. FileInv(j)
        BY <1>13 DEF LossInv
      <3>. QED
        BY <1>4, <1>10, <1>13, <2>3, <3>1 DEF FileInv
    <2>. QED
      BY <1>4, <2>1, <2>2, <2>3
  <1>14. ASSUME trans = "ok", NEW j \in Items
         PROVE  RefInv(j)' /\ CoverInv(j)'
    <2>1. CASE j = k
      <3>1. hm'[j] = child
        BY <1>4, <2>1
      <3>. QED
        BY <3>1 DEF RefInv, CoverInv
    <2>2. CASE j = i
      <3>1. hm'[j] = g /\ rcpts'[j] = rcpts[i]
        BY <1>1, <1>4, <2>2
      <3>2. rcpts[i] \subseteq Told' \/ g.ref >= Needed(g)
        BY <1>2, <1>5, <1>6, <1>14
      <3>3. /\ g.pc # "none" => g.fail = {} /\ g.bnc = {}
            /\ \/ g.pc # "none" \/ g.bh + g.bq > 0
               \/ \A r \in rcpts[i] : Safe(r, i)' \/ r \in g.fail \/ r \in g.bnc
        BY <1>5, <1>7, <1>8, <1>14
      <3>. QED
        BY <2>2, <3>1, <3>2, <3>3 DEF RefInv, CoverInv
    <2>3. CASE j # k /\ j # i
      <3>1. hm'[j] = hm[j] /\ rcpts'[j] = rcpts[j]
        BY <1>4, <2>3
      <3>2. RefInv(j) /\ CoverInv(j)
        BY <1>14 DEF LossInv, Alive
      <3>3. RefInv(j)'
        BY <1>2, <3>1, <3>2 DEF RefInv
      <3>4. CoverInv(j)'
        BY <1>10, <1>14, <3>1, <3>2 DEF CoverInv
      <3>. QED
        BY <3>3, <3>4
    <2>. QED
      BY <2>1, <2>2, <2>3
  <1>15. ASSUME trans = "ok", NEW r \in Rcpts
         PROVE  r \in Settled' \/ \E m \in Items : file'[m] = "queue" /\ r \in rcpts'[m]
    <2>1. CASE r \in Settled
      BY <1>2, <2>1
    <2>2. ASSUME NEW m \in Items, file[m] = "queue", r \in rcpts[m]
          PROVE  r \in Settled' \/ \E j \in Items : file'[j] = "queue" /\ r \in rcpts'[j]
      <3>1. m # k
        BY <1>3, <2>2
      <3>2. CASE file'[m] = "queue"
        BY <1>4, <2>2, <3>1, <3>2
      <3>3. CASE file'[m] # "queue"
        <4>1. m = i
          BY <1>4, <2>2, <3>1, <3>3
        <4>2. Safe(r, i)'
          BY <1>9, <1>15, <2>2, <3>3, <4>1
        <4>. QED
          BY <4>2 DEF Safe
      <3>. QED
        BY <3>2, <3>3
    <2>. QED
      BY <1>15, <2>1, <2>2 DEF LossInv
  <1>. QED
    BY <1>1, <1>11, <1>12, <1>13, <1>14, <1>15 DEF LossInv

(* What an item is after one counter goes down, or one split is over.      *)
LEMMA LessOne ==
    ASSUME NEW h \in HMail,
           NEW g, \/ h.dh > 0 /\ g = [h EXCEPT !.dh = @ - 1]
                  \/ h.fail # {} /\ g = [h EXCEPT !.fail = {}]
                  \/ h.bnc # {} /\ g = [h EXCEPT !.bnc = {}]
    PROVE  /\ g \in HMail /\ g.ref = h.ref /\ Needed(g) = Needed(h) - 1
           /\ g.pc = h.pc /\ g.bh = h.bh /\ g.bq = h.bq
  <1>1. h.dh \in Nat /\ h.bh \in Nat /\ h.bq \in Nat /\ h.fail \in SUBSET Rcpts /\ h.bnc \in SUBSET Rcpts
    BY DEF HMail
  <1>2. CASE h.dh > 0 /\ g = [h EXCEPT !.dh = @ - 1]
    <2>1. /\ g \in HMail /\ g.ref = h.ref /\ g.pc = h.pc /\ g.bh = h.bh /\ g.bq = h.bq
          /\ g.dh = h.dh - 1 /\ g.fail = h.fail /\ g.bnc = h.bnc
      BY <1>1, <1>2 DEF HMail
    <2>. QED
      BY <1>1, <2>1 DEF Needed, Count
  <1>3. CASE h.fail # {} /\ g = [h EXCEPT !.fail = {}]
    <2>1. /\ g \in HMail /\ g.ref = h.ref /\ g.pc = h.pc /\ g.bh = h.bh /\ g.bq = h.bq
          /\ g.dh = h.dh /\ g.fail = {} /\ g.bnc = h.bnc
      BY <1>1, <1>3 DEF HMail
    <2>. QED
      BY <1>1, <1>3, <2>1 DEF Needed, Count
  <1>4. CASE h.bnc # {} /\ g = [h EXCEPT !.bnc = {}]
    <2>1. /\ g \in HMail /\ g.ref = h.ref /\ g.pc = h.pc /\ g.bh = h.bh /\ g.bq = h.bq
          /\ g.dh = h.dh /\ g.fail = h.fail /\ g.bnc = {}
      BY <1>1, <1>4 DEF HMail
    <2>. QED
      BY <1>1, <1>4, <2>1 DEF Needed, Count
  <1>. QED
    BY <1>2, <1>3, <1>4

(* The item that a split makes has one reference, and one user of it.      *)
LEMMA ChildFields ==
    ASSUME NEW child, \/ child = TempFailed(NewItem("none", 0))
                      \/ child = Bounced(NewItem("none", 0))
    PROVE  /\ child \in HMail /\ child.ref >= Needed(child)
           /\ child.fail = {} /\ child.bnc = {}
           /\ child.pc # "none" \/ child.bh + child.bq > 0
  <1>. DEFINE n == NewItem("none", 0)
  <1>1. /\ n \in HMail /\ n.pc = "none" /\ n.ref = 1 /\ n.dh = 0 /\ n.bh = 0 /\ n.bq = 0
        /\ n.fail = {} /\ n.bnc = {}
    <2>1. n \in HMail
      BY NewItemType DEF Idle
    <2>. QED
      BY <2>1 DEF NewItem
  <1>. HIDE DEF n
  <1>2. child = TempFailed(n) \/ child = Bounced(n)
    BY DEF n
  <1>3. child \in HMail
    BY <1>1, <1>2, TempFailedType, BouncedType
  <1>4. /\ child.ref = 1 /\ child.dh = 0 /\ child.fail = {} /\ child.bnc = {} /\ child.bq = 0
        /\ \/ child.bh = 0 /\ child.pc = "deferHook"
           \/ child.bh = 1 /\ child.pc = "none"
    BY <1>1, <1>2, TempFailedFields, BouncedFields DEF Busy
  <1>. QED
    BY <1>3, <1>4 DEF Needed, Count

LEMMA SplitsLoss ==
    ASSUME TypeOK, LossInv, NEW i \in Items, split_failed(i) \/ split_bounced(i)
    PROVE  LossInv'
  <1>1. hm[i] \in HMail /\ hm[i].fail \in SUBSET Rcpts /\ hm[i].bnc \in SUBSET Rcpts
    BY FieldType
  <1>2. CASE split_failed(i)
    <2>. DEFINE g == [hm[i] EXCEPT !.fail = {}]
                child == TempFailed(NewItem("none", 0))
    <2>1. /\ Alive /\ hm[i].fail # {} /\ SplitTo(i, hm[i].fail, child, g)
      BY <1>2 DEF split_failed
    <2>2. /\ i < nextId /\ trans # "writing"
          /\ trans = "ok" => RefInv(i) /\ CoverInv(i)
      BY <2>1, ActiveItem DEF Alive
    <2>3. /\ g \in HMail /\ g.ref = hm[i].ref /\ Needed(g) = Needed(hm[i]) - 1
          /\ g.pc = hm[i].pc /\ g.bh = hm[i].bh /\ g.bq = hm[i].bq
      BY <1>1, <2>1, LessOne
    <2>4. g.fail = {} /\ g.bnc = hm[i].bnc
      BY <1>1 DEF HMail
    <2>5. hm[i].ref \in Int /\ Needed(hm[i]) \in Nat
      BY <1>1, NeededNat DEF HMail
    <2>6. /\ child \in HMail /\ child.ref >= Needed(child)
          /\ child.fail = {} /\ child.bnc = {}
          /\ child.pc # "none" \/ child.bh + child.bq > 0
      BY ChildFields
    <2>. HIDE DEF g, child
    <2>7. ASSUME trans = "ok"
          PROVE  /\ rcpts[i] \subseteq Told \/ g.ref >= Needed(g) + 1
                 /\ g.pc = "none"
                 /\ \/ g.bh + g.bq > 0
                    \/ \A r \in rcpts[i] : Safe(r, i) \/ r \in hm[i].fail \/ r \in g.bnc
      BY <2>1, <2>2, <2>3, <2>4, <2>5, <2>7 DEF RefInv, CoverInv
    <2>. QED
      BY <1>1, <2>1, <2>2, <2>3, <2>6, <2>7, SplitLoss
  <1>3. CASE split_bounced(i)
    <2>. DEFINE g == [hm[i] EXCEPT !.bnc = {}]
                child == Bounced(NewItem("none", 0))
    <2>1. /\ Alive /\ hm[i].bnc # {} /\ SplitTo(i, hm[i].bnc, child, g)
      BY <1>3 DEF split_bounced
    <2>2. /\ i < nextId /\ trans # "writing"
          /\ trans = "ok" => RefInv(i) /\ CoverInv(i)
      BY <2>1, ActiveItem DEF Alive
    <2>3. /\ g \in HMail /\ g.ref = hm[i].ref /\ Needed(g) = Needed(hm[i]) - 1
          /\ g.pc = hm[i].pc /\ g.bh = hm[i].bh /\ g.bq = hm[i].bq
      BY <1>1, <2>1, LessOne
    <2>4. g.bnc = {} /\ g.fail = hm[i].fail
      BY <1>1 DEF HMail
    <2>5. hm[i].ref \in Int /\ Needed(hm[i]) \in Nat
      BY <1>1, NeededNat DEF HMail
    <2>6. /\ child \in HMail /\ child.ref >= Needed(child)
          /\ child.fail = {} /\ child.bnc = {}
          /\ child.pc # "none" \/ child.bh + child.bq > 0
      BY ChildFields
    <2>. HIDE DEF g, child
    <2>7. ASSUME trans = "ok"
          PROVE  /\ rcpts[i] \subseteq Told \/ g.ref >= Needed(g) + 1
                 /\ g.pc = "none"
                 /\ \/ g.bh + g.bq > 0
                    \/ \A r \in rcpts[i] : Safe(r, i) \/ r \in hm[i].bnc \/ r \in g.fail
      BY <2>1, <2>2, <2>3, <2>4, <2>5, <2>7 DEF RefInv, CoverInv
    <2>. QED
      BY <1>1, <2>1, <2>2, <2>3, <2>6, <2>7, SplitLoss
  <1>. QED
    BY <1>2, <1>3

(* A failed split gives its reference to one bounce; the second bounce of  *)
(* the same failure has none, but the first one to end tells of everybody. *)
LEMMA SplitErrorLoss ==
    ASSUME TypeOK, LossInv, NEW i \in Items, split_error(i)
    PROVE  LossInv'
  <1>1. PICK h \in {[hm[i] EXCEPT !.fail = {}], [hm[i] EXCEPT !.bnc = {}]} :
          h # hm[i] /\ (Becomes(i, Bounced(h)) \/ Becomes(i, Bounced(Bounced(h))))
    BY DEF split_error
  <1>2. hm[i] \in HMail /\ Alive
    BY FieldType DEF split_error
  <1>3. \/ hm[i].fail # {} /\ h = [hm[i] EXCEPT !.fail = {}]
        \/ hm[i].bnc # {} /\ h = [hm[i] EXCEPT !.bnc = {}]
    <2>1. hm[i].fail = {} => [hm[i] EXCEPT !.fail = {}] = hm[i]
      BY <1>2 DEF HMail
    <2>2. hm[i].bnc = {} => [hm[i] EXCEPT !.bnc = {}] = hm[i]
      BY <1>2 DEF HMail
    <2>. QED
      BY <1>1, <2>1, <2>2
  <1>4. /\ i < nextId /\ trans # "writing"
        /\ trans = "ok" => RefInv(i) /\ CoverInv(i)
    BY <1>2, <1>3, ActiveItem DEF Alive
  <1>5. /\ h \in HMail /\ h.ref = hm[i].ref /\ Needed(h) = Needed(hm[i]) - 1
        /\ h.pc = hm[i].pc /\ h.bh = hm[i].bh /\ h.bq = hm[i].bq
    BY <1>2, <1>3, LessOne
  <1>6. PICK g : (g = Bounced(h) \/ g = Bounced(Bounced(h))) /\ Becomes(i, g)
    BY <1>1
  <1>7. /\ g \in HMail /\ g.ref = h.ref /\ g.dh = h.dh /\ g.fail = h.fail /\ g.bnc = h.bnc
        /\ g.bh > h.bh /\ g.bq = h.bq /\ g.pc = IF h.pc \in Busy THEN "none" ELSE h.pc
    <2>1. /\ Bounced(h) \in HMail /\ Bounced(h).ref = h.ref /\ Bounced(h).dh = h.dh
          /\ Bounced(h).fail = h.fail /\ Bounced(h).bnc = h.bnc /\ Bounced(h).bq = h.bq
          /\ Bounced(h).bh = h.bh + 1
          /\ Bounced(h).pc = IF h.pc \in Busy THEN "none" ELSE h.pc
      BY <1>5, BouncedType, BouncedFields
    <2>2. h.bh \in Nat
      BY <1>5 DEF HMail
    <2>3. CASE g = Bounced(h)
      BY <2>1, <2>2, <2>3
    <2>4. CASE g = Bounced(Bounced(h))
      <3>. DEFINE b == Bounced(h)
      <3>1. b \in HMail /\ g = Bounced(b)
        BY <2>1, <2>4
      <3>. HIDE DEF b
      <3>2. /\ g \in HMail /\ g.ref = b.ref /\ g.dh = b.dh /\ g.fail = b.fail /\ g.bnc = b.bnc
            /\ g.bq = b.bq /\ g.bh = b.bh + 1 /\ g.pc = IF b.pc \in Busy THEN "none" ELSE b.pc
        BY <3>1, BouncedType, BouncedFields
      <3>. QED
        BY <2>1, <2>2, <3>2 DEF b, Busy
    <2>. QED
      BY <1>6, <2>3, <2>4
  <1>8. h.dh \in Nat /\ h.bh \in Nat /\ h.bq \in Nat /\ h.ref \in Int
        /\ Needed(hm[i]) \in Nat /\ g.bh \in Nat
    BY <1>2, <1>5, <1>7, NeededNat DEF HMail
  <1>9. Needed(g) <= Needed(h) + 1
    BY <1>7, <1>8 DEF Needed, Count
  <1>10. g.bh + g.bq > 0
    BY <1>7, <1>8
  <1>11. trans = "ok" => g.pc = "none"
    BY <1>3, <1>4, <1>5, <1>7 DEF CoverInv, Busy
  <1>12. Told' = Told /\ Settled' = Settled
        /\ UNCHANGED <<rcpts, nextId, trans, up>>
    BY DEF split_error, history, Told, Settled, Done
  <1>13. trans = "ok" => rcpts[i] \subseteq Told' \/ g.ref >= Needed(g)
    <2>1. Needed(g) \in Nat /\ Needed(h) \in Nat
      BY <1>5, <1>7, NeededNat
    <2>. QED
      BY <1>4, <1>5, <1>7, <1>8, <1>9, <1>12, <2>1 DEF RefInv
  <1>. QED
    BY <1>2, <1>4, <1>6, <1>7, <1>10, <1>11, <1>12, <1>13, BecomesStep DEF Alive

LEMMA SettleLoss ==
    ASSUME TypeOK, LossInv, NEW i \in Items, Settle(i)
    PROVE  LossInv'
  <1>. USE DEF history
  <1>1. hm[i] \in HMail
    BY FieldType
  <1>2. CASE delivered_respond(i)
    <2>. DEFINE h == [hm[i] EXCEPT !.dh = @ - 1]
    <2>1. Alive /\ hm[i].dh > 0 /\ Discard(i, h)
      BY <1>2 DEF delivered_respond
    <2>2. /\ i < nextId /\ trans # "writing"
          /\ trans = "ok" => RefInv(i) /\ CoverInv(i)
      BY <2>1, ActiveItem DEF Alive
    <2>3. /\ h \in HMail /\ h.ref = hm[i].ref /\ Needed(h) = Needed(hm[i]) - 1
          /\ h.pc = hm[i].pc /\ h.bh = hm[i].bh /\ h.bq = hm[i].bq
      BY <1>1, <2>1, LessOne
    <2>4. h.fail = hm[i].fail /\ h.bnc = hm[i].bnc
      BY <1>1 DEF HMail
    <2>5. hm[i].ref \in Int /\ Needed(hm[i]) \in Nat
      BY <1>1, NeededNat DEF HMail
    <2>6. Told' = Told /\ Settled' = Settled /\ UNCHANGED <<rcpts, nextId, trans, up>>
      BY <1>2 DEF delivered_respond, Told, Settled, Done
    <2>. HIDE DEF h
    <2>7. \A k \in Items : k # i => file'[k] = file[k]
      BY <2>1 DEF Discard, TypeOK
    <2>8. \A r : Safe(r, i) => Safe(r, i)'
      BY <2>6, <2>7, SafeLater
    <2>9. ASSUME trans = "ok"
          PROVE  /\ rcpts[i] \subseteq Told' \/ h.ref >= Needed(h) + 1
                 /\ h.pc # "none" => h.fail = {} /\ h.bnc = {}
                 /\ \/ h.pc # "none"
                    \/ h.bh + h.bq > 0
                    \/ \A r \in rcpts[i] : Safe(r, i)' \/ r \in h.fail \/ r \in h.bnc
      BY <2>2, <2>3, <2>4, <2>5, <2>6, <2>8, <2>9 DEF RefInv, CoverInv
    <2>. QED
      BY <2>1, <2>2, <2>3, <2>6, <2>9, DiscardStep DEF Alive
  <1>3. CASE deferred_respond(i)
    <2>. DEFINE h == [hm[i] EXCEPT !.pc = "renaming"]
    <2>1. hm' = [hm EXCEPT ![i] = h] /\ file' = file
      BY <1>3 DEF deferred_respond, Becomes
    <2>. QED
      BY <1>3, <2>1, MoveTo DEF deferred_respond, Busy
  <1>4. CASE deferred_respond_ok(i)
    <2>1. [hm[i] EXCEPT !.pc = "none"] \in HMail /\ [hm[i] EXCEPT !.pc = "none"].pc = "none"
      BY SetPc DEF Idle
    <2>2. i < nextId /\ trans # "writing"
      BY <1>4, ActiveItem DEF deferred_respond_ok
    <2>. QED
      BY <1>4, <2>1, <2>2, DroppedStep DEF deferred_respond_ok
  <1>5. CASE deferred_respond_denysoft(i)
    <2>1. CASE Becomes(i, [hm[i] EXCEPT !.pc = "stuck"])
      <3>. DEFINE h == [hm[i] EXCEPT !.pc = "stuck"]
      <3>1. hm' = [hm EXCEPT ![i] = h] /\ file' = file
        BY <2>1 DEF Becomes
      <3>. QED
        BY <1>5, <3>1, MoveTo DEF deferred_respond_denysoft, Idle
    <2>2. CASE UNCHANGED <<hm, file>>
      <3>1. hm' = [hm EXCEPT ![i] = hm[i]] /\ hm[i].pc = "deferHook" /\ Alive
        BY <1>5, <2>2 DEF deferred_respond_denysoft, TypeOK
      <3>. QED
        BY <1>1, <1>5, <2>2, <3>1, MoveStep DEF deferred_respond_denysoft
    <2>. QED
      BY <1>5, <2>1, <2>2 DEF deferred_respond_denysoft
  <1>6. CASE requeue(i)
    <2>. DEFINE h == NextCb([hm[i] EXCEPT !.pc = "timer"])
    <2>1. hm' = [hm EXCEPT ![i] = h] /\ file' = [file EXCEPT ![i] = "queue"]
      BY <1>6 DEF requeue
    <2>. QED
      BY <1>6, <2>1, MoveTo DEF requeue, Waiting
  <1>7. CASE requeue_error(i)
    BY <1>7, FailStep DEF requeue_error, Busy
  <1>8. CASE timer(i)
    <2>. DEFINE h == [hm[i] EXCEPT !.pc = "queued"]
    <2>1. hm' = [hm EXCEPT ![i] = h] /\ file' = file
      BY <1>8 DEF timer, Becomes
    <2>. QED
      BY <1>8, <2>1, MoveTo DEF timer, Waiting
  <1>9. ASSUME NEW c \in {"bh", "bq"},
               c = "bh" => hm[i].bh > 0,
               c = "bq" => hm[i].bq > 0,
               Alive
        PROVE  LET h == IF c = "bh" THEN [hm[i] EXCEPT !.bh = @ - 1]
                                    ELSE [hm[i] EXCEPT !.bq = @ - 1]
               IN  /\ h \in HMail /\ i < nextId /\ trans # "writing"
                   /\ trans = "ok" => (h.pc # "none" => h.fail = {} /\ h.bnc = {})
    <2>1. /\ i < nextId /\ trans # "writing"
          /\ trans = "ok" => CoverInv(i)
      BY <1>9, ActiveItem DEF Alive
    <2>2. CASE c = "bh"
      BY <1>1, <1>9, <2>1, <2>2 DEF CoverInv, HMail
    <2>3. CASE c = "bq"
      BY <1>1, <1>9, <2>1, <2>3 DEF CoverInv, HMail
    <2>. QED
      BY <2>2, <2>3
  <1>10. CASE bounce_respond(i)
    <2>. DEFINE h == [hm[i] EXCEPT !.bh = @ - 1]
                g == [h EXCEPT !.bq = @ + 1]
    <2>1. Alive /\ hm[i].bh > 0 /\ (DoubleBounce(i, h) \/ (Becomes(i, g) /\ UNCHANGED lostBounce))
      <3>1. Alive /\ hm[i].bh > 0 /\ IF NullSender THEN DoubleBounce(i, h)
                                     ELSE Becomes(i, g) /\ UNCHANGED lostBounce
        BY <1>10, Zenon DEF bounce_respond
      <3>. HIDE DEF g, h
      <3>. QED
        BY <3>1, Zenon
    <2>2. /\ h \in HMail /\ i < nextId /\ trans # "writing"
          /\ trans = "ok" => (h.pc # "none" => h.fail = {} /\ h.bnc = {})
      BY <1>9, <2>1
    <2>3. CASE DoubleBounce(i, h)
      <3>. HIDE DEF h
      <3>. QED
        BY <1>10, <2>1, <2>2, <2>3, DoubleBounceStep DEF bounce_respond, Alive
    <2>4. CASE Becomes(i, g) /\ UNCHANGED lostBounce
      <3>1. /\ g \in HMail /\ g.ref = hm[i].ref /\ g.dh = hm[i].dh /\ g.pc = hm[i].pc
            /\ g.fail = hm[i].fail /\ g.bnc = hm[i].bnc
            /\ g.bh = hm[i].bh - 1 /\ g.bq = hm[i].bq + 1
            /\ hm[i].bh \in Nat /\ hm[i].bq \in Nat
        <4>1. /\ h.ref = hm[i].ref /\ h.dh = hm[i].dh /\ h.pc = hm[i].pc
              /\ h.fail = hm[i].fail /\ h.bnc = hm[i].bnc
              /\ h.bh = hm[i].bh - 1 /\ h.bq = hm[i].bq
              /\ hm[i].bh \in Nat /\ hm[i].bq \in Nat
          BY <1>1 DEF HMail
        <4>. HIDE DEF h
        <4>2. g \in HMail
          BY <2>2, CountUpType
        <4>3. /\ g.ref = h.ref /\ g.dh = h.dh /\ g.pc = h.pc
              /\ g.fail = h.fail /\ g.bnc = h.bnc
              /\ g.bh = h.bh /\ g.bq = h.bq + 1
          BY <2>2 DEF HMail
        <4>. HIDE DEF g
        <4>. QED
          BY <4>1, <4>2, <4>3
      <3>2. /\ trans = "ok" => RefInv(i) /\ CoverInv(i)
        BY <2>1, ActiveItem DEF Alive
      <3>3. Told' = Told /\ Settled' = Settled /\ UNCHANGED <<rcpts, nextId, trans, up>>
        BY <1>10, <2>4 DEF bounce_respond, Told, Settled, Done
      <3>. HIDE DEF g
      <3>4. g.bh + g.bq = hm[i].bh + hm[i].bq /\ g.bh + g.bq > 0
        BY <2>1, <3>1
      <3>5. Needed(g) = Needed(hm[i])
        BY <3>1, <3>4 DEF Needed
      <3>. QED
        BY <2>1, <2>2, <2>4, <3>1, <3>2, <3>3, <3>4, <3>5, BecomesStep DEF RefInv, CoverInv, Alive
    <2>. QED
      BY <2>1, <2>3, <2>4
  <1>11. CASE bounce_respond_ok(i)
    <2>. DEFINE h == [hm[i] EXCEPT !.bh = @ - 1]
    <2>1. Alive /\ hm[i].bh > 0 /\ Discard(i, h) /\ dropped' = dropped \cup rcpts[i]
      BY <1>11 DEF bounce_respond_ok
    <2>2. /\ h \in HMail /\ i < nextId /\ trans # "writing"
          /\ trans = "ok" => (h.pc # "none" => h.fail = {} /\ h.bnc = {})
      BY <1>9, <2>1
    <2>. HIDE DEF h
    <2>. QED
      BY <1>11, <2>1, <2>2, DroppedStep DEF bounce_respond_ok
  <1>12. CASE bounce_queued(i)
    <2>. DEFINE h == [hm[i] EXCEPT !.bq = @ - 1]
    <2>1. Alive /\ hm[i].bq > 0 /\ Discard(i, h)
      BY <1>12 DEF bounce_queued
    <2>2. /\ h \in HMail /\ i < nextId /\ trans # "writing"
          /\ trans = "ok" => (h.pc # "none" => h.fail = {} /\ h.bnc = {})
      BY <1>9, <2>1
    <2>3. /\ Told \subseteq Told' /\ Settled \subseteq Settled' /\ rcpts[i] \subseteq Told'
          /\ UNCHANGED <<rcpts, nextId, trans, up>>
      BY <1>12 DEF bounce_queued, Told, Settled, Done
    <2>4. \A r \in rcpts[i] : Safe(r, i)'
      BY <2>3 DEF Safe, Settled
    <2>. HIDE DEF h
    <2>. QED
      BY <2>1, <2>2, <2>3, <2>4, DiscardStep DEF Alive
  <1>13. CASE bounce_error(i)
    <2>. DEFINE h == [hm[i] EXCEPT !.bq = @ - 1]
    <2>1. Alive /\ hm[i].bq > 0 /\ DoubleBounce(i, h)
      BY <1>13 DEF bounce_error
    <2>2. /\ h \in HMail /\ i < nextId /\ trans # "writing"
          /\ trans = "ok" => (h.pc # "none" => h.fail = {} /\ h.bnc = {})
      BY <1>9, <2>1
    <2>. HIDE DEF h
    <2>. QED
      BY <1>13, <2>1, <2>2, DoubleBounceStep DEF bounce_error, Alive
  <1>14. CASE unlinked(i)
    <2>1. /\ up /\ file[i] = "unlinking" /\ hm' = [hm EXCEPT ![i] = hm[i]]
          /\ \A k \in Items : k # i => file'[k] = file[k]
          /\ UNCHANGED <<rcpts, nextId, trans, up>>
      BY <1>14 DEF unlinked, TypeOK
    <2>2. Told' = Told /\ Settled' = Settled
      BY <1>14 DEF unlinked, Told, Settled, Done
    <2>3. i \in Int /\ nextId \in Int
      BY DEF TypeOK
    <2>4. i < nextId
      BY <2>1, <2>3 DEF LossInv, Unused
    <2>5. trans # "writing"
      BY <2>1, <2>4 DEF LossInv, WritingInv
    <2>6. \A r : Safe(r, i) => Safe(r, i)'
      BY <2>1, <2>2, SafeLater
    <2>7. trans = "ok" => \A r \in rcpts[i] : Safe(r, i)'
      BY <2>1, <2>6 DEF LossInv, FileInv
    <2>8. trans = "ok" => RefInv(i) /\ CoverInv(i)
      BY <2>1 DEF LossInv
    <2>. QED
      BY <1>1, <2>1, <2>2, <2>4, <2>5, <2>7, <2>8, ItemStep DEF RefInv, CoverInv
  <1>. QED
    BY <1>2, <1>3, <1>4, <1>5, <1>6, <1>7, <1>8, <1>10, <1>11, <1>12, <1>13, <1>14,
       SplitsLoss, SplitErrorLoss DEF Settle

(* While the message is being accepted every file is whole and unused.     *)
LEMMA AcceptLoss ==
    ASSUME TypeOK, LossInv, Accept
    PROVE  LossInv'
  <1>. USE DEF history
  <1>1. /\ Alive /\ trans = "writing"
        /\ \A i \in Items : i >= nextId => Unused(i)
        /\ \A i \in Items : i < nextId => file[i] = "queue" /\ hm[i] = NewItem("built", 0)
        /\ \A r \in Rcpts : DomainOf[r] \in todo
                             \/ \E k \in Items : file[k] = "queue" /\ r \in rcpts[k]
    BY DEF Accept, process_delivery, process_delivery_error, send_trans_email_done,
           LossInv, WritingInv
  <1>2. nextId \in Int /\ \A i \in Items : i \in Int /\ (i < nextId \/ i >= nextId)
    BY DEF TypeOK
  <1>3. /\ NewItem("built", 0).pc = "built" /\ NewItem("built", 0).fail = {}
        /\ NewItem("built", 0).bnc = {} /\ NewItem("built", 0).ref >= Needed(NewItem("built", 0))
    BY DEF NewItem, Needed, Count
  <1>4. ASSUME NEW d \in Domains, process_delivery(d)
        PROVE  LossInv'
    <2>. DEFINE k == nextId
    <2>1. /\ k \in Items /\ nextId' = k + 1
          /\ rcpts' = [rcpts EXCEPT ![k] = Group(d)]
          /\ file' = [file EXCEPT ![k] = "queue"]
          /\ hm' = [hm EXCEPT ![k] = NewItem("built", 0)]
          /\ todo' = todo \ {d} /\ trans' = trans /\ up' = up
      BY <1>4 DEF process_delivery, NewFile
    <2>2. /\ rcpts'[k] = Group(d) /\ file'[k] = "queue" /\ hm'[k] = NewItem("built", 0)
          /\ \A j \in Items : j # k => /\ rcpts'[j] = rcpts[j] /\ file'[j] = file[j]
                                       /\ hm'[j] = hm[j]
      BY <2>1 DEF TypeOK
    <2>3. ASSUME NEW j \in Items
          PROVE  /\ j >= nextId' => Unused(j)'
                 /\ j < nextId' => file'[j] = "queue" /\ hm'[j] = NewItem("built", 0)
      <3>1. CASE j = k
        BY <1>2, <2>1, <2>2, <3>1
      <3>2. CASE j < k
        BY <1>1, <1>2, <2>1, <2>2, <3>2
      <3>3. CASE j > k
        BY <1>1, <1>2, <2>1, <2>2, <3>3 DEF Unused
      <3>. QED
        BY <1>2, <3>1, <3>2, <3>3
    <2>4. ASSUME NEW r \in Rcpts
          PROVE  DomainOf[r] \in todo' \/ \E m \in Items : file'[m] = "queue" /\ r \in rcpts'[m]
      <3>1. CASE DomainOf[r] \in todo
        <4>1. CASE DomainOf[r] = d
          BY <2>1, <2>2, <4>1 DEF Group
        <4>2. CASE DomainOf[r] # d
          BY <2>1, <3>1, <4>2
        <4>. QED
          BY <4>1, <4>2
      <3>2. ASSUME NEW m \in Items, file[m] = "queue", r \in rcpts[m]
            PROVE  \E j \in Items : file'[j] = "queue" /\ r \in rcpts'[j]
        <4>1. m # k
          BY <1>1, <1>2, <2>1, <3>2 DEF Unused
        <4>. QED
          BY <2>2, <3>2, <4>1
      <3>. QED
        BY <1>1, <3>1, <3>2
    <2>. HIDE DEF k
    <2>5. WritingInv'
      BY <1>1, <2>1, <2>3, <2>4 DEF WritingInv, Alive
    <2>6. ASSUME NEW j \in Items
          PROVE  FileInv(j)' /\ RefInv(j)' /\ CoverInv(j)'
      <3>1. nextId' \in Int
        BY <1>2, <2>1 DEF k
      <3>2. CASE j < nextId'
        BY <1>3, <2>3, <3>2 DEF FileInv, RefInv, CoverInv
      <3>3. CASE j >= nextId'
        <4>1. rcpts'[j] = {} /\ hm'[j] = NoItem
          BY <2>3, <3>3 DEF Unused
        <4>. QED
          BY <4>1 DEF FileInv, RefInv, CoverInv, NoItem, NewItem
      <3>. QED
        BY <1>2, <3>1, <3>2, <3>3
    <2>. QED
      BY <1>1, <2>1, <2>3, <2>5, <2>6 DEF LossInv
  <1>5. CASE process_delivery_error
    <2>1. trans' = "deny" /\ UNCHANGED <<nextId, rcpts>>
      BY <1>5 DEF process_delivery_error
    <2>2. ASSUME NEW j \in Items, j >= nextId'
          PROVE  Unused(j)'
      <3>1. Unused(j)
        BY <1>1, <2>1, <2>2
      <3>2. hm[j].pc # "built"
        BY <3>1 DEF Unused, NoItem, NewItem
      <3>. QED
        BY <1>5, <2>1, <3>1, <3>2 DEF process_delivery_error, Built, Unused, TypeOK
    <2>. QED
      BY <2>1, <2>2 DEF LossInv, WritingInv
  <1>6. CASE send_trans_email_done
    <2>1. /\ trans' = "ok" /\ todo = {} /\ UNCHANGED <<nextId, rcpts, file, up>>
          /\ Told' = Told /\ Settled' = Settled
      BY <1>6 DEF send_trans_email_done, disk, Told, Settled, Done
    <2>2. ASSUME NEW j \in Items
          PROVE  hm'[j] = IF j < nextId THEN [NewItem("built", 0) EXCEPT !.pc = "queued"]
                          ELSE NoItem
      <3>1. hm'[j] = IF hm[j].pc = "built" THEN [hm[j] EXCEPT !.pc = "queued"] ELSE hm[j]
        BY <1>6 DEF send_trans_email_done, Built
      <3>2. NoItem.pc = "none"
        BY DEF NoItem, NewItem
      <3>. QED
        BY <1>1, <1>2, <1>3, <3>1, <3>2 DEF Unused
    <2>3. LET h == [NewItem("built", 0) EXCEPT !.pc = "queued"]
          IN  h.pc = "queued" /\ h.fail = {} /\ h.bnc = {} /\ h.ref >= Needed(h)
      BY DEF NewItem, Needed, Count
    <2>4. ASSUME NEW j \in Items
          PROVE  /\ j >= nextId' => Unused(j)'
                 /\ FileInv(j)' /\ RefInv(j)' /\ CoverInv(j)'
      <3>1. CASE j < nextId
        <4>1. hm'[j] = [NewItem("built", 0) EXCEPT !.pc = "queued"] /\ file'[j] = "queue"
          BY <1>1, <2>1, <2>2, <3>1
        <4>. QED
          BY <1>2, <2>1, <2>3, <3>1, <4>1 DEF FileInv, RefInv, CoverInv
      <3>2. CASE j >= nextId
        <4>1. hm'[j] = NoItem /\ file'[j] = "free" /\ rcpts'[j] = {}
          BY <1>1, <1>2, <2>1, <2>2, <3>2 DEF Unused
        <4>. QED
          BY <4>1 DEF Unused, FileInv, RefInv, CoverInv, NoItem, NewItem
      <3>. QED
        BY <1>2, <3>1, <3>2
    <2>5. \A r \in Rcpts : \E k \in Items : file'[k] = "queue" /\ r \in rcpts'[k]
      BY <1>1, <2>1
    <2>. QED
      BY <2>1, <2>4, <2>5 DEF LossInv, WritingInv
  <1>. QED
    BY <1>4, <1>5, <1>6 DEF Accept

LEMMA SameLoss ==
    ASSUME LossInv, UNCHANGED <<trans, todo, nextId, file, rcpts, hm, up>>,
           Told' = Told, Settled' = Settled
    PROVE  LossInv'
  <1>1. ASSUME NEW i \in Items
        PROVE  /\ Unused(i) => Unused(i)'
               /\ RefInv(i) => RefInv(i)'
               /\ \A r : Safe(r, i) => Safe(r, i)'
    <2>1. Unused(i) => Unused(i)'
      BY DEF Unused
    <2>2. RefInv(i) => RefInv(i)'
      BY DEF RefInv
    <2>3. \A r : Safe(r, i) => Safe(r, i)'
      BY DEF Safe
    <2>. QED
      BY <2>1, <2>2, <2>3
  <1>2. ASSUME NEW i \in Items
        PROVE  /\ FileInv(i) => FileInv(i)'
               /\ CoverInv(i) => CoverInv(i)'
    BY <1>1 DEF FileInv, CoverInv
  <1>3. WritingInv'
    BY DEF LossInv, WritingInv
  <1>. QED
    BY <1>1, <1>2, <1>3 DEF LossInv

LEMMA RestartLoss ==
    ASSUME TypeOK, LossInv, load_config \/ crash \/ Restart
    PROVE  LossInv'
  <1>. USE DEF history
  <1>1. CASE load_config
    <2>1. /\ UNCHANGED <<trans, todo, nextId, file, rcpts, hm, up>>
          /\ Told' = Told /\ Settled' = Settled
      BY <1>1 DEF load_config, disk, Told, Settled, Done
    <2>. QED
      BY <2>1, SameLoss
  <1>2. CASE crash
    <2>1. /\ up' = FALSE /\ trans' # "writing" /\ (trans' = "ok" => trans = "ok")
          /\ hm' = [i \in Items |-> NoItem]
          /\ UNCHANGED <<nextId, rcpts>>
          /\ Told' = Told /\ Settled' = Settled
      BY <1>2 DEF crash, TypeOK, Told, Settled, Done
    <2>2. \A i \in Items : /\ file[i] = "queue" => file'[i] = "queue"
                           /\ file[i] = "free" => file'[i] = "free"
      BY <1>2 DEF crash
    <2>0. rcpts' = rcpts /\ Settled' = Settled
      BY <2>1
    <2>3. ASSUME NEW i \in Items, NEW r, Safe(r, i)
          PROVE  Safe(r, i)'
      <3>1. CASE r \in Settled
        BY <2>0, <3>1 DEF Safe
      <3>2. ASSUME NEW k \in Items, k > i, file[k] = "queue", r \in rcpts[k]
            PROVE  Safe(r, i)'
        <4>1. file'[k] = "queue" /\ r \in rcpts'[k]
          BY <2>0, <2>2, <3>2, Zenon
        <4>. QED
          BY <3>2, <4>1 DEF Safe
      <3>. QED
        BY <2>3, <3>1, <3>2 DEF Safe
    <2>4. ASSUME NEW i \in Items, i >= nextId'
          PROVE  Unused(i)'
      BY <2>1, <2>2, <2>4 DEF LossInv, Unused
    <2>5. ASSUME trans = "ok", NEW i \in Items
          PROVE  FileInv(i)'
      <3>1. FileInv(i)
        BY <2>5 DEF LossInv
      <3>2. file'[i] # "queue" => file[i] # "queue"
        BY <2>2, <2>5, Zenon
      <3>. QED
        BY <2>0, <2>3, <3>1, <3>2 DEF FileInv
    <2>6. ASSUME trans = "ok", NEW r \in Rcpts
          PROVE  r \in Settled' \/ \E k \in Items : file'[k] = "queue" /\ r \in rcpts'[k]
      <3>1. CASE r \in Settled
        BY <2>0, <3>1
      <3>2. ASSUME NEW k \in Items, file[k] = "queue", r \in rcpts[k]
            PROVE  \E j \in Items : file'[j] = "queue" /\ r \in rcpts'[j]
        BY <2>0, <2>2, <3>2, Zenon
      <3>. QED
        BY <2>6, <3>1, <3>2 DEF LossInv
    <2>. QED
      BY <2>1, <2>4, <2>5, <2>6 DEF LossInv, WritingInv
  <1>3. CASE load_queue
    <2>1. /\ ~up /\ UNCHANGED <<trans, nextId, file, rcpts>>
          /\ Told' = Told /\ Settled' = Settled
          /\ hm' = [i \in Items |->
                      IF file[i] = "queue" THEN NewItem("onDisk", diskFails[i]) ELSE NoItem]
      BY <1>3 DEF load_queue, disk, Told, Settled, Done
    <2>2. trans # "writing"
      BY <2>1 DEF LossInv, WritingInv
    <2>3. ASSUME NEW i \in Items, NEW r, Safe(r, i)
          PROVE  Safe(r, i)'
      BY <2>1, <2>3 DEF Safe
    <2>4. ASSUME NEW i \in Items, i >= nextId'
          PROVE  Unused(i)'
      BY <2>1, <2>4 DEF LossInv, Unused
    <2>5. ASSUME trans = "ok", NEW i \in Items
          PROVE  FileInv(i)' /\ RefInv(i)' /\ CoverInv(i)'
      <3>1. FileInv(i)'
        BY <2>1, <2>3, <2>5 DEF LossInv, FileInv
      <3>2. CASE file[i] = "queue"
        <4>1. hm'[i] = NewItem("onDisk", diskFails[i])
          BY <2>1, <3>2
        <4>. QED
          BY <3>1, <4>1 DEF RefInv, CoverInv, NewItem, Needed, Count
      <3>3. CASE file[i] # "queue"
        <4>1. hm'[i] = NoItem /\ \A r \in rcpts[i] : Safe(r, i)'
          BY <2>1, <2>3, <2>5, <3>3 DEF LossInv, FileInv
        <4>. QED
          BY <2>1, <3>1, <4>1 DEF RefInv, CoverInv, NoItem, NewItem, Needed, Count
      <3>. QED
        BY <3>2, <3>3
    <2>6. trans = "ok" => \A r \in Rcpts : r \in Settled' \/ \E k \in Items : file'[k] = "queue" /\ r \in rcpts'[k]
      BY <2>1 DEF LossInv
    <2>. QED
      BY <2>1, <2>2, <2>4, <2>5, <2>6 DEF LossInv, WritingInv
  <1>4. ASSUME NEW i \in Items, _add_file(i)
        PROVE  LossInv'
    <2>1. PICK pc \in {"queued", "timer"} : Becomes(i, [hm[i] EXCEPT !.pc = pc])
      BY <1>4 DEF _add_file
    <2>. DEFINE h == [hm[i] EXCEPT !.pc = pc]
    <2>2. hm' = [hm EXCEPT ![i] = h] /\ file' = file
      BY <2>1 DEF Becomes
    <2>. QED
      BY <1>4, <2>2, MoveTo DEF _add_file, Waiting
  <1>. QED
    BY <1>1, <1>2, <1>3, <1>4 DEF Restart

LEMMA InitLoss == Init => LossInv
  <1>. SUFFICES ASSUME Init
               PROVE  LossInv
    OBVIOUS
  <1>1. \A i \in Items : Unused(i) /\ i >= nextId
    BY DEF Init, Unused
  <1>2. \A r \in Rcpts : DomainOf[r] \in todo
    BY DEF Init
  <1>3. WritingInv
    BY <1>1, <1>2 DEF Init, WritingInv
  <1>4. \A i \in Items : FileInv(i) /\ RefInv(i) /\ CoverInv(i)
    BY <1>1 DEF Unused, FileInv, RefInv, CoverInv, NoItem, NewItem
  <1>. QED
    BY <1>1, <1>3, <1>4 DEF Init, LossInv

LEMMA NextLoss == TypeOK /\ LossInv /\ RepliesUsed /\ [Next]_vars => LossInv'
  <1>1. ASSUME LossInv, UNCHANGED vars
        PROVE  LossInv'
    <2>1. /\ UNCHANGED <<trans, todo, nextId, file, rcpts, hm, up>>
          /\ Told' = Told /\ Settled' = Settled
      BY <1>1 DEF vars, disk, history, Told, Settled, Done
    <2>. QED
      BY <1>1, <2>1, SameLoss
  <1>. QED
    BY <1>1, AcceptLoss, AttemptLoss, SettleLoss, RestartLoss DEF Next

LEMMA LossInvImplies == LossInv => NoLoss
  BY DEF LossInv, NoLoss, OnDisk

(* The recipients that are not settled are always in a queued file, or in  *)
(* a split that a held reference protects: LossInv.                        *)
THEOREM LossInvHolds == RepliesUsed => (Spec => []LossInv)
  <1>. SUFFICES ASSUME RepliesUsed
               PROVE  Spec => []LossInv
    OBVIOUS
  <1>1. TypeOK /\ LossInv /\ [Next]_vars => (TypeOK /\ LossInv)'
    BY NextType, NextLoss
  <1>2. Init => TypeOK /\ LossInv
    BY InitType, InitLoss
  <1>. QED
    BY <1>1, <1>2, PTL DEF Spec

(* With any number of recipients, files, faults and crashes, no recipient  *)
(* of an accepted mail is lost: NoLoss.  The replies are those that        *)
(* finish_processing_mail looks at; a 251 or 3xx reply is lost by it, see  *)
(* module OutboundSession.                                                 *)
THEOREM NothingLost == RepliesUsed => (Spec => []NoLoss)
  <1>. SUFFICES ASSUME RepliesUsed
               PROVE  Spec => []NoLoss
    OBVIOUS
  <1>. QED
    BY LossInvHolds, LossInvImplies, PTL

-----------------------------------------------------------------------------
(***************************************************************************)
(* Reference counts are exact, every queued file is worked on, and no      *)
(* recipient has two fates, for every number of recipients, domains and    *)
(* files.  This rests on what is true of a single item and its file,       *)
(* Sound, as long as the disk and the plugins do none of what Healthy      *)
(* excludes.                                                               *)
(***************************************************************************)

(* The hypothesis, and why each part of it is there: a split that fails    *)
(* bounces the item twice; a bounce that fails, or the bounce of a bounce, *)
(* removes the file whatever the reference count (double_bounce); a        *)
(* DENYSOFT answer leaves the item without a callback or throws.  Queue    *)
(* files that cannot be written, renames that fail, crashes, and every     *)
(* other answer are allowed.                                               *)
Healthy ==
    /\ Faults \cap {"split", "bounce"} = {}
    /\ "denysoft" \notin DeferReplies
    /\ ~NullSender

On(h) == h.pc \notin Idle

(* The item still answers for all the recipients in its file.              *)
Whole(h) == On(h) \/ h.bh + h.bq > 0

(* The recipients of whom the item has still to dispose.                   *)
Pend(h, all) == IF Whole(h) THEN all ELSE h.fail \cup h.bnc

Fit(h, all) ==
    /\ h.cb = "spent" => h.pc \in {"timer", "queued"}
    /\ h.bh + h.bq <= 1
    /\ On(h) => h.bh = 0 /\ h.bq = 0
    /\ Whole(h) => h.fail = {} /\ h.bnc = {}
    /\ h.fail \cap h.bnc = {}
    /\ h.fail \cup h.bnc \subseteq all

Sound(f, h, all) ==
    /\ f = "queue" <=> Holders(h) > 0
    /\ Holders(h) > 0 => h.ref = Holders(h) /\ Fit(h, all)
    /\ Holders(h) = 0 => h.cb # "slot"

LEMMA HoldersNat ==
    ASSUME NEW h \in HMail
    PROVE  /\ Holders(h) \in Nat
           /\ On(h) \/ h.dh > 0 \/ h.bh > 0 \/ h.bq > 0 \/ h.fail # {} \/ h.bnc # {}
              <=> Holders(h) > 0
  <1>1. h.dh \in Nat /\ h.bh \in Nat /\ h.bq \in Nat
    BY DEF HMail
  <1>. DEFINE a == Count(h.pc \notin Idle)
              b == Count(h.fail # {})
              c == Count(h.bnc # {})
  <1>2. /\ a \in {0, 1} /\ b \in {0, 1} /\ c \in {0, 1}
        /\ a = 1 <=> On(h)
        /\ b = 1 <=> h.fail # {}
        /\ c = 1 <=> h.bnc # {}
    BY DEF Count, On
  <1>3. Holders(h) = a + h.dh + h.bh + h.bq + b + c
    BY DEF Holders
  <1>. HIDE DEF a, b, c
  <1>4. a \in Nat /\ b \in Nat /\ c \in Nat
    BY <1>2
  <1>5. Holders(h) \in Nat
    BY <1>1, <1>3, <1>4
  <1>6. Holders(h) > 0 <=> (a > 0 \/ h.dh > 0 \/ h.bh > 0 \/ h.bq > 0 \/ b > 0 \/ c > 0)
    BY <1>1, <1>3, <1>4
  <1>7. (a > 0 <=> a = 1) /\ (b > 0 <=> b = 1) /\ (c > 0 <=> c = 1)
    BY <1>2
  <1>. QED
    BY <1>2, <1>5, <1>6, <1>7

LEMMA NoItemSound ==
    ASSUME NEW f, f # "queue", NEW all
    PROVE  Sound(f, NoItem, all)
  <1>1. NoItem.pc = "none" /\ NoItem.dh = 0 /\ NoItem.bh = 0 /\ NoItem.bq = 0
        /\ NoItem.fail = {} /\ NoItem.bnc = {} /\ NoItem.cb = "dummy"
    BY DEF NoItem, NewItem
  <1>2. Holders(NoItem) = 0
    BY <1>1 DEF Holders, Count, Idle
  <1>. QED
    BY <1>1, <1>2 DEF Sound

LEMMA NewItemSound ==
    ASSUME NEW pc \in Waiting, NEW n \in Nat, NEW all
    PROVE  Sound("queue", NewItem(pc, n), all)
  <1>. DEFINE h == NewItem(pc, n)
  <1>1. h.pc = pc /\ h.ref = 1 /\ h.dh = 0 /\ h.bh = 0 /\ h.bq = 0
        /\ h.fail = {} /\ h.bnc = {} /\ h.cb = "dummy"
    BY DEF NewItem
  <1>. HIDE DEF h
  <1>2. On(h)
    BY <1>1 DEF On, Waiting, Idle
  <1>3. Holders(h) = 1
    BY <1>1, <1>2 DEF Holders, Count, On
  <1>4. Fit(h, all)
    BY <1>1, <1>2 DEF Fit, Whole
  <1>. QED
    BY <1>1, <1>3, <1>4 DEF Sound, h

(* Dropping the reference of a callback that has just ended.               *)
LEMMA DropSound ==
    ASSUME NEW h \in HMail, NEW all, Fit(h, all), h.ref = Holders(h) + 1
    PROVE  /\ Sound(IF LastRef(h) THEN Unlink("queue") ELSE "queue", Discarded(h), all)
           /\ ~(LastRef(h) /\ Throws(h))
           /\ Pend(Discarded(h), all) = Pend(h, all)
  <1>. DEFINE g == Discarded(h)
  <1>1. /\ g.pc = h.pc /\ g.dh = h.dh /\ g.bh = h.bh /\ g.bq = h.bq
        /\ g.fail = h.fail /\ g.bnc = h.bnc /\ g.ref = h.ref - 1
        /\ g.cb = IF LastRef(h) /\ h.cb = "slot" THEN "spent" ELSE h.cb
    BY DEF Discarded, NextCb, HMail
  <1>2. Holders(g) = Holders(h) /\ Holders(h) \in Nat
    BY <1>1, HoldersNat DEF Holders
  <1>3. Pend(g, all) = Pend(h, all)
    BY <1>1 DEF Pend, Whole, On
  <1>4. CASE LastRef(h)
    <2>1. Holders(h) = 0
      BY <1>2, <1>4 DEF LastRef
    <2>2. ~On(h)
      BY <2>1, HoldersNat
    <2>3. ~Throws(h)
      BY <2>2 DEF Throws, Fit, On, Idle
    <2>4. g.cb # "slot"
      BY <1>1, <1>4
    <2>. QED
      BY <1>2, <1>3, <1>4, <2>1, <2>3, <2>4 DEF Sound, Unlink
  <1>5. CASE ~LastRef(h)
    <2>1. h.ref # 1 /\ h.ref = Holders(h) + 1
      BY <1>5 DEF LastRef
    <2>2. Holders(h) > 0 /\ g.ref = Holders(g)
      BY <1>1, <1>2, <2>1
    <2>3. g.cb = h.cb
      BY <1>1, <1>5
    <2>4. Fit(g, all)
      BY <1>1, <2>3 DEF Fit, Whole, On
    <2>. QED
      BY <1>2, <1>3, <1>5, <2>2, <2>4 DEF Sound
  <1>. QED
    BY <1>4, <1>5

(* The updates of an item, one by one: what becomes of Fit and Holders.    *)
LEMMA MoveFit ==
    ASSUME NEW g \in HMail, NEW h \in HMail, NEW all, Fit(g, all), On(g), On(h),
           h.dh = g.dh, h.bh = g.bh, h.bq = g.bq, h.fail = g.fail, h.bnc = g.bnc,
           h.cb = "spent" => h.pc \in {"timer", "queued"}
    PROVE  /\ Fit(h, all) /\ Holders(h) = Holders(g)
           /\ Pend(h, all) = Pend(g, all)
  BY DEF Fit, Holders, On, Whole, Pend, Count

LEMMA FailFit ==
    ASSUME NEW g \in HMail, NEW all, Fit(g, all), g.pc \in Busy,
           NEW h \in {TempFailed(g), Bounced(g)}
    PROVE  /\ h \in HMail /\ h.ref = g.ref
           /\ Fit(h, all) /\ Holders(h) = Holders(g)
           /\ Pend(h, all) = Pend(g, all)
  <1>1. h \in HMail
    BY TempFailedType, BouncedType
  <1>2. /\ h.ref = g.ref /\ h.dh = g.dh /\ h.fail = g.fail /\ h.bnc = g.bnc
        /\ h.bq = g.bq
        /\ \/ h.bh = g.bh /\ h.pc = "deferHook"
           \/ h.bh = g.bh + 1 /\ h.pc = "none"
    BY TempFailedFields, BouncedFields
  <1>3. h.cb = g.cb
    BY DEF TempFailed, Bounced, HMail
  <1>4. On(g) /\ g.cb # "spent"
    BY DEF On, Busy, Idle, Fit
  <1>5. g.dh \in Nat /\ g.bh = 0 /\ g.bq = 0 /\ g.fail = {} /\ g.bnc = {}
    BY <1>4 DEF HMail, Fit, Whole
  <1>6. Whole(g) /\ Whole(h)
    BY <1>2, <1>4, <1>5 DEF Whole, On, Idle
  <1>7. Fit(h, all)
    BY <1>2, <1>3, <1>4, <1>5 DEF Fit, On, Idle
  <1>8. Holders(h) = Holders(g)
    BY <1>2, <1>4, <1>5 DEF Holders, Count, On, Idle
  <1>. QED
    BY <1>1, <1>2, <1>6, <1>7, <1>8 DEF Pend

(* A callback ends.                                                        *)
LEMMA EndFit ==
    ASSUME NEW g \in HMail, NEW all, Fit(g, all), NEW h,
           \/ On(g) /\ g.cb # "spent" /\ h = [g EXCEPT !.pc = "none"]
           \/ g.dh > 0 /\ h = [g EXCEPT !.dh = @ - 1]
           \/ g.bh > 0 /\ h = [g EXCEPT !.bh = @ - 1]
           \/ g.bq > 0 /\ h = [g EXCEPT !.bq = @ - 1]
           \/ g.fail # {} /\ h = [g EXCEPT !.fail = {}]
           \/ g.bnc # {} /\ h = [g EXCEPT !.bnc = {}]
    PROVE  /\ h \in HMail /\ h.ref = g.ref /\ h.cb = g.cb
           /\ Fit(h, all) /\ Holders(g) = Holders(h) + 1
           /\ Pend(h, all) \subseteq Pend(g, all)
  <1>1. g.dh \in Nat /\ g.bh \in Nat /\ g.bq \in Nat /\ g.bh + g.bq <= 1
    BY DEF HMail, Fit
  <1>2. CASE On(g) /\ g.cb # "spent" /\ h = [g EXCEPT !.pc = "none"]
    <2>1. /\ h \in HMail /\ h.ref = g.ref /\ h.cb = g.cb /\ h.pc = "none" /\ h.dh = g.dh
          /\ h.bh = g.bh /\ h.bq = g.bq /\ h.fail = g.fail /\ h.bnc = g.bnc
      BY <1>2 DEF HMail, Idle
    <2>2. g.bh = 0 /\ g.bq = 0 /\ g.fail = {} /\ g.bnc = {}
      BY <1>2 DEF Fit, Whole
    <2>3. Holders(g) = Holders(h) + 1
      BY <1>1, <1>2, <2>1, <2>2 DEF Holders, Count, On, Idle
    <2>4. Fit(h, all) /\ Pend(h, all) \subseteq Pend(g, all)
      BY <1>1, <1>2, <2>1, <2>2 DEF Fit, Pend, Whole, On, Idle
    <2>. QED
      BY <2>1, <2>3, <2>4
  <1>3. CASE g.dh > 0 /\ h = [g EXCEPT !.dh = @ - 1]
    <2>1. /\ h \in HMail /\ h.ref = g.ref /\ h.cb = g.cb /\ h.pc = g.pc /\ h.dh = g.dh - 1
          /\ h.bh = g.bh /\ h.bq = g.bq /\ h.fail = g.fail /\ h.bnc = g.bnc
      BY <1>1, <1>3 DEF HMail
    <2>3. Holders(g) = Holders(h) + 1
      BY <1>1, <1>3, <2>1 DEF Holders, Count
    <2>4. Fit(h, all) /\ Pend(h, all) \subseteq Pend(g, all)
      BY <2>1 DEF Fit, Pend, Whole, On
    <2>. QED
      BY <2>1, <2>3, <2>4
  <1>4. CASE g.bh > 0 /\ h = [g EXCEPT !.bh = @ - 1]
    <2>1. /\ h \in HMail /\ h.ref = g.ref /\ h.cb = g.cb /\ h.pc = g.pc /\ h.dh = g.dh
          /\ h.bh = g.bh - 1 /\ h.bq = g.bq /\ h.fail = g.fail /\ h.bnc = g.bnc
      BY <1>1, <1>4 DEF HMail
    <2>2. g.bh = 1 /\ g.bq = 0 /\ ~On(g) /\ Whole(g) /\ g.fail = {} /\ g.bnc = {}
      BY <1>1, <1>4 DEF Fit, Whole
    <2>3. Holders(g) = Holders(h) + 1
      BY <1>1, <1>4, <2>1 DEF Holders, Count
    <2>4. Fit(h, all) /\ Pend(h, all) \subseteq Pend(g, all)
      BY <2>1, <2>2 DEF Fit, Pend, Whole, On
    <2>. QED
      BY <2>1, <2>3, <2>4
  <1>5. CASE g.bq > 0 /\ h = [g EXCEPT !.bq = @ - 1]
    <2>1. /\ h \in HMail /\ h.ref = g.ref /\ h.cb = g.cb /\ h.pc = g.pc /\ h.dh = g.dh
          /\ h.bh = g.bh /\ h.bq = g.bq - 1 /\ h.fail = g.fail /\ h.bnc = g.bnc
      BY <1>1, <1>5 DEF HMail
    <2>2. g.bq = 1 /\ g.bh = 0 /\ ~On(g) /\ Whole(g) /\ g.fail = {} /\ g.bnc = {}
      BY <1>1, <1>5 DEF Fit, Whole
    <2>3. Holders(g) = Holders(h) + 1
      BY <1>1, <1>5, <2>1 DEF Holders, Count
    <2>4. Fit(h, all) /\ Pend(h, all) \subseteq Pend(g, all)
      BY <2>1, <2>2 DEF Fit, Pend, Whole, On
    <2>. QED
      BY <2>1, <2>3, <2>4
  <1>6. CASE g.fail # {} /\ h = [g EXCEPT !.fail = {}]
    <2>1. /\ h \in HMail /\ h.ref = g.ref /\ h.cb = g.cb /\ h.pc = g.pc /\ h.dh = g.dh
          /\ h.bh = g.bh /\ h.bq = g.bq /\ h.fail = {} /\ h.bnc = g.bnc
      BY <1>1, <1>6 DEF HMail
    <2>3. Holders(g) = Holders(h) + 1
      BY <1>1, <1>6, <2>1 DEF Holders, Count
    <2>4. Fit(h, all) /\ Pend(h, all) \subseteq Pend(g, all)
      BY <1>6, <2>1 DEF Fit, Pend, Whole, On
    <2>. QED
      BY <2>1, <2>3, <2>4
  <1>7. CASE g.bnc # {} /\ h = [g EXCEPT !.bnc = {}]
    <2>1. /\ h \in HMail /\ h.ref = g.ref /\ h.cb = g.cb /\ h.pc = g.pc /\ h.dh = g.dh
          /\ h.bh = g.bh /\ h.bq = g.bq /\ h.fail = g.fail /\ h.bnc = {}
      BY <1>1, <1>7 DEF HMail
    <2>3. Holders(g) = Holders(h) + 1
      BY <1>1, <1>7, <2>1 DEF Holders, Count
    <2>4. Fit(h, all) /\ Pend(h, all) \subseteq Pend(g, all)
      BY <1>7, <2>1 DEF Fit, Pend, Whole, On
    <2>. QED
      BY <2>1, <2>3, <2>4
  <1>. QED
    BY <1>2, <1>3, <1>4, <1>5, <1>6, <1>7

----------------------------------------------------------------------------
(* The invariant of the whole queue, and a step of one item.               *)

ItemsSound ==
    /\ ~fatal
    /\ up => \A i \in Items : Sound(file[i], hm[i], rcpts[i])
    /\ ~up => \A i \in Items : file[i] # "unlinking"
    /\ \A i \in Items : i >= nextId => file[i] = "free"

Pending(i) == Pend(hm[i], rcpts[i])

(* Nobody gets a recipient to dispose of that he did not have.             *)
NoneGained == \A i \in Items : Pending(i)' \subseteq Pending(i)

LEMMA ItemInUse ==
    ASSUME TypeOK, ItemsSound, Alive, NEW i \in Items, Holders(hm[i]) > 0
    PROVE  /\ file[i] = "queue" /\ hm[i] \in HMail
           /\ hm[i].ref = Holders(hm[i]) /\ Fit(hm[i], rcpts[i])
  BY DEF TypeOK, ItemsSound, Alive, Sound

LEMMA OneItem ==
    ASSUME TypeOK, ItemsSound, Alive, NEW i \in Items, file[i] # "free", NEW h, NEW f,
           hm' = [hm EXCEPT ![i] = h], file' = [file EXCEPT ![i] = f],
           Sound(f, h, rcpts[i]), ~fatal', UNCHANGED <<rcpts, nextId, up>>
    PROVE  /\ ItemsSound'
           /\ Pending(i)' = Pend(h, rcpts[i])
           /\ \A j \in Items : j # i => Pending(j)' = Pending(j)
  <1>1. /\ hm'[i] = h /\ file'[i] = f /\ rcpts' = rcpts /\ nextId' = nextId /\ up'
        /\ \A j \in Items : j # i => hm'[j] = hm[j] /\ file'[j] = file[j]
    BY DEF TypeOK, Alive
  <1>2. \A j \in Items : j >= nextId => j # i
    BY DEF ItemsSound
  <1>. QED
    BY <1>1, <1>2 DEF ItemsSound, Pending, Alive

LEMMA BecomesSound ==
    ASSUME TypeOK, ItemsSound, Alive, NEW i \in Items, Holders(hm[i]) > 0, NEW h,
           Becomes(i, h), Fit(h, rcpts[i]), h.ref = Holders(h), Holders(h) > 0,
           UNCHANGED <<rcpts, nextId, up>>
    PROVE  /\ ItemsSound'
           /\ Pending(i)' = Pend(h, rcpts[i])
           /\ \A j \in Items : j # i => Pending(j)' = Pending(j)
  <1>1. file[i] = "queue"
    BY ItemInUse
  <1>2. file' = [file EXCEPT ![i] = "queue"] /\ hm' = [hm EXCEPT ![i] = h] /\ ~fatal'
    BY <1>1 DEF Becomes, TypeOK, Alive
  <1>3. Sound("queue", h, rcpts[i])
    BY DEF Sound
  <1>. QED
    BY <1>1, <1>2, <1>3, OneItem

LEMMA DiscardSound ==
    ASSUME TypeOK, ItemsSound, Alive, NEW i \in Items, Holders(hm[i]) > 0, NEW h \in HMail,
           Discard(i, h), Fit(h, rcpts[i]), h.ref = Holders(h) + 1,
           UNCHANGED <<rcpts, nextId, up>>
    PROVE  /\ ItemsSound'
           /\ Pending(i)' = Pend(h, rcpts[i])
           /\ \A j \in Items : j # i => Pending(j)' = Pending(j)
  <1>. DEFINE f == IF LastRef(h) THEN Unlink("queue") ELSE "queue"
              g == Discarded(h)
  <1>1. file[i] = "queue"
    BY ItemInUse
  <1>2. Sound(f, g, rcpts[i]) /\ ~(LastRef(h) /\ Throws(h)) /\ Pend(g, rcpts[i]) = Pend(h, rcpts[i])
    BY DropSound
  <1>3. file' = [file EXCEPT ![i] = f] /\ hm' = [hm EXCEPT ![i] = g] /\ ~fatal'
    BY <1>1, <1>2 DEF Discard, TypeOK
  <1>. HIDE DEF f, g
  <1>. QED
    BY <1>1, <1>2, <1>3, OneItem

(* What a step may do to the recipients: move them, deliver to some, name  *)
(* some in a bounce, or hand some over to a new item.                      *)
Recipients == <<deliveries, notified, todo, crashes, up>>

Delivers(i, S) ==
    /\ S \subseteq Pending(i) /\ Pending(i)' \cap S = {} /\ NoneGained
    /\ deliveries' = [r \in Rcpts |-> IF r \in S THEN deliveries[r] + 1 ELSE deliveries[r]]
    /\ UNCHANGED <<notified, todo, crashes, up>>

Notifies(i) ==
    /\ notified' = notified \cup Pending(i) /\ Pending(i)' = {} /\ NoneGained
    /\ UNCHANGED <<deliveries, todo, crashes, up>>

HandsOver(i, k, S) ==
    /\ i # k
    /\ S \subseteq Pending(i) /\ Pending(i)' \subseteq Pending(i) \ S
    /\ Pending(k)' = S
    /\ \A j \in Items : j \notin {i, k} => Pending(j)' = Pending(j)
    /\ UNCHANGED Recipients

Accepts(d, k) ==
    /\ d \in todo /\ todo' = todo \ {d}
    /\ Pending(k)' = Group(d)
    /\ \A j \in Items : j # k => Pending(j)' = Pending(j)
    /\ UNCHANGED <<deliveries, notified, crashes, up>>

Quiet == NoneGained /\ todo' \subseteq todo /\ UNCHANGED <<deliveries, notified, crashes, up>>

Effect ==
    \/ Quiet
    \/ \E i \in Items : (\E S \in SUBSET Rcpts : Delivers(i, S)) \/ Notifies(i)
    \/ \E i, k \in Items : \E S \in SUBSET Rcpts : HandsOver(i, k, S)
    \/ \E d \in Domains, k \in Items : Accepts(d, k)
    \/ crashes' # 0

LEMMA KeepsRecipients ==
    ASSUME NEW i \in Items, Pending(i)' \subseteq Pending(i),
           \A j \in Items : j # i => Pending(j)' = Pending(j)
    PROVE  NoneGained
  BY DEF NoneGained

(* A worker, a hook or a timer moves the item on along its main line.      *)
LEMMA MoveSound ==
    ASSUME TypeOK, ItemsSound, Alive, NEW i \in Items, On(hm[i]), NEW h \in HMail,
           h.ref = hm[i].ref, h.dh = hm[i].dh, h.bh = hm[i].bh, h.bq = hm[i].bq,
           h.fail = hm[i].fail, h.bnc = hm[i].bnc, On(h),
           h.cb = "spent" => h.pc \in {"timer", "queued"},
           Becomes(i, h), UNCHANGED <<rcpts, nextId, up, deliveries, notified, crashes, todo>>
    PROVE  ItemsSound' /\ Effect
  <1>1. Holders(hm[i]) > 0 /\ hm[i] \in HMail
    BY HoldersNat DEF TypeOK
  <1>2. hm[i].ref = Holders(hm[i]) /\ Fit(hm[i], rcpts[i])
    BY <1>1, ItemInUse
  <1>3. Fit(h, rcpts[i]) /\ Holders(h) = Holders(hm[i]) /\ Pend(h, rcpts[i]) = Pending(i)
    BY <1>1, <1>2, MoveFit DEF Pending
  <1>4. /\ ItemsSound' /\ Pending(i)' = Pending(i)
        /\ \A j \in Items : j # i => Pending(j)' = Pending(j)
    BY <1>1, <1>2, <1>3, BecomesSound
  <1>5. NoneGained
    BY <1>4, KeepsRecipients
  <1>. QED
    BY <1>4, <1>5 DEF Effect, Quiet

(* The item fails or bounces as a whole.                                   *)
LEMMA FailSound ==
    ASSUME TypeOK, ItemsSound, Alive, NEW i \in Items, hm[i].pc \in Busy,
           NEW h \in {TempFailed(hm[i]), Bounced(hm[i])},
           Becomes(i, h), UNCHANGED <<rcpts, nextId, up, deliveries, notified, crashes, todo>>
    PROVE  ItemsSound' /\ Effect
  <1>1. Holders(hm[i]) > 0 /\ hm[i] \in HMail
    BY HoldersNat DEF TypeOK, On, Busy, Idle
  <1>2. hm[i].ref = Holders(hm[i]) /\ Fit(hm[i], rcpts[i])
    BY <1>1, ItemInUse
  <1>3. /\ h.ref = hm[i].ref /\ Fit(h, rcpts[i]) /\ Holders(h) = Holders(hm[i])
        /\ Pend(h, rcpts[i]) = Pending(i)
    BY <1>1, <1>2, FailFit DEF Pending
  <1>4. /\ ItemsSound' /\ Pending(i)' = Pending(i)
        /\ \A j \in Items : j # i => Pending(j)' = Pending(j)
    BY <1>1, <1>2, <1>3, BecomesSound
  <1>5. NoneGained
    BY <1>4, KeepsRecipients
  <1>. QED
    BY <1>4, <1>5 DEF Effect, Quiet

(* A callback ends and drops its reference.                                *)
LEMMA EndSound ==
    ASSUME TypeOK, ItemsSound, Alive, NEW i \in Items, NEW h,
           \/ On(hm[i]) /\ hm[i].pc \notin {"timer", "queued"} /\ h = [hm[i] EXCEPT !.pc = "none"]
           \/ hm[i].dh > 0 /\ h = [hm[i] EXCEPT !.dh = @ - 1]
           \/ hm[i].bh > 0 /\ h = [hm[i] EXCEPT !.bh = @ - 1]
           \/ hm[i].bq > 0 /\ h = [hm[i] EXCEPT !.bq = @ - 1],
           Discard(i, h), UNCHANGED <<rcpts, nextId, up>>
    PROVE  /\ ItemsSound' /\ NoneGained
           /\ Pending(i)' = Pend(h, rcpts[i])
           /\ Fit(hm[i], rcpts[i])
  <1>1. Holders(hm[i]) > 0 /\ hm[i] \in HMail
    BY HoldersNat DEF TypeOK
  <1>2. hm[i].ref = Holders(hm[i]) /\ Fit(hm[i], rcpts[i])
    BY <1>1, ItemInUse
  <1>3. /\ h \in HMail /\ h.ref = hm[i].ref
        /\ Fit(h, rcpts[i]) /\ Holders(hm[i]) = Holders(h) + 1
        /\ Pend(h, rcpts[i]) \subseteq Pending(i)
    <2>1. On(hm[i]) /\ hm[i].pc \notin {"timer", "queued"} => hm[i].cb # "spent"
      BY <1>2 DEF Fit
    <2>. QED
      BY <1>1, <1>2, <2>1, EndFit DEF Pending
  <1>4. /\ ItemsSound' /\ Pending(i)' = Pend(h, rcpts[i])
        /\ \A j \in Items : j # i => Pending(j)' = Pending(j)
    BY <1>1, <1>2, <1>3, DiscardSound
  <1>5. NoneGained
    BY <1>3, <1>4, KeepsRecipients
  <1>. QED
    BY <1>2, <1>4, <1>5

----------------------------------------------------------------------------
(* The end of a session, and the splits it leaves.                         *)

LEMMA HoldersOf ==
    ASSUME NEW h \in HMail
    PROVE  /\ ~On(h) /\ h.fail = {} /\ h.bnc = {} => Holders(h) = h.dh + h.bh + h.bq
           /\ On(h) /\ h.fail = {} /\ h.bnc = {} => Holders(h) = h.dh + h.bh + h.bq + 1
           /\ ~On(h) /\ h.fail # {} /\ h.bnc = {} => Holders(h) = h.dh + h.bh + h.bq + 1
           /\ ~On(h) /\ h.fail = {} /\ h.bnc # {} => Holders(h) = h.dh + h.bh + h.bq + 1
           /\ ~On(h) /\ h.fail # {} /\ h.bnc # {} => Holders(h) = h.dh + h.bh + h.bq + 2
  <1>1. h.dh \in Nat /\ h.bh \in Nat /\ h.bq \in Nat
    BY DEF HMail
  <1>. DEFINE a == Count(h.pc \notin Idle)
              b == Count(h.fail # {})
              c == Count(h.bnc # {})
  <1>2. /\ On(h) => a = 1
        /\ ~On(h) => a = 0
        /\ h.fail = {} => b = 0
        /\ h.fail # {} => b = 1
        /\ h.bnc = {} => c = 0
        /\ h.bnc # {} => c = 1
    BY DEF Count, On
  <1>3. Holders(h) = a + h.dh + h.bh + h.bq + b + c
    BY DEF Holders
  <1>. HIDE DEF a, b, c
  <1>4. /\ a = 0 /\ b = 0 /\ c = 0 => Holders(h) = h.dh + h.bh + h.bq
        /\ a = 1 /\ b = 0 /\ c = 0 => Holders(h) = h.dh + h.bh + h.bq + 1
        /\ a = 0 /\ b = 1 /\ c = 0 => Holders(h) = h.dh + h.bh + h.bq + 1
        /\ a = 0 /\ b = 0 /\ c = 1 => Holders(h) = h.dh + h.bh + h.bq + 1
        /\ a = 0 /\ b = 1 /\ c = 1 => Holders(h) = h.dh + h.bh + h.bq + 2
    BY <1>1, <1>3
  <1>. QED
    BY <1>2, <1>4, Zenon

LEMMA HeldFields ==
    ASSUME NEW h \in HMail, NEW g, g = [h EXCEPT !.ref = @ + 1]
    PROVE  /\ g \in HMail /\ g.ref = h.ref + 1 /\ g.pc = h.pc /\ g.dh = h.dh /\ g.bh = h.bh
           /\ g.bq = h.bq /\ g.fail = h.fail /\ g.bnc = h.bnc /\ g.cb = h.cb
  <1>. DEFINE n == h.ref + 1
  <1>1. n \in Int
    BY DEF HMail
  <1>2. g = [h EXCEPT !.ref = n]
    BY DEF HMail
  <1>3. g.ref = n
    BY <1>2 DEF HMail
  <1>. HIDE DEF n
  <1>4. /\ g \in HMail /\ g.pc = h.pc /\ g.dh = h.dh /\ g.bh = h.bh
        /\ g.bq = h.bq /\ g.fail = h.fail /\ g.bnc = h.bnc /\ g.cb = h.cb
    BY <1>1, <1>2 DEF HMail
  <1>. QED
    BY <1>3, <1>4 DEF n

LEMMA SetFail ==
    ASSUME NEW h \in HMail, NEW some \in SUBSET Rcpts, NEW p, p = [h EXCEPT !.fail = some]
    PROVE  /\ p \in HMail /\ p.ref = h.ref /\ p.pc = h.pc /\ p.dh = h.dh /\ p.bh = h.bh
           /\ p.bq = h.bq /\ p.fail = some /\ p.bnc = h.bnc /\ p.cb = h.cb
  BY DEF HMail

LEMMA SetBnc ==
    ASSUME NEW h \in HMail, NEW some \in SUBSET Rcpts, NEW p, p = [h EXCEPT !.bnc = some]
    PROVE  /\ p \in HMail /\ p.ref = h.ref /\ p.pc = h.pc /\ p.dh = h.dh /\ p.bh = h.bh
           /\ p.bq = h.bq /\ p.fail = h.fail /\ p.bnc = some /\ p.cb = h.cb
  BY DEF HMail

(* What finish_processing_mail makes of an item: the reference of the      *)
(* session is still there, and those not delivered to are disposed of.     *)
LEMMA FinishFit ==
    ASSUME NEW g \in HMail, NEW all \in SUBSET Rcpts, Fit(g, all), g.pc = "session",
           g.ref = Holders(g), NEW W4 \in SUBSET all, NEW W5 \in SUBSET all, W4 \cap W5 = {},
           NEW e, e = [g EXCEPT !.pc = "none"],
           NEW f, f = HandFailed(e, W4, all), NEW s, s = HandBounced(f, W5, all)
    PROVE  /\ s \in HMail /\ Fit(s, all) /\ s.ref = Holders(s) + 1
           /\ Pend(s, all) \subseteq W4 \cup W5
  <1>1. On(g) /\ g.dh \in Nat /\ g.bh = 0 /\ g.bq = 0 /\ g.fail = {} /\ g.bnc = {}
        /\ g.cb # "spent"
    BY DEF Fit, HMail, Whole, On, Idle
  <1>2. Holders(g) = g.dh + 1
    BY <1>1, HoldersOf
  <1>3. /\ e \in HMail /\ e.pc = "none" /\ e.ref = g.ref /\ e.dh = g.dh /\ e.bh = 0
        /\ e.bq = 0 /\ e.fail = {} /\ e.bnc = {} /\ e.cb = g.cb /\ e.cb # "spent"
    BY <1>1 DEF HMail, Idle
  <1>4. e.ref = e.dh + 1 /\ e.dh \in Nat
    BY <1>1, <1>2, <1>3
  <1>. DEFINE held == [e EXCEPT !.ref = @ + 1]
  <1>h. held \in HMail /\ held.ref = e.ref + 1 /\ held.pc = e.pc /\ held.dh = e.dh
        /\ held.bh = e.bh /\ held.bq = e.bq /\ held.fail = e.fail /\ held.bnc = e.bnc
        /\ held.cb = e.cb
    BY <1>3, HeldFields
  <1>w. W4 \in SUBSET Rcpts /\ W5 \in SUBSET Rcpts
    OBVIOUS
  <1>5. CASE W4 = {} /\ W5 = {}
    <2>1. s = e
      BY <1>5 DEF HandFailed, HandBounced
    <2>2. ~On(e) /\ ~Whole(e)
      BY <1>3 DEF Whole, On, Idle
    <2>5. Holders(e) = e.dh + e.bh + e.bq
      BY <1>3, <2>2, HoldersOf
    <2>3. e.ref = Holders(e) + 1
      BY <1>3, <1>4, <2>5
    <2>4. Fit(e, all) /\ Pend(e, all) = {}
      BY <1>3, <2>2 DEF Fit, Pend
    <2>. QED
      BY <1>3, <2>1, <2>3, <2>4
  <1>6. CASE W4 = {} /\ W5 = all /\ W5 # {}
    <2>1. s = Bounced(held)
      BY <1>6 DEF HandFailed, HandBounced
    <2>2. held \in HMail
      BY <1>h
    <2>. HIDE DEF held
    <2>3. s \in HMail /\ s.cb = held.cb
      <3>1. s \in HMail
        BY <2>1, <2>2, BouncedType
      <3>2. s.cb = held.cb
        BY <2>1, <2>2 DEF Bounced, HMail
      <3>. QED
        BY <3>1, <3>2
    <2>4. /\ s.ref = held.ref /\ s.dh = held.dh /\ s.bh = held.bh + 1 /\ s.bq = held.bq
          /\ s.pc = "none" /\ s.fail = held.fail /\ s.bnc = held.bnc
      BY <1>3, <1>h, <2>1, BouncedFields DEF Busy
    <2>5. s.bh = 1 /\ s.bq = 0 /\ s.fail = {} /\ s.bnc = {} /\ ~On(s) /\ s.cb # "spent"
      BY <1>3, <1>h, <2>3, <2>4 DEF On, Idle
    <2>6. s.ref = s.dh + 2
      BY <1>4, <1>h, <2>4
    <2>7. Holders(s) = s.dh + s.bh + s.bq
      BY <2>3, <2>5, HoldersOf
    <2>8. s.ref = Holders(s) + 1
      BY <1>4, <1>h, <2>4, <2>5, <2>6, <2>7
    <2>9. Whole(s)
      BY <2>5 DEF Whole
    <2>10. Fit(s, all) /\ Pend(s, all) = all
      BY <2>5, <2>9 DEF Fit, Pend
    <2>. QED
      BY <1>6, <2>3, <2>8, <2>10
  <1>7. CASE W4 = {} /\ W5 # all /\ W5 # {}
    <2>1. s = [held EXCEPT !.bnc = W5]
      BY <1>7 DEF HandFailed, HandBounced
    <2>3. s \in HMail /\ s.ref = held.ref /\ s.pc = e.pc /\ s.dh = e.dh
          /\ s.bh = e.bh /\ s.bq = e.bq /\ s.fail = e.fail /\ s.bnc = W5 /\ s.cb = e.cb
      <3>. HIDE DEF held
      <3>. QED
        BY <1>h, <1>w, <2>1, SetBnc
    <2>4. ~On(s) /\ ~Whole(s)
      BY <1>3, <1>h, <2>3 DEF Whole, On, Idle
    <2>5. Holders(s) = s.dh + s.bh + s.bq + 1
      BY <1>3, <1>7, <1>h, <2>3, <2>4, HoldersOf
    <2>6. s.ref = Holders(s) + 1
      BY <1>3, <1>4, <1>h, <2>3, <2>5
    <2>7. Fit(s, all) /\ Pend(s, all) = W5
      BY <1>3, <1>h, <2>3, <2>4 DEF Fit, Pend
    <2>. QED
      BY <2>3, <2>6, <2>7
  <1>8. CASE W4 = all /\ W4 # {}
    <2>1. W5 = {} /\ s = TempFailed(held)
      BY <1>8 DEF HandFailed, HandBounced
    <2>2. held \in HMail
      BY <1>h
    <2>. HIDE DEF held
    <2>3. s \in HMail /\ s.cb = held.cb
      <3>1. s \in HMail
        BY <2>1, <2>2, TempFailedType
      <3>2. s.cb = held.cb
        BY <2>1, <2>2 DEF TempFailed, Bounced, HMail
      <3>. QED
        BY <3>1, <3>2
    <2>4. /\ s.ref = held.ref /\ s.dh = held.dh /\ s.bq = held.bq
          /\ s.fail = held.fail /\ s.bnc = held.bnc
          /\ \/ s.bh = held.bh /\ s.pc = "deferHook"
             \/ s.bh = held.bh + 1 /\ s.pc = "none"
      BY <1>3, <1>h, <2>1, TempFailedFields DEF Busy
    <2>5. /\ s.bq = 0 /\ s.fail = {} /\ s.bnc = {} /\ s.cb # "spent"
          /\ \/ s.bh = 0 /\ On(s)
             \/ s.bh = 1 /\ ~On(s)
      BY <1>3, <1>h, <2>3, <2>4 DEF On, Idle
    <2>6. s.ref = s.dh + 2 /\ s.dh \in Nat
      BY <1>4, <1>h, <2>4
    <2>7. /\ ~On(s) => Holders(s) = s.dh + s.bh + s.bq
          /\ On(s) => Holders(s) = s.dh + s.bh + s.bq + 1
      BY <2>3, <2>5, HoldersOf
    <2>8. s.ref = Holders(s) + 1
      <3>1. CASE On(s)
        BY <2>5, <2>6, <2>7, <3>1
      <3>2. CASE ~On(s)
        BY <2>5, <2>6, <2>7, <3>2
      <3>. QED
        BY <3>1, <3>2
    <2>9. Whole(s)
      BY <2>5 DEF Whole
    <2>10. Fit(s, all) /\ Pend(s, all) = all
      BY <2>5, <2>9 DEF Fit, Pend
    <2>. QED
      BY <1>8, <2>3, <2>8, <2>10
  <1>9. CASE W4 # all /\ W4 # {} /\ W5 = {}
    <2>1. s = [held EXCEPT !.fail = W4]
      BY <1>9 DEF HandFailed, HandBounced
    <2>3. s \in HMail /\ s.ref = held.ref /\ s.pc = e.pc /\ s.dh = e.dh
          /\ s.bh = e.bh /\ s.bq = e.bq /\ s.fail = W4 /\ s.bnc = e.bnc /\ s.cb = e.cb
      <3>. HIDE DEF held
      <3>. QED
        BY <1>h, <1>w, <2>1, SetFail
    <2>4. ~On(s) /\ ~Whole(s)
      BY <1>3, <1>h, <2>3 DEF Whole, On, Idle
    <2>5. Holders(s) = s.dh + s.bh + s.bq + 1
      BY <1>3, <1>9, <1>h, <2>3, <2>4, HoldersOf
    <2>6. s.ref = Holders(s) + 1
      BY <1>3, <1>4, <1>h, <2>3, <2>5
    <2>7. Fit(s, all) /\ Pend(s, all) = W4
      BY <1>3, <1>h, <2>3, <2>4 DEF Fit, Pend
    <2>. QED
      BY <2>3, <2>6, <2>7
  <1>10. CASE W4 # all /\ W4 # {} /\ W5 # {}
    <2>1. W5 # all
      BY <1>10
    <2>2. f = [held EXCEPT !.fail = W4] /\ s = [[f EXCEPT !.ref = @ + 1] EXCEPT !.bnc = W5]
      BY <1>10, <2>1 DEF HandFailed, HandBounced
    <2>4. f \in HMail /\ f.ref = held.ref /\ f.pc = e.pc /\ f.dh = e.dh
          /\ f.bh = e.bh /\ f.bq = e.bq /\ f.fail = W4 /\ f.bnc = e.bnc /\ f.cb = e.cb
      <3>. HIDE DEF held
      <3>. QED
        BY <1>h, <1>w, <2>2, SetFail
    <2>5. s \in HMail /\ s.ref = f.ref + 1 /\ s.pc = f.pc /\ s.dh = f.dh
          /\ s.bh = f.bh /\ s.bq = f.bq /\ s.fail = f.fail /\ s.bnc = W5 /\ s.cb = f.cb
      <3>. DEFINE x == [f EXCEPT !.ref = @ + 1]
      <3>1. /\ x \in HMail /\ x.ref = f.ref + 1 /\ x.pc = f.pc /\ x.dh = f.dh
            /\ x.bh = f.bh /\ x.bq = f.bq /\ x.fail = f.fail /\ x.bnc = f.bnc /\ x.cb = f.cb
        BY <2>4, HeldFields
      <3>2. s = [x EXCEPT !.bnc = W5]
        BY <2>2
      <3>. HIDE DEF x
      <3>. QED
        BY <1>w, <3>1, <3>2, SetBnc
    <2>6. ~On(s) /\ ~Whole(s)
      BY <1>3, <1>h, <2>4, <2>5 DEF Whole, On, Idle
    <2>7. Holders(s) = s.dh + s.bh + s.bq + 2
      BY <1>3, <1>10, <1>h, <2>4, <2>5, <2>6, HoldersOf
    <2>8. s.ref = Holders(s) + 1
      BY <1>3, <1>4, <1>h, <2>4, <2>5, <2>7
    <2>9. Fit(s, all) /\ Pend(s, all) = W4 \cup W5
      BY <1>3, <1>h, <2>4, <2>5, <2>6 DEF Fit, Pend
    <2>. QED
      BY <2>5, <2>8, <2>9
  <1>. QED
    BY <1>5, <1>6, <1>7, <1>8, <1>9, <1>10

LEMMA FinishSound ==
    ASSUME TypeOK, ItemsSound, NEW i \in Items, NEW reply, NEW success,
           finish_processing_mail(i, reply, success)
    PROVE  ItemsSound' /\ Effect
  <1>. DEFINE all == rcpts[i]
              W2 == {r \in all : reply[r] = "250"}
              W4 == {r \in all : reply[r] = "4xx"}
              W5 == {r \in all : reply[r] = "5xx"}
              e == [hm[i] EXCEPT !.pc = "none"]
              f == HandFailed(e, W4, all)
              s == HandBounced(f, W5, all)
              t == [s EXCEPT !.dh = @ + 1]
  <1>1. /\ Alive /\ hm[i].pc = "session" /\ UNCHANGED <<rcpts, nextId, up>>
        /\ IF success THEN Becomes(i, t) ELSE Discard(i, s)
        /\ deliveries' = [r \in Rcpts |-> IF r \in W2 THEN deliveries[r] + 1 ELSE deliveries[r]]
        /\ UNCHANGED <<notified, todo, crashes, up>>
    BY DEF finish_processing_mail
  <1>2. /\ all \in SUBSET Rcpts /\ W2 \in SUBSET all /\ W4 \in SUBSET all /\ W5 \in SUBSET all
        /\ W2 \cap W4 = {} /\ W2 \cap W5 = {} /\ W4 \cap W5 = {}
    BY DEF TypeOK
  <1>. HIDE DEF W2, W4, W5
  <1>3. On(hm[i]) /\ Holders(hm[i]) > 0 /\ hm[i] \in HMail
    BY <1>1, HoldersNat DEF TypeOK, On, Idle
  <1>4. hm[i].ref = Holders(hm[i]) /\ Fit(hm[i], all)
    BY <1>1, <1>3, ItemInUse
  <1>5. s \in HMail /\ Fit(s, all) /\ s.ref = Holders(s) + 1 /\ Pend(s, all) \subseteq W4 \cup W5
    <2>1. PICK g : g = hm[i]
      OBVIOUS
    <2>2. e = [g EXCEPT !.pc = "none"] /\ f = HandFailed(e, W4, all) /\ s = HandBounced(f, W5, all)
      BY <2>1
    <2>3. g \in HMail /\ g.pc = "session" /\ g.ref = Holders(g) /\ Fit(g, all)
      BY <1>1, <1>3, <1>4, <2>1
    <2>. HIDE DEF e, f, s, all
    <2>4. /\ all \in SUBSET Rcpts /\ W4 \in SUBSET all /\ W5 \in SUBSET all
          /\ W4 \cap W5 = {}
      BY <1>2
    <2>. QED
      BY ONLY <2>2, <2>3, <2>4, FinishFit
  <1>. HIDE DEF s
  <1>6. /\ t \in HMail /\ t.dh = s.dh + 1 /\ t.pc = s.pc /\ t.bh = s.bh /\ t.bq = s.bq
        /\ t.fail = s.fail /\ t.bnc = s.bnc /\ t.cb = s.cb /\ t.ref = s.ref
    BY <1>5, CountUpType DEF HMail
  <1>. HIDE DEF t
  <1>7. Fit(t, all) /\ Pend(t, all) = Pend(s, all)
    BY <1>5, <1>6 DEF Fit, Pend, Whole, On
  <1>8. Holders(t) = Holders(s) + 1 /\ Holders(s) \in Nat
    <2>1. s.dh \in Nat /\ s.bh \in Nat /\ s.bq \in Nat
      BY <1>5 DEF HMail
    <2>. QED
      BY <1>5, <1>6, <2>1, HoldersNat DEF Holders, Count
  <1>9. /\ ItemsSound' /\ Pending(i)' = Pend(s, all)
        /\ \A j \in Items : j # i => Pending(j)' = Pending(j)
    <2>1. CASE success
      <3>1. Becomes(i, t) /\ t.ref = Holders(t) /\ Holders(t) > 0
        BY <1>1, <1>5, <1>6, <1>8, <2>1
      <3>. QED
        BY <1>1, <1>3, <1>7, <3>1, BecomesSound
    <2>2. CASE ~success
      BY <1>1, <1>3, <1>5, <2>2, DiscardSound
    <2>. QED
      BY <2>1, <2>2
  <1>10. Pending(i) = all
    BY <1>3 DEF Pending, Pend, Whole
  <1>11. NoneGained
    BY <1>2, <1>5, <1>9, <1>10, KeepsRecipients
  <1>12. Delivers(i, W2)
    BY <1>1, <1>2, <1>5, <1>9, <1>10, <1>11 DEF Delivers
  <1>. QED
    BY <1>2, <1>9, <1>12 DEF Effect

(* The item that a split makes.                                            *)
LEMMA ChildSound ==
    ASSUME NEW child, \/ child = TempFailed(NewItem("none", 0))
                      \/ child = Bounced(NewItem("none", 0)),
           NEW group
    PROVE  Sound("queue", child, group) /\ Pend(child, group) = group
  <1>. DEFINE n == NewItem("none", 0)
  <1>1. /\ n \in HMail /\ n.pc = "none" /\ n.ref = 1 /\ n.dh = 0 /\ n.bh = 0 /\ n.bq = 0
        /\ n.fail = {} /\ n.bnc = {} /\ n.cb = "dummy"
    BY NewItemType DEF NewItem, Idle
  <1>. HIDE DEF n
  <1>2. /\ child.ref = 1 /\ child.dh = 0 /\ child.fail = {} /\ child.bnc = {} /\ child.bq = 0
        /\ \/ child.bh = 0 /\ child.pc = "deferHook"
           \/ child.bh = 1 /\ child.pc = "none"
    <2>1. child = TempFailed(n) \/ child = Bounced(n)
      BY DEF n
    <2>. QED
      BY <1>1, <2>1, TempFailedFields, BouncedFields DEF Busy
  <1>3. child.cb = "dummy"
    <2>1. child = TempFailed(n) \/ child = Bounced(n)
      BY DEF n
    <2>. QED
      BY <1>1, <2>1 DEF TempFailed, Bounced, HMail
  <1>4. Holders(child) = 1
    BY <1>2 DEF Holders, Count, Idle
  <1>5. Fit(child, group) /\ Whole(child)
    BY <1>2, <1>3 DEF Fit, Whole, On, Idle
  <1>. QED
    BY <1>2, <1>3, <1>4, <1>5 DEF Sound, Pend

LEMMA SplitSound ==
    ASSUME TypeOK, ItemsSound, Alive, NEW i \in Items, NEW group, NEW h, NEW child,
           \/ hm[i].fail # {} /\ group = hm[i].fail /\ h = [hm[i] EXCEPT !.fail = {}]
           \/ hm[i].bnc # {} /\ group = hm[i].bnc /\ h = [hm[i] EXCEPT !.bnc = {}],
           \/ child = TempFailed(NewItem("none", 0))
           \/ child = Bounced(NewItem("none", 0)),
           SplitTo(i, group, child, h)
    PROVE  ItemsSound' /\ Effect
  <1>. DEFINE f == IF LastRef(h) THEN Unlink("queue") ELSE "queue"
              g == Discarded(h)
  <1>0. PICK k \in Items : k = nextId
    BY DEF SplitTo, NewFile
  <1>1. /\ nextId' = k + 1 /\ rcpts' = [rcpts EXCEPT ![k] = group]
        /\ hm' = [hm EXCEPT ![i] = g, ![k] = child]
        /\ fatal' = (LastRef(h) /\ Throws(h))
        /\ UNCHANGED <<todo, up, history>>
    BY <1>0 DEF SplitTo, NewFile
  <1>2. Holders(hm[i]) > 0 /\ hm[i] \in HMail
    BY HoldersNat DEF TypeOK
  <1>3. file[i] = "queue" /\ hm[i].ref = Holders(hm[i]) /\ Fit(hm[i], rcpts[i])
    BY <1>2, ItemInUse
  <1>4. /\ h \in HMail /\ h.ref = Holders(h) + 1 /\ Fit(h, rcpts[i])
    BY <1>2, <1>3, EndFit
  <1>5. ~Whole(hm[i]) /\ group \in SUBSET Rcpts /\ group \subseteq Pending(i)
        /\ Pend(h, rcpts[i]) \subseteq Pending(i) \ group
    <2>1. ~Whole(hm[i])
      BY <1>3 DEF Fit
    <2>2. group \in SUBSET Rcpts
      BY <1>2 DEF HMail
    <2>3. /\ h.pc = hm[i].pc /\ h.bh = hm[i].bh /\ h.bq = hm[i].bq
          /\ \/ h.fail = {} /\ h.bnc = hm[i].bnc /\ group = hm[i].fail
             \/ h.bnc = {} /\ h.fail = hm[i].fail /\ group = hm[i].bnc
      BY <1>2 DEF HMail
    <2>4. ~Whole(h)
      BY <2>1, <2>3 DEF Whole, On
    <2>5. hm[i].fail \cap hm[i].bnc = {}
      BY <1>3 DEF Fit
    <2>. QED
      BY <2>1, <2>2, <2>3, <2>4, <2>5 DEF Pend, Pending
  <1>6. Sound(f, g, rcpts[i]) /\ ~(LastRef(h) /\ Throws(h)) /\ Pend(g, rcpts[i]) = Pend(h, rcpts[i])
    BY <1>4, DropSound
  <1>7. Sound("queue", child, group) /\ Pend(child, group) = group
    BY ChildSound
  <1>8. i # k /\ ~(i >= k)
    <2>1. ~(i >= k)
      BY <1>0, <1>3 DEF ItemsSound
    <2>2. k >= k
      BY <1>0 DEF Items
    <2>. QED
      BY <2>1, <2>2
  <1>9. file' = [file EXCEPT ![i] = f, ![k] = "queue"]
    BY <1>0, <1>3, <1>8 DEF SplitTo, TypeOK
  <1>. HIDE DEF f, g
  <1>10. /\ hm'[i] = g /\ hm'[k] = child /\ file'[i] = f /\ file'[k] = "queue"
         /\ rcpts'[k] = group /\ rcpts'[i] = rcpts[i]
         /\ \A j \in Items : j \notin {i, k} =>
                hm'[j] = hm[j] /\ file'[j] = file[j] /\ rcpts'[j] = rcpts[j]
    BY <1>1, <1>8, <1>9 DEF TypeOK
  <1>11. up' /\ ~fatal'
    BY <1>1, <1>6 DEF Alive
  <1>12. \A j \in Items : j >= nextId' => file'[j] = "free"
    <2>. SUFFICES ASSUME NEW j \in Items, j >= nextId'
                 PROVE  file'[j] = "free"
      OBVIOUS
    <2>1. j >= k /\ j # k
      BY <1>1 DEF Items
    <2>2. j # i
      BY <1>8, <2>1
    <2>. QED
      BY <1>0, <1>10, <2>1, <2>2 DEF ItemsSound
  <1>13. \A j \in Items : Sound(file'[j], hm'[j], rcpts'[j])
    BY <1>6, <1>7, <1>10 DEF ItemsSound, Alive
  <1>14. ItemsSound'
    BY <1>11, <1>12, <1>13 DEF ItemsSound
  <1>15. HandsOver(i, k, group)
    <2>1. Pending(i)' = Pend(h, rcpts[i]) /\ Pending(k)' = group
      BY <1>6, <1>7, <1>10 DEF Pending
    <2>2. \A j \in Items : j \notin {i, k} => Pending(j)' = Pending(j)
      BY <1>10 DEF Pending
    <2>. QED
      BY <1>1, <1>5, <1>8, <2>1, <2>2 DEF HandsOver, Recipients, history
  <1>. QED
    BY <1>5, <1>14, <1>15 DEF Effect

----------------------------------------------------------------------------
(* Every action keeps ItemsSound and has one of the effects.               *)

LEMMA EndQuiet ==
    ASSUME TypeOK, ItemsSound, Alive, NEW i \in Items, NEW h,
           \/ On(hm[i]) /\ hm[i].pc \notin {"timer", "queued"} /\ h = [hm[i] EXCEPT !.pc = "none"]
           \/ hm[i].dh > 0 /\ h = [hm[i] EXCEPT !.dh = @ - 1]
           \/ hm[i].bh > 0 /\ h = [hm[i] EXCEPT !.bh = @ - 1],
           Discard(i, h), UNCHANGED <<rcpts, nextId, up, deliveries, notified, crashes, todo>>
    PROVE  ItemsSound' /\ Effect
  <1>1. ItemsSound' /\ NoneGained
    BY EndSound
  <1>. QED
    BY <1>1 DEF Effect, Quiet

LEMMA ItemPc ==
    ASSUME NEW h \in HMail, NEW g, NEW pc \in Waiting \cup Busy \cup Idle,
           g = [h EXCEPT !.pc = pc]
    PROVE  /\ g \in HMail /\ g.ref = h.ref /\ g.pc = pc /\ g.dh = h.dh /\ g.bh = h.bh
           /\ g.bq = h.bq /\ g.fail = h.fail /\ g.bnc = h.bnc /\ g.cb = h.cb
  BY DEF HMail

(* The item goes to another point of its main line, with or without giving *)
(* its slot back.                                                          *)
LEMMA ToSound ==
    ASSUME TypeOK, ItemsSound, Alive, NEW i \in Items, On(hm[i]),
           NEW pc \in Waiting \cup Busy, NEW h,
           \/ hm[i].cb # "spent" \/ pc = "queued"
           \/ hm[i].cb = "spent" /\ pc = "timer",
           \/ h = [hm[i] EXCEPT !.pc = pc]
           \/ pc = "timer" /\ h = NextCb([hm[i] EXCEPT !.pc = pc]),
           Becomes(i, h), UNCHANGED <<rcpts, nextId, up, deliveries, notified, crashes, todo>>
    PROVE  ItemsSound' /\ Effect
  <1>. DEFINE g == [hm[i] EXCEPT !.pc = pc]
  <1>1. hm[i] \in HMail
    BY DEF TypeOK
  <1>2. /\ g \in HMail /\ g.ref = hm[i].ref /\ g.pc = pc /\ g.dh = hm[i].dh /\ g.bh = hm[i].bh
        /\ g.bq = hm[i].bq /\ g.fail = hm[i].fail /\ g.bnc = hm[i].bnc /\ g.cb = hm[i].cb
    BY <1>1, ItemPc
  <1>3. h = g \/ (pc = "timer" /\ h = NextCb(g))
    OBVIOUS
  <1>. HIDE DEF g
  <1>4. h \in HMail
    BY <1>2, <1>3, NextCbType
  <1>5. /\ h.ref = hm[i].ref /\ h.pc = pc /\ h.dh = hm[i].dh /\ h.bh = hm[i].bh
        /\ h.bq = hm[i].bq /\ h.fail = hm[i].fail /\ h.bnc = hm[i].bnc
        /\ h.cb = hm[i].cb \/ (pc = "timer" /\ h.cb = "spent")
    BY <1>2, <1>3 DEF NextCb, HMail
  <1>6. On(h) /\ (h.cb = "spent" => h.pc \in {"timer", "queued"})
    BY <1>5 DEF On, Waiting, Busy, Idle
  <1>. QED
    BY <1>4, <1>5, <1>6, MoveSound

(* An item with a callback on its main line has its slot's callback unused *)
(* unless it waits for a timer or a worker.                                *)
LEMMA OnUnspent ==
    ASSUME TypeOK, ItemsSound, Alive, NEW i \in Items, On(hm[i]),
           hm[i].pc \notin {"timer", "queued"}
    PROVE  hm[i].cb # "spent"
  <1>1. Holders(hm[i]) > 0
    BY HoldersNat DEF TypeOK
  <1>. QED
    BY <1>1, ItemInUse DEF Fit

LEMMA AttemptSound ==
    ASSUME TypeOK, ItemsSound, NEW i \in Items, Attempt(i)
    PROVE  ItemsSound' /\ Effect
  <1>1. CASE delivery_queue(i)
    <2>. DEFINE h == [hm[i] EXCEPT !.pc = "send", !.cb = "slot"]
    <2>1. Alive /\ hm[i].pc = "queued" /\ Becomes(i, h)
          /\ UNCHANGED <<rcpts, nextId, up, deliveries, notified, crashes, todo>>
      BY <1>1 DEF delivery_queue, history
    <2>2. On(hm[i])
      BY <2>1 DEF On, Idle
    <2>3. /\ h \in HMail /\ h.ref = hm[i].ref /\ h.pc = "send" /\ h.dh = hm[i].dh
          /\ h.bh = hm[i].bh /\ h.bq = hm[i].bq /\ h.fail = hm[i].fail
          /\ h.bnc = hm[i].bnc /\ h.cb = "slot"
      BY DEF TypeOK, HMail, Busy
    <2>. HIDE DEF h
    <2>4. On(h)
      BY <2>3 DEF On, Idle
    <2>. QED
      BY <2>1, <2>2, <2>3, <2>4, MoveSound
  <1>2. CASE send(i)
    <2>1. Alive /\ On(hm[i]) /\ hm[i].pc = "send" /\ Becomes(i, [hm[i] EXCEPT !.pc = "sendHook"])
          /\ UNCHANGED <<rcpts, nextId, up, deliveries, notified, crashes, todo>>
      BY <1>2 DEF send, history, On, Idle
    <2>2. hm[i].cb # "spent"
      BY <2>1, OnUnspent
    <2>. QED
      BY <2>1, <2>2, ToSound DEF Busy
  <1>3. CASE send_email_respond_delay(i)
    <2>. DEFINE h == NextCb([hm[i] EXCEPT !.pc = "timer"])
    <2>1. Alive /\ On(hm[i]) /\ hm[i].pc = "sendHook" /\ hm' = [hm EXCEPT ![i] = h]
          /\ fatal' = Throws(hm[i])
          /\ UNCHANGED <<file, rcpts, nextId, up, deliveries, notified, crashes, todo>>
      BY <1>3 DEF send_email_respond_delay, On, Idle, TypeOK, disk
    <2>2. hm[i].cb # "spent"
      BY <2>1, OnUnspent
    <2>3. fatal' = fatal
      BY <2>1, <2>2 DEF Throws, ItemsSound, TypeOK
    <2>4. Becomes(i, h)
      BY <2>1, <2>3 DEF Becomes
    <2>. QED
      BY <2>1, <2>2, <2>4, ToSound DEF Waiting
  <1>4. CASE send_email_respond_stop(i)
    <2>1. Alive /\ On(hm[i]) /\ hm[i].pc \notin {"timer", "queued"}
          /\ Discard(i, [hm[i] EXCEPT !.pc = "none"])
          /\ UNCHANGED <<rcpts, nextId, up, deliveries, notified, crashes, todo>>
      BY <1>4 DEF send_email_respond_stop, On, Idle
    <2>. QED
      BY <2>1, EndQuiet
  <1>5. CASE send_email_respond(i)
    <2>1. Alive /\ On(hm[i]) /\ hm[i].pc = "sendHook" /\ Becomes(i, [hm[i] EXCEPT !.pc = "mxHook"])
          /\ UNCHANGED <<rcpts, nextId, up, deliveries, notified, crashes, todo>>
      BY <1>5 DEF send_email_respond, history, On, Idle
    <2>2. hm[i].cb # "spent"
      BY <2>1, OnUnspent
    <2>. QED
      BY <2>1, <2>2, ToSound DEF Busy
  <1>6. CASE get_mx_respond(i)
    <2>1. /\ Alive /\ On(hm[i]) /\ hm[i].pc = "mxHook"
          /\ UNCHANGED <<rcpts, nextId, up, deliveries, notified, crashes, todo>>
      BY <1>6 DEF get_mx_respond, history, On, Idle
    <2>2. PICK h \in {[hm[i] EXCEPT !.pc = "session"], TempFailed(hm[i]), Bounced(hm[i])} :
            Becomes(i, h)
      BY <1>6 DEF get_mx_respond
    <2>3. CASE h = [hm[i] EXCEPT !.pc = "session"]
      <3>1. hm[i].cb # "spent"
        BY <2>1, OnUnspent
      <3>. QED
        BY <2>1, <2>2, <2>3, <3>1, ToSound DEF Busy
    <2>4. CASE h \in {TempFailed(hm[i]), Bounced(hm[i])}
      <3>1. hm[i].pc \in Busy
        BY <2>1 DEF Busy
      <3>. QED
        BY <2>1, <2>2, <2>4, <3>1, FailSound
    <2>. QED
      BY <2>2, <2>3, <2>4
  <1>7. CASE session_failed(i)
    <2>1. /\ Alive /\ hm[i].pc \in Busy
          /\ UNCHANGED <<rcpts, nextId, up, deliveries, notified, crashes, todo>>
      BY <1>7 DEF session_failed, history, Busy
    <2>2. PICK h \in {TempFailed(hm[i]), Bounced(hm[i])} : Becomes(i, h)
      BY <1>7 DEF session_failed
    <2>. QED
      BY <2>1, <2>2, FailSound
  <1>8. ASSUME NEW reply, NEW success, finish_processing_mail(i, reply, success)
        PROVE  ItemsSound' /\ Effect
    BY <1>8, FinishSound
  <1>. QED
    BY <1>1, <1>2, <1>3, <1>4, <1>5, <1>6, <1>7, <1>8 DEF Attempt

(* The bounce hook has answered and the bounce is being queued.            *)
LEMMA BounceSound ==
    ASSUME TypeOK, ItemsSound, NEW i \in Items, ~NullSender, bounce_respond(i)
    PROVE  ItemsSound' /\ Effect
  <1>. DEFINE h == [[hm[i] EXCEPT !.bh = @ - 1] EXCEPT !.bq = @ + 1]
  <1>1. /\ Alive /\ hm[i].bh > 0 /\ Becomes(i, h)
        /\ UNCHANGED <<rcpts, nextId, up, deliveries, notified, crashes, todo>>
    BY DEF bounce_respond
  <1>2. Holders(hm[i]) > 0 /\ hm[i] \in HMail
    BY <1>1, HoldersNat DEF TypeOK
  <1>3. hm[i].ref = Holders(hm[i]) /\ Fit(hm[i], rcpts[i])
    BY <1>1, <1>2, ItemInUse
  <1>4. hm[i].bh = 1 /\ hm[i].bq = 0 /\ ~On(hm[i]) /\ hm[i].fail = {} /\ hm[i].bnc = {}
    <2>1. hm[i].bh \in Nat /\ hm[i].bq \in Nat /\ hm[i].bh + hm[i].bq <= 1
      BY <1>2, <1>3 DEF Fit, HMail
    <2>2. hm[i].bh = 1 /\ hm[i].bq = 0
      BY <1>1, <2>1
    <2>3. Whole(hm[i])
      BY <2>2 DEF Whole
    <2>. QED
      BY <1>3, <2>2, <2>3 DEF Fit
  <1>5. /\ h.pc = hm[i].pc /\ h.ref = hm[i].ref /\ h.dh = hm[i].dh /\ h.fail = hm[i].fail
        /\ h.bnc = hm[i].bnc /\ h.cb = hm[i].cb /\ h.bh = 0 /\ h.bq = 1
    BY <1>2, <1>4 DEF HMail
  <1>. HIDE DEF h
  <1>6. Holders(h) = Holders(hm[i])
    <2>1. Count(h.pc \notin Idle) = Count(hm[i].pc \notin Idle)
          /\ Count(h.fail # {}) = Count(hm[i].fail # {})
          /\ Count(h.bnc # {}) = Count(hm[i].bnc # {})
      BY <1>5
    <2>2. hm[i].dh \in Nat /\ Count(hm[i].pc \notin Idle) \in Nat
      BY <1>2 DEF HMail, Count
    <2>. QED
      BY <1>4, <1>5, <2>1, <2>2 DEF Holders
  <1>7. Whole(h) /\ Whole(hm[i]) /\ ~On(h)
    BY <1>4, <1>5 DEF Whole, On
  <1>8. Fit(h, rcpts[i])
    BY <1>3, <1>4, <1>5, <1>7 DEF Fit
  <1>9. Pend(h, rcpts[i]) = Pending(i)
    BY <1>7 DEF Pend, Pending
  <1>10. h.ref = Holders(h) /\ Holders(h) > 0
    BY <1>2, <1>3, <1>5, <1>6
  <1>11. /\ ItemsSound' /\ Pending(i)' = Pending(i)
         /\ \A j \in Items : j # i => Pending(j)' = Pending(j)
    BY <1>1, <1>2, <1>8, <1>9, <1>10, BecomesSound
  <1>12. NoneGained
    BY <1>11, KeepsRecipients
  <1>. QED
    BY <1>1, <1>11, <1>12 DEF Effect, Quiet

(* The bounce is queued: it names everybody the item answered for.         *)
LEMMA NotifySound ==
    ASSUME TypeOK, ItemsSound, NEW i \in Items, bounce_queued(i)
    PROVE  ItemsSound' /\ Effect
  <1>. DEFINE h == [hm[i] EXCEPT !.bq = @ - 1]
  <1>1. /\ Alive /\ hm[i].bq > 0 /\ Discard(i, h) /\ notified' = notified \cup rcpts[i]
        /\ UNCHANGED <<rcpts, nextId, up, deliveries, crashes, todo>>
    BY DEF bounce_queued
  <1>2. /\ ItemsSound' /\ NoneGained /\ Pending(i)' = Pend(h, rcpts[i])
        /\ Fit(hm[i], rcpts[i])
    BY <1>1, EndSound
  <1>3. hm[i] \in HMail
    BY DEF TypeOK
  <1>4. hm[i].bh = 0 /\ hm[i].bq = 1
    <2>1. hm[i].bh \in Nat /\ hm[i].bq \in Nat /\ hm[i].bh + hm[i].bq <= 1
      BY <1>2, <1>3 DEF Fit, HMail
    <2>. QED
      BY <1>1, <2>1
  <1>5. Whole(hm[i]) /\ ~On(hm[i]) /\ hm[i].fail = {} /\ hm[i].bnc = {}
    BY <1>2, <1>4 DEF Whole, Fit
  <1>6. h.pc = hm[i].pc /\ h.bh = 0 /\ h.bq = 0 /\ h.fail = {} /\ h.bnc = {}
    BY <1>3, <1>4, <1>5 DEF HMail
  <1>. HIDE DEF h
  <1>7. Pend(h, rcpts[i]) = {} /\ Pending(i) = rcpts[i]
    BY <1>5, <1>6 DEF Pend, Pending, Whole, On
  <1>8. Notifies(i)
    BY <1>1, <1>2, <1>7 DEF Notifies
  <1>. QED
    BY <1>2, <1>8 DEF Effect

LEMMA SettleSound ==
    ASSUME TypeOK, ItemsSound, Healthy, NEW i \in Items, Settle(i)
    PROVE  ItemsSound' /\ Effect
  <1>1. CASE delivered_respond(i)
    <2>1. Alive /\ hm[i].dh > 0 /\ Discard(i, [hm[i] EXCEPT !.dh = @ - 1])
          /\ UNCHANGED <<rcpts, nextId, up, deliveries, notified, crashes, todo>>
      BY <1>1 DEF delivered_respond, history
    <2>. QED
      BY <2>1, EndQuiet
  <1>2. CASE split_failed(i)
    <2>1. Alive /\ hm[i].fail # {}
          /\ SplitTo(i, hm[i].fail, TempFailed(NewItem("none", 0)), [hm[i] EXCEPT !.fail = {}])
      BY <1>2 DEF split_failed
    <2>2. PICK group : group = hm[i].fail
      OBVIOUS
    <2>3. PICK h : h = [hm[i] EXCEPT !.fail = {}]
      OBVIOUS
    <2>4. PICK child : child = TempFailed(NewItem("none", 0))
      OBVIOUS
    <2>5. SplitTo(i, group, child, h)
      BY <2>1, <2>2, <2>3, <2>4 DEF SplitTo, NewFile
    <2>. QED
      BY <2>1, <2>2, <2>3, <2>4, <2>5, SplitSound
  <1>3. CASE split_bounced(i)
    <2>1. Alive /\ hm[i].bnc # {}
          /\ SplitTo(i, hm[i].bnc, Bounced(NewItem("none", 0)), [hm[i] EXCEPT !.bnc = {}])
      BY <1>3 DEF split_bounced
    <2>2. PICK group : group = hm[i].bnc
      OBVIOUS
    <2>3. PICK h : h = [hm[i] EXCEPT !.bnc = {}]
      OBVIOUS
    <2>4. PICK child : child = Bounced(NewItem("none", 0))
      OBVIOUS
    <2>5. SplitTo(i, group, child, h)
      BY <2>1, <2>2, <2>3, <2>4 DEF SplitTo, NewFile
    <2>. QED
      BY <2>1, <2>2, <2>3, <2>4, <2>5, SplitSound
  <1>4. CASE split_error(i)
    <2>1. PICK h \in {[hm[i] EXCEPT !.fail = {}], [hm[i] EXCEPT !.bnc = {}]} : h # hm[i]
      BY <1>4 DEF split_error
    <2>2. hm[i] \in HMail
      BY DEF TypeOK
    <2>3. hm[i].fail # {} \/ hm[i].bnc # {}
      BY <2>1, <2>2 DEF HMail
    <2>4. Holders(hm[i]) > 0
      BY <2>2, <2>3, HoldersNat
    <2>5. file[i] = "queue"
      BY <1>4, <2>4, ItemInUse DEF split_error
    <2>. QED
      BY <1>4, <2>5 DEF split_error, Readable, Healthy
  <1>5. CASE deferred_respond(i)
    <2>1. Alive /\ On(hm[i]) /\ hm[i].pc = "deferHook" /\ Becomes(i, [hm[i] EXCEPT !.pc = "renaming"])
          /\ UNCHANGED <<rcpts, nextId, up, deliveries, notified, crashes, todo>>
      BY <1>5 DEF deferred_respond, history, On, Idle
    <2>2. hm[i].cb # "spent"
      BY <2>1, OnUnspent
    <2>. QED
      BY <2>1, <2>2, ToSound DEF Busy
  <1>6. CASE deferred_respond_ok(i)
    <2>1. Alive /\ On(hm[i]) /\ hm[i].pc \notin {"timer", "queued"}
          /\ Discard(i, [hm[i] EXCEPT !.pc = "none"])
          /\ UNCHANGED <<rcpts, nextId, up, deliveries, notified, crashes, todo>>
      BY <1>6 DEF deferred_respond_ok, On, Idle
    <2>. QED
      BY <2>1, EndQuiet
  <1>7. CASE deferred_respond_denysoft(i)
    BY <1>7 DEF deferred_respond_denysoft, Healthy
  <1>8. CASE requeue(i)
    <2>. DEFINE h == NextCb([hm[i] EXCEPT !.pc = "timer"])
    <2>1. Alive /\ On(hm[i]) /\ hm[i].pc = "renaming" /\ hm' = [hm EXCEPT ![i] = h]
          /\ fatal' = Throws(hm[i]) /\ file' = [file EXCEPT ![i] = "queue"]
          /\ UNCHANGED <<rcpts, nextId, up, deliveries, notified, crashes, todo>>
      BY <1>8 DEF requeue, On, Idle, TypeOK, history
    <2>2. hm[i].cb # "spent" /\ Holders(hm[i]) > 0
      BY <2>1, OnUnspent, HoldersNat DEF TypeOK
    <2>3. fatal' = fatal /\ file' = file
      <3>1. file[i] = "queue"
        BY <2>1, <2>2, ItemInUse
      <3>. QED
        BY <2>1, <2>2, <3>1 DEF Throws, ItemsSound, TypeOK
    <2>4. Becomes(i, h)
      BY <2>1, <2>3 DEF Becomes
    <2>. QED
      BY <2>1, <2>2, <2>4, ToSound DEF Waiting
  <1>9. CASE requeue_error(i)
    <2>1. /\ Alive /\ hm[i].pc \in Busy /\ Becomes(i, Bounced(hm[i]))
          /\ UNCHANGED <<rcpts, nextId, up, deliveries, notified, crashes, todo>>
      BY <1>9 DEF requeue_error, history, Busy
    <2>. QED
      BY <2>1, FailSound
  <1>10. CASE timer(i)
    <2>1. Alive /\ On(hm[i]) /\ Becomes(i, [hm[i] EXCEPT !.pc = "queued"])
          /\ UNCHANGED <<rcpts, nextId, up, deliveries, notified, crashes, todo>>
      BY <1>10 DEF timer, history, On, Idle
    <2>. QED
      BY <2>1, ToSound DEF Waiting
  <1>11. CASE bounce_respond(i)
    BY <1>11, BounceSound DEF Healthy
  <1>12. CASE bounce_respond_ok(i)
    <2>1. Alive /\ hm[i].bh > 0 /\ Discard(i, [hm[i] EXCEPT !.bh = @ - 1])
          /\ UNCHANGED <<rcpts, nextId, up, deliveries, notified, crashes, todo>>
      BY <1>12 DEF bounce_respond_ok
    <2>. QED
      BY <2>1, EndQuiet
  <1>13. CASE bounce_queued(i)
    BY <1>13, NotifySound
  <1>14. CASE bounce_error(i)
    <2>1. Alive /\ Holders(hm[i]) > 0
      BY <1>14, HoldersNat DEF bounce_error, TypeOK
    <2>2. file[i] = "queue"
      BY <2>1, ItemInUse
    <2>. QED
      BY <1>14, <2>2 DEF bounce_error, Healthy
  <1>15. CASE unlinked(i)
    <2>1. /\ up /\ file[i] = "unlinking" /\ file' = [file EXCEPT ![i] = "gone"]
          /\ UNCHANGED <<hm, fatal, rcpts, nextId, up, deliveries, notified, crashes, todo>>
      BY <1>15 DEF unlinked, history
    <2>2. Alive /\ ~fatal'
      BY <2>1 DEF Alive, ItemsSound
    <2>3. Sound("gone", hm[i], rcpts[i])
      BY <2>1 DEF ItemsSound, Sound
    <2>4. hm' = [hm EXCEPT ![i] = hm[i]]
      BY <2>1 DEF TypeOK
    <2>5. /\ ItemsSound' /\ Pending(i)' = Pending(i)
          /\ \A j \in Items : j # i => Pending(j)' = Pending(j)
      BY <2>1, <2>2, <2>3, <2>4, OneItem DEF Pending
    <2>6. NoneGained
      BY <2>5, KeepsRecipients
    <2>. QED
      BY <2>1, <2>5, <2>6 DEF Effect, Quiet
  <1>. QED
    BY <1>1, <1>2, <1>3, <1>4, <1>5, <1>6, <1>7, <1>8, <1>9, <1>10, <1>11, <1>12, <1>13,
       <1>14, <1>15 DEF Settle

(* A new queue file answers for the recipients of its domain.              *)
LEMMA NewFileSound ==
    ASSUME TypeOK, ItemsSound, NEW d \in Domains, process_delivery(d)
    PROVE  ItemsSound' /\ Effect
  <1>0. PICK k \in Items : k = nextId
    BY DEF process_delivery, NewFile
  <1>. DEFINE h == NewItem("built", 0)
  <1>1. /\ Alive /\ d \in todo /\ todo' = todo \ {d}
        /\ hm' = [hm EXCEPT ![k] = h] /\ file' = [file EXCEPT ![k] = "queue"]
        /\ rcpts' = [rcpts EXCEPT ![k] = Group(d)] /\ nextId' = k + 1
        /\ UNCHANGED <<fatal, up, deliveries, notified, crashes>>
    BY <1>0 DEF process_delivery, NewFile, history
  <1>2. Sound("queue", h, Group(d)) /\ Pend(h, Group(d)) = Group(d)
    <2>1. On(h)
      BY DEF On, NewItem, Idle
    <2>. QED
      BY <2>1, NewItemSound DEF Waiting, Pend, Whole
  <1>. HIDE DEF h
  <1>3. /\ hm'[k] = h /\ file'[k] = "queue" /\ rcpts'[k] = Group(d)
        /\ \A j \in Items : j # k =>
               hm'[j] = hm[j] /\ file'[j] = file[j] /\ rcpts'[j] = rcpts[j]
    BY <1>1 DEF TypeOK
  <1>4. \A j \in Items : j >= nextId' => file'[j] = "free"
    <2>. SUFFICES ASSUME NEW j \in Items, j >= nextId'
                 PROVE  file'[j] = "free"
      OBVIOUS
    <2>1. j >= k /\ j # k
      BY <1>1 DEF Items
    <2>. QED
      BY <1>0, <1>3, <2>1 DEF ItemsSound
  <1>5. ItemsSound'
    BY <1>1, <1>2, <1>3, <1>4 DEF ItemsSound, Alive
  <1>6. Accepts(d, k)
    BY <1>1, <1>2, <1>3 DEF Accepts, Pending
  <1>. QED
    BY <1>5, <1>6 DEF Effect

LEMMA AcceptSound ==
    ASSUME TypeOK, ItemsSound, Accept
    PROVE  ItemsSound' /\ Effect
  <1>1. ASSUME NEW d \in Domains, process_delivery(d)
        PROVE  ItemsSound' /\ Effect
    BY <1>1, NewFileSound
  <1>2. CASE process_delivery_error
    <2>1. /\ Alive /\ todo' = {}
          /\ UNCHANGED <<rcpts, nextId, fatal, up, deliveries, notified, crashes>>
          /\ hm' = [i \in Items |-> IF i \in Built THEN NoItem ELSE hm[i]]
          /\ file' = [i \in Items |-> IF i \in Built THEN Unlink(file[i]) ELSE file[i]]
      BY <1>2 DEF process_delivery_error, history
    <2>2. Pend(NoItem, {}) = {} /\ \A all : Pend(NoItem, all) = {}
      BY DEF Pend, Whole, On, NoItem, NewItem, Idle
    <2>3. \A i \in Items : i \in Built =>
             /\ hm'[i] = NoItem /\ file'[i] = Unlink(file[i])
             /\ Sound(file'[i], NoItem, rcpts[i])
      <3>1. \A f : Unlink(f) # "queue"
        BY DEF Unlink
      <3>. QED
        BY <2>1, <3>1, NoItemSound
    <2>4. \A i \in Items : i \notin Built => hm'[i] = hm[i] /\ file'[i] = file[i]
      BY <2>1
    <2>5. \A i \in Items : i >= nextId => file'[i] = "free"
      BY <2>3, <2>4 DEF ItemsSound, Unlink
    <2>6. ItemsSound'
      BY <2>1, <2>3, <2>4, <2>5 DEF ItemsSound, Alive
    <2>7. NoneGained
      BY <2>1, <2>2, <2>3, <2>4 DEF NoneGained, Pending
    <2>. QED
      BY <2>1, <2>6, <2>7 DEF Effect, Quiet
  <1>3. CASE send_trans_email_done
    <2>1. /\ Alive
          /\ UNCHANGED <<rcpts, nextId, file, fatal, up, todo, deliveries, notified, crashes>>
          /\ hm' = [i \in Items |->
                      IF i \in Built THEN [hm[i] EXCEPT !.pc = "queued"] ELSE hm[i]]
      BY <1>3 DEF send_trans_email_done, history, disk
    <2>2. \A i \in Items : i \notin Built => hm'[i] = hm[i]
      BY <2>1
    <2>3. ASSUME NEW i \in Items, i \in Built
          PROVE  Sound(file[i], hm'[i], rcpts[i]) /\ Pend(hm'[i], rcpts[i]) = Pending(i)
      <3>. DEFINE h == [hm[i] EXCEPT !.pc = "queued"]
      <3>1. hm[i] \in HMail /\ On(hm[i]) /\ hm'[i] = h
        BY <2>1, <2>3 DEF TypeOK, Built, On, Idle
      <3>2. Holders(hm[i]) > 0
        BY <3>1, HoldersNat
      <3>3. file[i] = "queue" /\ hm[i].ref = Holders(hm[i]) /\ Fit(hm[i], rcpts[i])
        BY <2>1, <3>2, ItemInUse
      <3>4. /\ h \in HMail /\ h.ref = hm[i].ref /\ h.pc = "queued" /\ h.dh = hm[i].dh /\ h.bh = hm[i].bh
            /\ h.bq = hm[i].bq /\ h.fail = hm[i].fail /\ h.bnc = hm[i].bnc /\ h.cb = hm[i].cb
        BY <3>1, ItemPc DEF Waiting
      <3>. HIDE DEF h
      <3>5. On(h)
        BY <3>4 DEF On, Idle
      <3>6. Fit(h, rcpts[i]) /\ Holders(h) = Holders(hm[i]) /\ Pend(h, rcpts[i]) = Pending(i)
        BY <3>1, <3>3, <3>4, <3>5, MoveFit DEF Pending
      <3>7. Sound("queue", h, rcpts[i])
        BY <3>2, <3>3, <3>4, <3>6 DEF Sound
      <3>. QED
        BY <3>1, <3>3, <3>6, <3>7
    <2>4. ItemsSound'
      BY <2>1, <2>2, <2>3 DEF ItemsSound, Alive
    <2>5. NoneGained
      BY <2>1, <2>2, <2>3 DEF NoneGained, Pending
    <2>. QED
      BY <2>1, <2>4, <2>5 DEF Effect, Quiet
  <1>. QED
    BY <1>1, <1>2, <1>3 DEF Accept

LEMMA RestartSound ==
    ASSUME TypeOK, ItemsSound, load_config \/ crash \/ Restart
    PROVE  ItemsSound' /\ (Effect \/ ~up)
  <1>1. CASE load_config
    <2>1. UNCHANGED <<rcpts, nextId, file, hm, fatal, up, todo, deliveries, notified, crashes>>
      BY <1>1 DEF load_config, disk, history
    <2>. QED
      BY <2>1 DEF ItemsSound, Effect, Quiet, NoneGained, Pending
  <1>2. CASE crash
    <2>1. /\ crashes' = crashes + 1 /\ ~up' /\ ~fatal' /\ UNCHANGED <<nextId, rcpts>>
          /\ \A i \in Items : file'[i] # "unlinking"
          /\ \A i \in Items : file[i] = "free" => file'[i] = "free"
      BY <1>2 DEF crash
    <2>2. crashes' # 0
      BY <2>1 DEF TypeOK
    <2>. QED
      BY <2>1, <2>2 DEF ItemsSound, Effect
  <1>3. CASE load_queue
    <2>1. /\ ~up /\ up' /\ UNCHANGED <<nextId, rcpts, file, fatal>>
          /\ hm' = [i \in Items |->
                      IF file[i] = "queue" THEN NewItem("onDisk", diskFails[i]) ELSE NoItem]
      BY <1>3 DEF load_queue, disk
    <2>2. \A i \in Items : Sound(file[i], hm'[i], rcpts[i])
      <3>. SUFFICES ASSUME NEW i \in Items
                   PROVE  Sound(file[i], hm'[i], rcpts[i])
        OBVIOUS
      <3>1. CASE file[i] = "queue"
        <4>1. diskFails[i] \in Nat /\ hm'[i] = NewItem("onDisk", diskFails[i])
          BY <2>1, <3>1 DEF TypeOK
        <4>. QED
          BY <3>1, <4>1, NewItemSound DEF Waiting
      <3>2. CASE file[i] # "queue"
        BY <2>1, <3>2, NoItemSound
      <3>. QED
        BY <3>1, <3>2
    <2>. QED
      BY <2>1, <2>2 DEF ItemsSound
  <1>4. ASSUME NEW i \in Items, _add_file(i)
        PROVE  ItemsSound' /\ Effect
    <2>1. Alive /\ hm[i].pc = "onDisk" /\ On(hm[i])
          /\ UNCHANGED <<rcpts, nextId, up, deliveries, notified, crashes, todo>>
      BY <1>4 DEF _add_file, history, On, Idle
    <2>2. PICK pc \in {"queued", "timer"} : Becomes(i, [hm[i] EXCEPT !.pc = pc])
      BY <1>4 DEF _add_file
    <2>3. hm[i].cb # "spent"
      BY <2>1, OnUnspent
    <2>. QED
      BY <2>1, <2>2, <2>3, ToSound DEF Waiting
  <1>. QED
    BY <1>1, <1>2, <1>3, <1>4 DEF Restart

LEMMA InitSound == Init => ItemsSound
  <1>. SUFFICES ASSUME Init
               PROVE  ItemsSound
    OBVIOUS
  <1>1. \A i \in Items : file[i] = "free" /\ hm[i] = NoItem
    BY DEF Init
  <1>. QED
    BY <1>1, NoItemSound DEF Init, ItemsSound

LEMMA NextSound == TypeOK /\ ItemsSound /\ Healthy /\ [Next]_vars => ItemsSound' /\ (Effect \/ ~up)
  <1>1. CASE UNCHANGED vars
    <2>1. UNCHANGED <<rcpts, nextId, file, hm, fatal, up, todo, deliveries, notified, crashes>>
      BY <1>1 DEF vars, disk, history
    <2>2. ItemsSound => ItemsSound'
      BY <2>1 DEF ItemsSound
    <2>3. Quiet
      BY <2>1 DEF Quiet, NoneGained, Pending
    <2>. QED
      BY <2>2, <2>3 DEF Effect
  <1>. QED
    BY <1>1, AttemptSound, SettleSound, AcceptSound, RestartSound DEF Next

LEMMA SoundImplies ==
    ASSUME TypeOK, ItemsSound
    PROVE  RefCounts /\ NothingForgotten /\ NeverThrows
  <1>1. ASSUME Alive, NEW i \in Items
        PROVE  /\ file[i] = "queue" => hm[i].ref = Holders(hm[i]) /\ Holders(hm[i]) > 0
               /\ file[i] # "queue" => Holders(hm[i]) = 0
               /\ hm[i].cb = "slot" => Holders(hm[i]) > 0
    <2>1. Sound(file[i], hm[i], rcpts[i]) /\ Holders(hm[i]) \in Nat
      BY <1>1, HoldersNat DEF ItemsSound, Alive, TypeOK
    <2>. QED
      BY <2>1 DEF Sound
  <1>. QED
    BY <1>1 DEF RefCounts, NothingForgotten, NeverThrows, ItemsSound

LEMMA SoundAlways == Healthy => (Spec => [](TypeOK /\ ItemsSound))
  <1>. SUFFICES ASSUME Healthy
               PROVE  Spec => [](TypeOK /\ ItemsSound)
    OBVIOUS
  <1>1. Init => TypeOK /\ ItemsSound
    BY InitType, InitSound
  <1>2. TypeOK /\ ItemsSound /\ [Next]_vars => (TypeOK /\ ItemsSound)'
    BY NextType, NextSound
  <1>. QED
    BY <1>1, <1>2, PTL DEF Spec

(* HMailItem.refcount counts the callbacks that use a queued file, and     *)
(* nobody uses a file that was removed: RefCounts.                         *)
THEOREM ExactReferences == Healthy => (Spec => []RefCounts)
  BY SoundAlways, SoundImplies, PTL

(* Every queued file has a callback, a timer or a worker, and so has every *)
(* delivery slot that is taken: NothingForgotten.                          *)
THEOREM AllWorkedOn == Healthy => (Spec => []NothingForgotten)
  BY SoundAlways, SoundImplies, PTL

(* No worker's callback is called twice: NeverThrows.                      *)
THEOREM ThrowsNever == Healthy => (Spec => []NeverThrows)
  BY SoundAlways, SoundImplies, PTL

----------------------------------------------------------------------------
(* Until a crash every recipient is in one place: in a domain that has no  *)
(* file yet, or with one item that has still to dispose of him, or         *)
(* delivered to once, or named in a bounce.                                *)

Untouched(r) == deliveries[r] = 0 /\ r \notin notified

OnePlace ==
    crashes = 0 =>
        /\ up
        /\ \A i, j \in Items : i # j => Pending(i) \cap Pending(j) = {}
        /\ \A i \in Items : \A r \in Pending(i) : Untouched(r) /\ DomainOf[r] \notin todo
        /\ \A r \in Rcpts :
              /\ DomainOf[r] \in todo => Untouched(r)
              /\ deliveries[r] <= 1
              /\ r \in notified => deliveries[r] = 0

LEMMA PendingRcpts ==
    ASSUME TypeOK, NEW i \in Items
    PROVE  Pending(i) \subseteq Rcpts
  BY DEF TypeOK, Pending, Pend, HMail

LEMMA InitOnePlace == Init => OnePlace
  <1>. SUFFICES ASSUME Init
               PROVE  OnePlace
    OBVIOUS
  <1>1. \A i \in Items : Pending(i) = {}
    BY DEF Init, Pending, Pend, Whole, On, NoItem, NewItem, Idle
  <1>. QED
    BY <1>1 DEF Init, OnePlace, Untouched

LEMMA EffectOnePlace ==
    ASSUME TypeOK, TypeOK', OnePlace, Effect
    PROVE  OnePlace'
  <1>. SUFFICES ASSUME crashes' = 0
               PROVE  OnePlace'
    BY DEF OnePlace
  <1>1. /\ \A i \in Items : Pending(i) \subseteq Rcpts
        /\ deliveries \in [Rcpts -> Nat]
    BY PendingRcpts DEF TypeOK
  <1>2. CASE Quiet
    <2>1. NoneGained /\ todo' \subseteq todo /\ UNCHANGED <<deliveries, notified, crashes, up>>
      BY <1>2 DEF Quiet
    <2>. QED
      BY <1>1, <2>1 DEF OnePlace, NoneGained, Untouched
  <1>3. ASSUME NEW i \in Items, NEW S \in SUBSET Rcpts, Delivers(i, S)
        PROVE  OnePlace'
    <2>1. /\ S \subseteq Pending(i) /\ Pending(i)' \cap S = {} /\ NoneGained
          /\ \A r \in Rcpts : deliveries'[r] = IF r \in S THEN deliveries[r] + 1 ELSE deliveries[r]
          /\ UNCHANGED <<notified, todo, crashes, up>>
      BY <1>3 DEF Delivers
    <2>2. /\ up /\ \A j, k \in Items : j # k => Pending(j) \cap Pending(k) = {}
          /\ \A j \in Items : \A r \in Pending(j) : Untouched(r) /\ DomainOf[r] \notin todo
          /\ \A r \in Rcpts :
                /\ DomainOf[r] \in todo => Untouched(r)
                /\ deliveries[r] <= 1
                /\ r \in notified => deliveries[r] = 0
      BY <2>1 DEF OnePlace
    <2>3. \A j \in Items : Pending(j)' \subseteq Pending(j) /\ Pending(j)' \cap S = {}
      BY <2>1, <2>2 DEF NoneGained
    <2>4. \A r \in Rcpts : r \notin S => deliveries'[r] = deliveries[r]
      BY <2>1
    <2>5. \A r \in Rcpts : r \in S => deliveries'[r] = 1 /\ Untouched(r) /\ DomainOf[r] \notin todo
      BY <1>1, <2>1, <2>2 DEF Untouched
    <2>6. \A j, k \in Items : j # k => Pending(j)' \cap Pending(k)' = {}
      BY <2>2, <2>3
    <2>7. \A j \in Items : \A r \in Pending(j)' : Untouched(r)' /\ DomainOf[r] \notin todo'
      BY <1>1, <2>1, <2>2, <2>3, <2>4 DEF Untouched
    <2>8. \A r \in Rcpts : DomainOf[r] \in todo' => Untouched(r)'
      BY <2>1, <2>2, <2>4, <2>5 DEF Untouched
    <2>9. \A r \in Rcpts : deliveries'[r] <= 1
      BY <2>2, <2>4, <2>5
    <2>10. \A r \in Rcpts : r \in notified' => deliveries'[r] = 0
      BY <2>1, <2>2, <2>4, <2>5 DEF Untouched
    <2>. QED
      BY <2>1, <2>2, <2>6, <2>7, <2>8, <2>9, <2>10 DEF OnePlace
  <1>4. ASSUME NEW i \in Items, Notifies(i)
        PROVE  OnePlace'
    <2>1. /\ notified' = notified \cup Pending(i) /\ Pending(i)' = {} /\ NoneGained
          /\ UNCHANGED <<deliveries, todo, crashes, up>>
      BY <1>4 DEF Notifies
    <2>. QED
      BY <1>1, <2>1 DEF OnePlace, NoneGained, Untouched
  <1>5. ASSUME NEW i \in Items, NEW k \in Items, NEW S \in SUBSET Rcpts, HandsOver(i, k, S)
        PROVE  OnePlace'
    <2>1. /\ i # k /\ S \subseteq Pending(i) /\ Pending(i)' \subseteq Pending(i) \ S
          /\ Pending(k)' = S
          /\ \A j \in Items : j \notin {i, k} => Pending(j)' = Pending(j)
          /\ UNCHANGED <<deliveries, notified, todo, crashes, up>>
      BY <1>5 DEF HandsOver, Recipients
    <2>2. /\ up /\ \A j, l \in Items : j # l => Pending(j) \cap Pending(l) = {}
          /\ \A j \in Items : \A r \in Pending(j) : Untouched(r) /\ DomainOf[r] \notin todo
          /\ \A r \in Rcpts :
                /\ DomainOf[r] \in todo => Untouched(r)
                /\ deliveries[r] <= 1
                /\ r \in notified => deliveries[r] = 0
      BY <2>1 DEF OnePlace
    <2>3. \A j, l \in Items : j # l => Pending(j)' \cap Pending(l)' = {}
      BY <2>1, <2>2
    <2>4. \A j \in Items : \A r \in Pending(j)' : Untouched(r)' /\ DomainOf[r] \notin todo'
      <3>1. \A r \in Rcpts : Untouched(r)' <=> Untouched(r)
        BY <2>1 DEF Untouched
      <3>2. ASSUME NEW j \in Items, NEW r \in Pending(j)'
            PROVE  Untouched(r)' /\ DomainOf[r] \notin todo'
        <4>1. \E l \in Items : r \in Pending(l)
          BY <2>1, <3>2
        <4>. QED
          BY <1>1, <2>1, <2>2, <3>1, <4>1
      <3>. QED
        BY <3>2
    <2>. QED
      BY <2>1, <2>2, <2>3, <2>4 DEF OnePlace, Untouched
  <1>6. ASSUME NEW d \in Domains, NEW k \in Items, Accepts(d, k)
        PROVE  OnePlace'
    <2>1. /\ d \in todo /\ todo' = todo \ {d} /\ Pending(k)' = Group(d)
          /\ \A j \in Items : j # k => Pending(j)' = Pending(j)
          /\ UNCHANGED <<deliveries, notified, crashes, up>>
      BY <1>6 DEF Accepts
    <2>2. /\ up /\ \A j, l \in Items : j # l => Pending(j) \cap Pending(l) = {}
          /\ \A j \in Items : \A r \in Pending(j) : Untouched(r) /\ DomainOf[r] \notin todo
          /\ \A r \in Rcpts :
                /\ DomainOf[r] \in todo => Untouched(r)
                /\ deliveries[r] <= 1
                /\ r \in notified => deliveries[r] = 0
      BY <2>1 DEF OnePlace
    <2>3. \A r \in Group(d) : r \in Rcpts /\ DomainOf[r] = d
      BY DEF Group
    <2>4. \A j, l \in Items : j # l => Pending(j)' \cap Pending(l)' = {}
      BY <2>1, <2>2, <2>3
    <2>5. \A r \in Rcpts : Untouched(r)' <=> Untouched(r)
      BY <2>1 DEF Untouched
    <2>6. \A j \in Items : \A r \in Pending(j)' : Untouched(r)' /\ DomainOf[r] \notin todo'
      BY <1>1, <2>1, <2>2, <2>3, <2>5
    <2>. QED
      BY <2>1, <2>2, <2>4, <2>5, <2>6 DEF OnePlace
  <1>. QED
    BY <1>2, <1>3, <1>4, <1>5, <1>6 DEF Effect

(* A process that does not run does nothing but start.                     *)
LEMMA OnlyRestarts ==
    ASSUME ~up, Next
    PROVE  load_queue
  <1>1. ~Alive
    BY DEF Alive
  <1>2. ~Accept
    BY <1>1 DEF Accept, process_delivery, process_delivery_error, send_trans_email_done
  <1>3. ASSUME NEW i \in Items
        PROVE  ~Attempt(i)
    BY <1>1 DEF Attempt, delivery_queue, send, send_email_respond_delay,
      send_email_respond_stop, send_email_respond, get_mx_respond, session_failed,
      finish_processing_mail
  <1>4. ASSUME NEW i \in Items
        PROVE  ~Settle(i)
    BY <1>1 DEF Settle, delivered_respond, split_failed, split_bounced, split_error,
      deferred_respond, deferred_respond_ok, deferred_respond_denysoft, requeue,
      requeue_error, timer, bounce_respond, bounce_respond_ok, bounce_queued, bounce_error,
      unlinked
  <1>5. ~load_config /\ ~crash /\ \A i \in Items : ~_add_file(i)
    BY <1>1 DEF load_config, crash, _add_file
  <1>. QED
    BY <1>2, <1>3, <1>4, <1>5 DEF Next, Restart

LEMMA NextOnePlace ==
    TypeOK /\ ItemsSound /\ OnePlace /\ Healthy /\ [Next]_vars => OnePlace'
  <1>. SUFFICES ASSUME TypeOK, ItemsSound, OnePlace, Healthy, [Next]_vars
               PROVE  OnePlace'
    OBVIOUS
  <1>1. CASE Effect
    BY <1>1, NextType, EffectOnePlace
  <1>2. CASE ~up
    <2>1. crashes # 0 /\ crashes \in Nat
      BY <1>2 DEF OnePlace, TypeOK
    <2>2. crashes' = crashes
      BY <1>2, OnlyRestarts DEF load_queue, vars, history
    <2>3. crashes' # 0
      BY <2>1, <2>2
    <2>. QED
      BY <2>3 DEF OnePlace
  <1>. QED
    BY <1>1, <1>2, NextSound

LEMMA OnePlaceImplies ==
    ASSUME TypeOK, OnePlace
    PROVE  AtMostOnce /\ BounceIsTrue
  BY DEF TypeOK, OnePlace, AtMostOnce, BounceIsTrue, Done

LEMMA OnePlaceAlways == Healthy => (Spec => [](TypeOK /\ OnePlace))
  <1>. SUFFICES ASSUME Healthy
               PROVE  Spec => [](TypeOK /\ OnePlace)
    OBVIOUS
  <1>1. Init => OnePlace
    BY InitOnePlace
  <1>2. TypeOK /\ ItemsSound /\ OnePlace /\ [Next]_vars => OnePlace'
    BY NextOnePlace
  <1>. QED
    BY <1>1, <1>2, SoundAlways, PTL DEF Spec

(* While the process stays up a recipient is given the mail at most once:  *)
(* AtMostOnce, through any number of splits, deferrals and bounces.        *)
THEOREM DeliveredOnce == Healthy => (Spec => []AtMostOnce)
  BY OnePlaceAlways, OnePlaceImplies, PTL

(* Nobody who has the mail is named in a bounce: BounceIsTrue.             *)
THEOREM TrueBounces == Healthy => (Spec => []BounceIsTrue)
  BY OnePlaceAlways, OnePlaceImplies, PTL

----------------------------------------------------------------------------
(* A refused mail is not sent, whatever the disk and the plugins do.       *)

(* Until the caller has his answer no item has been queued, and once he    *)
(* was refused there is none.                                              *)
NotSentYet ==
    crashes = 0 =>
        /\ up
        /\ trans = "writing" => \A i \in Items : hm[i] \in {NoItem, NewItem("built", 0)}
        /\ trans = "deny" => \A i \in Items : hm[i] = NoItem
        /\ trans \in {"writing", "deny"} => \A r \in Rcpts : deliveries[r] = 0

(* An item that is not there, or waits for the queue, takes no step.       *)
LEMMA Inactive ==
    ASSUME TypeOK, NEW i \in Items, hm[i] \in {NoItem, NewItem("built", 0)},
           Attempt(i) \/ Settle(i) \/ _add_file(i)
    PROVE  UNCHANGED <<hm, trans, deliveries, crashes, up>>
  <1>1. /\ hm[i].pc \in {"none", "built"} /\ hm[i].dh = 0 /\ hm[i].bh = 0 /\ hm[i].bq = 0
        /\ hm[i].fail = {} /\ hm[i].bnc = {}
    BY DEF NoItem, NewItem
  <1>2. ~split_error(i)
    <2>1. [hm[i] EXCEPT !.fail = {}] = hm[i] /\ [hm[i] EXCEPT !.bnc = {}] = hm[i]
      BY <1>1 DEF TypeOK, HMail
    <2>. QED
      BY <2>1 DEF split_error
  <1>3. ~Attempt(i)
    BY <1>1 DEF Attempt, delivery_queue, send, send_email_respond_delay,
      send_email_respond_stop, send_email_respond, get_mx_respond, session_failed,
      finish_processing_mail
  <1>4. ~_add_file(i)
    BY <1>1 DEF _add_file
  <1>5. hm[i].pc # "deferHook" /\ hm[i].pc # "renaming" /\ hm[i].pc # "timer"
    BY <1>1
  <1>6. ~(hm[i].dh > 0) /\ ~(hm[i].bh > 0) /\ ~(hm[i].bq > 0)
    BY <1>1
  <1>7. ~delivered_respond(i) /\ ~bounce_respond(i) /\ ~bounce_respond_ok(i)
        /\ ~bounce_queued(i) /\ ~bounce_error(i)
    BY <1>6 DEF delivered_respond, bounce_respond, bounce_respond_ok, bounce_queued, bounce_error
  <1>8. ~deferred_respond(i) /\ ~deferred_respond_ok(i) /\ ~deferred_respond_denysoft(i)
        /\ ~requeue(i) /\ ~requeue_error(i) /\ ~timer(i)
    BY <1>5 DEF deferred_respond, deferred_respond_ok, deferred_respond_denysoft, requeue,
      requeue_error, timer
  <1>9. ~split_failed(i) /\ ~split_bounced(i)
    BY <1>1 DEF split_failed, split_bounced
  <1>10. unlinked(i)
    BY <1>2, <1>3, <1>4, <1>7, <1>8, <1>9 DEF Settle
  <1>. QED
    BY <1>10 DEF unlinked, history

LEMMA NextNotSent == TypeOK /\ NotSentYet /\ [Next]_vars => NotSentYet'
  <1>. SUFFICES ASSUME TypeOK, NotSentYet, [Next]_vars, crashes' = 0
               PROVE  NotSentYet'
    BY DEF NotSentYet
  <1>1. CASE UNCHANGED vars
    BY <1>1 DEF vars, history, NotSentYet
  <1>2. CASE Accept
    <2>1. ASSUME NEW d \in Domains, process_delivery(d)
          PROVE  NotSentYet'
      BY <2>1 DEF process_delivery, NewFile, history, NotSentYet, TypeOK
    <2>2. CASE process_delivery_error
      <3>1. /\ trans = "writing" /\ trans' = "deny"
            /\ UNCHANGED <<up, deliveries, crashes>>
            /\ hm' = [i \in Items |-> IF i \in Built THEN NoItem ELSE hm[i]]
        BY <2>2 DEF process_delivery_error, history
      <3>2. \A i \in Items : i \notin Built => hm[i] # NewItem("built", 0)
        BY DEF Built, NewItem
      <3>. QED
        BY <3>1, <3>2 DEF NotSentYet
    <2>3. CASE send_trans_email_done
      BY <2>3 DEF send_trans_email_done, history, NotSentYet
    <2>. QED
      BY <1>2, <2>1, <2>2, <2>3 DEF Accept
  <1>3. ASSUME NEW i \in Items, Attempt(i) \/ Settle(i) \/ _add_file(i)
        PROVE  NotSentYet'
    <2>1. UNCHANGED <<trans, up, crashes>>
      BY <1>3 DEF history, Attempt, Settle, delivery_queue, send,
        send_email_respond_delay, send_email_respond_stop, send_email_respond,
        get_mx_respond, session_failed, finish_processing_mail, delivered_respond,
        split_failed, split_bounced, SplitTo, split_error, deferred_respond,
        deferred_respond_ok, deferred_respond_denysoft, requeue, requeue_error, timer,
        bounce_respond, bounce_respond_ok, bounce_queued, bounce_error, unlinked, _add_file
    <2>2. CASE trans \in {"writing", "deny"}
      <3>1. hm[i] \in {NoItem, NewItem("built", 0)}
        BY <2>1, <2>2 DEF NotSentYet
      <3>2. UNCHANGED <<hm, deliveries>>
        BY <1>3, <3>1, Inactive
      <3>. QED
        BY <2>1, <3>2 DEF NotSentYet
    <2>3. CASE trans \notin {"writing", "deny"}
      BY <2>1, <2>3 DEF NotSentYet
    <2>. QED
      BY <2>2, <2>3
  <1>4. CASE load_config
    BY <1>4 DEF load_config, history, NotSentYet
  <1>5. CASE crash
    BY <1>5 DEF crash, TypeOK
  <1>6. CASE load_queue
    BY <1>6 DEF load_queue, history, NotSentYet
  <1>. QED
    BY <1>1, <1>2, <1>3, <1>4, <1>5, <1>6 DEF Next, Restart

(* A mail that was refused to its sender is not sent to anybody while the  *)
(* process stays up: DeniedNotSent, under every disk fault and answer.     *)
THEOREM RefusedNotSent == Spec => []DeniedNotSent
  <1>1. Init => NotSentYet
    BY DEF Init, NotSentYet
  <1>2. TypeOK /\ NotSentYet /\ [Next]_vars => NotSentYet'
    BY NextNotSent
  <1>3. NotSentYet => DeniedNotSent
    BY DEF NotSentYet, DeniedNotSent, Done
  <1>. QED
    BY <1>1, <1>2, <1>3, TypeCorrect, PTL DEF Spec

=============================================================================

--------------------------- MODULE Paywall_proofs ---------------------------
(***************************************************************************)
(* Theorems about Paywall for every number of queue files and browser      *)
(* sessions, every timeout, and any number of crashes and failed polls.    *)
(***************************************************************************)
EXTENDS Paywall, TLAPS

----------------------------------------------------------------------------
(* Type correctness.                                                       *)

USE TimeAssumption, AnswersAssumption DEF mail, web

LEMMA FaultType ==
    ASSUME TypeOK, NEW k \in {"crash", "web", "poll", "hook", "update"}, NEW max, Fault(k, max)
    PROVE  faults' \in [{"crash", "web", "poll", "hook", "update"} -> Nat]
  BY DEF TypeOK, Fault

LEMMA VerdictType == Verdict = "wait" \/ Verdict \in Notes
  BY DEF Verdict, Notes

LEMMA AnswerType ==
    ASSUME NEW n \in Notes
    PROVE  Answer(n) \in {"held", "updating", "sending", "dropped"}
  BY DEF Answer, Notes

LEMMA ReloadedType ==
    ASSUME NEW q \in QueueFile
    PROVE  Reloaded(q) \in QueueFile
  BY DEF Reloaded, QueueFile, Pending

LEMMA ChargedType ==
    ASSUME NEW a \in ChargeAnswers
    PROVE  Charged(a) \in {"paid", "mispaid", "error"}
  BY DEF Charged

LEMMA DeliveryType ==
    ASSUME TypeOK, NEW f \in Files, Delivery(f)
    PROVE  TypeOK'
  <1>1. file[f] \in QueueFile
    BY DEF TypeOK
  <1>2. CASE delay(f)
    BY <1>1, <1>2, VerdictType DEF TypeOK, delay, QueueFile, Pending
  <1>3. CASE hook_send_email(f)
    <2>1. Answer(file[f].notes) \in {"held", "updating", "sending", "dropped"}
      BY <1>1, AnswerType DEF QueueFile
    <2>2. file' \in [Files -> QueueFile]
      BY <1>1, <1>3, <2>1 DEF TypeOK, hook_send_email, QueueFile, Pending, Ended
    <2>3. notices' \subseteq {"invoice", "failed", "refund", "confirmed"}
      BY <1>3 DEF TypeOK, hook_send_email
    <2>. QED
      BY <1>3, <2>2, <2>3 DEF TypeOK, hook_send_email
  <1>4. CASE timeout_pay_written(f)
    <2>1. faults' \in [{"crash", "web", "poll", "hook", "update"} -> Nat]
      BY <1>4, FaultType DEF timeout_pay_written, Updated, TypeOK
    <2>. QED
      BY <1>1, <1>4, <2>1 DEF TypeOK, timeout_pay_written, Updated, QueueFile, Ended, Statuses
  <1>5. CASE hook_timeout(f)
    <2>1. faults' \in [{"crash", "web", "poll", "hook", "update"} -> Nat]
      BY <1>5, FaultType DEF hook_timeout
    <2>. QED
      BY <1>1, <1>5, <2>1 DEF TypeOK, hook_timeout, QueueFile, Pending, Statuses
  <1>6. CASE delivered(f)
    <2>1. file' \in [Files -> QueueFile]
      BY <1>1, <1>6 DEF TypeOK, delivered, QueueFile, Pending, Ended
    <2>2. notices' \subseteq {"invoice", "failed", "refund", "confirmed"}
      BY <1>6 DEF TypeOK, delivered
    <2>. QED
      BY <1>6, <2>1, <2>2 DEF TypeOK, delivered
  <1>7. CASE hook_delivered(f)
    <2>1. faults' \in [{"crash", "web", "poll", "hook", "update"} -> Nat]
      BY <1>7, FaultType DEF hook_delivered, Updated, TypeOK
    <2>. QED
      BY <1>1, <1>7, <2>1 DEF TypeOK, hook_delivered, Updated, QueueFile, Ended, Statuses
  <1>8. CASE temp_fail(f)
    <2>1. PICK saved \in {file[f].saved, file[f].notes} :
            file' = [file EXCEPT ![f].pc = "queued", ![f].saved = saved, ![f].fails = @ + 1]
      BY <1>8 DEF temp_fail
    <2>2. file' \in [Files -> QueueFile]
      BY <1>1, <2>1 DEF TypeOK, QueueFile, Pending
    <2>. QED
      BY <1>8, <2>2 DEF TypeOK, temp_fail
  <1>9. CASE bounce(f)
    BY <1>1, <1>9 DEF TypeOK, bounce, QueueFile, Ended
  <1>. QED
    BY <1>2, <1>3, <1>4, <1>5, <1>6, <1>7, <1>8, <1>9 DEF Delivery

LEMMA BrowserType ==
    ASSUME TypeOK, NEW s \in Sessions, Browser(s)
    PROVE  TypeOK'
  <1>1. session[s] \in Session
    BY DEF TypeOK
  <1>2. CASE publish(s)
    <2>1. session' \in [Sessions -> Session]
      BY <1>1, <1>2 DEF TypeOK, publish, Session, Statuses
    <2>. QED
      BY <1>2, <2>1 DEF TypeOK, publish
  <1>3. CASE publish_write(s)
    BY <1>1, <1>3 DEF TypeOK, publish_write, Session
  <1>4. CASE invoice_charge(s)
    BY <1>1, <1>4 DEF TypeOK, invoice_charge, Session
  <1>5. CASE charge_answer(s)
    <2>1. PICK a \in ChargeAnswers :
            /\ charges' = IF a \in {"succeeded", "lost"} THEN charges + 1 ELSE charges
            /\ session' = [session EXCEPT ![s].pc = Charged(a)]
      BY <1>5 DEF charge_answer
    <2>2. session' \in [Sessions -> Session]
      BY <1>1, <2>1, ChargedType DEF TypeOK, Session
    <2>. QED
      BY <1>5, <2>1, <2>2 DEF TypeOK, charge_answer
  <1>6. CASE charge_write(s)
    BY <1>1, <1>6 DEF TypeOK, charge_write, Session, Statuses
  <1>7. CASE leave(s)
    BY <1>1, <1>7 DEF TypeOK, leave, Session
  <1>. QED
    BY <1>2, <1>3, <1>4, <1>5, <1>6, <1>7 DEF Browser

LEMMA RestType ==
    ASSUME TypeOK,
           Transaction \/ on_check_payment \/ on_check_payment_error \/ crash
             \/ web_crash \/ tick
    PROVE  TypeOK'
  <1>1. CASE hook_data_post_free
    BY <1>1 DEF TypeOK, hook_data_post_free, mail, web
  <1>2. CASE hook_data_post
    BY <1>2 DEF TypeOK, hook_data_post, mail, web, Statuses
  <1>3. CASE hook_data_post_error
    BY <1>3 DEF TypeOK, hook_data_post_error, mail, web
  <1>4. CASE queued
    <2>. DEFINE notes == IF priced THEN "invoice_sent" ELSE "none"
    <2>1. [pc |-> "queued", notes |-> notes, saved |-> notes, fails |-> 0] \in QueueFile
      BY DEF QueueFile, Notes, Pending
    <2>2. file' \in [Files -> QueueFile]
      BY <1>4, <2>1 DEF queued
    <2>. QED
      BY <1>4, <2>2 DEF TypeOK, queued, web
  <1>5. CASE refused
    BY <1>5 DEF TypeOK, refused, mail, web
  <1>6. CASE on_check_payment
    BY <1>6 DEF TypeOK, on_check_payment, web
  <1>7. CASE on_check_payment_error
    BY <1>7, FaultType DEF TypeOK, on_check_payment_error, web
  <1>8. CASE crash
    <2>1. file' \in [Files -> QueueFile]
      BY <1>8, ReloadedType DEF TypeOK, crash
    <2>2. faults' \in [{"crash", "web", "poll", "hook", "update"} -> Nat]
      BY <1>8, FaultType DEF crash
    <2>. QED
      BY <1>8, <2>1, <2>2 DEF TypeOK, crash, web, Statuses
  <1>9. CASE web_crash
    <2>1. session' \in [Sessions -> Session]
      BY <1>9 DEF TypeOK, web_crash, Session
    <2>2. faults' \in [{"crash", "web", "poll", "hook", "update"} -> Nat]
      BY <1>9, FaultType DEF web_crash
    <2>. QED
      BY <1>9, <2>1, <2>2 DEF TypeOK, web_crash, mail
  <1>10. CASE tick
    BY <1>10 DEF TypeOK, tick, mail, web
  <1>. QED
    BY <1>1, <1>2, <1>3, <1>4, <1>5, <1>6, <1>7, <1>8, <1>9, <1>10 DEF Transaction

(* Every state has its type: notes, statuses and the clock stay in their   *)
(* ranges whatever the interleaving of the three processes.                *)
THEOREM TypeCorrect == Spec => []TypeOK
  <1>1. Init => TypeOK
    BY DEF Init, TypeOK, QueueFile, Session, Statuses, Notes
  <1>2. TypeOK /\ [Next]_vars => TypeOK'
    <2>. SUFFICES ASSUME TypeOK, [Next]_vars PROVE TypeOK'
      OBVIOUS
    <2>1. CASE UNCHANGED vars
      BY <2>1 DEF TypeOK, vars
    <2>2. CASE Next
      BY <2>2, DeliveryType, BrowserType, RestType DEF Next
    <2>. QED
      BY <2>1, <2>2
  <1>. QED
    BY <1>1, <1>2, PTL DEF Spec

----------------------------------------------------------------------------
(* Nothing priced is sent unpaid.                                          *)

LEMMA VerdictPaid ==
    ASSUME PaidInv, Verdict = "invoice_paid"
    PROVE  Money
  BY DEF PaidInv, Verdict

LEMMA ChargedPaid ==
    ASSUME NEW a \in ChargeAnswers, Charged(a) = "paid"
    PROVE  a = "succeeded"
  BY DEF Charged

LEMMA DeliveryPaid ==
    ASSUME TypeOK, PaidInv, NEW f \in Files, Delivery(f)
    PROVE  PaidInv'
  <1>1. file[f] \in QueueFile /\ DOMAIN file = Files
    BY DEF TypeOK
  <1>2. CASE delay(f)
    BY <1>1, <1>2, VerdictPaid
       DEF delay, PaidInv, Money, UnpaidNotSent, UnpaidNeverSent, Sent, QueueFile, Verdict
  <1>3. CASE hook_send_email(f)
    <2>1. Answer(file[f].notes) = "sending" =>
             file[f].notes = "none" \/ file[f].notes = "invoice_paid"
      BY <1>1 DEF Answer, QueueFile, Notes
    <2>2. Answer(file[f].notes) \in {"held", "updating", "sending", "dropped"}
      BY <1>1, AnswerType DEF QueueFile
    <2>. QED
      BY <1>1, <1>3, <2>1, <2>2
         DEF hook_send_email, PaidInv, Money, UnpaidNotSent, UnpaidNeverSent, Sent, QueueFile
  <1>4. CASE timeout_pay_written(f)
    BY <1>1, <1>4
       DEF timeout_pay_written, Updated, Fault, TypeOK, PaidInv, Money, UnpaidNotSent, UnpaidNeverSent, Sent, QueueFile
  <1>5. CASE hook_timeout(f)
    <2>1. faults'["hook"] # 0
      BY <1>5 DEF hook_timeout, Fault, TypeOK
    <2>. QED
      BY <1>1, <1>5, <2>1 DEF hook_timeout, PaidInv, Money, UnpaidNotSent, QueueFile
  <1>6. CASE delivered(f)
    BY <1>1, <1>6
       DEF delivered, PaidInv, Money, UnpaidNotSent, UnpaidNeverSent, Sent, QueueFile
  <1>7. CASE hook_delivered(f)
    BY <1>1, <1>7
       DEF hook_delivered, Updated, Fault, TypeOK, PaidInv, Money, UnpaidNotSent, UnpaidNeverSent, Sent, QueueFile
  <1>8. CASE temp_fail(f)
    <2>1. PICK saved \in {file[f].saved, file[f].notes} :
            file' = [file EXCEPT ![f].pc = "queued", ![f].saved = saved, ![f].fails = @ + 1]
      BY <1>8 DEF temp_fail
    <2>. QED
      BY <1>1, <1>8, <2>1
         DEF temp_fail, PaidInv, Money, UnpaidNotSent, UnpaidNeverSent, Sent, QueueFile
  <1>9. CASE bounce(f)
    BY <1>1, <1>9
       DEF bounce, PaidInv, Money, UnpaidNotSent, UnpaidNeverSent, Sent, QueueFile
  <1>. QED
    BY <1>2, <1>3, <1>4, <1>5, <1>6, <1>7, <1>8, <1>9 DEF Delivery

LEMMA BrowserPaid ==
    ASSUME TypeOK, PaidInv, NEW s \in Sessions, Browser(s)
    PROVE  PaidInv'
  <1>1. session[s] \in Session /\ DOMAIN session = Sessions /\ charges \in Nat
    BY DEF TypeOK
  <1>2. CASE publish(s)
    BY <1>1, <1>2
       DEF publish, PaidInv, Money, UnpaidNotSent, UnpaidNeverSent, Sent, Session
  <1>3. CASE publish_write(s)
    BY <1>1, <1>3
       DEF publish_write, PaidInv, Money, UnpaidNotSent, UnpaidNeverSent, Sent, Session
  <1>4. CASE invoice_charge(s)
    BY <1>1, <1>4
       DEF invoice_charge, PaidInv, Money, UnpaidNotSent, UnpaidNeverSent, Sent, Session
  <1>5. CASE charge_answer(s)
    <2>1. PICK a \in ChargeAnswers :
            /\ charges' = IF a \in {"succeeded", "lost"} THEN charges + 1 ELSE charges
            /\ session' = [session EXCEPT ![s].pc = Charged(a)]
      BY <1>5 DEF charge_answer
    <2>2. Money => Money'
      BY <1>1, <2>1 DEF Money
    <2>3. Charged(a) = "paid" => Money'
      BY <1>1, <2>1, ChargedPaid DEF Money
    <2>. QED
      BY <1>1, <1>5, <2>1, <2>2, <2>3
         DEF charge_answer, PaidInv, UnpaidNotSent, UnpaidNeverSent, Sent, Session, Money
  <1>6. CASE charge_write(s)
    BY <1>1, <1>6
       DEF charge_write, PaidInv, Money, UnpaidNotSent, UnpaidNeverSent, Sent, Session
  <1>7. CASE leave(s)
    BY <1>1, <1>7
       DEF leave, PaidInv, Money, UnpaidNotSent, UnpaidNeverSent, Sent, Session
  <1>. QED
    BY <1>2, <1>3, <1>4, <1>5, <1>6, <1>7 DEF Browser

LEMMA RestPaid ==
    ASSUME TypeOK, PaidInv,
           Transaction \/ on_check_payment \/ on_check_payment_error \/ crash
             \/ web_crash \/ tick
    PROVE  PaidInv'
  <1>. USE DEF PaidInv, Money, UnpaidNotSent, UnpaidNeverSent, Sent
  <1>1. CASE hook_data_post_free \/ hook_data_post \/ hook_data_post_error \/ refused
    BY <1>1 DEF hook_data_post_free, hook_data_post, hook_data_post_error, refused
  <1>2. CASE queued
    BY <1>2 DEF queued
  <1>3. CASE on_check_payment
    BY <1>3 DEF on_check_payment
  <1>4. CASE on_check_payment_error
    BY <1>4 DEF on_check_payment_error, Fault, TypeOK
  <1>5. CASE crash
    <2>1. \A f \in Files :
            /\ file'[f].saved = file[f].saved
            /\ file'[f].notes \in {file[f].notes, file[f].saved}
            /\ file'[f].pc = "none" <=> file[f].pc = "none"
            /\ Sent(f)' => Sent(f)
      BY <1>5 DEF crash, Reloaded, TypeOK, QueueFile, Pending, Ended
    <2>2. faults'["hook"] = faults["hook"]
      BY <1>5 DEF crash, Fault, TypeOK
    <2>. QED
      BY <1>5, <2>1, <2>2 DEF crash
  <1>6. CASE web_crash
    <2>1. Money => Money'
      BY <1>6 DEF web_crash, TypeOK
    <2>2. faults'["hook"] = faults["hook"]
      BY <1>6 DEF web_crash, Fault, TypeOK
    <2>. QED
      BY <1>6, <2>1, <2>2 DEF web_crash, TypeOK, Session
  <1>7. CASE tick
    BY <1>7 DEF tick
  <1>. QED
    BY <1>1, <1>2, <1>3, <1>4, <1>5, <1>6, <1>7 DEF Transaction

(* A mail that has a price reaches a server only after the provider made a *)
(* charge for it, unless the send_email hook timed out: hook_send_email    *)
(* lets only a file with the note "invoice_paid" through, and each copy of *)
(* that status goes back to an answer of the provider.                     *)
THEOREM PaidOnly == Spec => []UnpaidNotSent
  <1>1. Init => PaidInv
    BY DEF Init, PaidInv, UnpaidNotSent, UnpaidNeverSent, Sent
  <1>2. TypeOK /\ PaidInv /\ [Next]_vars => PaidInv'
    <2>. SUFFICES ASSUME TypeOK, PaidInv, [Next]_vars PROVE PaidInv'
      OBVIOUS
    <2>1. CASE UNCHANGED vars
      BY <2>1 DEF vars, PaidInv, Money, UnpaidNotSent, UnpaidNeverSent, Sent
    <2>2. CASE Next
      BY <2>2, DeliveryPaid, BrowserPaid, RestPaid DEF Next
    <2>. QED
      BY <2>1, <2>2
  <1>3. PaidInv => UnpaidNotSent
    BY DEF PaidInv
  <1>. QED
    BY <1>1, <1>2, <1>3, TypeCorrect, PTL DEF Spec

----------------------------------------------------------------------------
(* One session is charged once.                                            *)

OneSession == \A s, t \in Sessions : s = t

(* The charge is made while the status says "opened", and its outcome is   *)
(* written before the session can ask again; no step leads back to         *)
(* "opened", as an invoice is only published when it says "created".       *)
BoughtInv ==
    /\ smtp = "data_post" =>
          charges = 0 /\ "invoice" \notin notices /\ \A s \in Sessions : session[s].pc = "away"
    /\ faults["web"] = 0 /\ OneSession =>
          /\ charges <= 1
          /\ \A s \in Sessions :
                /\ session[s].pc \in {"publishing", "charging"} => charges = 0
                /\ charges > 0 /\ status \in {"created", "opened"} =>
                      session[s].pc \in {"paid", "mispaid", "error"}

LEMMA BrowserBought ==
    ASSUME TypeOK, BoughtInv, NEW s \in Sessions, Browser(s)
    PROVE  BoughtInv'
  <1>1. session \in [Sessions -> Session] /\ charges \in Nat
    BY DEF TypeOK
  <1>2. smtp # "data_post"
    BY DEF BoughtInv, Browser, publish, publish_write, invoice_charge, charge_answer,
      charge_write, leave
  <1>3. smtp' = smtp /\ faults' = faults
    BY DEF Browser, publish, publish_write, invoice_charge, charge_answer, charge_write, leave
  <1>. SUFFICES ASSUME faults["web"] = 0, OneSession
               PROVE  /\ charges' <= 1
                      /\ \A t \in Sessions :
                            /\ session'[t].pc \in {"publishing", "charging"} => charges' = 0
                            /\ charges' > 0 /\ status' \in {"created", "opened"} =>
                                  session'[t].pc \in {"paid", "mispaid", "error"}
    BY <1>2, <1>3 DEF BoughtInv, OneSession
  <1>4. /\ charges <= 1
        /\ session[s].pc \in {"publishing", "charging"} => charges = 0
        /\ charges > 0 /\ status \in {"created", "opened"} =>
              session[s].pc \in {"paid", "mispaid", "error"}
        /\ \A t \in Sessions : t = s
    BY DEF BoughtInv, OneSession
  <1>5. CASE publish(s)
    <2>1. charges' = charges /\ status' = status
          /\ session[s].pc = "away" /\ session'[s].pc \in {"publishing", "subscribed"}
          /\ (session'[s].pc = "publishing" => status = "created")
      BY <1>1, <1>5 DEF publish, Session
    <2>2. ~(charges > 0) \/ status \notin {"created", "opened"}
      BY <1>4, <2>1
    <2>3. session'[s].pc = "publishing" => charges = 0
      BY <1>1, <2>1, <2>2
    <2>4. session'[s].pc # "charging"
      BY <2>1
    <2>. QED
      BY <1>4, <2>1, <2>2, <2>3, <2>4
  <1>6. CASE publish_write(s)
    BY <1>1, <1>4, <1>6 DEF publish_write, Session
  <1>7. CASE invoice_charge(s)
    BY <1>1, <1>4, <1>7 DEF invoice_charge, Session
  <1>8. CASE charge_answer(s)
    <2>1. charges' \in {charges, charges + 1} /\ session[s].pc = "charging"
      BY <1>8 DEF charge_answer
    <2>2. session'[s].pc \in {"paid", "mispaid", "error"}
      BY <1>1, <1>8, ChargedType DEF charge_answer, Session
    <2>. QED
      BY <1>1, <1>4, <2>1, <2>2
  <1>9. CASE charge_write(s)
    BY <1>1, <1>4, <1>9 DEF charge_write, Session
  <1>10. CASE leave(s)
    BY <1>1, <1>4, <1>10 DEF leave, Session
  <1>. QED
    BY <1>5, <1>6, <1>7, <1>8, <1>9, <1>10 DEF Browser

LEMMA DeliveryBought ==
    ASSUME TypeOK, BoughtInv, NEW f \in Files, Delivery(f)
    PROVE  BoughtInv'
  <1>1. UNCHANGED <<smtp, charges, session>> /\ status' \in {status, "timeout_pay", "delivered"}
    BY DEF Delivery, delay, hook_send_email, timeout_pay_written, hook_timeout, delivered,
      hook_delivered, Updated, temp_fail, bounce
  <1>2. "invoice" \notin notices => "invoice" \notin notices'
    BY DEF Delivery, delay, hook_send_email, timeout_pay_written, hook_timeout, delivered,
      hook_delivered, temp_fail, bounce
  <1>3. faults'["web"] = faults["web"]
    BY DEF Delivery, delay, hook_send_email, timeout_pay_written, hook_timeout, delivered,
      hook_delivered, Updated, temp_fail, bounce, Fault, TypeOK
  <1>. QED
    BY <1>1, <1>2, <1>3 DEF BoughtInv, OneSession

LEMMA RestBought ==
    ASSUME TypeOK, BoughtInv,
           Transaction \/ on_check_payment \/ on_check_payment_error \/ crash
             \/ web_crash \/ tick
    PROVE  BoughtInv'
  <1>1. CASE hook_data_post_free \/ hook_data_post \/ hook_data_post_error
    <2>1. smtp = "data_post" /\ smtp' # "data_post" /\ UNCHANGED <<charges, session, faults>>
      BY <1>1 DEF hook_data_post_free, hook_data_post, hook_data_post_error
    <2>. QED
      BY <2>1 DEF BoughtInv, OneSession
  <1>2. CASE queued \/ refused \/ on_check_payment \/ tick
    <2>1. UNCHANGED <<charges, session, faults, status, notices>>
          /\ (smtp' = "data_post" => smtp = "data_post")
      BY <1>2 DEF queued, refused, on_check_payment, tick
    <2>. QED
      BY <2>1 DEF BoughtInv, OneSession
  <1>3. CASE on_check_payment_error
    <2>1. UNCHANGED <<charges, session, status, notices, smtp>> /\ faults'["web"] = faults["web"]
      BY <1>3 DEF on_check_payment_error, Fault, TypeOK
    <2>. QED
      BY <2>1 DEF BoughtInv, OneSession
  <1>4. CASE crash
    <2>1. UNCHANGED <<charges, session, notices>> /\ faults'["web"] = faults["web"]
          /\ smtp' # "data_post" /\ status' \in {status, "timeout_pay", "delivered"}
      BY <1>4 DEF crash, Fault, TypeOK
    <2>. QED
      BY <2>1 DEF BoughtInv, OneSession
  <1>5. CASE web_crash
    <2>1. faults'["web"] # 0
      BY <1>5 DEF web_crash, Fault, TypeOK
    <2>2. smtp = "data_post" => charges' = charges /\ \A s \in Sessions : session'[s].pc = "away"
      BY <1>5 DEF web_crash, BoughtInv, TypeOK, Session
    <2>. QED
      BY <1>5, <2>1, <2>2 DEF web_crash, BoughtInv
  <1>. QED
    BY <1>1, <1>2, <1>3, <1>4, <1>5 DEF Transaction

(* A sender with one browser session pays an invoice at most once, unless  *)
(* the web server dies before it writes the outcome of a charge:           *)
(* ChargedOnce.                                                            *)
THEOREM OneCharge == Spec => []ChargedOnce
  <1>1. Init => BoughtInv
    BY DEF Init, BoughtInv
  <1>2. TypeOK /\ BoughtInv /\ [Next]_vars => BoughtInv'
    <2>. SUFFICES ASSUME TypeOK, BoughtInv, [Next]_vars PROVE BoughtInv'
      OBVIOUS
    <2>1. CASE UNCHANGED vars
      BY <2>1 DEF vars, BoughtInv, OneSession
    <2>. QED
      BY <2>1, DeliveryBought, BrowserBought, RestBought DEF Next
  <1>3. BoughtInv => ChargedOnce
    BY DEF BoughtInv, ChargedOnce, OneSession
  <1>. QED
    BY <1>1, <1>2, <1>3, TypeCorrect, PTL DEF Spec

----------------------------------------------------------------------------
(* The notice of a failure is true.                                        *)

(* With one queue file and no restart or timeout of the hook, the notice   *)
(* goes out with the step that drops the file, and that is its end.        *)
NoticeInv ==
    faults["crash"] = 0 /\ faults["hook"] = 0 /\ (\A f, g \in Files : f = g) =>
        /\ smtp \in {"data_post", "queueing"} => \A f \in Files : file[f].pc = "none"
        /\ "failed" \in notices => \A f \in Files : file[f].pc = "dropped"
        /\ Files = {} => "failed" \notin notices

LEMMA NextNotice == TypeOK /\ NoticeInv /\ [Next]_vars => NoticeInv'
  <1>. SUFFICES ASSUME TypeOK, NoticeInv, [Next]_vars,
                      faults'["crash"] = 0, faults'["hook"] = 0, \A f, g \in Files : f = g
               PROVE  /\ smtp' \in {"data_post", "queueing"} => \A f \in Files : file'[f].pc = "none"
                      /\ "failed" \in notices' => \A f \in Files : file'[f].pc = "dropped"
                      /\ Files = {} => "failed" \notin notices'
    BY DEF NoticeInv
  <1>1. file \in [Files -> QueueFile] /\ faults \in [{"crash", "web", "poll", "hook", "update"} -> Nat]
    BY DEF TypeOK
  <1>2. faults["crash"] = 0 /\ faults["hook"] = 0
    <2>1. UNCHANGED faults \/ \E k \in {"crash", "web", "poll", "hook", "update"} :
                                faults' = [faults EXCEPT ![k] = @ + 1]
      BY DEF Next, vars, Fault, Transaction, Delivery, Browser, hook_data_post_free, hook_data_post,
        hook_data_post_error, queued, refused, on_check_payment, on_check_payment_error, delay,
        hook_send_email, timeout_pay_written, hook_timeout, delivered, hook_delivered, Updated, temp_fail,
        bounce, crash, publish, publish_write, invoice_charge, charge_answer, charge_write, leave,
        web_crash, tick
    <2>. QED
      BY <1>1, <2>1
  <1>3. /\ smtp \in {"data_post", "queueing"} => \A f \in Files : file[f].pc = "none"
        /\ "failed" \in notices => \A f \in Files : file[f].pc = "dropped"
        /\ Files = {} => "failed" \notin notices
    BY <1>2 DEF NoticeInv
  <1>4. CASE hook_data_post_free \/ hook_data_post \/ hook_data_post_error \/ refused
    BY <1>3, <1>4 DEF hook_data_post_free, hook_data_post, hook_data_post_error, refused
  <1>5. CASE queued
    <2>1. smtp = "queueing" /\ smtp' = "accepted" /\ notices' = notices
      BY <1>5 DEF queued
    <2>2. Files # {} => "failed" \notin notices
      BY <1>3, <2>1
    <2>. QED
      BY <1>3, <2>1, <2>2
  <1>6. CASE \/ on_check_payment \/ on_check_payment_error \/ web_crash \/ tick
             \/ UNCHANGED vars
    BY <1>3, <1>6 DEF on_check_payment, on_check_payment_error, web_crash, tick, vars
  <1>7. ~crash
    BY <1>1 DEF crash, Fault
  <1>8. ASSUME NEW s \in Sessions, Browser(s)
        PROVE  UNCHANGED <<smtp, file, notices>>
    BY <1>8 DEF Browser, publish, publish_write, invoice_charge, charge_answer, charge_write, leave
  <1>9. ASSUME NEW f \in Files, Delivery(f)
        PROVE  /\ smtp' = smtp /\ file[f].pc \in Pending
               /\ "failed" \in notices' => "failed" \in notices \/ file'[f].pc = "dropped"
    <2>1. ~hook_timeout(f)
      BY <1>1 DEF hook_timeout, Fault
    <2>2. CASE timeout_pay_written(f)
      BY <1>1, <2>2 DEF timeout_pay_written, Pending, QueueFile
    <2>3. CASE \/ delay(f) \/ hook_send_email(f) \/ delivered(f) \/ hook_delivered(f)
               \/ temp_fail(f) \/ bounce(f)
      BY <2>3 DEF delay, hook_send_email, delivered, hook_delivered, temp_fail, bounce, Pending
    <2>. QED
      BY <1>9, <2>1, <2>2, <2>3 DEF Delivery
  <1>10. ASSUME NEW f \in Files, Delivery(f)
         PROVE  /\ smtp' \in {"data_post", "queueing"} => \A g \in Files : file'[g].pc = "none"
                /\ "failed" \in notices' => \A g \in Files : file'[g].pc = "dropped"
                /\ Files = {} => "failed" \notin notices'
    <2>1. /\ smtp' = smtp /\ file[f].pc \in Pending
          /\ "failed" \in notices' => "failed" \in notices \/ file'[f].pc = "dropped"
      BY <1>9, <1>10
    <2>2. file[f].pc # "none" /\ file[f].pc # "dropped"
      BY <2>1 DEF Pending
    <2>. QED
      BY <1>3, <2>1, <2>2
  <1>. QED
    BY <1>3, <1>4, <1>5, <1>6, <1>7, <1>8, <1>10 DEF Next, Transaction

(* A sender of a mail in one queue file who was told that it failed did    *)
(* not have it delivered, unless the mail server restarted or the          *)
(* send_email hook timed out: FailNoticeIsTrue.                            *)
THEOREM FailNotices == Spec => []FailNoticeIsTrue
  <1>1. Init => NoticeInv
    BY DEF Init, NoticeInv
  <1>2. TypeOK /\ NoticeInv /\ [Next]_vars => NoticeInv'
    BY NextNotice
  <1>3. NoticeInv => FailNoticeIsTrue
    BY DEF NoticeInv, FailNoticeIsTrue, Sent
  <1>. QED
    BY <1>1, <1>2, <1>3, TypeCorrect, PTL DEF Spec

============================================================================

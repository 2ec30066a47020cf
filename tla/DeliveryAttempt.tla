-------------------------- MODULE DeliveryAttempt --------------------------
(***************************************************************************)
(* What one delivery attempt of haraka/outbound.js promises to the queue:  *)
(* between get_mx and the end of the attempt, it ends once, and either the *)
(* whole mail is deferred, the whole mail is bounced, or every recipient   *)
(* gets one verdict of its own.  OutboundQueue builds on this; module      *)
(* OutboundSession is shown to implement it.                               *)
(***************************************************************************)
CONSTANT Rcpts

VARIABLE outcome   \* a record once the attempt is over

Verdict == {"delivered", "deferred", "rejected"}

Pending   == [kind |-> "pending"]
TempFail  == [kind |-> "temp_fail"]
Bounce    == [kind |-> "bounce"]
Finished(verdict) == [kind |-> "finished", verdict |-> verdict]

Init == outcome = Pending

End(result) == outcome = Pending /\ outcome' = result

Next ==
    \/ End(TempFail)
    \/ End(Bounce)
    \/ \E verdict \in [Rcpts -> Verdict] : End(Finished(verdict))

Spec == Init /\ [][Next]_outcome

============================================================================

-------------------------- MODULE MCOutboundQueue --------------------------
(***************************************************************************)
(* Instances of OutboundQueue for TLC: two recipients at one domain, so    *)
(* that a session can end differently for each, and a third elsewhere, so  *)
(* that two files of one message are delivered concurrently.               *)
(***************************************************************************)
EXTENDS OutboundQueue, TLC

TwoHosts == "ann" :> "x.org" @@ "bob" :> "x.org" @@ "cyd" :> "y.org"
OneHost  == "ann" :> "x.org" @@ "bob" :> "x.org"

============================================================================

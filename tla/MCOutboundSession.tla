------------------------- MODULE MCOutboundSession -------------------------
(***************************************************************************)
(* Instances of OutboundSession for TLC: an LMTP server before an MX with  *)
(* two addresses and one with none, and the LMTP server alone.             *)
(***************************************************************************)
EXTENDS OutboundSession

TwoRcpts == <<"ann", "bob">>

AllMxs  == <<[lmtp |-> TRUE, hosts |-> 1], [lmtp |-> FALSE, hosts |-> 2],
             [lmtp |-> FALSE, hosts |-> 0]>>
LmtpMxs == <<[lmtp |-> TRUE, hosts |-> 1]>>

============================================================================

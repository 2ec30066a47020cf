-------------------------- MODULE MCSmtpClientPool --------------------------
(* SmtpClientPool with interchangeable senders.                            *)
EXTENDS SmtpClientPool, TLC

Symmetry == Permutations(Conns)
=============================================================================

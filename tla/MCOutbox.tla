------------------------------- MODULE MCOutbox -------------------------------
(***************************************************************************)
(* Instances of Outbox for TLC.                                            *)
(***************************************************************************)
EXTENDS Outbox

\* the delays grow, as in retryBackoff
Growing == [n \in 1..(MaxAttempts - 1) |-> n]
===============================================================================

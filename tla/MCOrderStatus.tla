----------------------------- MODULE MCOrderStatus -----------------------------
(***************************************************************************)
(* Instances of OrderStatus for TLC.                                       *)
(***************************************************************************)
EXTENDS OrderStatus, TLC

\* what the partner API documents for POST /orders/{id}/status
Documented == {"cooking", "ready", "delivering", "delivered"}

Symmetric == Permutations(Request)
===============================================================================

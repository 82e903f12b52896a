------------------------------ MODULE OrderMachine ------------------------------
(***************************************************************************)
(* The life of an order as internal/domain/order/status.go draws it: one   *)
(* status per order, moved along the edges of the table and along nothing  *)
(* else.  OrderStatus.tla shows when the running service implements it.    *)
(***************************************************************************)
CONSTANT Order

VARIABLE status

Status == {"created", "confirmed", "cooking", "ready", "delivering", "delivered",
           "rejected", "cancelled"}

\* The venue's statuses after an order was accepted.
Kitchen == {"confirmed", "cooking", "ready", "delivering", "delivered"}

transitions ==
    [s \in Status |->
        CASE s = "created"    -> {"confirmed", "rejected", "cancelled"}
          [] s = "confirmed"  -> {"cooking", "cancelled"}
          [] s = "cooking"    -> {"ready"}
          [] s = "ready"      -> {"delivering"}
          [] s = "delivering" -> {"delivered"}
          [] OTHER            -> {}]

CanTransition(from, to) == to \in transitions[from]

Move(o) ==
    \E s \in Status :
        /\ CanTransition(status[o], s)
        /\ status' = [status EXCEPT ![o] = s]

Init == status = [o \in Order |-> "created"]

Next == \E o \in Order : Move(o)

Spec == Init /\ [][Next]_status

=================================================================================

---------------------------------- MODULE MCServer ----------------------------------
(***************************************************************************)
(* Server with two requests, one connection, and one row that belongs to   *)
(* one of two callers.                                                     *)
(***************************************************************************)
EXTENDS Server, TLC

CONSTANTS q1, q2, c1, c2, r1

FirstOwns == (r1 :> {c1})

\* One request for the operations that differ in how they write: statement by statement
\* after a check, item by item, by one conditional UPDATE, in a transaction that may
\* refuse in the middle and reads again after its end, and in one that takes from another's
\* rows; and one that needs the connection for a statement or for a transaction.  (The
\* theorems are about every plan.)
Few ==
    (q1 :> AcceptOrder \cup UpdateAvailability \cup CancelRescueOffer \cup UpdateCartItem
            \cup {p \in CreateOrder : Len(p) = 18})
        @@ (q2 :> Readyz \cup RemoveCartItem)

=============================================================================

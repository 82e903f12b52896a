------------------------------ MODULE ClientCart ------------------------------
(***************************************************************************)
(* What a client is promised about their cart: every answered request took *)
(* effect in one step on the cart the requests before it had left, and a   *)
(* refused one had no effect.  Cart.tla is shown to implement this module  *)
(* for a client who waits for each answer.                                 *)
(***************************************************************************)
EXTENDS Integers, Sequences

CONSTANTS Item, VenueOf, Quantity, NoVenue, NoItem

VARIABLES
    venue,    \* the venue the cart is pinned to
    units,    \* how many of each item it holds
    placed,   \* what each order made of it was for, in order
    reply     \* the last answer

Empty == [i \in Item |-> 0]

Answer(op, i, q) == [op |-> op, item |-> i, qty |-> q]

Refuse ==
    /\ reply' = Answer("refused", NoItem, 0)
    /\ UNCHANGED <<venue, units, placed>>

\* What is added may be negative, as long as something is left.
Add(i, q) ==
    /\ units[i] + q > 0
    /\ venue \in {NoVenue, VenueOf[i]}
    /\ venue' = VenueOf[i]
    /\ units' = [units EXCEPT ![i] = @ + q]
    /\ reply' = Answer("add", i, q)
    /\ UNCHANGED placed

Update(i, q) ==
    /\ units[i] > 0
    /\ q >= 1
    /\ units' = [units EXCEPT ![i] = q]
    /\ reply' = Answer("update", i, q)
    /\ UNCHANGED <<venue, placed>>

\* The cart stays pinned when its last line goes.
Remove(i) ==
    /\ units[i] > 0
    /\ units' = [units EXCEPT ![i] = 0]
    /\ reply' = Answer("remove", i, 0)
    /\ UNCHANGED <<venue, placed>>

Clear ==
    /\ venue' = NoVenue
    /\ units' = Empty
    /\ reply' = Answer("clear", NoItem, 0)
    /\ UNCHANGED placed

Place ==
    /\ units # Empty
    /\ placed' = placed \o <<units>>
    /\ venue' = NoVenue
    /\ units' = Empty
    /\ reply' = Answer("order", NoItem, 0)

Init ==
    /\ venue = NoVenue
    /\ units = Empty
    /\ placed = << >>
    /\ reply = Answer("none", NoItem, 0)

Next ==
    \/ \E i \in Item : Remove(i) \/ \E q \in Quantity : Add(i, q) \/ Update(i, q)
    \/ Refuse \/ Clear \/ Place

Spec == Init /\ [][Next]_<<venue, units, placed, reply>>

===============================================================================

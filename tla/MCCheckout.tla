------------------------------ MODULE MCCheckout ------------------------------
(***************************************************************************)
(* Instances of Checkout for TLC.                                          *)
(***************************************************************************)
EXTENDS Checkout, TLC

Menu(stocks) == [i \in Item |-> [price |-> 10, available |-> TRUE, stock |-> stocks[i]]]

Line(q, p, o) == [qty |-> q, price |-> p, offer |-> o]

Only(i, line) == [j \in Item |-> IF j = i THEN line ELSE Line(0, 0, NoOffer)]

NoOffers == [o \in Offer |-> 0]
NoOfferRows == [o \in Offer |-> [remaining |-> 0, cancelled |-> FALSE]]

\* checkout_orders: two items, half price for the first two units of the first
\* until the first tick; two carts that fit the stock one after the other with
\* themselves and not with each other
Rescued == Menu(<<6, 2>>)
TwoRescued == [o \in Offer |-> [remaining |-> 2, cancelled |-> FALSE]]
OfferOnFirst == [o \in Offer |-> 1]
HalfPrice == [o \in Offer |-> 50]
FromZero == [o \in Offer |-> 0]
UntilOne == [o \in Offer |-> 1]
RescueCarts == {EmptyCart, Only(2, Line(2, 10, NoOffer)),
                [i \in Item |-> IF i = 1 THEN Line(3, 5, 11) ELSE Line(1, 10, NoOffer)]}

\* checkout_answers: a row of every kind
Plenty == Menu(<<9, 9>>)

\* checkout_answers: more of one item or more of the other, the offer in one cart only
OverlappingCarts == {EmptyCart,
    [i \in Item |-> IF i = 1 THEN Line(2, 5, 11) ELSE Line(1, 10, NoOffer)],
    [i \in Item |-> IF i = 1 THEN Line(1, 10, NoOffer) ELSE Line(2, 10, NoOffer)]}

Symmetric == Permutations(Attempt) \cup Permutations(Client) \cup Permutations(Key) \cup Permutations(Hash)
===============================================================================

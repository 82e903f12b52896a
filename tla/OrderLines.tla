------------------------------ MODULE OrderLines ------------------------------
(***************************************************************************)
(* The pure part of a checkout: what one cart line costs, what can be      *)
(* wrong with it, and what an order made of the lines takes from stock.    *)
(* internal/domain/catalog (menu_item.go, rescue_offer.go) and             *)
(* internal/domain/order/checkout.go.  Rows are passed as parameters, so   *)
(* the same operators read a cart against any state of the menu.           *)
(***************************************************************************)
EXTENDS Integers, FiniteSetsExt

CONSTANTS
    Item,        \* menu item ids; row locks are taken in ascending order
    Offer,       \* rescue offer ids
    OfferItem,   \* the menu item an offer discounts
    Discount,    \* an offer's discount in percent
    OfferStart,  \* the instants between which an offer's window is open
    OfferEnd,
    Unlimited,   \* stock_qty IS NULL
    NoOffer      \* a line whose price snapshot used no offer

ASSUME IdAssumption ==
    /\ Item \subseteq Nat
    /\ Offer \subseteq Nat
    /\ NoOffer \notin Offer
    /\ Unlimited \notin Int

ASSUME OfferAssumption ==
    /\ OfferItem \in [Offer -> Item]
    /\ Discount \in [Offer -> 1..90]
    /\ OfferStart \in [Offer -> Nat]
    /\ OfferEnd \in [Offer -> Nat]

-----------------------------------------------------------------------------

MenuRow == [price: Nat, available: BOOLEAN, stock: Int \cup {Unlimited}]

OfferRow == [remaining: Int, cancelled: BOOLEAN]

\* A line's offer, when it has one, is an offer on the line's own item.
OwnOffers(lines) == \A i \in Item : lines[i].offer # NoOffer => OfferItem[lines[i].offer] = i

\* A cart maps every item to its line; quantity 0 stands for "no line", since
\* cart_items is unique on (cart_id, menu_item_id).  A line remembers the offer
\* its price snapshot was computed from.
CartLine == [qty: Nat, price: Nat, offer: Offer \cup {NoOffer}]

Cart == {c \in [Item -> CartLine] : OwnOffers(c)}

EmptyCart == [i \in Item |-> [qty |-> 0, price |-> 0, offer |-> NoOffer]]

LinesOf(c) == {i \in Item : c[i].qty > 0}

OffersOf(c) == {c[i].offer : i \in LinesOf(c)} \ {NoOffer}

-----------------------------------------------------------------------------

WindowValid(o, offers, at) ==
    /\ ~offers[o].cancelled
    /\ OfferStart[o] <= at
    /\ at < OfferEnd[o]

DiscountedPrice(o, price) == (price * (100 - Discount[o])) \div 100

EnsurePriceUnchanged(line, row) == row.price = line.price

EnoughStock(line, row) == row.stock = Unlimited \/ row.stock >= line.qty

\* The problems a cart can have against the rows `items' and `offers' read at
\* instant `at'.  A line stops at its first problem and Checkout reports the
\* first code of its own list that some line has; both orders are the order of
\* Priority, so what is reported is the least code over all lines.
Priority == [RESCUE_OFFER_EXPIRED |-> 1, PRICE_CHANGED |-> 2,
             ITEM_UNAVAILABLE |-> 3, INSUFFICIENT_STOCK |-> 4]

Suffers(line, code, items, offers, i, at) ==
    \/ /\ code = "RESCUE_OFFER_EXPIRED"
       /\ line.offer # NoOffer
       /\ ~WindowValid(line.offer, offers, at)
    \/ /\ code = "PRICE_CHANGED"
       /\ line.offer = NoOffer
       /\ ~EnsurePriceUnchanged(line, items[i])
    \/ /\ code = "ITEM_UNAVAILABLE"
       /\ ~items[i].available
    \/ /\ code = "INSUFFICIENT_STOCK"
       /\ ~EnoughStock(line, items[i])

Problems(c, items, offers, at) ==
    {code \in DOMAIN Priority :
        \E i \in LinesOf(c) : Suffers(c[i], code, items, offers, i, at)}

Reported(problems) ==
    CHOOSE code \in problems : \A other \in problems : Priority[code] <= Priority[other]

-----------------------------------------------------------------------------

\* An order's line for one item: `rescued' of its units at the offer's price,
\* the rest at the ordinary one (two order_items rows when both are positive).
OrderLine == [qty: Nat, price: Nat, offer: Offer \cup {NoOffer},
              rescued: Int, rescuePrice: Int]

Lines == {l \in [Item -> OrderLine] : OwnOffers(l)}

Least(a, b) == IF a <= b THEN a ELSE b

\* applyRescuePricing charges the item's current price, the ordinary line the
\* cart's snapshot; only a line with an offer is split.
PriceLine(line, row, offers) ==
    IF line.offer = NoOffer
    THEN [qty |-> line.qty, price |-> line.price, offer |-> NoOffer,
          rescued |-> 0, rescuePrice |-> 0]
    ELSE [qty |-> line.qty, price |-> row.price, offer |-> line.offer,
          rescued |-> Least(line.qty, offers[line.offer].remaining),
          rescuePrice |-> DiscountedPrice(line.offer, row.price)]

PriceCart(c, items, offers) == [i \in Item |-> PriceLine(c[i], items[i], offers)]

LineTotal(l) == l.rescued * l.rescuePrice + (l.qty - l.rescued) * l.price

TotalMinor(lines) == MapThenSumSet(LAMBDA i : LineTotal(lines[i]), Item)

\* Mutant: one unit is taken per line, whatever its quantity.
DecrementStockByOne(lines, items) ==
    [i \in Item |->
        IF items[i].stock = Unlimited \/ lines[i].qty = 0
        THEN items[i]
        ELSE [items[i] EXCEPT !.stock = @ - 1]]

\* What the lines take from the two stocks.
DecrementStock(lines, items) ==
    [i \in Item |->
        IF items[i].stock = Unlimited
        THEN items[i]
        ELSE [items[i] EXCEPT !.stock = @ - lines[i].qty]]

Redeemed(lines, o) ==
    IF lines[OfferItem[o]].offer = o THEN lines[OfferItem[o]].rescued ELSE 0

\* Mutant: the offer pays for every unit of its line.
DecrementWholeLine(lines, offers) ==
    [o \in Offer |-> [offers[o] EXCEPT !.remaining = @ -
        (IF lines[OfferItem[o]].offer = o THEN lines[OfferItem[o]].qty ELSE 0)]]

DecrementRemaining(lines, offers) ==
    [o \in Offer |-> [offers[o] EXCEPT !.remaining = @ - Redeemed(lines, o)]]

StockChanged(lines, items) ==
    \E i \in LinesOf(lines) : items[i].stock # Unlimited

===============================================================================

------------------------------ MODULE OrderLedger ------------------------------
(***************************************************************************)
(* What checkout promises, with no transaction, lock or intermediate       *)
(* state: an order comes into being in one step, against the menu of that  *)
(* very step, together with its outbox event and its idempotency key.      *)
(* Checkout.tla is shown to implement this module.                         *)
(***************************************************************************)
EXTENDS OrderLines

CONSTANTS
    Attempt,  \* POST /orders requests; an order is known by the attempt that made it
    Client,
    Key,      \* Idempotency-Key header values
    Hash,     \* hashes of the request body
    NoOrder,
    NoKey     \* no row in idempotency_keys

VARIABLES item, offer, orders, keys, events

ledger == <<item, offer, orders, keys, events>>

Order == [client: Client, key: Key, hash: Hash, lines: Lines]

KeyRow == [hash: Hash, order: Attempt]

-----------------------------------------------------------------------------

\* The lines are what this step's menu sells at this step's prices.
Sellable(lines) ==
    \A i \in LinesOf(lines) :
        /\ item[i].available
        /\ EnoughStock(lines[i], item[i])
        /\ lines[i].price = item[i].price
        /\ LET o == lines[i].offer IN
           IF o = NoOffer
           THEN lines[i].rescued = 0
           ELSE /\ ~offer[o].cancelled
                /\ lines[i].rescued = Least(lines[i].qty, offer[o].remaining)
                /\ lines[i].rescuePrice = DiscountedPrice(o, item[i].price)

\* The step is written as a relation between the two states, the new row read
\* off the second one, so that TLC can evaluate it on the steps of Checkout.
Place(t) ==
    LET new == orders'[t] IN
    /\ orders[t] = NoOrder
    /\ new \in Order
    /\ keys[<<new.client, new.key>>] = NoKey
    /\ LinesOf(new.lines) # {}
    /\ Sellable(new.lines)
    /\ orders' = [orders EXCEPT ![t] = new]
    /\ keys' = [keys EXCEPT ![<<new.client, new.key>>] = [hash |-> new.hash, order |-> t]]
    /\ events' = events \cup {t}
    /\ item' = DecrementStock(new.lines, item)
    /\ offer' = DecrementRemaining(new.lines, offer)

\* The venue's own edits of the menu: an item's price, stop-list flag and
\* stock, the cancellation of an offer.
EditItem(i) ==
    /\ item'[i] \in MenuRow
    /\ item'[i].stock # Unlimited => item'[i].stock >= 0
    /\ item' = [item EXCEPT ![i] = item'[i]]
    /\ UNCHANGED <<offer, orders, keys, events>>

CancelOffer(o) ==
    /\ offer' = [offer EXCEPT ![o].cancelled = TRUE]
    /\ UNCHANGED <<item, orders, keys, events>>

Init ==
    /\ item \in [Item -> MenuRow]
    /\ offer \in [Offer -> OfferRow]
    /\ orders = [t \in Attempt |-> NoOrder]
    /\ keys = [ck \in Client \X Key |-> NoKey]
    /\ events = {}

Next ==
    \/ \E t \in Attempt : Place(t)
    \/ \E i \in Item : EditItem(i)
    \/ \E o \in Offer : CancelOffer(o)

Spec == Init /\ [][Next]_ledger

===============================================================================

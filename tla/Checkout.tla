-------------------------------- MODULE Checkout --------------------------------
(***************************************************************************)
(* CheckoutService.PlaceOrder as it runs: one READ COMMITTED transaction   *)
(* per POST /orders, statement by statement, on PostgreSQL row locks,      *)
(* interleaved with other checkouts, with the customer changing the cart   *)
(* and with the venue editing its menu.  A transaction's writes become     *)
(* visible at Commit; until then others see only the locks it holds.       *)
(*                                                                         *)
(* One venue: checkouts at two venues share no row but a client's cart.    *)
(***************************************************************************)
EXTENDS OrderLines

CONSTANTS
    Attempt,      \* POST /orders requests, each its own transaction and order id
    Client,
    Key,          \* Idempotency-Key header values
    Hash,         \* hashes of the request body
    NoOrder,
    NoKey,        \* no row in idempotency_keys
    Carts,        \* what the cart service may save for a client
    InitItem,     \* menu_items at the start
    InitOffer,    \* rescue_offers at the start
    Prices,       \* prices and stocks the venue may set
    StockValues,
    MinOrder,     \* venues.min_order_amount_minor
    MaxClock      \* bound on time

ASSUME CartsAssumption == Carts \subseteq Cart /\ EmptyCart \in Carts

ASSUME MenuAssumption ==
    /\ InitItem \in [Item -> MenuRow]
    /\ \A i \in Item : InitItem[i].stock # Unlimited => InitItem[i].stock >= 0
    /\ InitOffer \in [Offer -> OfferRow]
    /\ \A o \in Offer : InitOffer[o].remaining >= 0
    /\ Prices \subseteq Nat
    /\ StockValues \subseteq Nat \cup {Unlimited}
    /\ MaxClock \in Nat

VARIABLES
    \* committed rows
    item,         \* menu_items
    offer,        \* rescue_offers
    orders,       \* orders and order_items
    keys,         \* idempotency_keys
    events,       \* orders with an order.created row in outbox_events
    cart,         \* carts and cart_items, per client
    venueOpen,    \* the venue accepts orders and its schedule is open
    clock,
    \* a checkout's own state
    pc, req, seen, now, lines, held, answer

Ledger == INSTANCE OrderLedger

ASSUME NullAssumption ==
    /\ NoOrder \notin Attempt \cup Ledger!Order
    /\ NoKey \notin Ledger!KeyRow

ledger == <<item, offer, orders, keys, events>>

tx == <<pc, req, seen, now, lines, held, answer>>

rest == <<cart, venueOpen, clock>>

vars == <<ledger, cart, venueOpen, clock, tx>>

-----------------------------------------------------------------------------
(* Row locks *)

ItemRow(i) == <<"menu_items", i>>
OfferRowOf(o) == <<"rescue_offers", o>>
VenueRow == <<"venues">>
CartRow(c) == <<"carts", c>>
IdempotencyRow(ck) == <<"idempotency_keys", ck>>

Row == {ItemRow(i) : i \in Item} \cup {OfferRowOf(o) : o \in Offer}
         \cup {CartRow(c) : c \in Client}
         \cup {IdempotencyRow(ck) : ck \in Client \X Key} \cup {VenueRow}

Unlocked(row) == \A t \in Attempt : row \notin held[t]

KeyOf(t) == <<req[t].client, req[t].key>>

\* Mutant: menu items are read without FOR UPDATE.
ItemsUnlocked(t) == {}

ItemsToLock(t) == {i \in LinesOf(seen[t]) : ItemRow(i) \notin held[t]}

\* Mutant: rescue offers are read without FOR UPDATE.
OffersUnlocked(t) == {}

OffersToLock(t) == {o \in OffersOf(seen[t]) : OfferRowOf(o) \notin held[t]}

\* Mutant: item rows are locked by the quantity ordered, not by id.
RequestedByQuantity(t) ==
    LET after(i) == {j \in ItemsToLock(t) : seen[t][j].qty > seen[t][i].qty}
    IN  IF pc[t] = "lock" THEN {ItemRow(i) : i \in {j \in ItemsToLock(t) : after(j) = {}}} ELSE {}

\* The row whose lock t asks for next, as a set of at most one row: the key
\* inserted first, menu items in id order, then offers in id order, the venue
\* if a finite stock changes, the cart last.
Requested(t) ==
    CASE pc[t] = "claim" -> {IdempotencyRow(KeyOf(t))}
      [] pc[t] = "lock"  ->
           IF ItemsToLock(t) # {}
           THEN {ItemRow(i) : i \in {j \in ItemsToLock(t) : \A k \in ItemsToLock(t) : j <= k}}
           ELSE {OfferRowOf(o) : o \in {p \in OffersToLock(t) : \A q \in OffersToLock(t) : p <= q}}
      [] pc[t] = "bump"  -> IF StockChanged(lines[t], item) THEN {VenueRow} ELSE {}
      [] pc[t] = "clear" -> {CartRow(req[t].client)}
      [] OTHER -> {}

\* Mutant: no unique index on (client_id, key), so the claim waits for nobody.
CanLockDuplicate(t) ==
    pc[t] = "claim" \/ \A row \in Requested(t) : \A u \in Attempt \ {t} : row \notin held[u]

CanLock(t) == \A row \in Requested(t) : \A u \in Attempt \ {t} : row \notin held[u]

-----------------------------------------------------------------------------

Steps == {"idle", "claim", "cart", "venue", "lock", "bump", "clear", "commit", "done"}

InFlight(t) == pc[t] \notin {"idle", "done"}

ErrorCode == {"IDEMPOTENCY_KEY_CONFLICT", "CART_EMPTY", "VENUE_CLOSED",
              "MIN_ORDER_AMOUNT_NOT_REACHED", "INTERNAL"} \cup DOMAIN Priority

Request == [client: Client, key: Key, hash: Hash]

NoAnswer == [code |-> "NONE", order |-> NoOrder]

Answer == [code: {"NONE", "CREATED", "REPLAYED"} \cup ErrorCode, order: Attempt \cup {NoOrder}]

\* Mutant: the transaction is neither committed nor rolled back.
FinishLeaking(t, code, order) ==
    /\ pc' = [pc EXCEPT ![t] = "done"]
    /\ answer' = [answer EXCEPT ![t] = [code |-> code, order |-> order]]
    /\ UNCHANGED held

Finish(t, code, order) ==
    /\ pc' = [pc EXCEPT ![t] = "done"]
    /\ held' = [held EXCEPT ![t] = {}]
    /\ answer' = [answer EXCEPT ![t] = [code |-> code, order |-> order]]

\* An error returned from the transaction function rolls everything back.
Fail(t, code) ==
    /\ Finish(t, code, NoOrder)
    /\ UNCHANGED <<ledger, cart, venueOpen, clock, req, seen, now, lines>>

Goto(t, step) ==
    /\ pc' = [pc EXCEPT ![t] = step]
    /\ UNCHANGED answer

Lock(t) == held' = [held EXCEPT ![t] = @ \cup Requested(t)]

-----------------------------------------------------------------------------
(* The statements of PlaceOrder *)

Begin(t) ==
    /\ pc[t] = "idle"
    /\ Goto(t, "claim")
    /\ UNCHANGED <<ledger, rest, req, seen, now, lines, held>>

\* INSERT ... ON CONFLICT DO NOTHING: waits for an uncommitted row with the
\* same key, and inserts when there is no committed one.
ClaimKey(t) ==
    /\ pc[t] = "claim"
    /\ keys[KeyOf(t)] = NoKey
    /\ CanLock(t)
    /\ Lock(t)
    /\ Goto(t, "cart")
    /\ UNCHANGED <<ledger, rest, req, seen, now, lines>>

RejectReusedKey(t) ==
    /\ pc[t] = "claim"
    /\ keys[KeyOf(t)] # NoKey
    /\ keys[KeyOf(t)].hash # req[t].hash
    /\ Fail(t, "IDEMPOTENCY_KEY_CONFLICT")

\* Mutant: the stored hash is not compared.
ReplayAnyOrder(t) ==
    /\ pc[t] = "claim"
    /\ keys[KeyOf(t)] # NoKey
    /\ Finish(t, "REPLAYED", keys[KeyOf(t)].order)
    /\ UNCHANGED <<ledger, rest, req, seen, now, lines>>

ReplayOrder(t) ==
    /\ pc[t] = "claim"
    /\ keys[KeyOf(t)] # NoKey
    /\ keys[KeyOf(t)].hash = req[t].hash
    /\ Finish(t, "REPLAYED", keys[KeyOf(t)].order)
    /\ UNCHANGED <<ledger, rest, req, seen, now, lines>>

\* carts.Get takes no lock.
ReadCart(t) ==
    /\ pc[t] = "cart"
    /\ IF LinesOf(cart[req[t].client]) = {}
       THEN Fail(t, "CART_EMPTY")
       ELSE /\ seen' = [seen EXCEPT ![t] = cart[req[t].client]]
            /\ Goto(t, "venue")
            /\ UNCHANGED <<ledger, rest, req, now, lines, held>>

\* venues.Get takes no lock either, and the instant every offer window will be
\* judged by is taken here, before the waits for row locks.
ReadVenue(t) ==
    /\ pc[t] = "venue"
    /\ IF ~venueOpen
       THEN Fail(t, "VENUE_CLOSED")
       ELSE /\ now' = [now EXCEPT ![t] = clock]
            /\ Goto(t, "lock")
            /\ UNCHANGED <<ledger, rest, req, seen, lines, held>>

\* LockForCheckout of menu items, then of rescue offers: one row at a time.
LockRow(t) ==
    /\ pc[t] = "lock"
    /\ Requested(t) # {}
    /\ CanLock(t)
    /\ Lock(t)
    /\ UNCHANGED <<ledger, rest, pc, req, seen, now, lines, answer>>

\* With every row locked: build the lines, check them all, check the minimum.
PriceLines(t) ==
    /\ pc[t] = "lock"
    /\ ItemsToLock(t) = {}
    /\ OffersToLock(t) = {}
    /\ LET problems == Problems(seen[t], item, offer, now[t])
           priced == PriceCart(seen[t], item, offer)
       IN  IF problems # {}
           THEN Fail(t, Reported(problems))
           ELSE IF TotalMinor(priced) < MinOrder
           THEN Fail(t, "MIN_ORDER_AMOUNT_NOT_REACHED")
           ELSE /\ lines' = [lines EXCEPT ![t] = priced]
                /\ Goto(t, "bump")
                /\ UNCHANGED <<ledger, rest, req, seen, now, held>>

\* Both stocks are decremented (on locked rows, so without waiting), then
\* venues.menu_version is bumped, which waits for another checkout that bumped
\* it.  The counter's own story is MenuCache; here only its lock matters.
BumpMenuVersion(t) ==
    /\ pc[t] = "bump"
    /\ CanLock(t)
    /\ Lock(t)
    /\ Goto(t, "clear")
    /\ UNCHANGED <<ledger, rest, req, seen, now, lines>>

\* orders.Create, outbox.Enqueue and LinkOrder wait for nobody; the DELETE of
\* the cart locks its row.
ClearCart(t) ==
    /\ pc[t] = "clear"
    /\ CanLock(t)
    /\ Lock(t)
    /\ Goto(t, "commit")
    /\ UNCHANGED <<ledger, rest, req, seen, now, lines>>

NewOrder(t) == [client |-> req[t].client, key |-> req[t].key, hash |-> req[t].hash,
                lines |-> lines[t]]

EnqueueCreated(t) == events \cup {t}

LinkOrder(t) == [keys EXCEPT ![KeyOf(t)] = [hash |-> req[t].hash, order |-> t]]

\* COMMIT publishes every write of the transaction at once.
Commit(t) ==
    /\ pc[t] = "commit"
    /\ item' = DecrementStock(lines[t], item)
    /\ offer' = DecrementRemaining(lines[t], offer)
    /\ orders' = [orders EXCEPT ![t] = NewOrder(t)]
    /\ events' = EnqueueCreated(t)
    /\ keys' = LinkOrder(t)
    /\ cart' = [cart EXCEPT ![req[t].client] = EmptyCart]
    /\ Finish(t, "CREATED", t)
    /\ UNCHANGED <<venueOpen, clock, req, seen, now, lines>>

\* Mutant: the claim was committed by a transaction of its own.
RollbackKeepingClaim(t) ==
    /\ InFlight(t)
    /\ pc[t] # "claim"
    /\ Finish(t, "INTERNAL", NoOrder)
    /\ keys' = [keys EXCEPT ![KeyOf(t)] = [hash |-> req[t].hash, order |-> t]]
    /\ UNCHANGED <<item, offer, orders, events, rest, req, seen, now, lines>>

\* The process dies, the request is cancelled, a statement fails or the
\* transaction is chosen as a deadlock victim.
Rollback(t) ==
    /\ InFlight(t)
    /\ Fail(t, "INTERNAL")

-----------------------------------------------------------------------------
(* Everyone else *)

\* A cart mutation saves a whole cart.  Its transaction locks the cart row and,
\* through foreign keys, the item and offer rows of its lines; it is one step
\* here, so it happens only when it would not wait.
SaveCart(c) ==
    /\ Unlocked(CartRow(c))
    /\ \E new \in Carts :
        /\ \A i \in LinesOf(new) : Unlocked(ItemRow(i))
        /\ \A o \in OffersOf(new) : Unlocked(OfferRowOf(o))
        /\ cart' = [cart EXCEPT ![c] = new]
    /\ UNCHANGED <<ledger, venueOpen, clock, tx>>

\* Single autocommitted UPDATEs of the partner API; each waits for the row.
PartnerSetsPrice(i) ==
    /\ Unlocked(ItemRow(i))
    /\ \E p \in Prices : item' = [item EXCEPT ![i].price = p]
    /\ UNCHANGED <<offer, orders, keys, events, cart, venueOpen, clock, tx>>

\* The HTTP handler always asks for a stock value, NULL when the body had none.
PartnerSetsAvailability(i) ==
    /\ Unlocked(ItemRow(i))
    /\ \E s \in StockValues, a \in BOOLEAN :
        item' = [item EXCEPT ![i].stock = s, ![i].available = a]
    /\ UNCHANGED <<offer, orders, keys, events, cart, venueOpen, clock, tx>>

PartnerCancelsOffer(o) ==
    /\ Unlocked(OfferRowOf(o))
    /\ offer' = [offer EXCEPT ![o].cancelled = TRUE]
    /\ UNCHANGED <<item, orders, keys, events, cart, venueOpen, clock, tx>>

PartnerSetsOpen ==
    /\ Unlocked(VenueRow)
    /\ venueOpen' = ~venueOpen
    /\ UNCHANGED <<ledger, cart, clock, tx>>

Tick ==
    /\ clock < MaxClock
    /\ clock' = clock + 1
    /\ UNCHANGED <<ledger, cart, venueOpen, tx>>

-----------------------------------------------------------------------------

Init ==
    /\ item = InitItem
    /\ offer = InitOffer
    /\ orders = [t \in Attempt |-> NoOrder]
    /\ keys = [ck \in Client \X Key |-> NoKey]
    /\ events = {}
    /\ cart \in [Client -> Carts]
    /\ venueOpen = TRUE
    /\ clock = 0
    /\ pc = [t \in Attempt |-> "idle"]
    /\ req \in [Attempt -> Request]   \* what each attempt will ask, any request
    /\ seen = [t \in Attempt |-> EmptyCart]
    /\ now = [t \in Attempt |-> 0]
    /\ lines = [t \in Attempt |-> PriceCart(EmptyCart, item, offer)]
    /\ held = [t \in Attempt |-> {}]
    /\ answer = [t \in Attempt |-> NoAnswer]

\* What the server does for an attempt once the request is in.
Progress(t) ==
    \/ ClaimKey(t) \/ RejectReusedKey(t) \/ ReplayOrder(t)
    \/ ReadCart(t) \/ ReadVenue(t) \/ LockRow(t) \/ PriceLines(t)
    \/ BumpMenuVersion(t) \/ ClearCart(t) \/ Commit(t)

Environment ==
    \/ \E c \in Client : SaveCart(c)
    \/ \E i \in Item : PartnerSetsPrice(i) \/ PartnerSetsAvailability(i)
    \/ \E o \in Offer : PartnerCancelsOffer(o)
    \/ PartnerSetsOpen
    \/ Tick

Next ==
    \/ \E t \in Attempt : Begin(t) \/ Progress(t) \/ Rollback(t)
    \/ Environment

Spec == Init /\ [][Next]_vars

\* Every request the server has accepted keeps executing statements.
FairSpec == Spec /\ \A t \in Attempt : WF_vars(Progress(t))

-----------------------------------------------------------------------------
(* Properties *)

\* Every variable ranges over what the schema and the Go types allow, stock
\* and remaining_quantity as unconstrained integers.
TypeOK ==
    /\ item \in [Item -> MenuRow]
    /\ offer \in [Offer -> OfferRow]
    /\ orders \in [Attempt -> Ledger!Order \cup {NoOrder}]
    /\ keys \in [Client \X Key -> Ledger!KeyRow \cup {NoKey}]
    /\ events \subseteq Attempt
    /\ cart \in [Client -> Carts]
    /\ venueOpen \in BOOLEAN
    /\ clock \in Nat
    /\ pc \in [Attempt -> Steps]
    /\ req \in [Attempt -> Request]
    /\ seen \in [Attempt -> Carts]
    /\ now \in [Attempt -> Nat]
    /\ lines \in [Attempt -> Lines]
    /\ held \in [Attempt -> SUBSET Row]
    /\ answer \in [Attempt -> Answer]

\* Stock checked under the row locks is still there when it is taken: no
\* interleaving of checkouts and venue edits drives stock_qty or
\* remaining_quantity below zero, so the CHECK constraints behind them
\* never have to fire.
NeverOversold ==
    /\ \A i \in Item : item[i].stock # Unlimited => item[i].stock >= 0
    /\ \A o \in Offer : offer[o].remaining >= 0

\* Concurrent duplicates of one request make one order: two orders of a
\* client never carry the same idempotency key.
OneOrderPerKey ==
    \A t, u \in Attempt :
        /\ orders[t] # NoOrder
        /\ orders[u] # NoOrder
        /\ orders[t].client = orders[u].client
        /\ orders[t].key = orders[u].key
        => t = u

\* A committed key always leads to the order made under it, with the hash of
\* the request that made it: it is never seen claimed but unlinked, and a
\* failed attempt leaves none behind.
KeysAreLinked ==
    \A c \in Client, k \in Key :
        keys[<<c, k>>] # NoKey =>
            LET row == keys[<<c, k>>] IN
            /\ orders[row.order] # NoOrder
            /\ orders[row.order].client = c
            /\ orders[row.order].key = k
            /\ orders[row.order].hash = row.hash

\* The kitchen is told of exactly the orders that exist: there is an
\* order.created event for an order if and only if the order is committed.
EventsMatchOrders == events = {t \in Attempt : orders[t] # NoOrder}

\* A checkout leaves its key, its order and its event, or nothing of the three,
\* wherever it fails or is cut off.
CommittedWhole == KeysAreLinked /\ EventsMatchOrders

\* A 200 replay answers with the order this very request made earlier: same
\* client, same key, same body.
ReplaysAreGenuine ==
    \A t \in Attempt :
        answer[t].code = "REPLAYED" =>
            LET o == orders[answer[t].order] IN
            /\ answer[t].order \in Attempt
            /\ o # NoOrder
            /\ o.client = req[t].client
            /\ o.key = req[t].key
            /\ o.hash = req[t].hash

\* Checkouts never deadlock on each other's row locks, whatever their carts
\* hold: among any set of waiting checkouts one waits for none of the others.
WaitsFor(t, u) == u # t /\ Requested(t) \cap held[u] # {}

NoWaitCycle ==
    \A waiting \in SUBSET {t \in Attempt : InFlight(t)} :
        waiting # {} => \E t \in waiting : \A u \in waiting : ~WaitsFor(t, u)

Placed == {t \in Attempt : orders[t] # NoOrder}

\* Every portion an offer gave away is on an order, and no portion is given
\* twice: remaining_quantity is moved by checkouts only.
RescueUnitsAccounted ==
    \A o \in Offer :
        offer[o].remaining
          + SumFunction([t \in Placed |-> Redeemed(orders[t].lines, o)])
        = InitOffer[o].remaining

\* The same for finite stock, while the venue sets no stock itself.
StockAccounted ==
    \A i \in Item : InitItem[i].stock # Unlimited =>
        item[i].stock
          + SumFunction([t \in Placed |-> orders[t].lines[i].qty])
        = InitItem[i].stock

\* Checkout behaves as if each order were placed in one atomic step against
\* the menu of that step.
LedgerSpec == Ledger!Spec

\* A checkout that was begun is answered: no lock is waited for forever.
EveryAttemptAnswered == \A t \in Attempt : InFlight(t) ~> (pc[t] = "done")

\* A unit at a rescue price costs what the cart showed: a discounted price that
\* changed is reported, never charged silently.
ChargedAsShown ==
    \A t \in Attempt : orders[t] # NoOrder =>
        \A i \in Item : orders[t].lines[i].rescued > 0 =>
            orders[t].lines[i].rescuePrice = seen[t][i].price

-----------------------------------------------------------------------------
(* The inductive invariant behind the safety properties *)

\* No row is locked by two transactions.
LocksExclusive == \A t, u \in Attempt : t # u => held[t] \cap held[u] = {}

\* What a transaction must hold by the time it has reached a step.
LocksHeld ==
    \A t \in Attempt :
        /\ pc[t] \in {"cart", "venue", "lock", "bump", "clear", "commit"}
             => IdempotencyRow(KeyOf(t)) \in held[t]
        /\ pc[t] \in {"bump", "clear", "commit"}
             => /\ \A i \in LinesOf(seen[t]) : ItemRow(i) \in held[t]
                /\ \A o \in OffersOf(seen[t]) : OfferRowOf(o) \in held[t]

\* While a transaction holds its key, nobody has committed that key.
ClaimedKeysFree ==
    \A t \in Attempt : IdempotencyRow(KeyOf(t)) \in held[t] => keys[KeyOf(t)] = NoKey

\* No transaction gets past an empty cart.
CartsSeen ==
    \A t \in Attempt : pc[t] \in {"venue", "lock", "bump", "clear", "commit"}
        => LinesOf(seen[t]) # {}

\* Once priced, an order is sellable against the rows as they still are.
PricedIsCurrent ==
    \A t \in Attempt : pc[t] \in {"bump", "clear", "commit"} =>
        /\ Problems(seen[t], item, offer, now[t]) = {}
        /\ \A i \in LinesOf(seen[t]) : lines[t][i] = PriceLine(seen[t][i], item[i], offer)
        /\ \A i \in Item \ LinesOf(seen[t]) : lines[t][i].qty = 0 /\ lines[t][i].rescued = 0

\* An order exists only for an attempt that has ended, and its key row names it.
OrdersHaveKeys ==
    \A t \in Attempt : orders[t] # NoOrder =>
        /\ pc[t] = "done"
        /\ keys[<<orders[t].client, orders[t].key>>] = [hash |-> orders[t].hash, order |-> t]

IInv ==
    /\ TypeOK
    /\ LocksExclusive
    /\ LocksHeld
    /\ ClaimedKeysFree
    /\ CartsSeen
    /\ PricedIsCurrent
    /\ OrdersHaveKeys
    /\ KeysAreLinked
    /\ NeverOversold
    /\ EventsMatchOrders
    /\ ReplaysAreGenuine

===============================================================================

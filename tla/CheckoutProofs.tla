---------------------------- MODULE CheckoutProofs ----------------------------
(***************************************************************************)
(* Theorems about Checkout, for every set of attempts, clients, items and  *)
(* offers.                                                                 *)
(***************************************************************************)
EXTENDS Checkout, FiniteSetTheorems, TLAPS

(***************************************************************************)
(* Lemmas about the operators on lines                                     *)
(***************************************************************************)

\* A price taken off by a discount is an integer.
LEMMA DiscountedPriceType ==
    ASSUME NEW o \in Offer, NEW price \in Nat
    PROVE  DiscountedPrice(o, price) \in Int
<1>1. 100 - Discount[o] \in Int
  BY OfferAssumption
<1>2. price * (100 - Discount[o]) \in Int
  BY <1>1
<1> QED
  BY <1>2 DEF DiscountedPrice

\* Pricing a cart gives well-formed order lines.
LEMMA PriceCartType ==
    ASSUME NEW c \in Cart, NEW items \in [Item -> MenuRow], NEW offers \in [Offer -> OfferRow]
    PROVE  PriceCart(c, items, offers) \in Lines
<1>1. ASSUME NEW i \in Item
      PROVE  /\ PriceLine(c[i], items[i], offers) \in OrderLine
             /\ PriceLine(c[i], items[i], offers).offer = c[i].offer
  <2> c[i] \in CartLine /\ items[i] \in MenuRow
    BY DEF Cart
  <2>1. CASE c[i].offer = NoOffer
    BY <2>1 DEF PriceLine, OrderLine, CartLine
  <2>2. CASE c[i].offer # NoOffer
    <3>1. c[i].offer \in Offer /\ c[i].qty \in Nat /\ items[i].price \in Nat
      BY <2>2 DEF CartLine, MenuRow
    <3>2. offers[c[i].offer].remaining \in Int
      BY <3>1 DEF OfferRow
    <3>3. DiscountedPrice(c[i].offer, items[i].price) \in Int
      BY <3>1, DiscountedPriceType
    <3> QED
      BY <2>2, <3>1, <3>2, <3>3 DEF PriceLine, OrderLine, Least
  <2> QED
    BY <2>1, <2>2
<1> QED
  BY <1>1 DEF PriceCart, Lines, Cart, OwnOffers

\* Two menus that agree on the rows of a cart price it alike and find the same
\* problems in it.
LEMMA SameRowsSamePrices ==
    ASSUME NEW c \in Cart, NEW items, NEW offers, NEW items2, NEW offers2, NEW at,
           \A i \in LinesOf(c) : items2[i] = items[i],
           \A o \in OffersOf(c) : offers2[o] = offers[o]
    PROVE  /\ Problems(c, items2, offers2, at) = Problems(c, items, offers, at)
           /\ \A i \in LinesOf(c) :
                 PriceLine(c[i], items2[i], offers2) = PriceLine(c[i], items[i], offers)
<1>1. ASSUME NEW i \in LinesOf(c), c[i].offer # NoOffer
      PROVE  offers2[c[i].offer] = offers[c[i].offer]
  BY <1>1 DEF OffersOf
<1>2. ASSUME NEW i \in LinesOf(c)
      PROVE  PriceLine(c[i], items2[i], offers2) = PriceLine(c[i], items[i], offers)
  BY <1>1 DEF PriceLine
<1>3. ASSUME NEW i \in LinesOf(c), NEW code
      PROVE  Suffers(c[i], code, items2, offers2, i, at) <=> Suffers(c[i], code, items, offers, i, at)
  BY <1>1 DEF Suffers, WindowValid
<1> QED
  BY <1>2, <1>3 DEF Problems

\* Taking lines from the stocks keeps the rows well-formed, and leaves alone
\* the rows of which nothing is taken.
LEMMA DecrementType ==
    ASSUME NEW items \in [Item -> MenuRow], NEW offers \in [Offer -> OfferRow], NEW l \in Lines
    PROVE  /\ DecrementStock(l, items) \in [Item -> MenuRow]
           /\ DecrementRemaining(l, offers) \in [Offer -> OfferRow]
           /\ \A i \in Item : l[i].qty = 0 => DecrementStock(l, items)[i] = items[i]
           /\ \A o \in Offer : Redeemed(l, o) = 0 => DecrementRemaining(l, offers)[o] = offers[o]
<1>1. ASSUME NEW i \in Item
      PROVE  /\ DecrementStock(l, items)[i] \in MenuRow
             /\ l[i].qty = 0 => DecrementStock(l, items)[i] = items[i]
  <2>1. items[i] \in MenuRow /\ l[i].qty \in Nat
    BY DEF Lines, OrderLine
  <2>2. items[i].stock # Unlimited => items[i].stock \in Int
    BY <2>1 DEF MenuRow
  <2> QED
    BY <2>1, <2>2 DEF DecrementStock, MenuRow
<1>2. ASSUME NEW o \in Offer
      PROVE  /\ DecrementRemaining(l, offers)[o] \in OfferRow
             /\ Redeemed(l, o) = 0 => DecrementRemaining(l, offers)[o] = offers[o]
  <2>1. OfferItem[o] \in Item
    BY OfferAssumption
  <2>2. Redeemed(l, o) \in Int
    BY <2>1 DEF Redeemed, Lines, OrderLine
  <2>3. offers[o] \in OfferRow
    OBVIOUS
  <2> QED
    BY <2>2, <2>3 DEF DecrementRemaining, OfferRow
<1> QED
  BY <1>1, <1>2 DEF DecrementStock, DecrementRemaining

(***************************************************************************)
(* Type correctness                                                        *)
(***************************************************************************)

\* The rows a transaction asks for are rows.
LEMMA RequestedRows ==
    ASSUME TypeOK, NEW t \in Attempt
    PROVE  /\ Requested(t) \subseteq Row
           /\ KeyOf(t) \in Client \X Key
           /\ req[t] \in Request
           /\ seen[t] \in Cart
           /\ LinesOf(seen[t]) \subseteq Item
           /\ OffersOf(seen[t]) \subseteq Offer
<1>1. req[t] \in Request /\ seen[t] \in Cart
  BY CartsAssumption DEF TypeOK
<1>2. KeyOf(t) \in Client \X Key /\ req[t].client \in Client
  BY <1>1 DEF KeyOf, Request
<1>3. LinesOf(seen[t]) \subseteq Item
  BY DEF LinesOf
<1>4. OffersOf(seen[t]) \subseteq Offer
  BY <1>1, <1>3 DEF OffersOf, Cart, CartLine
<1>5. Requested(t) \subseteq Row
  BY <1>2, <1>3, <1>4 DEF Requested, Row, ItemsToLock, OffersToLock
<1> QED
  BY <1>1, <1>2, <1>3, <1>4, <1>5

\* The initial state is well typed.
LEMMA InitType == Init => TypeOK
<1> SUFFICES ASSUME Init PROVE TypeOK
  OBVIOUS
<1>1. EmptyCart \in Cart
  BY CartsAssumption
<1>2. PriceCart(EmptyCart, item, offer) \in Lines
  BY <1>1, PriceCartType, MenuAssumption DEF Init
<1>3. NoAnswer \in Answer
  BY DEF NoAnswer, Answer
<1>4. orders \in [Attempt -> Ledger!Order \cup {NoOrder}] /\ keys \in [Client \X Key -> Ledger!KeyRow \cup {NoKey}]
  BY DEF Init
<1>5. item \in [Item -> MenuRow] /\ offer \in [Offer -> OfferRow] /\ events \subseteq Attempt
  BY MenuAssumption DEF Init
<1>6. pc \in [Attempt -> Steps] /\ held \in [Attempt -> SUBSET Row] /\ answer \in [Attempt -> Answer]
  BY <1>3 DEF Init, Steps
<1>7. seen \in [Attempt -> Carts] /\ now \in [Attempt -> Nat] /\ lines \in [Attempt -> Lines]
  BY <1>2, CartsAssumption DEF Init
<1>8. cart \in [Client -> Carts] /\ venueOpen \in BOOLEAN /\ clock \in Nat /\ req \in [Attempt -> Request]
  BY DEF Init
<1> QED
  BY <1>4, <1>5, <1>6, <1>7, <1>8 DEF TypeOK

\* The code reported for a cart with problems is one of them: the four codes
\* are finitely many, so one of them comes first.
LEMMA ReportedExists ==
    ASSUME NEW c, NEW items, NEW offers, NEW at, Problems(c, items, offers, at) # {}
    PROVE  Reported(Problems(c, items, offers, at)) \in DOMAIN Priority
<1> DEFINE problems == Problems(c, items, offers, at)
<1>1. problems \subseteq {"RESCUE_OFFER_EXPIRED", "PRICE_CHANGED", "ITEM_UNAVAILABLE", "INSUFFICIENT_STOCK"}
  BY DEF Problems, Priority
<1>2. \E code \in problems : \A other \in problems : Priority[code] <= Priority[other]
  BY <1>1 DEF Priority
<1>3. Reported(problems) \in problems
  BY <1>2 DEF Reported
<1> QED
  BY <1>1, <1>3 DEF Priority

\* Ending an attempt keeps the attempt's own variables well typed.
LEMMA FinishType ==
    ASSUME TypeOK, NEW t \in Attempt, NEW code, NEW o,
           [code |-> code, order |-> o] \in Answer, Finish(t, code, o)
    PROVE  /\ pc' \in [Attempt -> Steps]
           /\ held' \in [Attempt -> SUBSET Row]
           /\ answer' \in [Attempt -> Answer]
  BY DEF TypeOK, Finish, Steps

LEMMA FailType ==
    ASSUME TypeOK, NEW t \in Attempt, NEW code \in ErrorCode, Fail(t, code)
    PROVE  TypeOK'
<1>1. [code |-> code, order |-> NoOrder] \in Answer
  BY DEF Answer
<1>2. Finish(t, code, NoOrder)
  BY DEF Fail
<1>3. /\ pc' \in [Attempt -> Steps]
      /\ held' \in [Attempt -> SUBSET Row]
      /\ answer' \in [Attempt -> Answer]
  BY <1>1, <1>2, FinishType
<1> QED
  BY <1>3 DEF TypeOK, Fail, ledger

\* Taking the requested locks keeps the lock table well typed.
LEMMA LockType ==
    ASSUME TypeOK, NEW t \in Attempt, Lock(t)
    PROVE  held' \in [Attempt -> SUBSET Row]
  BY RequestedRows DEF TypeOK, Lock

LEMMA TypeStep == TypeOK /\ [Next]_vars => TypeOK'
<1> SUFFICES ASSUME TypeOK, [Next]_vars PROVE TypeOK'
  OBVIOUS
<1>1. ASSUME NEW t \in Attempt, Begin(t) PROVE TypeOK'
  BY <1>1 DEF Begin, Goto, TypeOK, Steps, ledger, rest
<1>2. ASSUME NEW t \in Attempt, ClaimKey(t) PROVE TypeOK'
  BY <1>2, LockType DEF ClaimKey, Goto, TypeOK, Steps, ledger, rest
<1>3. ASSUME NEW t \in Attempt, RejectReusedKey(t) PROVE TypeOK'
  BY <1>3, FailType DEF RejectReusedKey, ErrorCode
<1>4. ASSUME NEW t \in Attempt, ReplayOrder(t) PROVE TypeOK'
  <2>1. keys[KeyOf(t)] \in Ledger!KeyRow
    BY <1>4, RequestedRows DEF ReplayOrder, TypeOK
  <2>2. keys[KeyOf(t)].order \in Attempt
    BY <2>1 DEF Ledger!KeyRow
  <2>3. [code |-> "REPLAYED", order |-> keys[KeyOf(t)].order] \in Answer
    BY <2>2 DEF Answer
  <2>4. Finish(t, "REPLAYED", keys[KeyOf(t)].order)
    BY <1>4 DEF ReplayOrder
  <2>5. /\ pc' \in [Attempt -> Steps]
        /\ held' \in [Attempt -> SUBSET Row]
        /\ answer' \in [Attempt -> Answer]
    BY <2>3, <2>4, FinishType
  <2> QED
    BY <1>4, <2>5 DEF ReplayOrder, TypeOK, ledger, rest
<1>5. ASSUME NEW t \in Attempt, ReadCart(t) PROVE TypeOK'
  <2>1. CASE Fail(t, "CART_EMPTY")
    BY <2>1, FailType DEF ErrorCode
  <2>2. CASE ~Fail(t, "CART_EMPTY")
    <3>1. cart[req[t].client] \in Carts
      BY RequestedRows DEF TypeOK, Request
    <3> QED
      BY <1>5, <2>2, <3>1 DEF ReadCart, Goto, TypeOK, Steps, ledger, rest
  <2> QED
    BY <2>1, <2>2
<1>6. ASSUME NEW t \in Attempt, ReadVenue(t) PROVE TypeOK'
  <2>1. CASE Fail(t, "VENUE_CLOSED")
    BY <2>1, FailType DEF ErrorCode
  <2>2. CASE ~Fail(t, "VENUE_CLOSED")
    BY <1>6, <2>2 DEF ReadVenue, Goto, TypeOK, Steps, ledger, rest
  <2> QED
    BY <2>1, <2>2
<1>7. ASSUME NEW t \in Attempt, LockRow(t) PROVE TypeOK'
  BY <1>7, LockType DEF LockRow, TypeOK, ledger, rest
<1>8. ASSUME NEW t \in Attempt, PriceLines(t) PROVE TypeOK'
  <2> DEFINE problems == Problems(seen[t], item, offer, now[t])
             priced == PriceCart(seen[t], item, offer)
  <2>1. CASE problems # {}
    <3>1. Reported(problems) \in ErrorCode
      BY <2>1, ReportedExists DEF ErrorCode
    <3>2. Fail(t, Reported(problems))
      BY <1>8, <2>1 DEF PriceLines
    <3> QED
      BY <3>1, <3>2, FailType
  <2>2. CASE problems = {} /\ TotalMinor(priced) < MinOrder
    BY <1>8, <2>2, FailType DEF PriceLines, ErrorCode
  <2>3. CASE problems = {} /\ ~(TotalMinor(priced) < MinOrder)
    <3>1. priced \in Lines
      BY PriceCartType, RequestedRows DEF TypeOK
    <3> QED
      BY <1>8, <2>3, <3>1 DEF PriceLines, Goto, TypeOK, Steps, ledger, rest
  <2> QED
    BY <2>1, <2>2, <2>3
<1>9. ASSUME NEW t \in Attempt, BumpMenuVersion(t) PROVE TypeOK'
  BY <1>9, LockType DEF BumpMenuVersion, Goto, TypeOK, Steps, ledger, rest
<1>10. ASSUME NEW t \in Attempt, ClearCart(t) PROVE TypeOK'
  BY <1>10, LockType DEF ClearCart, Goto, TypeOK, Steps, ledger, rest
<1>11. ASSUME NEW t \in Attempt, Commit(t) PROVE TypeOK'
  <2>1. lines[t] \in Lines /\ req[t] \in Request /\ KeyOf(t) \in Client \X Key
    BY RequestedRows DEF TypeOK
  <2>2. item' \in [Item -> MenuRow] /\ offer' \in [Offer -> OfferRow]
    BY <1>11, <2>1, DecrementType DEF Commit, TypeOK
  <2>3. NewOrder(t) \in Ledger!Order
    BY <2>1 DEF NewOrder, Request, Ledger!Order, Ledger!Lines, Lines, Ledger!OrderLine, OrderLine,
                Ledger!OwnOffers, OwnOffers
  <2>4. orders' \in [Attempt -> Ledger!Order \cup {NoOrder}]
    BY <1>11, <2>3 DEF Commit, TypeOK
  <2>5. [hash |-> req[t].hash, order |-> t] \in Ledger!KeyRow
    BY <2>1 DEF Request, Ledger!KeyRow
  <2>6. keys' \in [Client \X Key -> Ledger!KeyRow \cup {NoKey}]
    BY <1>11, <2>5 DEF Commit, LinkOrder, TypeOK
  <2>7. [code |-> "CREATED", order |-> t] \in Answer
    BY DEF Answer
  <2>8. Finish(t, "CREATED", t)
    BY <1>11 DEF Commit
  <2>9. /\ pc' \in [Attempt -> Steps]
        /\ held' \in [Attempt -> SUBSET Row]
        /\ answer' \in [Attempt -> Answer]
    BY <2>7, <2>8, FinishType
  <2>10. cart' \in [Client -> Carts] /\ events' \subseteq Attempt
    BY <1>11, CartsAssumption DEF Commit, TypeOK, EnqueueCreated
  <2> QED
    BY <1>11, <2>2, <2>4, <2>6, <2>9, <2>10 DEF Commit, TypeOK
<1>12. ASSUME NEW t \in Attempt, Rollback(t) PROVE TypeOK'
  BY <1>12, FailType DEF Rollback, ErrorCode
<1>13. ASSUME Environment PROVE TypeOK'
  <2>1. ASSUME NEW c \in Client, SaveCart(c) PROVE TypeOK'
    BY <2>1 DEF SaveCart, TypeOK, ledger, tx
  <2>2. ASSUME NEW i \in Item, PartnerSetsPrice(i) PROVE TypeOK'
    BY SMTT(60), <2>2, MenuAssumption DEF PartnerSetsPrice, TypeOK, MenuRow, tx
  <2>3. ASSUME NEW i \in Item, PartnerSetsAvailability(i) PROVE TypeOK'
    <3>1. PICK s \in StockValues, a \in BOOLEAN :
             item' = [item EXCEPT ![i].stock = s, ![i].available = a]
      BY <2>3 DEF PartnerSetsAvailability
    <3>2. item[i] \in MenuRow /\ s \in Int \cup {Unlimited}
      BY MenuAssumption DEF TypeOK
    <3>3. [item[i] EXCEPT !.stock = s, !.available = a] \in MenuRow
      BY <3>2 DEF MenuRow
    <3>4. item' \in [Item -> MenuRow]
      BY <3>1, <3>3 DEF TypeOK
    <3> QED
      BY <2>3, <3>4 DEF PartnerSetsAvailability, TypeOK, tx
  <2>4. ASSUME NEW o \in Offer, PartnerCancelsOffer(o) PROVE TypeOK'
    BY <2>4 DEF PartnerCancelsOffer, TypeOK, OfferRow, tx
  <2>5. CASE PartnerSetsOpen
    BY <2>5 DEF PartnerSetsOpen, TypeOK, ledger, tx
  <2>6. CASE Tick
    BY <2>6 DEF Tick, TypeOK, ledger, tx
  <2> QED
    BY <1>13, <2>1, <2>2, <2>3, <2>4, <2>5, <2>6 DEF Environment
<1>14. CASE UNCHANGED vars
  BY <1>14 DEF vars, TypeOK, ledger, tx
<1> QED
  BY <1>1, <1>2, <1>3, <1>4, <1>5, <1>6, <1>7, <1>8, <1>9, <1>10, <1>11, <1>12, <1>13, <1>14
  DEF Next, Progress

\* Every variable of a running system keeps its type.
THEOREM TypeCorrect == Spec => []TypeOK
<1>1. Init => TypeOK
  BY InitType
<1>2. TypeOK /\ [Next]_vars => TypeOK'
  BY TypeStep
<1> QED
  BY <1>1, <1>2, PTL DEF Spec

(***************************************************************************)
(* Locks                                                                   *)
(***************************************************************************)

\* How a step of transaction t changes who holds what: it takes rows nobody
\* else holds, or gives all of its rows back.  Everyone else's step changes
\* nothing.
TakesLocks(t) == CanLock(t) /\ Lock(t)

GivesLocks(t) == held' = [held EXCEPT ![t] = {}]

LEMMA LockSteps ==
    ASSUME [Next]_vars
    PROVE  \/ \E t \in Attempt : TakesLocks(t) \/ GivesLocks(t)
           \/ UNCHANGED held
<1> USE DEF TakesLocks, GivesLocks
<1>1. ASSUME NEW t \in Attempt, Begin(t) \/ Progress(t) \/ Rollback(t)
      PROVE  TakesLocks(t) \/ GivesLocks(t) \/ UNCHANGED held
  BY <1>1 DEF Begin, Progress, ClaimKey, RejectReusedKey, ReplayOrder, ReadCart, ReadVenue,
              LockRow, PriceLines, BumpMenuVersion, ClearCart, Commit, Rollback, Fail, Finish
<1>2. ASSUME Environment PROVE UNCHANGED held
  BY <1>2 DEF Environment, SaveCart, PartnerSetsPrice, PartnerSetsAvailability,
              PartnerCancelsOffer, PartnerSetsOpen, Tick, tx
<1>3. CASE UNCHANGED vars
  BY <1>3 DEF vars, tx
<1> QED
  BY <1>1, <1>2, <1>3 DEF Next

\* No step lets two transactions hold one row.
LEMMA LocksExclusiveStep == TypeOK /\ LocksExclusive /\ [Next]_vars => LocksExclusive'
<1> SUFFICES ASSUME TypeOK, LocksExclusive, [Next]_vars PROVE LocksExclusive'
  OBVIOUS
<1>1. ASSUME NEW t \in Attempt, TakesLocks(t) PROVE LocksExclusive'
  BY <1>1 DEF TakesLocks, CanLock, Lock, LocksExclusive, TypeOK
<1>2. ASSUME NEW t \in Attempt, GivesLocks(t) PROVE LocksExclusive'
  BY <1>2 DEF GivesLocks, LocksExclusive, TypeOK
<1>3. CASE UNCHANGED held
  BY <1>3 DEF LocksExclusive
<1> QED
  BY <1>1, <1>2, <1>3, LockSteps

\* The part of the state a transaction's locks and carts speak of, stated for
\* one transaction, so that the others' steps can be dismissed at once.
HoldsOf(t) ==
    /\ pc[t] \in {"cart", "venue", "lock", "bump", "clear", "commit"}
         => IdempotencyRow(KeyOf(t)) \in held[t]
    /\ pc[t] \in {"bump", "clear", "commit"}
         => /\ \A i \in LinesOf(seen[t]) : ItemRow(i) \in held[t]
            /\ \A o \in OffersOf(seen[t]) : OfferRowOf(o) \in held[t]
    /\ pc[t] \in {"venue", "lock", "bump", "clear", "commit"}
         => LinesOf(seen[t]) # {}

LEMMA HoldsOfAll == LocksHeld /\ CartsSeen <=> \A t \in Attempt : HoldsOf(t)
  BY DEF LocksHeld, CartsSeen, HoldsOf

\* A transaction's own variables are changed by its own steps only.
Own(u) == <<pc[u], req[u], seen[u], now[u], lines[u], held[u], answer[u]>>

LEMMA OthersUntouched ==
    ASSUME TypeOK, NEW t \in Attempt, Begin(t) \/ Progress(t) \/ Rollback(t),
           NEW u \in Attempt, u # t
    PROVE  UNCHANGED Own(u)
  BY DEF TypeOK, Own, Begin, Progress, ClaimKey, RejectReusedKey, ReplayOrder, ReadCart, ReadVenue,
         LockRow, PriceLines, BumpMenuVersion, ClearCart, Commit, Rollback, Fail, Finish,
         Goto, Lock, rest

LEMMA EnvironmentUntouching ==
    ASSUME Environment \/ UNCHANGED vars
    PROVE  UNCHANGED <<pc, req, seen, now, lines, held, answer>>
  BY DEF Environment, SaveCart, PartnerSetsPrice, PartnerSetsAvailability,
         PartnerCancelsOffer, PartnerSetsOpen, Tick, tx, vars

LEMMA OwnKeepsHolds ==
    ASSUME NEW t, HoldsOf(t), UNCHANGED Own(t)
    PROVE  HoldsOf(t)'
  BY DEF HoldsOf, Own, KeyOf

\* A transaction that ends holds nothing and needs nothing.
LEMMA DoneHolds ==
    ASSUME TypeOK, NEW t \in Attempt, NEW code, NEW o, Finish(t, code, o)
    PROVE  HoldsOf(t)' /\ pc'[t] = "done" /\ held'[t] = {}
  BY DEF HoldsOf, Finish, TypeOK

LEMMA FailHolds ==
    ASSUME TypeOK, NEW t \in Attempt, NEW code, Fail(t, code)
    PROVE  HoldsOf(t)' /\ pc'[t] = "done" /\ held'[t] = {}
  BY DoneHolds DEF Fail

\* Each statement of a transaction leaves it holding what it must.
LEMMA HoldsStep ==
    ASSUME TypeOK, NEW t \in Attempt, HoldsOf(t), Begin(t) \/ Progress(t) \/ Rollback(t)
    PROVE  HoldsOf(t)'
<1> USE DEF TypeOK
<1>1. CASE Begin(t)
  BY <1>1 DEF Begin, Goto, HoldsOf
<1>2. CASE ClaimKey(t)
  <2>1. Requested(t) = {IdempotencyRow(KeyOf(t))}
    BY <1>2 DEF ClaimKey, Requested
  <2>2. IdempotencyRow(KeyOf(t)) \in held'[t]
    BY <1>2, <2>1 DEF ClaimKey, Lock
  <2>3. KeyOf(t)' = KeyOf(t) /\ pc'[t] = "cart"
    BY <1>2 DEF ClaimKey, Goto, KeyOf
  <2> QED
    BY <2>2, <2>3 DEF HoldsOf, IdempotencyRow
<1>3. CASE RejectReusedKey(t)
  BY <1>3, FailHolds DEF RejectReusedKey
<1>4. CASE ReplayOrder(t)
  BY <1>4, DoneHolds DEF ReplayOrder
<1>5. CASE ReadCart(t)
  <2>1. CASE Fail(t, "CART_EMPTY")
    BY <2>1, FailHolds
  <2>2. CASE ~Fail(t, "CART_EMPTY")
    <3>1. seen'[t] = cart[req[t].client] /\ LinesOf(cart[req[t].client]) # {}
      BY <1>5, <2>2 DEF ReadCart
    <3>2. pc'[t] = "venue" /\ pc[t] = "cart" /\ UNCHANGED <<req, held>>
      BY <1>5, <2>2 DEF ReadCart, Goto
    <3> QED
      BY <3>1, <3>2 DEF HoldsOf, KeyOf
  <2> QED
    BY <2>1, <2>2
<1>6. CASE ReadVenue(t)
  <2>1. CASE Fail(t, "VENUE_CLOSED")
    BY <2>1, FailHolds
  <2>2. CASE ~Fail(t, "VENUE_CLOSED")
    BY <1>6, <2>2 DEF ReadVenue, Goto, HoldsOf, KeyOf
  <2> QED
    BY <2>1, <2>2
<1>7. CASE LockRow(t)
  BY <1>7 DEF LockRow, Lock, HoldsOf, KeyOf
<1>8. CASE PriceLines(t)
  <2>1. CASE \E code : Fail(t, code)
    BY <2>1, FailHolds
  <2>2. CASE ~(\E code : Fail(t, code))
    <3>1. pc[t] = "lock" /\ pc'[t] = "bump" /\ UNCHANGED <<req, seen, held>>
      BY <1>8, <2>2 DEF PriceLines, Goto
    <3>2. \A i \in LinesOf(seen[t]) : ItemRow(i) \in held[t]
      BY <1>8 DEF PriceLines, ItemsToLock
    <3>3. \A o \in OffersOf(seen[t]) : OfferRowOf(o) \in held[t]
      BY <1>8 DEF PriceLines, OffersToLock
    <3> QED
      BY <3>1, <3>2, <3>3 DEF HoldsOf, KeyOf
  <2> QED
    BY <2>1, <2>2
<1>9. CASE BumpMenuVersion(t)
  BY <1>9 DEF BumpMenuVersion, Goto, Lock, HoldsOf, KeyOf
<1>10. CASE ClearCart(t)
  BY <1>10 DEF ClearCart, Goto, Lock, HoldsOf, KeyOf
<1>11. CASE Commit(t)
  BY <1>11, DoneHolds DEF Commit
<1>12. CASE Rollback(t)
  BY <1>12, FailHolds DEF Rollback
<1> QED
  BY <1>1, <1>2, <1>3, <1>4, <1>5, <1>6, <1>7, <1>8, <1>9, <1>10, <1>11, <1>12 DEF Progress

LEMMA LocksHeldStep ==
    ASSUME TypeOK, LocksHeld, CartsSeen, [Next]_vars
    PROVE  LocksHeld' /\ CartsSeen'
<1> SUFFICES ASSUME NEW u \in Attempt PROVE HoldsOf(u)'
  BY DEF LocksHeld, CartsSeen, HoldsOf
<1>1. HoldsOf(u)
  BY HoldsOfAll
<1>2. ASSUME NEW t \in Attempt, Begin(t) \/ Progress(t) \/ Rollback(t)
      PROVE  HoldsOf(u)'
  <2>1. CASE u = t
    BY <1>1, <1>2, <2>1, HoldsStep
  <2>2. CASE u # t
    BY <1>1, <1>2, <2>2, OthersUntouched, OwnKeepsHolds
  <2> QED
    BY <2>1, <2>2
<1>3. CASE Environment \/ UNCHANGED vars
  BY <1>1, <1>3, EnvironmentUntouching, OwnKeepsHolds DEF Own
<1> QED
  BY <1>2, <1>3 DEF Next

(***************************************************************************)
(* Prices and stocks                                                       *)
(***************************************************************************)

\* What PricedIsCurrent says of one transaction.
PricedOf(t) ==
    pc[t] \in {"bump", "clear", "commit"} =>
        /\ Problems(seen[t], item, offer, now[t]) = {}
        /\ \A i \in LinesOf(seen[t]) : lines[t][i] = PriceLine(seen[t][i], item[i], offer)
        /\ \A i \in Item \ LinesOf(seen[t]) : lines[t][i].qty = 0 /\ lines[t][i].rescued = 0

\* A priced transaction takes from stock only what its cart names.
LEMMA TakesOwnRows ==
    ASSUME TypeOK, NEW t \in Attempt, PricedOf(t), pc[t] \in {"bump", "clear", "commit"}
    PROVE  /\ \A i \in Item : i \notin LinesOf(seen[t]) =>
                DecrementStock(lines[t], item)[i] = item[i]
           /\ \A o \in Offer : o \notin OffersOf(seen[t]) =>
                DecrementRemaining(lines[t], offer)[o] = offer[o]
<1>1. lines[t] \in Lines /\ item \in [Item -> MenuRow] /\ offer \in [Offer -> OfferRow]
  BY DEF TypeOK
<1>2. ASSUME NEW i \in Item, i \notin LinesOf(seen[t])
      PROVE  DecrementStock(lines[t], item)[i] = item[i]
  <2>1. lines[t][i].qty = 0
    BY <1>2 DEF PricedOf
  <2> QED
    BY <1>1, <2>1, DecrementType
<1>3. ASSUME NEW o \in Offer, o \notin OffersOf(seen[t])
      PROVE  DecrementRemaining(lines[t], offer)[o] = offer[o]
  <2>1. OfferItem[o] \in Item
    BY OfferAssumption
  <2>2. CASE OfferItem[o] \in LinesOf(seen[t])
    <3>1. lines[t][OfferItem[o]] = PriceLine(seen[t][OfferItem[o]], item[OfferItem[o]], offer)
      BY <2>2 DEF PricedOf
    <3>2. o # NoOffer
      BY IdAssumption
    <3>3. seen[t][OfferItem[o]].offer # o
      BY <1>3, <2>2, <3>2 DEF OffersOf
    <3>4. lines[t][OfferItem[o]].offer # o
      BY <3>1, <3>2, <3>3 DEF PriceLine
    <3>5. Redeemed(lines[t], o) = 0
      BY <3>4 DEF Redeemed
    <3> QED
      BY <1>1, <3>5, DecrementType
  <2>3. CASE OfferItem[o] \notin LinesOf(seen[t])
    <3>1. Redeemed(lines[t], o) = 0
      BY <2>1, <2>3 DEF Redeemed, PricedOf
    <3> QED
      BY <1>1, <3>1, DecrementType
  <2> QED
    BY <2>2, <2>3
<1> QED
  BY <1>2, <1>3

\* Nobody changes the rows a priced transaction has locked.
LEMMA LockedRowsStay ==
    ASSUME IInv, NEW t \in Attempt, pc[t] \in {"bump", "clear", "commit"},
           \/ \E u \in Attempt \ {t} : Begin(u) \/ Progress(u) \/ Rollback(u)
           \/ Environment
           \/ UNCHANGED vars
    PROVE  /\ \A i \in LinesOf(seen[t]) : item'[i] = item[i]
           /\ \A o \in OffersOf(seen[t]) : offer'[o] = offer[o]
<1> USE DEF IInv
<1>1. /\ \A i \in LinesOf(seen[t]) : i \in Item /\ ItemRow(i) \in held[t]
      /\ \A o \in OffersOf(seen[t]) : o \in Offer /\ OfferRowOf(o) \in held[t]
  BY RequestedRows DEF LocksHeld
<1>2. ASSUME NEW u \in Attempt \ {t}, Commit(u)
      PROVE  /\ \A i \in LinesOf(seen[t]) : item'[i] = item[i]
             /\ \A o \in OffersOf(seen[t]) : offer'[o] = offer[o]
  <2>1. pc[u] = "commit" /\ u # t /\ PricedOf(u)
    BY <1>2 DEF Commit, PricedIsCurrent, PricedOf
  <2>2. ASSUME NEW i \in LinesOf(seen[t]) PROVE i \notin LinesOf(seen[u])
    BY <1>1, <2>1, <2>2 DEF LocksHeld, LocksExclusive
  <2>3. ASSUME NEW o \in OffersOf(seen[t]) PROVE o \notin OffersOf(seen[u])
    BY <1>1, <2>1, <2>3 DEF LocksHeld, LocksExclusive
  <2> QED
    BY <1>1, <1>2, <2>1, <2>2, <2>3, TakesOwnRows DEF Commit
<1>3. ASSUME NEW u \in Attempt \ {t}, Begin(u) \/ Progress(u) \/ Rollback(u), ~Commit(u)
      PROVE  UNCHANGED <<item, offer>>
  BY <1>3 DEF Begin, Progress, ClaimKey, RejectReusedKey, ReplayOrder, ReadCart, ReadVenue,
              LockRow, PriceLines, BumpMenuVersion, ClearCart, Rollback, Fail, ledger
<1>4. ASSUME Environment
      PROVE  /\ \A i \in LinesOf(seen[t]) : item'[i] = item[i]
             /\ \A o \in OffersOf(seen[t]) : offer'[o] = offer[o]
  <2>1. ASSUME NEW i \in Item, PartnerSetsPrice(i) \/ PartnerSetsAvailability(i)
        PROVE  /\ \A j \in LinesOf(seen[t]) : item'[j] = item[j]
               /\ offer' = offer
    <3>1. i \notin LinesOf(seen[t])
      BY <1>1, <2>1 DEF PartnerSetsPrice, PartnerSetsAvailability, Unlocked
    <3> QED
      BY <1>1, <2>1, <3>1 DEF PartnerSetsPrice, PartnerSetsAvailability, TypeOK
  <2>2. ASSUME NEW o \in Offer, PartnerCancelsOffer(o)
        PROVE  /\ \A p \in OffersOf(seen[t]) : offer'[p] = offer[p]
               /\ item' = item
    <3>1. o \notin OffersOf(seen[t])
      BY <1>1, <2>2 DEF PartnerCancelsOffer, Unlocked
    <3> QED
      BY <1>1, <2>2, <3>1 DEF PartnerCancelsOffer, TypeOK
  <2>3. ASSUME (\E c \in Client : SaveCart(c)) \/ PartnerSetsOpen \/ Tick
        PROVE  UNCHANGED <<item, offer>>
    BY <2>3 DEF SaveCart, PartnerSetsOpen, Tick, ledger
  <2> QED
    BY <1>4, <2>1, <2>2, <2>3 DEF Environment
<1>5. CASE UNCHANGED vars
  BY <1>5 DEF vars, ledger
<1> QED
  BY <1>2, <1>3, <1>4, <1>5

\* What a transaction has priced stays priced right until it commits.
LEMMA PricedStep == IInv /\ [Next]_vars => PricedIsCurrent'
<1> SUFFICES ASSUME IInv, [Next]_vars, NEW t \in Attempt PROVE PricedOf(t)'
  BY DEF PricedIsCurrent, PricedOf
<1> USE DEF IInv
<1>1. PricedOf(t)
  BY DEF PricedIsCurrent, PricedOf
<1>2. ASSUME \/ \E u \in Attempt \ {t} : Begin(u) \/ Progress(u) \/ Rollback(u)
             \/ Environment
             \/ UNCHANGED vars
      PROVE  PricedOf(t)'
  <2>1. UNCHANGED Own(t)
    BY <1>2, OthersUntouched, EnvironmentUntouching DEF Own
  <2>2. CASE pc[t] \in {"bump", "clear", "commit"}
    <3>1. /\ \A i \in LinesOf(seen[t]) : item'[i] = item[i]
          /\ \A o \in OffersOf(seen[t]) : offer'[o] = offer[o]
      BY <1>2, <2>2, LockedRowsStay
    <3>2. seen[t] \in Cart
      BY RequestedRows
    <3>3. /\ Problems(seen[t], item', offer', now[t]) = Problems(seen[t], item, offer, now[t])
          /\ \A i \in LinesOf(seen[t]) :
               PriceLine(seen[t][i], item'[i], offer') = PriceLine(seen[t][i], item[i], offer)
      BY <3>1, <3>2, SameRowsSamePrices
    <3> QED
      BY <1>1, <2>1, <2>2, <3>3 DEF PricedOf, Own
  <2>3. CASE pc[t] \notin {"bump", "clear", "commit"}
    BY <2>1, <2>3 DEF PricedOf, Own
  <2> QED
    BY <2>2, <2>3
<1>3. ASSUME PriceLines(t) PROVE PricedOf(t)'
  <2>1. CASE \E code : Fail(t, code)
    BY <2>1, FailHolds DEF PricedOf
  <2>2. CASE ~(\E code : Fail(t, code))
    <3>1. /\ Problems(seen[t], item, offer, now[t]) = {}
          /\ lines'[t] = PriceCart(seen[t], item, offer)
          /\ UNCHANGED <<item, offer, seen, now>>
      BY <1>3, <2>2 DEF PriceLines, TypeOK, ledger
    <3>2. \A i \in Item : lines'[t][i] = PriceLine(seen[t][i], item[i], offer)
      BY <3>1 DEF PriceCart
    <3>3. ASSUME NEW i \in Item \ LinesOf(seen[t])
          PROVE  lines'[t][i].qty = 0 /\ lines'[t][i].rescued = 0
      <4>1. seen[t][i] \in CartLine
        BY RequestedRows DEF Cart
      <4>2. seen[t][i].qty = 0
        BY <3>3, <4>1 DEF LinesOf, CartLine
      <4>3. seen[t][i].offer # NoOffer => offer[seen[t][i].offer].remaining >= 0
                                         /\ offer[seen[t][i].offer].remaining \in Int
        BY <4>1 DEF CartLine, NeverOversold, TypeOK, OfferRow
      <4>4. seen[t][i].offer # NoOffer => Least(seen[t][i].qty, offer[seen[t][i].offer].remaining) = 0
        BY <4>2, <4>3 DEF Least
      <4>5. lines'[t][i] = PriceLine(seen[t][i], item[i], offer)
        BY <3>2
      <4>6. PriceLine(seen[t][i], item[i], offer).qty = 0
        BY <4>2 DEF PriceLine
      <4>7. PriceLine(seen[t][i], item[i], offer).rescued = 0
        BY <4>4 DEF PriceLine
      <4> QED
        BY <4>5, <4>6, <4>7
    <3>4. LinesOf(seen[t]) \subseteq Item
      BY RequestedRows
    <3> QED
      BY <3>1, <3>2, <3>3, <3>4 DEF PricedOf
  <2> QED
    BY <2>1, <2>2
<1>4. ASSUME BumpMenuVersion(t) \/ ClearCart(t) PROVE PricedOf(t)'
  BY <1>1, <1>4 DEF BumpMenuVersion, ClearCart, PricedOf, ledger
<1>5. ASSUME ReplayOrder(t) \/ Commit(t) PROVE PricedOf(t)'
  BY <1>5, DoneHolds DEF ReplayOrder, Commit, PricedOf
<1>6. ASSUME \E code : Fail(t, code) PROVE PricedOf(t)'
  BY <1>6, FailHolds DEF PricedOf
<1>7. ASSUME Begin(t) \/ Progress(t) \/ Rollback(t),
             ~(\E code : Fail(t, code)), ~PriceLines(t), ~BumpMenuVersion(t), ~ClearCart(t),
             ~ReplayOrder(t), ~Commit(t)
      PROVE  PricedOf(t)'
  <2>1. pc'[t] \in {"claim", "cart", "venue", "lock"}
    BY <1>7 DEF Begin, Progress, ClaimKey, RejectReusedKey, ReadCart, ReadVenue, LockRow,
                Rollback, Goto, TypeOK
  <2> QED
    BY <2>1 DEF PricedOf
<1> QED
  BY <1>2, <1>3, <1>4, <1>5, <1>6, <1>7 DEF Next

\* What the lines of a priced transaction take is in stock.
LEMMA PricedIsInStock ==
    ASSUME IInv, NEW t \in Attempt, pc[t] \in {"bump", "clear", "commit"}
    PROVE  /\ \A i \in Item : item[i].stock # Unlimited =>
                item[i].stock - lines[t][i].qty >= 0
           /\ \A o \in Offer : offer[o].remaining - Redeemed(lines[t], o) >= 0
<1> USE DEF IInv
<1>0. PricedOf(t)
  BY DEF PricedIsCurrent, PricedOf
<1>1. ASSUME NEW i \in Item, item[i].stock # Unlimited
      PROVE  item[i].stock - lines[t][i].qty >= 0
  <2>1. item[i].stock \in Int /\ item[i].stock >= 0
    BY <1>1 DEF TypeOK, MenuRow, NeverOversold
  <2>2. CASE i \in LinesOf(seen[t])
    <3>1. ~Suffers(seen[t][i], "INSUFFICIENT_STOCK", item, offer, i, now[t])
      BY <1>0, <2>2 DEF PricedOf, Problems, Priority
    <3>2. item[i].stock >= seen[t][i].qty
      BY <1>1, <3>1 DEF Suffers, EnoughStock
    <3>3. lines[t][i] = PriceLine(seen[t][i], item[i], offer)
      BY <1>0, <2>2 DEF PricedOf
    <3>4. lines[t][i].qty = seen[t][i].qty
      BY <3>3 DEF PriceLine
    <3>5. seen[t][i].qty \in Nat
      BY RequestedRows DEF Cart, CartLine
    <3> QED
      BY <2>1, <3>2, <3>4, <3>5
  <2>3. CASE i \notin LinesOf(seen[t])
    BY <1>0, <2>1, <2>3 DEF PricedOf
  <2> QED
    BY <2>2, <2>3
<1>2. ASSUME NEW o \in Offer
      PROVE  offer[o].remaining - Redeemed(lines[t], o) >= 0
  <2> DEFINE i == OfferItem[o]
  <2>1. i \in Item
    BY OfferAssumption
  <2>2. offer[o].remaining \in Int /\ offer[o].remaining >= 0
    BY DEF TypeOK, OfferRow, NeverOversold
  <2>3. CASE i \in LinesOf(seen[t]) /\ lines[t][i].offer = o
    <3>1. lines[t][i] = PriceLine(seen[t][i], item[i], offer)
      BY <1>0, <2>3 DEF PricedOf
    <3>2. o # NoOffer
      BY IdAssumption
    <3>3. seen[t][i].offer = o /\ lines[t][i].rescued = Least(seen[t][i].qty, offer[o].remaining)
      BY <2>3, <3>1, <3>2 DEF PriceLine
    <3>4. seen[t][i].qty \in Nat
      BY <2>1, RequestedRows DEF Cart, CartLine
    <3>5. Least(seen[t][i].qty, offer[o].remaining) \in Int
          /\ Least(seen[t][i].qty, offer[o].remaining) <= offer[o].remaining
      BY <2>2, <3>4 DEF Least
    <3>6. Redeemed(lines[t], o) = lines[t][i].rescued
      BY <2>3 DEF Redeemed
    <3> QED
      BY <2>2, <3>3, <3>5, <3>6
  <2>4. CASE ~(i \in LinesOf(seen[t]) /\ lines[t][i].offer = o)
    <3>1. Redeemed(lines[t], o) = 0
      BY <1>0, <2>1, <2>4 DEF Redeemed, PricedOf
    <3> QED
      BY <2>2, <3>1
  <2> QED
    BY <2>3, <2>4
<1> QED
  BY <1>1, <1>2

\* No step drives a stock below zero.
LEMMA OversoldStep == IInv /\ [Next]_vars => NeverOversold'
<1> SUFFICES ASSUME IInv, [Next]_vars PROVE NeverOversold'
  OBVIOUS
<1> USE DEF IInv
<1>1. ASSUME NEW t \in Attempt, Commit(t) PROVE NeverOversold'
  <2>1. pc[t] = "commit" /\ lines[t] \in Lines
    BY <1>1 DEF Commit, TypeOK
  <2>2. ASSUME NEW i \in Item, item'[i].stock # Unlimited PROVE item'[i].stock >= 0
    <3>1. item'[i] = DecrementStock(lines[t], item)[i]
      BY <1>1 DEF Commit
    <3>2. item[i] \in MenuRow
      BY DEF TypeOK
    <3>3. item[i].stock # Unlimited /\ item'[i].stock = item[i].stock - lines[t][i].qty
      BY <2>2, <3>1, <3>2 DEF DecrementStock, MenuRow
    <3> QED
      BY <2>1, <3>3, PricedIsInStock
  <2>3. ASSUME NEW o \in Offer PROVE offer'[o].remaining >= 0
    <3>1. offer[o] \in OfferRow
      BY DEF TypeOK
    <3>2. offer'[o].remaining = offer[o].remaining - Redeemed(lines[t], o)
      BY <1>1, <3>1 DEF Commit, DecrementRemaining, OfferRow
    <3> QED
      BY <2>1, <3>2, PricedIsInStock
  <2> QED
    BY <2>2, <2>3 DEF NeverOversold
<1>2. ASSUME NEW i \in Item, PartnerSetsPrice(i) PROVE NeverOversold'
  BY <1>2 DEF PartnerSetsPrice, NeverOversold, TypeOK, MenuRow
<1>3. ASSUME NEW i \in Item, PartnerSetsAvailability(i) PROVE NeverOversold'
  BY <1>3, MenuAssumption DEF PartnerSetsAvailability, NeverOversold, TypeOK, MenuRow
<1>4. ASSUME NEW o \in Offer, PartnerCancelsOffer(o) PROVE NeverOversold'
  BY <1>4 DEF PartnerCancelsOffer, NeverOversold, TypeOK, OfferRow
<1>5. CASE UNCHANGED <<item, offer>>
  BY <1>5 DEF NeverOversold
<1>6. ASSUME NEW t \in Attempt, Begin(t) \/ Progress(t) \/ Rollback(t), ~Commit(t)
      PROVE  UNCHANGED <<item, offer>>
  BY <1>6 DEF Begin, Progress, ClaimKey, RejectReusedKey, ReplayOrder, ReadCart, ReadVenue,
              LockRow, PriceLines, BumpMenuVersion, ClearCart, Rollback, Fail, ledger
<1>7. ASSUME (\E c \in Client : SaveCart(c)) \/ PartnerSetsOpen \/ Tick \/ UNCHANGED vars
      PROVE  UNCHANGED <<item, offer>>
  BY <1>7 DEF SaveCart, PartnerSetsOpen, Tick, ledger, vars
<1> QED
  BY <1>1, <1>2, <1>3, <1>4, <1>5, <1>6, <1>7 DEF Next, Environment

(***************************************************************************)
(* Keys, orders, events and answers                                        *)
(***************************************************************************)

\* Orders, keys and events are written by commits only.
LEMMA LedgerWrites ==
    ASSUME [Next]_vars
    PROVE  (\E t \in Attempt : Commit(t)) \/ UNCHANGED <<orders, keys, events>>
<1>1. ASSUME NEW t \in Attempt, Begin(t) \/ Progress(t) \/ Rollback(t), ~Commit(t)
      PROVE  UNCHANGED <<orders, keys, events>>
  BY <1>1 DEF Begin, Progress, ClaimKey, RejectReusedKey, ReplayOrder, ReadCart, ReadVenue,
              LockRow, PriceLines, BumpMenuVersion, ClearCart, Rollback, Fail, ledger
<1>2. ASSUME Environment \/ UNCHANGED vars
      PROVE  UNCHANGED <<orders, keys, events>>
  BY <1>2 DEF Environment, SaveCart, PartnerSetsPrice, PartnerSetsAvailability,
              PartnerCancelsOffer, PartnerSetsOpen, Tick, ledger, vars
<1> QED
  BY <1>1, <1>2 DEF Next

\* What a commit does to the three tables.
LEMMA CommitWrites ==
    ASSUME IInv, NEW t \in Attempt, Commit(t)
    PROVE  /\ orders[t] = NoOrder
           /\ keys[KeyOf(t)] = NoKey
           /\ NewOrder(t) # NoOrder
           /\ orders' = [orders EXCEPT ![t] = NewOrder(t)]
           /\ keys' = [keys EXCEPT ![KeyOf(t)] = [hash |-> req[t].hash, order |-> t]]
           /\ events' = events \cup {t}
           /\ KeyOf(t) = <<NewOrder(t).client, NewOrder(t).key>>
           /\ NewOrder(t).hash = req[t].hash
           /\ KeyOf(t) \in Client \X Key
<1> USE DEF IInv
<1>1. pc[t] = "commit" /\ lines[t] \in Lines /\ req[t] \in Request /\ KeyOf(t) \in Client \X Key
  BY RequestedRows DEF Commit, TypeOK
<1>2. orders[t] = NoOrder
  BY <1>1 DEF OrdersHaveKeys
<1>3. keys[KeyOf(t)] = NoKey
  BY <1>1 DEF LocksHeld, ClaimedKeysFree
<1>4. NewOrder(t) \in Ledger!Order
  BY <1>1 DEF NewOrder, Request, Ledger!Order, Ledger!Lines, Lines, Ledger!OrderLine, OrderLine,
              Ledger!OwnOffers, OwnOffers
<1> QED
  BY <1>1, <1>2, <1>3, <1>4, NullAssumption DEF Commit, NewOrder, LinkOrder, EnqueueCreated, KeyOf

LEMMA KeysStep ==
    ASSUME IInv, [Next]_vars
    PROVE  KeysAreLinked' /\ OrdersHaveKeys' /\ EventsMatchOrders'
<1> USE DEF IInv
<1>1. ASSUME NEW t \in Attempt, Commit(t)
      PROVE  KeysAreLinked' /\ OrdersHaveKeys' /\ EventsMatchOrders'
  <2>1. /\ orders[t] = NoOrder /\ keys[KeyOf(t)] = NoKey /\ NewOrder(t) # NoOrder
        /\ orders' = [orders EXCEPT ![t] = NewOrder(t)]
        /\ keys' = [keys EXCEPT ![KeyOf(t)] = [hash |-> req[t].hash, order |-> t]]
        /\ events' = events \cup {t}
        /\ KeyOf(t) = <<NewOrder(t).client, NewOrder(t).key>>
        /\ NewOrder(t).hash = req[t].hash
        /\ KeyOf(t) \in Client \X Key
    BY <1>1, CommitWrites
  <2>2. EventsMatchOrders'
    BY <2>1 DEF EventsMatchOrders, TypeOK
  <2>3. ASSUME NEW c \in Client, NEW k \in Key, keys'[<<c, k>>] # NoKey
        PROVE  LET row == keys'[<<c, k>>] IN
               /\ orders'[row.order] # NoOrder
               /\ orders'[row.order].client = c
               /\ orders'[row.order].key = k
               /\ orders'[row.order].hash = row.hash
    <3>1. CASE <<c, k>> = KeyOf(t)
      BY <2>1, <3>1 DEF TypeOK
    <3>2. CASE <<c, k>> # KeyOf(t)
      <4>1. keys'[<<c, k>>] = keys[<<c, k>>] /\ keys[<<c, k>>] # NoKey
        BY <2>1, <2>3, <3>2 DEF TypeOK
      <4>2. orders[keys[<<c, k>>].order] # NoOrder
        BY <4>1 DEF KeysAreLinked
      <4>3. orders'[keys[<<c, k>>].order] = orders[keys[<<c, k>>].order]
        BY <2>1, <4>2 DEF TypeOK
      <4> QED
        BY <4>1, <4>3 DEF KeysAreLinked
    <3> QED
      BY <3>1, <3>2
  <2>4. ASSUME NEW u \in Attempt, orders'[u] # NoOrder
        PROVE  /\ pc'[u] = "done"
               /\ keys'[<<orders'[u].client, orders'[u].key>>] = [hash |-> orders'[u].hash, order |-> u]
    <3>1. CASE u = t
      BY <1>1, <2>1, <3>1 DEF Commit, Finish, TypeOK
    <3>2. CASE u # t
      <4>1. orders'[u] = orders[u] /\ orders[u] # NoOrder
        BY <2>1, <2>4, <3>2 DEF TypeOK
      <4>2. keys[<<orders[u].client, orders[u].key>>] = [hash |-> orders[u].hash, order |-> u]
            /\ pc[u] = "done"
        BY <4>1 DEF OrdersHaveKeys
      <4>3. orders[u] \in Ledger!Order
        BY <4>1 DEF TypeOK
      <4>4. <<orders[u].client, orders[u].key>> \in Client \X Key
        BY <4>3 DEF Ledger!Order
      <4>5. [hash |-> orders[u].hash, order |-> u] # NoKey
        BY <4>3, NullAssumption DEF Ledger!Order, Ledger!KeyRow
      <4>6. <<orders[u].client, orders[u].key>> # KeyOf(t)
        BY <2>1, <4>2, <4>5
      <4> QED
        BY <1>1, <2>1, <3>2, <4>1, <4>2, <4>4, <4>6 DEF Commit, Finish, TypeOK
    <3> QED
      BY <3>1, <3>2
  <2> QED
    BY <2>2, <2>3, <2>4 DEF KeysAreLinked, OrdersHaveKeys
<1>2. CASE UNCHANGED <<orders, keys, events>>
  <2>1. ASSUME NEW u \in Attempt, pc[u] = "done" PROVE pc'[u] = "done"
    <3>1. ASSUME NEW t \in Attempt, Begin(t) \/ Progress(t) \/ Rollback(t) PROVE u # t
      BY <2>1, <3>1 DEF Begin, Progress, ClaimKey, RejectReusedKey, ReplayOrder, ReadCart, ReadVenue,
                 LockRow, PriceLines, BumpMenuVersion, ClearCart, Commit, Rollback, InFlight
    <3> QED
      BY <2>1, <3>1, OthersUntouched, EnvironmentUntouching DEF Next, Own
  <2> QED
    BY <1>2, <2>1 DEF KeysAreLinked, OrdersHaveKeys, EventsMatchOrders
<1> QED
  BY <1>1, <1>2, LedgerWrites

\* A key stays free of committed rows as long as a transaction holds it.
LEMMA ClaimedStep == IInv /\ [Next]_vars => ClaimedKeysFree'
<1> SUFFICES ASSUME IInv, [Next]_vars, NEW t \in Attempt,
                    IdempotencyRow(KeyOf(t))' \in held'[t]
             PROVE  keys'[KeyOf(t)'] = NoKey
  BY DEF ClaimedKeysFree
<1> USE DEF IInv
<1>1. KeyOf(t)' = KeyOf(t)
  <2>1. ASSUME NEW u \in Attempt, Begin(u) \/ Progress(u) \/ Rollback(u) PROVE UNCHANGED req
    BY <2>1 DEF Begin, Progress, ClaimKey, RejectReusedKey, ReplayOrder, ReadCart, ReadVenue,
                LockRow, PriceLines, BumpMenuVersion, ClearCart, Commit, Rollback, Fail
  <2> QED
    BY <2>1, EnvironmentUntouching DEF Next, KeyOf
<1>2. IdempotencyRow(KeyOf(t)) \in held'[t]
  BY <1>1 DEF IdempotencyRow
<1>3. keys[KeyOf(t)] = NoKey
  <2>1. CASE IdempotencyRow(KeyOf(t)) \in held[t]
    BY <2>1 DEF ClaimedKeysFree
  <2>2. CASE IdempotencyRow(KeyOf(t)) \notin held[t]
    <3>1. ClaimKey(t) \/ LockRow(t) \/ BumpMenuVersion(t) \/ ClearCart(t)
      <4>1. ASSUME NEW u \in Attempt, u # t, Begin(u) \/ Progress(u) \/ Rollback(u)
            PROVE held'[t] = held[t]
        BY <4>1, OthersUntouched DEF Own
      <4>2. ASSUME Begin(t) \/ Progress(t) \/ Rollback(t),
                   ~(ClaimKey(t) \/ LockRow(t) \/ BumpMenuVersion(t) \/ ClearCart(t))
            PROVE  held'[t] = held[t] \/ held'[t] = {}
        BY <4>2 DEF Begin, Progress, RejectReusedKey, ReplayOrder, ReadCart, ReadVenue,
                    PriceLines, Commit, Rollback, Fail, Finish, TypeOK
      <4> QED
        BY <1>2, <2>2, <4>1, <4>2, EnvironmentUntouching DEF Next
    <3>2. pc[t] = "claim" \/ IdempotencyRow(KeyOf(t)) \in held[t]
      BY <3>1 DEF ClaimKey, LockRow, BumpMenuVersion, ClearCart, LocksHeld
    <3>3. ClaimKey(t)
      BY <2>2, <3>1, <3>2 DEF LockRow, BumpMenuVersion, ClearCart
    <3> QED
      BY <3>3 DEF ClaimKey
  <2> QED
    BY <2>1, <2>2
<1>4. ASSUME NEW u \in Attempt, Commit(u) PROVE KeyOf(u) # KeyOf(t)
  <2>1. pc[u] = "commit" /\ held'[u] = {}
    BY <1>4, DoneHolds DEF Commit
  <2>2. u # t /\ IdempotencyRow(KeyOf(u)) \in held[u]
    BY <1>2, <2>1 DEF LocksHeld
  <2>3. held'[t] = held[t]
    BY <1>4, <2>2, OthersUntouched DEF Own, Progress
  <2> QED
    BY <1>2, <2>2, <2>3 DEF LocksExclusive
<1>5. ASSUME NEW u \in Attempt, Commit(u) PROVE keys'[KeyOf(t)] = NoKey
  <2>1. KeyOf(t) \in Client \X Key
    BY RequestedRows
  <2>2. KeyOf(u) # KeyOf(t)
    BY <1>5, <1>4
  <2>3. keys' = [keys EXCEPT ![KeyOf(u)] = [hash |-> req[u].hash, order |-> u]]
    BY <1>5, CommitWrites
  <2> QED
    BY <1>3, <2>1, <2>2, <2>3 DEF TypeOK
<1> QED
  BY <1>1, <1>3, <1>5, LedgerWrites

\* A replay answers with an order that stays what it was.
LEMMA ReplaysStep == IInv /\ [Next]_vars => ReplaysAreGenuine'
<1> SUFFICES ASSUME IInv, [Next]_vars, NEW t \in Attempt, answer'[t].code = "REPLAYED"
             PROVE  /\ answer'[t].order \in Attempt
                    /\ orders'[answer'[t].order] # NoOrder
                    /\ orders'[answer'[t].order].client = req'[t].client
                    /\ orders'[answer'[t].order].key = req'[t].key
                    /\ orders'[answer'[t].order].hash = req'[t].hash
  BY DEF ReplaysAreGenuine
<1> USE DEF IInv
<1>1. req' = req
  <2>1. ASSUME NEW u \in Attempt, Begin(u) \/ Progress(u) \/ Rollback(u) PROVE UNCHANGED req
    BY <2>1 DEF Begin, Progress, ClaimKey, RejectReusedKey, ReplayOrder, ReadCart, ReadVenue,
                LockRow, PriceLines, BumpMenuVersion, ClearCart, Commit, Rollback, Fail
  <2> QED
    BY <2>1, EnvironmentUntouching DEF Next
<1>2. ASSUME NEW o, orders[o] # NoOrder, o \in Attempt PROVE orders'[o] = orders[o]
  BY <1>2, LedgerWrites, CommitWrites DEF TypeOK
<1>3. ASSUME answer'[t] = answer[t]
      PROVE  answer[t].order \in Attempt /\ orders[answer[t].order] # NoOrder
             /\ orders[answer[t].order].client = req[t].client
             /\ orders[answer[t].order].key = req[t].key
             /\ orders[answer[t].order].hash = req[t].hash
  BY <1>3 DEF ReplaysAreGenuine
<1>4. ASSUME ReplayOrder(t)
      PROVE  answer'[t].order \in Attempt /\ orders[answer'[t].order] # NoOrder
             /\ orders[answer'[t].order].client = req[t].client
             /\ orders[answer'[t].order].key = req[t].key
             /\ orders[answer'[t].order].hash = req[t].hash
  <2>1. answer'[t].order = keys[KeyOf(t)].order /\ keys[KeyOf(t)] # NoKey
        /\ keys[KeyOf(t)].hash = req[t].hash
    BY <1>4 DEF ReplayOrder, Finish, TypeOK
  <2>2. req[t].client \in Client /\ req[t].key \in Key /\ KeyOf(t) \in Client \X Key
    BY RequestedRows DEF Request
  <2>3. keys[KeyOf(t)].order \in Attempt
    BY <2>1, <2>2 DEF TypeOK, Ledger!KeyRow
  <2> QED
    BY <2>1, <2>2, <2>3 DEF KeysAreLinked, KeyOf
<1>5. answer'[t] = answer[t] \/ ReplayOrder(t)
  <2>1. ASSUME NEW u \in Attempt, u # t, Begin(u) \/ Progress(u) \/ Rollback(u)
        PROVE  answer'[t] = answer[t]
    BY <2>1, OthersUntouched DEF Own
  <2>2. ASSUME NEW code, code # "REPLAYED", NEW o, Finish(t, code, o) PROVE FALSE
    BY <2>2 DEF Finish, TypeOK
  <2>3. ASSUME NEW code \in ErrorCode PROVE code # "REPLAYED"
    BY <2>3 DEF ErrorCode, Priority
  <2>4. ASSUME NEW code \in ErrorCode, Fail(t, code) PROVE FALSE
    BY <2>2, <2>3, <2>4 DEF Fail
  <2>5. ~RejectReusedKey(t) /\ ~Rollback(t)
    BY <2>4 DEF RejectReusedKey, Rollback, ErrorCode
  <2>6. ~Commit(t)
    BY <2>2 DEF Commit
  <2>7. ReadCart(t) \/ ReadVenue(t) => UNCHANGED answer
    BY <2>4 DEF ReadCart, ReadVenue, Goto, ErrorCode
  <2>8. PriceLines(t) => UNCHANGED answer
    BY <2>4, ReportedExists DEF PriceLines, Goto, ErrorCode
  <2>9. Begin(t) \/ ClaimKey(t) \/ LockRow(t) \/ BumpMenuVersion(t) \/ ClearCart(t) => UNCHANGED answer
    BY DEF Begin, ClaimKey, LockRow, BumpMenuVersion, ClearCart, Goto
  <2> QED
    BY <2>1, <2>5, <2>6, <2>7, <2>8, <2>9, EnvironmentUntouching DEF Next, Progress
<1> QED
  BY <1>1, <1>2, <1>3, <1>4, <1>5

(***************************************************************************)
(* The inductive invariant and what follows from it                        *)
(***************************************************************************)

LEMMA InitInv == Init => IInv
<1> SUFFICES ASSUME Init PROVE IInv
  OBVIOUS
<1>1. TypeOK
  BY InitType
<1>2. LocksExclusive /\ LocksHeld /\ CartsSeen /\ PricedIsCurrent
  BY DEF Init, LocksExclusive, LocksHeld, CartsSeen, PricedIsCurrent
<1>3. ClaimedKeysFree
  BY DEF Init, ClaimedKeysFree
<1>4. OrdersHaveKeys /\ KeysAreLinked /\ EventsMatchOrders
  BY DEF Init, OrdersHaveKeys, KeysAreLinked, EventsMatchOrders
<1>5. NeverOversold
  BY MenuAssumption DEF Init, NeverOversold
<1>6. ReplaysAreGenuine
  BY DEF Init, ReplaysAreGenuine, NoAnswer
<1> QED
  BY <1>1, <1>2, <1>3, <1>4, <1>5, <1>6 DEF IInv

LEMMA NextInv == IInv /\ [Next]_vars => IInv'
<1> SUFFICES ASSUME IInv, [Next]_vars PROVE IInv'
  OBVIOUS
<1>1. TypeOK /\ LocksExclusive /\ LocksHeld /\ CartsSeen
  BY DEF IInv
<1>2. TypeOK'
  BY <1>1, TypeStep
<1>3. LocksExclusive' /\ LocksHeld' /\ CartsSeen'
  BY <1>1, LocksExclusiveStep, LocksHeldStep
<1>4. PricedIsCurrent' /\ NeverOversold'
  BY PricedStep, OversoldStep
<1>5. KeysAreLinked' /\ OrdersHaveKeys' /\ EventsMatchOrders'
  BY KeysStep
<1>6. ClaimedKeysFree' /\ ReplaysAreGenuine'
  BY ClaimedStep, ReplaysStep
<1> QED
  BY <1>2, <1>3, <1>4, <1>5, <1>6 DEF IInv

\* The strengthened invariant holds in every reachable state.
THEOREM Invariance == Spec => []IInv
<1> QED
  BY InitInv, NextInv, PTL DEF Spec

\* However checkouts, venue edits and rollbacks interleave, no stock and no
\* rescue offer is sold below zero (MenuRepository.DecrementStock and
\* RescueOfferRepository.DecrementRemaining rely on the locks for that).
THEOREM NoOverselling == Spec => []NeverOversold
<1>1. IInv => NeverOversold
  BY DEF IInv
<1> QED
  BY <1>1, Invariance, PTL

\* Every committed idempotency key leads to the order made under it.
THEOREM LinkedKeys == Spec => []KeysAreLinked
<1>1. IInv => KeysAreLinked
  BY DEF IInv
<1> QED
  BY <1>1, Invariance, PTL

\* Concurrent requests under one key make at most one order.
THEOREM AtMostOneOrder == Spec => []OneOrderPerKey
<1>1. IInv => OneOrderPerKey
  <2> SUFFICES ASSUME IInv, NEW t \in Attempt, NEW u \in Attempt,
                      orders[t] # NoOrder, orders[u] # NoOrder,
                      orders[t].client = orders[u].client, orders[t].key = orders[u].key
               PROVE  t = u
    BY DEF OneOrderPerKey
  <2> DEFINE row(v) == [hash |-> orders[v].hash, order |-> v]
  <2>1. keys[<<orders[t].client, orders[t].key>>] = row(t)
    BY DEF IInv, OrdersHaveKeys
  <2>2. keys[<<orders[u].client, orders[u].key>>] = row(u)
    BY DEF IInv, OrdersHaveKeys
  <2>3. row(t).order = t /\ row(u).order = u
    OBVIOUS
  <2> QED
    BY <2>1, <2>2, <2>3
<1> QED
  BY <1>1, Invariance, PTL

\* Orders and their order.created events come into being together.
THEOREM OrdersAnnounced == Spec => []EventsMatchOrders
<1>1. IInv => EventsMatchOrders
  BY DEF IInv
<1> QED
  BY <1>1, Invariance, PTL

\* A checkout leaves its key, its order and its event, or nothing of the three.
THEOREM WholeCommits == Spec => []CommittedWhole
<1>1. IInv => CommittedWhole
  BY DEF IInv, CommittedWhole
<1> QED
  BY <1>1, Invariance, PTL

\* A replayed answer is the order the same request made before.
THEOREM GenuineReplays == Spec => []ReplaysAreGenuine
<1>1. IInv => ReplaysAreGenuine
  BY DEF IInv
<1> QED
  BY <1>1, Invariance, PTL

(***************************************************************************)
(* Checkout implements OrderLedger: a checkout is several statements under *)
(* row locks, but the ledger's rows change as if each order were placed in *)
(* one atomic step against the menu of that step.  The refinement mapping  *)
(* is the identity on the committed rows; only Commit and the venue's      *)
(* edits move them.                                                        *)
(***************************************************************************)

\* Both modules extend OrderLines, so the ledger's operators are its own.
LEMMA SameOperators ==
    /\ Ledger!MenuRow = MenuRow
    /\ Ledger!OfferRow = OfferRow
    /\ Ledger!Lines = Lines
    /\ \A l : Ledger!LinesOf(l) = LinesOf(l)
    /\ \A l, rows : Ledger!DecrementStock(l, rows) = DecrementStock(l, rows)
    /\ \A l, rows : Ledger!DecrementRemaining(l, rows) = DecrementRemaining(l, rows)
    /\ \A line, row : Ledger!EnoughStock(line, row) = EnoughStock(line, row)
    /\ \A a, b : Ledger!Least(a, b) = Least(a, b)
    /\ \A o, p : Ledger!DiscountedPrice(o, p) = DiscountedPrice(o, p)
  BY DEF Ledger!MenuRow, MenuRow, Ledger!OfferRow, OfferRow, Ledger!Lines, Lines,
         Ledger!OrderLine, OrderLine, Ledger!OwnOffers, OwnOffers, Ledger!LinesOf, LinesOf,
         Ledger!DecrementStock, DecrementStock, Ledger!DecrementRemaining, DecrementRemaining,
         Ledger!Redeemed, Redeemed, Ledger!EnoughStock, EnoughStock, Ledger!Least, Least,
         Ledger!DiscountedPrice, DiscountedPrice

LEMMA InitRefines == Init => Ledger!Init
  BY MenuAssumption, SameOperators DEF Init, Ledger!Init

\* The lines of a checkout about to commit are what the menu sells now.
LEMMA CommitsSellable ==
    ASSUME IInv, NEW t \in Attempt, pc[t] = "commit"
    PROVE  LinesOf(lines[t]) # {} /\ Ledger!Sellable(lines[t])
<1> USE DEF IInv
<1>1. PricedOf(t)
  BY DEF PricedIsCurrent, PricedOf
<1>2. LinesOf(seen[t]) # {}
  BY DEF CartsSeen
<1>3. seen[t] \in Cart
  BY RequestedRows
<1>4. \A i \in LinesOf(seen[t]) : lines[t][i] = PriceLine(seen[t][i], item[i], offer)
  BY <1>1 DEF PricedOf
<1>5. ASSUME NEW i \in Item
      PROVE  i \in LinesOf(lines[t]) <=> i \in LinesOf(seen[t])
  <2>1. CASE i \in LinesOf(seen[t])
    <3>1. lines[t][i] = PriceLine(seen[t][i], item[i], offer)
      BY <1>4, <2>1
    <3>2. lines[t][i].qty = seen[t][i].qty
      BY <3>1 DEF PriceLine
    <3> QED
      BY <2>1, <3>2 DEF LinesOf
  <2>2. CASE i \notin LinesOf(seen[t])
    <3>1. lines[t][i].qty = 0
      BY <1>1, <2>2 DEF PricedOf
    <3> QED
      BY <2>2, <3>1 DEF LinesOf
  <2> QED
    BY <2>1, <2>2
<1>6. ASSUME NEW i \in LinesOf(lines[t])
      PROVE  /\ item[i].available
             /\ EnoughStock(lines[t][i], item[i])
             /\ lines[t][i].price = item[i].price
             /\ LET o == lines[t][i].offer IN
                IF o = NoOffer
                THEN lines[t][i].rescued = 0
                ELSE /\ ~offer[o].cancelled
                     /\ lines[t][i].rescued = Least(lines[t][i].qty, offer[o].remaining)
                     /\ lines[t][i].rescuePrice = DiscountedPrice(o, item[i].price)
  <2>1. i \in Item /\ i \in LinesOf(seen[t])
    BY <1>5 DEF LinesOf
  <2>2. \A code \in DOMAIN Priority : ~Suffers(seen[t][i], code, item, offer, i, now[t])
    BY <1>1, <2>1 DEF PricedOf, Problems
  <2>3. /\ ~Suffers(seen[t][i], "RESCUE_OFFER_EXPIRED", item, offer, i, now[t])
        /\ ~Suffers(seen[t][i], "PRICE_CHANGED", item, offer, i, now[t])
        /\ ~Suffers(seen[t][i], "ITEM_UNAVAILABLE", item, offer, i, now[t])
        /\ ~Suffers(seen[t][i], "INSUFFICIENT_STOCK", item, offer, i, now[t])
    BY <2>2 DEF Priority
  <2>4. lines[t][i] = PriceLine(seen[t][i], item[i], offer)
    BY <1>4, <2>1
  <2>5. item[i].available /\ EnoughStock(seen[t][i], item[i])
    BY <2>3 DEF Suffers
  <2>6. lines[t][i].qty = seen[t][i].qty /\ lines[t][i].offer = seen[t][i].offer
    BY <2>4 DEF PriceLine
  <2>7. EnoughStock(lines[t][i], item[i])
    BY <2>5, <2>6 DEF EnoughStock
  <2>8. CASE seen[t][i].offer = NoOffer
    <3>1. lines[t][i].price = item[i].price
      BY <2>3, <2>4, <2>8 DEF Suffers, EnsurePriceUnchanged, PriceLine
    <3>2. lines[t][i].rescued = 0
      BY <2>4, <2>8 DEF PriceLine
    <3> QED
      BY <2>5, <2>6, <2>7, <2>8, <3>1, <3>2
  <2>9. CASE seen[t][i].offer # NoOffer
    <3>1. ~offer[seen[t][i].offer].cancelled
      BY <2>3, <2>9 DEF Suffers, WindowValid
    <3>2. /\ lines[t][i].price = item[i].price
          /\ lines[t][i].rescued = Least(lines[t][i].qty, offer[seen[t][i].offer].remaining)
          /\ lines[t][i].rescuePrice = DiscountedPrice(seen[t][i].offer, item[i].price)
      BY <2>4, <2>9 DEF PriceLine
    <3> QED
      BY <2>5, <2>6, <2>7, <2>9, <3>1, <3>2
  <2> QED
    BY <2>8, <2>9
<1>7. LinesOf(lines[t]) # {}
  BY <1>2, <1>5 DEF LinesOf
<1> QED
  BY <1>6, <1>7, SameOperators DEF Ledger!Sellable

LEMMA CommitRefines ==
    ASSUME IInv, NEW t \in Attempt, Commit(t)
    PROVE  Ledger!Place(t)
<1>1. pc[t] = "commit" /\ item' = DecrementStock(lines[t], item)
      /\ offer' = DecrementRemaining(lines[t], offer)
  BY DEF Commit
<1>2. NewOrder(t).lines = lines[t]
  BY DEF NewOrder
<1>3. orders'[t] = NewOrder(t)
  BY CommitWrites DEF IInv, TypeOK
<1>4. NewOrder(t) \in Ledger!Order
  BY <1>3, NextInv, CommitWrites DEF IInv, TypeOK, Next, Progress
<1> QED
  BY <1>1, <1>2, <1>3, <1>4, CommitsSellable, CommitWrites, SameOperators DEF Ledger!Place

LEMMA NextRefines == IInv /\ [Next]_vars => [Ledger!Next]_(Ledger!ledger)
<1> SUFFICES ASSUME IInv, [Next]_vars PROVE Ledger!Next \/ UNCHANGED Ledger!ledger
  OBVIOUS
<1> USE DEF Ledger!ledger
<1>1. CASE \E t \in Attempt : Commit(t)
  BY <1>1, CommitRefines DEF Ledger!Next
<1>2. ASSUME NEW t \in Attempt, Begin(t) \/ Progress(t) \/ Rollback(t), ~Commit(t)
      PROVE  UNCHANGED Ledger!ledger
  BY <1>2 DEF Begin, Progress, ClaimKey, RejectReusedKey, ReplayOrder, ReadCart, ReadVenue,
              LockRow, PriceLines, BumpMenuVersion, ClearCart, Rollback, Fail, ledger
<1>3. ASSUME NEW i \in Item, PartnerSetsPrice(i) \/ PartnerSetsAvailability(i)
      PROVE  Ledger!EditItem(i)
  <2>1. item' \in [Item -> MenuRow] /\ NeverOversold'
    BY NextInv DEF IInv, TypeOK
  <2>2. item' = [item EXCEPT ![i] = item'[i]]
    BY <1>3 DEF PartnerSetsPrice, PartnerSetsAvailability, IInv, TypeOK
  <2>3. UNCHANGED <<offer, orders, keys, events>>
    BY <1>3 DEF PartnerSetsPrice, PartnerSetsAvailability
  <2> QED
    BY <2>1, <2>2, <2>3, SameOperators DEF Ledger!EditItem, NeverOversold
<1>4. ASSUME NEW o \in Offer, PartnerCancelsOffer(o) PROVE Ledger!CancelOffer(o)
  BY <1>4 DEF PartnerCancelsOffer, Ledger!CancelOffer
<1>5. ASSUME Environment
      PROVE  Ledger!Next \/ UNCHANGED Ledger!ledger
  <2>1. ASSUME NEW c \in Client, SaveCart(c) PROVE UNCHANGED Ledger!ledger
    BY <2>1 DEF SaveCart, ledger
  <2>2. PartnerSetsOpen \/ Tick => UNCHANGED Ledger!ledger
    BY DEF PartnerSetsOpen, Tick, ledger
  <2> QED
    BY <1>3, <1>4, <1>5, <2>1, <2>2 DEF Environment, Ledger!Next
<1>6. CASE UNCHANGED vars
  BY <1>6 DEF vars, ledger
<1> QED
  BY <1>1, <1>2, <1>5, <1>6 DEF Next

\* Whatever the interleaving, the committed rows behave as if every checkout
\* were one atomic step (CheckoutService.PlaceOrder, WithinTx).
THEOREM ImplementsLedger == Spec => LedgerSpec
<1>1. Spec => []IInv
  BY Invariance
<1> QED
  BY <1>1, InitRefines, NextRefines, PTL DEF Spec, LedgerSpec, Ledger!Spec

(***************************************************************************)
(* Deadlock: every transaction takes its rows in one order, so that a      *)
(* waiting transaction asks for a row before the one its holder asks for.  *)
(***************************************************************************)

Stage == [idempotency_keys |-> 1, menu_items |-> 2, rescue_offers |-> 3, venues |-> 4, carts |-> 5]

\* The order of the statements, and of the ids where one statement locks many rows.
Before(r, s) ==
    \/ Stage[r[1]] < Stage[s[1]]
    \/ r[1] = s[1] /\ r[1] \in {"menu_items", "rescue_offers"} /\ r[2] < s[2]

KeyRows == {IdempotencyRow(ck) : ck \in Client \X Key}
ItemRows == {ItemRow(i) : i \in Item}
OfferRows == {OfferRowOf(o) : o \in Offer}

\* What t can hold at each of its statements, and that the ids it has locked are
\* smaller than those it has left.
Ordered(t) ==
    /\ pc[t] \in {"idle", "claim", "done"} => held[t] = {}
    /\ pc[t] \in {"cart", "venue"} => held[t] \subseteq KeyRows
    /\ pc[t] = "lock" =>
         /\ held[t] \subseteq KeyRows \cup ItemRows \cup OfferRows
         /\ \A i \in Item : ItemRow(i) \in held[t] => \A j \in ItemsToLock(t) : i < j
         /\ \A o \in Offer : OfferRowOf(o) \in held[t] =>
              ItemsToLock(t) = {} /\ \A p \in OffersToLock(t) : o < p
    /\ pc[t] = "bump" => held[t] \subseteq KeyRows \cup ItemRows \cup OfferRows
    /\ pc[t] = "clear" => held[t] \subseteq KeyRows \cup ItemRows \cup OfferRows \cup {VenueRow}

\* How the rows of the five tables compare.
LEMMA RowOrder ==
    /\ \A k \in KeyRows :
         /\ \A i \in Item : Before(k, ItemRow(i))
         /\ \A o \in Offer : Before(k, OfferRowOf(o))
         /\ Before(k, VenueRow)
         /\ \A c \in Client : Before(k, CartRow(c))
    /\ \A i \in Item :
         /\ \A j \in Item : i < j => Before(ItemRow(i), ItemRow(j))
         /\ \A o \in Offer : Before(ItemRow(i), OfferRowOf(o))
         /\ Before(ItemRow(i), VenueRow)
         /\ \A c \in Client : Before(ItemRow(i), CartRow(c))
    /\ \A o \in Offer :
         /\ \A p \in Offer : o < p => Before(OfferRowOf(o), OfferRowOf(p))
         /\ Before(OfferRowOf(o), VenueRow)
         /\ \A c \in Client : Before(OfferRowOf(o), CartRow(c))
    /\ \A c \in Client : Before(VenueRow, CartRow(c))
<1> USE DEF Before, Stage, ItemRow, OfferRowOf, VenueRow, CartRow
<1>1. \A k \in KeyRows : k[1] = "idempotency_keys"
  BY DEF KeyRows, IdempotencyRow
<1>2. \A k \in KeyRows :
         /\ \A i \in Item : Before(k, ItemRow(i))
         /\ \A o \in Offer : Before(k, OfferRowOf(o))
         /\ Before(k, VenueRow)
         /\ \A c \in Client : Before(k, CartRow(c))
  BY <1>1
<1> QED BY <1>2

LEMMA BeforeIsOrder ==
    /\ \A r \in Row : ~Before(r, r)
    /\ \A r, s, u \in Row : Before(r, s) /\ Before(s, u) => Before(r, u)
<1> DEFINE Table == {"idempotency_keys", "menu_items", "rescue_offers", "venues", "carts"}
<1>1. \A r \in Row : r[1] \in Table /\ (r[1] \in {"menu_items", "rescue_offers"} => r[2] \in Int)
  BY IdAssumption DEF Row, ItemRow, OfferRowOf, VenueRow, CartRow, IdempotencyRow
<1>2. \A a \in Table : Stage[a] \in Int
  BY DEF Stage
<1> HIDE DEF Table
<1> QED BY <1>1, <1>2 DEF Before

LEMMA RequestedOnce ==
    ASSUME TypeOK, NEW t \in Attempt, NEW r \in Requested(t), NEW s \in Requested(t)
    PROVE  r = s
<1>1. ItemsToLock(t) \subseteq Nat /\ OffersToLock(t) \subseteq Nat
  BY IdAssumption, RequestedRows DEF ItemsToLock, OffersToLock
<1>2. CASE pc[t] = "lock"
  BY <1>1, <1>2 DEF Requested
<1>3. CASE pc[t] # "lock"
  BY <1>3 DEF Requested
<1> QED BY <1>2, <1>3

\* What t asks for comes after all it holds.
LEMMA HeldBeforeRequested ==
    ASSUME TypeOK, NEW t \in Attempt, Ordered(t), NEW r \in held[t], NEW s \in Requested(t)
    PROVE  Before(r, s)
<1>1. req[t].client \in Client /\ ItemsToLock(t) \subseteq Item /\ OffersToLock(t) \subseteq Offer
  BY RequestedRows DEF Request, ItemsToLock, OffersToLock
<1>2. pc[t] \in {"lock", "bump", "clear"}
  BY DEF Ordered, Requested, TypeOK, Steps
<1>3. CASE pc[t] = "lock"
  <2>1. r \in KeyRows \cup ItemRows \cup OfferRows
    BY <1>3 DEF Ordered
  <2>2. CASE ItemsToLock(t) # {}
    <3>1. PICK j \in ItemsToLock(t) : s = ItemRow(j)
      BY <1>3, <2>2 DEF Requested
    <3>2. r \notin OfferRows
      BY <1>3, <2>2 DEF Ordered, OfferRows
    <3>3. CASE r \in ItemRows
      BY <1>1, <1>3, <3>1, <3>3, RowOrder DEF Ordered, ItemRows
    <3> QED BY <1>1, <2>1, <3>1, <3>2, <3>3, RowOrder
  <2>3. CASE ItemsToLock(t) = {}
    <3>1. PICK p \in OffersToLock(t) : s = OfferRowOf(p)
      BY <1>3, <2>3 DEF Requested
    <3>2. CASE r \in OfferRows
      BY <1>1, <1>3, <3>1, <3>2, RowOrder DEF Ordered, OfferRows
    <3>3. CASE r \in ItemRows
      BY <1>1, <3>1, <3>3, RowOrder DEF ItemRows
    <3> QED BY <1>1, <2>1, <3>1, <3>2, <3>3, RowOrder
  <2> QED BY <2>2, <2>3
<1>4. CASE pc[t] = "bump"
  <2>1. s = VenueRow /\ r \in KeyRows \cup ItemRows \cup OfferRows
    BY <1>4 DEF Ordered, Requested
  <2> QED BY <2>1, RowOrder DEF ItemRows, OfferRows
<1>5. CASE pc[t] = "clear"
  <2>1. s = CartRow(req[t].client) /\ r \in KeyRows \cup ItemRows \cup OfferRows \cup {VenueRow}
    BY <1>5 DEF Ordered, Requested
  <2> QED BY <1>1, <2>1, RowOrder DEF ItemRows, OfferRows
<1> QED BY <1>2, <1>3, <1>4, <1>5

LEMMA OwnKeepsOrdered ==
    ASSUME NEW t, Ordered(t), UNCHANGED Own(t)
    PROVE  Ordered(t)'
  BY DEF Ordered, Own, ItemsToLock, OffersToLock

LEMMA DoneOrdered ==
    ASSUME TypeOK, NEW t \in Attempt, NEW code, NEW o, Finish(t, code, o)
    PROVE  Ordered(t)'
  BY DoneHolds DEF Ordered

\* One more row of the cart is locked: the least of the items left, or of the offers
\* when no item is left.
LEMMA LockRowOrdered ==
    ASSUME TypeOK, NEW t \in Attempt, Ordered(t), LockRow(t)
    PROVE  Ordered(t)'
<1>1. /\ pc[t] = "lock" /\ pc'[t] = "lock" /\ seen' = seen
      /\ held'[t] = held[t] \cup Requested(t)
      /\ held[t] \subseteq KeyRows \cup ItemRows \cup OfferRows
  BY DEF LockRow, Lock, TypeOK, Ordered
<1>2. ItemsToLock(t) \subseteq Item /\ OffersToLock(t) \subseteq Offer
  BY RequestedRows DEF ItemsToLock, OffersToLock
<1>3. ItemsToLock(t) \subseteq Nat /\ OffersToLock(t) \subseteq Nat
  BY <1>2, IdAssumption
<1>4. /\ ItemsToLock(t)' \subseteq ItemsToLock(t) /\ OffersToLock(t)' \subseteq OffersToLock(t)
      /\ \A i \in ItemsToLock(t)' : ItemRow(i) \notin held'[t]
      /\ \A o \in OffersToLock(t)' : OfferRowOf(o) \notin held'[t]
  BY <1>1 DEF ItemsToLock, OffersToLock, ItemRow, OfferRowOf
<1>5. CASE ItemsToLock(t) # {}
  <2>1. PICK m \in ItemsToLock(t) :
          /\ \A k \in ItemsToLock(t) : m <= k
          /\ Requested(t) = {ItemRow(m)}
    <3>1. Requested(t) = {ItemRow(i) : i \in {j \in ItemsToLock(t) : \A k \in ItemsToLock(t) : j <= k}}
      BY <1>1, <1>5 DEF Requested
    <3>2. Requested(t) # {}
      BY DEF LockRow
    <3>3. PICK m \in ItemsToLock(t) : \A k \in ItemsToLock(t) : m <= k
      BY <3>1, <3>2
    <3>4. ASSUME NEW j \in ItemsToLock(t), \A k \in ItemsToLock(t) : j <= k
          PROVE  j = m
      <4>1. j \in Nat /\ m \in Nat /\ j <= m /\ m <= j
        BY <1>3, <3>3, <3>4
      <4> QED BY <4>1
    <3> QED BY <3>1, <3>3, <3>4
  <2>2. \A o \in Offer : OfferRowOf(o) \notin held'[t]
    BY <1>1, <1>5, <2>1 DEF Ordered, OfferRowOf, ItemRow
  <2>3. \A i \in Item : ItemRow(i) \in held'[t] => i = m \/ ItemRow(i) \in held[t]
    BY <1>1, <2>1 DEF ItemRow
  <2>4. \A j \in ItemsToLock(t)' : j # m
    BY <1>1, <1>4, <2>1
  <2>5. \A i \in Item : ItemRow(i) \in held'[t] => \A j \in ItemsToLock(t)' : i < j
    <3> SUFFICES ASSUME NEW i \in Item, ItemRow(i) \in held'[t], NEW j \in ItemsToLock(t)'
                 PROVE  i < j
      OBVIOUS
    <3>1. CASE i = m
      <4>1. j \in Nat /\ m \in Nat /\ m <= j /\ j # m
        BY <1>3, <1>4, <2>1, <2>4
      <4> QED BY <3>1, <4>1
    <3>2. CASE ItemRow(i) \in held[t]
      BY <1>1, <1>4, <3>2 DEF Ordered
    <3> QED BY <2>3, <3>1, <3>2
  <2>6. held'[t] \subseteq KeyRows \cup ItemRows \cup OfferRows
    BY <1>1, <1>2, <2>1 DEF ItemRows
  <2> QED BY <1>1, <2>2, <2>5, <2>6 DEF Ordered, KeyRows, ItemRows, OfferRows
<1>6. CASE ItemsToLock(t) = {}
  <2>1. PICK m \in OffersToLock(t) :
          /\ \A k \in OffersToLock(t) : m <= k
          /\ Requested(t) = {OfferRowOf(m)}
    <3>1. Requested(t) =
            {OfferRowOf(o) : o \in {p \in OffersToLock(t) : \A q \in OffersToLock(t) : p <= q}}
      BY <1>1, <1>6 DEF Requested
    <3>2. Requested(t) # {}
      BY DEF LockRow
    <3>3. PICK m \in OffersToLock(t) : \A k \in OffersToLock(t) : m <= k
      BY <3>1, <3>2
    <3>4. ASSUME NEW p \in OffersToLock(t), \A q \in OffersToLock(t) : p <= q
          PROVE  p = m
      <4>1. p \in Nat /\ m \in Nat /\ p <= m /\ m <= p
        BY <1>3, <3>3, <3>4
      <4> QED BY <4>1
    <3> QED BY <3>1, <3>3, <3>4
  <2>2. \A o \in Offer : OfferRowOf(o) \in held'[t] => o = m \/ OfferRowOf(o) \in held[t]
    BY <1>1, <2>1 DEF OfferRowOf
  <2>3. \A p \in OffersToLock(t)' : p # m
    BY <1>1, <1>4, <2>1
  <2>4. \A o \in Offer : OfferRowOf(o) \in held'[t] => \A p \in OffersToLock(t)' : o < p
    <3> SUFFICES ASSUME NEW o \in Offer, OfferRowOf(o) \in held'[t], NEW p \in OffersToLock(t)'
                 PROVE  o < p
      OBVIOUS
    <3>1. CASE o = m
      <4>1. p \in Nat /\ m \in Nat /\ m <= p /\ p # m
        BY <1>3, <1>4, <2>1, <2>3
      <4> QED BY <3>1, <4>1
    <3>2. CASE OfferRowOf(o) \in held[t]
      BY <1>1, <1>4, <3>2 DEF Ordered
    <3> QED BY <2>2, <3>1, <3>2
  <2>5. held'[t] \subseteq KeyRows \cup ItemRows \cup OfferRows
    BY <1>1, <1>2, <2>1 DEF OfferRows
  <2>6. ItemsToLock(t)' = {}
    BY <1>4, <1>6
  <2> QED BY <1>1, <2>4, <2>5, <2>6 DEF Ordered, KeyRows, ItemRows, OfferRows
<1> QED BY <1>5, <1>6

\* Each statement of a transaction keeps the order.
LEMMA OrderedStep ==
    ASSUME TypeOK, NEW t \in Attempt, Ordered(t), Begin(t) \/ Progress(t) \/ Rollback(t)
    PROVE  Ordered(t)'
<1>1. CASE Begin(t)
  BY <1>1 DEF Begin, Goto, Ordered, TypeOK
<1>2. CASE ClaimKey(t)
  <2>1. Requested(t) = {IdempotencyRow(KeyOf(t))} /\ IdempotencyRow(KeyOf(t)) \in KeyRows
    BY <1>2, RequestedRows DEF ClaimKey, Requested, KeyRows
  <2>2. held'[t] = {IdempotencyRow(KeyOf(t))} /\ pc'[t] = "cart"
    BY <1>2, <2>1 DEF ClaimKey, Goto, Lock, TypeOK, Ordered
  <2> QED BY <2>1, <2>2 DEF Ordered, KeyRows
<1>3. CASE \E code, o : Finish(t, code, o)
  BY <1>3, DoneOrdered
<1>4. CASE (ReadCart(t) \/ ReadVenue(t)) /\ ~\E code, o : Finish(t, code, o)
  <2>1. /\ pc[t] \in {"cart", "venue"} /\ pc'[t] \in {"venue", "lock"} /\ held' = held
    BY <1>4 DEF ReadCart, ReadVenue, Fail, Goto, TypeOK
  <2>2. held'[t] \subseteq KeyRows
    BY <2>1 DEF Ordered
  <2>3. /\ \A i \in Item : ItemRow(i) \notin held'[t]
        /\ \A o \in Offer : OfferRowOf(o) \notin held'[t]
    BY <2>2 DEF KeyRows, ItemRow, OfferRowOf, IdempotencyRow
  <2> QED BY <2>1, <2>2, <2>3 DEF Ordered, KeyRows, ItemRows, OfferRows
<1>5. CASE LockRow(t)
  BY <1>5, LockRowOrdered
<1>6. CASE PriceLines(t) /\ ~\E code, o : Finish(t, code, o)
  <2>1. pc[t] = "lock" /\ pc'[t] = "bump" /\ held' = held
    BY <1>6 DEF PriceLines, Fail, Goto, TypeOK
  <2> QED BY <2>1 DEF Ordered, KeyRows, ItemRows, OfferRows
<1>7. CASE BumpMenuVersion(t)
  <2>1. pc[t] = "bump" /\ pc'[t] = "clear" /\ held'[t] = held[t] \cup Requested(t)
    BY <1>7 DEF BumpMenuVersion, Goto, Lock, TypeOK
  <2>2. Requested(t) \subseteq {VenueRow}
    BY <2>1 DEF Requested
  <2> QED BY <2>1, <2>2 DEF Ordered, KeyRows, ItemRows, OfferRows
<1>8. CASE ClearCart(t)
  BY <1>8 DEF ClearCart, Goto, TypeOK, Ordered
<1>9. CASE RejectReusedKey(t) \/ ReplayOrder(t) \/ Commit(t) \/ Rollback(t)
  BY <1>3, <1>9 DEF RejectReusedKey, ReplayOrder, Commit, Rollback, Fail
<1> QED BY <1>1, <1>2, <1>3, <1>4, <1>5, <1>6, <1>7, <1>8, <1>9 DEF Progress

\* The transactions under way are finitely many: one begins at a time.
UnderWay == {t \in Attempt : InFlight(t)}

LocksOrdered == IsFiniteSet(UnderWay) /\ \A t \in Attempt : Ordered(t)

LEMMA LocksOrderedInit == Init => LocksOrdered
<1> SUFFICES ASSUME Init PROVE LocksOrdered
  OBVIOUS
<1>1. UnderWay = {}
  BY DEF Init, UnderWay, InFlight
<1> QED BY <1>1, FS_EmptySet DEF Init, LocksOrdered, Ordered

LEMMA LocksOrderedStep == TypeOK /\ LocksOrdered /\ [Next]_vars => LocksOrdered'
<1> SUFFICES ASSUME TypeOK, LocksOrdered, [Next]_vars PROVE LocksOrdered'
  OBVIOUS
<1>1. ASSUME NEW t \in Attempt, Begin(t) \/ Progress(t) \/ Rollback(t)
      PROVE  LocksOrdered'
  <2>1. \A u \in Attempt \ {t} : UNCHANGED Own(u)
    BY <1>1, OthersUntouched
  <2>2. \A u \in Attempt : Ordered(u)'
    BY <1>1, <2>1, OwnKeepsOrdered, OrderedStep DEF LocksOrdered
  <2>3. UnderWay' \in SUBSET (UnderWay \cup {t})
    BY <2>1 DEF UnderWay, InFlight, Own
  <2>4. IsFiniteSet(UnderWay \cup {t})
    BY FS_AddElement DEF LocksOrdered
  <2> QED BY <2>2, <2>3, <2>4, FS_Subset DEF LocksOrdered
<1>2. CASE Environment \/ UNCHANGED vars
  BY <1>2, EnvironmentUntouching, OwnKeepsOrdered DEF LocksOrdered, UnderWay, InFlight, Own
<1> QED BY <1>1, <1>2 DEF Next

\* In a finite set under a strict order something is topmost: what has the fewest
\* elements above it has none.
LEMMA Topmost ==
    ASSUME NEW W, IsFiniteSet(W), W # {}, NEW R,
           \A x, y, z \in W : <<x, y>> \in R /\ <<y, z>> \in R => <<x, z>> \in R,
           \A x \in W : <<x, x>> \notin R
    PROVE  \E x \in W : \A y \in W : <<x, y>> \notin R
<1> DEFINE Above(x) == {y \in W : <<x, y>> \in R}
           Counts == {Cardinality(Above(x)) : x \in W}
<1>1. \A x \in W : IsFiniteSet(Above(x)) /\ Cardinality(Above(x)) \in Nat
  BY FS_Subset, FS_CardinalityType
<1>2. PICK x \in W : \A y \in W : ~(Cardinality(Above(y)) < Cardinality(Above(x)))
  <2> HIDE DEF Above
  <2>1. Counts \subseteq Nat /\ Counts # {}
    BY <1>1
  <2> DEFINE Less == OpToRel(<, Nat)
  <2>2. \A m, n \in Nat : m < n => <<m, n>> \in Less
    BY DEF OpToRel
  <2>3. IsWellFoundedOn(Less, Nat)
    BY NatLessThanWellFounded
  <2> HIDE DEF Less, Counts
  <2>4. PICK n \in Counts : \A m \in Counts : ~(<<m, n>> \in Less)
    BY <2>1, <2>3, WFMin
  <2>5. \A m \in Counts : ~(m < n)
    BY <2>1, <2>2, <2>4
  <2> QED BY <2>5 DEF Counts
<1>3. ASSUME NEW y \in W, <<x, y>> \in R PROVE FALSE
  <2>1. Above(y) \in SUBSET Above(x) /\ y \in Above(x) /\ y \notin Above(y)
    BY <1>3
  <2>2. Cardinality(Above(y)) <= Cardinality(Above(x)) /\ Cardinality(Above(y)) # Cardinality(Above(x))
    BY <1>1, <2>1, FS_Subset
  <2> HIDE DEF Above
  <2> QED BY <1>1, <1>2, <2>2
<1> QED BY <1>3

\* "A fixed lock order across every checkout" (checkout_service.go:128) does keep any
\* number of checkouts, whatever their carts hold, from deadlocking on each other: of
\* those under way, the one that asks for the last row waits for none of the others.
THEOREM NoDeadlock == Spec => []NoWaitCycle
<1>1. TypeOK /\ LocksOrdered => NoWaitCycle
  <2> SUFFICES ASSUME TypeOK, LocksOrdered, NEW W \in SUBSET UnderWay, W # {}
               PROVE  \E t \in W : \A u \in W : ~WaitsFor(t, u)
    BY DEF NoWaitCycle, UnderWay
  <2> SUFFICES ASSUME \A t \in W : Requested(t) # {}
               PROVE  \E t \in W : \A u \in W : ~WaitsFor(t, u)
    BY DEF WaitsFor
  <2> DEFINE R == {p \in W \X W : \E r \in Requested(p[1]), s \in Requested(p[2]) : Before(r, s)}
  <2>1. W \subseteq Attempt /\ IsFiniteSet(W)
    BY FS_Subset DEF LocksOrdered, UnderWay
  <2>2. \A t \in W : Requested(t) \subseteq Row
    BY <2>1, RequestedRows
  <2>3. ASSUME NEW x \in W, NEW y \in W, NEW z \in W, <<x, y>> \in R, <<y, z>> \in R
        PROVE  <<x, z>> \in R
    <3>1. PICK r \in Requested(x), s \in Requested(y) : Before(r, s)
      BY <2>3
    <3>2. PICK s2 \in Requested(y), q \in Requested(z) : Before(s2, q)
      BY <2>3
    <3>3. s = s2
      BY <2>1, RequestedOnce
    <3>4. Before(r, q)
      BY <2>2, <3>1, <3>2, <3>3, BeforeIsOrder
    <3> QED BY <3>4
  <2>4. ASSUME NEW x \in W, <<x, x>> \in R PROVE FALSE
    <3>1. PICK r \in Requested(x), s \in Requested(x) : Before(r, s)
      BY <2>4
    <3>2. r = s
      BY <2>1, RequestedOnce
    <3> QED BY <2>2, <3>1, <3>2, BeforeIsOrder
  <2>5. PICK t \in W : \A u \in W : <<t, u>> \notin R
    <3> HIDE DEF R
    <3> QED BY <2>1, <2>3, <2>4, Topmost
  <2>6. ASSUME NEW u \in W, WaitsFor(t, u) PROVE FALSE
    <3>1. PICK r \in Requested(t) : r \in held[u]
      BY <2>6 DEF WaitsFor
    <3>2. PICK s \in Requested(u) : TRUE
      OBVIOUS
    <3>3. Before(r, s)
      BY <2>1, <3>1, HeldBeforeRequested DEF LocksOrdered
    <3> QED BY <2>5, <3>3
  <2> QED BY <2>6
<1>2. TypeOK /\ LocksOrdered /\ [Next]_vars => (TypeOK /\ LocksOrdered)'
  BY TypeStep, LocksOrderedStep
<1> QED BY <1>1, <1>2, InitType, LocksOrderedInit, PTL DEF Spec

(***************************************************************************)
(* Sums.  SumFunction adds the values in an order it chooses; the result   *)
(* does not depend on that order, so that one more value adds itself.      *)
(***************************************************************************)

\* Induction over the naturals, for a set instead of a predicate.
LEMMA NatInduct ==
    ASSUME NEW X, 0 \in X, \A n \in Nat : n \in X => n + 1 \in X
    PROVE  Nat \subseteq X
<1> SUFFICES ASSUME Nat \ X # {} PROVE FALSE
  OBVIOUS
<1> DEFINE Less == OpToRel(<, Nat)
<1>1. \A m, n \in Nat : m < n => <<m, n>> \in Less
  BY DEF OpToRel
<1>2. IsWellFoundedOn(Less, Nat)
  BY NatLessThanWellFounded
<1> HIDE DEF Less
<1>3. PICK n \in Nat \ X : \A m \in Nat \ X : ~(<<m, n>> \in Less)
  BY <1>2, WFMin
<1>4. n # 0 /\ n - 1 \in Nat /\ n - 1 < n /\ n = (n - 1) + 1
  BY <1>3
<1>5. n - 1 \in X
  BY <1>1, <1>3, <1>4
<1> QED BY <1>3, <1>4, <1>5

Pick(s) == CHOOSE x \in s : TRUE

LEMMA PickIn == \A s : s # {} => Pick(s) \in s
  BY DEF Pick

\* h[s] is the sum of f over s, for the subsets s of S.
SumOf(f, h, s) == IF s = {} THEN 0 ELSE f[Pick(s)] + h[s \ {Pick(s)}]
Sums(f, S, h) == h = [s \in SUBSET S |-> SumOf(f, h, s)]

\* The subsets of S with n elements at most.
Small(S, n) == {s \in SUBSET S : Cardinality(s) <= n}

LEMMA SmallerByOne ==
    ASSUME NEW S, IsFiniteSet(S), NEW s \in SUBSET S, NEW x \in s
    PROVE  /\ s \ {x} \in SUBSET S /\ IsFiniteSet(s) /\ Cardinality(s) \in Nat \ {0}
           /\ Cardinality(s \ {x}) = Cardinality(s) - 1
<1>1. IsFiniteSet(s)
  BY FS_Subset
<1>2. Cardinality(s) \in Nat /\ Cardinality(s) # 0
  BY <1>1, FS_CardinalityType, FS_EmptySet
<1> QED BY <1>1, <1>2, FS_RemoveElement

\* The recursion of the fold has a solution.
LEMMA SumsExist ==
    ASSUME NEW S, IsFiniteSet(S), NEW f
    PROVE  \E h : Sums(f, S, h)
<1> DEFINE Solves(n, h) == h = [s \in Small(S, n) |-> SumOf(f, h, s)]
           X == {n \in Nat : \E h : Solves(n, h)}
<1>1. 0 \in X
  <2> DEFINE h == [s \in Small(S, 0) |-> 0]
  <2>1. \A s \in Small(S, 0) : s = {}
    BY FS_Subset, FS_CardinalityType, FS_EmptySet DEF Small
  <2>2. Solves(0, h)
    BY <2>1 DEF SumOf
  <2> QED BY <2>2
<1>2. ASSUME NEW n \in Nat, n \in X PROVE n + 1 \in X
  <2>1. PICK h : Solves(n, h)
    BY <1>2
  <2> DEFINE g == [s \in Small(S, n + 1) |-> SumOf(f, h, s)]
  <2>2. ASSUME NEW s \in Small(S, n + 1), s # {}
        PROVE  g[s \ {Pick(s)}] = h[s \ {Pick(s)}]
    <3>1. s \ {Pick(s)} \in Small(S, n) /\ s \ {Pick(s)} \in Small(S, n + 1)
      <4>1. s \in SUBSET S /\ Cardinality(s) <= n + 1 /\ Pick(s) \in s
        BY <2>2, PickIn DEF Small
      <4>2. /\ s \ {Pick(s)} \in SUBSET S /\ Cardinality(s) \in Nat
            /\ Cardinality(s \ {Pick(s)}) = Cardinality(s) - 1
        BY <4>1, SmallerByOne
      <4> QED BY <4>1, <4>2 DEF Small
    <3>2. h[s \ {Pick(s)}] = SumOf(f, h, s \ {Pick(s)})
      BY <2>1, <3>1
    <3> QED BY <3>1, <3>2
  <2>3. \A s \in Small(S, n + 1) : SumOf(f, g, s) = SumOf(f, h, s)
    <3> HIDE DEF g
    <3> QED BY <2>2 DEF SumOf
  <2>4. Solves(n + 1, g)
    BY <2>3
  <2> HIDE DEF g, Solves
  <2> QED BY <2>4
<1>3. Cardinality(S) \in X
  <2> HIDE DEF X
  <2>1. Nat \subseteq X
    BY <1>1, <1>2, NatInduct
  <2> QED BY <2>1, FS_CardinalityType
<1>4. Small(S, Cardinality(S)) = SUBSET S
  BY FS_Subset DEF Small
<1> QED BY <1>3, <1>4 DEF Sums

LEMMA SumsType ==
    ASSUME NEW S, IsFiniteSet(S), NEW f \in [S -> Int], NEW h, Sums(f, S, h)
    PROVE  \A s \in SUBSET S : h[s] \in Int
<1> DEFINE X == {n \in Nat : \A s \in SUBSET S : Cardinality(s) = n => h[s] \in Int}
<1>1. 0 \in X
  <2>1. \A s \in SUBSET S : Cardinality(s) = 0 => s = {}
    BY FS_Subset, FS_EmptySet
  <2> QED BY <2>1 DEF Sums, SumOf
<1>2. ASSUME NEW n \in Nat, n \in X PROVE n + 1 \in X
  <2> SUFFICES ASSUME NEW s \in SUBSET S, Cardinality(s) = n + 1 PROVE h[s] \in Int
    OBVIOUS
  <2>1. s # {}
    BY FS_EmptySet
  <2>2. Pick(s) \in s /\ f[Pick(s)] \in Int
    BY <2>1, PickIn
  <2>3. s \ {Pick(s)} \in SUBSET S /\ Cardinality(s \ {Pick(s)}) = n
    BY <2>2, SmallerByOne
  <2>4. h[s \ {Pick(s)}] \in Int
    BY <1>2, <2>3
  <2>5. h[s] = f[Pick(s)] + h[s \ {Pick(s)}]
    BY <2>1 DEF Sums, SumOf
  <2> QED BY <2>2, <2>4, <2>5
<1>3. Nat \subseteq X
  <2> HIDE DEF X
  <2> QED BY <1>1, <1>2, NatInduct
<1> QED BY <1>3, FS_Subset, FS_CardinalityType

\* Any element may be added last.
LEMMA SumsCommute ==
    ASSUME NEW S, IsFiniteSet(S), NEW f \in [S -> Int], NEW h, Sums(f, S, h)
    PROVE  \A s \in SUBSET S : \A x \in s : h[s] = f[x] + h[s \ {x}]
<1> DEFINE X == {n \in Nat : \A s \in SUBSET S : Cardinality(s) = n =>
                               \A x \in s : h[s] = f[x] + h[s \ {x}]}
<1>1. 0 \in X
  BY SmallerByOne
<1>2. ASSUME NEW n \in Nat, n \in X PROVE n + 1 \in X
  <2> SUFFICES ASSUME NEW s \in SUBSET S, Cardinality(s) = n + 1, NEW x \in s
               PROVE  h[s] = f[x] + h[s \ {x}]
    OBVIOUS
  <2> DEFINE p == Pick(s)
             sp == s \ {p}
             sx == s \ {x}
  <2>1. p \in s /\ h[s] = f[p] + h[sp]
    BY PickIn DEF Sums, SumOf
  <2>2. CASE p = x
    BY <2>1, <2>2
  <2>3. CASE p # x
    <3>1. /\ sp \in SUBSET S /\ Cardinality(sp) = n /\ x \in sp
          /\ sx \in SUBSET S /\ Cardinality(sx) = n /\ p \in sx
          /\ sp \ {x} = sx \ {p} /\ sp \ {x} \in SUBSET S
      BY <2>1, <2>3, SmallerByOne
    <3>2. h[sp] = f[x] + h[sp \ {x}] /\ h[sx] = f[p] + h[sx \ {p}]
      BY <1>2, <3>1
    <3>3. f[p] \in Int /\ f[x] \in Int /\ h[sp \ {x}] \in Int
      BY <2>1, <3>1, SumsType
    <3>4. h[sx \ {p}] = h[sp \ {x}]
      BY <3>1
    <3>5. h[s] = f[x] + h[sx]
      <4> HIDE DEF p, sp, sx, X
      <4> QED BY <2>1, <3>2, <3>3, <3>4
    <3> QED BY <3>5
  <2> QED BY <2>2, <2>3
<1>3. Nat \subseteq X
  <2> HIDE DEF X
  <2> QED BY <1>1, <1>2, NatInduct
<1> QED BY <1>3, FS_Subset, FS_CardinalityType

\* The sum over a set depends on the values there and on nothing else.
LEMMA SumsAgree ==
    ASSUME NEW S, IsFiniteSet(S), NEW f, NEW h, Sums(f, S, h),
           NEW T, IsFiniteSet(T), NEW g, NEW k, Sums(g, T, k),
           S \subseteq T, \A x \in S : f[x] = g[x]
    PROVE  h[S] = k[S]
<1> DEFINE X == {n \in Nat : \A s \in SUBSET S : Cardinality(s) = n => h[s] = k[s]}
<1>0. ASSUME NEW s \in SUBSET S, s = {} \/ h[s \ {Pick(s)}] = k[s \ {Pick(s)}]
      PROVE  h[s] = k[s]
  <2>1. h[s] = SumOf(f, h, s) /\ k[s] = SumOf(g, k, s)
    BY DEF Sums
  <2>2. s # {} => f[Pick(s)] = g[Pick(s)]
    BY PickIn
  <2> QED BY <1>0, <2>1, <2>2 DEF SumOf
<1>1. 0 \in X
  <2>1. \A s \in SUBSET S : Cardinality(s) = 0 => s = {}
    BY FS_Subset, FS_EmptySet
  <2> QED BY <1>0, <2>1
<1>2. ASSUME NEW n \in Nat, n \in X PROVE n + 1 \in X
  <2> SUFFICES ASSUME NEW s \in SUBSET S, Cardinality(s) = n + 1, s # {} PROVE h[s] = k[s]
    BY <1>0
  <2>1. s \ {Pick(s)} \in SUBSET S /\ Cardinality(s \ {Pick(s)}) = n
    BY PickIn, SmallerByOne
  <2> QED BY <1>0, <1>2, <2>1
<1>3. Nat \subseteq X
  <2> HIDE DEF X
  <2> QED BY <1>1, <1>2, NatInduct
<1> QED BY <1>3, FS_Subset, FS_CardinalityType

LEMMA SumFunctionIs ==
    ASSUME NEW S, IsFiniteSet(S), NEW f, DOMAIN f = S
    PROVE  \E h : Sums(f, S, h) /\ SumFunction(f) = h[S]
<1> DEFINE H == CHOOSE h : Sums(f, S, h)
<1>1. Sums(f, S, H)
  BY SumsExist
<1>2. SumFunction(f) = H[S]
  BY DEF SumFunction, SumFunctionOnSet, FoldFunctionOnSet, MapThenFoldSet, Sums, SumOf, Pick
<1> QED BY <1>1, <1>2

LEMMA SumOfNothing == ASSUME NEW f, DOMAIN f = {} PROVE SumFunction(f) = 0
<1>1. PICK h : Sums(f, {}, h) /\ SumFunction(f) = h[{}]
  BY SumFunctionIs, FS_EmptySet
<1> QED BY <1>1 DEF Sums, SumOf

\* The sum of one value more.
LEMMA SumWithOneMore ==
    ASSUME NEW S, IsFiniteSet(S), NEW x, x \notin S, NEW f \in [S \cup {x} -> Int]
    PROVE  /\ SumFunction(f) = f[x] + SumFunction([y \in S |-> f[y]])
           /\ SumFunction([y \in S |-> f[y]]) \in Int
<1> DEFINE T == S \cup {x}
           g == [y \in S |-> f[y]]
<1>1. IsFiniteSet(T)
  BY FS_AddElement
<1>2. PICK k : Sums(f, T, k) /\ SumFunction(f) = k[T]
  BY <1>1, SumFunctionIs
<1>3. PICK h : Sums(g, S, h) /\ SumFunction(g) = h[S]
  BY SumFunctionIs
<1>4. h[S] = k[S]
  BY <1>1, <1>2, <1>3, SumsAgree
<1>5. T \in SUBSET T /\ x \in T /\ T \ {x} = S
  OBVIOUS
<1>6. k[T] = f[x] + k[T \ {x}]
  BY <1>1, <1>2, <1>5, SumsCommute
<1>7. h[S] \in Int
  BY <1>3, SumsType
<1> QED BY <1>2, <1>3, <1>4, <1>5, <1>6, <1>7

(***************************************************************************)
(* Portions and stock: what is gone is on orders.                          *)
(***************************************************************************)

\* A sum over the orders grows by what the new order adds.
LEMMA OneMoreOrder ==
    ASSUME NEW P, IsFiniteSet(P), NEW t, t \notin P, NEW f \in [P -> Int],
           NEW g \in [P \cup {t} -> Int], \A u \in P : g[u] = f[u]
    PROVE  SumFunction(g) = g[t] + SumFunction(f) /\ SumFunction(f) \in Int
<1>1. f = [u \in P |-> g[u]]
  OBVIOUS
<1> QED BY <1>1, SumWithOneMore

\* An order's lines count in whole units.
LEMMA UnitsType ==
    ASSUME TypeOK, NEW t \in Placed
    PROVE  /\ t \in Attempt /\ orders[t].lines \in Lines
           /\ \A i \in Item : orders[t].lines[i].qty \in Int
           /\ \A o \in Offer : Redeemed(orders[t].lines, o) \in Int
<1>1. orders[t].lines \in Lines
  BY SameOperators DEF TypeOK, Placed, Ledger!Order
<1>2. \A i \in Item : orders[t].lines[i].qty \in Int /\ orders[t].lines[i].rescued \in Int
  BY <1>1 DEF Lines, OrderLine
<1>3. \A o \in Offer : OfferItem[o] \in Item
  BY OfferAssumption
<1> QED BY <1>1, <1>2, <1>3 DEF Placed, Redeemed

LEMMA PlacedStep ==
    ASSUME IInv, [Next]_vars
    PROVE  \/ \E t \in Attempt :
                /\ Commit(t)
                /\ t \notin Placed /\ Placed' = Placed \cup {t}
                /\ \A u \in Placed : orders'[u] = orders[u]
                /\ orders'[t].lines = lines[t]
           \/ /\ ~\E t \in Attempt : Commit(t)
              /\ Placed' = Placed /\ orders' = orders
<1>1. ASSUME NEW t \in Attempt, Commit(t)
      PROVE  /\ t \notin Placed /\ Placed' = Placed \cup {t}
             /\ \A u \in Placed : orders'[u] = orders[u]
             /\ orders'[t].lines = lines[t]
  <2>1. orders' = [orders EXCEPT ![t] = NewOrder(t)] /\ orders[t] = NoOrder /\ NewOrder(t) # NoOrder
    BY <1>1, CommitWrites
  <2>2. orders \in [Attempt -> Ledger!Order \cup {NoOrder}]
    BY DEF IInv, TypeOK
  <2>3. NewOrder(t).lines = lines[t]
    BY DEF NewOrder
  <2> QED BY <2>1, <2>2, <2>3 DEF Placed
<1> QED BY <1>1, LedgerWrites DEF Placed

\* The initial table is empty, and a commit adds one order to finitely many.
LEMMA PlacedFinite ==
    /\ Init => Placed = {} /\ IsFiniteSet(Placed)
    /\ IInv /\ IsFiniteSet(Placed) /\ [Next]_vars => IsFiniteSet(Placed)'
<1>1. Init => Placed = {}
  BY DEF Init, Placed
<1>2. ASSUME IInv, IsFiniteSet(Placed), [Next]_vars PROVE IsFiniteSet(Placed)'
  BY <1>2, PlacedStep, FS_AddElement
<1> QED BY <1>1, <1>2, FS_EmptySet

\* Only a checkout moves remaining_quantity.
LEMMA RemainingKept ==
    ASSUME TypeOK, [Next]_vars, ~\E t \in Attempt : Commit(t), NEW o \in Offer
    PROVE  offer'[o].remaining = offer[o].remaining
<1>1. ASSUME NEW t \in Attempt, Begin(t) \/ Progress(t) \/ Rollback(t) PROVE offer' = offer
  BY <1>1 DEF Begin, Progress, ClaimKey, RejectReusedKey, ReplayOrder, ReadCart, ReadVenue,
              LockRow, PriceLines, BumpMenuVersion, ClearCart, Rollback, Fail, ledger
<1>2. ASSUME NEW p \in Offer, PartnerCancelsOffer(p)
      PROVE  offer'[o].remaining = offer[o].remaining
  BY <1>2 DEF PartnerCancelsOffer, TypeOK, OfferRow
<1>3. CASE (Environment /\ ~\E p \in Offer : PartnerCancelsOffer(p)) \/ UNCHANGED vars
  BY <1>3 DEF Environment, SaveCart, PartnerSetsPrice, PartnerSetsAvailability,
              PartnerSetsOpen, Tick, ledger, vars
<1> QED BY <1>1, <1>2, <1>3 DEF Next, Environment

\* Only a checkout moves the stock of a venue that sets none itself.
LEMMA StockKept ==
    ASSUME TypeOK, [Next]_vars, ~\E t \in Attempt : Commit(t), StockValues = {}, NEW i \in Item
    PROVE  item'[i].stock = item[i].stock
<1>1. ASSUME NEW t \in Attempt, Begin(t) \/ Progress(t) \/ Rollback(t) PROVE item' = item
  BY <1>1 DEF Begin, Progress, ClaimKey, RejectReusedKey, ReplayOrder, ReadCart, ReadVenue,
              LockRow, PriceLines, BumpMenuVersion, ClearCart, Rollback, Fail, ledger
<1>2. ASSUME NEW j \in Item, PartnerSetsPrice(j)
      PROVE  item'[i].stock = item[i].stock
  BY <1>2 DEF PartnerSetsPrice, TypeOK, MenuRow
<1>3. \A j \in Item : ~PartnerSetsAvailability(j)
  BY DEF PartnerSetsAvailability
<1>4. CASE (Environment /\ ~\E j \in Item : PartnerSetsPrice(j)) \/ UNCHANGED vars
  BY <1>3, <1>4 DEF Environment, SaveCart, PartnerCancelsOffer, PartnerSetsOpen, Tick, ledger, vars
<1> QED BY <1>1, <1>2, <1>4 DEF Next, Environment

Redemptions(o) == [t \in Placed |-> Redeemed(orders[t].lines, o)]

LEMMA RescueStep ==
    ASSUME IInv, IsFiniteSet(Placed), RescueUnitsAccounted, [Next]_vars, NEW o \in Offer
    PROVE  offer'[o].remaining + SumFunction(Redemptions(o)') = InitOffer[o].remaining
<1>1. offer[o].remaining + SumFunction(Redemptions(o)) = InitOffer[o].remaining
  BY DEF RescueUnitsAccounted, Redemptions
<1>2. TypeOK /\ TypeOK' /\ Redemptions(o) \in [Placed -> Int] /\ Redemptions(o)' \in [Placed' -> Int]
  <2>1. TypeOK /\ TypeOK'
    BY NextInv DEF IInv
  <2>2. \A t \in Placed' : Redeemed(orders'[t].lines, o) \in Int
    <3>1. ASSUME NEW t \in Placed' PROVE Redeemed(orders'[t].lines, o) \in Int
      <4>1. orders'[t].lines \in Lines
        BY <2>1, SameOperators DEF TypeOK, Placed, Ledger!Order
      <4> QED BY <4>1, OfferAssumption DEF Redeemed, Lines, OrderLine
    <3> QED BY <3>1
  <2>3. Redemptions(o) \in [Placed -> Int]
    BY <2>1, UnitsType DEF Redemptions
  <2> QED BY <2>1, <2>2, <2>3 DEF Redemptions
<1>3. CASE \E t \in Attempt : Commit(t)
  <2>1. PICK t \in Attempt : /\ Commit(t)
                             /\ t \notin Placed /\ Placed' = Placed \cup {t}
                             /\ \A u \in Placed : orders'[u] = orders[u]
                             /\ orders'[t].lines = lines[t]
    BY <1>3, PlacedStep
  <2>2. \A u \in Placed : Redemptions(o)'[u] = Redemptions(o)[u]
    BY <2>1 DEF Redemptions
  <2>3. Redemptions(o)'[t] = Redeemed(lines[t], o)
    BY <2>1 DEF Redemptions, Redeemed
  <2>4. /\ SumFunction(Redemptions(o)') = Redeemed(lines[t], o) + SumFunction(Redemptions(o))
        /\ SumFunction(Redemptions(o)) \in Int
    <3>1. Redemptions(o)' \in [Placed \cup {t} -> Int]
      BY <1>2, <2>1
    <3> DEFINE f == Redemptions(o)
               g == Redemptions(o)'
    <3>2. f \in [Placed -> Int] /\ g \in [Placed \cup {t} -> Int]
          /\ \A u \in Placed : g[u] = f[u]
      BY <1>2, <2>2, <3>1
    <3>3. t \notin Placed
      BY <2>1
    <3> HIDE DEF f, g
    <3>4. SumFunction(g) = g[t] + SumFunction(f) /\ SumFunction(f) \in Int
      BY <3>2, <3>3, OneMoreOrder
    <3> QED BY <2>3, <3>4 DEF f, g
  <2>5. offer'[o].remaining = offer[o].remaining - Redeemed(lines[t], o)
    BY <1>2, <2>1 DEF Commit, DecrementRemaining, TypeOK, OfferRow
  <2>6. offer[o].remaining \in Int /\ Redeemed(lines[t], o) \in Int
    BY <1>2, <2>1, <2>3 DEF TypeOK, OfferRow
  <2> QED BY <1>1, <2>4, <2>5, <2>6
<1>4. CASE ~\E t \in Attempt : Commit(t)
  <2>1. Placed' = Placed /\ orders' = orders
    BY <1>4, PlacedStep
  <2>2. Redemptions(o)' = Redemptions(o)
    BY <2>1 DEF Redemptions
  <2> QED BY <1>1, <1>2, <1>4, <2>2, RemainingKept
<1> QED BY <1>3, <1>4

\* remaining_quantity is moved by checkouts only, each by the units its order charges at
\* the rescue price: every portion an offer gave away is on exactly one order, however
\* checkouts, cancellations and rollbacks interleave.
THEOREM RescueUnitsConserved == Spec => []RescueUnitsAccounted
<1>1. Init => RescueUnitsAccounted
  <2> SUFFICES ASSUME Init, NEW o \in Offer
               PROVE  offer[o].remaining + SumFunction(Redemptions(o)) = InitOffer[o].remaining
    BY DEF RescueUnitsAccounted, Redemptions
  <2>1. SumFunction(Redemptions(o)) = 0
    BY PlacedFinite, SumOfNothing DEF Redemptions
  <2>2. offer[o].remaining = InitOffer[o].remaining /\ InitOffer[o].remaining \in Int
    BY MenuAssumption DEF Init, OfferRow
  <2> QED BY <2>1, <2>2
<1>2. IInv /\ IsFiniteSet(Placed) /\ RescueUnitsAccounted /\ [Next]_vars => RescueUnitsAccounted'
  BY RescueStep DEF RescueUnitsAccounted, Redemptions
<1> QED BY <1>1, <1>2, PlacedFinite, Invariance, PTL DEF Spec

Sales(i) == [t \in Placed |-> orders[t].lines[i].qty]

\* Finite stock stays finite, and what is missing from it is on orders.
StockKeptBy(i) ==
    InitItem[i].stock # Unlimited =>
        /\ item[i].stock # Unlimited
        /\ item[i].stock + SumFunction(Sales(i)) = InitItem[i].stock

LEMMA StockStep ==
    ASSUME IInv, IsFiniteSet(Placed), NEW i \in Item, StockKeptBy(i), [Next]_vars,
           StockValues = {}
    PROVE  StockKeptBy(i)'
<1> SUFFICES ASSUME InitItem[i].stock # Unlimited
             PROVE  /\ item'[i].stock # Unlimited
                    /\ item'[i].stock + SumFunction(Sales(i)') = InitItem[i].stock
  BY DEF StockKeptBy
<1>1. /\ item[i].stock # Unlimited
      /\ item[i].stock + SumFunction(Sales(i)) = InitItem[i].stock
  BY DEF StockKeptBy
<1>2. TypeOK /\ TypeOK' /\ Sales(i) \in [Placed -> Int] /\ Sales(i)' \in [Placed' -> Int]
  <2>1. TypeOK /\ TypeOK'
    BY NextInv DEF IInv
  <2>2. \A t \in Placed' : orders'[t].lines[i].qty \in Int
    <3>1. ASSUME NEW t \in Placed' PROVE orders'[t].lines[i].qty \in Int
      <4>1. orders'[t].lines \in Lines
        BY <2>1, SameOperators DEF TypeOK, Placed, Ledger!Order
      <4> QED BY <4>1 DEF Lines, OrderLine
    <3> QED BY <3>1
  <2>3. Sales(i) \in [Placed -> Int]
    BY <2>1, UnitsType DEF Sales
  <2> QED BY <2>1, <2>2, <2>3 DEF Sales
<1>3. item[i].stock \in Int
  BY <1>1, <1>2 DEF TypeOK, MenuRow
<1>4. CASE \E t \in Attempt : Commit(t)
  <2>1. PICK t \in Attempt : /\ Commit(t)
                             /\ t \notin Placed /\ Placed' = Placed \cup {t}
                             /\ \A u \in Placed : orders'[u] = orders[u]
                             /\ orders'[t].lines = lines[t]
    BY <1>4, PlacedStep
  <2>2. \A u \in Placed : Sales(i)'[u] = Sales(i)[u]
    BY <2>1 DEF Sales
  <2>3. Sales(i)'[t] = lines[t][i].qty /\ lines[t][i].qty \in Int
    BY <1>2, <2>1 DEF Sales
  <2>4. /\ SumFunction(Sales(i)') = lines[t][i].qty + SumFunction(Sales(i))
        /\ SumFunction(Sales(i)) \in Int
    <3>1. Sales(i)' \in [Placed \cup {t} -> Int]
      BY <1>2, <2>1
    <3> DEFINE f == Sales(i)
               g == Sales(i)'
    <3>2. f \in [Placed -> Int] /\ g \in [Placed \cup {t} -> Int]
          /\ \A u \in Placed : g[u] = f[u]
      BY <1>2, <2>2, <3>1
    <3>3. t \notin Placed
      BY <2>1
    <3> HIDE DEF f, g
    <3>4. SumFunction(g) = g[t] + SumFunction(f) /\ SumFunction(f) \in Int
      BY <3>2, <3>3, OneMoreOrder
    <3> QED BY <2>3, <3>4 DEF f, g
  <2>5. item'[i].stock = item[i].stock - lines[t][i].qty
    BY <1>1, <1>2, <2>1 DEF Commit, DecrementStock, TypeOK, MenuRow
  <2>6. item'[i].stock \in Int
    BY <1>3, <2>3, <2>5
  <2> QED BY <1>1, <1>3, <2>3, <2>4, <2>5, <2>6, IdAssumption
<1>5. CASE ~\E t \in Attempt : Commit(t)
  <2>1. Placed' = Placed /\ orders' = orders
    BY <1>5, PlacedStep
  <2>2. Sales(i)' = Sales(i)
    BY <2>1 DEF Sales
  <2> QED BY <1>1, <1>2, <1>5, <2>2, StockKept
<1> QED BY <1>4, <1>5

\* While the venue sets no stock itself, what is missing from an item's finite stock is
\* on orders, unit for unit.
THEOREM StockConserved ==
    ASSUME StockValues = {}
    PROVE  Spec => []StockAccounted
<1> DEFINE Kept == \A i \in Item : StockKeptBy(i)
<1>1. Init => Kept
  <2> SUFFICES ASSUME Init, NEW i \in Item, InitItem[i].stock # Unlimited
               PROVE  /\ item[i].stock # Unlimited
                      /\ item[i].stock + SumFunction(Sales(i)) = InitItem[i].stock
    BY DEF StockKeptBy
  <2>1. SumFunction(Sales(i)) = 0
    BY PlacedFinite, SumOfNothing DEF Sales
  <2>2. item[i].stock = InitItem[i].stock /\ InitItem[i].stock \in Int
    BY MenuAssumption DEF Init, MenuRow
  <2> QED BY <2>1, <2>2
<1>2. IInv /\ IsFiniteSet(Placed) /\ Kept /\ [Next]_vars => Kept'
  BY StockStep
<1>3. Kept => StockAccounted
  BY DEF StockKeptBy, StockAccounted, Sales
<1> QED BY <1>1, <1>2, <1>3, PlacedFinite, Invariance, PTL DEF Spec

===============================================================================

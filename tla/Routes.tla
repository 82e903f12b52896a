---------------------------------- MODULE Routes ----------------------------------
(***************************************************************************)
(* What every operation of the two HTTP APIs does, in order: the rules a   *)
(* handler or service checks by itself, the SQL statements it runs, and    *)
(* where the transaction begins and ends.  A plan is the sequence of these *)
(* steps on one path through the operation; an operation is a set of plans.*)
(*                                                                         *)
(* Kept abstract: values.  A rule may refuse the request with any of its   *)
(* codes, reads that follow each other and can only fail are one statement,*)
(* and a loop runs once.                                                   *)
(***************************************************************************)
EXTENDS Integers, Sequences

-----------------------------------------------------------------------------
(* Errors *)

\* errs.Code without CodeInternal, which no refusal carries.
Code == {"ORDER_INVALID_STATE_TRANSITION", "CART_VENUE_MISMATCH", "CART_EMPTY", "VENUE_CLOSED",
         "VENUE_NOT_ACCEPTING_ORDERS", "ITEM_UNAVAILABLE", "INSUFFICIENT_STOCK",
         "PRICE_CHANGED", "MIN_ORDER_AMOUNT_NOT_REACHED", "IDEMPOTENCY_KEY_CONFLICT",
         "VALIDATION_ERROR", "NOT_FOUND", "UNAUTHORIZED", "RESCUE_OFFER_OVERLAP",
         "RESCUE_INVALID_WINDOW", "RESCUE_INVALID_DISCOUNT", "RESCUE_OFFER_EXPIRED"}

\* httperr.statusFor: a code it does not list, every RESCUE one, answers 500.
StatusFor(code) ==
    CASE code \in {"VENUE_CLOSED", "VENUE_NOT_ACCEPTING_ORDERS", "ITEM_UNAVAILABLE",
                   "INSUFFICIENT_STOCK", "PRICE_CHANGED", "CART_VENUE_MISMATCH", "CART_EMPTY",
                   "ORDER_INVALID_STATE_TRANSITION", "IDEMPOTENCY_KEY_CONFLICT"} -> 409
      [] code = "MIN_ORDER_AMOUNT_NOT_REACHED" -> 422
      [] code = "VALIDATION_ERROR" -> 400
      [] code = "NOT_FOUND" -> 404
      [] code = "UNAUTHORIZED" -> 401
      [] OTHER -> 500

-----------------------------------------------------------------------------
(* Kinds of steps.  The target of a request is the row its path or body     *)
(* names; whether the caller owns it is what `scoped' steps look at.        *)

Step == [do: {"rule", "ping", "select", "find", "update", "each", "insert", "order", "take",
              "attach", "begin", "commit"},
         scoped: BOOLEAN, codes: SUBSET Code]

\* Go code that may refuse, without a statement.
Rule(codes) == [do |-> "rule", scoped |-> FALSE, codes |-> codes]

\* A SELECT; codes are what an answer without a row is turned into.
Select(codes) == [do |-> "select", scoped |-> FALSE, codes |-> codes]

\* A SELECT that finds the target only if it is the caller's.
Find == [do |-> "find", scoped |-> TRUE, codes |-> {"NOT_FOUND"}]

\* UPDATE ... WHERE id and owner; no such row is NOT_FOUND.
UpdateOwn == [do |-> "update", scoped |-> TRUE, codes |-> {"NOT_FOUND"}]

\* UPDATE ... WHERE id; the caller has been checked before.
UpdateById == [do |-> "update", scoped |-> FALSE, codes |-> {}]

\* UPDATE ... WHERE id and owner; no row ends the request's work.
UpdateEach == [do |-> "each", scoped |-> TRUE, codes |-> {}]

\* A row that carries the caller's id: inserted, or found by that id alone.
Insert(codes) == [do |-> "insert", scoped |-> TRUE, codes |-> codes]

\* The rows of a new order, which carry the caller's id.
InsertOrder == [do |-> "order", scoped |-> TRUE, codes |-> {}]

\* UPDATE ... WHERE id, of a row of the venue that is ordered from: nobody compares its
\* owner with the caller, who is a client.
Take(codes) == [do |-> "take", scoped |-> FALSE, codes |-> codes]

\* A row that carries the caller's id and refers to an item whose venue nobody compares.
Attach(codes) == [do |-> "attach", scoped |-> FALSE, codes |-> codes]

\* TxManager.WithinTx around the steps in between.
Begin == [do |-> "begin", scoped |-> FALSE, codes |-> {}]
Commit == [do |-> "commit", scoped |-> FALSE, codes |-> {}]

-----------------------------------------------------------------------------
(* Rules *)

\* The generated layer binds parameters and body.
Bind == Rule({"VALIDATION_ERROR"})

\* APIKeyAuth: the header, then one SELECT by its hash.
ApiKey == Rule({"UNAUTHORIZED"})
ResolveVenueByKeyHash == Select({"UNAUTHORIZED"})

\* What handlers check of a body before they call a service.
BodyRule == Rule({"VALIDATION_ERROR"})

EnsureAvailable == Rule({"ITEM_UNAVAILABLE", "INSUFFICIENT_STOCK"})
AddRule == Rule({"CART_VENUE_MISMATCH"})
QuantityRule == Rule({"VALIDATION_ERROR"})
EnsureNotEmpty == Rule({"CART_EMPTY"})
EnsureCanOrder == Rule({"VENUE_NOT_ACCEPTING_ORDERS", "VENUE_CLOSED"})
CheckoutRule == Rule({"NOT_FOUND", "RESCUE_OFFER_EXPIRED", "PRICE_CHANGED",
                      "ITEM_UNAVAILABLE", "INSUFFICIENT_STOCK",
                      "MIN_ORDER_AMOUNT_NOT_REACHED"})
TransitionTo == Rule({"ORDER_INVALID_STATE_TRANSITION"})
OfferRule == Rule({"RESCUE_INVALID_DISCOUNT", "RESCUE_INVALID_WINDOW", "VALIDATION_ERROR"})

-----------------------------------------------------------------------------
(* Statements *)

\* Mutant: the order's venue or client is not compared.
GetAnyOrder == Select({"NOT_FOUND"})

GetOwnedOrder == Find

ListForVenue == Select({})
UpdateOrder == UpdateById
InsertHistory == UpdateById
Enqueue == Insert({})

VenueById == Select({"NOT_FOUND"})
Schedules == Select({})
UpdateProfile == Insert({"NOT_FOUND"})

MenuVersion == Select({"NOT_FOUND"})
MenuRows == Select({})
GetFullMenu == Select({})
CategoryOfVenue == Select({"NOT_FOUND"})
InsertMenuItem == Insert({})
UpdateMenuItemRow == UpdateOwn
UpsertMenu == Insert({})
BumpMenuVersion == Insert({})
GetOwnedItem == Find
GetNewItem == Select({})

ListOffers == Select({})
InsertOffer == Attach({"RESCUE_OFFER_OVERLAP"})
CancelOfferRow == UpdateOwn
OfferFeed == Select({"VALIDATION_ERROR"})

VenuePage == Select({"VALIDATION_ERROR"})
MenuItemById == Select({"NOT_FOUND"})
ResolvePricing == Select({})
CartOfClient == Select({})
LineOfCart == Find
SaveCart == Insert({})
DeleteCart == Insert({})
MenuItemSnapshot == Select({})

ClaimKey == Insert({})
KeyOfRequest == Select({"IDEMPOTENCY_KEY_CONFLICT"})
OrderOfKey == Select({})
LockForCheckout == Select({})
DecrementStock == Take({})
DecrementRemaining == Take({})
BumpVenueMenuVersion == Take({"NOT_FOUND"})
CreateOrderRows == InsertOrder
LinkOrder == Insert({})
PingDatabase == [do |-> "ping", scoped |-> FALSE, codes |-> {}]

-----------------------------------------------------------------------------
(* The partner API, behind its key.  MenuService, OrderService and          *)
(* RescueOfferService have no TxManager: each of their statements commits   *)
(* by itself.                                                               *)

GetPartnerVenue == {<<ApiKey, ResolveVenueByKeyHash, Bind, VenueById, Schedules>>}

UpdatePartnerVenue ==
    {<<ApiKey, ResolveVenueByKeyHash, Bind, BodyRule,
       Begin, UpdateProfile, VenueById, Schedules, Commit>>}

SyncMenu ==
    {<<ApiKey, ResolveVenueByKeyHash, Bind, BodyRule, UpsertMenu, BumpMenuVersion, GetFullMenu>>}

CreateMenuItem ==
    {<<ApiKey, ResolveVenueByKeyHash, Bind, BodyRule, CategoryOfVenue,
       InsertMenuItem, BumpMenuVersion, GetNewItem>>}

\* The patch names a category or not.
UpdateMenuItem ==
    {<<ApiKey, ResolveVenueByKeyHash, Bind, BodyRule, CategoryOfVenue,
       UpdateMenuItemRow, BumpMenuVersion, GetOwnedItem>>,
     <<ApiKey, ResolveVenueByKeyHash, Bind, BodyRule,
       UpdateMenuItemRow, BumpMenuVersion, GetOwnedItem>>}

UpdateAvailability ==
    {<<ApiKey, ResolveVenueByKeyHash, Bind, BodyRule,
       UpdateEach, GetOwnedItem, BumpMenuVersion>>}

ListPartnerOrders == {<<ApiKey, ResolveVenueByKeyHash, Bind, ListForVenue>>}

\* Mutant: the row is written before the state machine is asked.
WriteThenAsk ==
    {<<ApiKey, ResolveVenueByKeyHash, Bind, BodyRule,
       GetOwnedOrder, UpdateOrder, TransitionTo, InsertHistory>>}

AcceptOrder ==
    {<<ApiKey, ResolveVenueByKeyHash, Bind, BodyRule,
       GetOwnedOrder, TransitionTo, UpdateOrder, InsertHistory>>}

RejectOrder ==
    {<<ApiKey, ResolveVenueByKeyHash, Bind, BodyRule,
       GetOwnedOrder, TransitionTo, UpdateOrder, InsertHistory>>}

AdvanceOrderStatus ==
    {<<ApiKey, ResolveVenueByKeyHash, Bind, BodyRule,
       GetOwnedOrder, TransitionTo, UpdateOrder, InsertHistory>>}

ListPartnerRescueOffers == {<<ApiKey, ResolveVenueByKeyHash, Bind, ListOffers>>}

CreateRescueOffer ==
    {<<ApiKey, ResolveVenueByKeyHash, Bind, BodyRule, OfferRule, InsertOffer>>}

CancelRescueOffer == {<<ApiKey, ResolveVenueByKeyHash, Bind, CancelOfferRow>>}

PartnerAPI ==
    GetPartnerVenue \cup UpdatePartnerVenue \cup SyncMenu \cup CreateMenuItem
        \cup UpdateMenuItem \cup UpdateAvailability \cup ListPartnerOrders \cup AcceptOrder
        \cup RejectOrder \cup AdvanceOrderStatus \cup ListPartnerRescueOffers
        \cup CreateRescueOffer \cup CancelRescueOffer

-----------------------------------------------------------------------------
(* The public API.  The caller is the client of the X-Client-Id header.     *)

ListVenues == {<<Bind, VenuePage, Schedules>>}
GetVenue == {<<Bind, VenueById, Schedules>>}

\* 304, or the menu with its offers.
GetVenueMenu ==
    {<<Bind, MenuVersion>>, <<Bind, MenuVersion, MenuVersion, MenuRows, ResolvePricing>>}

\* Without a cart, and with one.
GetCart == {<<Bind, CartOfClient>>, <<Bind, CartOfClient, MenuItemSnapshot>>}

ClearCart == {<<Bind, DeleteCart>>}

AddCartItem ==
    {<<Bind, BodyRule, MenuItemById, EnsureAvailable, ResolvePricing,
       Begin, CartOfClient, AddRule, SaveCart, Commit, MenuItemSnapshot>>}

UpdateCartItem ==
    {<<Bind, BodyRule,
       Begin, LineOfCart, MenuItemById, ResolvePricing, QuantityRule, SaveCart, Commit,
       MenuItemSnapshot>>}

RemoveCartItem == {<<Bind, Begin, LineOfCart, SaveCart, Commit, MenuItemSnapshot>>}

\* A replay; and a first order, whose items have finite stock or not, and a rescue offer
\* or not.
CreateOrder ==
    {<<Bind, BodyRule, Begin, KeyOfRequest, OrderOfKey, Commit>>,
     <<Bind, BodyRule, Begin, ClaimKey, CartOfClient, EnsureNotEmpty, VenueById, EnsureCanOrder,
       LockForCheckout, CheckoutRule, DecrementStock, DecrementRemaining, BumpVenueMenuVersion,
       CreateOrderRows, Enqueue, LinkOrder, DeleteCart, Commit>>,
     <<Bind, BodyRule, Begin, ClaimKey, CartOfClient, EnsureNotEmpty, VenueById, EnsureCanOrder,
       LockForCheckout, CheckoutRule, DecrementStock, DecrementRemaining,
       CreateOrderRows, Enqueue, LinkOrder, DeleteCart, Commit>>,
     <<Bind, BodyRule, Begin, ClaimKey, CartOfClient, EnsureNotEmpty, VenueById, EnsureCanOrder,
       LockForCheckout, CheckoutRule, DecrementStock, BumpVenueMenuVersion,
       CreateOrderRows, Enqueue, LinkOrder, DeleteCart, Commit>>,
     <<Bind, BodyRule, Begin, ClaimKey, CartOfClient, EnsureNotEmpty, VenueById, EnsureCanOrder,
       LockForCheckout, CheckoutRule, DecrementStock,
       CreateOrderRows, Enqueue, LinkOrder, DeleteCart, Commit>>}

GetOrder == {<<Bind, GetOwnedOrder>>}

CancelOrder ==
    {<<Bind, Begin, GetOwnedOrder, TransitionTo, UpdateOrder, InsertHistory, Enqueue, Commit>>}

ListRescueOffers == {<<Bind, OfferFeed>>}

PublicAPI ==
    ListVenues \cup GetVenue \cup GetVenueMenu \cup GetCart \cup ClearCart \cup AddCartItem
        \cup UpdateCartItem \cup RemoveCartItem \cup CreateOrder \cup GetOrder
        \cup CancelOrder \cup ListRescueOffers

-----------------------------------------------------------------------------
(* What is answered without either API: the two probes and CORS preflights. *)

Healthz == {<<>>}
Readyz == {<<PingDatabase>>}
Preflight == {<<>>}

Plans == Healthz \cup Readyz \cup Preflight \cup PublicAPI \cup PartnerAPI

=============================================================================

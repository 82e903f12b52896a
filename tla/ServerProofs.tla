-------------------------------- MODULE ServerProofs --------------------------------
(***************************************************************************)
(* What holds of requests for every pool, every set of callers and rows,   *)
(* and every operation of both APIs; and of the process at its end.        *)
(*                                                                         *)
(* First the order of steps in every plan, which is a fact about Routes;   *)
(* then an invariant that carries it along a request's way.                *)
(***************************************************************************)
EXTENDS Server, TLAPS

-----------------------------------------------------------------------------
(* The order of steps within the plans *)

\* A step that only a request of the owner passes.
Vets(step) == step.do \in {"find", "update", "each"} /\ step.scoped

\* The target is written by its owner's steps, or after one of them.
VetsFirst(p) ==
    \A i \in 1 .. Len(p) :
        p[i].do \in {"update", "each"} => \E j \in 1 .. i : Vets(p[j])

\* After this step something is committed: a COMMIT, or a write outside a transaction.
Lasting(p, i) ==
    \/ p[i].do = "commit"
    \/ /\ p[i].do \in {"insert", "order", "take", "attach", "update", "each"}
       /\ \A j \in 1 .. i : p[j].do # "begin"

\* What comes after a lasting step refuses nobody, or only those who do not own what an
\* earlier step has already let only its owner pass.
RefusesFirst(p) ==
    \A i \in 1 .. Len(p) :
        (\E j \in 1 .. i - 1 : Lasting(p, j)) =>
            \/ p[i].codes = {}
            \/ p[i].do = "find" /\ \E j \in 1 .. i - 1 : Vets(p[j])

\* What is taken from another's rows is taken inside the first transaction, and an order
\* is in it before it commits.
TakesWhole(p) ==
    \A i \in 1 .. Len(p) : p[i].do = "take" =>
        /\ \E b \in 1 .. i - 1 : p[b].do = "begin"
        /\ \A c \in 1 .. i - 1 : p[c].do # "commit"
        /\ \A c \in 1 .. Len(p) : p[c].do = "commit" => \E j \in 1 .. c - 1 : p[j].do = "order"

Good(p) == VetsFirst(p) /\ RefusesFirst(p) /\ TakesWhole(p)

(* The fields of the named steps, so that the plans below need not open them. *)

LEMMA RuleFields ==
    /\ Bind.do = "rule" /\ ApiKey.do = "rule" /\ BodyRule.do = "rule"
    /\ EnsureAvailable.do = "rule" /\ AddRule.do = "rule" /\ QuantityRule.do = "rule"
    /\ EnsureNotEmpty.do = "rule" /\ EnsureCanOrder.do = "rule" /\ CheckoutRule.do = "rule"
    /\ TransitionTo.do = "rule" /\ OfferRule.do = "rule"
  BY DEF Bind, ApiKey, BodyRule, EnsureAvailable, AddRule, QuantityRule, EnsureNotEmpty,
         EnsureCanOrder, CheckoutRule, TransitionTo, OfferRule, Rule

LEMMA SelectFields ==
    /\ ResolveVenueByKeyHash.do = "select" /\ VenueById.do = "select"
    /\ MenuVersion.do = "select" /\ CategoryOfVenue.do = "select" /\ OfferFeed.do = "select"
    /\ VenuePage.do = "select" /\ MenuItemById.do = "select" /\ KeyOfRequest.do = "select"
    /\ ListForVenue.do = "select" /\ ListForVenue.codes = {}
    /\ Schedules.do = "select" /\ Schedules.codes = {}
    /\ MenuRows.do = "select" /\ MenuRows.codes = {}
    /\ GetFullMenu.do = "select" /\ GetFullMenu.codes = {}
    /\ GetNewItem.do = "select" /\ GetNewItem.codes = {}
    /\ ListOffers.do = "select" /\ ListOffers.codes = {}
    /\ ResolvePricing.do = "select" /\ ResolvePricing.codes = {}
    /\ CartOfClient.do = "select" /\ CartOfClient.codes = {}
    /\ MenuItemSnapshot.do = "select" /\ MenuItemSnapshot.codes = {}
    /\ OrderOfKey.do = "select" /\ OrderOfKey.codes = {}
    /\ LockForCheckout.do = "select" /\ LockForCheckout.codes = {}
  BY DEF ResolveVenueByKeyHash, VenueById, MenuVersion, CategoryOfVenue, OfferFeed, VenuePage,
         MenuItemById, KeyOfRequest, ListForVenue, Schedules, MenuRows, GetFullMenu, GetNewItem,
         ListOffers, ResolvePricing, CartOfClient, MenuItemSnapshot, OrderOfKey,
         LockForCheckout, Select

LEMMA TargetFields ==
    /\ GetOwnedOrder.do = "find" /\ GetOwnedOrder.scoped
    /\ GetOwnedItem.do = "find" /\ GetOwnedItem.scoped
    /\ LineOfCart.do = "find" /\ LineOfCart.scoped
    /\ UpdateMenuItemRow.do = "update" /\ UpdateMenuItemRow.scoped
    /\ CancelOfferRow.do = "update" /\ CancelOfferRow.scoped
    /\ UpdateEach.do = "each" /\ UpdateEach.scoped /\ UpdateEach.codes = {}
    /\ UpdateOrder.do = "update" /\ UpdateOrder.codes = {}
    /\ InsertHistory.do = "update" /\ InsertHistory.codes = {}
  BY DEF GetOwnedOrder, GetOwnedItem, LineOfCart, UpdateMenuItemRow, CancelOfferRow, UpdateEach,
         UpdateOrder, InsertHistory, Find, UpdateOwn, UpdateById

LEMMA InsertFields ==
    /\ Enqueue.do = "insert" /\ Enqueue.codes = {}
    /\ UpdateProfile.do = "insert" /\ InsertOffer.do = "attach"
    /\ InsertMenuItem.do = "insert" /\ InsertMenuItem.codes = {}
    /\ UpsertMenu.do = "insert" /\ UpsertMenu.codes = {}
    /\ BumpMenuVersion.do = "insert" /\ BumpMenuVersion.codes = {}
    /\ SaveCart.do = "insert" /\ SaveCart.codes = {}
    /\ DeleteCart.do = "insert" /\ DeleteCart.codes = {}
    /\ ClaimKey.do = "insert" /\ ClaimKey.codes = {}
    /\ DecrementStock.do = "take" /\ DecrementStock.codes = {}
    /\ DecrementRemaining.do = "take" /\ DecrementRemaining.codes = {}
    /\ BumpVenueMenuVersion.do = "take"
    /\ CreateOrderRows.do = "order" /\ CreateOrderRows.codes = {}
    /\ LinkOrder.do = "insert" /\ LinkOrder.codes = {}
  BY DEF Enqueue, UpdateProfile, InsertOffer, InsertMenuItem, UpsertMenu, BumpMenuVersion,
         SaveCart, DeleteCart, ClaimKey, DecrementStock, DecrementRemaining,
         BumpVenueMenuVersion, CreateOrderRows, LinkOrder, Insert, InsertOrder, Take, Attach

LEMMA OtherFields ==
    /\ PingDatabase.do = "ping" /\ Begin.do = "begin" /\ Commit.do = "commit"
  BY DEF PingDatabase, Begin, Commit

(* Every operation keeps that order. *)

\* A step that changes nothing and does not move a transaction.
Reads(step) == step.do \in {"rule", "ping", "select", "find"}

LEMMA ReadingIsGood ==
    ASSUME NEW p, \A i \in 1 .. Len(p) : Reads(p[i])
    PROVE  Good(p)
  BY DEF Good, VetsFirst, RefusesFirst, TakesWhole, Lasting, Reads

\* p only reads before it begins a transaction with step b, nothing is committed before
\* step c, and what comes after that refuses nobody.
OneTransaction(p, b, c) ==
    /\ b \in 1 .. Len(p) /\ c \in 1 .. Len(p) /\ p[b].do = "begin"
    /\ \A i \in 1 .. Len(p) :
          /\ i < b => Reads(p[i])
          /\ b <= i /\ i < c => p[i].do # "commit"
          /\ c < i => p[i].codes = {}

LEMMA OneTransactionIsGood ==
    ASSUME NEW p, Len(p) \in Nat, NEW b, NEW c, OneTransaction(p, b, c),
           VetsFirst(p), TakesWhole(p)
    PROVE  Good(p)
<1>1. ASSUME NEW j \in 1 .. c - 1 PROVE ~Lasting(p, j)
  <2>1. CASE j < b
    BY <2>1 DEF Lasting, Reads, OneTransaction
  <2>2. CASE ~(j < b)
    <3>1. b \in 1 .. j /\ j \in 1 .. Len(p) /\ j < c /\ b <= j
      BY <2>2 DEF OneTransaction
    <3> QED BY <3>1 DEF Lasting, OneTransaction
  <2> QED BY <2>1, <2>2
<1>2. RefusesFirst(p)
  <2>1. ASSUME NEW i \in 1 .. Len(p), NEW j \in 1 .. i - 1, Lasting(p, j)
        PROVE  p[i].codes = {}
    <3>1. c < i
      BY <1>1, <2>1 DEF OneTransaction
    <3> QED BY <3>1 DEF OneTransaction
  <2> QED BY <2>1 DEF RefusesFirst
<1> QED BY <1>2 DEF Good

LEMMA ReadPlansAreGood ==
    /\ Good(<<>>)
    /\ \A s1 : Reads(s1) => Good(<<s1>>)
    /\ \A s1, s2 : Reads(s1) /\ Reads(s2) => Good(<<s1, s2>>)
    /\ \A s1, s2, s3 : Reads(s1) /\ Reads(s2) /\ Reads(s3) => Good(<<s1, s2, s3>>)
    /\ \A s1, s2, s3, s4 :
          Reads(s1) /\ Reads(s2) /\ Reads(s3) /\ Reads(s4) => Good(<<s1, s2, s3, s4>>)
    /\ \A s1, s2, s3, s4, s5 :
          Reads(s1) /\ Reads(s2) /\ Reads(s3) /\ Reads(s4) /\ Reads(s5)
             => Good(<<s1, s2, s3, s4, s5>>)
<1>1. Good(<<>>)
  BY ReadingIsGood
<1>2. ASSUME NEW s1, Reads(s1) PROVE Good(<<s1>>)
  BY <1>2, ReadingIsGood
<1>3. ASSUME NEW s1, NEW s2, Reads(s1), Reads(s2) PROVE Good(<<s1, s2>>)
  BY <1>3, ReadingIsGood
<1>4. ASSUME NEW s1, NEW s2, NEW s3, Reads(s1), Reads(s2), Reads(s3)
      PROVE Good(<<s1, s2, s3>>)
  BY <1>4, ReadingIsGood
<1>5. ASSUME NEW s1, NEW s2, NEW s3, NEW s4, Reads(s1), Reads(s2), Reads(s3), Reads(s4)
      PROVE Good(<<s1, s2, s3, s4>>)
  BY <1>5, ReadingIsGood
<1>6. ASSUME NEW s1, NEW s2, NEW s3, NEW s4, NEW s5,
             Reads(s1), Reads(s2), Reads(s3), Reads(s4), Reads(s5)
      PROVE Good(<<s1, s2, s3, s4, s5>>)
  BY <1>6, ReadingIsGood
<1> QED BY <1>1, <1>2, <1>3, <1>4, <1>5, <1>6

LEMMA ReadSteps ==
    /\ Reads(ApiKey) /\ Reads(Bind) /\ Reads(PingDatabase) /\ Reads(GetOwnedOrder)
    /\ Reads(ResolveVenueByKeyHash) /\ Reads(VenueById) /\ Reads(Schedules)
    /\ Reads(VenuePage) /\ Reads(MenuVersion) /\ Reads(MenuRows) /\ Reads(ResolvePricing)
    /\ Reads(CartOfClient) /\ Reads(MenuItemSnapshot) /\ Reads(ListForVenue)
    /\ Reads(ListOffers) /\ Reads(OfferFeed)
  BY RuleFields, SelectFields, TargetFields, OtherFields DEF Reads

LEMMA PublicReadsAreGood ==
    \A p \in Healthz \cup Readyz \cup Preflight \cup ListVenues \cup GetVenue
             \cup GetVenueMenu \cup GetCart \cup GetOrder \cup ListRescueOffers : Good(p)
  BY ReadPlansAreGood, ReadSteps
     DEF Healthz, Readyz, Preflight, ListVenues, GetVenue, GetVenueMenu, GetCart, GetOrder,
         ListRescueOffers

LEMMA PartnerReadsAreGood ==
    \A p \in GetPartnerVenue \cup ListPartnerOrders \cup ListPartnerRescueOffers : Good(p)
  BY ReadPlansAreGood, ReadSteps
     DEF GetPartnerVenue, ListPartnerOrders, ListPartnerRescueOffers

LEMMA VenueEditIsGood == \A p \in UpdatePartnerVenue : Good(p)
<1>1. ASSUME NEW p,
         p = <<ApiKey, ResolveVenueByKeyHash, Bind, BodyRule, Begin, UpdateProfile, VenueById,
              Schedules, Commit>>
      PROVE Good(p)
  <2>1. /\ Len(p) = 9 /\ p[1] = ApiKey /\ p[2] = ResolveVenueByKeyHash /\ p[3] = Bind
        /\ p[4] = BodyRule /\ p[5] = Begin /\ p[6] = UpdateProfile /\ p[7] = VenueById
        /\ p[8] = Schedules /\ p[9] = Commit
    BY <1>1
  <2>2. VetsFirst(p) /\ TakesWhole(p)
    <3>1. VetsFirst(p)
      BY <2>1, InsertFields, OtherFields, RuleFields, SelectFields
         DEF VetsFirst, Vets
    <3>2. TakesWhole(p)
      BY <2>1, InsertFields, OtherFields, RuleFields, SelectFields
         DEF TakesWhole, Vets
    <3> QED BY <3>1, <3>2
  <2>3. OneTransaction(p, 5, 9)
    BY <2>1, InsertFields, OtherFields, RuleFields, SelectFields DEF OneTransaction, Reads
  <2> QED BY <2>1, <2>2, <2>3, OneTransactionIsGood
<1> QED BY <1>1 DEF UpdatePartnerVenue

LEMMA MenuSyncIsGood == \A p \in SyncMenu : Good(p)
<1>1. ASSUME NEW p,
         p = <<ApiKey, ResolveVenueByKeyHash, Bind, BodyRule, UpsertMenu, BumpMenuVersion,
              GetFullMenu>>
      PROVE Good(p)
  <2>1. /\ Len(p) = 7 /\ p[1] = ApiKey /\ p[2] = ResolveVenueByKeyHash /\ p[3] = Bind
        /\ p[4] = BodyRule /\ p[5] = UpsertMenu /\ p[6] = BumpMenuVersion /\ p[7] = GetFullMenu
    BY <1>1
  <2> QED BY <2>1, InsertFields, RuleFields, SelectFields
           DEF Good, VetsFirst, RefusesFirst, TakesWhole, Vets, Lasting
<1> QED BY <1>1 DEF SyncMenu

LEMMA NewItemIsGood == \A p \in CreateMenuItem : Good(p)
<1>1. ASSUME NEW p,
         p = <<ApiKey, ResolveVenueByKeyHash, Bind, BodyRule, CategoryOfVenue, InsertMenuItem,
              BumpMenuVersion, GetNewItem>>
      PROVE Good(p)
  <2>1. /\ Len(p) = 8 /\ p[1] = ApiKey /\ p[2] = ResolveVenueByKeyHash /\ p[3] = Bind
        /\ p[4] = BodyRule /\ p[5] = CategoryOfVenue /\ p[6] = InsertMenuItem
        /\ p[7] = BumpMenuVersion /\ p[8] = GetNewItem
    BY <1>1
  <2> QED BY <2>1, InsertFields, RuleFields, SelectFields
           DEF Good, VetsFirst, RefusesFirst, TakesWhole, Vets, Lasting
<1> QED BY <1>1 DEF CreateMenuItem

LEMMA ItemEditIsGood == \A p \in UpdateMenuItem : Good(p)
<1>1. ASSUME NEW p,
         p = <<ApiKey, ResolveVenueByKeyHash, Bind, BodyRule, CategoryOfVenue,
              UpdateMenuItemRow, BumpMenuVersion, GetOwnedItem>>
      PROVE Good(p)
  <2>1. /\ Len(p) = 8 /\ p[1] = ApiKey /\ p[2] = ResolveVenueByKeyHash /\ p[3] = Bind
        /\ p[4] = BodyRule /\ p[5] = CategoryOfVenue /\ p[6] = UpdateMenuItemRow
        /\ p[7] = BumpMenuVersion /\ p[8] = GetOwnedItem
    BY <1>1
  <2> QED BY <2>1, InsertFields, RuleFields, SelectFields, TargetFields
           DEF Good, VetsFirst, RefusesFirst, TakesWhole, Vets, Lasting
<1>2. ASSUME NEW p,
         p = <<ApiKey, ResolveVenueByKeyHash, Bind, BodyRule, UpdateMenuItemRow,
              BumpMenuVersion, GetOwnedItem>>
      PROVE Good(p)
  <2>1. /\ Len(p) = 7 /\ p[1] = ApiKey /\ p[2] = ResolveVenueByKeyHash /\ p[3] = Bind
        /\ p[4] = BodyRule /\ p[5] = UpdateMenuItemRow /\ p[6] = BumpMenuVersion
        /\ p[7] = GetOwnedItem
    BY <1>2
  <2> QED BY <2>1, InsertFields, RuleFields, SelectFields, TargetFields
           DEF Good, VetsFirst, RefusesFirst, TakesWhole, Vets, Lasting
<1> QED BY <1>1, <1>2 DEF UpdateMenuItem

LEMMA AvailabilityIsGood == \A p \in UpdateAvailability : Good(p)
<1>1. ASSUME NEW p,
         p = <<ApiKey, ResolveVenueByKeyHash, Bind, BodyRule, UpdateEach, GetOwnedItem,
              BumpMenuVersion>>
      PROVE Good(p)
  <2>1. /\ Len(p) = 7 /\ p[1] = ApiKey /\ p[2] = ResolveVenueByKeyHash /\ p[3] = Bind
        /\ p[4] = BodyRule /\ p[5] = UpdateEach /\ p[6] = GetOwnedItem /\ p[7] = BumpMenuVersion
    BY <1>1
  <2> QED BY <2>1, InsertFields, RuleFields, SelectFields, TargetFields
           DEF Good, VetsFirst, RefusesFirst, TakesWhole, Vets, Lasting
<1> QED BY <1>1 DEF UpdateAvailability

LEMMA OrderChangeIsGood == \A p \in AcceptOrder \cup RejectOrder \cup AdvanceOrderStatus : Good(p)
<1>1. ASSUME NEW p,
         p = <<ApiKey, ResolveVenueByKeyHash, Bind, BodyRule, GetOwnedOrder, TransitionTo,
              UpdateOrder, InsertHistory>>
      PROVE Good(p)
  <2>1. /\ Len(p) = 8 /\ p[1] = ApiKey /\ p[2] = ResolveVenueByKeyHash /\ p[3] = Bind
        /\ p[4] = BodyRule /\ p[5] = GetOwnedOrder /\ p[6] = TransitionTo /\ p[7] = UpdateOrder
        /\ p[8] = InsertHistory
    BY <1>1
  <2> QED BY <2>1, RuleFields, SelectFields, TargetFields
           DEF Good, VetsFirst, RefusesFirst, TakesWhole, Vets, Lasting
<1> QED BY <1>1 DEF AcceptOrder, RejectOrder, AdvanceOrderStatus

LEMMA NewOfferIsGood == \A p \in CreateRescueOffer : Good(p)
<1>1. ASSUME NEW p,
         p = <<ApiKey, ResolveVenueByKeyHash, Bind, BodyRule, OfferRule, InsertOffer>>
      PROVE Good(p)
  <2>1. /\ Len(p) = 6 /\ p[1] = ApiKey /\ p[2] = ResolveVenueByKeyHash /\ p[3] = Bind
        /\ p[4] = BodyRule /\ p[5] = OfferRule /\ p[6] = InsertOffer
    BY <1>1
  <2> QED BY <2>1, InsertFields, RuleFields, SelectFields
           DEF Good, VetsFirst, RefusesFirst, TakesWhole, Vets, Lasting
<1> QED BY <1>1 DEF CreateRescueOffer

LEMMA OfferEndIsGood == \A p \in CancelRescueOffer : Good(p)
<1>1. ASSUME NEW p,
         p = <<ApiKey, ResolveVenueByKeyHash, Bind, CancelOfferRow>>
      PROVE Good(p)
  <2>1. /\ Len(p) = 4 /\ p[1] = ApiKey /\ p[2] = ResolveVenueByKeyHash /\ p[3] = Bind
        /\ p[4] = CancelOfferRow
    BY <1>1
  <2> QED BY <2>1, RuleFields, SelectFields, TargetFields
           DEF Good, VetsFirst, RefusesFirst, TakesWhole, Vets, Lasting
<1> QED BY <1>1 DEF CancelRescueOffer

LEMMA ClearIsGood == \A p \in ClearCart : Good(p)
<1>1. ASSUME NEW p,
         p = <<Bind, DeleteCart>>
      PROVE Good(p)
  <2>1. /\ Len(p) = 2 /\ p[1] = Bind /\ p[2] = DeleteCart
    BY <1>1
  <2> QED BY <2>1, InsertFields, RuleFields
           DEF Good, VetsFirst, RefusesFirst, TakesWhole, Vets, Lasting
<1> QED BY <1>1 DEF ClearCart

LEMMA AdditionIsGood == \A p \in AddCartItem : Good(p)
<1>1. ASSUME NEW p,
         p = <<Bind, BodyRule, MenuItemById, EnsureAvailable, ResolvePricing, Begin,
              CartOfClient, AddRule, SaveCart, Commit, MenuItemSnapshot>>
      PROVE Good(p)
  <2>1. /\ Len(p) = 11 /\ p[1] = Bind /\ p[2] = BodyRule /\ p[3] = MenuItemById
        /\ p[4] = EnsureAvailable /\ p[5] = ResolvePricing /\ p[6] = Begin
        /\ p[7] = CartOfClient /\ p[8] = AddRule /\ p[9] = SaveCart /\ p[10] = Commit
        /\ p[11] = MenuItemSnapshot
    BY <1>1
  <2>2. VetsFirst(p) /\ TakesWhole(p)
    <3>1. VetsFirst(p)
      BY <2>1, InsertFields, OtherFields, RuleFields, SelectFields
         DEF VetsFirst, Vets
    <3>2. TakesWhole(p)
      BY <2>1, InsertFields, OtherFields, RuleFields, SelectFields
         DEF TakesWhole, Vets
    <3> QED BY <3>1, <3>2
  <2>3. OneTransaction(p, 6, 10)
    BY <2>1, InsertFields, OtherFields, RuleFields, SelectFields DEF OneTransaction, Reads
  <2> QED BY <2>1, <2>2, <2>3, OneTransactionIsGood
<1> QED BY <1>1 DEF AddCartItem

LEMMA QuantityIsGood == \A p \in UpdateCartItem : Good(p)
<1>1. ASSUME NEW p,
         p = <<Bind, BodyRule, Begin, LineOfCart, MenuItemById, ResolvePricing, QuantityRule,
              SaveCart, Commit, MenuItemSnapshot>>
      PROVE Good(p)
  <2>1. /\ Len(p) = 10 /\ p[1] = Bind /\ p[2] = BodyRule /\ p[3] = Begin /\ p[4] = LineOfCart
        /\ p[5] = MenuItemById /\ p[6] = ResolvePricing /\ p[7] = QuantityRule
        /\ p[8] = SaveCart /\ p[9] = Commit /\ p[10] = MenuItemSnapshot
    BY <1>1
  <2>2. VetsFirst(p) /\ TakesWhole(p)
    <3>1. VetsFirst(p)
      BY <2>1, InsertFields, OtherFields, RuleFields, SelectFields, TargetFields
         DEF VetsFirst, Vets
    <3>2. TakesWhole(p)
      BY <2>1, InsertFields, OtherFields, RuleFields, SelectFields, TargetFields
         DEF TakesWhole, Vets
    <3> QED BY <3>1, <3>2
  <2>3. OneTransaction(p, 3, 9)
    BY <2>1, InsertFields, OtherFields, RuleFields, SelectFields, TargetFields
       DEF OneTransaction, Reads
  <2> QED BY <2>1, <2>2, <2>3, OneTransactionIsGood
<1> QED BY <1>1 DEF UpdateCartItem

LEMMA RemovalIsGood == \A p \in RemoveCartItem : Good(p)
<1>1. ASSUME NEW p,
         p = <<Bind, Begin, LineOfCart, SaveCart, Commit, MenuItemSnapshot>>
      PROVE Good(p)
  <2>1. /\ Len(p) = 6 /\ p[1] = Bind /\ p[2] = Begin /\ p[3] = LineOfCart /\ p[4] = SaveCart
        /\ p[5] = Commit /\ p[6] = MenuItemSnapshot
    BY <1>1
  <2>2. VetsFirst(p) /\ TakesWhole(p)
    <3>1. VetsFirst(p)
      BY <2>1, InsertFields, OtherFields, RuleFields, SelectFields, TargetFields
         DEF VetsFirst, Vets
    <3>2. TakesWhole(p)
      BY <2>1, InsertFields, OtherFields, RuleFields, SelectFields, TargetFields
         DEF TakesWhole, Vets
    <3> QED BY <3>1, <3>2
  <2>3. OneTransaction(p, 2, 5)
    BY <2>1, InsertFields, OtherFields, RuleFields, SelectFields, TargetFields
       DEF OneTransaction, Reads
  <2> QED BY <2>1, <2>2, <2>3, OneTransactionIsGood
<1> QED BY <1>1 DEF RemoveCartItem

LEMMA CheckoutIsGood == \A p \in CreateOrder : Good(p)
<1>1. ASSUME NEW p,
         p = <<Bind, BodyRule, Begin, KeyOfRequest, OrderOfKey, Commit>>
      PROVE Good(p)
  <2>1. /\ Len(p) = 6 /\ p[1] = Bind /\ p[2] = BodyRule /\ p[3] = Begin /\ p[4] = KeyOfRequest
        /\ p[5] = OrderOfKey /\ p[6] = Commit
    BY <1>1
  <2>2. VetsFirst(p) /\ TakesWhole(p)
    <3>1. VetsFirst(p)
      BY <2>1, OtherFields, RuleFields, SelectFields
         DEF VetsFirst, Vets
    <3>2. TakesWhole(p)
      BY <2>1, OtherFields, RuleFields, SelectFields
         DEF TakesWhole, Vets
    <3> QED BY <3>1, <3>2
  <2>3. OneTransaction(p, 3, 6)
    BY <2>1, OtherFields, RuleFields, SelectFields DEF OneTransaction, Reads
  <2> QED BY <2>1, <2>2, <2>3, OneTransactionIsGood
<1>2. ASSUME NEW p,
         p = <<Bind, BodyRule, Begin, ClaimKey, CartOfClient, EnsureNotEmpty, VenueById,
              EnsureCanOrder, LockForCheckout, CheckoutRule, DecrementStock,
              DecrementRemaining, BumpVenueMenuVersion, CreateOrderRows, Enqueue, LinkOrder,
              DeleteCart, Commit>>
      PROVE Good(p)
  <2>1. /\ Len(p) = 18 /\ p[1] = Bind /\ p[2] = BodyRule /\ p[3] = Begin /\ p[4] = ClaimKey
        /\ p[5] = CartOfClient /\ p[6] = EnsureNotEmpty /\ p[7] = VenueById /\ p[8] = EnsureCanOrder
        /\ p[9] = LockForCheckout /\ p[10] = CheckoutRule /\ p[11] = DecrementStock
        /\ p[12] = DecrementRemaining /\ p[13] = BumpVenueMenuVersion /\ p[14] = CreateOrderRows
        /\ p[15] = Enqueue /\ p[16] = LinkOrder /\ p[17] = DeleteCart /\ p[18] = Commit
    BY <1>2
  <2>2. VetsFirst(p)
    BY <2>1, InsertFields, OtherFields, RuleFields, SelectFields DEF VetsFirst
  <2>3. TakesWhole(p)
    <3>1. \A i \in 1 .. 17 : p[i].do # "commit"
      BY <2>1, InsertFields, OtherFields, RuleFields, SelectFields
    <3>2. \A i \in 1 .. 10 : p[i].do # "take"
      BY <2>1, InsertFields, OtherFields, RuleFields, SelectFields
    <3>3. p[3].do = "begin" /\ p[14].do = "order" /\ Len(p) = 18
      BY <2>1, InsertFields, OtherFields
    <3> QED BY <3>1, <3>2, <3>3 DEF TakesWhole
  <2>4. OneTransaction(p, 3, 18)
    BY <2>1, InsertFields, OtherFields, RuleFields, SelectFields DEF OneTransaction, Reads
  <2> QED BY <2>1, <2>2, <2>3, <2>4, OneTransactionIsGood
<1>3. ASSUME NEW p,
         p = <<Bind, BodyRule, Begin, ClaimKey, CartOfClient, EnsureNotEmpty, VenueById,
              EnsureCanOrder, LockForCheckout, CheckoutRule, DecrementStock,
              DecrementRemaining, CreateOrderRows, Enqueue, LinkOrder, DeleteCart, Commit>>
      PROVE Good(p)
  <2>1. /\ Len(p) = 17 /\ p[1] = Bind /\ p[2] = BodyRule /\ p[3] = Begin /\ p[4] = ClaimKey
        /\ p[5] = CartOfClient /\ p[6] = EnsureNotEmpty /\ p[7] = VenueById /\ p[8] = EnsureCanOrder
        /\ p[9] = LockForCheckout /\ p[10] = CheckoutRule /\ p[11] = DecrementStock
        /\ p[12] = DecrementRemaining /\ p[13] = CreateOrderRows /\ p[14] = Enqueue
        /\ p[15] = LinkOrder /\ p[16] = DeleteCart /\ p[17] = Commit
    BY <1>3
  <2>2. VetsFirst(p)
    BY <2>1, InsertFields, OtherFields, RuleFields, SelectFields DEF VetsFirst
  <2>3. TakesWhole(p)
    <3>1. \A i \in 1 .. 16 : p[i].do # "commit"
      BY <2>1, InsertFields, OtherFields, RuleFields, SelectFields
    <3>2. \A i \in 1 .. 10 : p[i].do # "take"
      BY <2>1, InsertFields, OtherFields, RuleFields, SelectFields
    <3>3. p[3].do = "begin" /\ p[13].do = "order" /\ Len(p) = 17
      BY <2>1, InsertFields, OtherFields
    <3> QED BY <3>1, <3>2, <3>3 DEF TakesWhole
  <2>4. OneTransaction(p, 3, 17)
    BY <2>1, InsertFields, OtherFields, RuleFields, SelectFields DEF OneTransaction, Reads
  <2> QED BY <2>1, <2>2, <2>3, <2>4, OneTransactionIsGood
<1>4. ASSUME NEW p,
         p = <<Bind, BodyRule, Begin, ClaimKey, CartOfClient, EnsureNotEmpty, VenueById,
              EnsureCanOrder, LockForCheckout, CheckoutRule, DecrementStock,
              BumpVenueMenuVersion, CreateOrderRows, Enqueue, LinkOrder, DeleteCart, Commit>>
      PROVE Good(p)
  <2>1. /\ Len(p) = 17 /\ p[1] = Bind /\ p[2] = BodyRule /\ p[3] = Begin /\ p[4] = ClaimKey
        /\ p[5] = CartOfClient /\ p[6] = EnsureNotEmpty /\ p[7] = VenueById /\ p[8] = EnsureCanOrder
        /\ p[9] = LockForCheckout /\ p[10] = CheckoutRule /\ p[11] = DecrementStock
        /\ p[12] = BumpVenueMenuVersion /\ p[13] = CreateOrderRows /\ p[14] = Enqueue
        /\ p[15] = LinkOrder /\ p[16] = DeleteCart /\ p[17] = Commit
    BY <1>4
  <2>2. VetsFirst(p)
    BY <2>1, InsertFields, OtherFields, RuleFields, SelectFields DEF VetsFirst
  <2>3. TakesWhole(p)
    <3>1. \A i \in 1 .. 16 : p[i].do # "commit"
      BY <2>1, InsertFields, OtherFields, RuleFields, SelectFields
    <3>2. \A i \in 1 .. 10 : p[i].do # "take"
      BY <2>1, InsertFields, OtherFields, RuleFields, SelectFields
    <3>3. p[3].do = "begin" /\ p[13].do = "order" /\ Len(p) = 17
      BY <2>1, InsertFields, OtherFields
    <3> QED BY <3>1, <3>2, <3>3 DEF TakesWhole
  <2>4. OneTransaction(p, 3, 17)
    BY <2>1, InsertFields, OtherFields, RuleFields, SelectFields DEF OneTransaction, Reads
  <2> QED BY <2>1, <2>2, <2>3, <2>4, OneTransactionIsGood
<1>5. ASSUME NEW p,
         p = <<Bind, BodyRule, Begin, ClaimKey, CartOfClient, EnsureNotEmpty, VenueById,
              EnsureCanOrder, LockForCheckout, CheckoutRule, DecrementStock, CreateOrderRows,
              Enqueue, LinkOrder, DeleteCart, Commit>>
      PROVE Good(p)
  <2>1. /\ Len(p) = 16 /\ p[1] = Bind /\ p[2] = BodyRule /\ p[3] = Begin /\ p[4] = ClaimKey
        /\ p[5] = CartOfClient /\ p[6] = EnsureNotEmpty /\ p[7] = VenueById /\ p[8] = EnsureCanOrder
        /\ p[9] = LockForCheckout /\ p[10] = CheckoutRule /\ p[11] = DecrementStock
        /\ p[12] = CreateOrderRows /\ p[13] = Enqueue /\ p[14] = LinkOrder /\ p[15] = DeleteCart
        /\ p[16] = Commit
    BY <1>5
  <2>2. VetsFirst(p)
    BY <2>1, InsertFields, OtherFields, RuleFields, SelectFields DEF VetsFirst
  <2>3. TakesWhole(p)
    <3>1. \A i \in 1 .. 15 : p[i].do # "commit"
      BY <2>1, InsertFields, OtherFields, RuleFields, SelectFields
    <3>2. \A i \in 1 .. 10 : p[i].do # "take"
      BY <2>1, InsertFields, OtherFields, RuleFields, SelectFields
    <3>3. p[3].do = "begin" /\ p[12].do = "order" /\ Len(p) = 16
      BY <2>1, InsertFields, OtherFields
    <3> QED BY <3>1, <3>2, <3>3 DEF TakesWhole
  <2>4. OneTransaction(p, 3, 16)
    BY <2>1, InsertFields, OtherFields, RuleFields, SelectFields DEF OneTransaction, Reads
  <2> QED BY <2>1, <2>2, <2>3, <2>4, OneTransactionIsGood
<1> QED BY <1>1, <1>2, <1>3, <1>4, <1>5 DEF CreateOrder

LEMMA CancellationIsGood == \A p \in CancelOrder : Good(p)
<1>1. ASSUME NEW p,
         p = <<Bind, Begin, GetOwnedOrder, TransitionTo, UpdateOrder, InsertHistory, Enqueue,
              Commit>>
      PROVE Good(p)
  <2>1. /\ Len(p) = 8 /\ p[1] = Bind /\ p[2] = Begin /\ p[3] = GetOwnedOrder
        /\ p[4] = TransitionTo /\ p[5] = UpdateOrder /\ p[6] = InsertHistory /\ p[7] = Enqueue
        /\ p[8] = Commit
    BY <1>1
  <2>2. VetsFirst(p) /\ TakesWhole(p)
    <3>1. VetsFirst(p)
      BY <2>1, InsertFields, OtherFields, RuleFields, TargetFields
         DEF VetsFirst, Vets
    <3>2. TakesWhole(p)
      BY <2>1, InsertFields, OtherFields, RuleFields, TargetFields
         DEF TakesWhole, Vets
    <3> QED BY <3>1, <3>2
  <2>3. OneTransaction(p, 2, 8)
    BY <2>1, InsertFields, OtherFields, RuleFields, TargetFields
       DEF OneTransaction, Reads
  <2> QED BY <2>1, <2>2, <2>3, OneTransactionIsGood
<1> QED BY <1>1 DEF CancelOrder

\* In every operation of both APIs, writes to the row that the request names come after the
\* check of its owner, refusals before anything that lasts, and what a checkout takes from
\* the venue's rows without such a check is in one transaction with the order.
THEOREM PlansAreGood == \A p \in Plans : Good(p)
<1>1. \A p \in PublicAPI : Good(p)
  BY PublicReadsAreGood, ClearIsGood, AdditionIsGood, QuantityIsGood, RemovalIsGood,
     CheckoutIsGood, CancellationIsGood
     DEF PublicAPI
<1>2. \A p \in PartnerAPI : Good(p)
  BY PartnerReadsAreGood, VenueEditIsGood, MenuSyncIsGood, NewItemIsGood, ItemEditIsGood,
     AvailabilityIsGood, OrderChangeIsGood, NewOfferIsGood, OfferEndIsGood
     DEF PartnerAPI
<1> QED BY <1>1, <1>2, PublicReadsAreGood DEF Plans

-----------------------------------------------------------------------------
(* Types *)

LEMMA StatusType == \A code : StatusFor(code) \in StatusCode
  BY DEF StatusFor, StatusCode

LEMMA PlanType == <<>> \in Plans /\ \A q \in Request : Served[q] \subseteq Plans
  BY ServedAssumption DEF Plans, Healthz

LEMMA AnswerType ==
    ASSUME RequestsTypeOK, NEW q \in Request, NEW s \in StatusCode, AnswerWith(q, s),
           wrote' \in [Request -> SUBSET (Row \cup Kind)], UNCHANGED pool
    PROVE  RequestsTypeOK'
  BY PlanType DEF RequestsTypeOK, AnswerWith

LEMMA WritesType ==
    ASSUME RequestsTypeOK, NEW q \in Request
    PROVE  Writes(q) \subseteq Row \cup Kind
  BY DEF Writes, Kind, RequestsTypeOK

LEMMA ProceedType ==
    ASSUME RequestsTypeOK, NEW q \in Request, Proceed(q), UNCHANGED pool
    PROVE  RequestsTypeOK'
<1> USE DEF RequestsTypeOK
<1>1. CASE Check(q)
  BY <1>1 DEF Check, Advance
<1>2. CASE Statement(q)
  <2>1. CASE q \in open
    BY <1>2, <2>1, WritesType DEF Statement, Advance
  <2>2. CASE q \notin open
    BY <1>2, <2>2, WritesType DEF Statement, Advance
  <2> QED BY <2>1, <2>2
<1>3. CASE Skip(q)
  BY <1>3, AnswerType DEF Skip, StatusCode
<1>4. CASE Refuse(q)
  BY <1>4, AnswerType, StatusType DEF Refuse
<1>5. CASE BeginTx(q)
  BY <1>5 DEF BeginTx, Advance
<1>6. CASE CommitTx(q)
  BY <1>6 DEF CommitTx, Advance
<1>7. CASE Answer(q)
  BY <1>7, AnswerType DEF Answer, StatusCode
<1> QED BY <1>1, <1>2, <1>3, <1>4, <1>5, <1>6, <1>7 DEF Proceed

LEMMA FailType ==
    ASSUME RequestsTypeOK, NEW q \in Request, Fail(q), UNCHANGED pool
    PROVE  RequestsTypeOK'
<1>1. FailStatus(Now(q)) \in StatusCode
  BY DEF FailStatus, StatusCode
<1>2. wrote' \in [Request -> SUBSET (Row \cup Kind)]
  BY WritesType DEF RequestsTypeOK, Fail
<1> QED BY <1>1, <1>2, AnswerType DEF Fail

LEMMA ReceiveType ==
    ASSUME RequestsTypeOK, NEW q \in Request, Receive(q), UNCHANGED pool
    PROVE  RequestsTypeOK'
  BY PlanType DEF RequestsTypeOK, Receive, StatusCode

LEMMA IdleType ==
    ASSUME RequestsTypeOK, UNCHANGED requests, pool' \in {"open", "closed"}
    PROVE  RequestsTypeOK'
  BY DEF RequestsTypeOK, requests

LEMMA FreshType ==
    ASSUME RequestsTypeOK, Fresh, pool' \in {"open", "closed"}
    PROVE  RequestsTypeOK'
  BY DEF RequestsTypeOK, Fresh, StatusCode

\* Every variable keeps its type, whatever order requests, signals, failures and the
\* dispatcher's turns come in.
THEOREM TypesHold == Spec => []TypeOK
<1>1. Init => TypeOK
  <2> SUFFICES ASSUME Init PROVE TypeOK
    OBVIOUS
  <2>1. RequestsTypeOK
    BY PlanType DEF Init, RequestsInit, RequestsTypeOK, StatusCode
  <2> QED BY <2>1 DEF Init, TypeOK
<1>2. TypeOK /\ [Next]_vars => TypeOK'
  <2> SUFFICES ASSUME TypeOK, [Next]_vars PROVE TypeOK'
    OBVIOUS
  <2>1. CASE UNCHANGED vars
    BY <2>1 DEF vars, requests, process, TypeOK, RequestsTypeOK
  <2>2. ASSUME NEW q \in Request, Arrive(q) \/ Serve(q) \/ Break(q),
               UNCHANGED <<pool, process, turn>>
        PROVE TypeOK'
    BY <2>2, ReceiveType, ProceedType, FailType DEF Arrive, Serve, Break, TypeOK, process
  <2>3. CASE Lifecycle
    <3>1. CASE Misconfigured \/ NoDatabase \/ Start
      <4>1. Fresh /\ pool' \in {"open", "closed"}
        BY <3>1 DEF Misconfigured, NoDatabase, Start, TypeOK, RequestsTypeOK
      <4>2. RequestsTypeOK'
        BY <4>1, FreshType DEF TypeOK
      <4> QED BY <3>1, <4>2 DEF Misconfigured, NoDatabase, Start, Fresh, TypeOK
    <3>2. CASE Interrupt \/ Shutdown \/ Drained \/ Elapse
      <4>1. RequestsTypeOK'
        BY <3>2, IdleType DEF Interrupt, Shutdown, Drained, Elapse, TypeOK, RequestsTypeOK
      <4> QED BY <3>2, <4>1 DEF Interrupt, Shutdown, Drained, Elapse, TypeOK
    <3>3. CASE ListenFails \/ GraceOver \/ Join
      <4>1. RequestsTypeOK'
        BY <3>3, IdleType DEF ListenFails, GraceOver, Join, TypeOK
      <4> QED BY <3>3, <4>1 DEF ListenFails, GraceOver, Join, TypeOK
    <3>4. CASE Exit
      BY <3>4 DEF Exit, TypeOK, RequestsTypeOK
    <3> QED BY <2>3, <3>1, <3>2, <3>3, <3>4 DEF Lifecycle
  <2>4. CASE Dispatch
    BY <2>4 DEF Dispatch, Poll, Publish, Record, RecordFails, StopDispatcher, requests, process,
                TypeOK, RequestsTypeOK
  <2> QED BY <2>1, <2>2, <2>3, <2>4 DEF Next
<1> QED BY <1>1, <1>2, PTL DEF Spec

-----------------------------------------------------------------------------
(* The end of the process *)

\* What the end of the process finds: nobody is served in a process that is down, one
\* that has been drained has no request in progress, and its way there is known.
Ending ==
    /\ proc = "down" => open = {} /\ \A q \in Request : ~Running(q)
    /\ proc \in {"closing", "down"} /\ why = "clean" => turn = "off"
    /\ proc = "joining" \/ (proc = "closing" /\ why = "clean")
          => \A q \in Request : ~Running(q)
    /\ proc = "closing" => why \in {"listen", "clean"} \/ elapsed
    /\ \A q \in Request : phase[q] = "cut" => proc = "down" /\ why # "clean"
    /\ CutOnlyAfterGrace

LEMMA EndingHolds == Spec => [](TypeOK /\ Ending)
<1>1. Init => Ending
  BY DEF Init, RequestsInit, Ending, Running, CutOnlyAfterGrace
<1>2. TypeOK /\ Ending /\ [Next]_vars => Ending'
  <2> SUFFICES ASSUME TypeOK, Ending, [Next]_vars PROVE Ending'
    OBVIOUS
  <2>1. CASE UNCHANGED vars
    BY <2>1 DEF vars, requests, process, Ending, Running, CutOnlyAfterGrace
  <2>2. ASSUME NEW q \in Request, Arrive(q), UNCHANGED <<pool, process, turn>>
        PROVE Ending'
    BY <2>2 DEF Arrive, Receive, process, Ending, Running, CutOnlyAfterGrace, TypeOK,
                RequestsTypeOK
  <2>3. ASSUME NEW q \in Request, Serve(q) \/ Break(q), UNCHANGED <<pool, process, turn>>
        PROVE Ending'
    <3>1. Running(q) /\ proc # "down"
      BY <2>3 DEF Serve, Break, Proceed, Fail, Check, Statement, Skip, Refuse, BeginTx,
                  CommitTx, Answer, AtStep
    <3>2. \/ UNCHANGED phase
          \/ phase' = [phase EXCEPT ![q] = "answered"]
      BY <2>3 DEF Serve, Break, Proceed, Fail, Check, Statement, Skip, Refuse, BeginTx,
                  CommitTx, Answer, AnswerWith
    <3> QED BY <2>3, <3>1, <3>2 DEF process, Ending, Running, CutOnlyAfterGrace, TypeOK,
                                    RequestsTypeOK
  <2>4. CASE Misconfigured \/ NoDatabase \/ Start
    BY <2>4 DEF Misconfigured, NoDatabase, Start, Fresh, Ending, Running, CutOnlyAfterGrace
  <2>5. CASE Interrupt \/ Shutdown \/ Drained \/ Elapse
    BY <2>5 DEF Interrupt, Shutdown, Drained, Elapse, requests, Ending, Running,
                CutOnlyAfterGrace
  <2>6. CASE ListenFails \/ GraceOver \/ Join
    BY <2>6 DEF ListenFails, GraceOver, GraceIsOver, Join, requests, Ending, Running,
                CutOnlyAfterGrace
  <2>7. CASE Exit
    BY <2>7 DEF Exit, Ending, Running, CutOnlyAfterGrace, TypeOK, RequestsTypeOK
  <2>8. CASE Dispatch
    BY <2>8 DEF Dispatch, Poll, Publish, Record, RecordFails, StopDispatcher, requests, process,
                Ending, Running, CutOnlyAfterGrace
  <2> QED BY <2>1, <2>2, <2>3, <2>4, <2>5, <2>6, <2>7, <2>8 DEF Next, Lifecycle
<1> QED BY <1>1, <1>2, TypesHold, PTL DEF Spec

\* A request is cut off only by a shutdown whose grace period is over, or when the
\* listener itself fails.
THEOREM GraceIsGiven == Spec => []CutOnlyAfterGrace
<1>1. Ending => CutOnlyAfterGrace
  BY DEF Ending
<1> QED BY <1>1, EndingHolds, PTL

\* An exit reported as graceful leaves no request cut, no transaction open and no
\* delivery half way.
THEOREM CleanExitsAreClean == Spec => []CleanExit
<1>1. Ending => CleanExit
  BY DEF Ending, CleanExit
<1> QED BY <1>1, EndingHolds, PTL

-----------------------------------------------------------------------------
(* The way of a request *)

\* The steps it has behind it.
Behind(q) == {i \in 1 .. Len(plan[q]) : i < at[q]}

\* Of the rows requests name, what it may write: its target, after a check.
Named(q) == IF Owns(q) THEN {target[q]} ELSE {}

WritesOwn(q) == pending[q] \cup wrote[q] \subseteq Kind \cup Named(q)

\* What it takes from another's rows waits for an order and its commit.
TakesForOrder(q) ==
    /\ "shelf" \in wrote[q] => "order" \in wrote[q]
    /\ "shelf" \in pending[q] => \E i \in Behind(q) : plan[q][i].do = "take"
    /\ Running(q) => \A i \in Behind(q) :
          plan[q][i].do = "order" => "order" \in pending[q] \cup wrote[q]

\* A request that passed a vetting step owns its target; one that began a transaction
\* and has it no more has committed it; what it has written that lasts, a lasting step
\* behind it wrote.
Sound(q) ==
    /\ q \notin open => pending[q] = {}
    /\ ~Running(q) => q \notin open
    /\ Running(q) => status[q] = 0
    /\ \A i \in Behind(q) : Vets(plan[q][i]) => Owns(q)
    /\ Running(q) /\ q \notin open =>
          \A i \in Behind(q) : plan[q][i].do = "begin" =>
             \E j \in Behind(q) : plan[q][j].do = "commit"
    /\ Running(q) /\ wrote[q] # {} => \E i \in Behind(q) : Lasting(plan[q], i)
    /\ WritesOwn(q)
    /\ TakesForOrder(q)
    /\ status[q] \in 400 .. 499 => wrote[q] = {}

\* Nothing of q changes.
Still(q) ==
    /\ phase'[q] = phase[q] /\ caller'[q] = caller[q] /\ target'[q] = target[q]
    /\ plan'[q] = plan[q] /\ at'[q] = at[q] /\ status'[q] = status[q]
    /\ pending'[q] = pending[q] /\ wrote'[q] = wrote[q]
    /\ (q \in open') = (q \in open)

LEMMA StillSound == ASSUME NEW q, Sound(q), Still(q) PROVE Sound(q)'
<1>1. Running(q)' = Running(q) /\ Behind(q)' = Behind(q) /\ Owns(q)' = Owns(q)
  BY DEF Still, Running, Behind, Owns
<1> QED BY <1>1 DEF Sound, Still, WritesOwn, Named, TakesForOrder

\* A step of one request is none of another.
LEMMA OthersStill ==
    ASSUME RequestsTypeOK, NEW q \in Request, Proceed(q) \/ Fail(q) \/ Receive(q),
           NEW r \in Request, r # q
    PROVE  Still(r)
<1> USE DEF RequestsTypeOK, Still
<1>1. CASE Check(q) \/ Statement(q)
  BY <1>1 DEF Check, Statement, Advance
<1>2. CASE Skip(q) \/ Refuse(q) \/ Answer(q)
  BY <1>2 DEF Skip, Refuse, Answer, AnswerWith
<1>3. CASE BeginTx(q) \/ CommitTx(q)
  BY <1>3 DEF BeginTx, CommitTx, Advance
<1>4. CASE Fail(q)
  BY <1>4 DEF Fail, AnswerWith
<1>5. CASE Receive(q)
  BY <1>5 DEF Receive
<1> QED BY <1>1, <1>2, <1>3, <1>4, <1>5 DEF Proceed

\* At a step that writes, the caller owns what it writes.
LEMMA WritesAreOwn ==
    ASSUME RequestsTypeOK, NEW q \in Request, Sound(q), AtStep(q),
           Now(q).do \in {"update", "each"} /\ Now(q).scoped => Owns(q)
    PROVE  Writes(q) \subseteq Kind \cup Named(q)
<1>1. CASE Now(q).do \in {"update", "each"}
  <2>1. plan[q] \in Plans /\ at[q] \in 1 .. Len(plan[q])
    BY DEF RequestsTypeOK, AtStep
  <2>2. PICK j \in 1 .. at[q] : Vets(plan[q][j])
    BY <2>1, <1>1, PlansAreGood DEF Good, VetsFirst, Now
  <2>3. CASE j = at[q]
    BY <1>1, <2>2, <2>3 DEF Vets, Now, Writes, Named
  <2>4. CASE j # at[q]
    <3>1. j \in Behind(q)
      BY <2>1, <2>2, <2>4 DEF Behind, RequestsTypeOK
    <3> QED BY <1>1, <2>2, <3>1 DEF Sound, Writes, Named
  <2> QED BY <2>3, <2>4
<1>2. CASE Now(q).do \notin {"update", "each"}
  BY <1>2 DEF Writes, Kind
<1> QED BY <1>1, <1>2

\* What q has behind it after a step forward.
LEMMA AdvanceBehind ==
    ASSUME RequestsTypeOK, NEW q \in Request, AtStep(q), Advance(q), UNCHANGED plan
    PROVE  /\ Behind(q)' = Behind(q) \cup {at[q]}
           /\ plan'[q] = plan[q] /\ at[q] \in Behind(q)'
  BY DEF RequestsTypeOK, AtStep, Advance, Behind

LEMMA CheckSound ==
    ASSUME RequestsTypeOK, NEW q \in Request, Sound(q), Check(q)
    PROVE  Sound(q)'
<1>1. Behind(q)' = Behind(q) \cup {at[q]} /\ plan'[q] = plan[q]
  BY AdvanceBehind DEF Check
<1>2. plan[q][at[q]].do = "rule"
  BY DEF Check, Now
<1> QED BY <1>1, <1>2 DEF Check, Sound, Running, Vets, Owns, WritesOwn, Named,
                       TakesForOrder

\* A write outside a transaction lasts: either none has begun, or one is committed.
LEMMA WriteLasts ==
    ASSUME RequestsTypeOK, NEW q \in Request, Sound(q), AtStep(q), q \notin open,
           Writes(q) # {}, NEW p, p = plan[q]
    PROVE  Lasting(p, at[q]) \/ \E i \in Behind(q) : Lasting(p, i)
<1>1. /\ p[at[q]].do \in {"insert", "order", "take", "attach", "update", "each"}
      /\ at[q] \in 1 .. Len(p)
  BY DEF Writes, Now, AtStep
<1>2. CASE \E i \in Behind(q) : p[i].do = "begin"
  BY <1>2 DEF Sound, AtStep, Lasting
<1>3. CASE ~ \E i \in Behind(q) : p[i].do = "begin"
  <2>1. \A j \in 1 .. at[q] : j = at[q] \/ j \in Behind(q)
    BY <1>1 DEF Behind
  <2> QED BY <1>1, <1>3, <2>1 DEF Lasting
<1> QED BY <1>2, <1>3

\* A step that takes is in a transaction.
LEMMA TakesInside ==
    ASSUME RequestsTypeOK, NEW q \in Request, Sound(q), AtStep(q), Now(q).do = "take"
    PROVE  q \in open
<1>1. plan[q] \in Plans /\ at[q] \in 1 .. Len(plan[q]) /\ plan[q][at[q]].do = "take"
  BY DEF RequestsTypeOK, AtStep, Now
<1>2. /\ \E b \in 1 .. at[q] - 1 : plan[q][b].do = "begin"
      /\ \A c \in 1 .. at[q] - 1 : plan[q][c].do # "commit"
  BY <1>1, PlansAreGood DEF Good, TakesWhole
<1>3. \A i : i \in Behind(q) <=> i \in 1 .. at[q] - 1
  BY <1>1 DEF Behind
<1> QED BY <1>2, <1>3 DEF Sound, AtStep

\* A step forward, as far as what it takes and orders goes.
LEMMA WritesForOrder ==
    ASSUME RequestsTypeOK, NEW q \in Request, Sound(q), AtStep(q)
    PROVE  /\ "shelf" \in Writes(q) <=> plan[q][at[q]].do = "take"
           /\ "order" \in Writes(q) \/ plan[q][at[q]].do # "order"
           /\ "shelf" \in Writes(q) => q \in open
<1>1. target[q] \notin Kind
  BY RowAssumption DEF RequestsTypeOK
<1>2. "shelf" \in Writes(q) <=> plan[q][at[q]].do = "take"
  BY <1>1 DEF Writes, Now, Kind
<1>3. "order" \in Writes(q) \/ plan[q][at[q]].do # "order"
  BY DEF Writes, Now
<1> QED BY <1>2, <1>3, TakesInside DEF Now

\* What is pending when a transaction commits has its order.
LEMMA CommitsOrder ==
    ASSUME RequestsTypeOK, NEW q \in Request, Sound(q), AtStep(q), Now(q).do = "commit"
    PROVE  "shelf" \in pending[q] => "order" \in pending[q] \cup wrote[q]
<1>1. plan[q] \in Plans /\ at[q] \in 1 .. Len(plan[q]) /\ plan[q][at[q]].do = "commit"
  BY DEF RequestsTypeOK, AtStep, Now
<1> SUFFICES ASSUME "shelf" \in pending[q] PROVE "order" \in pending[q] \cup wrote[q]
  OBVIOUS
<1>2. PICK i \in Behind(q) : plan[q][i].do = "take"
  BY DEF Sound, TakesForOrder
<1>3. \E j \in 1 .. at[q] - 1 : plan[q][j].do = "order"
  BY <1>1, <1>2, PlansAreGood DEF Good, TakesWhole, Behind
<1>4. \A j \in 1 .. at[q] - 1 : j \in Behind(q)
  BY <1>1 DEF Behind
<1> QED BY <1>3, <1>4 DEF Sound, TakesForOrder, AtStep

LEMMA StatementSound ==
    ASSUME RequestsTypeOK, NEW q \in Request, Sound(q), Statement(q)
    PROVE  Sound(q)'
<1> DEFINE s == plan[q][at[q]]
<1>1. /\ Behind(q)' = Behind(q) \cup {at[q]} /\ plan'[q] = plan[q]
      /\ Running(q) /\ Running(q)' /\ (q \in open') = (q \in open) /\ Owns(q)' = Owns(q)
      /\ status'[q] = status[q] /\ status[q] = 0 /\ target'[q] = target[q]
  BY AdvanceBehind DEF Statement, AtStep, Running, Owns, Sound
<1>2. Vets(s) => Owns(q)
  BY DEF Statement, Now, Vets
<1>3. s.do # "begin"
  BY DEF Statement, IsStatement, Now
<1>4. Writes(q) \subseteq Kind \cup Named(q)
  BY WritesAreOwn DEF Statement
<1>0. /\ "shelf" \in Writes(q) <=> s.do = "take"
      /\ "order" \in Writes(q) \/ s.do # "order"
      /\ "shelf" \in Writes(q) => q \in open
  BY WritesForOrder DEF Statement
<1>5. CASE q \in open
  <2>1. wrote'[q] = wrote[q] /\ pending'[q] = pending[q] \cup Writes(q)
    BY <1>5 DEF Statement, RequestsTypeOK
  <2>2. TakesForOrder(q)'
    BY <1>1, <1>0, <2>1 DEF Sound, TakesForOrder
  <2>3. WritesOwn(q)'
    BY <1>1, <1>4, <2>1 DEF Sound, WritesOwn, Named
  <2> QED BY <1>1, <1>2, <1>5, <2>1, <2>2, <2>3 DEF Sound
<1>6. CASE q \notin open
  <2>1. pending'[q] = pending[q] /\ wrote'[q] = wrote[q] \cup Writes(q)
    BY <1>6 DEF Statement, RequestsTypeOK
  <2>2. wrote'[q] # {} => \E i \in Behind(q)' : Lasting(plan[q], i)
    BY <1>1, <1>6, <2>1, WriteLasts DEF Statement, Sound
  <2>3. \A i \in Behind(q)' : plan[q][i].do = "begin" =>
           \E j \in Behind(q)' : plan[q][j].do = "commit"
    BY <1>1, <1>3, <1>6 DEF Sound
  <2>4. TakesForOrder(q)'
    BY <1>1, <1>6, <1>0, <2>1 DEF Sound, TakesForOrder
  <2>5. WritesOwn(q)'
    BY <1>1, <1>4, <2>1 DEF Sound, WritesOwn, Named
  <2> QED BY <1>1, <1>2, <1>6, <2>1, <2>2, <2>3, <2>4, <2>5 DEF Sound
<1> QED BY <1>5, <1>6

LEMMA TxSound ==
    ASSUME RequestsTypeOK, NEW q \in Request, Sound(q), BeginTx(q) \/ CommitTx(q)
    PROVE  Sound(q)'
<1>1. /\ Behind(q)' = Behind(q) \cup {at[q]} /\ plan'[q] = plan[q]
      /\ Running(q) /\ Running(q)' /\ Owns(q)' = Owns(q) /\ target'[q] = target[q]
      /\ status'[q] = status[q] /\ status[q] = 0
  BY AdvanceBehind DEF BeginTx, CommitTx, AtStep, Running, Owns, Sound
<1>2. CASE BeginTx(q)
  <2>1. /\ q \in open' /\ wrote'[q] = wrote[q] /\ pending'[q] = pending[q]
        /\ plan[q][at[q]].do = "begin"
    BY <1>2 DEF BeginTx, Now
  <2> QED BY <1>1, <2>1 DEF Sound, Vets, WritesOwn, Named, TakesForOrder
<1>3. CASE CommitTx(q)
  <2>1. /\ q \notin open' /\ wrote'[q] = wrote[q] \cup pending[q] /\ pending'[q] = {}
        /\ plan[q][at[q]].do = "commit"
    BY <1>3 DEF CommitTx, Now, RequestsTypeOK
  <2>2. Lasting(plan[q], at[q])
    BY <2>1 DEF Lasting
  <2>3. "shelf" \in pending[q] => "order" \in pending[q] \cup wrote[q]
    BY <1>3, CommitsOrder DEF CommitTx
  <2>4. TakesForOrder(q)'
    BY <1>1, <2>1, <2>3 DEF Sound, TakesForOrder
  <2> QED BY <1>1, <2>1, <2>2, <2>4 DEF Sound, Vets, WritesOwn, Named
<1> QED BY <1>2, <1>3

\* An answer is sound when it does not refuse what has lasted.
LEMMA AnswerSound ==
    ASSUME RequestsTypeOK, NEW q \in Request, Sound(q), NEW s, AnswerWith(q, s),
           wrote'[q] \subseteq Kind \cup Named(q),
           "shelf" \in wrote'[q] => "order" \in wrote'[q],
           s \in 400 .. 499 => wrote'[q] = {}
    PROVE  Sound(q)'
<1>1. /\ ~Running(q)' /\ q \notin open' /\ pending'[q] = {} /\ status'[q] = s
      /\ plan'[q] = <<>> /\ Owns(q)' = Owns(q) /\ target'[q] = target[q]
  BY DEF AnswerWith, Running, Owns, RequestsTypeOK
<1>2. Behind(q)' = {}
  BY <1>1 DEF Behind
<1> QED BY <1>1, <1>2 DEF Sound, WritesOwn, Named, TakesForOrder

LEMMA RefuseSound ==
    ASSUME RequestsTypeOK, NEW q \in Request, Sound(q), Refuse(q)
    PROVE  Sound(q)'
<1>1. plan[q] \in Plans /\ at[q] \in 1 .. Len(plan[q]) /\ Running(q) /\ wrote' = wrote
  BY DEF Refuse, AtStep, RequestsTypeOK
<1>2. wrote[q] = {}
  <2> SUFFICES ASSUME wrote[q] # {} PROVE FALSE
    OBVIOUS
  <2>1. \E i \in 1 .. at[q] - 1 : Lasting(plan[q], i)
    BY <1>1 DEF Sound, Behind, RequestsTypeOK
  <2>2. CASE Now(q).codes = {}
    BY <2>2 DEF Refuse
  <2>3. CASE Now(q).codes # {}
    <3>1. Now(q).do = "find" /\ \E j \in 1 .. at[q] - 1 : Vets(plan[q][j])
      BY <1>1, <2>1, <2>3, PlansAreGood DEF Good, RefusesFirst, Now
    <3>2. \A j \in 1 .. at[q] - 1 : j \in Behind(q)
      BY <1>1 DEF Behind
    <3> QED BY <3>1, <3>2 DEF Sound, Refuse
  <2> QED BY <2>2, <2>3
<1>3. wrote'[q] \subseteq Kind \cup Named(q) /\ wrote'[q] = {}
  BY <1>1, <1>2
<1> QED BY <1>3, AnswerSound DEF Refuse

LEMMA FailSound ==
    ASSUME RequestsTypeOK, NEW q \in Request, Sound(q), Fail(q)
    PROVE  Sound(q)'
<1>1. FailStatus(Now(q)) \notin 400 .. 499
  BY DEF FailStatus
<1>2. /\ wrote'[q] \subseteq Kind \cup Named(q)
      /\ "shelf" \in wrote'[q] => "order" \in wrote'[q]
  <2>1. CASE UNCHANGED wrote
    BY <2>1 DEF Sound, WritesOwn, TakesForOrder
  <2>2. CASE Now(q).do = "commit" /\ wrote' = [wrote EXCEPT ![q] = @ \cup pending[q]]
    <3>1. wrote'[q] = wrote[q] \cup pending[q]
      BY <2>2 DEF RequestsTypeOK
    <3>2. "shelf" \in pending[q] => "order" \in pending[q] \cup wrote[q]
      BY <2>2, CommitsOrder DEF Fail
    <3> QED BY <3>1, <3>2 DEF Sound, WritesOwn, TakesForOrder
  <2>3. CASE /\ q \notin open
             /\ Now(q).do \in {"update", "each"} /\ Now(q).scoped => Owns(q)
             /\ wrote' = [wrote EXCEPT ![q] = @ \cup Writes(q)]
    <3>1. Writes(q) \subseteq Kind \cup Named(q) /\ "shelf" \notin Writes(q)
      BY <2>3, WritesAreOwn, WritesForOrder DEF Fail
    <3>2. wrote'[q] = wrote[q] \cup Writes(q)
      BY <2>3 DEF RequestsTypeOK
    <3> QED BY <3>1, <3>2 DEF Sound, WritesOwn, TakesForOrder
  <2> QED BY <2>1, <2>2, <2>3 DEF Fail
<1> QED BY <1>1, <1>2, AnswerSound DEF Fail

LEMMA ReceiveSound ==
    ASSUME RequestsTypeOK, NEW q \in Request, Sound(q), Receive(q)
    PROVE  Sound(q)'
<1>1. /\ q \notin open' /\ pending'[q] = {} /\ wrote'[q] = {} /\ status'[q] = 0 /\ at'[q] = 1
  BY DEF Receive, Sound, RequestsTypeOK
<1>2. Behind(q)' = {}
  BY <1>1 DEF Behind
<1> QED BY <1>1, <1>2 DEF Sound, WritesOwn, Named, TakesForOrder

LEMMA StepSound ==
    ASSUME RequestsTypeOK, NEW q \in Request, Sound(q),
           Proceed(q) \/ Fail(q) \/ Receive(q)
    PROVE  Sound(q)'
<1>1. CASE Skip(q) \/ Answer(q)
  <2>1. AnswerWith(q, 200) /\ wrote'[q] = wrote[q]
    BY <1>1 DEF Skip, Answer
  <2>2. /\ wrote'[q] \subseteq Kind \cup Named(q)
        /\ "shelf" \in wrote'[q] => "order" \in wrote'[q]
    BY <2>1 DEF Sound, WritesOwn, TakesForOrder
  <2> QED BY <2>1, <2>2, AnswerSound
<1> QED BY <1>1, CheckSound, StatementSound, TxSound, RefuseSound, FailSound,
           ReceiveSound DEF Proceed

AllSound == \A q \in Request : Sound(q)

LEMMA SoundHolds == Spec => [](TypeOK /\ AllSound)
<1>1. Init => AllSound
  BY DEF Init, RequestsInit, AllSound, Sound, Running, Behind, WritesOwn, Named, TakesForOrder
<1>2. TypeOK /\ Ending /\ AllSound /\ [Next]_vars => AllSound'
  <2> SUFFICES ASSUME TypeOK, Ending, AllSound, [Next]_vars, NEW r \in Request
               PROVE  Sound(r)'
    BY DEF AllSound
  <2>0. RequestsTypeOK /\ Sound(r)
    BY DEF TypeOK, AllSound
  <2>1. CASE UNCHANGED vars
    BY <2>0, <2>1, StillSound DEF vars, requests, Still
  <2>2. ASSUME NEW q \in Request, Arrive(q) \/ Serve(q) \/ Break(q)
        PROVE  Sound(r)'
    <3>1. Proceed(q) \/ Fail(q) \/ Receive(q)
      BY <2>2 DEF Arrive, Serve, Break
    <3>2. CASE q = r
      BY <2>0, <3>1, <3>2, StepSound
    <3>3. CASE q # r
      BY <2>0, <3>1, <3>3, OthersStill, StillSound
    <3> QED BY <3>2, <3>3
  <2>3. CASE Misconfigured \/ NoDatabase \/ Start
    \* The process was down: no transaction is open, and the slate of requests is wiped.
    <3>1. proc = "down" /\ Fresh
      BY <2>3 DEF Misconfigured, NoDatabase, Start
    <3>2. open = {} /\ open' = {} /\ pending'[r] = pending[r] /\ pending[r] = {}
      BY <2>0, <3>1 DEF Ending, Fresh, Sound
    <3>3. /\ phase'[r] = "free" /\ status'[r] = 0 /\ wrote'[r] = {}
          /\ Behind(r)' = Behind(r) /\ plan'[r] = plan[r] /\ Owns(r)' = Owns(r)
      BY <3>1 DEF Fresh, Behind, Owns
    <3> QED BY <2>0, <3>2, <3>3 DEF Sound, Running, WritesOwn, Named, TakesForOrder
  <2>4. CASE Interrupt \/ ListenFails \/ Shutdown \/ Drained \/ Elapse \/ GraceOver \/ Join
             \/ Dispatch
    <3>1. UNCHANGED requests
      BY <2>4 DEF Interrupt, ListenFails, Shutdown, Drained, Elapse, GraceOver, Join, Dispatch,
                  Poll, Publish, Record, RecordFails, StopDispatcher
    <3> QED BY <2>0, <3>1, StillSound DEF requests, Still
  <2>5. CASE Exit
    <3>1. /\ r \notin open' /\ r \notin open /\ phase'[r] # "running"
          /\ pending'[r] = pending[r] /\ status'[r] = status[r] /\ wrote'[r] = wrote[r]
          /\ Behind(r)' = Behind(r) /\ plan'[r] = plan[r] /\ Owns(r)' = Owns(r)
          /\ target'[r] = target[r]
      BY <2>0, <2>5 DEF Exit, Behind, Owns, Running, RequestsTypeOK
    <3> QED BY <2>0, <3>1 DEF Sound, Running, WritesOwn, Named, TakesForOrder
  <2> QED BY <2>1, <2>2, <2>3, <2>4, <2>5 DEF Next, Lifecycle
<1> QED BY <1>1, <1>2, EndingHolds, PTL DEF Spec

\* No request, of either API, changes the row it names for anybody but its owner, in its
\* transaction or in what is committed; and what a checkout takes from the rows of the
\* venue, whom nobody asks, is never committed without the order.
THEOREM RowsArePrivate == Spec => []OnlyOwnRows
<1>1. TypeOK /\ AllSound => OnlyOwnRows
  BY RowAssumption DEF TypeOK, RequestsTypeOK, AllSound, Sound, WritesOwn, Named,
                       TakesForOrder, OnlyOwnRows, Owns
<1> QED BY <1>1, SoundHolds, PTL

\* A request that is refused has changed nothing, in a transaction or statement by
\* statement.
THEOREM RefusalsAreFree == Spec => []RefusalsChangeNothing
<1>1. AllSound => RefusalsChangeNothing
  BY DEF AllSound, Sound, RefusalsChangeNothing
<1> QED BY <1>1, SoundHolds, PTL

=============================================================================

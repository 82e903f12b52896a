--------------------------------- MODULE Cart ---------------------------------
(***************************************************************************)
(* One client's cart under requests that may overlap: CartService          *)
(* (internal/usecase/order/cart_service.go), the cart's part of            *)
(* CheckoutService.PlaceOrder, and CartRepository on PostgreSQL's READ     *)
(* COMMITTED transactions.  Save reads before it locks, then rewrites the  *)
(* whole cart.                                                             *)
(*                                                                         *)
(* Abstracted: prices and rescue offers (Checkout.tla has them), other     *)
(* clients, and the soft availability check, which is one more reason to   *)
(* refuse.                                                                 *)
(***************************************************************************)
EXTENDS Integers, Sequences, FiniteSetsExt

CONSTANTS
    Request,    \* each is one HTTP request of the client
    Item, VenueOf,
    Rank,       \* the order of menu_items.id
    Quantity,   \* what requests ask for
    NoCart,     \* no row in carts
    Free,       \* a lock nobody holds
    NoVenue, NoItem

ASSUME CartAssumption ==
    /\ Quantity \subseteq Int
    /\ Rank \in [Item -> Nat]
    /\ \A i, k \in Item : Rank[i] = Rank[k] => i = k
    /\ Free \notin Request

VARIABLES
    cart,       \* the committed rows of carts and cart_items
    issued,     \* line ids handed out by uuid.New
    pc, op,     \* where a request is, and what it asked for
    plan,       \* the cart it will save, or the cart it orders
    row,        \* who holds the lock on the carts row
    forUpdate,  \* who holds a menu item FOR UPDATE
    keyShare,   \* the items that a request's inserted lines hold FOR KEY SHARE
    orders, reply,
    hasty       \* requests sent before the last one is answered, once and for all

vars == <<cart, issued, pc, op, plan, row, forUpdate, keyShare, orders, reply, hasty>>

\* In Go: no request validator looks at quantities.
Line == [id: Nat, item: Item, qty: Int]

CartRow == [venue: {VenueOf[i] : i \in Item}, lines: SUBSET Line]

Answer(o, i, q) == [op |-> o, item |-> i, qty |-> q]

Refused == Answer("refused", NoItem, 0)

InFlight(r) == pc[r] \notin {"new", "done"}

Sent(r) == pc[r] = "new" /\ (r \in hasty \/ \A u \in Request : ~InFlight(u))

ItemsOf(c) == {l.item : l \in c.lines}

\* cart_items_quantity_positive.
Storable(c) == \A l \in c.lines : l.qty > 0

ASSUME NoCartAssumption == NoCart \notin CartRow

-----------------------------------------------------------------------------
(* The domain operations on a cart read from the database *)

\* Mutant: a known item's line is overwritten.
WithItemReplaced(c, i, q) ==
    [c EXCEPT !.lines = {l \in c.lines : l.item # i}
                            \cup {[id |-> issued + 1, item |-> i, qty |-> q]}]

WithItem(c, i, q) ==
    IF i \in ItemsOf(c)
    THEN [c EXCEPT !.lines =
            {IF l.item = i THEN [l EXCEPT !.qty = l.qty + q] ELSE l : l \in c.lines}]
    ELSE [c EXCEPT !.lines = c.lines \cup {[id |-> issued + 1, item |-> i, qty |-> q]}]

WithQuantity(c, id, q) ==
    [c EXCEPT !.lines = {IF l.id = id THEN [l EXCEPT !.qty = q] ELSE l : l \in c.lines}]

WithoutLine(c, id) == [c EXCEPT !.lines = {l \in c.lines : l.id # id}]

-----------------------------------------------------------------------------
(* The first statement of a request: read the cart, decide, or refuse *)

Go(r, step, what, c) ==
    /\ pc' = [pc EXCEPT ![r] = step]
    /\ op' = [op EXCEPT ![r] = what]
    /\ plan' = [plan EXCEPT ![r] = c]
    /\ UNCHANGED <<cart, row, forUpdate, keyShare, orders, reply, hasty>>

\* EnsureAvailable lets a quantity below one pass.
AddItem(r, i, q) ==
    LET c == IF cart = NoCart THEN [venue |-> VenueOf[i], lines |-> {}] ELSE cart IN
    /\ Sent(r)
    /\ c.venue = VenueOf[i]
    /\ Go(r, "save", Answer("add", i, q), WithItem(c, i, q))
    /\ issued' = issued + (IF i \in ItemsOf(c) THEN 0 ELSE 1)

UpdateItemQuantity(r, l, q) ==
    /\ Sent(r)
    /\ q >= 1
    /\ Go(r, "save", Answer("update", l.item, q), WithQuantity(cart, l.id, q))
    /\ UNCHANGED issued

RemoveItem(r, l) ==
    /\ Sent(r)
    /\ Go(r, "save", Answer("remove", l.item, 0), WithoutLine(cart, l.id))
    /\ UNCHANGED issued

\* PlaceOrder reads the cart and refuses an empty one.
PlaceOrder(r) ==
    /\ Sent(r)
    /\ cart # NoCart /\ cart.lines # {}
    /\ Go(r, "lock", Answer("order", NoItem, 0), cart)
    /\ UNCHANGED issued

Finish(r, answer) ==
    /\ pc' = [pc EXCEPT ![r] = "done"]
    /\ reply' = answer

\* No such item, line or cart, another venue's cart, not available, nothing to
\* order.
RefuseAtOnce(r) ==
    /\ Sent(r)
    /\ Finish(r, Refused)
    /\ UNCHANGED <<cart, issued, op, plan, row, forUpdate, keyShare, orders, hasty>>

\* A DELETE that finds no committed row waits for nobody.
RowFree == cart = NoCart \/ row = Free

ClearCart(r) ==
    /\ Sent(r)
    /\ RowFree
    /\ cart' = NoCart
    /\ Finish(r, Answer("clear", NoItem, 0))
    /\ UNCHANGED <<issued, op, plan, row, forUpdate, keyShare, orders, hasty>>

-----------------------------------------------------------------------------
(* Save: upsert the row, delete the lines, insert the planned ones one by   *)
(* one, commit                                                              *)

Upsert(r) ==
    /\ pc[r] = "save"
    /\ row = Free
    /\ row' = r
    /\ pc' = [pc EXCEPT ![r] = "insert"]
    /\ UNCHANGED <<cart, issued, op, plan, forUpdate, keyShare, orders, reply, hasty>>

ToInsert(r) == ItemsOf(plan[r]) \ keyShare[r]

\* The foreign key takes FOR KEY SHARE on the line's item, until the transaction ends.
InsertLine(r) ==
    /\ pc[r] = "insert"
    /\ \E l \in plan[r].lines :
        /\ l.item \in ToInsert(r)
        /\ l.qty > 0
        /\ forUpdate[l.item] = Free
        /\ keyShare' = [keyShare EXCEPT ![r] = @ \cup {l.item}]
    /\ UNCHANGED <<cart, issued, pc, op, plan, row, forUpdate, orders, reply, hasty>>

\* Mutant: the old lines are not deleted first.
SavedOnTop(r) ==
    [plan[r] EXCEPT !.lines = plan[r].lines \cup (IF cart = NoCart THEN {} ELSE cart.lines)]

Saved(r) == plan[r]

\* Mutant: the lock outlives the transaction.
RowKept(r) == row

RowReleased(r) == IF row = r THEN Free ELSE row

SharesReleased(r) == [keyShare EXCEPT ![r] = {}]

Save(r) ==
    /\ pc[r] = "insert"
    /\ ToInsert(r) = {}
    /\ cart' = Saved(r)
    /\ row' = RowReleased(r)
    /\ keyShare' = SharesReleased(r)
    /\ Finish(r, op[r])
    /\ UNCHANGED <<issued, op, plan, forUpdate, orders, hasty>>

-----------------------------------------------------------------------------
(* The rest of a checkout *)

\* The item a checkout locks next, in the order of ids.
LocksNext(r, i) ==
    /\ i \in ItemsOf(plan[r]) /\ forUpdate[i] # r
    /\ \A k \in ItemsOf(plan[r]) : forUpdate[k] = r \/ Rank[i] <= Rank[k]

\* Who keeps an item from being locked FOR UPDATE.
Holders(i) == ({forUpdate[i]} \ {Free}) \cup {u \in Request : i \in keyShare[u]}

LockForCheckout(r) ==
    /\ pc[r] = "lock"
    /\ \E i \in Item :
        /\ LocksNext(r, i)
        /\ Holders(i) = {}
        /\ forUpdate' = [forUpdate EXCEPT ![i] = r]
    /\ pc' = [pc EXCEPT ![r] =
                IF \A i \in ItemsOf(plan[r]) : forUpdate'[i] = r THEN "clear" ELSE "lock"]
    /\ UNCHANGED <<cart, issued, op, plan, row, keyShare, orders, reply, hasty>>

ItemsReleased(r) == [i \in Item |-> IF forUpdate[i] = r THEN Free ELSE forUpdate[i]]

\* The order of the cart as it was read; the cart as it is now goes.
Clear(r) ==
    /\ pc[r] = "clear"
    /\ RowFree
    /\ cart' = NoCart
    /\ orders' = Append(orders, plan[r])
    /\ forUpdate' = ItemsReleased(r)
    /\ Finish(r, op[r])
    /\ UNCHANGED <<issued, op, plan, row, keyShare, hasty>>

\* Any statement may fail: a refused checkout, a lost connection, a deadlock
\* PostgreSQL breaks.
Rollback(r) ==
    /\ InFlight(r)
    /\ row' = RowReleased(r)
    /\ forUpdate' = ItemsReleased(r)
    /\ keyShare' = SharesReleased(r)
    /\ Finish(r, Refused)
    /\ UNCHANGED <<cart, issued, op, plan, orders, hasty>>

\* A line below one fails the CHECK, and with it the transaction.
RefuseLine(r) ==
    /\ pc[r] = "insert"
    /\ ~Storable(plan[r])
    /\ Rollback(r)

-----------------------------------------------------------------------------

Init ==
    /\ cart = NoCart
    /\ issued = 0
    /\ pc = [r \in Request |-> "new"]
    /\ op = [r \in Request |-> Refused]
    /\ plan = [r \in Request |-> NoCart]
    /\ row = Free
    /\ forUpdate = [i \in Item |-> Free]
    /\ keyShare = [r \in Request |-> {}]
    /\ orders = << >>
    /\ reply = Answer("none", NoItem, 0)
    /\ hasty \in {{}, Request}

Lines == IF cart = NoCart THEN {} ELSE cart.lines

Arrive(r) ==
    \/ \E i \in Item, q \in Quantity : AddItem(r, i, q)
    \/ \E l \in Lines : RemoveItem(r, l) \/ \E q \in Quantity : UpdateItemQuantity(r, l, q)
    \/ PlaceOrder(r) \/ ClearCart(r) \/ RefuseAtOnce(r)

Proceed(r) ==
    \/ Upsert(r) \/ InsertLine(r) \/ RefuseLine(r) \/ Save(r)
    \/ LockForCheckout(r) \/ Clear(r)

Next == \E r \in Request : Arrive(r) \/ Proceed(r) \/ Rollback(r)

Spec == Init /\ [][Next]_vars

\* r waits for a lock u holds.
WaitsFor(r, u) ==
    \/ pc[r] = "save" /\ row = u
    \/ /\ pc[r] = "insert"
       /\ \A i \in ToInsert(r) : forUpdate[i] # Free
       /\ \E i \in ToInsert(r) : forUpdate[i] = u
    \/ pc[r] = "lock" /\ \E i \in Item : LocksNext(r, i) /\ u \in Holders(i)
    \/ pc[r] = "clear" /\ cart # NoCart /\ row = u

Deadlocked(waiting) == \A r \in waiting : \E u \in waiting : WaitsFor(r, u)

\* deadlock_timeout: PostgreSQL fails a statement of a wait cycle.
DetectDeadlock(r) ==
    /\ \E waiting \in SUBSET Request : r \in waiting /\ Deadlocked(waiting)
    /\ Rollback(r)

FairSpec ==
    /\ Spec
    /\ \A r \in Request : WF_vars(Proceed(r)) /\ WF_vars(DetectDeadlock(r))

-----------------------------------------------------------------------------
(* Properties *)

Answers ==
    [op: {"none", "refused", "add", "update", "remove", "clear", "order"},
     item: Item \cup {NoItem}, qty: Int]

TypeOK ==
    /\ cart \in CartRow \cup {NoCart}
    /\ cart # NoCart => Storable(cart)
    /\ issued \in Nat
    /\ pc \in [Request -> {"new", "save", "insert", "lock", "clear", "done"}]
    /\ op \in [Request -> Answers] /\ reply \in Answers
    /\ plan \in [Request -> CartRow \cup {NoCart}]
    /\ row \in Request \cup {Free}
    /\ forUpdate \in [Item -> Request \cup {Free}]
    /\ keyShare \in [Request -> SUBSET Item]
    /\ hasty \subseteq Request

\* Whatever overlaps, a cart is one venue's, and an item has at most one line.
OneVenueOneLine ==
    \A l \in Lines :
        /\ VenueOf[l.item] = cart.venue
        /\ \A k \in Lines : k.item = l.item \/ k.id = l.id => k = l

Units(c) == [i \in Item |-> MapThenSumSet(LAMBDA l : l.qty, {l \in c.lines : l.item = i})]

VenueSeen(c) == IF c = NoCart THEN NoVenue ELSE c.venue

UnitsSeen(c) == IF c = NoCart THEN [i \in Item |-> 0] ELSE Units(c)

\* The cart of a client who waits for each answer, any other one left out.
Patient == hasty = {}

Promise == INSTANCE ClientCart WITH
    venue <- IF Patient THEN VenueSeen(cart) ELSE NoVenue,
    units <- IF Patient THEN UnitsSeen(cart) ELSE [i \in Item |-> 0],
    placed <- IF Patient THEN [k \in DOMAIN orders |-> Units(orders[k])] ELSE << >>,
    reply <- IF Patient THEN reply ELSE Answer("none", NoItem, 0)

\* A client who waits for each answer has the cart ClientCart promises.
ClientCartSpec == Promise!Spec

\* Every request is answered: a Save holds the cart and waits for an item, a
\* checkout holds the item and waits for the cart, and one of them is failed.
EveryRequestAnswered == \A r \in Request : InFlight(r) ~> pc[r] = "done"

-----------------------------------------------------------------------------
(* The inductive invariant behind OneVenueOneLine: the carts that requests    *)
(* carry towards their Save are as sound as the committed one.                *)

Sound(c, last) == c # NoCart =>
    \A l \in c.lines :
        /\ VenueOf[l.item] = c.venue
        /\ l.id <= last
        /\ \A k \in c.lines : k.item = l.item \/ k.id = l.id => k = l

\* What a Save has inserted so far passed the CHECK.
InsertedStorable == \A r \in Request :
    /\ pc[r] \in {"save", "insert"} => plan[r] # NoCart
    /\ pc[r] # "insert" => keyShare[r] = {}
    /\ pc[r] = "insert" => \A l \in plan[r].lines : l.item \in keyShare[r] => l.qty > 0

IInv ==
    /\ TypeOK
    /\ Sound(cart, issued) /\ \A r \in Request : Sound(plan[r], issued)
    /\ InsertedStorable

(* And the one behind ClientCartSpec: the only request in flight carries what *)
(* its operation makes of the cart as it is committed now.                    *)

Meant(o, d) ==
    \/ \E i \in Item, q \in Quantity :
        /\ o = Answer("add", i, q)
        /\ VenueSeen(cart) \in {NoVenue, VenueOf[i]}
        /\ d.venue = VenueOf[i]
        /\ i \in ItemsOf(d)
        /\ Units(d) = [UnitsSeen(cart) EXCEPT ![i] = @ + q]
    \/ \E i \in Item, q \in {n \in Quantity : n >= 1} \cup {0} :
        /\ o = Answer(IF q = 0 THEN "remove" ELSE "update", i, q)
        /\ UnitsSeen(cart)[i] > 0
        /\ d.venue = VenueSeen(cart)
        /\ Units(d) = [UnitsSeen(cart) EXCEPT ![i] = q]

OneAtATime == Patient => \A r, u \in Request : InFlight(r) /\ InFlight(u) => r = u

SavesWhatWasMeant == Patient => \A r \in Request :
    pc[r] \in {"save", "insert"} => plan[r] \in CartRow /\ Meant(op[r], plan[r])

OrdersTheCart == Patient =>
    /\ orders \in Seq(CartRow)
    /\ \A r \in Request : pc[r] \in {"lock", "clear"} =>
            /\ cart # NoCart /\ cart.lines # {} /\ plan[r] = cart
            /\ op[r] = Answer("order", NoItem, 0)

Serial == OneAtATime /\ SavesWhatWasMeant /\ OrdersTheCart

===============================================================================

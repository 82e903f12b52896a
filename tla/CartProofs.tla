------------------------------ MODULE CartProofs ------------------------------
(***************************************************************************)
(* Proofs about Cart, for any number of overlapping requests and items.    *)
(***************************************************************************)
EXTENDS Cart, TLAPS

\* AddItem merges into the item's line or appends one under a new id.
LEMMA WithItemSound ==
    ASSUME NEW c \in CartRow, Sound(c, issued), issued \in Nat,
           NEW i \in Item, c.venue = VenueOf[i], NEW q \in Quantity,
           NEW last, last = issued + (IF i \in ItemsOf(c) THEN 0 ELSE 1)
    PROVE  WithItem(c, i, q) \in CartRow /\ Sound(WithItem(c, i, q), last)
<1> DEFINE d == WithItem(c, i, q)
<1>q. q \in Int
    BY CartAssumption
<1>c. c # NoCart
    BY NoCartAssumption
<1>1. CASE i \in ItemsOf(c)
    <2> DEFINE M(l) == IF l.item = i THEN [l EXCEPT !.qty = l.qty + q] ELSE l
    <2>1. d = [c EXCEPT !.lines = {M(l) : l \in c.lines}]
        BY <1>1 DEF WithItem
    <2>2. \A l \in c.lines : M(l) \in Line /\ M(l).id = l.id /\ M(l).item = l.item
        BY <1>q DEF CartRow, Line
    <2>3. d \in CartRow /\ d.venue = c.venue /\ d.lines = {M(l) : l \in c.lines}
        BY SMTT(60), <2>1, <2>2 DEF CartRow
    <2> HIDE DEF M, d
    <2>4. last = issued
        BY <1>1
    <2>5. ASSUME NEW x \in d.lines, NEW y \in d.lines
          PROVE  /\ VenueOf[x.item] = d.venue
                 /\ x.id <= issued
                 /\ y.item = x.item \/ y.id = x.id => y = x
        <3>1. PICK l \in c.lines, k \in c.lines : x = M(l) /\ y = M(k)
            BY <2>3
        <3> QED
            BY <1>c, <2>2, <2>3, <3>1 DEF Sound
    <2> QED
        BY <2>3, <2>4, <2>5 DEF Sound, d
<1>2. CASE i \notin ItemsOf(c)
    <2> DEFINE n == [id |-> issued + 1, item |-> i, qty |-> q]
    <2>1. d.venue = c.venue /\ d.lines = c.lines \cup {n} /\ d \in CartRow /\ n \in Line
        BY <1>2, <1>q DEF WithItem, CartRow, Line
    <2>2. last = issued + 1
        BY <1>2
    <2>3. \A l \in c.lines : l.item # i /\ l.id \in Nat /\ l.id <= issued
        BY <1>2, <1>c DEF ItemsOf, Sound, CartRow, Line
    <2>4. ASSUME NEW x \in d.lines, NEW y \in d.lines
          PROVE  /\ VenueOf[x.item] = d.venue
                 /\ x.id <= last
                 /\ y.item = x.item \/ y.id = x.id => y = x
        <3>1. CASE x \in c.lines /\ y \in c.lines
            BY <1>c, <2>1, <2>2, <2>3, <3>1 DEF Sound
        <3>2. CASE x = n \/ y = n
            BY <1>c, <2>1, <2>2, <2>3, <3>2 DEF Sound
        <3> QED
            BY <2>1, <3>1, <3>2
    <2> QED
        BY <2>1, <2>4 DEF Sound
<1> QED
    BY <1>1, <1>2

\* The item added has a line afterwards.
LEMMA WithItemHasItem ==
    ASSUME NEW c \in CartRow, NEW i \in Item, NEW q
    PROVE  i \in ItemsOf(WithItem(c, i, q))
<1>1. CASE i \in ItemsOf(c)
    <2> DEFINE M(l) == IF l.item = i THEN [l EXCEPT !.qty = l.qty + q] ELSE l
    <2>1. WithItem(c, i, q).lines = {M(l) : l \in c.lines}
        BY <1>1 DEF WithItem, CartRow
    <2>2. PICK l \in c.lines : l.item = i
        BY <1>1 DEF ItemsOf
    <2>3. M(l).item = i
        BY <2>2 DEF CartRow, Line
    <2> QED
        BY <2>1, <2>2, <2>3 DEF ItemsOf
<1>2. CASE i \notin ItemsOf(c)
    <2> DEFINE n == [id |-> issued + 1, item |-> i, qty |-> q]
    <2>1. WithItem(c, i, q).lines = c.lines \cup {n} /\ n.item = i
        BY <1>2 DEF WithItem, CartRow
    <2> HIDE DEF n
    <2> QED
        BY <2>1 DEF ItemsOf
<1> QED
    BY <1>1, <1>2

\* UpdateQuantity touches one line and keeps what identifies it.
LEMMA WithQuantitySound ==
    ASSUME NEW last, NEW c \in CartRow, Sound(c, last), NEW id, NEW q \in Quantity
    PROVE  WithQuantity(c, id, q) \in CartRow /\ Sound(WithQuantity(c, id, q), last)
<1> DEFINE d == WithQuantity(c, id, q)
           M(l) == IF l.id = id THEN [l EXCEPT !.qty = q] ELSE l
<1>c. c # NoCart
    BY NoCartAssumption
<1>1. \A l \in c.lines : M(l) \in Line /\ M(l).id = l.id /\ M(l).item = l.item
    BY CartAssumption DEF CartRow, Line
<1>2. d \in CartRow /\ d.venue = c.venue /\ d.lines = {M(l) : l \in c.lines}
    BY <1>1 DEF CartRow, WithQuantity
<1> HIDE DEF M, d
<1>3. ASSUME NEW x \in d.lines, NEW y \in d.lines
      PROVE  /\ VenueOf[x.item] = d.venue
             /\ x.id <= last
             /\ y.item = x.item \/ y.id = x.id => y = x
    <2>1. PICK l \in c.lines, k \in c.lines : x = M(l) /\ y = M(k)
        BY <1>2
    <2> QED
        BY <1>c, <1>1, <1>2, <2>1 DEF Sound
<1> QED
    BY <1>2, <1>3 DEF Sound, d

\* RemoveItem leaves a part of a sound cart.
LEMMA WithoutLineSound ==
    ASSUME NEW last, NEW c \in CartRow, Sound(c, last), NEW id
    PROVE  WithoutLine(c, id) \in CartRow /\ Sound(WithoutLine(c, id), last)
<1>1. WithoutLine(c, id).venue = c.venue /\ WithoutLine(c, id).lines \subseteq c.lines
    BY DEF WithoutLine, CartRow
<1>2. WithoutLine(c, id) \in CartRow
    BY <1>1 DEF WithoutLine, CartRow
<1> QED
    BY <1>1, <1>2, NoCartAssumption DEF Sound

\* A cart stays sound as ids are handed out.
LEMMA SoundLater ==
    ASSUME NEW c \in CartRow \cup {NoCart}, NEW m \in Nat, NEW n \in Nat, m <= n, Sound(c, m)
    PROVE  Sound(c, n)
<1> SUFFICES ASSUME c # NoCart, NEW l \in c.lines PROVE l.id <= n
    BY DEF Sound
<1>1. l.id \in Nat /\ l.id <= m
    BY DEF Sound, CartRow, Line
<1> QED
    BY <1>1

-----------------------------------------------------------------------------

\* What requests ask for and are told.
LEMMA AnswersGiven ==
    /\ Refused \in Answers
    /\ \A o \in {"none", "clear", "order"} : Answer(o, NoItem, 0) \in Answers
    /\ \A i \in Item, q \in Quantity \cup {0}, o \in {"add", "update", "remove"} :
            Answer(o, i, q) \in Answers
BY CartAssumption DEF Answer, Answers, Refused

\* A step that leaves r outside Save's inserts, holding no key share.
LEMMA NotInserting ==
    ASSUME TypeOK, InsertedStorable, NEW r \in Request,
           NEW step \in {"save", "lock", "clear", "done"}, pc' = [pc EXCEPT ![r] = step],
           \A u \in Request \ {r} : plan'[u] = plan[u] /\ keyShare'[u] = keyShare[u],
           step = "save" => plan'[r] # NoCart,
           keyShare'[r] = {}
    PROVE  InsertedStorable'
<1> SUFFICES ASSUME NEW u \in Request
             PROVE  /\ pc'[u] \in {"save", "insert"} => plan'[u] # NoCart
                    /\ pc'[u] # "insert" => keyShare'[u] = {}
                    /\ pc'[u] = "insert" =>
                            \A l \in plan'[u].lines : l.item \in keyShare'[u] => l.qty > 0
    BY DEF InsertedStorable
<1>1. CASE u = r
    BY <1>1 DEF TypeOK
<1>2. CASE u # r
    BY <1>2 DEF TypeOK, InsertedStorable
<1> QED
    BY <1>1, <1>2

\* The first statement of a request that will save or order plans a sound cart
\* and touches nothing committed.
LEMMA ArriveStep ==
    ASSUME IInv, NEW r \in Request, NEW step \in {"save", "lock"}, NEW what \in Answers,
           NEW c \in CartRow, Sent(r), Go(r, step, what, c),
           issued' \in Nat, issued <= issued', Sound(c, issued')
    PROVE  IInv'
<1>1. TypeOK /\ Sound(cart, issued) /\ \A u \in Request : Sound(plan[u], issued)
    BY DEF IInv
<1>2. TypeOK'
    BY <1>1 DEF TypeOK, Go
<1>3. Sound(cart', issued')
    BY <1>1, SoundLater DEF TypeOK, Go
<1>4. ASSUME NEW u \in Request PROVE Sound(plan'[u], issued')
    <2>0. plan' = [plan EXCEPT ![r] = c]
        BY DEF Go
    <2>1. CASE u = r
        BY <1>1, <2>0, <2>1 DEF TypeOK
    <2>2. CASE u # r
        <3>1. Sound(plan[u], issued')
            BY <1>1, SoundLater DEF TypeOK
        <3> QED
            BY <2>0, <2>2, <3>1
    <2> QED
        BY <2>1, <2>2
<1>5. InsertedStorable'
    <2>1. InsertedStorable /\ c # NoCart /\ keyShare[r] = {}
        BY NoCartAssumption DEF IInv, InsertedStorable, Sent
    <2>2. /\ pc' = [pc EXCEPT ![r] = step] /\ keyShare'[r] = {} /\ plan'[r] # NoCart
          /\ \A u \in Request \ {r} : plan'[u] = plan[u] /\ keyShare'[u] = keyShare[u]
        BY <1>1, <2>1 DEF Go, TypeOK
    <2> QED
        BY <1>1, <2>1, <2>2, NotInserting
<1> QED
    BY <1>2, <1>3, <1>4, <1>5 DEF IInv, Sound

\* Every step of every request keeps the committed cart and the planned ones
\* sound.
LEMMA SoundStep == IInv /\ [Next]_vars => IInv'
<1> SUFFICES ASSUME IInv, [Next]_vars PROVE IInv'
    OBVIOUS
<1>0. TypeOK /\ Sound(cart, issued) /\ (\A u \in Request : Sound(plan[u], issued))
      /\ InsertedStorable
    BY DEF IInv
<1>1. ASSUME NEW r \in Request, NEW i \in Item, NEW q \in Quantity, AddItem(r, i, q)
      PROVE  IInv'
    <2> DEFINE c == IF cart = NoCart THEN [venue |-> VenueOf[i], lines |-> {}] ELSE cart
    <2>1. c \in CartRow /\ Sound(c, issued) /\ c.venue = VenueOf[i] /\ issued \in Nat
        BY <1>0, <1>1 DEF AddItem, TypeOK, CartRow, Sound
    <2>2. Sent(r) /\ Go(r, "save", Answer("add", i, q), WithItem(c, i, q))
          /\ issued' = issued + (IF i \in ItemsOf(c) THEN 0 ELSE 1)
        BY <1>1 DEF AddItem
    <2> HIDE DEF c
    <2>3. WithItem(c, i, q) \in CartRow /\ Sound(WithItem(c, i, q), issued')
        BY <2>1, <2>2, WithItemSound
    <2>4. issued' \in Nat /\ issued <= issued'
        BY <2>1, <2>2
    <2> QED
        BY <2>2, <2>3, <2>4, ArriveStep, AnswersGiven
<1>2. ASSUME NEW r \in Request, NEW l \in Lines, NEW q \in Quantity,
             UpdateItemQuantity(r, l, q)
      PROVE  IInv'
    <2>1. cart \in CartRow /\ issued \in Nat /\ issued' = issued
        BY <1>0, <1>2 DEF TypeOK, Lines, UpdateItemQuantity
    <2>2. WithQuantity(cart, l.id, q) \in CartRow /\ Sound(WithQuantity(cart, l.id, q), issued')
        BY <1>0, <2>1, WithQuantitySound
    <2>3. l.item \in Item /\ Answer("update", l.item, q) \in Answers
        BY <1>2, <2>1, AnswersGiven DEF Lines, CartRow, Line
    <2> QED
        BY <1>2, <2>1, <2>2, <2>3, ArriveStep DEF UpdateItemQuantity
<1>3. ASSUME NEW r \in Request, NEW l \in Lines, RemoveItem(r, l) PROVE IInv'
    <2>1. cart \in CartRow /\ issued \in Nat /\ issued' = issued
        BY <1>0, <1>3 DEF TypeOK, Lines, RemoveItem
    <2>2. WithoutLine(cart, l.id) \in CartRow /\ Sound(WithoutLine(cart, l.id), issued')
        BY <1>0, <2>1, WithoutLineSound
    <2>3. l.item \in Item /\ Answer("remove", l.item, 0) \in Answers
        BY <1>3, <2>1, AnswersGiven DEF Lines, CartRow, Line
    <2> QED
        BY <1>3, <2>1, <2>2, <2>3, ArriveStep DEF RemoveItem
<1>4. ASSUME NEW r \in Request, PlaceOrder(r) PROVE IInv'
    <2>1. cart \in CartRow /\ issued \in Nat /\ issued' = issued
        BY <1>0, <1>4 DEF TypeOK, PlaceOrder
    <2> QED
        BY <1>0, <1>4, <2>1, ArriveStep, AnswersGiven DEF PlaceOrder
<1>5. ASSUME NEW r \in Request, RefuseAtOnce(r) \/ ClearCart(r) PROVE IInv'
    <2>1. /\ Sent(r) /\ pc' = [pc EXCEPT ![r] = "done"]
          /\ issued' = issued /\ op' = op /\ plan' = plan /\ row' = row
          /\ forUpdate' = forUpdate /\ keyShare' = keyShare /\ hasty' = hasty
          /\ cart' \in {cart, NoCart} /\ reply' \in Answers
        BY <1>5, AnswersGiven DEF RefuseAtOnce, ClearCart, Finish
    <2>2. TypeOK'
        BY <1>0, <2>1 DEF TypeOK
    <2>3. Sound(cart', issued') /\ \A u \in Request : Sound(plan'[u], issued')
        BY <1>0, <2>1 DEF Sound
    <2>4. InsertedStorable'
        <3>1. keyShare[r] = {}
            BY <1>0, <2>1 DEF Sent, InsertedStorable
        <3>2. \A u \in Request \ {r} : plan'[u] = plan[u] /\ keyShare'[u] = keyShare[u]
            BY <2>1
        <3>3. keyShare'[r] = {} /\ pc' = [pc EXCEPT ![r] = "done"]
            BY <2>1, <3>1
        <3> QED
            BY <1>0, <3>2, <3>3, NotInserting
    <2> QED
        BY <2>2, <2>3, <2>4 DEF IInv, Sound
<1>6. ASSUME NEW r \in Request, Upsert(r) PROVE IInv'
    <2>1. TypeOK'
        BY <1>0, <1>6 DEF Upsert, TypeOK
    <2>2. InsertedStorable'
        BY <1>0, <1>6 DEF Upsert, TypeOK, InsertedStorable
    <2> QED
        BY <1>0, <1>6, <2>1, <2>2 DEF Upsert, IInv, Sound
<1>7. ASSUME NEW r \in Request, InsertLine(r) PROVE IInv'
    <2>1. PICK l \in plan[r].lines :
            l.item \in ToInsert(r) /\ l.qty > 0
            /\ keyShare' = [keyShare EXCEPT ![r] = @ \cup {l.item}]
        BY <1>7 DEF InsertLine
    <2>2. pc[r] = "insert" /\ UNCHANGED <<cart, issued, pc, op, plan, row, forUpdate, reply, hasty>>
        BY <1>7 DEF InsertLine
    <2>3. plan[r] \in CartRow /\ plan[r] # NoCart /\ l.item \in Item
        BY <1>0, <2>2 DEF InsertedStorable, TypeOK, CartRow, Line
    <2>4. \A k \in plan[r].lines : k.item = l.item => k = l
        BY <1>0, <2>3 DEF Sound
    <2>5. TypeOK'
        BY <1>0, <2>1, <2>2, <2>3 DEF TypeOK
    <2>6. InsertedStorable'
        BY <1>0, <2>1, <2>2, <2>4 DEF TypeOK, InsertedStorable
    <2> QED
        BY <1>0, <2>2, <2>5, <2>6 DEF IInv, Sound
<1>8. ASSUME NEW r \in Request, Save(r) PROVE IInv'
    <2>1. /\ pc[r] = "insert" /\ ItemsOf(plan[r]) \subseteq keyShare[r]
          /\ cart' = plan[r] /\ pc' = [pc EXCEPT ![r] = "done"] /\ reply' = op[r]
          /\ keyShare' = [keyShare EXCEPT ![r] = {}] /\ row' \in {row, Free}
          /\ UNCHANGED <<issued, op, plan, forUpdate, hasty>>
        BY <1>8 DEF Save, Saved, SharesReleased, RowReleased, ToInsert, Finish
    <2>2. Storable(plan[r])
        BY <1>0, <2>1 DEF InsertedStorable, Storable, ItemsOf
    <2>3. TypeOK'
        BY <1>0, <2>1, <2>2 DEF TypeOK
    <2>4. InsertedStorable'
        <3>1. /\ \A u \in Request \ {r} : plan'[u] = plan[u] /\ keyShare'[u] = keyShare[u]
              /\ keyShare'[r] = {} /\ pc' = [pc EXCEPT ![r] = "done"]
            BY <1>0, <2>1 DEF TypeOK
        <3> QED
            BY <1>0, <3>1, NotInserting
    <2> QED
        BY <1>0, <2>1, <2>3, <2>4 DEF IInv, Sound
<1>9. ASSUME NEW r \in Request, LockForCheckout(r) PROVE IInv'
    <2>1. PICK i \in Item, step \in {"clear", "lock"} :
            /\ pc[r] = "lock" /\ pc' = [pc EXCEPT ![r] = step]
            /\ forUpdate' = [forUpdate EXCEPT ![i] = r]
            /\ UNCHANGED <<cart, issued, op, plan, row, keyShare, orders, reply, hasty>>
        BY <1>9 DEF LockForCheckout
    <2>2. TypeOK'
        BY <1>0, <2>1 DEF TypeOK
    <2>3. InsertedStorable'
        BY <1>0, <2>1, NotInserting DEF InsertedStorable
    <2> QED
        BY <1>0, <2>1, <2>2, <2>3 DEF IInv, Sound
<1>10. ASSUME NEW r \in Request, Clear(r) PROVE IInv'
    <2>1. /\ pc[r] = "clear" /\ pc' = [pc EXCEPT ![r] = "done"] /\ reply' = op[r]
          /\ cart' = NoCart /\ forUpdate' = ItemsReleased(r)
          /\ UNCHANGED <<issued, op, plan, row, keyShare, hasty>>
        BY <1>10 DEF Clear, Finish
    <2>2. TypeOK'
        BY <1>0, <2>1 DEF TypeOK, ItemsReleased
    <2>3. InsertedStorable'
        BY <1>0, <2>1, NotInserting DEF InsertedStorable
    <2> QED
        BY <1>0, <2>1, <2>2, <2>3 DEF IInv, Sound
<1>11. ASSUME NEW r \in Request, Rollback(r) PROVE IInv'
    <2>1. /\ pc' = [pc EXCEPT ![r] = "done"] /\ reply' \in Answers
          /\ row' \in {row, Free} /\ forUpdate' = ItemsReleased(r)
          /\ keyShare' = [keyShare EXCEPT ![r] = {}]
          /\ UNCHANGED <<cart, issued, op, plan, hasty>>
        BY <1>11, AnswersGiven DEF Rollback, RowReleased, SharesReleased, Finish
    <2>2. TypeOK'
        BY <1>0, <2>1 DEF TypeOK, ItemsReleased
    <2>3. InsertedStorable'
        <3>1. /\ \A u \in Request \ {r} : plan'[u] = plan[u] /\ keyShare'[u] = keyShare[u]
              /\ keyShare'[r] = {} /\ pc' = [pc EXCEPT ![r] = "done"]
            BY <1>0, <2>1 DEF TypeOK
        <3> QED
            BY <1>0, <3>1, NotInserting
    <2> QED
        BY <1>0, <2>1, <2>2, <2>3 DEF IInv, Sound
<1>12. CASE UNCHANGED vars
    <2>1. InsertedStorable'
        BY <1>0, <1>12 DEF vars, InsertedStorable
    <2> QED
        BY <1>0, <1>12, <2>1 DEF vars, IInv, TypeOK, Sound
<1> QED
    BY <1>1, <1>2, <1>3, <1>4, <1>5, <1>6, <1>7, <1>8, <1>9, <1>10, <1>11, <1>12
    DEF Next, Arrive, Proceed, RefuseLine

LEMMA SoundInit == Init => IInv
BY NoCartAssumption, CartAssumption, AnswersGiven
DEF Init, IInv, TypeOK, Sound, InsertedStorable

\* Every reachable state has its types: rows of carts and cart_items as the
\* migration declares them, locks held by requests.
THEOREM TypeCorrect == Spec => []TypeOK
<1>1. IInv => TypeOK
    BY DEF IInv
<1> QED
    BY <1>1, SoundInit, SoundStep, PTL DEF Spec

\* However many requests of the client overlap, the committed cart is of one
\* venue and has one line per menu item.
THEOREM CartSound == Spec => []OneVenueOneLine
<1>1. IInv => OneVenueOneLine
    BY DEF IInv, OneVenueOneLine, Lines, Sound
<1> QED
    BY <1>1, SoundInit, SoundStep, PTL DEF Spec

-----------------------------------------------------------------------------
(* How many of an item a cart holds *)

\* A sum over one line is its quantity, over none it is zero.
LEMMA SumOverNone == MapThenSumSet(LAMBDA l : l.qty, {}) = 0
<1> DEFINE Solves(h) == h = [s \in SUBSET {} |->
                IF s = {} THEN 0 ELSE (CHOOSE x \in s : TRUE).qty + h[s \ {CHOOSE x \in s : TRUE}]]
           H == CHOOSE h : Solves(h)
<1>1. Solves([s \in SUBSET {} |-> 0])
    OBVIOUS
<1>2. Solves(H)
    BY <1>1
<1>3. H[{}] = 0
    BY <1>2
<1> QED
    BY <1>3 DEF MapThenSumSet, MapThenFoldSet

LEMMA SumOverOne ==
    ASSUME NEW l \in Line
    PROVE  MapThenSumSet(LAMBDA k : k.qty, {l}) = l.qty
<1> DEFINE Solves(h) == h = [s \in SUBSET {l} |->
                IF s = {} THEN 0 ELSE (CHOOSE x \in s : TRUE).qty + h[s \ {CHOOSE x \in s : TRUE}]]
           H == CHOOSE h : Solves(h)
           G == [s \in SUBSET {l} |-> IF s = {} THEN 0 ELSE l.qty + 0]
<1>1. \A s \in SUBSET {l} : s # {} => (CHOOSE x \in s : TRUE) = l /\ s \ {CHOOSE x \in s : TRUE} = {}
    OBVIOUS
<1>2. G[{}] = 0
    OBVIOUS
<1>3. Solves(G)
    <2>1. \A s \in SUBSET {l} : G[s] =
                IF s = {} THEN 0 ELSE (CHOOSE x \in s : TRUE).qty + G[s \ {CHOOSE x \in s : TRUE}]
        BY <1>1, <1>2
    <2> QED
        BY <2>1
<1>4. Solves(H)
    <2> HIDE DEF G
    <2> QED
        BY <1>3
<1>5. H[{l}] = l.qty + H[{}] /\ H[{}] = 0
    BY <1>1, <1>4
<1>6. H[{l}] = l.qty
    BY <1>5 DEF Line
<1> QED
    BY <1>6 DEF MapThenSumSet, MapThenFoldSet

LEMMA UnitsOfLine ==
    ASSUME NEW c \in CartRow, NEW n, Sound(c, n), NEW l \in c.lines
    PROVE  l.item \in Item /\ Units(c)[l.item] = l.qty
<1>1. l \in Line /\ c # NoCart
    BY NoCartAssumption DEF CartRow
<1>2. {k \in c.lines : k.item = l.item} = {l}
    BY <1>1 DEF Sound
<1>3. l.item \in Item
    BY <1>1 DEF Line
<1>4. Units(c)[l.item] = MapThenSumSet(LAMBDA k : k.qty, {k \in c.lines : k.item = l.item})
    BY <1>3 DEF Units
<1> QED
    BY <1>1, <1>2, <1>3, <1>4, SumOverOne

LEMMA UnitsOfNone ==
    ASSUME NEW c, NEW i \in Item, i \notin ItemsOf(c)
    PROVE  Units(c)[i] = 0
<1>1. {k \in c.lines : k.item = i} = {}
    BY DEF ItemsOf
<1> QED
    BY <1>1, SumOverNone DEF Units

\* A sound cart's units are its lines' quantities and zero elsewhere.
LEMMA UnitsAre ==
    ASSUME NEW c \in CartRow, NEW n, Sound(c, n), NEW f,
           f = [i \in Item |-> f[i]],
           \A l \in c.lines : f[l.item] = l.qty,
           \A i \in Item \ ItemsOf(c) : f[i] = 0
    PROVE  Units(c) = f
<1>1. ASSUME NEW i \in Item PROVE Units(c)[i] = f[i]
    <2>1. CASE i \in ItemsOf(c)
        <3>1. PICK l \in c.lines : l.item = i
            BY <2>1 DEF ItemsOf
        <3> QED
            BY <3>1, UnitsOfLine
    <2>2. CASE i \notin ItemsOf(c)
        BY <2>2, UnitsOfNone
    <2> QED
        BY <2>1, <2>2
<1>2. Units(c) = [i \in Item |-> Units(c)[i]]
    BY DEF Units
<1> HIDE DEF Units
<1> QED
    BY <1>1, <1>2, Zenon

\* What the three operations do to a cart's units.
LEMMA WithItemUnits ==
    ASSUME NEW c \in CartRow, Sound(c, issued), issued \in Nat,
           NEW i \in Item, c.venue = VenueOf[i], NEW q \in Quantity
    PROVE  Units(WithItem(c, i, q)) = [Units(c) EXCEPT ![i] = @ + q]
<1> DEFINE d == WithItem(c, i, q)
           u == Units(c)
           f == [u EXCEPT ![i] = @ + q]
           last == issued + (IF i \in ItemsOf(c) THEN 0 ELSE 1)
<1>q. q \in Int
    BY CartAssumption
<1>1. d \in CartRow /\ Sound(d, last)
    BY WithItemSound
<1>2. u = [j \in Item |-> u[j]]
    BY DEF Units
<1>3. /\ \A l \in c.lines : l \in Line /\ u[l.item] = l.qty
      /\ \A j \in Item \ ItemsOf(c) : u[j] = 0
    BY UnitsOfLine, UnitsOfNone DEF CartRow
<1>4. /\ \A l \in d.lines : f[l.item] = l.qty
      /\ \A j \in Item \ ItemsOf(d) : f[j] = 0
    <2>1. CASE i \in ItemsOf(c)
        <3> DEFINE M(l) == IF l.item = i THEN [l EXCEPT !.qty = l.qty + q] ELSE l
        <3>1. d.lines = {M(l) : l \in c.lines}
            BY <2>1 DEF WithItem, CartRow
        <3>2. \A l \in c.lines : /\ M(l).item = l.item
                                 /\ M(l).qty = IF l.item = i THEN l.qty + q ELSE l.qty
            BY <1>3 DEF Line
        <3> HIDE DEF M, d, u
        <3>3. ASSUME NEW l \in d.lines PROVE f[l.item] = l.qty
            <4>1. PICK k \in c.lines : l = M(k)
                BY <3>1
            <4>2. k.item \in Item /\ u[k.item] = k.qty
                BY <1>3 DEF Line
            <4> QED
                BY <1>2, <3>2, <4>1, <4>2
        <3>4. ItemsOf(d) = ItemsOf(c)
            BY <3>1, <3>2 DEF ItemsOf
        <3> QED
            BY <1>2, <1>3, <2>1, <3>3, <3>4
    <2>2. CASE i \notin ItemsOf(c)
        <3> DEFINE n == [id |-> issued + 1, item |-> i, qty |-> q]
        <3>1. d.lines = c.lines \cup {n} /\ n.item = i /\ n.qty = q
            BY <2>2 DEF WithItem, CartRow
        <3>2. ItemsOf(d) = ItemsOf(c) \cup {i}
            BY <3>1 DEF ItemsOf
        <3> HIDE DEF d, u, n
        <3>3. u[i] = 0 /\ f[i] = q
            BY <1>q, <1>2, <1>3, <2>2
        <3>4. \A l \in c.lines : l.item \in Item /\ l.item # i
            BY <1>3, <2>2 DEF ItemsOf, Line
        <3> QED
            BY <1>2, <1>3, <3>1, <3>2, <3>3, <3>4
    <2> QED
        BY <2>1, <2>2
<1>5. f = [j \in Item |-> f[j]]
    <2> HIDE DEF u
    <2> QED
        BY <1>2
<1> HIDE DEF f, d, last
<1>6. Units(d) = f
    BY <1>1, <1>4, <1>5, UnitsAre
<1> QED
    BY <1>6 DEF d, f

LEMMA WithQuantityUnits ==
    ASSUME NEW c \in CartRow, NEW n, Sound(c, n), NEW l \in c.lines, NEW q \in Quantity
    PROVE  Units(WithQuantity(c, l.id, q)) = [Units(c) EXCEPT ![l.item] = q]
<1> DEFINE d == WithQuantity(c, l.id, q)
           u == Units(c)
           f == [u EXCEPT ![l.item] = q]
           M(k) == IF k.id = l.id THEN [k EXCEPT !.qty = q] ELSE k
<1>1. d \in CartRow /\ Sound(d, n)
    BY WithQuantitySound
<1>2. u = [j \in Item |-> u[j]]
    BY DEF Units
<1>3. /\ \A k \in c.lines : k \in Line /\ u[k.item] = k.qty
      /\ \A j \in Item \ ItemsOf(c) : u[j] = 0
    BY UnitsOfLine, UnitsOfNone DEF CartRow
<1>4. d.lines = {M(k) : k \in c.lines}
    BY DEF WithQuantity, CartRow
<1>5. \A k \in c.lines : k.id = l.id <=> k.item = l.item
    BY NoCartAssumption DEF Sound
<1>6. \A k \in c.lines : /\ M(k).item = k.item
                         /\ M(k).qty = IF k.item = l.item THEN q ELSE k.qty
    BY <1>3, <1>5 DEF Line
<1> HIDE DEF M, d, u
<1>7. ASSUME NEW x \in d.lines PROVE f[x.item] = x.qty
    <2>1. PICK k \in c.lines : x = M(k)
        BY <1>4
    <2>2. k.item \in Item /\ u[k.item] = k.qty
        BY <1>3 DEF Line
    <2> QED
        BY <1>2, <1>6, <2>1, <2>2
<1>8. ItemsOf(d) = ItemsOf(c)
    BY <1>4, <1>6 DEF ItemsOf
<1>9. f = [j \in Item |-> f[j]] /\ \A j \in Item \ ItemsOf(d) : f[j] = 0
    BY <1>2, <1>3, <1>8 DEF ItemsOf
<1> HIDE DEF f
<1>10. Units(d) = f
    BY <1>1, <1>7, <1>9, UnitsAre
<1> QED
    BY <1>10 DEF d, f, u

LEMMA WithoutLineUnits ==
    ASSUME NEW c \in CartRow, NEW n, Sound(c, n), NEW l \in c.lines
    PROVE  Units(WithoutLine(c, l.id)) = [Units(c) EXCEPT ![l.item] = 0]
<1> DEFINE d == WithoutLine(c, l.id)
           u == Units(c)
           f == [u EXCEPT ![l.item] = 0]
<1>1. d \in CartRow /\ Sound(d, n)
    BY WithoutLineSound
<1>2. u = [j \in Item |-> u[j]]
    BY DEF Units
<1>3. /\ \A k \in c.lines : k \in Line /\ u[k.item] = k.qty
      /\ \A j \in Item \ ItemsOf(c) : u[j] = 0
    BY UnitsOfLine, UnitsOfNone DEF CartRow
<1>4. \A k \in c.lines : k.item \in Item /\ (k.id = l.id <=> k.item = l.item)
    BY <1>3, NoCartAssumption DEF Sound, Line
<1>5. d.lines = {k \in c.lines : k.id # l.id}
    BY DEF WithoutLine, CartRow
<1> HIDE DEF d, u
<1>6. \A k \in d.lines : f[k.item] = k.qty
    BY <1>2, <1>3, <1>4, <1>5
<1>7. ItemsOf(d) = ItemsOf(c) \ {l.item}
    BY <1>4, <1>5 DEF ItemsOf
<1>8. f = [j \in Item |-> f[j]] /\ \A j \in Item \ ItemsOf(d) : f[j] = 0
    BY <1>2, <1>3, <1>7
<1> HIDE DEF f
<1>9. Units(d) = f
    BY <1>1, <1>6, <1>8, UnitsAre
<1> QED
    BY <1>9 DEF d, f, u

-----------------------------------------------------------------------------
(* A client who waits for each answer *)

\* Between a patient client's requests nothing moves: a step of r finds nobody
\* else in flight, and leaves Serial true when what r itself carries is right.
LEMMA SerialStep ==
    ASSUME IInv, Serial, Patient, NEW r \in Request, InFlight(r) \/ Sent(r),
           NEW step, pc' = [pc EXCEPT ![r] = step], hasty' = hasty,
           orders' \in Seq(CartRow),
           step \in {"save", "insert"} => plan'[r] \in CartRow /\ Meant(op[r], plan[r])',
           step \in {"lock", "clear"} => /\ cart' # NoCart /\ cart'.lines # {}
                                         /\ plan'[r] = cart'
                                         /\ op'[r] = Answer("order", NoItem, 0)
    PROVE  Serial'
<1>1. pc \in [Request -> {"new", "save", "insert", "lock", "clear", "done"}]
    BY DEF IInv, TypeOK
<1>2. \A u \in Request \ {r} : ~InFlight(u)
    BY DEF Serial, OneAtATime, Sent, Patient
<1>3. \A u \in Request \ {r} : pc'[u] \in {"new", "done"}
    BY <1>1, <1>2 DEF InFlight
<1>4. pc'[r] = step
    BY <1>1
<1>5. OneAtATime'
    BY <1>3 DEF OneAtATime, InFlight
<1>6. SavesWhatWasMeant'
    <2> SUFFICES ASSUME NEW u \in Request, pc'[u] \in {"save", "insert"}
                 PROVE  plan'[u] \in CartRow /\ Meant(op[u], plan[u])'
        BY DEF SavesWhatWasMeant
    <2>1. u = r
        BY <1>3
    <2> QED
        BY <1>4, <2>1
<1>7. OrdersTheCart'
    BY <1>3, <1>4 DEF OrdersTheCart
<1> QED
    BY <1>5, <1>6, <1>7 DEF Serial

\* Whether a client waits for its answers does not change.
LEMMA HastyStays == [Next]_vars => hasty' = hasty
<1>1. ASSUME NEW r \in Request, Arrive(r) PROVE hasty' = hasty
    BY <1>1 DEF Arrive, AddItem, UpdateItemQuantity, RemoveItem, PlaceOrder, Go, ClearCart,
                RefuseAtOnce
<1>2. ASSUME NEW r \in Request, Rollback(r) PROVE hasty' = hasty
    BY <1>2 DEF Rollback
<1>3. ASSUME NEW r \in Request, Proceed(r) PROVE hasty' = hasty
    BY <1>2, <1>3 DEF Proceed, Upsert, InsertLine, RefuseLine, Save, LockForCheckout, Clear
<1> QED
    BY <1>1, <1>2, <1>3 DEF Next, vars

\* Nobody's step reaches the cart a patient client's request was planned on.
LEMMA SerialInvariant == IInv /\ Serial /\ [Next]_vars => Serial'
<1> SUFFICES ASSUME IInv, Serial, [Next]_vars PROVE Serial'
    OBVIOUS
<1>0. hasty' = hasty
    BY HastyStays
<1>1. CASE ~Patient
    BY <1>0, <1>1 DEF Serial, OneAtATime, SavesWhatWasMeant, OrdersTheCart, Patient
<1> SUFFICES ASSUME Patient PROVE Serial'
    BY <1>1
<1>t. /\ TypeOK /\ orders \in Seq(CartRow)
      /\ Sound(cart, issued) /\ issued \in Nat
      /\ cart # NoCart => cart \in CartRow
    BY DEF IInv, TypeOK, Serial, OrdersTheCart
<1>2. ASSUME NEW r \in Request, NEW i \in Item, NEW q \in Quantity, AddItem(r, i, q)
      PROVE  Serial'
    <2> DEFINE c == IF cart = NoCart THEN [venue |-> VenueOf[i], lines |-> {}] ELSE cart
               d == WithItem(c, i, q)
    <2>1. c \in CartRow /\ Sound(c, issued) /\ c.venue = VenueOf[i]
        BY <1>t, <1>2 DEF AddItem, CartRow, Sound
    <2>2. Units(c) = UnitsSeen(cart)
        <3>1. CASE cart = NoCart
            <4>1. ItemsOf(c) = {}
                BY <3>1 DEF ItemsOf
            <4>2. Units(c) = [j \in Item |-> Units(c)[j]]
                BY DEF Units
            <4>3. \A j \in Item : Units(c)[j] = 0
                BY <4>1, UnitsOfNone
            <4> HIDE DEF c
            <4> QED
                BY <3>1, <4>2, <4>3 DEF UnitsSeen
        <3> QED
            BY <3>1 DEF UnitsSeen
    <2>3. VenueSeen(cart) \in {NoVenue, VenueOf[i]}
        BY <2>1 DEF VenueSeen
    <2>4. Sent(r) /\ Go(r, "save", Answer("add", i, q), d)
        BY <1>2 DEF AddItem
    <2> HIDE DEF c
    <2>5. Units(d) = [UnitsSeen(cart) EXCEPT ![i] = @ + q]
        BY <1>t, <2>1, <2>2, WithItemUnits
    <2>6. d \in CartRow /\ d.venue = VenueOf[i]
        <3>1. d \in CartRow
            BY <1>t, <2>1, WithItemSound
        <3>2. d.venue = c.venue
            BY <2>1 DEF WithItem, CartRow
        <3> QED
            BY <2>1, <3>1, <3>2
    <2> HIDE DEF d
    <2>7. plan'[r] = d /\ op'[r] = Answer("add", i, q) /\ cart' = cart /\ orders' = orders
          /\ pc' = [pc EXCEPT ![r] = "save"]
        BY <2>4 DEF Go, IInv, TypeOK, Answer
    <2>9. i \in ItemsOf(d)
        BY <2>1, WithItemHasItem DEF d
    <2>8. Meant(op[r], plan[r])'
        BY <2>3, <2>5, <2>6, <2>7, <2>9 DEF Meant, VenueSeen, UnitsSeen
    <2> QED
        BY <1>0, <1>t, <2>4, <2>6, <2>7, <2>8, SerialStep
<1>3. ASSUME NEW r \in Request, NEW l \in Lines, NEW d \in CartRow,
             NEW q \in {n \in Quantity : n >= 1} \cup {0},
             Sent(r), d.venue = cart.venue, Units(d) = [Units(cart) EXCEPT ![l.item] = q],
             Go(r, "save", Answer(IF q = 0 THEN "remove" ELSE "update", l.item, q), d)
      PROVE  Serial'
    <2>1. cart \in CartRow /\ cart # NoCart /\ l \in cart.lines
        BY <1>t DEF Lines
    <2>2. l \in Line /\ l.item \in Item /\ Units(cart)[l.item] = l.qty
        BY <1>t, <2>1, UnitsOfLine DEF CartRow, Line
    <2>5. Units(cart)[l.item] > 0
        BY <1>t, <2>1, <2>2 DEF TypeOK, Storable
    <2>3. plan'[r] = d /\ cart' = cart /\ orders' = orders /\ pc' = [pc EXCEPT ![r] = "save"]
          /\ op'[r] = Answer(IF q = 0 THEN "remove" ELSE "update", l.item, q)
        BY <1>3 DEF Go, IInv, TypeOK
    <2>4. Meant(op[r], plan[r])'
        BY <1>3, <2>1, <2>2, <2>3, <2>5 DEF Meant, VenueSeen, UnitsSeen
    <2> QED
        BY <1>0, <1>t, <1>3, <2>3, <2>4, SerialStep
<1>4. ASSUME NEW r \in Request, NEW l \in Lines, NEW q \in Quantity,
             UpdateItemQuantity(r, l, q)
      PROVE  Serial'
    <2>1. cart \in CartRow /\ l \in cart.lines
        BY <1>t DEF Lines
    <2>2. WithQuantity(cart, l.id, q) \in CartRow
        BY <1>t, <2>1, WithQuantitySound
    <2>5. WithQuantity(cart, l.id, q).venue = cart.venue
        BY <2>1 DEF WithQuantity, CartRow
    <2>3. Units(WithQuantity(cart, l.id, q)) = [Units(cart) EXCEPT ![l.item] = q]
        BY <1>t, <2>1, WithQuantityUnits
    <2>4. q \in {n \in Quantity : n >= 1} /\ q # 0
        BY <1>4, CartAssumption DEF UpdateItemQuantity
    <2> QED
        BY <1>3, <1>4, <2>2, <2>3, <2>4, <2>5 DEF UpdateItemQuantity
<1>5. ASSUME NEW r \in Request, NEW l \in Lines, RemoveItem(r, l) PROVE Serial'
    <2>1. cart \in CartRow /\ l \in cart.lines
        BY <1>t DEF Lines
    <2>2. WithoutLine(cart, l.id) \in CartRow
        BY <1>t, <2>1, WithoutLineSound
    <2>4. WithoutLine(cart, l.id).venue = cart.venue
        BY <2>1 DEF WithoutLine, CartRow
    <2>3. Units(WithoutLine(cart, l.id)) = [Units(cart) EXCEPT ![l.item] = 0]
        BY <1>t, <2>1, WithoutLineUnits
    <2> QED
        BY <1>3, <1>5, <2>2, <2>3, <2>4 DEF RemoveItem
<1>6. ASSUME NEW r \in Request, PlaceOrder(r) PROVE Serial'
    <2>1. plan'[r] = cart /\ cart' = cart /\ orders' = orders /\ pc' = [pc EXCEPT ![r] = "lock"]
          /\ op'[r] = Answer("order", NoItem, 0) /\ cart # NoCart /\ cart.lines # {} /\ Sent(r)
        BY <1>6 DEF PlaceOrder, Go, IInv, TypeOK
    <2> QED
        BY <1>0, <1>t, <2>1, SerialStep
<1>7. ASSUME NEW r \in Request, RefuseAtOnce(r) \/ ClearCart(r) \/ Save(r) \/ Rollback(r)
      PROVE  Serial'
    <2>1. (Sent(r) \/ InFlight(r)) /\ pc' = [pc EXCEPT ![r] = "done"] /\ orders' = orders
        BY <1>7 DEF RefuseAtOnce, ClearCart, Save, Rollback, Finish, InFlight
    <2> QED
        BY <1>0, <1>t, <2>1, SerialStep
<1>8. ASSUME NEW r \in Request, Clear(r) PROVE Serial'
    <2>1. InFlight(r) /\ pc' = [pc EXCEPT ![r] = "done"] /\ orders' = Append(orders, plan[r])
        BY <1>8 DEF Clear, Finish, InFlight
    <2>2. plan[r] \in CartRow
        BY <1>t, <1>8 DEF Clear, Serial, OrdersTheCart
    <2>3. orders' \in Seq(CartRow)
        BY <1>t, <2>1, <2>2
    <2> QED
        BY <1>0, <2>1, <2>3, SerialStep
<1>9. ASSUME NEW r \in Request, Upsert(r) PROVE Serial'
    <2>1. InFlight(r) /\ pc' = [pc EXCEPT ![r] = "insert"] /\ orders' = orders
          /\ cart' = cart /\ plan' = plan /\ op' = op
        BY <1>9 DEF Upsert, InFlight
    <2>2. plan[r] \in CartRow /\ Meant(op[r], plan[r])
        BY <1>9 DEF Upsert, Serial, SavesWhatWasMeant
    <2>3. Meant(op[r], plan[r])'
        BY <2>1, <2>2 DEF Meant, VenueSeen, UnitsSeen
    <2> QED
        BY <1>0, <1>t, <2>1, <2>2, <2>3, SerialStep
<1>10. ASSUME NEW r \in Request, LockForCheckout(r) PROVE Serial'
    <2>1. PICK step \in {"clear", "lock"} :
            /\ InFlight(r) /\ pc' = [pc EXCEPT ![r] = step] /\ orders' = orders
            /\ cart' = cart /\ plan' = plan /\ op' = op
        BY <1>10 DEF LockForCheckout, InFlight
    <2>2. cart # NoCart /\ cart.lines # {} /\ plan[r] = cart /\ op[r] = Answer("order", NoItem, 0)
        BY <1>10 DEF LockForCheckout, Serial, OrdersTheCart
    <2> QED
        BY <1>0, <1>t, <2>1, <2>2, SerialStep
<1>11. CASE UNCHANGED vars \/ \E r \in Request : InsertLine(r)
    <2>1. cart' = cart /\ pc' = pc /\ op' = op /\ plan' = plan /\ orders' = orders
        BY <1>11 DEF vars, InsertLine
    <2>2. ASSUME NEW r \in Request, Meant(op[r], plan[r]) PROVE Meant(op[r], plan[r])'
        BY <2>1, <2>2 DEF Meant, VenueSeen, UnitsSeen
    <2>3. SavesWhatWasMeant'
        BY <2>1, <2>2 DEF Serial, SavesWhatWasMeant
    <2> QED
        BY <2>1, <2>3 DEF Serial, OneAtATime, OrdersTheCart, InFlight
<1> QED
    BY <1>2, <1>4, <1>5, <1>6, <1>7, <1>8, <1>9, <1>10, <1>11
    DEF Next, Arrive, Proceed, RefuseLine

LEMMA SerialInit == Init => Serial
BY DEF Init, Serial, OneAtATime, SavesWhatWasMeant, OrdersTheCart, InFlight

\* What an order was for joins what the orders before it were for.
LEMMA PlacedOneMore ==
    ASSUME NEW s \in Seq(CartRow), NEW c \in CartRow
    PROVE  [k \in DOMAIN Append(s, c) |-> Units(Append(s, c)[k])]
                = [k \in DOMAIN s |-> Units(s[k])] \o <<Units(c)>>
<1> DEFINE U == {Units(d) : d \in CartRow}
           before == [k \in DOMAIN s |-> Units(s[k])]
<1>1. before \in Seq(U) /\ Len(before) = Len(s) /\ Units(c) \in U
    OBVIOUS
<1>2. \A k \in DOMAIN s : before[k] = Units(s[k])
    OBVIOUS
<1> HIDE DEF U, before
<1>3. \A k \in DOMAIN Append(s, c) : Units(Append(s, c)[k]) = (before \o <<Units(c)>>)[k]
    BY <1>1, <1>2
<1>4. DOMAIN Append(s, c) = 1 .. Len(s) + 1 /\ DOMAIN (before \o <<Units(c)>>) = 1 .. Len(s) + 1
    BY <1>1
<1>5. before \o <<Units(c)>> = [k \in DOMAIN Append(s, c) |-> (before \o <<Units(c)>>)[k]]
    BY <1>1, <1>4
<1> QED
    BY <1>3, <1>5 DEF before

\* A sound cart with a line has units.
LEMMA LinesAreUnits ==
    ASSUME NEW c \in CartRow, NEW n, Sound(c, n), Storable(c), c.lines # {}
    PROVE  Units(c) # [i \in Item |-> 0]
<1>1. PICK l \in c.lines : l.qty > 0
    BY DEF Storable
<1>2. l.item \in Item /\ Units(c)[l.item] = l.qty
    BY UnitsOfLine
<1> QED
    BY <1>1, <1>2

\* What of the state the promise is about.
Shown == <<IF Patient THEN VenueSeen(cart) ELSE NoVenue,
           IF Patient THEN UnitsSeen(cart) ELSE [i \in Item |-> 0],
           IF Patient THEN [k \in DOMAIN orders |-> Units(orders[k])] ELSE << >>,
           IF Patient THEN reply ELSE Answer("none", NoItem, 0)>>

\* Every step answers its request as the promise says, or shows nothing.
LEMMA PromiseKept == IInv /\ Serial /\ [Next]_vars => [Promise!Next]_Shown
<1> SUFFICES ASSUME IInv, Serial, [Next]_vars PROVE [Promise!Next]_Shown
    OBVIOUS
<1>0. hasty' = hasty
    BY HastyStays
<1>1. CASE ~Patient
    BY <1>0, <1>1 DEF Shown, Patient
<1> SUFFICES ASSUME Patient PROVE [Promise!Next]_Shown
    BY <1>1
<1>p. Patient'
    BY <1>0 DEF Patient
<1>2. CASE cart' = cart /\ orders' = orders /\ reply' = reply
    BY <1>2, <1>p DEF Shown, VenueSeen, UnitsSeen
<1>3. ASSUME NEW r \in Request, RefuseAtOnce(r) \/ Rollback(r) PROVE Promise!Next
    <2>1. cart' = cart /\ orders' = orders /\ reply' = Answer("refused", NoItem, 0)
        BY <1>3 DEF RefuseAtOnce, Rollback, Finish, Refused
    <2>2. Promise!Refuse
        BY <1>p, <2>1 DEF Promise!Refuse, VenueSeen, UnitsSeen, Promise!Answer,
           Answer
    <2> QED
        BY <2>2 DEF Promise!Next
<1>4. ASSUME NEW r \in Request, ClearCart(r) PROVE Promise!Next
    <2>1. cart' = NoCart /\ orders' = orders /\ reply' = Answer("clear", NoItem, 0)
        BY <1>4 DEF ClearCart, Finish
    <2>2. Promise!Clear
        BY <1>p, <2>1 DEF Promise!Clear, Promise!Empty, VenueSeen, UnitsSeen, Promise!Answer,
           Answer
    <2> QED
        BY <2>2 DEF Promise!Next
<1>5. ASSUME NEW r \in Request, Clear(r) PROVE Promise!Next
    <2>1. /\ cart' = NoCart /\ orders' = Append(orders, plan[r]) /\ reply' = op[r]
        BY <1>5 DEF Clear, Finish
    <2>2. /\ cart # NoCart /\ cart.lines # {} /\ plan[r] = cart /\ orders \in Seq(CartRow)
          /\ op[r] = Answer("order", NoItem, 0)
        BY <1>5 DEF Clear, Serial, OrdersTheCart
    <2>3. cart \in CartRow /\ Sound(cart, issued) /\ Storable(cart)
        BY <2>2 DEF IInv, TypeOK
    <2>4. [k \in DOMAIN orders' |-> Units(orders'[k])]
                = [k \in DOMAIN orders |-> Units(orders[k])] \o <<Units(cart)>>
        BY <2>1, <2>2, <2>3, PlacedOneMore
    <2>5. Units(cart) # [i \in Item |-> 0]
        BY <2>2, <2>3, LinesAreUnits
    <2>6. Promise!Place
        BY <1>p, <2>1, <2>2, <2>4, <2>5
        DEF Promise!Place, Promise!Empty, VenueSeen, UnitsSeen, Promise!Answer,
           Answer
    <2> QED
        BY <2>6 DEF Promise!Next
<1>6. ASSUME NEW r \in Request, Save(r) PROVE Promise!Next
    <2>1. cart' = plan[r] /\ orders' = orders /\ reply' = op[r]
        BY <1>6 DEF Save, Saved, Finish
    <2>2. plan[r] \in CartRow /\ Meant(op[r], plan[r])
        BY <1>6 DEF Save, Serial, SavesWhatWasMeant
    <2>3. VenueSeen(plan[r]) = plan[r].venue /\ UnitsSeen(plan[r]) = Units(plan[r])
        BY <2>2, NoCartAssumption DEF VenueSeen, UnitsSeen
    <2>4. /\ VenueSeen(cart)' = plan[r].venue /\ UnitsSeen(cart)' = Units(plan[r])
          /\ [k \in DOMAIN orders |-> Units(orders[k])]' = [k \in DOMAIN orders |-> Units(orders[k])]
        BY <2>1, <2>3 DEF VenueSeen, UnitsSeen
    <2>7. ASSUME NEW i \in Item, i \in ItemsOf(plan[r]) PROVE Units(plan[r])[i] > 0
        <3>1. Sound(plan[r], issued) /\ Storable(plan[r])
            BY <1>6 DEF IInv, Save, InsertedStorable, ToInsert, Storable, ItemsOf
        <3>2. PICK l \in plan[r].lines : l.item = i
            BY <2>7 DEF ItemsOf
        <3> QED
            BY <2>2, <3>1, <3>2, UnitsOfLine DEF Storable
    <2>5. ASSUME NEW i \in Item, NEW q \in Quantity,
                 op[r] = Answer("add", i, q), VenueSeen(cart) \in {NoVenue, VenueOf[i]},
                 plan[r].venue = VenueOf[i], i \in ItemsOf(plan[r]),
                 Units(plan[r]) = [UnitsSeen(cart) EXCEPT ![i] = @ + q]
          PROVE  Promise!Add(i, q)
        <3>1. UnitsSeen(cart)[i] + q > 0
            BY <2>5, <2>7 DEF UnitsSeen, Units
        <3> QED
            BY <1>p, <2>1, <2>4, <2>5, <3>1 DEF Promise!Add, Promise!Answer, Answer
    <2>6. ASSUME NEW i \in Item, NEW q \in {n \in Quantity : n >= 1} \cup {0},
                 op[r] = Answer(IF q = 0 THEN "remove" ELSE "update", i, q),
                 UnitsSeen(cart)[i] > 0, plan[r].venue = VenueSeen(cart),
                 Units(plan[r]) = [UnitsSeen(cart) EXCEPT ![i] = q]
          PROVE  IF q = 0 THEN Promise!Remove(i) ELSE Promise!Update(i, q)
        BY <1>p, <2>1, <2>4, <2>6 DEF Promise!Remove, Promise!Update, Promise!Answer,
           Answer
    <2> QED
        BY <2>2, <2>5, <2>6 DEF Meant, Promise!Next
<1>7. ASSUME NEW r \in Request,
             \/ \E i \in Item, q \in Quantity : AddItem(r, i, q)
             \/ \E l \in Lines : RemoveItem(r, l) \/ \E q \in Quantity : UpdateItemQuantity(r, l, q)
             \/ PlaceOrder(r) \/ Upsert(r) \/ InsertLine(r) \/ LockForCheckout(r)
      PROVE  cart' = cart /\ orders' = orders /\ reply' = reply
    BY <1>7 DEF AddItem, RemoveItem, UpdateItemQuantity, PlaceOrder, Go, Upsert, InsertLine,
              LockForCheckout
<1>8. CASE UNCHANGED vars
    BY <1>2, <1>8 DEF vars
<1> QED
    BY <1>2, <1>3, <1>4, <1>5, <1>6, <1>7, <1>8 DEF Next, Arrive, Proceed, RefuseLine

\* A client who waits for each answer has the cart ClientCart promises: every
\* answered request took effect in one step on what the requests before it
\* left, and a refused one had no effect.  Cart implements ClientCart.
THEOREM PatientClientServed == Spec => ClientCartSpec
<1>1. Init => Promise!Init
    BY DEF Init, Promise!Init, Promise!Empty, VenueSeen, UnitsSeen, Promise!Answer,
           Answer
<1>2. Init => IInv /\ Serial
    BY SoundInit, SerialInit
<1>3. IInv /\ Serial /\ [Next]_vars => IInv' /\ Serial'
    BY SoundStep, SerialInvariant
<1>4. IInv /\ Serial /\ [Next]_vars => [Promise!Next]_Shown
    BY PromiseKept
<1> QED
    BY <1>1, <1>2, <1>3, <1>4, PTL DEF Spec, ClientCartSpec, Promise!Spec, Shown

===============================================================================

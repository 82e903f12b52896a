------------------------------- MODULE KitchenProofs -------------------------------
(***************************************************************************)
(* What holds of the kitchen for every number of orders, dishes, handlers  *)
(* and faults.  That stock is reserved once per order needs two things the *)
(* code takes for granted: no event is forgotten while it may still come   *)
(* again, and the platform announces one cancellation per order.           *)
(***************************************************************************)
EXTENDS StockSync, TLAPS

-----------------------------------------------------------------------------
(* Types *)

\* Statuses an advance starts from.
Advancing == {"confirmed", "cooking", "ready", "delivering"}

\* What TypeOK does not say of types: a handler at work has an order, an order due for
\* an advance has a next status, and the ticker's batch is of the phase it is in.
Shape ==
    /\ \A h \in Handler : pc[h] # "idle" => job[h] \in Order
    /\ \A o \in Order : orders[o] # NoOrder /\ orders[o].timed => orders[o].status \in Advancing
    /\ phase = "advancing" => \A c \in batch : c[2].status \in Advancing
    /\ phase \in {"advance", "retry"} => batch = {} /\ call = NoCall
    /\ call # NoCall => call[2] \in IF phase = "retrying" THEN {"confirmed", "rejected"}
                                    ELSE {"cooking", "ready", "delivering", "delivered"}

Typed == TypeOK /\ Shape

\* An order's portions of a dish are its two lines.
LEMMA LineSums ==
    ASSUME NEW o \in Order, NEW i \in Item
    PROVE  /\ Total(o, i) \in Nat /\ Second(o, i) \in Nat
           /\ Second(o, i) <= Total(o, i)
<1>1. Basket[o][i]["rescued"] \in Nat /\ Basket[o][i]["rest"] \in Nat
  BY BasketAssumption DEF Part
<1> QED BY <1>1 DEF Total, Second

LEMMA NextStatus ==
    \A s \in Advancing : Next_(s) \in {"cooking", "ready", "delivering", "delivered"}
  BY DEF Advancing, Next_

LEMMA EventType ==
    /\ \A o \in Order : Created(o) \in Event
    /\ \A e \in Event : e.order \in Order /\ e.type \in {"created", "cancelled"}
  BY DEF Event, Created

\* A call changes the platform's order, or nothing.
LEMMA CallType ==
    ASSUME TypeOK, NEW o \in Order, NEW to \in Machine!Status,
           NEW got \in {"ok", "conflict", "failed"}, Call(o, to, got)
    PROVE  /\ platform' \in [Order -> Machine!Status \cup {"absent"}]
           /\ faults' \in 0..MaxFaults
           /\ begun' = begun /\ cancels' = cancels
<1>1. faults' \in 0..MaxFaults
  BY BasketAssumption DEF TypeOK, Call, Fault
<1>2. platform' = platform \/ platform' = [platform EXCEPT ![o] = to]
  BY DEF Call
<1> QED BY <1>1, <1>2 DEF TypeOK, Call

LEMMA SeenType ==
    ASSUME TypeOK, NEW e \in Event, MarkEventSeen(e)
    PROVE  seen' \in Seq(Event) /\ Len(seen') <= MaxSeen
<1> DEFINE longer == Append(seen, e)
<1>1. longer \in Seq(Event) /\ Len(longer) = Len(seen) + 1
  BY DEF TypeOK
<1>2. CASE Len(longer) > MaxSeen
  <2>1. seen' = Tail(longer)
    BY <1>2 DEF MarkEventSeen
  <2>2. Tail(longer) \in Seq(Event) /\ Len(Tail(longer)) = Len(longer) - 1
    <3>1. Len(longer) # 0
      BY <1>1 DEF TypeOK
    <3> HIDE DEF longer
    <3> QED BY <1>1, <3>1
  <2> QED BY <1>1, <2>1, <2>2, BasketAssumption DEF TypeOK
<1>3. CASE ~(Len(longer) > MaxSeen)
  BY <1>1, <1>3, BasketAssumption DEF TypeOK, MarkEventSeen
<1> QED BY <1>2, <1>3

LEMMA DecisionType == \A a, t \in BOOLEAN : Decision(a, t) \in Tracked
  BY DEF Decision, Tracked

LEMMA InitTyped == Init => Typed
  BY BasketAssumption DEF Init, Typed, TypeOK, Shape

LEMMA PlatformTyped ==
    ASSUME Typed, NEW o \in Order, PlaceOrder(o) \/ BeginCancel(o) \/ CommitCancel(o)
    PROVE  Typed'
<1>1. /\ platform' \in [Order -> Machine!Status \cup {"absent"}]
      /\ begun' \in [Order -> 0..MaxCancels] /\ cancels' \in [Order -> 0..MaxCancels]
  <2>1. CASE PlaceOrder(o)
    BY <2>1 DEF PlaceOrder, Typed, TypeOK, Machine!Status
  <2>2. CASE BeginCancel(o)
    <3>1. begun[o] + 1 \in 0..MaxCancels
      BY <2>2, BasketAssumption DEF BeginCancel, Typed, TypeOK
    <3> QED BY <2>2, <3>1 DEF BeginCancel, Typed, TypeOK
  <2>3. CASE CommitCancel(o)
    <3>1. cancels[o] + 1 \in 0..MaxCancels
      BY <2>3, BasketAssumption DEF CommitCancel, Typed, TypeOK
    <3> QED BY <2>3, <3>1 DEF CommitCancel, Typed, TypeOK, Machine!Status
  <2> QED BY <2>1, <2>2, <2>3
<1>2. UNCHANGED <<sent, state, handlers, ticker, faults>>
  BY DEF PlaceOrder, BeginCancel, CommitCancel
<1> QED BY <1>1, <1>2 DEF Typed, TypeOK, Shape, state, handlers, ticker

LEMMA WebhookTyped ==
    ASSUME Typed, NEW h \in Handler, NEW e \in Event, HandleWebhook(h, e)
    PROVE  Typed'
<1>1. seen' \in Seq(Event) /\ Len(seen') <= MaxSeen
  <2>1. CASE e \in SeenEvents
    BY <2>1 DEF HandleWebhook, Typed, TypeOK
  <2>2. CASE e \notin SeenEvents
    BY <2>2, SeenType DEF HandleWebhook, Typed
  <2> QED BY <2>1, <2>2
<1>2. sent' \subseteq Event /\ faults' \in 0..MaxFaults
  BY BasketAssumption DEF HandleWebhook, Fault, Typed, TypeOK
<1>3. /\ pc' \in [Handler -> {"idle", "created", "cancelled", "accept", "reject", "accepted",
                              "rejected", "release"}]
      /\ job' \in [Handler -> Order \cup {NoOrder}]
      /\ \A g \in Handler : pc'[g] # "idle" => job'[g] \in Order
  <2>1. /\ e.order \in Order /\ e.type \in {"created", "cancelled"}
        /\ \/ pc' = pc /\ job' = job
           \/ pc' = [pc EXCEPT ![h] = e.type] /\ job' = [job EXCEPT ![h] = e.order]
    BY EventType DEF HandleWebhook
  <2>2. CASE pc' = pc /\ job' = job
    BY <2>2 DEF Typed, TypeOK, Shape
  <2>3. CASE pc' = [pc EXCEPT ![h] = e.type] /\ job' = [job EXCEPT ![h] = e.order]
    <3> DEFINE t == e.type
               o == e.order
    <3>1. pc' = [pc EXCEPT ![h] = t] /\ job' = [job EXCEPT ![h] = o]
      BY <2>3
    <3>2. o \in Order /\ t \in {"created", "cancelled"}
      BY <2>1
    <3> HIDE DEF t, o
    <3> QED BY <3>1, <3>2 DEF Typed, TypeOK, Shape
  <2> QED BY <2>1, <2>2, <2>3
<1>4. UNCHANGED <<platform, begun, cancels, stock, orders, held, answer, ticker>>
  BY DEF HandleWebhook
<1> QED BY <1>1, <1>2, <1>3, <1>4 DEF Typed, TypeOK, Shape, ticker

LEMMA ReserveTyped ==
    ASSUME Typed, NEW h \in Handler, CheckAndReserve(h)
    PROVE  Typed'
<1>1. job[h] \in Order
  BY DEF CheckAndReserve, Typed, Shape
<1>2. stock' \in [Item -> Int]
  <2>1. \/ stock' = [i \in Item |-> stock[i] - Total(job[h], i)]
        \/ stock' = stock
    BY DEF CheckAndReserve
  <2>2. stock \in [Item -> Int] /\ \A i \in Item : Total(job[h], i) \in Int
    BY <1>1, LineSums DEF Typed, TypeOK
  <2>3. CASE stock' = [i \in Item |-> stock[i] - Total(job[h], i)]
    BY <2>2, <2>3
  <2> QED BY <2>1, <2>2, <2>3
<1>3. held' \in [Order -> Int]
  BY <1>1 DEF CheckAndReserve, Typed, TypeOK
<1>4. /\ pc' \in [Handler -> {"idle", "created", "cancelled", "accept", "reject", "accepted",
                              "rejected", "release"}]
      /\ \A g \in Handler : pc'[g] # "idle" => job[g] \in Order
  <2>1. PICK t \in {"accept", "reject"} : pc' = [pc EXCEPT ![h] = t]
    BY DEF CheckAndReserve
  <2> QED BY <1>1, <2>1 DEF Typed, TypeOK, Shape
<1>5. UNCHANGED <<outside, seen, orders, job, answer, ticker, faults>>
  BY DEF CheckAndReserve
<1> QED BY <1>2, <1>3, <1>4, <1>5 DEF Typed, TypeOK, Shape, outside, ticker

LEMMA TellTyped ==
    ASSUME Typed, NEW h \in Handler, TellPlatform(h)
    PROVE  Typed'
<1>1. job[h] \in Order /\ {"confirmed", "rejected"} \subseteq Machine!Status
  BY DEF TellPlatform, Typed, Shape, Machine!Status
<1>2. PICK got \in {"ok", "conflict", "failed"} :
         /\ Call(job[h], IF pc[h] = "accept" THEN "confirmed" ELSE "rejected", got)
         /\ answer' = [answer EXCEPT ![h] = got]
  BY DEF TellPlatform
<1>3. /\ platform' \in [Order -> Machine!Status \cup {"absent"}]
      /\ faults' \in 0..MaxFaults /\ begun' = begun /\ cancels' = cancels
  BY <1>1, <1>2, CallType DEF Typed
<1> QED BY <1>1, <1>2, <1>3 DEF TellPlatform, Typed, TypeOK, Shape, state, ticker

LEMMA AddTyped ==
    ASSUME Typed, NEW h \in Handler, AddOrder(h)
    PROVE  Typed'
<1> DEFINE d == Decision(pc[h] = "accepted", answer[h] \in {"ok", "conflict"})
<1>1. job[h] \in Order
  BY DEF AddOrder, Typed, Shape
<1>2. d \in Tracked /\ (d.timed => d.status \in Advancing)
  BY DecisionType DEF Decision, Advancing
<1>3. orders' = [orders EXCEPT ![job[h]] = d]
  BY DEF AddOrder
<1> HIDE DEF d
<1>4. /\ orders' \in [Order -> Tracked \cup {NoOrder}]
      /\ \A o \in Order : orders'[o] # NoOrder /\ orders'[o].timed
                             => orders'[o].status \in Advancing
  BY <1>1, <1>2, <1>3 DEF Typed, TypeOK, Shape
<1> QED BY <1>1, <1>4 DEF AddOrder, Typed, TypeOK, Shape, outside, ticker

LEMMA CancelTyped ==
    ASSUME Typed, NEW h \in Handler, CancelOrder(h)
    PROVE  Typed'
<1> DEFINE o == job[h]
<1>1. o \in Order
  BY DEF CancelOrder, Typed, Shape
<1>2. /\ orders' \in [Order -> Tracked \cup {NoOrder}]
      /\ \A p \in Order : orders'[p] # NoOrder /\ orders'[p].timed
                             => orders'[p].status \in Advancing
  <2>1. CASE orders[o] = NoOrder
    BY <2>1 DEF CancelOrder, Typed, TypeOK, Shape
  <2>2. CASE orders[o] # NoOrder
    <3> DEFINE c == [orders[o] EXCEPT !.status = "canceled", !.pending = "none",
                                      !.timed = FALSE]
    <3>1. orders' = [orders EXCEPT ![o] = c]
      BY <1>1, <2>2 DEF CancelOrder, Canceled, Typed, TypeOK
    <3>2. c \in Tracked /\ c.timed = FALSE
      <4> DEFINE r == orders[o]
      <4>1. r \in Tracked
        BY <1>1, <2>2 DEF Typed, TypeOK
      <4>2. c = [r EXCEPT !.status = "canceled", !.pending = "none", !.timed = FALSE]
        OBVIOUS
      <4> HIDE DEF r, c
      <4> QED BY <4>1, <4>2 DEF Tracked
    <3> HIDE DEF c
    <3> QED BY <1>1, <3>1, <3>2 DEF Typed, TypeOK, Shape
  <2> QED BY <2>1, <2>2
<1>3. /\ pc' \in [Handler -> {"idle", "created", "cancelled", "accept", "reject", "accepted",
                              "rejected", "release"}]
      /\ job' \in [Handler -> Order \cup {NoOrder}]
      /\ \A g \in Handler : pc'[g] # "idle" => job'[g] \in Order
  <2>1. \/ pc' = [pc EXCEPT ![h] = "release"] /\ job' = job
        \/ pc' = [pc EXCEPT ![h] = "idle"] /\ job' = [job EXCEPT ![h] = NoOrder]
    BY DEF CancelOrder
  <2> HIDE DEF o
  <2> QED BY <2>1 DEF CancelOrder, Typed, TypeOK, Shape
<1> HIDE DEF o
<1> QED BY <1>2, <1>3 DEF CancelOrder, Typed, TypeOK, Shape, outside, ticker

LEMMA ReleaseTyped ==
    ASSUME Typed, NEW h \in Handler, ReleaseStock(h)
    PROVE  Typed'
<1>1. job[h] \in Order
  BY DEF ReleaseStock, Typed, Shape
<1>2. stock' \in [Item -> Int]
  <2>1. stock' = [i \in Item |-> stock[i] + Total(job[h], i)]
    BY DEF ReleaseStock
  <2>2. \A i \in Item : stock[i] \in Int /\ Total(job[h], i) \in Int
    BY <1>1, LineSums DEF Typed, TypeOK
  <2> QED BY <2>1, <2>2
<1>3. held' \in [Order -> Int]
  BY <1>1 DEF ReleaseStock, Typed, TypeOK
<1> QED BY <1>1, <1>2, <1>3 DEF ReleaseStock, Typed, TypeOK, Shape, outside, ticker

LEMMA StartBatchTyped ==
    ASSUME Typed, NEW S \in SUBSET Order, StartBatch(S)
    PROVE  Typed'
<1>1. /\ batch' \subseteq Order \X Tracked
      /\ phase = "advance" => \A c \in batch' : c[2].status \in Advancing
  BY DEF StartBatch, Due, Typed, TypeOK, Shape
<1> QED BY <1>1 DEF StartBatch, Typed, TypeOK, Shape, outside, state, handlers

LEMMA EndBatchTyped == ASSUME Typed, EndBatch PROVE Typed'
  BY DEF EndBatch, Typed, TypeOK, Shape, outside, state, handlers

LEMMA WantedType ==
    ASSUME Typed, NEW c \in batch
    PROVE  /\ Wanted(c) \in Machine!Status
           /\ Wanted(c) \in IF phase = "retrying" THEN {"confirmed", "rejected"}
                            ELSE {"cooking", "ready", "delivering", "delivered"}
<1>1. phase \in {"advancing", "retrying"}
  BY DEF Typed, TypeOK, Shape
<1> QED BY <1>1, NextStatus DEF Wanted, Typed, Shape, Machine!Status

LEMMA CallPlatformTyped ==
    ASSUME Typed, CallPlatform
    PROVE  Typed'
<1>1. PICK c \in batch, got \in {"ok", "conflict", "failed"} :
         /\ Call(c[1], Wanted(c), got)
         /\ batch' = batch \ {c}
         /\ call' = <<c[1], Wanted(c)>>
         /\ reply' = got
  BY DEF CallPlatform
<1>2. c[1] \in Order /\ phase \in {"advancing", "retrying"}
  BY DEF Typed, TypeOK, Shape
<1>3. /\ Wanted(c) \in Machine!Status
      /\ Wanted(c) \in IF phase = "retrying" THEN {"confirmed", "rejected"}
                       ELSE {"cooking", "ready", "delivering", "delivered"}
  BY WantedType
<1>4. /\ platform' \in [Order -> Machine!Status \cup {"absent"}]
      /\ faults' \in 0..MaxFaults /\ begun' = begun /\ cancels' = cancels
  BY <1>1, <1>2, <1>3, CallType DEF Typed
<1> QED BY <1>1, <1>2, <1>3, <1>4 DEF CallPlatform, Typed, TypeOK, Shape, state, handlers

LEMMA ApplyReplyTyped ==
    ASSUME Typed, ApplyReply
    PROVE  Typed'
<1> DEFINE o == call[1]
           to == call[2]
           d == [orders[o] EXCEPT !.status = to,
                                  !.pending = IF phase = "retrying" THEN "none" ELSE @,
                                  !.timed = to \notin {"delivered", "rejected"}]
<1>1. o \in Order /\ to \in Machine!Status /\ phase \in {"advancing", "retrying"}
  BY DEF ApplyReply, Typed, TypeOK, Shape
<1>2. orders' = orders \/ (orders[o] # NoOrder /\ orders' = [orders EXCEPT ![o] = d])
  BY <1>1 DEF ApplyReply, Typed, TypeOK
<1>3. to \in {"confirmed", "rejected", "cooking", "ready", "delivering", "delivered"}
  BY <1>1 DEF ApplyReply, Typed, Shape
<1>4. orders[o] # NoOrder => d \in Tracked /\ (d.timed => d.status \in Advancing)
  <2> SUFFICES ASSUME orders[o] # NoOrder
               PROVE  d \in Tracked /\ (d.timed => d.status \in Advancing)
    OBVIOUS
  <2>1. orders[o] \in Tracked
    BY <1>1 DEF Typed, TypeOK
  <2> DEFINE p == IF phase = "retrying" THEN "none" ELSE orders[o].pending
             b == to \notin {"delivered", "rejected"}
  <2>2. p \in {"none", orders[o].pending} /\ b \in BOOLEAN /\ (b => to \in Advancing)
    BY <1>3 DEF Advancing
  <2>3. d = [orders[o] EXCEPT !.status = to, !.pending = p, !.timed = b]
    OBVIOUS
  <2> DEFINE r == orders[o]
  <2>4. r \in Tracked /\ p \in {"none", r.pending} /\ d = [r EXCEPT !.status = to,
                                                              !.pending = p, !.timed = b]
    BY <2>1, <2>2, <2>3
  <2> HIDE DEF d, p, b, r, to
  <2>5. d \in Tracked /\ d.status = to /\ d.timed = b
    BY <1>3, <2>2, <2>4 DEF Tracked
  <2> QED BY <2>2, <2>5
<1> HIDE DEF d
<1>5. /\ orders' \in [Order -> Tracked \cup {NoOrder}]
      /\ \A p \in Order : orders'[p] # NoOrder /\ orders'[p].timed
                             => orders'[p].status \in Advancing
  <2>1. CASE orders' = orders
    BY <2>1 DEF Typed, TypeOK, Shape
  <2>2. CASE orders[o] # NoOrder /\ orders' = [orders EXCEPT ![o] = d]
    <3>1. o \in Order /\ d \in Tracked /\ (d.timed => d.status \in Advancing)
          /\ orders' = [orders EXCEPT ![o] = d]
      BY <1>1, <1>4, <2>2
    <3> HIDE DEF o, to
    <3> QED BY <3>1 DEF Typed, TypeOK, Shape
  <2> QED BY <1>2, <2>1, <2>2
<1> QED BY <1>1, <1>5 DEF ApplyReply, Typed, TypeOK, Shape, outside, handlers

LEMMA StockTyped ==
    ASSUME Typed, NEW i \in Item, NEW n \in Corrections, SetStock(i, n)
    PROVE  Typed'
<1>1. stock' \in [Item -> Int]
  BY BasketAssumption DEF SetStock, Typed, TypeOK
<1> QED BY <1>1 DEF SetStock, Typed, TypeOK, Shape, outside, handlers, ticker

LEMMA RestartTyped == ASSUME Typed, Restart PROVE Typed'
<1>1. faults' \in 0..MaxFaults /\ stock' \in [Item -> Int] /\ seen' \in Seq(Event)
      /\ Len(seen') <= MaxSeen
  BY BasketAssumption DEF Restart, Fault, Typed, TypeOK
<1> QED BY <1>1 DEF Restart, Typed, TypeOK, Shape, outside

\* Every variable keeps its type, for every number of orders, handlers and faults; an
\* order due for an advance always has a next status.
THEOREM TypesHold == Spec => []Typed
<1>1. Typed /\ [Next]_vars => Typed'
  <2> SUFFICES ASSUME Typed, [Next]_vars PROVE Typed'
    OBVIOUS
  <2>1. CASE UNCHANGED vars
    BY <2>1 DEF vars, outside, state, handlers, ticker, Typed, TypeOK, Shape
  <2>2. CASE \E o \in Order : PlaceOrder(o) \/ BeginCancel(o) \/ CommitCancel(o)
    BY <2>2, PlatformTyped
  <2>3. CASE \E h \in Handler : Step(h)
    BY <2>3, ReserveTyped, TellTyped, AddTyped, CancelTyped, ReleaseTyped DEF Step
  <2>4. CASE \E h \in Handler : \E e \in Event : HandleWebhook(h, e)
    BY <2>4, WebhookTyped
  <2>5. CASE Tick
    BY <2>5, StartBatchTyped, EndBatchTyped, CallPlatformTyped, ApplyReplyTyped DEF Tick
  <2>6. CASE \E i \in Item, n \in Corrections : SetStock(i, n)
    BY <2>6, StockTyped
  <2>7. CASE Restart
    BY <2>7, RestartTyped
  <2> QED BY <2>1, <2>2, <2>3, <2>4, <2>5, <2>6, <2>7 DEF Next
<1> QED BY <1>1, InitTyped, PTL DEF Spec

-----------------------------------------------------------------------------
(* Advances *)

\* Where the platform is at least, whatever a cancellation has made of the order.
AtLeast(o, s) == platform[o] = "cancelled" \/ Rank(platform[o]) >= Rank(s)


\* The platform's order never goes back, except to be cancelled, which it then stays.
Forward(o) ==
    \/ platform'[o] \in {platform[o], "cancelled"}
    \/ platform[o] # "cancelled" /\ Rank(platform'[o]) >= Rank(platform[o])

LEMMA RankType == \A s : Rank(s) \in 0..5
  BY DEF Rank

LEMMA RankGrows ==
    ASSUME NEW s \in Machine!Status \cup {"absent"}, NEW to \in Machine!Status,
           Machine!CanTransition(s, to)
    PROVE  s # "cancelled" /\ (to = "cancelled" \/ Rank(to) >= Rank(s))
  BY DEF Machine!CanTransition, Machine!transitions, Machine!Status, Rank

LEMMA CallForward ==
    ASSUME TypeOK, NEW o \in Order, NEW to \in Machine!Status,
           NEW got \in {"ok", "conflict", "failed"}, Call(o, to, got), NEW p \in Order
    PROVE  Forward(p)
<1>1. CASE platform' = platform
  BY <1>1 DEF Forward
<1>2. CASE Machine!CanTransition(platform[o], to) /\ platform' = [platform EXCEPT ![o] = to]
  <2>1. platform[o] \in Machine!Status \cup {"absent"}
    BY DEF TypeOK
  <2>2. platform'[p] = IF p = o THEN to ELSE platform[p]
    BY <1>2 DEF TypeOK
  <2> QED BY <1>2, <2>1, <2>2, RankGrows DEF Forward
<1> QED BY <1>1, <1>2 DEF Call

LEMMA AllForward ==
    ASSUME Typed, [Next]_vars, NEW p \in Order
    PROVE  Forward(p)
<1>1. CASE UNCHANGED platform
  BY <1>1 DEF Forward
<1>2. ASSUME NEW o \in Order, PlaceOrder(o)
      PROVE  Forward(p)
  BY <1>2, RankType DEF PlaceOrder, Forward, Rank, Typed, TypeOK
<1>3. ASSUME NEW o \in Order, CommitCancel(o)
      PROVE  Forward(p)
  BY <1>3 DEF CommitCancel, Forward, Typed, TypeOK
<1>4. ASSUME NEW h \in Handler, TellPlatform(h)
      PROVE  Forward(p)
  <2>1. job[h] \in Order /\ {"confirmed", "rejected"} \subseteq Machine!Status
    BY <1>4 DEF TellPlatform, Typed, Shape, Machine!Status
  <2> QED BY <1>4, <2>1, CallForward DEF TellPlatform, Typed
<1>5. CASE CallPlatform
  <2>1. PICK c \in batch, got \in {"ok", "conflict", "failed"} : Call(c[1], Wanted(c), got)
    BY <1>5 DEF CallPlatform
  <2>2. c[1] \in Order /\ Wanted(c) \in Machine!Status
    BY WantedType DEF Typed, TypeOK
  <2> QED BY <2>1, <2>2, CallForward DEF Typed
<1> QED BY <1>1, <1>2, <1>3, <1>4, <1>5
        DEF Next, vars, outside, Step, Tick, BeginCancel, CheckAndReserve, AddOrder,
            CancelOrder, ReleaseStock, HandleWebhook, StartBatch, EndBatch, ApplyReply,
            SetStock, Restart

LEMMA AtLeastStays ==
    ASSUME Typed, [Next]_vars, NEW o \in Order, NEW s, AtLeast(o, s)
    PROVE  AtLeast(o, s)'
  BY AllForward, RankType DEF AtLeast, Forward

\* What the kitchen takes an order to be, the platform is at least.
Behind(o) == orders[o] # NoOrder /\ Rank(orders[o].status) > 1 => AtLeast(o, orders[o].status)

LEMMA BehindStays ==
    ASSUME Typed, [Next]_vars, NEW o \in Order, Behind(o),
           orders'[o] = orders[o] \/ orders'[o] = NoOrder \/ Rank(orders'[o].status) <= 1
    PROVE  Behind(o)'
  BY AtLeastStays, RankType DEF Behind

\* The kitchen never takes an order further than the platform has let it, although
\* answers are lost and what they are about changes before they arrive.
THEOREM NeverFurther == Spec => []NeverAhead
<1> DEFINE Ahead == \A o \in Order : Behind(o)
           Honest == phase = "advancing" /\ call # NoCall /\ reply = "ok"
                        => AtLeast(call[1], call[2])
<1>1. Init => Ahead /\ Honest
  BY DEF Init, Behind
<1>2. Typed /\ Ahead /\ Honest /\ [Next]_vars => Ahead' /\ Honest'
  <2> SUFFICES ASSUME Typed, Ahead, Honest, [Next]_vars PROVE Ahead' /\ Honest'
    OBVIOUS
  <2>1. CASE UNCHANGED <<orders, ticker>>
    BY <2>1, BehindStays, AtLeastStays DEF ticker, Typed, TypeOK
  <2>2. ASSUME NEW h \in Handler, AddOrder(h)
        PROVE  Ahead' /\ Honest'
    <3>1. Honest'
      BY <2>2, AtLeastStays DEF AddOrder, ticker, Typed, TypeOK
    <3>2. \A o \in Order : orders'[o] = orders[o] \/ Rank(orders'[o].status) <= 1
      BY <2>2 DEF AddOrder, Decision, Rank, Typed, TypeOK
    <3> QED BY <3>1, <3>2, BehindStays
  <2>3. ASSUME NEW h \in Handler, CancelOrder(h)
        PROVE  Ahead' /\ Honest'
    <3>1. Honest'
      BY <2>3, AtLeastStays DEF CancelOrder, ticker, Typed, TypeOK
    <3>2. \A o \in Order : orders'[o] = orders[o] \/ Rank(orders'[o].status) <= 1
      BY <2>3 DEF CancelOrder, Canceled, Rank, Typed, TypeOK, Tracked
    <3> QED BY <3>1, <3>2, BehindStays
  <2>4. CASE (\E S \in SUBSET Order : StartBatch(S)) \/ EndBatch
    <3>1. orders' = orders /\ call' = NoCall
      BY <2>4 DEF StartBatch, EndBatch, state
    <3> QED BY <3>1, BehindStays
  <2>5. CASE CallPlatform
    <3>1. PICK c \in batch, got \in {"ok", "conflict", "failed"} :
             /\ Call(c[1], Wanted(c), got)
             /\ call' = <<c[1], Wanted(c)>>
             /\ reply' = got
      BY <2>5 DEF CallPlatform
    <3>2. c[1] \in Order
      BY DEF Typed, TypeOK
    <3>3. got = "ok" => platform'[c[1]] = Wanted(c)
      BY <3>1, <3>2 DEF Call, Typed, TypeOK
    <3>4. Honest'
      BY <3>1, <3>3, RankType DEF AtLeast
    <3>5. orders' = orders
      BY <2>5 DEF CallPlatform, state
    <3> QED BY <3>4, <3>5, BehindStays
  <2>6. CASE ApplyReply
    <3>1. call[1] \in Order /\ call # NoCall /\ phase \in {"advancing", "retrying"}
      BY <2>6 DEF ApplyReply, Typed, TypeOK, Shape
    <3>2. Honest'
      BY <2>6 DEF ApplyReply
    <3>3. ASSUME NEW p \in Order
          PROVE  Behind(p)'
      <4>1. CASE orders'[p] = orders[p] \/ Rank(orders'[p].status) <= 1
        BY <4>1, BehindStays
      <4>2. CASE ~(orders'[p] = orders[p] \/ Rank(orders'[p].status) <= 1)
        <5>1. p = call[1] /\ orders'[p].status = call[2] /\ reply \notin Undone
          BY <2>6, <3>1, <4>2 DEF ApplyReply, Typed, TypeOK, Tracked
        <5>2. phase = "advancing" /\ reply = "ok"
          BY <3>1, <4>2, <5>1 DEF Undone, Typed, TypeOK, Shape, Rank
        <5>3. AtLeast(p, call[2])
          BY <3>1, <5>1, <5>2
        <5> DEFINE to == call[2]
        <5>4. AtLeast(p, to) /\ orders'[p].status = to
          BY <5>1, <5>3
        <5> HIDE DEF to
        <5>5. platform'[p] = "cancelled" \/ Rank(platform'[p]) >= Rank(to)
          BY <5>4, AllForward, RankType DEF AtLeast, Forward
        <5> QED BY <5>4, <5>5 DEF Behind, AtLeast
      <4> QED BY <4>1, <4>2
    <3> QED BY <3>2, <3>3
  <2>7. CASE Restart
    BY <2>7 DEF Restart, Behind
  <2> QED BY <2>1, <2>2, <2>3, <2>4, <2>5, <2>6, <2>7
          DEF Next, Step, Tick, vars, state, PlaceOrder, BeginCancel, CommitCancel,
              HandleWebhook, CheckAndReserve, TellPlatform, ReleaseStock, SetStock
<1>3. Ahead => NeverAhead
  BY DEF Behind, AtLeast, NeverAhead
<1> QED BY <1>1, <1>2, <1>3, TypesHold, PTL DEF Spec

-----------------------------------------------------------------------------
(* Reservations *)

Deciding == {"created", "accept", "reject", "accepted", "rejected"}
Cancelling == {"cancelled", "release"}

\* Handler h is at one of the steps S for order o.
At(h, o, S) == pc[h] \in S /\ job[h] = o

CancelEvent(o) == [order |-> o, type |-> "cancelled", n |-> 1]

\* Before its event has come, nothing is known of an order.
Unknown(o) ==
    Created(o) \notin SeenEvents =>
        /\ orders[o] = NoOrder
        /\ held[o] = 0
        /\ \A h \in Handler : ~At(h, o, Deciding \cup {"release"})

\* One handler decides an order, before it is tracked, and one cancels it.
OneDecides(o) ==
    \A g, h \in Handler : At(g, o, Deciding) =>
        /\ At(h, o, Deciding) => g = h
        /\ ~At(h, o, {"release"})
        /\ orders[o] = NoOrder
        /\ held[o] = IF pc[g] \in {"accept", "accepted"} THEN 1 ELSE 0

OneCancels(o) ==
    \A g, h \in Handler : At(g, o, Cancelling) =>
        /\ At(h, o, Cancelling) => g = h
        /\ CancelEvent(o) \in SeenEvents
        /\ pc[g] = "release" => held[o] = 1

\* What has its lines still has its dishes, until a cancellation gives them back.
KeepsDishes(o) ==
    /\ orders[o] # NoOrder
    /\ orders[o].lines
    /\ CancelEvent(o) \notin SeenEvents \/ \E h \in Handler : At(h, o, {"cancelled"})
    => held[o] = 1

Once(o) ==
    /\ Unknown(o) /\ OneDecides(o) /\ OneCancels(o) /\ KeepsDishes(o)
    /\ held[o] \in {0, 1}

\* No event has been forgotten yet, and the next one will not make the kitchen forget.
Remembers == Len(seen) < MaxSeen

LEMMA SeenGrows ==
    ASSUME Typed, Remembers, NEW e \in Event, MarkEventSeen(e)
    PROVE  SeenEvents' = SeenEvents \cup {e}
<1>1. seen \in Seq(Event) /\ Len(seen) \in Nat
  BY DEF Typed, TypeOK
<1>2. Len(Append(seen, e)) = Len(seen) + 1
  BY <1>1
<1>3. seen' = Append(seen, e)
  BY <1>1, <1>2, BasketAssumption DEF Remembers, MarkEventSeen
<1>4. /\ \A n \in 1..Len(seen) : Append(seen, e)[n] = seen[n]
      /\ Append(seen, e)[Len(seen) + 1] = e
      /\ DOMAIN Append(seen, e) = 1..Len(seen) + 1 /\ DOMAIN seen = 1..Len(seen)
  BY <1>1, <1>2
<1>5. ASSUME NEW x \in SeenEvents' PROVE x \in SeenEvents \cup {e}
  BY <1>1, <1>3, <1>4, <1>5 DEF SeenEvents
<1>6. ASSUME NEW x \in SeenEvents \cup {e} PROVE x \in SeenEvents'
  <2>1. CASE x = e
    BY <1>1, <1>3, <1>4, <2>1 DEF SeenEvents
  <2>2. CASE x \in SeenEvents
    <3>1. PICK n \in 1..Len(seen) : x = seen[n]
      BY <1>4, <2>2 DEF SeenEvents
    <3> QED BY <1>1, <1>3, <1>4, <3>1 DEF SeenEvents
  <2> QED BY <1>6, <2>1, <2>2
<1> QED BY <1>5, <1>6

\* What a step leaves alone of an order, stays true of it.
LEMMA OnceStays ==
    ASSUME NEW o \in Order, Once(o),
           SeenEvents' = SeenEvents, held'[o] = held[o],
           orders'[o] = orders[o] \/ /\ orders[o] # NoOrder
                                     /\ orders'[o].lines = orders[o].lines,
           \A h \in Handler : (pc'[h] = pc[h] /\ job'[h] = job[h])
                                 \/ (job[h] # o /\ (job'[h] # o \/ pc'[h] = "idle"))
    PROVE  Once(o)'
<1> DEFINE Same(h) == pc'[h] = pc[h] /\ job'[h] = job[h]
<1>1. \A h \in Handler : \A S \in {Deciding \cup {"release"}, Deciding, Cancelling,
                                      {"cancelled"}, {"release"}} :
          At(h, o, S)' => At(h, o, S) /\ Same(h)
  BY DEF At, Deciding, Cancelling
<1>2. Unknown(o)'
  BY <1>1 DEF Once, Unknown, Created
<1>3. OneDecides(o)'
  <2> SUFFICES ASSUME NEW g \in Handler, NEW h \in Handler, At(g, o, Deciding)'
               PROVE  /\ At(h, o, Deciding)' => g = h
                      /\ ~At(h, o, {"release"})'
                      /\ orders'[o] = NoOrder
                      /\ held'[o] = IF pc'[g] \in {"accept", "accepted"} THEN 1 ELSE 0
    BY DEF OneDecides
  <2> QED BY <1>1 DEF Once, OneDecides
<1>4. OneCancels(o)'
  <2> SUFFICES ASSUME NEW g \in Handler, NEW h \in Handler, At(g, o, Cancelling)'
               PROVE  /\ At(h, o, Cancelling)' => g = h
                      /\ CancelEvent(o) \in SeenEvents'
                      /\ pc'[g] = "release" => held'[o] = 1
    BY DEF OneCancels, CancelEvent
  <2> QED BY <1>1 DEF Once, OneCancels
<1>5. KeepsDishes(o)'
  BY <1>1 DEF Once, KeepsDishes, CancelEvent
<1> QED BY <1>2, <1>3, <1>4, <1>5 DEF Once

LEMMA WebhookOnce ==
    ASSUME MaxCancels <= 1, Typed, Remembers, NEW o \in Order, Once(o),
           NEW h \in Handler, NEW e \in Event, HandleWebhook(h, e)
    PROVE  Once(o)'
<1>1. CASE e \in SeenEvents
  <2>1. pc' = pc /\ job' = job /\ orders' = orders /\ held' = held /\ SeenEvents' = SeenEvents
    BY <1>1 DEF HandleWebhook, SeenEvents
  <2> QED BY <2>1, OnceStays
<1>2. CASE e \notin SeenEvents
  <2>1. /\ pc[h] = "idle" /\ orders' = orders /\ held' = held
        /\ pc'[h] = e.type /\ job'[h] = e.order
        /\ \A g \in Handler : g # h => pc'[g] = pc[g] /\ job'[g] = job[g]
        /\ SeenEvents' = SeenEvents \cup {e}
    BY <1>2, SeenGrows DEF HandleWebhook, Typed, TypeOK
  <2>2. /\ e.type = "created" => e = Created(e.order)
        /\ e.type # "created" => e.type = "cancelled" /\ e = CancelEvent(e.order)
        /\ Created(o).order = o /\ CancelEvent(o).order = o
        /\ Created(o) # CancelEvent(o)
    <3>1. CASE e \in [order: Order, type: {"created"}, n: {1}]
      <4>1. e = [order |-> e.order, type |-> "created", n |-> 1]
        BY <3>1
      <4> QED BY <4>1 DEF Created, CancelEvent
    <3>2. CASE e \in [order: Order, type: {"cancelled"}, n: 1..MaxCancels]
      <4>1. e.n = 1 /\ e.type = "cancelled"
        <5>1. e.n \in 1..MaxCancels /\ e.type = "cancelled"
          BY <3>2
        <5> DEFINE n == e.n
        <5>2. n \in 1..MaxCancels
          BY <5>1
        <5> HIDE DEF n
        <5>3. n = 1
          BY <5>2, BasketAssumption
        <5> QED BY <5>1, <5>3 DEF n
      <4>2. e = [order |-> e.order, type |-> "cancelled", n |-> 1]
        BY <3>2, <4>1
      <4> QED BY <4>1, <4>2 DEF Created, CancelEvent
    <3> QED BY <3>1, <3>2 DEF Event
  <2>3. CASE e.order # o
    <3>1. \A S \in {Deciding \cup {"release"}, Deciding, Cancelling,
                     {"cancelled"}, {"release"}} :
          \A g \in Handler : At(g, o, S)' => At(g, o, S) /\ pc'[g] = pc[g]
      BY <2>1, <2>3 DEF At
    <3>2. /\ Created(o) \in SeenEvents' <=> Created(o) \in SeenEvents
          /\ CancelEvent(o) \in SeenEvents' <=> CancelEvent(o) \in SeenEvents
      BY <2>1, <2>2, <2>3
    <3>3. Unknown(o)'
      BY <2>1, <3>1, <3>2 DEF Once, Unknown, Created
    <3>4. OneDecides(o)'
      BY <2>1, <3>1 DEF Once, OneDecides
    <3>5. OneCancels(o)'
      BY <2>1, <3>1, <3>2 DEF Once, OneCancels, CancelEvent
    <3>6. KeepsDishes(o)'
      BY <2>1, <3>1, <3>2 DEF Once, KeepsDishes, CancelEvent
    <3> QED BY <2>1, <3>3, <3>4, <3>5, <3>6 DEF Once
  <2>4. CASE e.order = o /\ e.type = "created"
    <3>1. /\ orders[o] = NoOrder /\ held[o] = 0
          /\ \A g \in Handler : ~At(g, o, Deciding \cup {"release"})
      BY <1>2, <2>2, <2>4 DEF Once, Unknown
    <3>2. /\ \A g \in Handler : At(g, o, Deciding)' => g = h
          /\ \A g \in Handler : ~At(g, o, {"release"})'
          /\ \A g \in Handler : At(g, o, Cancelling)' => At(g, o, Cancelling) /\ g # h
      BY <2>1, <2>4, <3>1 DEF At, Deciding, Cancelling
    <3>3. Unknown(o)'
      BY <2>1, <2>2, <2>4 DEF Unknown, Created
    <3>4. OneDecides(o)'
      BY <2>1, <2>4, <3>1, <3>2 DEF OneDecides
    <3>5. OneCancels(o)'
      BY <2>1, <3>1, <3>2 DEF Once, OneCancels, CancelEvent, At
    <3>6. KeepsDishes(o)'
      BY <2>1, <3>1 DEF KeepsDishes
    <3> QED BY <2>1, <3>1, <3>3, <3>4, <3>5, <3>6 DEF Once
  <2>5. CASE e.order = o /\ e.type = "cancelled"
    <3>1. CancelEvent(o) \notin SeenEvents /\ \A g \in Handler : ~At(g, o, Cancelling)
      BY <1>2, <2>2, <2>5 DEF Once, OneCancels
    <3>2. /\ \A g \in Handler : At(g, o, Deciding)' => At(g, o, Deciding) /\ g # h
          /\ \A g \in Handler : At(g, o, Deciding \cup {"release"})'
                                   => At(g, o, Deciding \cup {"release"})
          /\ \A g \in Handler : At(g, o, Cancelling)' => g = h
          /\ \A g \in Handler : ~At(g, o, {"release"})'
      BY <2>1, <2>5, <3>1 DEF At, Deciding, Cancelling
    <3>3. Unknown(o)'
      BY <2>1, <2>2, <2>5, <3>2 DEF Once, Unknown, Created
    <3>4. OneDecides(o)'
      BY <2>1, <3>2 DEF Once, OneDecides
    <3>5. OneCancels(o)'
      BY <2>1, <2>2, <2>5, <3>2 DEF OneCancels, CancelEvent
    <3>6. KeepsDishes(o)'
      BY <2>1, <3>1 DEF Once, KeepsDishes
    <3> QED BY <2>1, <3>3, <3>4, <3>5, <3>6 DEF Once
  <2> QED BY <2>2, <2>3, <2>4, <2>5
<1> QED BY <1>1, <1>2

LEMMA StepOnce ==
    ASSUME Typed, NEW o \in Order, Once(o), NEW h \in Handler, job[h] = o, Step(h)
    PROVE  Once(o)'
<1>1. /\ SeenEvents' = SeenEvents
      /\ \A g \in Handler : g # h => pc'[g] = pc[g] /\ job'[g] = job[g]
      /\ \A g \in Handler : g # h =>
            \A S \in {Deciding \cup {"release"}, Deciding, Cancelling,
                      {"cancelled"}, {"release"}} : At(g, o, S)' <=> At(g, o, S)
  <2>1. seen' = seen
    BY DEF Step, CheckAndReserve, TellPlatform, AddOrder, CancelOrder, ReleaseStock, state
  <2>2. \A g \in Handler : g # h => pc'[g] = pc[g] /\ job'[g] = job[g]
    BY DEF Step, CheckAndReserve, TellPlatform, AddOrder, CancelOrder, ReleaseStock,
           Typed, TypeOK
  <2> QED BY <2>1, <2>2 DEF SeenEvents, At
<1>2. CASE CheckAndReserve(h)
  <2>1. At(h, o, Deciding) /\ pc[h] = "created"
    BY <1>2 DEF CheckAndReserve, At, Deciding
  <2>2. /\ Created(o) \in SeenEvents /\ orders[o] = NoOrder /\ held[o] = 0
        /\ \A g \in Handler : g # h => ~At(g, o, Deciding \cup {"release"})
    BY <2>1 DEF Once, Unknown, OneDecides, At, Deciding
  <2>3. /\ orders' = orders
        /\ \/ pc'[h] = "accept" /\ held'[o] = 1
           \/ pc'[h] = "reject" /\ held'[o] = 0
    BY <1>2, <2>2 DEF CheckAndReserve, Typed, TypeOK
  <2>4. Unknown(o)'
    BY <1>1, <2>2 DEF Unknown, Created
  <2>5. OneDecides(o)'
    BY <1>1, <2>2, <2>3 DEF OneDecides, At, Deciding
  <2>6. OneCancels(o)'
    <3>1. \A g \in Handler : At(g, o, Cancelling)' => g # h /\ pc'[g] # "release"
      BY <1>1, <2>2, <2>3 DEF At, Cancelling, Deciding
    <3> QED BY <1>1, <3>1 DEF Once, OneCancels, CancelEvent
  <2>7. KeepsDishes(o)'
    BY <2>2, <2>3 DEF KeepsDishes
  <2> QED BY <2>3, <2>4, <2>5, <2>6, <2>7 DEF Once
<1>3. CASE TellPlatform(h)
  <2>1. /\ orders' = orders /\ held' = held /\ job' = job
        /\ \/ pc[h] = "accept" /\ pc'[h] = "accepted"
           \/ pc[h] = "reject" /\ pc'[h] = "rejected"
    BY <1>3 DEF TellPlatform, state, Typed, TypeOK
  <2>2. /\ \A g \in Handler :
              \A S \in {Deciding \cup {"release"}, Deciding, Cancelling,
                        {"cancelled"}, {"release"}} : At(g, o, S)' <=> At(g, o, S)
        /\ \A g \in Handler : pc'[g] = "release" <=> pc[g] = "release"
    BY <1>1, <2>1 DEF At, Deciding, Cancelling
  <2>3. Unknown(o)'
    BY <1>1, <2>1, <2>2 DEF Once, Unknown, Created
  <2>4. OneDecides(o)'
    <3> SUFFICES ASSUME NEW g \in Handler, NEW k \in Handler, At(g, o, Deciding)'
                 PROVE  /\ At(k, o, Deciding)' => g = k
                        /\ ~At(k, o, {"release"})'
                        /\ orders'[o] = NoOrder
                        /\ held'[o] = IF pc'[g] \in {"accept", "accepted"} THEN 1 ELSE 0
      BY DEF OneDecides
    <3>1. At(g, o, Deciding)
      BY <2>2
    <3>2. /\ At(k, o, Deciding) => g = k
          /\ ~At(k, o, {"release"})
          /\ orders[o] = NoOrder
          /\ held[o] = IF pc[g] \in {"accept", "accepted"} THEN 1 ELSE 0
      BY <3>1 DEF Once, OneDecides
    <3>3. (At(k, o, Deciding)' => g = k) /\ ~At(k, o, {"release"})'
      BY <2>2, <3>2
    <3>4. pc'[g] \in {"accept", "accepted"} <=> pc[g] \in {"accept", "accepted"}
      <4>1. CASE g = h
        BY <2>1, <4>1
      <4>2. CASE g # h
        BY <1>1, <4>2
      <4> QED BY <4>1, <4>2
    <3>5. held'[o] = IF pc'[g] \in {"accept", "accepted"} THEN 1 ELSE 0
      BY <2>1, <3>2, <3>4
    <3> QED BY <2>1, <3>2, <3>3, <3>5
  <2>5. OneCancels(o)'
    BY <1>1, <2>1, <2>2 DEF Once, OneCancels, CancelEvent
  <2>6. KeepsDishes(o)'
    BY <1>1, <2>1, <2>2 DEF Once, KeepsDishes, CancelEvent
  <2> QED BY <2>1, <2>3, <2>4, <2>5, <2>6 DEF Once
<1>4. CASE AddOrder(h)
  <2>1. At(h, o, Deciding)
    BY <1>4 DEF AddOrder, At, Deciding
  <2>2. /\ Created(o) \in SeenEvents
        /\ held[o] = IF pc[h] = "accepted" THEN 1 ELSE 0
        /\ \A g \in Handler : g # h => ~At(g, o, Deciding \cup {"release"})
    BY <1>4, <2>1 DEF Once, Unknown, OneDecides, At, Deciding, AddOrder
  <2>3. /\ held' = held /\ pc'[h] = "idle"
        /\ orders'[o].lines = (pc[h] = "accepted")
    BY <1>4 DEF AddOrder, Decision, Typed, TypeOK
  <2>4. Unknown(o)'
    BY <1>1, <2>2 DEF Unknown, Created
  <2>5. OneDecides(o)'
    <3>1. \A g \in Handler : ~At(g, o, Deciding)'
      BY <1>1, <2>2, <2>3 DEF At, Deciding
    <3> QED BY <3>1 DEF OneDecides
  <2>6. OneCancels(o)'
    <3>1. \A g \in Handler : At(g, o, Cancelling)' => g # h /\ At(g, o, Cancelling)
      BY <1>1, <2>3 DEF At, Cancelling
    <3> QED BY <1>1, <2>3, <3>1 DEF Once, OneCancels, CancelEvent
  <2>7. KeepsDishes(o)'
    BY <2>2, <2>3 DEF KeepsDishes
  <2> QED BY <2>2, <2>3, <2>4, <2>5, <2>6, <2>7 DEF Once
<1>5. CASE CancelOrder(h)
  <2>1. At(h, o, Cancelling) /\ At(h, o, {"cancelled"}) /\ ~At(h, o, Deciding)
    BY <1>5 DEF CancelOrder, At, Cancelling, Deciding
  <2>2. /\ CancelEvent(o) \in SeenEvents
        /\ \A g \in Handler : g # h => ~At(g, o, Cancelling)
    BY <2>1 DEF Once, OneCancels
  <2>3. /\ held' = held
        /\ orders[o] = NoOrder => orders' = orders
        /\ \/ /\ pc'[h] = "release" /\ job'[h] = o
              /\ orders[o] # NoOrder /\ orders[o].lines
           \/ pc'[h] = "idle"
    BY <1>5 DEF CancelOrder, Typed, TypeOK
  <2>4. pc'[h] = "release" => held[o] = 1 /\ Created(o) \in SeenEvents
    BY <2>1, <2>3 DEF Once, KeepsDishes, Unknown
  <2>5. Unknown(o)'
    <3>1. \A g \in Handler : At(g, o, Deciding \cup {"release"})' /\ g # h
                               => At(g, o, Deciding \cup {"release"})
      BY <1>1
    <3>2. Created(o) \notin SeenEvents => pc'[h] = "idle" /\ orders' = orders
      BY <2>3, <2>4 DEF Once, Unknown
    <3>3. pc'[h] = "idle" => ~At(h, o, Deciding \cup {"release"})'
      BY DEF At, Deciding
    <3> QED BY <1>1, <2>3, <3>1, <3>2, <3>3 DEF Once, Unknown, Created
  <2>6. OneDecides(o)'
    <3>1. \A g \in Handler : At(g, o, Deciding)' => At(g, o, Deciding) /\ g # h
      BY <1>1, <2>3 DEF At, Deciding
    <3> SUFFICES ASSUME NEW g \in Handler, At(g, o, Deciding)'
                 PROVE  /\ \A k \in Handler : At(k, o, Deciding)' => g = k
                        /\ \A k \in Handler : ~At(k, o, {"release"})'
                        /\ orders'[o] = NoOrder
                        /\ held'[o] = IF pc'[g] \in {"accept", "accepted"} THEN 1 ELSE 0
      BY DEF OneDecides
    <3>2. /\ orders[o] = NoOrder /\ held[o] = (IF pc[g] \in {"accept", "accepted"} THEN 1 ELSE 0)
          /\ \A k \in Handler : At(k, o, Deciding) => g = k
          /\ \A k \in Handler : ~At(k, o, {"release"})
      BY <3>1 DEF Once, OneDecides
    <3>3. pc'[h] = "idle" /\ ~At(h, o, {"release"})'
      BY <2>3, <3>2 DEF At
    <3> QED BY <1>1, <2>3, <3>1, <3>2, <3>3
  <2>7. OneCancels(o)'
    <3>1. \A g \in Handler : At(g, o, Cancelling)' => g = h /\ pc'[h] = "release"
      BY <1>1, <2>2, <2>3 DEF At, Cancelling
    <3> QED BY <1>1, <2>2, <2>3, <2>4, <3>1 DEF OneCancels, CancelEvent
  <2>8. KeepsDishes(o)'
    <3>1. \A g \in Handler : ~At(g, o, {"cancelled"})'
      BY <1>1, <2>2, <2>3 DEF At, Cancelling
    <3> QED BY <1>1, <2>2, <3>1 DEF KeepsDishes, CancelEvent
  <2> QED BY <2>3, <2>5, <2>6, <2>7, <2>8 DEF Once
<1>6. CASE ReleaseStock(h)
  <2>1. At(h, o, Cancelling) /\ At(h, o, {"release"}) /\ pc[h] = "release"
    BY <1>6 DEF ReleaseStock, At, Cancelling
  <2>2. /\ CancelEvent(o) \in SeenEvents /\ held[o] = 1
        /\ \A g \in Handler : g # h => ~At(g, o, Cancelling)
        /\ \A g \in Handler : ~At(g, o, Deciding)
        /\ Created(o) \in SeenEvents
    BY <2>1 DEF Once, OneCancels, OneDecides, Unknown
  <2>3. orders' = orders /\ held'[o] = 0 /\ pc'[h] = "idle"
    BY <1>6, <2>2 DEF ReleaseStock, Typed, TypeOK
  <2>4. \A g \in Handler : ~At(g, o, Deciding)' /\ ~At(g, o, Cancelling)'
                             /\ ~At(g, o, {"cancelled"})'
    BY <1>1, <2>2, <2>3 DEF At, Deciding, Cancelling
  <2>5. Unknown(o)'
    BY <1>1, <2>2 DEF Unknown, Created
  <2>6. OneDecides(o)' /\ OneCancels(o)'
    BY <2>4 DEF OneDecides, OneCancels
  <2>7. KeepsDishes(o)'
    BY <1>1, <2>2, <2>4 DEF KeepsDishes, CancelEvent
  <2> QED BY <2>3, <2>5, <2>6, <2>7 DEF Once
<1> QED BY <1>2, <1>3, <1>4, <1>5, <1>6 DEF Step

LEMMA ApplyOnce ==
    ASSUME Typed, NEW o \in Order, Once(o), ApplyReply
    PROVE  Once(o)'
<1>1. orders'[o] = orders[o] \/ (orders[o] # NoOrder /\ orders'[o].lines = orders[o].lines)
  BY DEF ApplyReply, Typed, TypeOK, Tracked
<1>2. held' = held /\ seen' = seen /\ pc' = pc /\ job' = job
  BY DEF ApplyReply, handlers
<1> QED BY <1>1, <1>2, OnceStays DEF SeenEvents

\* An order's dishes are taken once and given back once, whatever is delivered again,
\* out of order or to two handlers at once, as long as the kitchen remembers the events
\* it has seen and the platform announces one cancellation per order.
THEOREM ReservedOnce ==
    MaxCancels <= 1 => (Spec /\ []Remembers => []ReservedAtMostOnce)
<1> SUFFICES ASSUME MaxCancels <= 1 PROVE Spec /\ []Remembers => []ReservedAtMostOnce
  OBVIOUS
<1> DEFINE AllOnce == \A o \in Order : Once(o)
<1>1. Init => AllOnce
  BY DEF Init, Once, Unknown, OneDecides, OneCancels, KeepsDishes, At, Deciding, Cancelling
<1>2. Typed /\ Remembers /\ AllOnce /\ [Next]_vars => AllOnce'
  <2> SUFFICES ASSUME Typed, Remembers, [Next]_vars, NEW o \in Order, Once(o) PROVE Once(o)'
    OBVIOUS
  <2>1. CASE UNCHANGED <<seen, orders, held, pc, job>>
    BY <2>1, OnceStays DEF SeenEvents
  <2>2. ASSUME NEW h \in Handler, Step(h)
        PROVE  Once(o)'
    <3>1. CASE job[h] = o
      BY <2>2, <3>1, StepOnce
    <3>2. CASE job[h] # o
      <4>1. \A g \in Handler : (pc'[g] = pc[g] /\ job'[g] = job[g])
                               \/ (job[g] # o /\ (job'[g] # o \/ pc'[g] = "idle"))
        BY <2>2, <3>2 DEF Step, CheckAndReserve, TellPlatform, AddOrder, CancelOrder,
               ReleaseStock, Typed, TypeOK
      <4>2. seen' = seen /\ held'[o] = held[o] /\ orders'[o] = orders[o]
        BY <2>2, <3>2 DEF Step, CheckAndReserve, TellPlatform, AddOrder, CancelOrder,
               ReleaseStock, state, Typed, TypeOK
      <4> QED BY <4>1, <4>2, OnceStays DEF SeenEvents
    <3> QED BY <3>1, <3>2
  <2>3. ASSUME NEW h \in Handler, NEW e \in Event, HandleWebhook(h, e)
        PROVE  Once(o)'
    BY <2>3, WebhookOnce
  <2>4. CASE ApplyReply
    BY <2>4, ApplyOnce
  <2>5. CASE Restart
    BY <2>5 DEF Restart, Once, Unknown, OneDecides, OneCancels, KeepsDishes, At, Deciding,
            Cancelling
  <2> QED BY <2>1, <2>2, <2>3, <2>4, <2>5
          DEF Next, Tick, vars, state, handlers, PlaceOrder, BeginCancel, CommitCancel,
              StartBatch, EndBatch, CallPlatform, SetStock
<1>3. AllOnce => ReservedAtMostOnce
  BY DEF Once, ReservedAtMostOnce
<1> QED BY <1>1, <1>2, <1>3, TypesHold, PTL DEF Spec

-----------------------------------------------------------------------------
(* Stock *)

\* What is accepted was there for the larger of the two lines.
LEMMA LinesFit ==
    ASSUME TypeOK, NEW o \in Order, NEW i \in Item, Enough(o), Total(o, i) # 0
    PROVE  stock[i] >= 0 /\ (stock[i] - Total(o, i)) + Second(o, i) >= 0
<1> DEFINE a == Basket[o][i]["rescued"]
           b == Basket[o][i]["rest"]
<1>1. a \in Nat /\ b \in Nat /\ stock[i] \in Int
  BY BasketAssumption DEF Part, TypeOK
<1>2. Total(o, i) = a + b /\ Second(o, i) = IF a <= b THEN a ELSE b
  BY DEF Total, Second
<1>3. (a > 0 => stock[i] >= a) /\ (b > 0 => stock[i] >= b)
  <2>1. \A part \in Part : Basket[o][i][part] > 0 => stock[i] >= Basket[o][i][part]
    <3> SUFFICES ASSUME NEW part \in Part, Basket[o][i][part] > 0
                 PROVE  stock[i] >= Basket[o][i][part]
      OBVIOUS
    <3> DEFINE l == <<i, part>>
    <3>1. l \in Lines(o) /\ l[1] = i /\ l[2] = part
      BY DEF Lines
    <3>2. stock[l[1]] >= Basket[o][l[1]][l[2]]
      BY <3>1 DEF Enough
    <3> HIDE DEF l
    <3> QED BY <3>1, <3>2
  <2> QED BY <2>1 DEF Part
<1> HIDE DEF a, b
<1> QED BY <1>1, <1>2, <1>3

\* ShortByOneOrder of one dish.
Short(i) == stock[i] < 0 =>
    \/ \E q \in Corrections : stock[i] >= q
    \/ \E o \in Order : held[o] > 0 /\ stock[i] + Second(o, i) >= 0

\* A stock that only grows stays short by what the same order holds, if by anything.
LEMMA ShortStays ==
    ASSUME Typed, NEW i \in Item, Short(i), stock'[i] \in Int, stock'[i] >= stock[i],
           \A o \in Order : held[o] > 0 /\ stock[i] + Second(o, i) >= 0
                              => held'[o] > 0 \/ stock'[i] >= 0
    PROVE  Short(i)'
<1> SUFFICES ASSUME stock'[i] < 0
             PROVE  \/ \E q \in Corrections : stock'[i] >= q
                    \/ \E o \in Order : held'[o] > 0 /\ stock'[i] + Second(o, i) >= 0
  BY DEF Short, Second
<1>1. stock[i] \in Int /\ stock[i] < 0
  BY DEF Typed, TypeOK
<1>2. CASE \E q \in Corrections : stock[i] >= q
  <2>1. PICK q \in Corrections : stock[i] >= q
    BY <1>2
  <2>2. q \in Int
    BY BasketAssumption
  <2>3. stock'[i] >= q
    BY <1>1, <2>1, <2>2
  <2> QED BY <2>3
<1>3. CASE \E o \in Order : held[o] > 0 /\ stock[i] + Second(o, i) >= 0
  <2>1. PICK o \in Order : held[o] > 0 /\ stock[i] + Second(o, i) >= 0
    BY <1>3
  <2>2. Second(o, i) \in Nat
    BY LineSums
  <2>3. held'[o] > 0
    BY <2>1
  <2>4. stock'[i] + Second(o, i) >= 0
    BY <1>1, <2>1, <2>2
  <2> QED BY <2>3, <2>4
<1> QED BY <1>1, <1>2, <1>3 DEF Short

LEMMA ReserveShort ==
    ASSUME Typed, ReservedAtMostOnce, NEW i \in Item, Short(i), NEW h \in Handler,
           CheckAndReserve(h)
    PROVE  Short(i)'
<1> DEFINE o == job[h]
<1>1. o \in Order /\ stock[i] \in Int /\ held \in [Order -> Int]
  BY DEF CheckAndReserve, Typed, TypeOK, Shape
<1>0. held[o] \in {0, 1}
  BY <1>1 DEF ReservedAtMostOnce
<1>2. Total(o, i) \in Nat /\ Second(o, i) \in Nat
  BY <1>1, LineSums
<1>3. CASE ~Enough(o)
  <2>1. stock' = stock /\ held' = held
    BY <1>3 DEF CheckAndReserve
  <2> QED BY <1>1, <2>1, ShortStays
<1>4. CASE Enough(o)
  <2>1. /\ stock'[i] = stock[i] - Total(o, i)
        /\ held' = [held EXCEPT ![o] = @ + 1]
    BY <1>4 DEF CheckAndReserve
  <2>2. CASE Total(o, i) = 0
    <3>1. stock'[i] = stock[i]
      BY <1>1, <2>1, <2>2
    <3>2. \A p \in Order : held[p] > 0 => held'[p] > 0
      BY <1>1, <2>1
    <3> HIDE DEF o
    <3> QED BY <1>1, <3>1, <3>2, ShortStays
  <2>3. CASE Total(o, i) # 0
    <3>1. (stock[i] - Total(o, i)) + Second(o, i) >= 0
      BY <1>1, <1>4, <2>3, LinesFit DEF Typed
    <3>2. stock'[i] + Second(o, i) >= 0 /\ held'[o] > 0
      BY <1>0, <1>1, <2>1, <3>1
    <3> HIDE DEF o
    <3> QED BY <1>1, <3>2 DEF Short, Second
  <2> QED BY <2>2, <2>3
<1> QED BY <1>3, <1>4

LEMMA ReleaseShort ==
    ASSUME Typed, NEW i \in Item, Short(i), NEW h \in Handler, ReleaseStock(h)
    PROVE  Short(i)'
<1> DEFINE o == job[h]
<1>1. o \in Order /\ stock[i] \in Int /\ held \in [Order -> Int]
  BY DEF ReleaseStock, Typed, TypeOK, Shape
<1>2. Total(o, i) \in Nat /\ Second(o, i) \in Nat /\ Second(o, i) <= Total(o, i)
  BY <1>1, LineSums
<1>3. stock'[i] = stock[i] + Total(o, i) /\ held' = [held EXCEPT ![o] = @ - 1]
  BY DEF ReleaseStock
<1>4. ASSUME NEW p \in Order, held[p] > 0 /\ stock[i] + Second(p, i) >= 0
      PROVE  held'[p] > 0 \/ stock'[i] >= 0
  <2>1. CASE p = o
    BY <1>1, <1>2, <1>3, <1>4, <2>1
  <2>2. CASE p # o
    BY <1>1, <1>3, <1>4, <2>2
  <2> QED BY <2>1, <2>2
<1>5. stock'[i] \in Int /\ stock'[i] >= stock[i]
  BY <1>1, <1>2, <1>3
<1> HIDE DEF o
<1> QED BY <1>4, <1>5, ShortStays

\* What the kitchen is short of a dish is owed to one order that still holds its dishes,
\* and is at most the smaller of its two lines: handlers at work at once, corrections,
\* releases and restarts never add shortfalls up.  The premises are ReservedOnce's.
THEOREM ShortfallsDoNotAddUp ==
    MaxCancels <= 1 => (Spec /\ []Remembers => []ShortByOneOrder)
<1> SUFFICES ASSUME MaxCancels <= 1 PROVE Spec /\ []Remembers => []ShortByOneOrder
  OBVIOUS
<1> DEFINE AllShort == \A i \in Item : Short(i)
<1>1. Init => AllShort
  BY BasketAssumption DEF Init, Short
<1>2. Typed /\ ReservedAtMostOnce /\ AllShort /\ [Next]_vars => AllShort'
  <2> SUFFICES ASSUME Typed, ReservedAtMostOnce, [Next]_vars, NEW i \in Item, Short(i)
               PROVE  Short(i)'
    OBVIOUS
  <2>1. stock[i] \in Int
    BY DEF Typed, TypeOK
  <2>2. CASE UNCHANGED <<stock, held>>
    BY <2>1, <2>2, ShortStays
  <2>3. ASSUME NEW h \in Handler, CheckAndReserve(h) PROVE Short(i)'
    BY <2>3, ReserveShort
  <2>4. ASSUME NEW h \in Handler, ReleaseStock(h) PROVE Short(i)'
    BY <2>4, ReleaseShort
  <2>5. ASSUME NEW j \in Item, NEW q \in Corrections, SetStock(j, q) PROVE Short(i)'
    <3>1. CASE j = i
      <4>1. stock'[i] = q /\ q \in Int
        BY <2>5, <3>1, BasketAssumption DEF SetStock, Typed, TypeOK
      <4> QED BY <4>1 DEF Short
    <3>2. CASE j # i
      <4>1. stock'[i] = stock[i] /\ held' = held
        BY <2>5, <3>2 DEF SetStock, Typed, TypeOK
      <4> QED BY <2>1, <4>1, ShortStays
    <3> QED BY <3>1, <3>2
  <2>6. CASE Restart
    <3>1. stock'[i] \in Nat
      BY <2>6, BasketAssumption DEF Restart
    <3> QED BY <3>1 DEF Short
  <2> QED BY <2>2, <2>3, <2>4, <2>5, <2>6
          DEF Next, Step, Tick, vars, state, PlaceOrder, BeginCancel, CommitCancel,
              HandleWebhook, TellPlatform, AddOrder, CancelOrder, StartBatch, EndBatch,
              CallPlatform, ApplyReply
<1>3. AllShort => ShortByOneOrder
  BY DEF Short, ShortByOneOrder
<1> QED BY <1>1, <1>2, <1>3, TypesHold, ReservedOnce, PTL DEF Spec

-----------------------------------------------------------------------------
(* The stock sync *)

\* With the platform's stock beside it the kitchen does what it does alone: the sync
\* reads its state and changes none of it.  What is proved above holds of both.
THEOREM SyncIsKitchen == SyncSpec => Spec
<1>1. SyncInit => Init
  BY DEF SyncInit
<1>2. [SyncNext]_all => [Next]_vars
  <2>1. UNCHANGED all => UNCHANGED vars
    BY DEF all
  <2>2. Apart => Next
    BY DEF Apart, Next
  <2>3. (\E o \in Order : Checkout(o)) => Next
    BY DEF Checkout, Next
  <2>4. (\E p \in Staff, i \in Item, q \in Corrections : Correct(p, i, q)) => Next
    BY DEF Correct, Next
  <2>5. SyncStock => UNCHANGED vars
    BY DEF SyncStock
  <2>6. ASSUME NEW p \in Pusher, PushFails(p) \/ \E i \in Item : UpdateAvailability(p, i)
        PROVE  UNCHANGED vars
    BY <2>6 DEF PushFails, UpdateAvailability
  <2>7. Reload => Next
    BY DEF Reload, Next
  <2> QED BY <2>1, <2>2, <2>3, <2>4, <2>5, <2>6, <2>7 DEF SyncNext
<1> QED BY <1>1, <1>2, PTL DEF SyncSpec, Spec

=============================================================================

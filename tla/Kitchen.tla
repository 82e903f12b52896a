---------------------------------- MODULE Kitchen ----------------------------------
(***************************************************************************)
(* The venue emulator (external/venue-pasta-roma) next to the platform:    *)
(* order events arrive at least once and in any order, concurrent handlers *)
(* reserve stock and call the partner API, one ticker advances orders and  *)
(* retries calls, staff correct the stock, and a restart forgets all.      *)
(*                                                                         *)
(* Kept abstract: times (what is scheduled may be due at any moment) and   *)
(* the platform's side of a call, one atomic step here; OrderStatus has    *)
(* the races between the venue's own requests.  The customer's             *)
(* cancellation is read and written apart, because two may overlap.        *)
(***************************************************************************)
EXTENDS Integers, Sequences, FiniteSets

CONSTANTS
    Order, Item, Handler,
    Basket,         \* portions of each dish in an order, by the parts of its cart line
    Menu,           \* the stock the venue starts with
    Corrections,    \* what staff may set a stock to
    MaxSeen,        \* maxSeenEvents
    MaxCancels,     \* bound on CancelOrder transactions per order
    MaxFaults,      \* bound on redeliveries, lost answers and restarts together
    NoOrder, NoCall

\* A cart has one line per dish; checkout makes two order items of a line that a
\* rescue offer covers in part.
Part == {"rescued", "rest"}

\* Nobody looks at the sign of a corrected stock.
ASSUME BasketAssumption ==
    /\ Basket \in [Order -> [Item -> [Part -> Nat]]]
    /\ Menu \in [Item -> Nat]
    /\ Corrections \subseteq Int
    /\ MaxSeen \in Nat \ {0}
    /\ MaxCancels \in Nat /\ MaxFaults \in Nat

VARIABLES
    platform,          \* orders.status, "absent" before checkout
    begun, cancels,    \* CancelOrder transactions that passed their check / committed
    sent,              \* events delivered at least once
    stock, seen, orders, held,   \* State; held counts reservations not given back
    pc, job, answer,   \* the webhook handlers
    phase, batch, call, reply,   \* the status ticker
    faults             \* redeliveries, failed calls and restarts so far

outside == <<platform, begun, cancels, sent>>
state == <<stock, seen, orders, held>>
handlers == <<pc, job, answer>>
ticker == <<phase, batch, call, reply>>
vars == <<outside, state, handlers, ticker, faults>>

Machine == INSTANCE OrderMachine WITH status <- platform

Event == [order: Order, type: {"created"}, n: {1}]
           \cup [order: Order, type: {"cancelled"}, n: 1..MaxCancels]

\* What the outbox holds.
Enqueued(e) ==
    IF e.type = "created" THEN platform[e.order] # "absent" ELSE e.n <= cancels[e.order]

\* One Order of State.orders: its status, whether it keeps its lines, the call it
\* still owes the platform, and whether NextAdvanceAt is set.
Tracked == [status: {"confirmed", "cooking", "ready", "delivering", "delivered", "rejected",
                     "canceled", "pending_accept", "pending_reject"},
            lines: BOOLEAN, pending: {"none", "accept", "reject"}, timed: BOOLEAN]

\* One more thing goes wrong.
Fault ==
    /\ faults < MaxFaults
    /\ faults' = faults + 1

-----------------------------------------------------------------------------
(* The platform *)

PlaceOrder(o) ==
    /\ platform[o] = "absent"
    /\ platform' = [platform EXCEPT ![o] = "created"]
    /\ UNCHANGED <<begun, cancels, sent, state, handlers, ticker, faults>>

\* CancelOrder's SELECT; the transition is checked on what it returned.
BeginCancel(o) ==
    /\ begun[o] < MaxCancels
    /\ platform[o] # "absent"
    /\ Machine!CanTransition(platform[o], "cancelled")
    /\ begun' = [begun EXCEPT ![o] = @ + 1]
    /\ UNCHANGED <<platform, cancels, sent, state, handlers, ticker, faults>>

CommitCancel(o) ==
    /\ cancels[o] < begun[o]
    /\ platform' = [platform EXCEPT ![o] = "cancelled"]
    /\ cancels' = [cancels EXCEPT ![o] = @ + 1]
    /\ UNCHANGED <<begun, sent, state, handlers, ticker, faults>>

\* A call of the partner API and the answer the kitchen gets: 200, 409, or none it
\* can use, whether or not the call was carried out.
Call(o, to, got) ==
    LET allowed == Machine!CanTransition(platform[o], to) IN
    /\ \/ got = "ok" /\ allowed
       \/ got = "conflict" /\ ~allowed
       \/ got = "failed"
    /\ IF got = "failed" THEN Fault ELSE UNCHANGED faults
    /\ \/ /\ allowed
          /\ platform' = [platform EXCEPT ![o] = to]
       \/ /\ got # "ok"
          /\ UNCHANGED platform
    /\ UNCHANGED <<begun, cancels>>

-----------------------------------------------------------------------------
(* Webhook handlers *)

SeenEvents == {seen[n] : n \in DOMAIN seen}

\* Mutant: the event is not remembered.
MarkEventSeenNever(e) == UNCHANGED seen

\* The oldest of more than MaxSeen remembered ids is forgotten.
MarkEventSeen(e) ==
    LET longer == Append(seen, e)
    IN  seen' = IF Len(longer) > MaxSeen THEN Tail(longer) ELSE longer

\* Any event in the outbox may reach any free handler, again and out of order.
HandleWebhook(h, e) ==
    /\ pc[h] = "idle"
    /\ Enqueued(e)
    /\ IF e \in sent THEN Fault ELSE UNCHANGED faults
    /\ sent' = sent \cup {e}
    /\ IF e \in SeenEvents
         THEN UNCHANGED <<seen, pc, job>>
         ELSE /\ MarkEventSeen(e)
              /\ job' = [job EXCEPT ![h] = e.order]
              /\ pc' = [pc EXCEPT ![h] = e.type]
    /\ UNCHANGED <<platform, begun, cancels, stock, orders, held, answer, ticker>>

\* The lines of the event: the order's items.
Lines(o) == {l \in Item \X Part : Basket[o][l[1]][l[2]] > 0}

Total(o, i) == Basket[o][i]["rescued"] + Basket[o][i]["rest"]

\* Mutant: only a dish at zero is sold out.
NotAtZero(o) == \A l \in Lines(o) : stock[l[1]] # 0

\* Every line by itself, also two lines of one dish.  A dish the kitchen does not know
\* is like one it has none of.
Enough(o) == \A l \in Lines(o) : stock[l[1]] >= Basket[o][l[1]][l[2]]

CheckAndReserve(h) ==
    LET o == job[h] IN
    /\ pc[h] = "created"
    /\ IF Enough(o)
         THEN /\ stock' = [i \in Item |-> stock[i] - Total(o, i)]
              /\ held' = [held EXCEPT ![o] = @ + 1]
              /\ pc' = [pc EXCEPT ![h] = "accept"]
         ELSE /\ pc' = [pc EXCEPT ![h] = "reject"]
              /\ UNCHANGED <<stock, held>>
    /\ UNCHANGED <<outside, seen, orders, job, answer, ticker, faults>>

\* acceptOrder and rejectOrder first call the platform ...
TellPlatform(h) ==
    /\ pc[h] \in {"accept", "reject"}
    /\ \E got \in {"ok", "conflict", "failed"} :
        /\ Call(job[h], IF pc[h] = "accept" THEN "confirmed" ELSE "rejected", got)
        /\ answer' = [answer EXCEPT ![h] = got]
    /\ pc' = [pc EXCEPT ![h] = IF @ = "accept" THEN "accepted" ELSE "rejected"]
    /\ UNCHANGED <<sent, state, job, ticker>>

Decision(accept, told) ==
    [status |-> IF told THEN (IF accept THEN "confirmed" ELSE "rejected")
                        ELSE (IF accept THEN "pending_accept" ELSE "pending_reject"),
     lines |-> accept,
     pending |-> IF told THEN "none" ELSE (IF accept THEN "accept" ELSE "reject"),
     timed |-> accept /\ told]

\* ... and then record the order; 200 and 409 both count as told.
AddOrder(h) ==
    /\ pc[h] \in {"accepted", "rejected"}
    /\ orders' = [orders EXCEPT ![job[h]] =
                    Decision(pc[h] = "accepted", answer[h] \in {"ok", "conflict"})]
    /\ pc' = [pc EXCEPT ![h] = "idle"]
    /\ job' = [job EXCEPT ![h] = NoOrder]
    /\ answer' = [answer EXCEPT ![h] = "ok"]
    /\ UNCHANGED <<outside, stock, seen, held, ticker, faults>>

\* Mutant: the platform's spelling.
CanceledAsThere == "cancelled"

Canceled == "canceled"

\* State.CancelOrder; an order that is not tracked is left alone.
CancelOrder(h) ==
    LET o == job[h] IN
    /\ pc[h] = "cancelled"
    /\ IF orders[o] = NoOrder
         THEN UNCHANGED orders
         ELSE orders' = [orders EXCEPT ![o].status = Canceled, ![o].pending = "none",
                                       ![o].timed = FALSE]
    /\ IF orders[o] # NoOrder /\ orders[o].lines
         THEN pc' = [pc EXCEPT ![h] = "release"] /\ UNCHANGED job
         ELSE pc' = [pc EXCEPT ![h] = "idle"] /\ job' = [job EXCEPT ![h] = NoOrder]
    /\ UNCHANGED <<outside, stock, seen, held, answer, ticker, faults>>

ReleaseStock(h) ==
    LET o == job[h] IN
    /\ pc[h] = "release"
    /\ stock' = [i \in Item |-> stock[i] + Total(o, i)]
    /\ held' = [held EXCEPT ![o] = @ - 1]
    /\ pc' = [pc EXCEPT ![h] = "idle"]
    /\ job' = [job EXCEPT ![h] = NoOrder]
    /\ UNCHANGED <<outside, seen, orders, answer, ticker, faults>>

-----------------------------------------------------------------------------
(* The status ticker: a batch of due advances, then a batch of due retries *)

Next_(s) ==
    CASE s = "confirmed" -> "cooking" [] s = "cooking" -> "ready"
      [] s = "ready" -> "delivering"  [] s = "delivering" -> "delivered"

\* DueOrders and DuePendingActions return copies.
Due(o) ==
    /\ orders[o] # NoOrder
    /\ IF phase = "advance" THEN orders[o].timed ELSE orders[o].pending # "none"

StartBatch(S) ==
    /\ phase \in {"advance", "retry"}
    /\ batch = {}
    /\ call = NoCall
    /\ S \subseteq {o \in Order : Due(o)}
    /\ batch' = {<<o, orders[o]>> : o \in S}
    /\ phase' = IF phase = "advance" THEN "advancing" ELSE "retrying"
    /\ UNCHANGED <<outside, state, handlers, call, reply, faults>>

EndBatch ==
    /\ phase \in {"advancing", "retrying"}
    /\ batch = {}
    /\ call = NoCall
    /\ phase' = IF phase = "advancing" THEN "retry" ELSE "advance"
    /\ UNCHANGED <<outside, state, handlers, batch, call, reply, faults>>

Wanted(c) ==
    IF phase = "advancing" THEN Next_(c[2].status)
    ELSE IF c[2].pending = "accept" THEN "confirmed" ELSE "rejected"

CallPlatform ==
    /\ call = NoCall
    /\ \E c \in batch, got \in {"ok", "conflict", "failed"} :
        /\ Call(c[1], Wanted(c), got)
        /\ batch' = batch \ {c}
        /\ call' = <<c[1], Wanted(c)>>
        /\ reply' = got
    /\ UNCHANGED <<sent, state, handlers, phase>>

\* Mutant: an advance is taken for done whatever the platform said.
UndoneIfFailed == {}

\* Answers after which the order stays as it is: only 200 advances an order, but
\* 409 settles a retry.
Undone == IF phase = "advancing" THEN {"conflict", "failed"} ELSE {"failed"}

\* AdvanceOrder and ResolvePending overwrite what the order has become meanwhile.
ApplyReply ==
    /\ call # NoCall
    /\ LET o == call[1]
           to == call[2]
       IN  orders' =
             IF reply \in Undone \/ orders[o] = NoOrder THEN orders
             ELSE [orders EXCEPT ![o].status = to,
                                 ![o].pending = IF phase = "retrying" THEN "none" ELSE @,
                                 ![o].timed = to \notin {"delivered", "rejected"}]
    /\ call' = NoCall
    /\ reply' = "ok"
    /\ UNCHANGED <<outside, stock, seen, held, handlers, phase, batch, faults>>

-----------------------------------------------------------------------------
(* Staff and restarts *)

SetStock(i, q) ==
    /\ stock' = [stock EXCEPT ![i] = q]
    /\ UNCHANGED <<outside, seen, orders, held, handlers, ticker, faults>>

\* All of State is in memory; the menu is loaded again.
Restart ==
    /\ Fault
    /\ stock' = Menu
    /\ seen' = <<>>
    /\ orders' = [o \in Order |-> NoOrder]
    /\ held' = [o \in Order |-> 0]
    /\ pc' = [h \in Handler |-> "idle"]
    /\ job' = [h \in Handler |-> NoOrder]
    /\ answer' = [h \in Handler |-> "ok"]
    /\ phase' = "advance"
    /\ batch' = {}
    /\ call' = NoCall
    /\ reply' = "ok"
    /\ UNCHANGED outside

Init ==
    /\ platform = [o \in Order |-> "absent"]
    /\ begun = [o \in Order |-> 0]
    /\ cancels = [o \in Order |-> 0]
    /\ sent = {}
    /\ stock = Menu
    /\ seen = <<>>
    /\ orders = [o \in Order |-> NoOrder]
    /\ held = [o \in Order |-> 0]
    /\ pc = [h \in Handler |-> "idle"]
    /\ job = [h \in Handler |-> NoOrder]
    /\ answer = [h \in Handler |-> "ok"]
    /\ phase = "advance"
    /\ batch = {}
    /\ call = NoCall
    /\ reply = "ok"
    /\ faults = 0

Step(h) ==
    CheckAndReserve(h) \/ TellPlatform(h) \/ AddOrder(h) \/ CancelOrder(h) \/ ReleaseStock(h)

Tick == (\E S \in SUBSET Order : StartBatch(S)) \/ EndBatch \/ CallPlatform \/ ApplyReply

Next ==
    \/ \E o \in Order : PlaceOrder(o) \/ BeginCancel(o) \/ CommitCancel(o)
    \/ \E h \in Handler : Step(h) \/ \E e \in Event : HandleWebhook(h, e)
    \/ Tick
    \/ \E i \in Item, q \in Corrections : SetStock(i, q)
    \/ Restart

Spec == Init /\ [][Next]_vars

\* Some handler that is not done goes on, an event that was never delivered is as
\* soon as a handler stays free, the ticker runs, and what is overdue time and again
\* is in a batch sooner or later.
Fairness ==
    /\ WF_vars(\E h \in Handler : Step(h))
    /\ WF_vars(\E h \in Handler, e \in Event \ sent : HandleWebhook(h, e))
    /\ WF_vars(Tick)
    /\ \A o \in Order : SF_vars(\E S \in SUBSET Order : o \in S /\ StartBatch(S))

-----------------------------------------------------------------------------
(* Properties *)

TypeOK ==
    /\ platform \in [Order -> Machine!Status \cup {"absent"}]
    /\ begun \in [Order -> 0..MaxCancels] /\ cancels \in [Order -> 0..MaxCancels]
    /\ sent \subseteq Event
    /\ stock \in [Item -> Int]
    /\ seen \in Seq(Event) /\ Len(seen) <= MaxSeen
    /\ orders \in [Order -> Tracked \cup {NoOrder}]
    /\ held \in [Order -> Int]
    /\ pc \in [Handler -> {"idle", "created", "cancelled", "accept", "reject", "accepted",
                           "rejected", "release"}]
    /\ job \in [Handler -> Order \cup {NoOrder}]
    /\ answer \in [Handler -> {"ok", "conflict", "failed"}]
    /\ phase \in {"advance", "advancing", "retry", "retrying"}
    /\ batch \subseteq Order \X Tracked
    /\ call \in (Order \X Machine!Status) \cup {NoCall}
    /\ reply \in {"ok", "conflict", "failed"}
    /\ faults \in 0..MaxFaults

\* An order's dishes are taken out of stock at most once and put back only if they
\* were: redeliveries, retries, reorderings and restarts included.
ReservedAtMostOnce == \A o \in Order : held[o] \in {0, 1}

\* The portions of an order's smaller line of a dish, if it has two.
Second(o, i) ==
    LET lines == Basket[o][i]
    IN  IF lines["rescued"] <= lines["rest"] THEN lines["rescued"] ELSE lines["rest"]

\* The kitchen promises more of a dish than it has only to one order at a time, which
\* still holds its dishes, and at most the portions of that order's smaller line: what
\* lines are short of never adds up over orders.  Staff may have written as little.
ShortByOneOrder ==
    \A i \in Item : stock[i] < 0 =>
        \/ \E q \in Corrections : stock[i] >= q
        \/ \E o \in Order : held[o] > 0 /\ stock[i] + Second(o, i) >= 0

\* The kitchen cooks only what the platform has let it: it is never in a later
\* status than the platform, unless a cancellation overwrote the platform's.
Rank(s) ==
    CASE s = "confirmed" -> 1 [] s = "cooking" -> 2 [] s = "ready" -> 3
      [] s = "delivering" -> 4 [] s = "delivered" -> 5 [] OTHER -> 0

NeverAhead ==
    \A o \in Order :
        /\ orders[o] # NoOrder
        /\ Rank(orders[o].status) > 1
        => platform[o] = "cancelled" \/ Rank(platform[o]) >= Rank(orders[o].status)

Created(o) == [order |-> o, type |-> "created", n |-> 1]

\* Every order that has reached the kitchen is accepted, rejected or cancelled in the
\* end, as long as no restart makes the kitchen forget it.
OrdersAreDecided ==
    \A o \in Order :
        (Created(o) \in SeenEvents /\ platform[o] = "created")
            ~> (Created(o) \notin SeenEvents \/ platform[o] # "created")

===================================================================================

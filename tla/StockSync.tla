--------------------------------- MODULE StockSync ---------------------------------
(***************************************************************************)
(* The kitchen's stock and the platform's: checkouts take portions from    *)
(* the platform's stock before the kitchen hears of them, and the kitchen  *)
(* overwrites it with its own, every so often and after each correction.   *)
(* Everything else is Kitchen's step.                                      *)
(*                                                                         *)
(* Kept abstract: is_available follows the quantity that is pushed; a      *)
(* request is handled by the platform from when it is made; a restart has  *)
(* loaded its menu when it is over.                                        *)
(***************************************************************************)
EXTENDS Kitchen

CONSTANT Staff      \* requests that correct the stock, one dish each

VARIABLES
    shelf,          \* menu_items.stock_qty of the venue's dishes
    push            \* per UpdateAvailability request: the updates not made yet

all == <<vars, shelf, push>>

Pusher == Staff \cup {"ticker"}

SyncInit ==
    /\ Init
    /\ shelf = Menu
    /\ push = [p \in Pusher |-> {}]

\* A checkout, refused when the platform has too few of a dish for the cart's line.
Checkout(o) ==
    /\ PlaceOrder(o)
    /\ \A i \in Item : shelf[i] >= Total(o, i)
    /\ shelf' = [i \in Item |-> shelf[i] - Total(o, i)]
    /\ UNCHANGED push

\* Mutant: dishes that are sold out are left out, as if they were stop-listed.
SnapshotOfPositive == {<<i, stock[i]>> : i \in {j \in Item : stock[j] > 0}}

StockSnapshot == {<<i, stock[i]>> : i \in Item}

\* The ticker waits for its last request before it takes the next snapshot.
SyncStock ==
    /\ push["ticker"] = {}
    /\ push' = [push EXCEPT !["ticker"] = StockSnapshot]
    /\ UNCHANGED <<vars, shelf>>

\* A correction changes the kitchen's stock and is pushed by a request of its own.
Correct(p, i, q) ==
    /\ push[p] = {}
    /\ SetStock(i, q)
    /\ push' = [push EXCEPT ![p] = {<<i, q>>}]
    /\ UNCHANGED shelf

\* Each update is a statement of its own, and in the order of a Go map;
\* menu_items_stock_valid refuses one below zero.
UpdateAvailability(p, i) ==
    /\ \E u \in push[p] :
        /\ u[1] = i /\ u[2] >= 0
        /\ shelf' = [shelf EXCEPT ![i] = u[2]]
        /\ push' = [push EXCEPT ![p] = @ \ {u}]
    /\ UNCHANGED vars

\* A statement fails, a refused one too, or the request never arrives: what is left of
\* it is given up.
PushFails(p) ==
    /\ push[p] # {}
    /\ push' = [push EXCEPT ![p] = {}]
    /\ UNCHANGED <<vars, shelf>>

\* LoadMenu puts the venue's menu on the platform and starts from it.
Reload ==
    /\ Restart
    /\ shelf' = Menu
    /\ push' = [p \in Pusher |-> {}]

\* What the kitchen and the customer do without the platform's stock.
Apart ==
    /\ \/ \E o \in Order : BeginCancel(o) \/ CommitCancel(o)
       \/ \E h \in Handler : Step(h) \/ \E e \in Event : HandleWebhook(h, e)
       \/ Tick
    /\ UNCHANGED <<shelf, push>>

SyncNext ==
    \/ Apart
    \/ \E o \in Order : Checkout(o)
    \/ SyncStock
    \/ \E p \in Staff, i \in Item, q \in Corrections : Correct(p, i, q)
    \/ \E p \in Pusher : PushFails(p) \/ \E i \in Item : UpdateAvailability(p, i)
    \/ Reload

SyncSpec == SyncInit /\ [][SyncNext]_all

\* The ticker ticks, its requests end, and they do not fail for ever before the same
\* dish.
FairSyncSpec ==
    /\ SyncSpec
    /\ Fairness
    /\ WF_all(SyncStock)
    /\ WF_all(PushFails("ticker") \/ \E i \in Item : UpdateAvailability("ticker", i))
    /\ \A i \in Item : SF_all(UpdateAvailability("ticker", i))

-----------------------------------------------------------------------------
(* Properties *)

\* Once the kitchen's stock no longer changes, the platform comes to sell exactly what
\* the kitchen has, sold-out dishes too: whatever was sold, cancelled, corrected, lost
\* on the way or overwritten by an older number.  A dish the kitchen is short of is the
\* exception: the platform cannot store what it is told.
StocksAgree ==
    \A i \in Item : <>[][FALSE]_stock => <>[](stock[i] >= 0 => shelf[i] = stock[i])

====================================================================================

---------------------------- MODULE RescueOffers ----------------------------
(***************************************************************************)
(* Rescue offers from their creation to their end, and the feed of them.   *)
(* Venues create offers for a window of time and cancel them early, orders *)
(* use up their units, items are stopped and venues close, and the clock   *)
(* runs, while a customer reads GET /rescue page by page.  Every statement *)
(* on rescue_offers outside checkout is committed by itself; what checkout *)
(* does with the offers it locks is in Checkout.                           *)
(***************************************************************************)
EXTENDS Integers, FiniteSets, Keyset

CONSTANTS
  Items,      \* menu items
  OfferIds,   \* ids offers may get, as numbers: uuids, compared but random
  Windows,    \* windows a venue asks for, <<starts, ends>>, sane or not
  MaxUnits,   \* a bound on an offer's quantity
  EndOfTime,  \* a bound on the clock
  MaxLists,   \* a bound on the listings a customer begins; 0: nobody lists
  Limits,     \* page sizes a customer asks for
  UsualLimit, \* the page size instead of one out of range (20 in the code)
  MostLimit   \* the largest page size (100 in the code)

ASSUME BoundsAssumption ==
  /\ OfferIds \subseteq Nat /\ Windows \subseteq Nat \X Nat
  /\ MaxUnits \in Nat \ {0} /\ EndOfTime \in Nat /\ MaxLists \in Nat
  /\ Limits \subseteq Int /\ MostLimit \in Nat /\ UsualLimit \in 1 .. MostLimit

VARIABLES
  offers,   \* offers[o]: the row with id o, or None
  sellable, \* items that are available, in stock and of an open venue
  now,      \* the clock
  reader    \* the customer who reads the feed, and what he saw

vars == <<offers, sellable, now, reader>>

None == [item |-> "none"]

Offer ==
  [item : Items, starts : Nat, ends : Nat, left : 0 .. MaxUnits, cancelled : BOOLEAN]

Created == {o \in OfferIds : offers[o] # None}

----------------------------------------------------------------------------
(* When an offer can be used *)

WindowValid(o, at) ==
  ~offers[o].cancelled /\ at >= offers[o].starts /\ at < offers[o].ends

\* The offers GetActiveForItems finds at an instant.
Active(at) == {o \in Created : WindowValid(o, at) /\ offers[o].left > 0}

\* The offers the feed lists at an instant.
Listed(at) == {o \in Active(at) : offers[o].item \in sellable}

\* Where the feed sorts an offer: soonest closing first.
Place(o) == <<offers[o].ends, o>>

----------------------------------------------------------------------------
(* Venues *)

\* Mutant: a window only conflicts with one it starts in.
OverlapAtStart(a, b) == b[1] <= a[1] /\ a[1] < b[2]

\* tstzrange(starts, ends) && tstzrange(...): the end is not part of it.
Overlap(a, b) == a[1] < b[2] /\ b[1] < a[2]

ValidWindow(w, at) == w[2] > w[1] /\ w[2] > at

\* The exclusion constraint: offers that are not cancelled and cover the
\* item at some time of the window.
Excluding(item, w) ==
  {o \in Created : /\ offers[o].item = item /\ ~offers[o].cancelled
                   /\ Overlap(w, <<offers[o].starts, offers[o].ends>>)}

----------------------------------------------------------------------------
(* The customer's listing *)

\* Everybody else's step leaves the customer's steady offers, those that
\* were listed ever since the customer began, as far as they still are.
Watched == reader' = [reader EXCEPT !.steady = @ \cap Listed(now)']

Idle(n) ==
  [st |-> "idle", at |-> 0, limit |-> 1, cursor |-> Start, shown |-> <<>>,
   steady |-> {}, lists |-> n]

----------------------------------------------------------------------------
Init ==
  /\ offers = [o \in OfferIds |-> None]
  /\ sellable = Items
  /\ now = 0
  /\ reader = Idle(0)

\* CreateOffer: checked against the clock of an earlier instant, then
\* inserted unless the exclusion constraint has something against it.
CreateOffer(o, item, w, units) ==
  /\ offers[o] = None
  /\ \E at \in 0 .. now : ValidWindow(w, at)
  /\ units >= 1
  /\ Excluding(item, w) = {}
  /\ offers' = [offers EXCEPT ![o] = [item |-> item, starts |-> w[1], ends |-> w[2],
                                       left |-> units, cancelled |-> FALSE]]
  /\ UNCHANGED <<sellable, now, reader>>

\* CancelOffer: the row stays, marked.
CancelOffer(o) ==
  /\ o \in Created /\ ~offers[o].cancelled
  /\ offers' = [offers EXCEPT ![o].cancelled = TRUE]
  /\ UNCHANGED <<sellable, now>>
  /\ Watched

\* Mutant: the remaining count is not looked at.
DecrementUnchecked(o, n) ==
  /\ o \in Created /\ \E at \in 0 .. now : WindowValid(o, at)
  /\ offers' = [offers EXCEPT ![o].left = @ - n]
  /\ UNCHANGED <<sellable, now>>
  /\ Watched

\* A checkout that took its time at an earlier instant uses units up.
DecrementRemaining(o, n) ==
  /\ o \in Created /\ \E at \in 0 .. now : WindowValid(o, at)
  /\ n <= offers[o].left
  /\ offers' = [offers EXCEPT ![o].left = @ - n]
  /\ UNCHANGED <<sellable, now>>
  /\ Watched

\* An item is stopped or sold out, its venue closes; or the reverse.
ToggleItem(item) ==
  /\ sellable' = IF item \in sellable THEN sellable \ {item} ELSE sellable \cup {item}
  /\ UNCHANGED <<offers, now>>
  /\ Watched

Tick ==
  /\ now < EndOfTime
  /\ now' = now + 1
  /\ UNCHANGED <<offers, sellable>>
  /\ Watched

\* The customer begins a listing.
BeginList ==
  /\ reader.st \in {"idle", "done"} /\ reader.lists < MaxLists
  /\ reader' = [Idle(reader.lists + 1) EXCEPT !.st = "asking", !.steady = Listed(now)]
  /\ UNCHANGED <<offers, sellable, now>>

\* A request for the next page: the service takes the time.
AskPage(limit) ==
  /\ reader.st = "asking"
  /\ reader' = [reader EXCEPT !.st = "asked", !.at = now,
                              !.limit = PageLimit(limit, UsualLimit, MostLimit)]
  /\ UNCHANGED <<offers, sellable, now>>

\* ListActiveFeed: one query, for the time the service took.
ListActiveFeed ==
  /\ reader.st = "asked"
  /\ LET page == Page({Place(o) : o \in Listed(reader.at)}, reader.cursor, reader.limit)
     IN  reader' = [reader EXCEPT !.st = IF page.next = Start THEN "done" ELSE "asking",
                                  !.cursor = page.next,
                                  !.shown = @ \o page.items]
  /\ UNCHANGED <<offers, sellable, now>>

Next ==
  \/ \E o \in OfferIds, item \in Items, w \in Windows, units \in 1 .. MaxUnits :
       CreateOffer(o, item, w, units)
  \/ \E o \in OfferIds : CancelOffer(o)
  \/ \E o \in OfferIds, n \in 1 .. MaxUnits : DecrementRemaining(o, n)
  \/ \E item \in Items : ToggleItem(item)
  \/ Tick
  \/ BeginList
  \/ \E limit \in Limits : AskPage(limit)
  \/ ListActiveFeed

Spec == Init /\ [][Next]_vars

----------------------------------------------------------------------------
(* Properties *)

Reader ==
  [st : {"idle", "asking", "asked", "done"}, at : 0 .. EndOfTime, limit : 1 .. MostLimit,
   cursor : {Start} \cup (Nat \X OfferIds), shown : Seq(Nat \X OfferIds),
   steady : SUBSET OfferIds, lists : 0 .. MaxLists]

TypeOK ==
  /\ offers \in [OfferIds -> Offer \cup {None}]
  /\ sellable \subseteq Items
  /\ now \in 0 .. EndOfTime
  /\ reader \in Reader

\* At every instant, past or future, an item has at most one offer a
\* customer could use, so GetActiveForItems' map by item is never ambiguous
\* (rescue_offer_repo.go:61-65), whatever was created and cancelled.
AtMostOneActive ==
  \A at \in 0 .. EndOfTime : \A o, p \in Active(at) :
    offers[o].item = offers[p].item => o = p

\* A customer who followed the cursors to the end was shown every offer that
\* was listed all the while, however the feed changed around it.
EverySteadyShown ==
  reader.st = "done" => \A o \in reader.steady : \E i \in DOMAIN reader.shown :
                          reader.shown[i][2] = o

\* The pages of a listing together are in the feed's order, soonest closing
\* first, and no offer is shown twice.
SoonestFirstNoneTwice ==
  \A i, j \in DOMAIN reader.shown :
    i < j => \/ reader.shown[i][1] < reader.shown[j][1]
             \/ /\ reader.shown[i][1] = reader.shown[j][1]
                /\ reader.shown[i][2] < reader.shown[j][2]

----------------------------------------------------------------------------
(* The inductive invariant behind them *)

\* What the exclusion constraint leaves: two offers of an item that are not
\* cancelled have no instant in common.
WindowsApart ==
  \A o, p \in Created :
    /\ o # p /\ offers[o].item = offers[p].item
    /\ ~offers[o].cancelled /\ ~offers[p].cancelled
    => ~Overlap(<<offers[o].starts, offers[o].ends>>, <<offers[p].starts, offers[p].ends>>)

\* A steady offer was listed when the service took the time of a request that
\* is under way, and it still is.
SteadyListed ==
  /\ reader.steady \subseteq Listed(now)
  /\ reader.st = "asked" =>
       reader.at <= now /\ \A o \in reader.steady : offers[o].starts <= reader.at

\* The cursor is the last place shown.
CursorAtLast ==
  reader.st \in {"asking", "asked"} =>
    IF reader.cursor = Start THEN reader.shown = <<>>
    ELSE reader.shown # <<>> /\ reader.cursor = reader.shown[Len(reader.shown)]

\* Of the steady offers, the customer was shown those up to the cursor.
ShownSoFar ==
  \A o \in reader.steady :
    reader.st = "done" \/ ~Beyond(reader.cursor, Place(o)) =>
      \E i \in DOMAIN reader.shown : reader.shown[i] = Place(o)

IInv ==
  /\ TypeOK
  /\ IsFiniteSet(Created)
  /\ WindowsApart
  /\ SteadyListed
  /\ Ascending(reader.shown)
  /\ CursorAtLast
  /\ ShownSoFar

=============================================================================

-------------------------------- MODULE MenuCache --------------------------------
(***************************************************************************)
(* Conditional requests for a venue's menu: GetMenu of                     *)
(* internal/usecase/catalog/service.go answers 304 when the client's ETag  *)
(* names the current venues.menu_version.  The partner's edits commit      *)
(* statement by statement and bump the version with a statement of their   *)
(* own; a checkout that changes stock bumps it in its transaction.         *)
(*                                                                         *)
(* One venue.  What the menu says is abstracted to how often it changed;   *)
(* the rescue offers shown with it never touch the version, so a copy      *)
(* promises nothing of them and they are left out.                         *)
(*                                                                         *)
(* Names begin with Menu where VenueHours has one of the same kind:        *)
(* CatalogProofs extends both.                                             *)
(***************************************************************************)
EXTENDS Integers

CONSTANTS
    Client, Editor,  \* browsers, and partner requests
    NoCopy,          \* a client without a cached menu
    MaxChanges       \* bound on the changes of a behaviour

ASSUME BoundsAssumption == MaxChanges \in Nat

VARIABLES
    menu,              \* how often the rows of the menu changed
    version,           \* venues.menu_version
    editing,           \* partner requests that have changed rows and not bumped yet
    step, tag, seen,   \* a GetMenu in progress: the version and the menu it read
    copy,              \* what a client has cached
    missed             \* requests that were cut off, the version not bumped since

menuVars == <<menu, version, editing, step, tag, seen, copy, missed>>

Copy == [etag: Nat, menu: Nat]

ASSUME NoCopyAssumption == NoCopy \notin Copy

-----------------------------------------------------------------------------
(* Writers *)

\* One autocommitted INSERT or UPDATE of Sync, CreateItem, UpdateItem or
\* UpdateAvailability; the first of a request or a further one.
Edit(e) ==
    /\ menu < MaxChanges
    /\ menu' = menu + 1
    /\ editing' = editing \cup {e}
    /\ UNCHANGED <<version, step, tag, seen, copy, missed>>

\* Mutant: the UPDATE of the version is lost.
BumpedNot == version

Bumped == version + 1

bumpMenuVersion(e) ==
    /\ e \in editing
    /\ version' = Bumped
    /\ editing' = editing \ {e}
    /\ missed' = {}
    /\ UNCHANGED <<menu, step, tag, seen, copy>>

\* A later statement of the request fails, or the process dies.
Cut(e) ==
    /\ e \in editing
    /\ editing' = editing \ {e}
    /\ missed' = missed \cup {e}
    /\ UNCHANGED <<menu, version, step, tag, seen, copy>>

\* PlaceOrder takes stock and bumps the version in one transaction.
Checkout ==
    /\ menu < MaxChanges
    /\ menu' = menu + 1
    /\ version' = version + 1
    /\ missed' = {}
    /\ UNCHANGED <<editing, step, tag, seen, copy>>

-----------------------------------------------------------------------------
(* Readers *)

\* The version is read first; a client whose copy carries it gets 304.
GetMenuVersion(c) ==
    /\ step[c] = "idle"
    /\ IF copy[c] # NoCopy /\ copy[c].etag = version
         THEN UNCHANGED <<step, tag>>
         ELSE /\ tag' = [tag EXCEPT ![c] = version]
              /\ step' = [step EXCEPT ![c] = "menu"]
    /\ UNCHANGED <<menu, version, editing, seen, copy, missed>>

\* Categories and items are queried one after the other; the answer is as old as
\* the older of the two.
GetMenu(c) ==
    /\ step[c] = "menu"
    /\ seen' = [seen EXCEPT ![c] = menu]
    /\ step' = [step EXCEPT ![c] = "offers"]
    /\ UNCHANGED <<menu, version, editing, tag, copy, missed>>

\* Mutant: the ETag is built from the version after the menu was read.
ResultTaggedLate(c) == [etag |-> version, menu |-> seen[c]]

Result(c) == [etag |-> tag[c], menu |-> seen[c]]

\* The offers are read and attached, and the client keeps the answer with its ETag.
attachRescueOffers(c) ==
    /\ step[c] = "offers"
    /\ copy' = [copy EXCEPT ![c] = Result(c)]
    /\ step' = [step EXCEPT ![c] = "idle"]
    /\ UNCHANGED <<menu, version, editing, tag, seen, missed>>

-----------------------------------------------------------------------------

MenuInit ==
    /\ menu = 0
    /\ version = 1
    /\ editing = {}
    /\ step = [c \in Client |-> "idle"]
    /\ tag = [c \in Client |-> 1]
    /\ seen = [c \in Client |-> 0]
    /\ copy = [c \in Client |-> NoCopy]
    /\ missed = {}

Read(c) == GetMenuVersion(c) \/ GetMenu(c) \/ attachRescueOffers(c)

MenuNext ==
    \/ \E e \in Editor : Edit(e) \/ bumpMenuVersion(e) \/ Cut(e)
    \/ Checkout
    \/ \E c \in Client : Read(c)

MenuSpec == MenuInit /\ [][MenuNext]_menuVars

\* Partner requests go on to their bump and clients keep asking.
FairMenuSpec ==
    /\ MenuSpec
    /\ \A e \in Editor : WF_menuVars(bumpMenuVersion(e))
    /\ \A c \in Client : WF_menuVars(Read(c))

-----------------------------------------------------------------------------
(* Properties *)

MenuTypeOK ==
    /\ menu \in Nat
    /\ version \in Nat \ {0}
    /\ editing \subseteq Editor
    /\ step \in [Client -> {"idle", "menu", "offers"}]
    /\ tag \in [Client -> Nat]
    /\ seen \in [Client -> Nat]
    /\ copy \in [Client -> Copy \cup {NoCopy}]
    /\ missed \subseteq Editor

\* A copy that would be answered with 304 is the menu as it is, unless a partner
\* request is on its way to the bump or was cut off before it; the next bump of
\* anybody makes up for that one too.
NotModifiedIsFresh ==
    editing \cup missed = {} =>
        \A c \in Client : copy[c] # NoCopy /\ copy[c].etag = version => copy[c].menu = menu

\* Once the menu no longer changes, every client that keeps asking has it, unless
\* the last change was cut off from its bump.
ClientsCatchUp ==
    <>[](missed # {} \/ \A c \in Client : copy[c] # NoCopy /\ copy[c].menu = menu)

-----------------------------------------------------------------------------
(* The inductive invariant behind NotModifiedIsFresh *)

\* What carries the current version is current, or a bump is to come or missing.
Current(v, m) == v = version => m = menu \/ editing \cup missed # {}

FreshInv ==
    /\ MenuTypeOK
    /\ \A c \in Client :
        /\ step[c] # "idle" => tag[c] <= version
        /\ step[c] = "offers" => Current(tag[c], seen[c])
        /\ copy[c] # NoCopy => copy[c].etag <= version /\ Current(copy[c].etag, copy[c].menu)

==================================================================================

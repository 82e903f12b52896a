------------------------------ MODULE VenueHours ------------------------------
(***************************************************************************)
(* When a venue takes orders: its weekly schedule                          *)
(* (internal/domain/catalog/schedule.go, venue.go), the same rule repeated *)
(* in SQL for listings (internal/adapter/postgres/venue_repo.go), and the  *)
(* readers that fetch the venue's row and its schedule with two statements *)
(* while the partner replaces both in one transaction.                     *)
(*                                                                         *)
(* Time is counted in slots; slot 0 is Sunday midnight, and the clock wraps *)
(* after a week.                                                           *)
(***************************************************************************)
EXTENDS Integers, FiniteSetsExt

CONSTANTS
    Slots,      \* slots of a day
    Schedules,  \* what venue_schedules may hold of the venue at first
    Edits,      \* and what the partner may replace it by
    NoTime      \* the nil of NextOpenAfter

Week == 7 * Slots

ScheduleRow == [weekday: 0..6, opens: 0..(Slots - 1), closes: 1..Slots]

\* venue_schedules_order and venue_schedules_one_per_day
Stored == {s \in SUBSET ScheduleRow :
             \A e \in s : e.opens < e.closes /\ \A f \in s : f.weekday = e.weekday => f = e}

ASSUME ScheduleAssumption == Slots \in Nat \ {0} /\ Schedules \cup Edits \subseteq Stored

\* The nil is no instant.
ASSUME NoTimeAssumption == NoTime \notin Nat

VARIABLES
    accepting, schedule,   \* the committed venue
    clock,
    pc, at,                \* a reader: its step and its time.Now()
    gotAccepting, got,     \* the row and the schedule it has read
    verdict,               \* what the reader told the customer
    edited                 \* the venue was changed since the reader began

reader == <<pc, at, gotAccepting, got, verdict>>

vars == <<accepting, schedule, clock, reader, edited>>

-----------------------------------------------------------------------------
(* The schedule as Go sees it: Sunday is 0 there, Monday is 0 in the table *)

Weekday(t) == (t \div Slots) % 7

TimeOfDay(t) == t % Slots

\* Mutant: a raw int cast.
isoWeekdayCast(w) == w

isoWeekday(w) == (w + 6) % 7

goWeekday(iso) == (iso + 1) % 7

Loaded(rows) == {[e EXCEPT !.weekday = goWeekday(e.weekday)] : e \in rows}

Covers(e, t) == e.opens <= TimeOfDay(t) /\ TimeOfDay(t) < e.closes

IsOpenAt(entries, t) == \E e \in entries : e.weekday = Weekday(t) /\ Covers(e, t)

\* Mutant: today's weekday is not tried again a week later.
DaysAheadToSix == 0..6

DaysAhead == 0..7

\* The openings d days ahead; today only those still to come.
Openings(entries, t, d) ==
    {e.opens : e \in {f \in entries : /\ f.weekday = (Weekday(t) + d) % 7
                                      /\ d = 0 => f.opens > TimeOfDay(t)}}

NextOpenAfter(entries, t) ==
    LET days == {d \in DaysAhead : Openings(entries, t, d) # {}}
    IN  IF days = {} THEN NoTime
        ELSE LET d == Min(days)
             IN  t - TimeOfDay(t) + d * Slots + Min(Openings(entries, t, d))

CanOrder(accepts, entries, t) == accepts /\ IsOpenAt(entries, t)

\* The WHERE clause of List with the onlyOpen filter.
OnlyOpen(accepts, rows, t) ==
    accepts /\ \E e \in rows : e.weekday = isoWeekday(Weekday(t)) /\ Covers(e, t)

-----------------------------------------------------------------------------

Allowed == CanOrder(accepting, Loaded(schedule), clock)

Tick ==
    /\ clock' = (clock + 1) % Week
    /\ UNCHANGED <<accepting, schedule, reader, edited>>

\* The profile and the whole schedule, in one transaction.
UpdateVenue(accepts, rows) ==
    /\ accepting' = accepts
    /\ schedule' = rows
    /\ edited' = TRUE
    /\ UNCHANGED <<clock, reader>>

Start ==
    /\ pc = "idle"
    /\ at' = clock
    /\ edited' = FALSE
    /\ UNCHANGED <<accepting, schedule, clock, got, verdict>>

\* ListVenues with the filter: the venue is on the page ...
List ==
    /\ Start
    /\ OnlyOpen(accepting, schedule, clock)
    /\ pc' = "listed"
    /\ UNCHANGED gotAccepting

\* ... and is shown with the schedule a second statement fetched.
ListSchedules ==
    /\ pc = "listed"
    /\ got' = Loaded(schedule)
    /\ verdict' = IsOpenAt(got', at)
    /\ pc' = "shown"
    /\ UNCHANGED <<accepting, schedule, clock, at, gotAccepting, edited>>

\* PlaceOrder: the venue's row, its schedule, then the judgement.
GetByID ==
    /\ Start
    /\ gotAccepting' = accepting
    /\ pc' = "row"

attachSchedules ==
    /\ pc = "row"
    /\ got' = Loaded(schedule)
    /\ pc' = "venue"
    /\ UNCHANGED <<accepting, schedule, clock, at, gotAccepting, verdict, edited>>

\* Mutant: the pause switch is not looked at.
JudgedBySchedule(t) == IsOpenAt(got, t)

Judged(t) == CanOrder(gotAccepting, got, t)

EnsureCanOrder ==
    /\ pc = "venue"
    /\ at' = clock
    /\ verdict' = Judged(clock)
    /\ pc' = "judged"
    /\ UNCHANGED <<accepting, schedule, clock, gotAccepting, got, edited>>

\* The request's own variables end with it.
Answered ==
    /\ pc \in {"shown", "judged"}
    /\ pc' = "idle" /\ at' = 0
    /\ gotAccepting' = FALSE /\ got' = {} /\ verdict' = FALSE
    /\ UNCHANGED <<accepting, schedule, clock, edited>>

Init ==
    /\ accepting = TRUE
    /\ schedule \in Schedules
    /\ clock = 0
    /\ pc = "idle" /\ at = 0
    /\ gotAccepting = FALSE /\ got = {} /\ verdict = FALSE
    /\ edited = FALSE

Next ==
    \/ Tick
    \/ \E accepts \in BOOLEAN, rows \in Edits : UpdateVenue(accepts, rows)
    \/ List \/ ListSchedules
    \/ GetByID \/ attachSchedules \/ EnsureCanOrder
    \/ Answered

Spec == Init /\ [][Next]_vars

-----------------------------------------------------------------------------
(* Properties *)

\* The venue is one the partner sent, what a reader loaded is a Go schedule.
TypeOK ==
    /\ accepting \in BOOLEAN /\ schedule \in Schedules \cup Edits
    /\ clock \in 0..(Week - 1) /\ at \in 0..(Week - 1)
    /\ pc \in {"idle", "listed", "shown", "row", "venue", "judged"}
    /\ gotAccepting \in BOOLEAN /\ got \subseteq ScheduleRow
    /\ verdict \in BOOLEAN /\ edited \in BOOLEAN

\* The rule written twice is one rule: the SQL filter lists a venue exactly when
\* checkout would let it be ordered from.
FilterMirrorsCheckout == OnlyOpen(accepting, schedule, clock) <=> Allowed

\* A closed venue is told to open at the first instant it is open again, and
\* only a venue without a schedule never opens.
ClosedUntilNext ==
    LET entries == Loaded(schedule)
        next == NextOpenAfter(entries, clock)
    IN  ~IsOpenAt(entries, clock) =>
            IF schedule = {} THEN next = NoTime
            ELSE /\ next # NoTime
                 /\ IsOpenAt(entries, next)
                 /\ \A t \in clock..(next - 1) : ~IsOpenAt(entries, t)

\* Without an edit in between, a reader's answer is the venue's at the instant
\* it judges by: its two statements and the SQL filter agree.
QuietReadsAreRight ==
    ~edited =>
        /\ pc = "shown" => verdict
        /\ pc = "judged" => verdict = CanOrder(accepting, Loaded(schedule), at)

-----------------------------------------------------------------------------
(* The inductive invariant behind QuietReadsAreRight: while nothing was edited *)
(* a reader holds parts of the committed venue.                                *)

IInv ==
    /\ TypeOK
    /\ ~edited =>
        /\ pc = "listed" => OnlyOpen(accepting, schedule, at)
        /\ pc = "shown" => verdict
        /\ pc \in {"row", "venue"} => gotAccepting = accepting
        /\ pc = "venue" => got = Loaded(schedule)
        /\ pc = "judged" => verdict = CanOrder(accepting, Loaded(schedule), at)

===============================================================================

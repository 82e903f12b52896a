----------------------------- MODULE CatalogProofs -----------------------------
(***************************************************************************)
(* Proofs about the catalog: VenueHours, for any day length and any set of *)
(* schedules the table accepts, and MenuCache, for any number of clients,  *)
(* partner requests, changes and requests cut off.                         *)
(***************************************************************************)
EXTENDS VenueHours, MenuCache, WellFoundedInduction, TLAPS

\* The two weekday conversions are inverse: the row found by the converted
\* weekday is the entry with that weekday.
LEMMA WeekdaysMatch ==
    \A iso, w \in 0..6 : goWeekday(iso) \in 0..6 /\ (goWeekday(iso) = w <=> iso = isoWeekday(w))
BY DEF goWeekday, isoWeekday

LEMMA WeekdayInRange == \A t \in Nat : Weekday(t) \in 0..6
BY ScheduleAssumption DEF Weekday

\* The SQL filter and the Go rule agree on any stored schedule at any instant.
LEMMA FilterMatches ==
    ASSUME NEW accepts, NEW rows \in SUBSET ScheduleRow, NEW t \in Nat
    PROVE  OnlyOpen(accepts, rows, t) <=> CanOrder(accepts, Loaded(rows), t)
<1> DEFINE go(e) == [e EXCEPT !.weekday = goWeekday(e.weekday)]
<1>1. \A e \in rows : /\ go(e).weekday = goWeekday(e.weekday)
                      /\ go(e).opens = e.opens /\ go(e).closes = e.closes
                      /\ e.weekday \in 0..6
    BY DEF ScheduleRow
<1>2. \A e \in rows : Covers(go(e), t) <=> Covers(e, t)
    BY <1>1 DEF Covers
<1>3. Weekday(t) \in 0..6
    BY WeekdayInRange
<1>4. \A e \in rows : go(e).weekday = Weekday(t) <=> e.weekday = isoWeekday(Weekday(t))
    BY <1>1, <1>3, WeekdaysMatch
<1>5. Loaded(rows) = {go(e) : e \in rows}
    BY DEF Loaded
<1> HIDE DEF go
<1> QED
    BY <1>2, <1>4, <1>5 DEF OnlyOpen, CanOrder, IsOpenAt

LEMMA LoadedType ==
    ASSUME NEW rows \in SUBSET ScheduleRow PROVE Loaded(rows) \subseteq ScheduleRow
BY WeekdaysMatch DEF Loaded, ScheduleRow

LEMMA StoredType == \A rows \in Schedules \cup Edits : rows \in SUBSET ScheduleRow
BY ScheduleAssumption DEF Stored

-----------------------------------------------------------------------------

LEMMA HoursInit == Init => IInv
<1> SUFFICES ASSUME Init PROVE IInv
    OBVIOUS
<1>1. 0 \in 0..(Week - 1)
    BY ScheduleAssumption DEF Week
<1> QED
    BY <1>1 DEF Init, IInv, TypeOK

\* Every step of the clock, the partner and the reader keeps the invariant.
LEMMA HoursStep == IInv /\ [Next]_vars => IInv'
<1> SUFFICES ASSUME IInv, [Next]_vars PROVE IInv'
    OBVIOUS
<1>0. TypeOK
    BY DEF IInv
<1>t. clock \in Nat /\ at \in Nat /\ Week \in Nat \ {0} /\ schedule \in SUBSET ScheduleRow
    BY <1>0, StoredType, ScheduleAssumption DEF TypeOK, Week
<1>1. CASE Tick
    <2>1. clock' \in 0..(Week - 1)
        BY <1>1, <1>t DEF Tick
    <2> QED
        BY <1>1, <2>1 DEF Tick, reader, IInv, TypeOK
<1>2. ASSUME NEW accepts \in BOOLEAN, NEW rows \in Edits, UpdateVenue(accepts, rows)
      PROVE  IInv'
    BY <1>2 DEF UpdateVenue, reader, IInv, TypeOK
<1>3. CASE List
    BY <1>3 DEF List, Start, IInv, TypeOK
<1>4. CASE ListSchedules
    <2>1. got' \subseteq ScheduleRow /\ verdict' \in BOOLEAN
        BY <1>4, <1>t, LoadedType DEF ListSchedules, IsOpenAt
    <2>2. ~edited => verdict'
        <3>1. ~edited => CanOrder(accepting, Loaded(schedule), at)
            BY <1>4, <1>t, FilterMatches DEF ListSchedules, IInv
        <3> QED
            BY <1>4, <3>1 DEF ListSchedules, CanOrder
    <2> QED
        BY <1>4, <2>1, <2>2 DEF ListSchedules, IInv, TypeOK
<1>5. CASE GetByID
    BY <1>5 DEF GetByID, Start, IInv, TypeOK
<1>6. CASE attachSchedules
    <2>1. got' \subseteq ScheduleRow
        BY <1>6, <1>t, LoadedType DEF attachSchedules
    <2> QED
        BY <1>6, <2>1 DEF attachSchedules, IInv, TypeOK
<1>7. CASE EnsureCanOrder
    <2>1. verdict' \in BOOLEAN
        BY <1>0, <1>7 DEF EnsureCanOrder, Judged, CanOrder, IsOpenAt, TypeOK
    <2>2. ~edited => verdict' = CanOrder(accepting, Loaded(schedule), clock)
        BY <1>7 DEF EnsureCanOrder, Judged, IInv
    <2> QED
        BY <1>7, <2>1, <2>2 DEF EnsureCanOrder, IInv, TypeOK
<1>8. CASE Answered
    <2>1. 0 \in 0..(Week - 1)
        BY <1>t
    <2> QED
        BY <1>8, <2>1 DEF Answered, IInv, TypeOK
<1>9. CASE UNCHANGED vars
    BY <1>9 DEF vars, reader, IInv, TypeOK
<1> QED
    BY <1>1, <1>2, <1>3, <1>4, <1>5, <1>6, <1>7, <1>8, <1>9 DEF Next

\* A venue is listed as open exactly when checkout would take an order from it,
\* whatever its schedule and the instant.
THEOREM FilterSound == Spec => []FilterMirrorsCheckout
<1>1. IInv => FilterMirrorsCheckout
    <2> SUFFICES ASSUME IInv PROVE FilterMirrorsCheckout
        OBVIOUS
    <2>1. schedule \in SUBSET ScheduleRow /\ clock \in Nat
        BY StoredType, ScheduleAssumption DEF IInv, TypeOK, Week
    <2> QED
        BY <2>1, FilterMatches DEF FilterMirrorsCheckout, Allowed
<1> QED
    BY <1>1, HoursInit, HoursStep, PTL DEF Spec

\* A reader that no edit interrupts answers as the committed venue would.
THEOREM QuietReadsSound == Spec => []QuietReadsAreRight
<1>1. IInv => QuietReadsAreRight
    BY DEF IInv, QuietReadsAreRight
<1> QED
    BY <1>1, HoursInit, HoursStep, PTL DEF Spec

-----------------------------------------------------------------------------
(* The next opening *)

\* A set of naturals has a least member, and Min is it.
LEMMA MinIsLeast ==
    ASSUME NEW S, S \subseteq Nat, S # {}
    PROVE  Min(S) \in S /\ \A x \in S : Min(S) <= x
<1> DEFINE Less == OpToRel(<, Nat)
<1>1. \A m, n \in Nat : m < n => <<m, n>> \in Less
    BY DEF OpToRel
<1>2. IsWellFoundedOn(Less, Nat)
    BY NatLessThanWellFounded
<1> HIDE DEF Less
<1>3. PICK x \in S : \A y \in S : ~(<<y, x>> \in Less)
    BY <1>2, WFMin
<1>4. ASSUME NEW y \in S PROVE x <= y
    <2>1. x \in Nat /\ y \in Nat /\ ~(y < x)
        BY <1>1, <1>3
    <2> QED
        BY <2>1
<1> QED
    BY <1>4 DEF Min

\* An instant is a day and a time of day, in one way.
LEMMA DayAndTime ==
    ASSUME NEW t \in Nat
    PROVE  /\ t \div Slots \in Nat
           /\ TimeOfDay(t) \in 0..(Slots - 1)
           /\ t = (t \div Slots) * Slots + TimeOfDay(t)
BY ScheduleAssumption DEF TimeOfDay

LEMMA DayOf ==
    ASSUME NEW q \in Nat, NEW r \in 0..(Slots - 1)
    PROVE  (q * Slots + r) \div Slots = q /\ TimeOfDay(q * Slots + r) = r
BY ScheduleAssumption DEF TimeOfDay

LEMMA LaterDay ==
    ASSUME NEW p \in Nat, NEW q \in Nat, p < q
    PROVE  (p + 1) * Slots <= q * Slots
BY ScheduleAssumption


\* What NextOpenAfter says of a schedule with entries: the opening it names is one of
\* the first day ahead that has any still to come, and the first of that day.
LEMMA NextOpening ==
    ASSUME NEW entries \in SUBSET ScheduleRow, entries # {}, NEW t \in Nat
    PROVE  \E d \in DaysAhead : \E e \in entries :
              /\ NextOpenAfter(entries, t) = (t \div Slots + d) * Slots + e.opens
              /\ e.weekday = (Weekday(t) + d) % 7
              /\ d = 0 => e.opens > TimeOfDay(t)
              /\ \A c \in DaysAhead : Openings(entries, t, c) # {} => d <= c
              /\ \A o \in Openings(entries, t, d) : e.opens <= o
<1> DEFINE days == {d \in DaysAhead : Openings(entries, t, d) # {}}
           d == Min(days)
           o == Min(Openings(entries, t, d))
<1>1. days # {}
    <2>1. PICK e \in entries : TRUE
        OBVIOUS
    <2> DEFINE c == ((e.weekday + 13 - Weekday(t)) % 7) + 1
    <2>2. e.weekday \in 0..6 /\ Weekday(t) \in 0..6
        BY WeekdayInRange DEF ScheduleRow
    <2>3. c \in DaysAhead /\ c # 0 /\ e.weekday = (Weekday(t) + c) % 7
        BY <2>2 DEF DaysAhead
    <2> HIDE DEF c
    <2>4. e.opens \in Openings(entries, t, c)
        BY <2>3 DEF Openings
    <2> QED
        BY <2>3, <2>4
<1>2. d \in days /\ \A c \in days : d <= c
    <2>1. days \subseteq Nat
        BY DEF DaysAhead
    <2> HIDE DEF days
    <2> QED
        BY <1>1, <2>1, MinIsLeast
<1>3. o \in Openings(entries, t, d) /\ \A p \in Openings(entries, t, d) : o <= p
    <2>1. Openings(entries, t, d) \subseteq Nat
        <3>1. \A e \in entries : e.opens \in Nat
            BY ScheduleAssumption DEF ScheduleRow
        <3> QED
            BY <3>1 DEF Openings
    <2>2. Openings(entries, t, d) # {}
        BY <1>2
    <2> HIDE DEF d
    <2> QED
        BY <2>1, <2>2, MinIsLeast
<1>4. NextOpenAfter(entries, t) = t - TimeOfDay(t) + d * Slots + o
    BY <1>1 DEF NextOpenAfter
<1>5. PICK e \in entries : /\ o = e.opens
                           /\ e.weekday = (Weekday(t) + d) % 7
                           /\ d = 0 => e.opens > TimeOfDay(t)
    <2> HIDE DEF o, d
    <2> QED
        BY <1>3 DEF Openings
<1>6. d \in DaysAhead /\ d \in Nat /\ e.opens \in Nat
    BY <1>2, ScheduleAssumption DEF DaysAhead, ScheduleRow
<1>7. t - TimeOfDay(t) = (t \div Slots) * Slots /\ t \div Slots \in Nat
    <2> DEFINE p == t \div Slots
    <2>1. p \in Nat /\ TimeOfDay(t) \in Nat /\ t = p * Slots + TimeOfDay(t)
        BY DayAndTime, ScheduleAssumption
    <2> HIDE DEF p
    <2>2. p * Slots \in Nat
        BY <2>1, ScheduleAssumption
    <2>3. t - TimeOfDay(t) = p * Slots
        BY <2>1, <2>2
    <2> QED
        BY <2>1, <2>3 DEF p
<1> HIDE DEF d, o
<1>8. NextOpenAfter(entries, t) = (t \div Slots + d) * Slots + e.opens
    BY <1>4, <1>5, <1>6, <1>7, ScheduleAssumption
<1> QED
    BY <1>2, <1>3, <1>5, <1>6, <1>8

\* A venue open at an instant of a later slot, and not now, opens in between: on that
\* day, which is so many days ahead.
LEMMA OpensBefore ==
    ASSUME NEW entries \in SUBSET ScheduleRow, NEW t \in Nat, ~IsOpenAt(entries, t),
           NEW u \in Nat, t <= u, NEW e \in entries, e.weekday = Weekday(u), Covers(e, u)
    PROVE  /\ u \div Slots - t \div Slots \in Nat
           /\ e.opens \in Openings(entries, t, u \div Slots - t \div Slots)
<1> DEFINE p == t \div Slots
           q == u \div Slots
<1>1. p \in Nat /\ TimeOfDay(t) \in 0..(Slots - 1) /\ t = p * Slots + TimeOfDay(t)
    BY DayAndTime
<1>2. q \in Nat /\ TimeOfDay(u) \in 0..(Slots - 1) /\ u = q * Slots + TimeOfDay(u)
    BY DayAndTime
<1> HIDE DEF p, q
<1>3. p <= q
    <2> SUFFICES ASSUME q < p PROVE FALSE
        BY <1>1, <1>2
    <2>1. (q + 1) * Slots <= p * Slots /\ (q + 1) * Slots = q * Slots + Slots
        BY <1>1, <1>2, LaterDay, ScheduleAssumption
    <2>2. p * Slots \in Nat /\ q * Slots \in Nat /\ Slots \in Nat
        BY <1>1, <1>2, ScheduleAssumption
    <2> QED
        BY <1>1, <1>2, <2>1, <2>2
<1>4. e.weekday = (Weekday(t) + (q - p)) % 7
    BY <1>1, <1>2, <1>3 DEF Weekday, p, q
<1>5. ASSUME q = p PROVE e.opens > TimeOfDay(t)
    <2>1. TimeOfDay(t) <= TimeOfDay(u)
        <3>1. p * Slots \in Nat
            BY <1>1, ScheduleAssumption
        <3> QED
            BY <1>1, <1>2, <1>5, <3>1, ScheduleAssumption
    <2>2. e.weekday = Weekday(t)
        BY <1>5 DEF Weekday, p, q
    <2>3. ~Covers(e, t)
        BY <2>2 DEF IsOpenAt
    <2>4. TimeOfDay(u) < e.closes /\ e.opens \in Int /\ e.closes \in Int
        BY ScheduleAssumption DEF Covers, ScheduleRow
    <2> QED
        BY <1>1, <1>2, <2>1, <2>3, <2>4, ScheduleAssumption DEF Covers
<1>6. q - p = 0 => q = p
    BY <1>1, <1>2
<1> QED
    BY <1>1, <1>2, <1>3, <1>4, <1>5, <1>6 DEF Openings, p, q


\* No opening is passed over: until the one NextOpenAfter names a closed venue stays
\* closed, and at it the venue is open.
LEMMA NextIsFirst ==
    ASSUME NEW entries \in SUBSET ScheduleRow, entries # {},
           \A e \in entries : e.opens < e.closes,
           NEW t \in Nat, ~IsOpenAt(entries, t)
    PROVE  /\ NextOpenAfter(entries, t) \in Nat
           /\ IsOpenAt(entries, NextOpenAfter(entries, t))
           /\ \A u \in t..(NextOpenAfter(entries, t) - 1) : ~IsOpenAt(entries, u)
<1> DEFINE p == t \div Slots
           next == NextOpenAfter(entries, t)
<1>1. PICK d \in DaysAhead, e \in entries :
              /\ next = (p + d) * Slots + e.opens
              /\ e.weekday = (Weekday(t) + d) % 7
              /\ d = 0 => e.opens > TimeOfDay(t)
              /\ \A c \in DaysAhead : Openings(entries, t, c) # {} => d <= c
              /\ \A o \in Openings(entries, t, d) : e.opens <= o
    BY NextOpening
<1>2. d \in Nat /\ d <= 7 /\ p \in Nat /\ e.opens \in 0..(Slots - 1)
      /\ Slots \in Nat \ {0}
    <2>1. d \in Nat /\ d <= 7
        BY DEF DaysAhead
    <2>2. p \in Nat
        BY DayAndTime
    <2>3. e.opens \in 0..(Slots - 1)
        BY DEF ScheduleRow
    <2> QED
        BY <2>1, <2>2, <2>3, ScheduleAssumption
<1> HIDE DEF next
<1>3. next \in Nat /\ next \div Slots = p + d /\ TimeOfDay(next) = e.opens
    <2> HIDE DEF p
    <2>1. p + d \in Nat
        BY <1>2
    <2>2. (p + d) * Slots \in Nat
        BY <1>2, <2>1
    <2>3. (p + d) * Slots + e.opens \in Nat
        BY <1>2, <2>2
    <2> QED
        BY <1>1, <1>2, <2>1, <2>3, DayOf
<1>4. IsOpenAt(entries, next)
    <2>1. Weekday(next) = e.weekday
        BY <1>1, <1>2, <1>3 DEF Weekday
    <2>2. Covers(e, next)
        BY <1>2, <1>3 DEF Covers, ScheduleRow
    <2> QED
        BY <2>1, <2>2 DEF IsOpenAt
<1>5. ASSUME NEW u \in t..(next - 1), IsOpenAt(entries, u) PROVE FALSE
    <2>1. u \in Nat /\ t <= u /\ u < next
        BY <1>3
    <2>2. PICK f \in entries : f.weekday = Weekday(u) /\ Covers(f, u)
        BY <1>5 DEF IsOpenAt
    <2> DEFINE q == u \div Slots
    <2>3. q - p \in Nat /\ f.opens \in Openings(entries, t, q - p)
        BY <2>1, <2>2, OpensBefore
    <2>4. q \in Nat /\ TimeOfDay(u) \in 0..(Slots - 1) /\ u = q * Slots + TimeOfDay(u)
        BY <2>1, DayAndTime
    <2>5. f.opens <= TimeOfDay(u) /\ f.opens \in Nat
        BY <2>2, <1>2 DEF Covers, ScheduleRow
    <2> HIDE DEF p, q
    <2>6. q <= p + d
        <3> SUFFICES ASSUME p + d < q PROVE FALSE
            BY <1>2, <2>4
        <3>1. (p + d + 1) * Slots <= q * Slots
            BY <1>2, <2>4, LaterDay
        <3>2. (p + d + 1) * Slots = (p + d) * Slots + Slots
            BY <1>2
        <3>3. (p + d) * Slots \in Nat /\ q * Slots \in Nat
            BY <1>2, <2>4
        <3>4. next < q * Slots
            <4> DEFINE m == (p + d) * Slots
                       n == q * Slots
            <4>1. m + Slots <= n /\ m \in Nat /\ n \in Nat /\ next = m + e.opens
                BY <1>1, <3>1, <3>2, <3>3
            <4> HIDE DEF m, n
            <4>2. next < n
                BY <1>2, <4>1
            <4> QED
                BY <4>2 DEF n
        <3> QED
            BY <1>3, <2>1, <2>4, <3>3, <3>4
    <2>7. q = p + d
        <3>1. q - p \in DaysAhead
            BY <1>2, <2>3, <2>4, <2>6 DEF DaysAhead
        <3>2. d <= q - p
            BY <1>1, <2>3, <3>1
        <3> QED
            BY <1>2, <2>4, <2>6, <3>2
    <2>8. e.opens <= f.opens
        <3>1. q - p = d
            BY <1>2, <2>4, <2>7
        <3> QED
            BY <1>1, <2>3, <3>1
    <2>9. next = q * Slots + e.opens /\ q * Slots \in Nat
        BY <1>1, <1>2, <2>4, <2>7
    <2> QED
        BY <1>2, <1>3, <2>1, <2>4, <2>5, <2>8, <2>9
<1> QED
    BY <1>3, <1>4, <1>5 DEF next

\* A closed venue with a schedule is told the first instant it is open again, from any
\* schedule the table accepts; only one without a schedule is told nothing.
THEOREM NextOpeningSound == Spec => []ClosedUntilNext
<1>1. IInv => ClosedUntilNext
    <2> SUFFICES ASSUME IInv PROVE ClosedUntilNext
        OBVIOUS
    <2> DEFINE entries == Loaded(schedule)
    <2>1. schedule \in Stored /\ schedule \in SUBSET ScheduleRow /\ clock \in Nat
        BY StoredType, ScheduleAssumption DEF IInv, TypeOK, Week
    <2>2. entries \in SUBSET ScheduleRow /\ (schedule = {} <=> entries = {})
        BY <2>1, LoadedType DEF Loaded
    <2>3. \A e \in entries : e.opens < e.closes
        <3>1. \A e \in schedule : e.opens < e.closes
            BY <2>1 DEF Stored
        <3>2. \A e \in schedule : /\ [e EXCEPT !.weekday = goWeekday(e.weekday)].opens = e.opens
                                  /\ [e EXCEPT !.weekday = goWeekday(e.weekday)].closes = e.closes
            BY <2>1 DEF ScheduleRow
        <3> QED
            BY <3>1, <3>2 DEF Loaded
    <2>4. schedule = {} => NextOpenAfter(entries, clock) = NoTime
        BY <2>2 DEF NextOpenAfter, Openings
    <2> HIDE DEF entries
    <2>5. ASSUME schedule # {}, ~IsOpenAt(entries, clock)
          PROVE  /\ NextOpenAfter(entries, clock) # NoTime
                 /\ IsOpenAt(entries, NextOpenAfter(entries, clock))
                 /\ \A t \in clock..(NextOpenAfter(entries, clock) - 1) : ~IsOpenAt(entries, t)
        BY <2>1, <2>2, <2>3, <2>5, NextIsFirst, NoTimeAssumption
    <2> QED
        BY <2>4, <2>5 DEF ClosedUntilNext, entries
<1> QED
    BY <1>1, HoursInit, HoursStep, PTL DEF Spec


-----------------------------------------------------------------------------
(* The ETag of the menu *)

\* A step of any actor keeps the types.
LEMMA MenuTypeStep == MenuTypeOK /\ [MenuNext]_menuVars => MenuTypeOK'
<1> SUFFICES ASSUME MenuTypeOK, [MenuNext]_menuVars PROVE MenuTypeOK'
    OBVIOUS
<1> USE DEF MenuTypeOK, Copy
<1>1. ASSUME NEW e \in Editor, Edit(e) PROVE MenuTypeOK'
    BY <1>1 DEF Edit
<1>2. ASSUME NEW e \in Editor, bumpMenuVersion(e) PROVE MenuTypeOK'
    BY <1>2 DEF bumpMenuVersion, Bumped
<1>3. ASSUME NEW e \in Editor, Cut(e) PROVE MenuTypeOK'
    BY <1>3 DEF Cut
<1>4. CASE Checkout
    BY <1>4 DEF Checkout
<1>6. ASSUME NEW c \in Client, GetMenuVersion(c) PROVE MenuTypeOK'
    BY <1>6 DEF GetMenuVersion
<1>7. ASSUME NEW c \in Client, GetMenu(c) PROVE MenuTypeOK'
    BY <1>7 DEF GetMenu
<1>8. ASSUME NEW c \in Client, attachRescueOffers(c) PROVE MenuTypeOK'
    <2>1. Result(c) \in Copy
        BY DEF Result
    <2> QED
        BY <1>8, <2>1 DEF attachRescueOffers
<1>9. CASE UNCHANGED menuVars
    BY <1>9 DEF menuVars
<1> QED
    BY <1>1, <1>2, <1>3, <1>4, <1>6, <1>7, <1>8, <1>9 DEF MenuNext, Read

\* Every reachable state has its types: the counters, the sets of requests and
\* the cached copies of GetMenu and its writers.
THEOREM MenuTypes == MenuSpec => []MenuTypeOK
<1>1. MenuInit => MenuTypeOK
    BY DEF MenuInit, MenuTypeOK, Copy
<1> QED
    BY <1>1, MenuTypeStep, PTL DEF MenuSpec

-----------------------------------------------------------------------------

\* IInv is inductive: a change of the menu leaves its editor among those still to
\* bump, a cut leaves the version behind, and a bump retires every tag read so far.
LEMMA FreshStep == ASSUME FreshInv, [MenuNext]_menuVars PROVE FreshInv'
<1> DEFINE CI(c) == /\ step[c] # "idle" => tag[c] <= version
                    /\ step[c] = "offers" => Current(tag[c], seen[c])
                    /\ copy[c] # NoCopy => /\ copy[c].etag <= version
                                           /\ Current(copy[c].etag, copy[c].menu)
<1>0. MenuTypeOK /\ \A c \in Client : CI(c)
    BY DEF FreshInv
<1>t. MenuTypeOK'
    BY <1>0, MenuTypeStep
<1> SUFFICES \A c \in Client : CI(c)'
    BY <1>t DEF FreshInv
<1> USE DEF Current
<1>1. ASSUME NEW e \in Editor, Edit(e) PROVE \A c \in Client : CI(c)'
    BY <1>0, <1>1 DEF Edit, MenuTypeOK
<1>2. ASSUME NEW e \in Editor, bumpMenuVersion(e) PROVE \A c \in Client : CI(c)'
    BY <1>0, <1>2 DEF bumpMenuVersion, Bumped, MenuTypeOK, Copy
<1>3. ASSUME NEW e \in Editor, Cut(e) PROVE \A c \in Client : CI(c)'
    BY <1>0, <1>3 DEF Cut, MenuTypeOK
<1>4. CASE Checkout
    BY <1>0, <1>4 DEF Checkout, MenuTypeOK, Copy
<1>6. ASSUME NEW c \in Client, GetMenuVersion(c) PROVE \A k \in Client : CI(k)'
    BY <1>0, <1>6 DEF GetMenuVersion, MenuTypeOK
<1>7. ASSUME NEW c \in Client, GetMenu(c) PROVE \A k \in Client : CI(k)'
    BY <1>0, <1>7 DEF GetMenu, MenuTypeOK
<1>8. ASSUME NEW c \in Client, attachRescueOffers(c) PROVE \A k \in Client : CI(k)'
    BY <1>0, <1>8 DEF attachRescueOffers, Result, MenuTypeOK
<1>9. CASE UNCHANGED menuVars
    BY <1>0, <1>9 DEF menuVars
<1> QED
    BY <1>1, <1>2, <1>3, <1>4, <1>6, <1>7, <1>8, <1>9 DEF MenuNext, Read

\* However requests, checkouts and cut-offs interleave, GetMenu never answers 304 to
\* a client whose copy is not the menu as it is, once every change has its bump.
THEOREM NotModifiedSafe == MenuSpec => []NotModifiedIsFresh
<1>1. MenuInit => FreshInv
    BY DEF MenuInit, FreshInv, MenuTypeOK, Copy
<1>2. FreshInv /\ [MenuNext]_menuVars => FreshInv'
    BY FreshStep
<1>3. FreshInv => NotModifiedIsFresh
    BY DEF FreshInv, NotModifiedIsFresh, Current
<1> QED
    BY <1>1, <1>2, <1>3, PTL DEF MenuSpec

================================================================================

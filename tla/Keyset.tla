------------------------------- MODULE Keyset -------------------------------
(***************************************************************************)
(* Keyset pagination as VenueRepository.List and ListActiveFeed do it: a   *)
(* row is placed by <<order column, id>>, a page is the first rows beyond  *)
(* the cursor, one row more than asked is fetched to learn whether there   *)
(* is a next page, and the cursor handed back is the place of the last row *)
(* shown.  The order columns (venues.name, rescue_offers.ends_at) are not  *)
(* unique; the id breaks ties.  A cursor is opaque to clients: they only   *)
(* send back one they were given, so its encoding loses nothing.           *)
(***************************************************************************)
EXTENDS Integers, Sequences, SequencesExt, FiniteSetsExt

\* No cursor: the first page is asked for; or there is no next page.
Start == <<>>

\* ORDER BY column, id.
Precedes(a, b) == a[1] < b[1] \/ (a[1] = b[1] /\ a[2] < b[2])

\* Mutant: the row of the cursor itself comes again.
BeyondOrAt(cursor, place) ==
  cursor = Start \/ cursor = place \/ Precedes(cursor, place)

\* The condition (column, id) > (cursor), when there is a cursor.
Beyond(cursor, place) == cursor = Start \/ Precedes(cursor, place)

\* A limit outside 1..most falls back to the usual one.
PageLimit(limit, usual, most) == IF limit \in 1 .. most THEN limit ELSE usual

\* Places in the query's order.
Ascending(rows) == \A i, j \in DOMAIN rows : i < j => Precedes(rows[i], rows[j])

InOrder(places) == CHOOSE rows \in [1 .. Cardinality(places) -> places] : Ascending(rows)

\* The rows the query returns: at most limit + 1 of them, in order.
Fetched(places, cursor, limit) ==
  LET rows == InOrder({p \in places : Beyond(cursor, p)})
  IN  SubSeq(rows, 1, Min({limit + 1, Len(rows)}))

\* Mutant: the cursor is taken from the extra row, which nobody was shown.
PageCutLate(places, cursor, limit) ==
  LET rows == Fetched(places, cursor, limit)
  IN  IF Len(rows) > limit
        THEN [items |-> Front(rows), next |-> Last(rows)]
        ELSE [items |-> rows, next |-> Start]

\* A page: the rows shown and the cursor of the next one.
Page(places, cursor, limit) ==
  LET rows == Fetched(places, cursor, limit)
  IN  IF Len(rows) > limit
        THEN [items |-> Front(rows), next |-> rows[limit]]
        ELSE [items |-> rows, next |-> Start]

=============================================================================

----------------------------- MODULE MCVenueHours -----------------------------
(***************************************************************************)
(* Instances of VenueHours for TLC.                                        *)
(***************************************************************************)
EXTENDS VenueHours

Day == {r \in ScheduleRow : r.opens < r.closes}

\* Every schedule of one open day or of Monday and another one, and none at all.
UpToTwoDays == {{}} \cup {{a} : a \in Day}
                 \cup {{a, b} : a \in {r \in Day : r.weekday = 0}, b \in {r \in Day : r.weekday # 0}}

\* Never; the second slot of Monday; the first of Monday and Sunday.
Entry(day, from, to) == [weekday |-> day, opens |-> from, closes |-> to]

Few == {{}, {Entry(0, 1, 2)}, {Entry(0, 0, 1), Entry(6, 0, 1)}}
===============================================================================

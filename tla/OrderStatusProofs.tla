---------------------------- MODULE OrderStatusProofs ----------------------------
(***************************************************************************)
(* For every set of orders and of concurrent requests: an order's columns  *)
(* tell one story, cancellations and their events go together, and when    *)
(* requests for one order do not overlap the service implements the state  *)
(* machine.                                                                *)
(***************************************************************************)
EXTENDS OrderStatus, TLAPS

LEMMA InitType == Init => TypeOK
<1> SUFFICES ASSUME Init PROVE TypeOK
  OBVIOUS
<1>1. NewRow \in Row
  BY DEF NewRow, Row, Machine!Status
<1>2. job \in [Request -> Job]
  BY DEF Init
<1> QED
  BY <1>1, <1>2 DEF Init, TypeOK

LEMMA JobParts ==
    ASSUME NEW j \in Job
    PROVE  /\ j.order \in Order
           /\ j.op \in {"cancel", "accept", "reject", "advance"}
           /\ j.to \in Machine!Status
           /\ j.op = "cancel" => j.to = "cancelled"
           /\ j.op = "accept" => j.to = "confirmed"
           /\ j.op = "reject" => j.to = "rejected"
           /\ j.op = "advance" => j.to \in VenueTargets
  BY TargetsAssumption DEF Job, Machine!Status

LEMMA AppliedType ==
    ASSUME TypeOK, NEW r \in Request
    PROVE  Applied(r) \in Row
<1>1. job[r].to \in Machine!Status /\ read[r] \in Row
  BY JobParts DEF TypeOK
<1> QED
  BY <1>1 DEF Applied, Row

LEMMA RecordedType ==
    ASSUME TypeOK, NEW r \in Request
    PROVE  Recorded(r) \subseteq HistoryRow
<1>1. job[r].order \in Order /\ job[r].to \in Machine!Status /\ read[r].status \in Machine!Status
      /\ job[r].op \in {"cancel", "accept", "reject", "advance"}
  BY JobParts DEF TypeOK, Row
<1> QED
  BY <1>1 DEF Recorded, HistoryRow, TypeOK

LEMMA TypeStep == TypeOK /\ [Next]_vars => TypeOK'
<1> SUFFICES ASSUME TypeOK, [Next]_vars PROVE TypeOK'
  OBVIOUS
<1>1. ASSUME NEW r \in Request, ReadOrder(r) PROVE TypeOK'
  <2>1. PICK j \in Job :
          /\ job' = [job EXCEPT ![r] = j]
          /\ read' = [read EXCEPT ![r] = row[j.order]]
          /\ pc' = [pc EXCEPT ![r] = IF Allowed(r, j, row[j.order]) THEN "write" ELSE "idle"]
    BY <1>1 DEF ReadOrder
  <2>2. row[j.order] \in Row
    BY JobParts DEF TypeOK
  <2> QED
    BY <1>1, <2>1, <2>2 DEF ReadOrder, TypeOK
<1>2. ASSUME NEW r \in Request, WriteRow(r) PROVE TypeOK'
  BY <1>2, AppliedType DEF WriteRow, TypeOK
<1>3. ASSUME NEW r \in Request, AppendHistory(r) PROVE TypeOK'
  BY <1>3, RecordedType DEF AppendHistory, TypeOK
<1>4. ASSUME NEW r \in Request, CommitCancel(r) PROVE TypeOK'
  <2>1. job[r].order \in Order
    BY JobParts DEF TypeOK
  <2>2. [row[job[r].order] EXCEPT !.status = "cancelled"] \in Row
    BY <2>1 DEF TypeOK, Row, Machine!Status
  <2>3. row' \in [Order -> Row]
    BY <1>4, <2>1, <2>2 DEF CommitCancel, TypeOK
  <2> QED
    BY <1>4, <2>1, <2>3, RecordedType DEF CommitCancel, TypeOK
<1>5. ASSUME NEW r \in Request, Crash(r) PROVE TypeOK'
  BY <1>5 DEF Crash, TypeOK
<1>6. CASE UNCHANGED vars
  BY <1>6 DEF vars, TypeOK
<1> QED
  BY <1>1, <1>2, <1>3, <1>4, <1>5, <1>6 DEF Next

\* Every variable keeps its type.
THEOREM TypeCorrect == Spec => []TypeOK
<1> QED
  BY InitType, TypeStep, PTL DEF Spec

-----------------------------------------------------------------------------

Documented == VenueTargets \subseteq {"cooking", "ready", "delivering", "delivered"}

\* What a decided request is about to write tells one story.
LEMMA AppliedFits ==
    ASSUME Documented, TypeOK, NEW r \in Request,
           DetailsFit(read[r]), Allowed(r, job[r], read[r])
    PROVE  job[r].op # "cancel" => DetailsFit(Applied(r))
<1> SUFFICES ASSUME job[r].op # "cancel" PROVE DetailsFit(Applied(r))
  OBVIOUS
<1> DEFINE was == read[r].status
<1>1. was \in Machine!Status /\ job[r].to \in Machine!transitions[was]
  BY DEF Allowed, Machine!CanTransition, TypeOK, Row
<1>2. job[r].op \in {"accept", "reject", "advance"}
  BY JobParts DEF TypeOK
<1>3. CASE job[r].op = "accept"
  <2>1. job[r].to = "confirmed"
    BY <1>3, JobParts DEF TypeOK
  <2>2. was = "created"
    BY <1>1, <2>1 DEF Machine!transitions, Machine!Status
  <2> QED
    BY <1>3, <2>1, <2>2 DEF DetailsFit, Applied, Machine!Kitchen
<1>4. CASE job[r].op = "reject"
  <2>1. job[r].to = "rejected"
    BY <1>4, JobParts DEF TypeOK
  <2>2. was = "created"
    BY <1>1, <2>1 DEF Machine!transitions, Machine!Status
  <2> QED
    BY <1>4, <2>1, <2>2 DEF DetailsFit, Applied, Machine!Kitchen
<1>5. CASE job[r].op = "advance"
  <2>1. job[r].to \in {"cooking", "ready", "delivering", "delivered"}
    BY <1>5, JobParts DEF TypeOK, Documented
  <2>2. was \in {"confirmed", "cooking", "ready", "delivering"}
    BY <1>1, <2>1 DEF Machine!transitions, Machine!Status
  <2>3. read[r].eta /\ ~read[r].reason
    BY <2>2 DEF DetailsFit, Machine!Kitchen
  <2> QED
    BY <1>5, <2>1, <2>3 DEF DetailsFit, Applied, Machine!Kitchen
<1> QED
  BY <1>2, <1>3, <1>4, <1>5

LEMMA StoryStep == Documented /\ IInv /\ [Next]_vars => IInv'
<1> SUFFICES ASSUME Documented, IInv, [Next]_vars PROVE IInv'
  OBVIOUS
<1> USE DEF IInv
<1>0. TypeOK'
  BY TypeStep
<1>1. ASSUME NEW r \in Request, ReadOrder(r) PROVE IInv'
  <2>1. PICK j \in Job :
          /\ job' = [job EXCEPT ![r] = j]
          /\ read' = [read EXCEPT ![r] = row[j.order]]
          /\ pc' = [pc EXCEPT ![r] = IF Allowed(r, j, row[j.order]) THEN "write" ELSE "idle"]
    BY <1>1 DEF ReadOrder
  <2>2. row' = row
    BY <1>1 DEF ReadOrder
  <2>3. ReadsFit'
    BY <2>1, JobParts DEF ReadsFit, DetailsMatchStatus, TypeOK, DetailsFit
  <2>4. DecisionsAllowed'
    BY <2>1 DEF DecisionsAllowed, Allowed, TypeOK
  <2> QED
    BY <1>0, <2>2, <2>3, <2>4 DEF DetailsMatchStatus, DetailsFit
<1>2. ASSUME NEW r \in Request, WriteRow(r) PROVE IInv'
  <2>1. DetailsFit(Applied(r))
    BY <1>2, AppliedFits DEF WriteRow, ReadsFit, DecisionsAllowed
  <2>2. ASSUME NEW o \in Order PROVE DetailsFit(row'[o])
    BY <1>2, <2>1 DEF WriteRow, TypeOK, DetailsMatchStatus
  <2>3. ReadsFit' /\ DecisionsAllowed'
    BY <1>2 DEF WriteRow, ReadsFit, DecisionsAllowed, Allowed, DetailsFit, TypeOK
  <2> QED
    BY <1>0, <2>2, <2>3 DEF DetailsMatchStatus, DetailsFit
<1>3. ASSUME NEW r \in Request, CommitCancel(r) PROVE IInv'
  <2>1. ASSUME NEW o \in Order PROVE DetailsFit(row'[o])
    <3>1. CASE o = job[r].order
      <4>1. row'[o].status = "cancelled"
        BY <1>3, <3>1 DEF CommitCancel, TypeOK, Row
      <4> QED
        BY <4>1 DEF DetailsFit, Machine!Kitchen
    <3>2. CASE o # job[r].order
      BY <1>3, <3>2 DEF CommitCancel, TypeOK, DetailsMatchStatus
    <3> QED
      BY <3>1, <3>2
  <2>2. ReadsFit' /\ DecisionsAllowed'
    BY <1>3 DEF CommitCancel, ReadsFit, DecisionsAllowed, Allowed, DetailsFit, TypeOK
  <2> QED
    BY <1>0, <2>1, <2>2 DEF DetailsMatchStatus, DetailsFit
<1>4. ASSUME NEW r \in Request, AppendHistory(r) \/ Crash(r) PROVE IInv'
  BY <1>0, <1>4 DEF AppendHistory, Crash, DetailsMatchStatus, ReadsFit, DecisionsAllowed, Allowed, DetailsFit, TypeOK
<1>5. CASE UNCHANGED vars
  BY <1>0, <1>5 DEF vars, DetailsMatchStatus, ReadsFit, DecisionsAllowed, Allowed, DetailsFit
<1> QED
  BY <1>1, <1>2, <1>3, <1>4, <1>5 DEF Next

\* However requests overlap and wherever they are cut off, the columns of an
\* order match its status (AcceptOrder, RejectOrder, AdvanceStatus and
\* CancelOrder), as long as the venue sends the documented statuses.
THEOREM OneStory == Documented /\ Spec => []DetailsMatchStatus
<1>1. Init => IInv
  BY InitType DEF Init, IInv, DetailsMatchStatus, ReadsFit, DecisionsAllowed, NewRow, DetailsFit, Machine!Kitchen
<1>2. IInv => DetailsMatchStatus
  BY DEF IInv
<1>3. ASSUME Documented PROVE Spec => []DetailsMatchStatus
  <2>1. IInv /\ [Next]_vars => IInv'
    BY <1>3, StoryStep
  <2> QED
    BY <1>1, <1>2, <2>1, PTL DEF Spec
<1> QED
  BY <1>3

-----------------------------------------------------------------------------

\* A cancellation never reaches the venue's second statement.
OnlyVenueAppends == \A r \in Request : pc[r] = "history" => job[r].op # "cancel"

Announced == TypeOK /\ OnlyVenueAppends /\ NoticesMatchHistory

LEMMA NoticesStep == Documented /\ Announced /\ [Next]_vars => NoticesMatchHistory'
<1> SUFFICES ASSUME Documented, Announced, [Next]_vars PROVE NoticesMatchHistory'
  OBVIOUS
<1> USE DEF Announced
<1> DEFINE cancelled == {h.order : h \in {g \in history : g.to = "cancelled"}}
<1>1. ASSUME NEW r \in Request, AppendHistory(r) PROVE NoticesMatchHistory'
  <2>1. job[r].to # "cancelled"
    BY <1>1, JobParts DEF TypeOK, Documented, OnlyVenueAppends, AppendHistory
  <2>2. {g \in history' : g.to = "cancelled"} = {g \in history : g.to = "cancelled"}
    BY <1>1, <2>1 DEF AppendHistory, Recorded
  <2> QED
    BY <1>1, <2>2 DEF AppendHistory, NoticesMatchHistory
<1>2. ASSUME NEW r \in Request, CommitCancel(r) PROVE NoticesMatchHistory'
  <2> DEFINE new == [order |-> job[r].order, op |-> job[r].op, from |-> read[r].status, to |-> job[r].to]
  <2>1. job[r].to = "cancelled" /\ history' = history \cup {new} /\ notices' = notices \cup {job[r].order}
    BY <1>2, JobParts DEF CommitCancel, Recorded, TypeOK
  <2>2. {g \in history' : g.to = "cancelled"} = {g \in history : g.to = "cancelled"} \cup {new}
    BY <2>1
  <2>3. {h.order : h \in {g \in history' : g.to = "cancelled"}} = cancelled \cup {new.order}
    BY <2>2
  <2> QED
    BY <2>1, <2>3 DEF NoticesMatchHistory
<1>3. ASSUME NEW r \in Request, ReadOrder(r) \/ WriteRow(r) \/ Crash(r) PROVE NoticesMatchHistory'
  BY <1>3 DEF ReadOrder, WriteRow, Crash, NoticesMatchHistory
<1>4. CASE UNCHANGED vars
  BY <1>4 DEF vars, NoticesMatchHistory
<1> QED
  BY <1>1, <1>2, <1>3, <1>4 DEF Next

\* As long as the venue keeps to the documented targets, an order has a cancelled row
\* in its history if and only if it has an order.cancelled event (CancelOrder's
\* transaction), wherever requests are cut off.  A venue that sends `cancelled' through
\* /status, which nothing checks, leaves the row without an event.
THEOREM CancellationsAnnounced == Documented /\ Spec => []NoticesMatchHistory
<1>1. Init => Announced
  BY InitType DEF Init, Announced, OnlyVenueAppends, NoticesMatchHistory
<1>2. Announced => NoticesMatchHistory
  BY DEF Announced
<1>3. ASSUME Documented PROVE Spec => []NoticesMatchHistory
  <2>1. TypeOK /\ OnlyVenueAppends /\ [Next]_vars => OnlyVenueAppends'
    BY DEF OnlyVenueAppends, Next, ReadOrder, WriteRow, AppendHistory, CommitCancel, Crash, vars, TypeOK
  <2>2. Announced /\ [Next]_vars => Announced'
    BY <1>3, <2>1, TypeStep, NoticesStep DEF Announced
  <2> QED
    BY <1>1, <1>2, <2>2, PTL DEF Spec
<1> QED
  BY <1>3

-----------------------------------------------------------------------------

Serial == TypeOK /\ DecisionsAllowed /\ NothingStale

LEMMA SerialStep == Serial /\ [Next]_vars => Serial'
<1> SUFFICES ASSUME Serial, [Next]_vars PROVE Serial'
  OBVIOUS
<1> USE DEF Serial
<1>0. TypeOK'
  BY TypeStep
<1>1. ASSUME NEW r \in Request, ReadOrder(r) PROVE Serial'
  <2>1. PICK j \in Job :
          /\ j.order \in shared \/ Free(j.order)
          /\ job' = [job EXCEPT ![r] = j]
          /\ read' = [read EXCEPT ![r] = row[j.order]]
          /\ pc' = [pc EXCEPT ![r] = IF Allowed(r, j, row[j.order]) THEN "write" ELSE "idle"]
    BY <1>1 DEF ReadOrder
  <2>2. row' = row /\ shared' = shared /\ pc[r] = "idle"
    BY <1>1 DEF ReadOrder
  <2>3. DecisionsAllowed'
    BY <2>1 DEF DecisionsAllowed, Allowed, TypeOK
  <2>4. \A q \in Request : pc'[q] = "write" /\ job'[q].order \notin shared' =>
                           read'[q] = row'[job'[q].order]
    BY <2>1, <2>2 DEF NothingStale, TypeOK
  <2>5. ASSUME NEW q \in Request, NEW u \in Request, q # u, InFlight(q)', InFlight(u)',
               job'[q].order = job'[u].order
        PROVE  job'[q].order \in shared'
    <3>1. \A v \in Request \ {r} : InFlight(v)' => InFlight(v) /\ job'[v] = job[v]
      BY <2>1 DEF InFlight, TypeOK
    <3>2. job'[r] = j
      BY <2>1 DEF TypeOK
    <3> QED
      BY <2>1, <2>2, <2>5, <3>1, <3>2 DEF Free, NothingStale
  <2> QED
    BY <1>0, <2>3, <2>4, <2>5 DEF NothingStale
<1>2. ASSUME NEW r \in Request, WriteRow(r) \/ CommitCancel(r) PROVE Serial'
  <2>1. pc[r] = "write" /\ job' = job /\ read' = read /\ shared' = shared
        /\ pc' \in {[pc EXCEPT ![r] = "history"], [pc EXCEPT ![r] = "idle"]}
    BY <1>2 DEF WriteRow, CommitCancel
  <2>2. \A o \in Order : o # job[r].order => row'[o] = row[o]
    BY <1>2 DEF WriteRow, CommitCancel, TypeOK
  <2>3. ASSUME NEW q \in Request, pc'[q] = "write", job'[q].order \notin shared'
        PROVE  read'[q] = row'[job'[q].order]
    <3>1. q # r /\ pc[q] = "write"
      BY <2>1, <2>3 DEF TypeOK
    <3>2. job[q].order # job[r].order /\ job[q].order \in Order
      BY <2>1, <2>3, <3>1, JobParts DEF NothingStale, InFlight, TypeOK
    <3> QED
      BY <2>1, <2>2, <2>3, <3>1, <3>2 DEF NothingStale
  <2>4. \A q, u \in Request : q # u /\ InFlight(q)' /\ InFlight(u)' /\ job'[q].order = job'[u].order =>
                              job'[q].order \in shared'
    BY <2>1 DEF NothingStale, InFlight, TypeOK
  <2>5. DecisionsAllowed'
    BY <2>1 DEF DecisionsAllowed, Allowed, TypeOK
  <2> QED
    BY <1>0, <2>3, <2>4, <2>5 DEF NothingStale
<1>3. ASSUME NEW r \in Request, AppendHistory(r) \/ Crash(r) PROVE Serial'
  BY <1>0, <1>3 DEF AppendHistory, Crash, DecisionsAllowed, Allowed, NothingStale, InFlight, TypeOK
<1>4. CASE UNCHANGED vars
  BY <1>0, <1>4 DEF vars, DecisionsAllowed, Allowed, NothingStale, InFlight
<1> QED
  BY <1>1, <1>2, <1>3, <1>4 DEF Next

LEMMA SerialRefines == Serial /\ [Next]_vars => [Machine!Next]_status
<1> SUFFICES ASSUME Serial, [Next]_vars PROVE Machine!Next \/ UNCHANGED status
  OBVIOUS
<1> USE DEF Serial
<1>0. ASSUME NEW r \in Request, WriteRow(r) \/ CommitCancel(r), job[r].order \in shared
      PROVE  UNCHANGED status
  BY <1>0 DEF WriteRow, CommitCancel, TypeOK, status
<1>1. ASSUME NEW r \in Request, WriteRow(r) \/ CommitCancel(r), job[r].order \notin shared
      PROVE  Machine!Next
  <2> DEFINE o == job[r].order
  <2>1. o \in Order /\ job[r].to \in Machine!Status
    BY JobParts DEF TypeOK
  <2>2. read[r] = row[o] /\ Machine!CanTransition(read[r].status, job[r].to)
    BY <1>1 DEF WriteRow, CommitCancel, NothingStale, DecisionsAllowed, Allowed
  <2>3. Machine!CanTransition(status[o], job[r].to)
    BY <1>1, <2>1, <2>2 DEF status
  <2>4. row'[o].status = job[r].to
    <3>1. CASE WriteRow(r)
      BY <2>1, <3>1 DEF WriteRow, Applied, TypeOK
    <3>2. CASE CommitCancel(r)
      BY <2>1, <3>2, JobParts DEF CommitCancel, TypeOK, Row
    <3> QED
      BY <1>1, <3>1, <3>2
  <2>5. \A p \in Order \ {o} : row'[p] = row[p]
    BY <1>1, <2>1 DEF WriteRow, CommitCancel, TypeOK
  <2>6. status' = [status EXCEPT ![o] = job[r].to]
    <3>1. shared' = shared
      BY <1>1 DEF WriteRow, CommitCancel
    <3> QED
      BY <1>1, <2>1, <2>4, <2>5, <3>1 DEF status
  <2> QED
    BY <2>1, <2>3, <2>6 DEF Machine!Next, Machine!Move
<1>2. ASSUME NEW r \in Request, ReadOrder(r) \/ AppendHistory(r) \/ Crash(r) PROVE UNCHANGED status
  BY <1>2 DEF ReadOrder, AppendHistory, Crash, status
<1>3. CASE UNCHANGED vars
  BY <1>3 DEF vars, status
<1> QED
  BY <1>0, <1>1, <1>2, <1>3 DEF Next

\* Orders whose requests do not overlap move along the edges of status.go
\* only, wherever requests are cut off.
THEOREM SerialImplementsMachine == Spec => MachineSpec
<1>1. Init => Serial /\ Machine!Init
  BY InitType DEF Init, Serial, DecisionsAllowed, NothingStale, InFlight, Machine!Init, NewRow, status
<1> QED
  BY <1>1, SerialStep, SerialRefines, PTL DEF Spec, MachineSpec, Machine!Spec

=================================================================================

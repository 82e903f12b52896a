------------------------------- MODULE OrderStatus -------------------------------
(***************************************************************************)
(* How the platform moves an order: each request reads the order, lets the *)
(* state machine decide on what it read, and writes the outcome.  No       *)
(* request locks the row and no UPDATE looks at the status it overwrites.  *)
(* The customer's cancellation is one transaction; the venue's accept,     *)
(* reject and status changes are two autocommitted statements, so they can *)
(* be cut in half.                                                         *)
(***************************************************************************)
CONSTANTS
    Order,
    Request,       \* goroutines that serve a request and then the next one
    VenueTargets   \* what the venue sends to POST /orders/{id}/status

ASSUME TargetsAssumption ==
    VenueTargets \subseteq {"created", "confirmed", "cooking", "ready", "delivering",
                            "delivered", "rejected", "cancelled"}

VARIABLES
    row,      \* orders: status, and whether eta_minutes and rejection_reason are set
    history,  \* order_status_history, rows that differ in their time only merged
    notices,  \* orders with an order.cancelled event in the outbox
    pc, job, read,
    shared    \* orders that several requests may be in flight for, once and for all

vars == <<row, history, notices, pc, job, read, shared>>

\* The orders whose requests come one after the other, the others left out.
status == [o \in Order |-> IF o \in shared THEN "created" ELSE row[o].status]

Machine == INSTANCE OrderMachine

Row == [status: Machine!Status, eta: BOOLEAN, reason: BOOLEAN]

\* What a request asks for: the customer cancels, the venue does the rest.
Job == [order: Order, op: {"cancel"}, to: {"cancelled"}]
         \cup [order: Order, op: {"accept"}, to: {"confirmed"}]
         \cup [order: Order, op: {"reject"}, to: {"rejected"}]
         \cup [order: Order, op: {"advance"}, to: VenueTargets]

HistoryRow == [order: Order, op: {"cancel", "accept", "reject", "advance"},
               from: Machine!Status, to: Machine!Status]

InFlight(r) == pc[r] # "idle"

Free(o) == \A r \in Request : InFlight(r) => job[r].order # o

-----------------------------------------------------------------------------

\* Mutant: the venue may move an accepted order on, skipping steps or going back.
AllowedUnchecked(r, j, was) ==
    \/ Machine!CanTransition(was.status, j.to)
    \/ j.op = "advance" /\ was.status \in {"confirmed", "cooking", "ready", "delivering"}

\* Order.TransitionTo decides on the row as it was read.
Allowed(r, j, was) == Machine!CanTransition(was.status, j.to)

\* SELECT the order and validate the transition; a disallowed one is answered
\* with ORDER_INVALID_STATE_TRANSITION and writes nothing.
ReadOrder(r) ==
    /\ pc[r] = "idle"
    /\ \E j \in Job :
        /\ j.order \in shared \/ Free(j.order)
        /\ job' = [job EXCEPT ![r] = j]
        /\ read' = [read EXCEPT ![r] = row[j.order]]
        /\ pc' = [pc EXCEPT ![r] = IF Allowed(r, j, row[j.order]) THEN "write" ELSE "idle"]
    /\ UNCHANGED <<row, history, notices, shared>>

Recorded(r) ==
    history \cup {[order |-> job[r].order, op |-> job[r].op,
                   from |-> read[r].status, to |-> job[r].to]}

\* Mutant: ApplyTransition writes the columns its own operation set.
AppliedInPart(r) ==
    [row[job[r].order] EXCEPT !.status = job[r].to,
                              !.eta = @ \/ job[r].op = "accept",
                              !.reason = @ \/ job[r].op = "reject"]

\* The order as the venue's request leaves it, in memory.
Applied(r) ==
    [status |-> job[r].to,
     eta |-> read[r].eta \/ job[r].op = "accept",
     reason |-> read[r].reason \/ job[r].op = "reject"]

\* ApplyTransition, first statement: every mutable column from memory.
WriteRow(r) ==
    /\ pc[r] = "write"
    /\ job[r].op # "cancel"
    /\ row' = [row EXCEPT ![job[r].order] = Applied(r)]
    /\ pc' = [pc EXCEPT ![r] = "history"]
    /\ UNCHANGED <<history, notices, job, read, shared>>

\* ApplyTransition, second statement.
AppendHistory(r) ==
    /\ pc[r] = "history"
    /\ history' = Recorded(r)
    /\ pc' = [pc EXCEPT ![r] = "idle"]
    /\ UNCHANGED <<row, notices, job, read, shared>>

\* CancelOrder's transaction: the status alone, the history row and the event.
CommitCancel(r) ==
    /\ pc[r] = "write"
    /\ job[r].op = "cancel"
    /\ row' = [row EXCEPT ![job[r].order].status = "cancelled"]
    /\ history' = Recorded(r)
    /\ notices' = notices \cup {job[r].order}
    /\ pc' = [pc EXCEPT ![r] = "idle"]
    /\ UNCHANGED <<job, read, shared>>

\* Mutant: the event is enqueued outside the transaction, before its UPDATE.
CrashAfterNotice(r) ==
    /\ InFlight(r)
    /\ pc' = [pc EXCEPT ![r] = "idle"]
    /\ notices' = IF job[r].op = "cancel" THEN notices \cup {job[r].order} ELSE notices
    /\ UNCHANGED <<row, history, job, read, shared>>

\* The request is cancelled, a statement fails or the process dies.
Crash(r) ==
    /\ InFlight(r)
    /\ pc' = [pc EXCEPT ![r] = "idle"]
    /\ UNCHANGED <<row, history, notices, job, read, shared>>

-----------------------------------------------------------------------------

NewRow == [status |-> "created", eta |-> FALSE, reason |-> FALSE]

Init ==
    /\ row = [o \in Order |-> NewRow]
    /\ history = {}
    /\ notices = {}
    /\ pc = [r \in Request |-> "idle"]
    /\ job \in [Request -> {j \in Job : j.op = "cancel"}]   \* overwritten before it is used
    /\ read = [r \in Request |-> NewRow]
    /\ shared \in SUBSET Order

Next ==
    \E r \in Request :
        ReadOrder(r) \/ WriteRow(r) \/ AppendHistory(r) \/ CommitCancel(r) \/ Crash(r)

Spec == Init /\ [][Next]_vars

-----------------------------------------------------------------------------
(* Properties *)

TypeOK ==
    /\ row \in [Order -> Row]
    /\ history \subseteq HistoryRow
    /\ notices \subseteq Order
    /\ pc \in [Request -> {"idle", "write", "history"}]
    /\ job \in [Request -> Job]
    /\ read \in [Request -> Row]
    /\ shared \subseteq Order

\* Whatever requests overlap, and wherever they are cut off, an order's columns
\* tell one story: an order being prepared has the ETA of its acceptance and no
\* rejection reason, a rejected one has its reason and no ETA.
DetailsFit(r) ==
    /\ r.status = "created" => ~r.eta /\ ~r.reason
    /\ r.status \in Machine!Kitchen => r.eta /\ ~r.reason
    /\ r.status = "rejected" => r.reason /\ ~r.eta

DetailsMatchStatus == \A o \in Order : DetailsFit(row[o])

\* The kitchen is told of a cancellation if and only if one is recorded: the event
\* and the history row share the fate of the customer's transaction.  A venue that
\* cancels through /status tells nobody; its documented targets leave that out.
NoticesMatchHistory ==
    notices = {h.order : h \in {g \in history : g.to = "cancelled"}}

\* Orders whose requests come one after the other move along the edges of
\* status.go's table only, wherever requests are cut off.
MachineSpec == Machine!Spec

\* Every order moves along the edges of the table only.
StatusFollowsTable ==
    [][\A o \in Order : row'[o].status # row[o].status =>
           Machine!CanTransition(row[o].status, row'[o].status)]_vars

-----------------------------------------------------------------------------
(* The inductive invariant behind DetailsMatchStatus *)

\* What a request holds in memory was once a row.
ReadsFit == \A r \in Request : DetailsFit(read[r])

DecisionsAllowed ==
    \A r \in Request : pc[r] = "write" => Allowed(r, job[r], read[r])

IInv == TypeOK /\ DetailsMatchStatus /\ ReadsFit /\ DecisionsAllowed

\* A request for an order that is not shared still writes over the row it read.
NothingStale ==
    /\ \A r \in Request : pc[r] = "write" /\ job[r].order \notin shared =>
                           read[r] = row[job[r].order]
    /\ \A q, r \in Request : q # r /\ InFlight(q) /\ InFlight(r) /\ job[q].order = job[r].order =>
                              job[q].order \in shared

=================================================================================

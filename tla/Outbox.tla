--------------------------------- MODULE Outbox ---------------------------------
(***************************************************************************)
(* Delivery of outbox_events to the venue's webhook by several dispatcher  *)
(* instances: internal/usecase/outbox/dispatcher.go over outbox_repo.go    *)
(* and adapter/webhook/publisher.go.  A dispatcher claims a batch by       *)
(* pushing next_attempt_at one lease ahead, then delivers and records the  *)
(* events one by one, with no lock and no transaction in between.          *)
(*                                                                         *)
(* Instants are kept as distances from the present, so time never runs out *)
(* of bounds: `wait' is next_attempt_at - now.                             *)
(***************************************************************************)
EXTENDS Integers, FiniteSets

CONSTANTS
    Event,        \* rows of outbox_events
    Dispatcher,   \* one per running api process
    NoClaim,      \* a dispatcher is not delivering anything
    Limit,        \* events per batch (20)
    Lease,        \* fetchDueLease (60 s)
    Timeout,      \* of the webhook's HTTP client (10 s)
    MaxAttempts,  \* maxAttempts (5)
    Backoff,      \* retryBackoff
    MaxCrashes,   \* bound on the crashes and database errors of a behaviour
    MaxStalls,    \* bound on the instants spent between deliveries
    MaxLag        \* bound on how long an event's being overdue is told apart

ASSUME TimesAssumption ==
    /\ Limit \in Nat \ {0}
    /\ Lease \in Nat \ {0}
    /\ Timeout \in Nat
    /\ MaxAttempts \in Nat \ {0}
    /\ Backoff \in [1..(MaxAttempts - 1) -> Nat]
    /\ MaxCrashes \in Nat
    /\ MaxStalls \in Nat
    /\ MaxLag \in Nat

\* A table has finitely many rows, and somebody delivers them.
ASSUME InstanceAssumption ==
    IsFiniteSet(Event) /\ IsFiniteSet(Dispatcher) /\ Dispatcher # {}

VARIABLES
    status,    \* outbox_events.status, "absent" before the row exists
    attempts,  \* outbox_events.attempts
    wait,      \* how far next_attempt_at is ahead of now
    received,  \* events the venue was sent at least once
    skipped,   \* events that were due while the venue had no webhook_url
    webhook,   \* the venue has a webhook_url
    pc, batch, current, delivered,  \* a dispatcher inside ProcessOnce
    elapsed,   \* how long its HTTP call has run
    crashes,
    stalls,    \* instants that passed while a dispatcher was at a statement
    largest    \* the most events one batch has had so far

vars == <<status, attempts, wait, received, skipped, webhook, pc, batch, current,
          delivered, elapsed, crashes, stalls, largest>>

rows == <<status, attempts, wait>>

venue == <<received, skipped, webhook>>

\* An event as FetchDue returned it: attempts is a snapshot from then on.
Claim == [event: Event, attempts: Nat]

ASSUME NoClaimAssumption == NoClaim \notin Claim

EventsOf(d) == {c.event : c \in batch[d]} \cup (IF current[d] = NoClaim THEN {} ELSE {current[d].event})

-----------------------------------------------------------------------------

\* The transaction of a checkout or a cancellation commits.
Enqueue(e) ==
    /\ status[e] = "absent"
    /\ status' = [status EXCEPT ![e] = "pending"]
    /\ attempts' = [attempts EXCEPT ![e] = 0]
    /\ wait' = [wait EXCEPT ![e] = 0]
    /\ UNCHANGED <<venue, pc, batch, current, delivered, elapsed, crashes, stalls, largest>>

Due == {e \in Event : status[e] = "pending" /\ wait[e] <= 0}

\* Mutant: SKIP LOCKED alone, without the lease.
ClaimedUnleased(S) == wait

Claimed(S) == [e \in Event |-> IF e \in S THEN Lease ELSE wait[e]]

\* One statement: the oldest due rows are selected, leased and returned, in no
\* particular order.
FetchDue(d) ==
    /\ pc[d] = "idle"
    /\ Due # {}
    /\ \E S \in SUBSET Due :
        /\ Cardinality(S) = IF Cardinality(Due) < Limit THEN Cardinality(Due) ELSE Limit
        /\ \A e \in S, f \in Due \ S : wait[e] <= wait[f]
        /\ wait' = Claimed(S)
        /\ batch' = [batch EXCEPT ![d] = {[event |-> e, attempts |-> attempts[e]] : e \in S}]
        /\ largest' = IF Cardinality(S) > largest THEN Cardinality(S) ELSE largest
    /\ pc' = [pc EXCEPT ![d] = "loop"]
    /\ UNCHANGED <<status, attempts, venue, current, delivered, elapsed, crashes, stalls>>

TakeNext(d) ==
    /\ pc[d] = "loop"
    /\ \E c \in batch[d] :
        /\ current' = [current EXCEPT ![d] = c]
        /\ batch' = [batch EXCEPT ![d] = @ \ {c}]
    /\ pc' = [pc EXCEPT ![d] = "publish"]
    /\ UNCHANGED <<rows, venue, delivered, elapsed, crashes, stalls, largest>>

EndBatch(d) ==
    /\ pc[d] = "loop"
    /\ batch[d] = {}
    /\ pc' = [pc EXCEPT ![d] = "idle"]
    /\ UNCHANGED <<rows, venue, batch, current, delivered, elapsed, crashes, stalls, largest>>

Published(d, ok) ==
    /\ pc' = [pc EXCEPT ![d] = "record"]
    /\ delivered' = [delivered EXCEPT ![d] = ok]
    /\ elapsed' = [elapsed EXCEPT ![d] = 0]
    /\ UNCHANGED <<rows, webhook, batch, current, crashes, stalls, largest>>

\* The venue receives the request; its 2xx answer arrives, or is lost, late or
\* no 2xx.
Deliver(d) ==
    /\ pc[d] = "publish"
    /\ webhook
    /\ received' = received \cup {current[d].event}
    /\ \E ok \in BOOLEAN : Published(d, ok)
    /\ UNCHANGED skipped

\* A venue without a webhook is reported as success.
SkipDelivery(d) ==
    /\ pc[d] = "publish"
    /\ ~webhook
    /\ skipped' = skipped \cup {current[d].event}
    /\ Published(d, TRUE)
    /\ UNCHANGED received

\* The venue cannot be looked up or reached.
FailDelivery(d) ==
    /\ pc[d] = "publish"
    /\ Published(d, FALSE)
    /\ UNCHANGED <<received, skipped>>

\* Mutant: the fourth failure is already final.
ExhaustedEarly(c) == c.attempts + 2 >= MaxAttempts

Exhausted(c) == c.attempts + 1 >= MaxAttempts

Recorded(d) ==
    /\ pc' = [pc EXCEPT ![d] = "loop"]
    /\ current' = [current EXCEPT ![d] = NoClaim]
    /\ delivered' = [delivered EXCEPT ![d] = FALSE]
    /\ UNCHANGED <<venue, batch, elapsed, crashes, stalls, largest>>

\* Mutant: Publish's error is dropped.
MarkSentAlways(d) ==
    /\ pc[d] = "record"
    /\ status' = [status EXCEPT ![current[d].event] = "sent"]
    /\ Recorded(d)
    /\ UNCHANGED <<attempts, wait>>

\* None of the three UPDATEs looks at the row's status or at who claimed it.
MarkSent(d) ==
    /\ pc[d] = "record"
    /\ delivered[d]
    /\ status' = [status EXCEPT ![current[d].event] = "sent"]
    /\ Recorded(d)
    /\ UNCHANGED <<attempts, wait>>

\* Mutant: the failed attempt is not counted.
MarkRetryUncounted(d) ==
    /\ pc[d] = "record"
    /\ ~delivered[d]
    /\ ~Exhausted(current[d])
    /\ wait' = [wait EXCEPT ![current[d].event] = Backoff[current[d].attempts + 1]]
    /\ Recorded(d)
    /\ UNCHANGED <<status, attempts>>

MarkRetry(d) ==
    /\ pc[d] = "record"
    /\ ~delivered[d]
    /\ ~Exhausted(current[d])
    /\ attempts' = [attempts EXCEPT ![current[d].event] = @ + 1]
    /\ wait' = [wait EXCEPT ![current[d].event] = Backoff[current[d].attempts + 1]]
    /\ Recorded(d)
    /\ UNCHANGED status

\* Mutant: the last failure is counted and the row stays pending.
MarkFailedPending(d) ==
    /\ pc[d] = "record"
    /\ ~delivered[d]
    /\ Exhausted(current[d])
    /\ attempts' = [attempts EXCEPT ![current[d].event] = @ + 1]
    /\ Recorded(d)
    /\ UNCHANGED <<status, wait>>

MarkFailed(d) ==
    /\ pc[d] = "record"
    /\ ~delivered[d]
    /\ Exhausted(current[d])
    /\ attempts' = [attempts EXCEPT ![current[d].event] = @ + 1]
    /\ status' = [status EXCEPT ![current[d].event] = "failed"]
    /\ Recorded(d)
    /\ UNCHANGED wait

\* The process dies and is started again, or an UPDATE fails and ProcessOnce
\* returns: either way the rest of the batch is forgotten.
Abandon(d) ==
    /\ crashes < MaxCrashes
    /\ pc[d] # "idle"
    /\ crashes' = crashes + 1
    /\ pc' = [pc EXCEPT ![d] = "idle"]
    /\ batch' = [batch EXCEPT ![d] = {}]
    /\ current' = [current EXCEPT ![d] = NoClaim]
    /\ delivered' = [delivered EXCEPT ![d] = FALSE]
    /\ elapsed' = [elapsed EXCEPT ![d] = 0]
    /\ UNCHANGED <<rows, venue, stalls, largest>>

\* The venue sets or clears webhook_url.
SetWebhook ==
    /\ webhook' = ~webhook
    /\ UNCHANGED <<rows, received, skipped, pc, batch, current, delivered, elapsed, crashes,
                   stalls, largest>>

Sooner(n) == IF n <= -MaxLag THEN -MaxLag ELSE n - 1

\* Between FetchDue and the outcome of the last event, but in no HTTP call.
AtStatement(d) == pc[d] \in {"loop", "record"}

\* Time passes, but an HTTP call never outlives the client's timeout.
Tick ==
    /\ \A d \in Dispatcher : pc[d] = "publish" => elapsed[d] < Timeout
    /\ IF \E d \in Dispatcher : AtStatement(d)
       THEN stalls < MaxStalls /\ stalls' = stalls + 1
       ELSE UNCHANGED stalls
    /\ wait' = [e \in Event |-> IF status[e] # "absent" THEN Sooner(wait[e]) ELSE wait[e]]
    /\ elapsed' = [d \in Dispatcher |-> IF pc[d] = "publish" THEN elapsed[d] + 1 ELSE elapsed[d]]
    /\ UNCHANGED <<status, attempts, venue, pc, batch, current, delivered, crashes, largest>>

-----------------------------------------------------------------------------

Init ==
    /\ status = [e \in Event |-> "absent"]
    /\ attempts = [e \in Event |-> 0]
    /\ wait = [e \in Event |-> 0]
    /\ received = {}
    /\ skipped = {}
    /\ webhook = TRUE
    /\ pc = [d \in Dispatcher |-> "idle"]
    /\ batch = [d \in Dispatcher |-> {}]
    /\ current = [d \in Dispatcher |-> NoClaim]
    /\ delivered = [d \in Dispatcher |-> FALSE]
    /\ elapsed = [d \in Dispatcher |-> 0]
    /\ crashes = 0
    /\ stalls = 0
    /\ largest = 0

\* What a running dispatcher does next.
Step(d) ==
    \/ FetchDue(d) \/ TakeNext(d) \/ EndBatch(d)
    \/ Deliver(d) \/ SkipDelivery(d) \/ FailDelivery(d)
    \/ MarkSent(d) \/ MarkRetry(d) \/ MarkFailed(d)

Next ==
    \/ \E e \in Event : Enqueue(e)
    \/ \E d \in Dispatcher : Step(d) \/ Abandon(d)
    \/ SetWebhook
    \/ Tick

Spec == Init /\ [][Next]_vars

\* Dispatchers keep polling (Run's ticker) and time does not stop.
FairSpec == Spec /\ WF_vars(Tick) /\ \A d \in Dispatcher : WF_vars(Step(d))

-----------------------------------------------------------------------------
(* Properties *)

TypeOK ==
    /\ status \in [Event -> {"absent", "pending", "sent", "failed"}]
    /\ attempts \in [Event -> Nat]
    /\ wait \in [Event -> Int]
    /\ received \subseteq Event
    /\ skipped \subseteq Event
    /\ webhook \in BOOLEAN
    /\ pc \in [Dispatcher -> {"idle", "loop", "publish", "record"}]
    /\ batch \in [Dispatcher -> SUBSET Claim]
    /\ current \in [Dispatcher -> Claim \cup {NoClaim}]
    /\ delivered \in [Dispatcher -> BOOLEAN]
    /\ elapsed \in [Dispatcher -> Nat]
    /\ crashes \in Nat
    /\ stalls \in Nat
    /\ largest \in Nat

\* An event is given up only after maxAttempts recorded failures, although
\* dispatchers judge by the count they read when they claimed it and may work
\* on one event at the same time.
GivesUpLate == \A e \in Event : status[e] = "failed" => attempts[e] >= MaxAttempts

\* An event is recorded as failed boundedly often however the dispatchers overlap:
\* maxAttempts times for one dispatcher, at most twice more for each further one.
AttemptsBounded ==
    \A e \in Event : attempts[e] <= MaxAttempts + 2 * (Cardinality(Dispatcher) - 1)

\* An event that is marked sent has reached the venue, or was due when the venue
\* had no webhook to send it to.
SentWasReceived == \A e \in Event : status[e] = "sent" => e \in received \cup skipped

\* No two dispatchers work on one event as long as only deliveries take time and no
\* batch so far was so large that its timeouts together outlast the lease; crashes or
\* not.  With 60 s and 10 s that is five events, and a batch may have twenty.
Exclusive ==
    largest * Timeout < Lease /\ stalls = 0 =>
        \A d, f \in Dispatcher : d # f => EventsOf(d) \cap EventsOf(f) = {}

\* Every event is sent or given up in the end, whatever crashes and however the
\* venue answers: a crash costs a delay, never a lost event.
EverySettled == \A e \in Event : (status[e] = "pending") ~> (status[e] \in {"sent", "failed"})

=================================================================================

------------------------------ MODULE OutboxProofs ------------------------------
(***************************************************************************)
(* Outbox proved for any number of events, dispatchers, crashes and any    *)
(* lease, timeout and delays.                                              *)
(***************************************************************************)
EXTENDS Outbox, FiniteSetTheorems, TLAPS

\* A dispatcher that delivers or records holds a claim.
HoldsClaim == \A d \in Dispatcher : pc[d] \in {"publish", "record"} => current[d] \in Claim

ClaimsOf(d) == batch[d] \cup ({current[d]} \cap Claim)

\* A claim is of an existing row, and its count of attempts can only be behind.
ClaimsBehind ==
    \A d \in Dispatcher : \A c \in ClaimsOf(d) :
        /\ status[c.event] # "absent"
        /\ c.attempts <= attempts[c.event]

\* A delivery that counts as a success has a reason.
DeliveredForAReason ==
    \A d \in Dispatcher :
        pc[d] = "record" /\ delivered[d] => current[d].event \in received \cup skipped

IInv ==
    /\ TypeOK
    /\ HoldsClaim
    /\ ClaimsBehind
    /\ DeliveredForAReason
    /\ \A e \in Event : status[e] = "absent" => attempts[e] = 0
    /\ GivesUpLate
    /\ SentWasReceived

-----------------------------------------------------------------------------

LEMMA InitInvariant == Init => IInv
  BY TimesAssumption, NoClaimAssumption
  DEF Init, IInv, TypeOK, HoldsClaim, ClaimsBehind, ClaimsOf, DeliveredForAReason,
      GivesUpLate, SentWasReceived

USE DEF IInv, TypeOK, HoldsClaim, ClaimsBehind, ClaimsOf, DeliveredForAReason,
        GivesUpLate, SentWasReceived, rows, venue, vars, Claim

\* A batch is claimed: snapshots are taken, rows keep their status and count.
LEMMA FetchKeeps == ASSUME IInv, NEW d \in Dispatcher, FetchDue(d) PROVE IInv'
<1>1. PICK S \in SUBSET Due :
        /\ wait' = Claimed(S)
        /\ batch' = [batch EXCEPT ![d] = {[event |-> e, attempts |-> attempts[e]] : e \in S}]
        /\ largest' = IF Cardinality(S) > largest THEN Cardinality(S) ELSE largest
  BY DEF FetchDue
<1>2. S \subseteq Event /\ \A e \in S : status[e] = "pending"
  BY <1>1 DEF Due
<1>3. wait' \in [Event -> Int]
  BY <1>1, TimesAssumption DEF Claimed
<1>4. {[event |-> e, attempts |-> attempts[e]] : e \in S} \subseteq Claim
  BY <1>2
<1>0. largest' \in Nat
  <2>1. Cardinality(S) \in Nat
    BY <1>2, InstanceAssumption, FS_Subset, FS_CardinalityType
  <2> QED BY <1>1, <2>1
<1>5. TypeOK'
  BY <1>0, <1>1, <1>3, <1>4 DEF FetchDue
<1>6. ClaimsBehind'
  <2>1. SUFFICES ASSUME NEW f \in Dispatcher, NEW c \in ClaimsOf(f)'
                 PROVE  status[c.event] # "absent" /\ c.attempts <= attempts[c.event]
    BY DEF FetchDue
  <2>2. CASE f # d
    BY <1>1, <2>1, <2>2 DEF FetchDue
  <2>3. CASE f = d /\ c \in batch'[d]
    <3>1. PICK e \in S : c = [event |-> e, attempts |-> attempts[e]]
      BY <1>1, <2>3
    <3>2. QED BY <1>2, <3>1
  <2>4. CASE f = d /\ c = current[d] /\ c \in Claim
    BY <2>4
  <2>5. QED BY <2>1, <2>2, <2>3, <2>4 DEF FetchDue
<1>7. QED BY <1>5, <1>6 DEF FetchDue

\* Working through a batch changes no row.
LEMMA BatchKeeps ==
    ASSUME IInv, NEW d \in Dispatcher, TakeNext(d) \/ EndBatch(d) PROVE IInv'
<1>1. CASE TakeNext(d)
  <2>1. PICK c \in batch[d] :
          /\ current' = [current EXCEPT ![d] = c]
          /\ batch' = [batch EXCEPT ![d] = @ \ {c}]
    BY <1>1 DEF TakeNext
  <2>2. c \in Claim
    OBVIOUS
  <2>3. TypeOK' /\ HoldsClaim' /\ DeliveredForAReason'
    BY <1>1, <2>1, <2>2 DEF TakeNext
  <2>4. ClaimsBehind'
    BY <1>1, <2>1, <2>2 DEF TakeNext
  <2>5. QED BY <1>1, <2>3, <2>4 DEF TakeNext
<1>2. CASE EndBatch(d)
  BY <1>2 DEF EndBatch
<1>3. QED BY <1>1, <1>2

\* A delivery, whatever becomes of it, only adds to what the venue was sent.
LEMMA DeliveryKeeps ==
    ASSUME IInv, NEW d \in Dispatcher, Deliver(d) \/ SkipDelivery(d) \/ FailDelivery(d)
    PROVE  IInv'
<1>1. PICK ok \in BOOLEAN :
        /\ Published(d, ok)
        /\ ok => current[d].event \in received' \cup skipped'
  BY DEF Deliver, SkipDelivery, FailDelivery
<1>2. /\ pc[d] = "publish"
      /\ received' \in SUBSET Event /\ received \subseteq received'
      /\ skipped' \in SUBSET Event /\ skipped \subseteq skipped'
  BY DEF Deliver, SkipDelivery, FailDelivery
<1>3. /\ status' = status /\ attempts' = attempts /\ wait' = wait
      /\ webhook' = webhook /\ batch' = batch /\ current' = current
      /\ crashes' = crashes /\ stalls' = stalls /\ largest' = largest
      /\ pc' = [pc EXCEPT ![d] = "record"]
      /\ delivered' = [delivered EXCEPT ![d] = ok]
      /\ elapsed' = [elapsed EXCEPT ![d] = 0]
  BY <1>1 DEF Published
<1>4. TypeOK'
  BY <1>2, <1>3
<1>5. HoldsClaim' /\ ClaimsBehind'
  BY <1>2, <1>3
<1>6. DeliveredForAReason'
  BY <1>1, <1>2, <1>3
<1>7. QED BY <1>2, <1>3, <1>4, <1>5, <1>6

\* An outcome is recorded: the count never falls, and a row becomes sent with a
\* reason and failed after enough attempts.
LEMMA RecordKeeps ==
    ASSUME IInv, NEW d \in Dispatcher, MarkSent(d) \/ MarkRetry(d) \/ MarkFailed(d)
    PROVE  IInv'
<1> DEFINE e == current[d].event
<1>1. /\ pc[d] = "record" /\ current[d] \in Claim /\ e \in Event
      /\ status[e] # "absent" /\ current[d].attempts <= attempts[e]
      /\ current[d].attempts \in Nat /\ attempts[e] \in Nat
  BY DEF MarkSent, MarkRetry, MarkFailed
<1>2. /\ UNCHANGED <<venue, batch, elapsed, crashes, stalls, largest>>
      /\ pc' = [pc EXCEPT ![d] = "loop"]
      /\ current' = [current EXCEPT ![d] = NoClaim]
      /\ delivered' = [delivered EXCEPT ![d] = FALSE]
  BY DEF MarkSent, MarkRetry, MarkFailed, Recorded
<1>3. /\ status' \in [Event -> {"pending", "sent", "failed", "absent"}]
      /\ attempts' \in [Event -> Nat]
      /\ \A x \in Event : x # e => status'[x] = status[x] /\ attempts'[x] = attempts[x]
      /\ status'[e] # "absent" /\ attempts[e] <= attempts'[e]
  <2>1. CASE MarkSent(d)
    BY <1>1, <2>1 DEF MarkSent
  <2>2. CASE MarkRetry(d)
    BY <1>1, <2>2 DEF MarkRetry
  <2>3. CASE MarkFailed(d)
    BY <1>1, <2>3 DEF MarkFailed
  <2>4. QED BY <2>1, <2>2, <2>3
<1>4. wait' \in [Event -> Int]
  <2>1. CASE MarkRetry(d)
    <3>1. current[d].attempts + 1 \in 1..(MaxAttempts - 1)
      BY <1>1, TimesAssumption, <2>1 DEF MarkRetry, Exhausted
    <3>2. QED BY TimesAssumption, <1>1, <2>1, <3>1 DEF MarkRetry
  <2>2. CASE ~MarkRetry(d)
    BY <2>2 DEF MarkSent, MarkFailed
  <2>3. QED BY <2>1, <2>2
<1>5. TypeOK' /\ HoldsClaim' /\ DeliveredForAReason'
  BY <1>2, <1>3, <1>4
<1>6. ClaimsBehind'
  <2>1. SUFFICES ASSUME NEW f \in Dispatcher, NEW c \in ClaimsOf(f)'
                 PROVE  status'[c.event] # "absent" /\ c.attempts <= attempts'[c.event]
    OBVIOUS
  <2>2. c \in ClaimsOf(f) /\ c \in Claim
    BY NoClaimAssumption, <1>2, <2>1
  <2>3. status[c.event] # "absent" /\ c.attempts <= attempts[c.event]
    BY <2>2
  <2>4. c.event \in Event /\ c.attempts \in Nat
    BY <2>2
  <2>5. attempts[c.event] \in Nat /\ attempts'[c.event] \in Nat
    BY <1>3, <2>4
  <2>6. status'[c.event] # "absent" /\ attempts[c.event] <= attempts'[c.event]
    <3>1. CASE c.event = e
      BY <1>3, <3>1
    <3>2. CASE c.event # e
      <4>1. status'[c.event] = status[c.event] /\ attempts'[c.event] = attempts[c.event]
        BY <1>3, <2>4, <3>2
      <4>2. QED BY <2>3, <2>5, <4>1
    <3>3. QED BY <3>1, <3>2
  <2>7. QED BY <2>3, <2>4, <2>5, <2>6
<1>7. GivesUpLate'
  <2>1. CASE MarkFailed(d)
    BY TimesAssumption, <1>1, <1>3, <2>1 DEF MarkFailed, Exhausted
  <2>2. CASE MarkSent(d)
    BY <1>1, <1>3, <2>2 DEF MarkSent
  <2>3. CASE MarkRetry(d)
    BY TimesAssumption, <1>1, <1>3, <2>3 DEF MarkRetry
  <2>4. QED BY <2>1, <2>2, <2>3
<1>8. SentWasReceived'
  <2>1. CASE MarkSent(d)
    BY <1>1, <1>2, <2>1 DEF MarkSent
  <2>2. CASE MarkRetry(d)
    BY <1>2, <2>2 DEF MarkRetry
  <2>3. CASE MarkFailed(d)
    BY <1>1, <1>2, <2>3 DEF MarkFailed
  <2>4. QED BY <2>1, <2>2, <2>3
<1>9. QED BY <1>3, <1>5, <1>6, <1>7, <1>8

\* What the rest of the system does: new events, lost dispatchers, webhooks, time.
LEMMA OthersKeep ==
    ASSUME IInv,
           \/ \E e \in Event : Enqueue(e)
           \/ \E d \in Dispatcher : Abandon(d)
           \/ SetWebhook
           \/ Tick
    PROVE  IInv'
<1>1. CASE \E e \in Event : Enqueue(e)
  <2>1. PICK e \in Event : Enqueue(e)
    BY <1>1
  <2>2. TypeOK' /\ HoldsClaim' /\ DeliveredForAReason'
    BY <2>1 DEF Enqueue
  <2>3. ClaimsBehind'
    BY <2>1 DEF Enqueue
  <2>4. \A x \in Event : status'[x] = "absent" => attempts'[x] = 0
    BY <2>1 DEF Enqueue
  <2>5. GivesUpLate' /\ SentWasReceived'
    BY <2>1 DEF Enqueue
  <2>6. QED BY <2>2, <2>3, <2>4, <2>5
<1>2. CASE \E d \in Dispatcher : Abandon(d)
  <2>1. PICK d \in Dispatcher : Abandon(d)
    BY <1>2
  <2>2. QED BY NoClaimAssumption, <2>1 DEF Abandon
<1>3. CASE SetWebhook
  BY <1>3 DEF SetWebhook
<1>4. CASE Tick
  <2>1. wait' \in [Event -> Int] /\ elapsed' \in [Dispatcher -> Nat]
    BY TimesAssumption, <1>4 DEF Tick, Sooner
  <2>2. QED BY <1>4, <2>1 DEF Tick
<1>5. QED BY <1>1, <1>2, <1>3, <1>4

LEMMA Invariance == Spec => []IInv
<1>1. IInv /\ [Next]_vars => IInv'
  <2>1. SUFFICES ASSUME IInv, [Next]_vars PROVE IInv'
    OBVIOUS
  <2>2. CASE \E d \in Dispatcher : Step(d)
    BY <2>1, <2>2, FetchKeeps, BatchKeeps, DeliveryKeeps, RecordKeeps DEF Step
  <2>3. CASE Next /\ ~ \E d \in Dispatcher : Step(d)
    BY <2>1, <2>3, OthersKeep DEF Next
  <2>4. CASE UNCHANGED vars
    BY <2>1, <2>4
  <2>5. QED BY <2>1, <2>2, <2>3, <2>4
<1>2. QED BY <1>1, InitInvariant, PTL DEF Spec

-----------------------------------------------------------------------------

\* The rows and the dispatchers' memory keep their types; in particular no
\* status outside the schema's CHECK is ever written.
THEOREM TypeCorrect == Spec => []TypeOK
<1>1. IInv => TypeOK
  OBVIOUS
<1>2. QED BY <1>1, Invariance, PTL

\* ProcessOnce judges by the attempts FetchDue returned, which another dispatcher
\* may have overtaken; still no event is failed before maxAttempts failures.
THEOREM NeverGivenUpEarly == Spec => []GivesUpLate
<1>1. IInv => GivesUpLate
  OBVIOUS
<1>2. QED BY <1>1, Invariance, PTL

\* MarkSent never stands without a delivery or a venue that had no webhook.
THEOREM SentForAReason == Spec => []SentWasReceived
<1>1. IInv => SentWasReceived
  OBVIOUS
<1>2. QED BY <1>1, Invariance, PTL

-----------------------------------------------------------------------------
(* Claims: what a dispatcher holds, and for how long *)

HIDE DEF IInv, TypeOK, HoldsClaim, ClaimsBehind, ClaimsOf, DeliveredForAReason,
         GivesUpLate, SentWasReceived, rows, venue, vars, Claim

\* Outside a batch a dispatcher holds nothing; a batch is a page of at most Limit
\* different events, and the event being delivered is no longer in it.
Shape(d) ==
    /\ pc[d] = "idle" => batch[d] = {}
    /\ pc[d] \in {"idle", "loop"} => current[d] = NoClaim
    /\ pc[d] # "publish" => elapsed[d] = 0
    /\ elapsed[d] <= Timeout
    /\ IsFiniteSet(batch[d]) /\ Cardinality(batch[d]) <= Limit
    /\ current[d] \notin batch[d]
    /\ \A c, b \in ClaimsOf(d) : c.event = b.event => c = b

ClaimShape == \A d \in Dispatcher : Shape(d)

\* What a step does to the claims of d.
Keeps(d) ==
    /\ batch'[d] = batch[d] /\ current'[d] = current[d]
    /\ \/ pc'[d] = pc[d] /\ elapsed'[d] = elapsed[d]
       \/ pc[d] = "publish" /\ pc'[d] = "publish" /\ elapsed'[d] = elapsed[d] + 1
            /\ elapsed[d] < Timeout
       \/ pc[d] = "publish" /\ pc'[d] = "record" /\ elapsed'[d] = 0
       \/ pc[d] = "loop" /\ pc'[d] = "idle" /\ batch[d] = {} /\ elapsed'[d] = elapsed[d]
Drops(d) == batch'[d] = {} /\ current'[d] = NoClaim /\ pc'[d] = "idle" /\ elapsed'[d] = 0
Takes(d) ==
    /\ pc[d] = "loop" /\ pc'[d] = "publish" /\ elapsed'[d] = elapsed[d]
    /\ \E c \in batch[d] : current'[d] = c /\ batch'[d] = batch[d] \ {c}
Finishes(d) ==
    /\ pc[d] = "record" /\ pc'[d] = "loop" /\ elapsed'[d] = elapsed[d]
    /\ batch'[d] = batch[d] /\ current'[d] = NoClaim
Page(S) == {[event |-> e, attempts |-> attempts[e]] : e \in S}
Fetches(d) ==
    /\ pc[d] = "idle" /\ pc'[d] = "loop" /\ elapsed'[d] = elapsed[d]
    /\ current'[d] = current[d]
    /\ \E S \in SUBSET Due :
        /\ Cardinality(S) = IF Cardinality(Due) < Limit THEN Cardinality(Due) ELSE Limit
        /\ batch'[d] = Page(S)

\* A page of due events is as long as it may be and has each event once.
LEMMA PageBound ==
    ASSUME NEW S \in SUBSET Event, NEW T,
           Cardinality(S) = IF Cardinality(T) < Limit THEN Cardinality(T) ELSE Limit,
           T \subseteq Event
    PROVE  /\ IsFiniteSet(Page(S)) /\ Cardinality(Page(S)) <= Limit
           /\ Cardinality(S) \in Nat /\ Cardinality(Page(S)) <= Cardinality(S)
<1> DEFINE P == Page(S)
           f == [e \in S |-> [event |-> e, attempts |-> attempts[e]]]
<1>1. IsFiniteSet(S) /\ IsFiniteSet(T)
  BY InstanceAssumption, FS_Subset
<1>2. Cardinality(S) \in Nat /\ Cardinality(T) \in Nat /\ Cardinality(S) <= Limit
  BY <1>1, FS_CardinalityType, TimesAssumption
<1>3. f \in Surjection(S, P)
  BY DEF Surjection, Page
<1>4. IsFiniteSet(P) /\ Cardinality(P) <= Cardinality(S)
  BY <1>1, <1>3, FS_Surjection
<1>5. Cardinality(P) \in Nat
  BY <1>4, FS_CardinalityType
<1> QED BY <1>2, <1>4, <1>5, TimesAssumption

LEMMA ClaimsType ==
    ASSUME IInv, NEW d \in Dispatcher
    PROVE  /\ ClaimsOf(d) \subseteq Claim /\ batch[d] \subseteq Claim
           /\ current[d] # NoClaim => current[d] \in Claim
           /\ \A c \in Claim : c.event \in Event /\ c.attempts \in Nat
           /\ NoClaim \notin Claim
  BY NoClaimAssumption DEF IInv, TypeOK, ClaimsOf, Claim

LEMMA ClaimSteps ==
    ASSUME IInv, [Next]_vars, NEW d \in Dispatcher
    PROVE  Keeps(d) \/ Drops(d) \/ Takes(d) \/ Finishes(d) \/ Fetches(d)
<1> USE DEF IInv, TypeOK
<1>1. CASE \E e \in Event : Enqueue(e)
  BY <1>1 DEF Enqueue, Keeps
<1>2. ASSUME NEW f \in Dispatcher, FetchDue(f)
      PROVE  Keeps(d) \/ Fetches(d)
  <2>1. CASE f = d
    BY <1>2, <2>1 DEF FetchDue, Fetches, Page
  <2>2. CASE f # d
    BY <1>2, <2>2 DEF FetchDue, Keeps
  <2> QED BY <2>1, <2>2
<1>3. ASSUME NEW f \in Dispatcher, TakeNext(f)
      PROVE  Keeps(d) \/ Takes(d)
  BY <1>3 DEF TakeNext, Keeps, Takes
<1>4. ASSUME NEW f \in Dispatcher, EndBatch(f)
      PROVE  Keeps(d)
  BY <1>4 DEF EndBatch, Keeps
<1>5. ASSUME NEW f \in Dispatcher, Deliver(f) \/ SkipDelivery(f) \/ FailDelivery(f)
      PROVE  Keeps(d)
  BY <1>5 DEF Deliver, SkipDelivery, FailDelivery, Published, Keeps
<1>6. ASSUME NEW f \in Dispatcher, MarkSent(f) \/ MarkRetry(f) \/ MarkFailed(f)
      PROVE  Keeps(d) \/ Finishes(d)
  BY <1>6 DEF MarkSent, MarkRetry, MarkFailed, Recorded, Keeps, Finishes
<1>7. ASSUME NEW f \in Dispatcher, Abandon(f)
      PROVE  Keeps(d) \/ Drops(d)
  BY <1>7 DEF Abandon, Keeps, Drops
<1>8. CASE SetWebhook
  BY <1>8 DEF SetWebhook, Keeps
<1>9. CASE Tick
  BY <1>9 DEF Tick, Keeps
<1>10. CASE UNCHANGED vars
  BY <1>10 DEF vars, Keeps
<1> QED BY <1>1, <1>2, <1>3, <1>4, <1>5, <1>6, <1>7, <1>8, <1>9, <1>10 DEF Next, Step

LEMMA ShapeInit == Init => ClaimShape
  BY FS_EmptySet, NoClaimAssumption, TimesAssumption
     DEF Init, ClaimShape, Shape, ClaimsOf

LEMMA ShapeStep ==
    ASSUME IInv, ClaimShape, [Next]_vars
    PROVE  ClaimShape'
<1> SUFFICES ASSUME NEW d \in Dispatcher PROVE Shape(d)'
  BY DEF ClaimShape
<1>0. Shape(d) /\ elapsed[d] \in Nat /\ Timeout \in Nat
  BY TimesAssumption DEF ClaimShape, IInv, TypeOK
<1>1. CASE Keeps(d)
  BY <1>0, <1>1 DEF Keeps, Shape, ClaimsOf
<1>2. CASE Drops(d)
  BY <1>0, <1>2, FS_EmptySet, NoClaimAssumption, TimesAssumption DEF Drops, Shape, ClaimsOf
<1>3. CASE Takes(d)
  <2>1. PICK c \in batch[d] : current'[d] = c /\ batch'[d] = batch[d] \ {c}
    BY <1>3 DEF Takes
  <2>2. IsFiniteSet(batch'[d]) /\ Cardinality(batch'[d]) <= Limit
    <3>1. IsFiniteSet(batch[d]) /\ Cardinality(batch[d]) <= Limit
      BY <1>0 DEF Shape
    <3>2. Cardinality(batch'[d]) = Cardinality(batch[d]) - 1 /\ IsFiniteSet(batch'[d])
      BY <2>1, <3>1, FS_RemoveElement
    <3> QED BY <3>1, <3>2, FS_CardinalityType, TimesAssumption
  <2>3. ClaimsOf(d)' \subseteq ClaimsOf(d)
    BY <2>1 DEF ClaimsOf
  <2> QED BY <1>0, <1>3, <2>1, <2>2, <2>3 DEF Takes, Shape
<1>4. CASE Finishes(d)
  BY <1>0, <1>4, ClaimsType DEF Finishes, Shape, ClaimsOf
<1>5. CASE Fetches(d)
  <2>1. PICK S \in SUBSET Due :
          /\ Cardinality(S) = IF Cardinality(Due) < Limit THEN Cardinality(Due) ELSE Limit
          /\ batch'[d] = Page(S)
    BY <1>5 DEF Fetches
  <2>2. IsFiniteSet(batch'[d]) /\ Cardinality(batch'[d]) <= Limit
    BY <2>1, PageBound DEF Due
  <2>3. current[d] = NoClaim /\ current'[d] = NoClaim
    BY <1>0, <1>5 DEF Fetches, Shape
  <2>4. \A c \in Page(S) : c \in Claim /\ c = [event |-> c.event, attempts |-> attempts[c.event]]
    BY <2>1 DEF Page, Claim, Due, IInv, TypeOK
  <2>5. ClaimsOf(d)' = Page(S)
    BY <2>1, <2>3, NoClaimAssumption DEF ClaimsOf
  <2>6. NoClaim \notin Page(S)
    BY <2>4, NoClaimAssumption
  <2> QED BY <1>0, <1>5, <2>1, <2>2, <2>3, <2>4, <2>5, <2>6 DEF Fetches, Shape
<1> QED BY <1>1, <1>2, <1>3, <1>4, <1>5, ClaimSteps

-----------------------------------------------------------------------------
(* How often an event is recorded as failed *)

\* Dispatchers that would record another failure of e as one more attempt, and those
\* that would record it as the last.
Stale(e) == {d \in Dispatcher : \E c \in ClaimsOf(d) : c.event = e /\ ~Exhausted(c)}
Final(e) == {d \in Dispatcher : \E c \in ClaimsOf(d) : c.event = e /\ Exhausted(c)}

Unsettled == {"absent", "pending"}

\* While e can still be claimed, the failures recorded and those that stale claims may
\* add stay below the last attempt by all but one dispatcher; afterwards each claim
\* left may add one.
Bounded(e) ==
    /\ status[e] \in Unsettled =>
          attempts[e] + Cardinality(Stale(e)) <= MaxAttempts + Cardinality(Dispatcher) - 2
    /\ attempts[e] + Cardinality(Stale(e)) + Cardinality(Final(e))
          <= MaxAttempts + 2 * (Cardinality(Dispatcher) - 1)

LEMMA HolderCounts ==
    ASSUME NEW e
    PROVE  /\ Cardinality(Dispatcher) \in Nat \ {0}
           /\ Cardinality(Stale(e)) \in 0 .. Cardinality(Dispatcher)
           /\ Cardinality(Final(e)) \in 0 .. Cardinality(Dispatcher)
           /\ IsFiniteSet(Stale(e)) /\ IsFiniteSet(Final(e))
<1>1. Stale(e) \in SUBSET Dispatcher /\ Final(e) \in SUBSET Dispatcher
  BY DEF Stale, Final
<1>2. IsFiniteSet(Stale(e)) /\ IsFiniteSet(Final(e))
  BY <1>1, FS_Subset, InstanceAssumption
<1>3. /\ Cardinality(Stale(e)) <= Cardinality(Dispatcher)
      /\ Cardinality(Final(e)) <= Cardinality(Dispatcher)
  BY <1>1, FS_Subset, InstanceAssumption
<1>4. /\ Cardinality(Stale(e)) \in Nat /\ Cardinality(Final(e)) \in Nat
      /\ Cardinality(Dispatcher) \in Nat
  BY <1>2, FS_CardinalityType, InstanceAssumption
<1>5. Cardinality(Dispatcher) # 0
  BY FS_EmptySet, InstanceAssumption
<1> QED BY <1>2, <1>3, <1>4, <1>5

LEMMA HolderCountsNext ==
    ASSUME NEW e
    PROVE  /\ Cardinality(Stale(e)') \in 0 .. Cardinality(Dispatcher)
           /\ Cardinality(Final(e)') \in 0 .. Cardinality(Dispatcher)
           /\ IsFiniteSet(Stale(e)') /\ IsFiniteSet(Final(e)')
<1>1. Stale(e)' \in SUBSET Dispatcher /\ Final(e)' \in SUBSET Dispatcher
  BY DEF Stale, Final
<1>2. IsFiniteSet(Stale(e)') /\ IsFiniteSet(Final(e)')
  BY <1>1, FS_Subset, InstanceAssumption
<1>3. /\ Cardinality(Stale(e)') <= Cardinality(Dispatcher)
      /\ Cardinality(Final(e)') <= Cardinality(Dispatcher)
  BY <1>1, FS_Subset, InstanceAssumption
<1>4. /\ Cardinality(Stale(e)') \in Nat /\ Cardinality(Final(e)') \in Nat
      /\ Cardinality(Dispatcher) \in Nat
  BY <1>2, FS_CardinalityType, InstanceAssumption
<1> QED BY <1>2, <1>3, <1>4

\* A step that counts nothing and claims nothing.
LEMMA FewerHolders ==
    ASSUME IInv, NEW e \in Event, Bounded(e), attempts'[e] = attempts[e],
           status'[e] \in Unsettled => status[e] \in Unsettled,
           \A d \in Dispatcher : \A c \in ClaimsOf(d)' : c.event = e => c \in ClaimsOf(d)
    PROVE  Bounded(e)'
<1>0. /\ Cardinality(Dispatcher) \in Nat \ {0}
      /\ Cardinality(Stale(e)) \in 0 .. Cardinality(Dispatcher)
      /\ Cardinality(Final(e)) \in 0 .. Cardinality(Dispatcher)
      /\ Cardinality(Stale(e)') \in 0 .. Cardinality(Dispatcher)
      /\ Cardinality(Final(e)') \in 0 .. Cardinality(Dispatcher)
  BY HolderCounts, HolderCountsNext
<1>1. Stale(e)' \in SUBSET Stale(e) /\ Final(e)' \in SUBSET Final(e)
  BY DEF Stale, Final, Exhausted
<1>2. /\ Cardinality(Stale(e)') <= Cardinality(Stale(e))
      /\ Cardinality(Final(e)') <= Cardinality(Final(e))
  BY <1>1, HolderCounts, FS_Subset
<1>3. attempts[e] \in Nat /\ MaxAttempts \in Nat
  BY TimesAssumption DEF IInv, TypeOK
<1>4. status'[e] \in Unsettled =>
         attempts[e] + Cardinality(Stale(e)') <= MaxAttempts + Cardinality(Dispatcher) - 2
  BY <1>0, <1>2, <1>3 DEF Bounded
<1>5. attempts[e] + Cardinality(Stale(e)') + Cardinality(Final(e)')
         <= MaxAttempts + 2 * (Cardinality(Dispatcher) - 1)
  BY <1>0, <1>2, <1>3 DEF Bounded
<1> QED BY <1>4, <1>5 DEF Bounded

\* A dispatcher that claims e now has the count of now.
LEMMA FetchBounded ==
    ASSUME IInv, ClaimShape, NEW d \in Dispatcher, FetchDue(d), NEW e \in Event, Bounded(e)
    PROVE  Bounded(e)'
<1>0. /\ Cardinality(Dispatcher) \in Nat \ {0}
      /\ Cardinality(Stale(e)) \in 0 .. Cardinality(Dispatcher)
      /\ Cardinality(Final(e)) \in 0 .. Cardinality(Dispatcher)
      /\ Cardinality(Stale(e)') \in 0 .. Cardinality(Dispatcher)
      /\ Cardinality(Final(e)') \in 0 .. Cardinality(Dispatcher)
  BY HolderCounts, HolderCountsNext
<1>1. /\ status' = status /\ attempts' = attempts /\ Fetches(d)
      /\ \A f \in Dispatcher \ {d} : ClaimsOf(f)' = ClaimsOf(f)
  BY DEF FetchDue, Fetches, Page, ClaimsOf, IInv, TypeOK
<1>2. PICK S \in SUBSET Due : batch'[d] = Page(S)
  BY <1>1 DEF Fetches
<1>3. \A c \in ClaimsOf(d)' : c \in Page(S)
  BY <1>1, <1>2, NoClaimAssumption DEF Fetches, ClaimsOf, ClaimShape, Shape
<1>4. \A c \in Page(S) : c.event \in S /\ c.attempts = attempts[c.event]
  BY DEF Page
<1>5. attempts[e] \in Nat /\ MaxAttempts \in Nat
  BY TimesAssumption DEF IInv, TypeOK
<1>6. CASE e \notin S
  BY <1>1, <1>3, <1>4, <1>6, FewerHolders
<1>7. CASE e \in S
  <2>1. status[e] = "pending"
    BY <1>7 DEF Due
  <2>2. CASE attempts[e] + 1 >= MaxAttempts
    <3>1. \A c \in ClaimsOf(d)' : c.event = e => Exhausted(c)
      BY <1>3, <1>4, <2>2 DEF Exhausted
    <3>2. Stale(e)' \in SUBSET Stale(e)
      BY <1>1, <3>1 DEF Stale, Exhausted
    <3>3. Cardinality(Stale(e)') <= Cardinality(Stale(e))
      BY <3>2, HolderCounts, FS_Subset
    <3>4. attempts[e] + Cardinality(Stale(e)') <= MaxAttempts + Cardinality(Dispatcher) - 2
      BY <1>0, <1>5, <2>1, <3>3 DEF Bounded, Unsettled
    <3>5. attempts[e] + Cardinality(Stale(e)') + Cardinality(Final(e)')
             <= MaxAttempts + 2 * (Cardinality(Dispatcher) - 1)
      BY <1>0, <1>5, <3>4
    <3> QED BY <1>1, <3>4, <3>5 DEF Bounded
  <2>3. CASE ~(attempts[e] + 1 >= MaxAttempts)
    <3>1. attempts[e] <= MaxAttempts - 2 /\ attempts'[e] = attempts[e]
      BY <1>1, <1>5, <2>3
    <3>2. attempts[e] + Cardinality(Stale(e)') <= MaxAttempts + Cardinality(Dispatcher) - 2
      BY <1>5, <3>1, <1>0
    <3>3. attempts[e] + Cardinality(Stale(e)') + Cardinality(Final(e)')
             <= MaxAttempts + 2 * (Cardinality(Dispatcher) - 1)
      BY <1>5, <3>1, <1>0
    <3> QED BY <3>1, <3>2, <3>3 DEF Bounded
  <2> QED BY <2>2, <2>3
<1> QED BY <1>6, <1>7

\* Who records a failure holds no claim of the event any more.
LEMMA RecordBounded ==
    ASSUME IInv, ClaimShape, NEW d \in Dispatcher,
           MarkSent(d) \/ MarkRetry(d) \/ MarkFailed(d), NEW e \in Event, Bounded(e)
    PROVE  Bounded(e)'
<1>0. /\ Cardinality(Dispatcher) \in Nat \ {0}
      /\ Cardinality(Stale(e)) \in 0 .. Cardinality(Dispatcher)
      /\ Cardinality(Final(e)) \in 0 .. Cardinality(Dispatcher)
      /\ Cardinality(Stale(e)') \in 0 .. Cardinality(Dispatcher)
      /\ Cardinality(Final(e)') \in 0 .. Cardinality(Dispatcher)
  BY HolderCounts, HolderCountsNext
<1> DEFINE c == current[d]
<1>1. /\ c \in Claim /\ c \in ClaimsOf(d) /\ c.event \in Event
      /\ \A b \in batch[d] : b.event # c.event
  BY DEF MarkSent, MarkRetry, MarkFailed, ClaimsOf, ClaimShape, Shape, IInv, HoldsClaim, TypeOK,
         Claim
<1>2. /\ \A f \in Dispatcher \ {d} : ClaimsOf(f)' = ClaimsOf(f)
      /\ ClaimsOf(d)' = batch[d]
  BY NoClaimAssumption
     DEF MarkSent, MarkRetry, MarkFailed, Recorded, ClaimsOf, IInv, TypeOK
<1>3. \A f \in Dispatcher : ClaimsOf(f)' \subseteq ClaimsOf(f)
  BY <1>2 DEF ClaimsOf
<1>4. attempts[e] \in Nat /\ MaxAttempts \in Nat
  BY TimesAssumption DEF IInv, TypeOK
<1>8. /\ status[e] \in Unsettled =>
            attempts[e] + Cardinality(Stale(e)) <= MaxAttempts + Cardinality(Dispatcher) - 2
      /\ attempts[e] + Cardinality(Stale(e)) + Cardinality(Final(e))
            <= MaxAttempts + 2 * (Cardinality(Dispatcher) - 1)
  BY DEF Bounded
<1>5. status'[e] \in Unsettled => status[e] \in Unsettled
  BY DEF MarkSent, MarkRetry, MarkFailed, IInv, TypeOK, Unsettled
<1>6. CASE e # c.event \/ MarkSent(d)
  <2>1. attempts'[e] = attempts[e]
    BY <1>1, <1>6 DEF MarkSent, MarkRetry, MarkFailed, IInv, TypeOK
  <2> QED BY <1>3, <1>5, <2>1, FewerHolders
<1>7. CASE e = c.event /\ (MarkRetry(d) \/ MarkFailed(d))
  <2>1. attempts'[e] = attempts[e] + 1
    BY <1>1, <1>7 DEF MarkRetry, MarkFailed, IInv, TypeOK
  <2>2. d \notin Stale(e)' /\ d \notin Final(e)'
    BY <1>1, <1>2, <1>7 DEF Stale, Final
  <2>3. Stale(e)' \in SUBSET Stale(e) /\ Final(e)' \in SUBSET Final(e)
    BY <1>3 DEF Stale, Final, Exhausted
  <2>4. CASE MarkRetry(d)
    <3>1. d \in Stale(e) /\ status'[e] = status[e]
      BY <1>1, <1>7, <2>4 DEF MarkRetry, Stale
    <3>2. /\ Cardinality(Stale(e)') <= Cardinality(Stale(e)) - 1
          /\ Cardinality(Final(e)') <= Cardinality(Final(e))
      <4>1. Stale(e)' \in SUBSET (Stale(e) \ {d})
        BY <2>2, <2>3
      <4>2. /\ IsFiniteSet(Stale(e) \ {d})
            /\ Cardinality(Stale(e) \ {d}) = Cardinality(Stale(e)) - 1
        BY <3>1, HolderCounts, FS_RemoveElement
      <4> QED BY <2>3, <4>1, <4>2, HolderCounts, FS_Subset
    <3>3. status'[e] \in Unsettled =>
             attempts[e] + 1 + Cardinality(Stale(e)')
               <= MaxAttempts + Cardinality(Dispatcher) - 2
      BY <1>0, <1>4, <1>8, <3>1, <3>2
    <3>4. attempts[e] + 1 + Cardinality(Stale(e)') + Cardinality(Final(e)')
             <= MaxAttempts + 2 * (Cardinality(Dispatcher) - 1)
      BY <1>0, <1>4, <1>8, <3>2
    <3> QED BY <2>1, <3>3, <3>4 DEF Bounded
  <2>5. CASE MarkFailed(d)
    <3>1. d \in Final(e) /\ status'[e] = "failed"
      BY <1>1, <1>7, <2>5 DEF MarkFailed, Final, IInv, TypeOK
    <3>2. /\ Cardinality(Final(e)') <= Cardinality(Final(e)) - 1
          /\ Cardinality(Stale(e)') <= Cardinality(Stale(e))
      <4>1. Final(e)' \in SUBSET (Final(e) \ {d})
        BY <2>2, <2>3
      <4>2. /\ IsFiniteSet(Final(e) \ {d})
            /\ Cardinality(Final(e) \ {d}) = Cardinality(Final(e)) - 1
        BY <3>1, HolderCounts, FS_RemoveElement
      <4> QED BY <2>3, <4>1, <4>2, HolderCounts, FS_Subset
    <3>3. status'[e] \in Unsettled =>
             attempts[e] + 1 + Cardinality(Stale(e)')
               <= MaxAttempts + Cardinality(Dispatcher) - 2
      BY <3>1 DEF Unsettled
    <3>4. attempts[e] + 1 + Cardinality(Stale(e)') + Cardinality(Final(e)')
             <= MaxAttempts + 2 * (Cardinality(Dispatcher) - 1)
      BY <1>0, <1>4, <1>8, <3>2
    <3> QED BY <2>1, <3>3, <3>4 DEF Bounded
  <2> QED BY <1>7, <2>4, <2>5
<1> QED BY <1>6, <1>7

LEMMA StepBounded ==
    ASSUME IInv, ClaimShape, [Next]_vars, NEW e \in Event, Bounded(e)
    PROVE  Bounded(e)'
<1>1. ASSUME NEW d \in Dispatcher, FetchDue(d) PROVE Bounded(e)'
  BY <1>1, FetchBounded
<1>2. ASSUME NEW d \in Dispatcher, MarkSent(d) \/ MarkRetry(d) \/ MarkFailed(d)
      PROVE  Bounded(e)'
  BY <1>2, RecordBounded
<1>3. CASE \E f \in Event : Enqueue(f)
  <2>1. status'[e] \in Unsettled => status[e] \in Unsettled
    BY <1>3 DEF Enqueue, Unsettled, IInv, TypeOK
  <2>2. attempts'[e] = attempts[e]
    BY <1>3 DEF Enqueue, IInv, TypeOK
  <2>3. \A d \in Dispatcher : ClaimsOf(d)' = ClaimsOf(d)
    BY <1>3 DEF Enqueue, ClaimsOf
  <2> QED BY <2>1, <2>2, <2>3, FewerHolders
<1>4. ASSUME \/ \E d \in Dispatcher : \/ TakeNext(d) \/ EndBatch(d) \/ Abandon(d)
                                      \/ Deliver(d) \/ SkipDelivery(d) \/ FailDelivery(d)
             \/ SetWebhook \/ Tick \/ UNCHANGED vars
      PROVE  Bounded(e)'
  <2>1. status' = status /\ attempts' = attempts
    BY <1>4 DEF TakeNext, EndBatch, Abandon, Deliver, SkipDelivery, FailDelivery, Published,
                SetWebhook, Tick, vars, rows
  <2>2. ASSUME NEW d \in Dispatcher PROVE ClaimsOf(d)' \subseteq ClaimsOf(d)
    <3>1. \/ Keeps(d) \/ Drops(d) \/ Takes(d)
      BY <1>4 DEF TakeNext, EndBatch, Abandon, Deliver, SkipDelivery, FailDelivery, Published,
                  SetWebhook, Tick, vars, rows, Keeps, Drops, Takes, IInv, TypeOK
    <3> QED BY <3>1, NoClaimAssumption DEF Keeps, Drops, Takes, ClaimsOf
  <2> QED BY <2>1, <2>2, FewerHolders
<1> QED BY <1>1, <1>2, <1>3, <1>4 DEF Next, Step

LEMMA InitBounded == Init => \A e \in Event : Bounded(e)
<1> SUFFICES ASSUME Init, NEW e \in Event PROVE Bounded(e)
  OBVIOUS
<1>1. \A d \in Dispatcher : ClaimsOf(d) = {}
  BY NoClaimAssumption DEF Init, ClaimsOf
<1>2. Stale(e) = {} /\ Final(e) = {}
  BY <1>1 DEF Stale, Final
<1>3. Cardinality(Stale(e)) = 0 /\ Cardinality(Final(e)) = 0 /\ attempts[e] = 0
  BY <1>2, FS_EmptySet DEF Init
<1>4. Cardinality(Dispatcher) \in Nat \ {0} /\ MaxAttempts \in Nat \ {0}
  BY HolderCounts, TimesAssumption
<1> QED BY <1>3, <1>4 DEF Bounded

\* Publish's errors are counted by three UPDATEs that look neither at the row's status
\* nor at who claimed it: however many dispatchers overlap on one event, the count
\* stays within twice their number of the last attempt.
THEOREM FailuresBounded == Spec => []AttemptsBounded
<1> DEFINE J == ClaimShape /\ \A e \in Event : Bounded(e)
<1>1. Init => J
  BY ShapeInit, InitBounded
<1>2. IInv /\ J /\ [Next]_vars => J'
  BY ShapeStep, StepBounded
<1>3. IInv /\ J => AttemptsBounded
  <2> SUFFICES ASSUME IInv, NEW e \in Event, Bounded(e)
               PROVE  attempts[e] <= MaxAttempts + 2 * (Cardinality(Dispatcher) - 1)
    BY DEF AttemptsBounded
  <2>1. /\ attempts[e] \in Nat /\ Cardinality(Dispatcher) \in Nat
        /\ Cardinality(Stale(e)) \in Nat /\ Cardinality(Final(e)) \in Nat
    BY HolderCounts DEF IInv, TypeOK
  <2> QED BY <2>1, TimesAssumption DEF Bounded
<1> QED BY <1>1, <1>2, <1>3, Invariance, PTL DEF Spec

-----------------------------------------------------------------------------
(* Two dispatchers on one event *)

\* The longest d may still need for its batch when only deliveries take time.
Budget(d) ==
    Timeout * Cardinality(batch[d]) + (IF pc[d] = "publish" THEN Timeout - elapsed[d] ELSE 0)

InTime == largest * Timeout < Lease /\ stalls = 0

\* Claims are of different events, and each is due again only after its dispatcher
\* must be done.
Leased ==
    InTime => \A d \in Dispatcher : \A c \in ClaimsOf(d) :
        /\ wait[c.event] > Budget(d)
        /\ \A f \in Dispatcher \ {d} : \A b \in ClaimsOf(f) : b.event # c.event

LEMMA Products ==
    ASSUME NEW t \in Nat, NEW n \in Nat, NEW m \in Nat, n <= m
    PROVE  /\ t * n \in Nat /\ t * n <= t * m
           /\ n > 0 => t * (n - 1) = t * n - t
<1>1. PICK k \in Nat : m = n + k
  <2>1. m - n \in Nat /\ m = n + (m - n)
    OBVIOUS
  <2> QED BY <2>1
<1>2. t * m = t * n + t * k /\ t * n \in Nat /\ t * k \in Nat
  BY <1>1
<1> QED BY <1>2

\* A larger batch takes at least as long.
LEMMA Longer ==
    ASSUME NEW t \in Nat, NEW n \in Nat, NEW m \in Nat, n <= m, NEW l \in Nat, m * t < l
    PROVE  n * t < l /\ t * n \in Nat /\ t * n < l
<1> DEFINE x == t * n
           y == t * m
<1>1. x \in Nat /\ x <= y /\ y \in Nat
  BY Products
<1>2. y < l /\ n * t = x
  OBVIOUS
<1>3. x < l
  <2> HIDE DEF x, y
  <2> QED BY <1>1, <1>2
<1> QED BY <1>1, <1>2, <1>3

LEMMA BatchCount ==
    ASSUME ClaimShape, NEW d \in Dispatcher
    PROVE  /\ IsFiniteSet(batch[d]) /\ Cardinality(batch[d]) \in Nat
           /\ Cardinality(batch[d]) <= Limit
  BY FS_CardinalityType DEF ClaimShape, Shape

LEMMA BudgetType ==
    ASSUME IInv, ClaimShape, NEW d \in Dispatcher
    PROVE  /\ Budget(d) \in Nat
           /\ pc[d] = "publish" => Budget(d) >= Timeout - elapsed[d]
<1>1. Timeout * Cardinality(batch[d]) \in Nat
  BY BatchCount, Products, TimesAssumption
<1>2. elapsed[d] \in Nat /\ elapsed[d] <= Timeout /\ Timeout \in Nat
  BY TimesAssumption DEF IInv, TypeOK, ClaimShape, Shape
<1> QED BY <1>1, <1>2 DEF Budget

\* Only a tick in which d delivers changes its budget other than by letting it shrink.
LEMMA BudgetStep ==
    ASSUME IInv, ClaimShape, NEW d \in Dispatcher
    PROVE  /\ Keeps(d) \/ Drops(d) \/ Takes(d) \/ Finishes(d) =>
                Budget(d)' \in Int /\ Budget(d)' <= Budget(d)
           /\ pc[d] = "publish" /\ pc'[d] = "publish" /\ batch'[d] = batch[d]
                /\ elapsed'[d] = elapsed[d] + 1 => Budget(d)' = Budget(d) - 1
<1> DEFINE B == Timeout * Cardinality(batch[d])
<1>1. /\ elapsed[d] \in Nat /\ elapsed[d] <= Timeout /\ Timeout \in Nat
      /\ pc[d] # "publish" => elapsed[d] = 0
  BY TimesAssumption DEF IInv, TypeOK, ClaimShape, Shape
<1>2. B \in Nat
  BY BatchCount, Products, TimesAssumption
<1>3. ASSUME Keeps(d) PROVE Budget(d)' \in Int /\ Budget(d)' <= Budget(d)
  <2>1. Timeout * Cardinality(batch[d])' = B
    BY <1>3 DEF Keeps
  <2> HIDE DEF B
  <2> QED BY <1>1, <1>2, <1>3, <2>1 DEF Keeps, Budget, B
<1>4. ASSUME Drops(d) PROVE Budget(d)' \in Int /\ Budget(d)' <= Budget(d)
  <2>1. Budget(d)' = 0
    BY <1>1, <1>4, FS_EmptySet DEF Drops, Budget
  <2> QED BY <2>1, BudgetType
<1>5. ASSUME Takes(d) PROVE Budget(d)' \in Int /\ Budget(d)' <= Budget(d)
  <2>1. PICK c \in batch[d] : batch'[d] = batch[d] \ {c}
    BY <1>5 DEF Takes
  <2>2. Cardinality(batch'[d]) = Cardinality(batch[d]) - 1
    BY <2>1, BatchCount, FS_RemoveElement
  <2>3. Cardinality(batch[d]) > 0
    BY <2>1, BatchCount, FS_EmptySet
  <2>4. Timeout * Cardinality(batch'[d]) = B - Timeout
    BY <1>1, <2>2, <2>3, BatchCount, Products
  <2>5. Budget(d)' = B - Timeout + (Timeout - elapsed[d])
    BY <1>5, <2>4 DEF Takes, Budget
  <2>6. Budget(d) = B
    BY <1>2, <1>5 DEF Takes, Budget
  <2> HIDE DEF B
  <2> QED BY <1>1, <1>2, <2>5, <2>6
<1>6. ASSUME Finishes(d) PROVE Budget(d)' \in Int /\ Budget(d)' <= Budget(d)
  BY <1>2, <1>6 DEF Finishes, Budget
<1>7. ASSUME pc[d] = "publish", pc'[d] = "publish", batch'[d] = batch[d],
             elapsed'[d] = elapsed[d] + 1
      PROVE  Budget(d)' = Budget(d) - 1
  <2>1. Budget(d)' = B + (Timeout - (elapsed[d] + 1)) /\ Budget(d) = B + (Timeout - elapsed[d])
    BY <1>7 DEF Budget
  <2> HIDE DEF B
  <2> QED BY <1>1, <1>2, <2>1
<1> QED BY <1>3, <1>4, <1>5, <1>6, <1>7

\* A step that claims nothing and brings no claimed event's date forward.
LEMMA LeasedKept ==
    ASSUME IInv, ClaimShape, Leased, InTime' => InTime,
           \A d \in Dispatcher : ClaimsOf(d)' \subseteq ClaimsOf(d),
           \A d \in Dispatcher : \A c \in ClaimsOf(d)' :
               InTime /\ wait[c.event] > Budget(d) => wait'[c.event] > Budget(d)'
    PROVE  Leased'
<1> SUFFICES ASSUME InTime, NEW d \in Dispatcher, NEW c \in ClaimsOf(d)'
             PROVE  /\ wait'[c.event] > Budget(d)'
                    /\ \A f \in Dispatcher \ {d} : \A b \in ClaimsOf(f)' : b.event # c.event
  BY DEF Leased
<1>1. c \in ClaimsOf(d)
  OBVIOUS
<1>2. /\ wait[c.event] > Budget(d)
      /\ \A f \in Dispatcher \ {d} : \A b \in ClaimsOf(f) : b.event # c.event
  BY <1>1 DEF Leased
<1> QED BY <1>2

\* What the steps of one dispatcher, other than a claim, do to everybody's claims.
LEMMA ClaimsShrink ==
    ASSUME NEW d \in Dispatcher, Keeps(d) \/ Drops(d) \/ Takes(d) \/ Finishes(d)
    PROVE  ClaimsOf(d)' \subseteq ClaimsOf(d)
  BY NoClaimAssumption DEF Keeps, Drops, Takes, Finishes, ClaimsOf

\* An event can be claimed again only when no dispatcher can still be at it.
LEMMA FetchLeased ==
    ASSUME IInv, ClaimShape, Leased, NEW d \in Dispatcher, FetchDue(d)
    PROVE  Leased'
<1> SUFFICES ASSUME InTime' PROVE Leased'
  BY DEF Leased
<1>1. PICK S \in SUBSET Due :
        /\ Cardinality(S) = IF Cardinality(Due) < Limit THEN Cardinality(Due) ELSE Limit
        /\ wait' = Claimed(S)
        /\ batch' = [batch EXCEPT ![d] = Page(S)]
        /\ largest' = IF Cardinality(S) > largest THEN Cardinality(S) ELSE largest
  BY DEF FetchDue, Page
<1>0. /\ Cardinality(Page(S)) \in Nat /\ largest' \in Nat
      /\ Cardinality(Page(S)) <= largest' /\ InTime
  <2>1. /\ Cardinality(Page(S)) \in Nat /\ Cardinality(S) \in Nat
        /\ Cardinality(Page(S)) <= Cardinality(S)
    BY <1>1, PageBound, FS_CardinalityType DEF Due
  <2>2. largest \in Nat /\ largest' \in Nat /\ largest <= largest'
        /\ Cardinality(S) <= largest'
    BY <1>1, <2>1 DEF IInv, TypeOK
  <2>3. stalls' = stalls /\ stalls' = 0 /\ largest' * Timeout < Lease
    BY DEF FetchDue, InTime
  <2>4. largest * Timeout < Lease
    BY <2>2, <2>3, Longer, TimesAssumption
  <2>5. InTime
    BY <2>3, <2>4 DEF InTime
  <2>6. Cardinality(Page(S)) <= largest'
    BY <2>1, <2>2
  <2> QED BY <2>1, <2>2, <2>5, <2>6
<1>2. /\ pc[d] = "idle" /\ pc'[d] = "loop" /\ current'[d] = NoClaim
      /\ \A f \in Dispatcher \ {d} : ClaimsOf(f)' = ClaimsOf(f) /\ Budget(f)' = Budget(f)
  BY DEF FetchDue, ClaimsOf, ClaimShape, Shape, Budget, IInv, TypeOK
<1>3. ClaimsOf(d)' = Page(S)
  BY <1>1, <1>2, NoClaimAssumption DEF ClaimsOf, IInv, TypeOK
<1>4. \A f \in Dispatcher : \A b \in ClaimsOf(f) : b.event \notin S /\ b.event \in Event
  <2> SUFFICES ASSUME NEW f \in Dispatcher, NEW b \in ClaimsOf(f)
               PROVE  b.event \notin S /\ b.event \in Event
    OBVIOUS
  <2>1. wait[b.event] > Budget(f) /\ Budget(f) \in Nat /\ b.event \in Event
    BY <1>0, BudgetType, ClaimsType DEF Leased
  <2>2. wait[b.event] \in Int
    BY <2>1 DEF IInv, TypeOK
  <2> QED BY <1>1, <2>1, <2>2 DEF Due
<1>5. Budget(d)' < Lease
  <2>1. Cardinality(Page(S)) \in Nat /\ largest' \in Nat /\ Timeout \in Nat /\ Lease \in Nat
    BY <1>0, TimesAssumption
  <2>2. Cardinality(Page(S)) <= largest' /\ largest' * Timeout < Lease
    BY <1>0 DEF InTime
  <2>3. /\ Timeout * Cardinality(Page(S)) \in Nat
        /\ Timeout * Cardinality(Page(S)) < Lease
    BY <2>1, <2>2, Longer
  <2>4. batch'[d] = Page(S)
    BY <1>1 DEF IInv, TypeOK
  <2>5. Budget(d)' = Timeout * Cardinality(Page(S))
    BY <1>2, <2>3, <2>4 DEF Budget
  <2> QED BY <2>3, <2>5
<1> SUFFICES ASSUME NEW f \in Dispatcher, NEW c \in ClaimsOf(f)'
             PROVE  /\ wait'[c.event] > Budget(f)'
                    /\ \A g \in Dispatcher \ {f} : \A b \in ClaimsOf(g)' : b.event # c.event
  BY DEF Leased
<1>6. CASE f = d
  <2>1. c.event \in S /\ c.event \in Event
    BY <1>3, <1>6 DEF Page, Due
  <2>2. wait'[c.event] = Lease
    BY <1>1, <2>1 DEF Claimed
  <2>3. \A g \in Dispatcher \ {f} : \A b \in ClaimsOf(g)' : b.event # c.event
    BY <1>2, <1>4, <1>6, <2>1
  <2> QED BY <1>5, <1>6, <2>2, <2>3
<1>7. CASE f # d
  <2>1. c \in ClaimsOf(f) /\ Budget(f)' = Budget(f) /\ c.event \notin S /\ c.event \in Event
    BY <1>2, <1>4, <1>7
  <2>2. wait'[c.event] = wait[c.event]
    BY <1>1, <2>1 DEF Claimed
  <2>3. ASSUME NEW g \in Dispatcher \ {f}, NEW b \in ClaimsOf(g)'
        PROVE  b.event # c.event
    <3>1. CASE g = d
      BY <1>3, <2>1, <2>3, <3>1 DEF Page
    <3>2. CASE g # d
      BY <1>0, <1>2, <1>7, <2>1, <2>3, <3>2 DEF Leased
    <3> QED BY <3>1, <3>2
  <2> QED BY <1>0, <2>1, <2>2, <2>3 DEF Leased
<1> QED BY <1>6, <1>7

\* A failure that is recorded moves only the date of an event nobody claims any more.
LEMMA RecordLeased ==
    ASSUME IInv, ClaimShape, Leased, NEW d \in Dispatcher,
           MarkSent(d) \/ MarkRetry(d) \/ MarkFailed(d)
    PROVE  Leased'
<1> DEFINE c == current[d]
<1>1. /\ c \in ClaimsOf(d) /\ c \in Claim /\ \A b \in batch[d] : b.event # c.event
  BY DEF MarkSent, MarkRetry, MarkFailed, ClaimsOf, ClaimShape, Shape, IInv, HoldsClaim
<1>2. /\ Finishes(d) /\ ClaimsOf(d)' = batch[d] /\ stalls' = stalls /\ largest' = largest
      /\ \A f \in Dispatcher \ {d} : Keeps(f) /\ ClaimsOf(f)' = ClaimsOf(f)
      /\ \A e \in Event : e # c.event => wait'[e] = wait[e]
  BY NoClaimAssumption
     DEF MarkSent, MarkRetry, MarkFailed, Recorded, Finishes, Keeps, ClaimsOf, IInv, TypeOK
<1>3. \A f \in Dispatcher : /\ ClaimsOf(f)' \subseteq ClaimsOf(f)
                              /\ Budget(f)' \in Int /\ Budget(f)' <= Budget(f)
  BY <1>2, ClaimsShrink, BudgetStep
<1>4. ASSUME NEW f \in Dispatcher, NEW b \in ClaimsOf(f)', InTime, wait[b.event] > Budget(f)
      PROVE  wait'[b.event] > Budget(f)'
  <2>1. b.event # c.event
    BY <1>1, <1>2, <1>4 DEF Leased
  <2>2. b.event \in Event
    BY <1>3, <1>4, ClaimsType
  <2>3. wait'[b.event] = wait[b.event] /\ wait[b.event] \in Int
    BY <1>2, <2>1, <2>2 DEF IInv, TypeOK
  <2> QED BY <1>3, <1>4, <2>3, BudgetType
<1> QED BY <1>2, <1>3, <1>4, LeasedKept DEF InTime

\* In a tick without a stall everybody with a claim is in an HTTP call, whose time is
\* in the budget.
LEMMA TickLeased == ASSUME IInv, ClaimShape, Leased, Tick PROVE Leased'
<1>1. /\ \A d \in Dispatcher : ClaimsOf(d)' = ClaimsOf(d)
      /\ InTime' => InTime
      /\ InTime' => \A d \in Dispatcher : ~AtStatement(d)
  BY DEF Tick, ClaimsOf, InTime, IInv, TypeOK
<1> SUFFICES ASSUME InTime' PROVE Leased'
  BY DEF Leased
<1>2. ASSUME NEW d \in Dispatcher, NEW c \in ClaimsOf(d)', InTime, wait[c.event] > Budget(d)
      PROVE  wait'[c.event] > Budget(d)'
  <2>1. c \in ClaimsOf(d) /\ c.event \in Event /\ status[c.event] # "absent"
    BY <1>1, <1>2, ClaimsType DEF IInv, ClaimsBehind
  <2>2. pc[d] = "publish"
    <3>1. pc[d] # "idle"
      BY <2>1, NoClaimAssumption DEF ClaimShape, Shape, ClaimsOf
    <3> QED BY <1>1, <3>1 DEF AtStatement, IInv, TypeOK
  <2>3. pc'[d] = "publish" /\ batch'[d] = batch[d] /\ elapsed'[d] = elapsed[d] + 1
    BY <2>2 DEF Tick
  <2>4. Budget(d)' = Budget(d) - 1 /\ Budget(d) \in Nat
    BY <2>2, <2>3, BudgetStep, BudgetType
  <2>5. wait[c.event] \in Int /\ wait[c.event] > -MaxLag
    BY <1>2, <2>1, <2>4, TimesAssumption DEF IInv, TypeOK
  <2>6. wait'[c.event] = wait[c.event] - 1
    BY <2>1, <2>5, TimesAssumption DEF Tick, Sooner
  <2> QED BY <1>2, <2>4, <2>5, <2>6
<1> QED BY <1>1, <1>2, LeasedKept

LEMMA LeasedStep == ASSUME IInv, ClaimShape, Leased, [Next]_vars PROVE Leased'
<1>1. ASSUME NEW d \in Dispatcher, FetchDue(d) PROVE Leased'
  BY <1>1, FetchLeased
<1>2. ASSUME NEW d \in Dispatcher, MarkSent(d) \/ MarkRetry(d) \/ MarkFailed(d)
      PROVE  Leased'
  BY <1>2, RecordLeased
<1>3. CASE Tick
  BY <1>3, TickLeased
<1>4. ASSUME NEW e \in Event, Enqueue(e) PROVE Leased'
  <2>1. /\ \A d \in Dispatcher : Keeps(d)
        /\ InTime' => InTime
        /\ \A f \in Event : f # e => wait'[f] = wait[f]
    BY <1>4 DEF Enqueue, Keeps, InTime, IInv, TypeOK
  <2>2. ASSUME NEW d \in Dispatcher, NEW c \in ClaimsOf(d)', InTime, wait[c.event] > Budget(d)
        PROVE  wait'[c.event] > Budget(d)'
    <3>1. c \in ClaimsOf(d) /\ Budget(d)' \in Int /\ Budget(d)' <= Budget(d)
      BY <2>1, <2>2, ClaimsShrink, BudgetStep
    <3>2. c.event \in Event /\ c.event # e
      BY <1>4, <3>1, ClaimsType DEF Enqueue, IInv, ClaimsBehind
    <3>3. wait'[c.event] = wait[c.event] /\ wait[c.event] \in Int
      BY <2>1, <3>2 DEF IInv, TypeOK
    <3> QED BY <2>2, <3>1, <3>3, BudgetType
  <2> QED BY <2>1, <2>2, ClaimsShrink, LeasedKept
<1>5. ASSUME \/ \E d \in Dispatcher : \/ TakeNext(d) \/ EndBatch(d) \/ Abandon(d)
                                      \/ Deliver(d) \/ SkipDelivery(d) \/ FailDelivery(d)
             \/ SetWebhook \/ UNCHANGED vars
      PROVE  Leased'
  <2>1. wait' = wait /\ stalls' = stalls /\ largest' = largest
    BY <1>5 DEF TakeNext, EndBatch, Abandon, Deliver, SkipDelivery, FailDelivery, Published,
                SetWebhook, vars, rows
  <2>2. \A d \in Dispatcher : Keeps(d) \/ Drops(d) \/ Takes(d)
    BY <1>5 DEF TakeNext, EndBatch, Abandon, Deliver, SkipDelivery, FailDelivery, Published,
                SetWebhook, vars, rows, Keeps, Drops, Takes, IInv, TypeOK
  <2>3. \A d \in Dispatcher : /\ ClaimsOf(d)' \subseteq ClaimsOf(d)
                              /\ Budget(d)' \in Int /\ Budget(d)' <= Budget(d)
    BY <2>2, ClaimsShrink, BudgetStep
  <2>4. ASSUME NEW d \in Dispatcher, NEW c \in ClaimsOf(d)', InTime, wait[c.event] > Budget(d)
        PROVE  wait'[c.event] > Budget(d)'
    <3>1. wait[c.event] \in Int
      BY <2>3, <2>4, ClaimsType DEF IInv, TypeOK
    <3> QED BY <2>1, <2>3, <2>4, <3>1, BudgetType
  <2> QED BY <2>1, <2>3, <2>4, LeasedKept DEF InTime
<1> QED BY <1>1, <1>2, <1>3, <1>4, <1>5 DEF Next, Step

\* While no batch has been too large for the lease and only deliveries take time,
\* FetchDue's SKIP LOCKED and lease keep two dispatchers off one event: each claim is
\* leased past the instant by which its dispatcher must be done with all it still holds.
THEOREM OneDispatcherPerEvent == Spec => []Exclusive
<1>1. Init => ClaimShape /\ Leased
  <2>1. Init => \A d \in Dispatcher : ClaimsOf(d) = {}
    BY NoClaimAssumption DEF Init, ClaimsOf
  <2> QED BY <2>1, ShapeInit DEF Leased
<1>2. IInv /\ ClaimShape /\ Leased /\ [Next]_vars => (ClaimShape /\ Leased)'
  BY ShapeStep, LeasedStep
<1>3. IInv /\ Leased => Exclusive
  <2> SUFFICES ASSUME IInv, Leased, InTime, NEW d \in Dispatcher, NEW f \in Dispatcher, d # f
               PROVE  EventsOf(d) \cap EventsOf(f) = {}
    BY DEF Exclusive, InTime
  <2>1. \A g \in Dispatcher : EventsOf(g) = {c.event : c \in ClaimsOf(g)}
    BY ClaimsType DEF EventsOf, ClaimsOf
  <2>2. \A c \in ClaimsOf(d), b \in ClaimsOf(f) : b.event # c.event
    BY DEF Leased
  <2> QED BY <2>1, <2>2
<1> QED BY <1>1, <1>2, <1>3, Invariance, PTL DEF Spec

=================================================================================

----------------------------------- MODULE Server -----------------------------------
(***************************************************************************)
(* The life of the API process: start, serving, the signal, the grace      *)
(* period, the wait for the dispatcher, the close of the pool.  Requests   *)
(* are those of Api; of the dispatcher only what a shutdown can fall into  *)
(* is kept, the rest is Outbox.                                            *)
(***************************************************************************)
EXTENDS Api

VARIABLES
    proc,       \* "down", "serving", "draining", "joining" or "closing"
    cancelled,  \* the context of signal.NotifyContext is done
    elapsed,    \* SHUTDOWN_TIMEOUT has run out
    why,        \* how run() came to its end
    turn        \* the dispatcher: "off", "idle", "publishing", "recording" or "killed"

process == <<proc, cancelled, elapsed, why>>
vars == <<requests, pool, process, turn>>

TypeOK ==
    /\ RequestsTypeOK
    /\ proc \in {"down", "serving", "draining", "joining", "closing"}
    /\ cancelled \in BOOLEAN /\ elapsed \in BOOLEAN
    /\ why \in {"none", "config", "postgres", "listen", "grace", "clean"}
    /\ turn \in {"off", "idle", "publishing", "recording", "killed"}

Init ==
    /\ RequestsInit
    /\ pool = "closed"
    /\ proc = "down" /\ cancelled = FALSE /\ elapsed = FALSE /\ why = "none"
    /\ turn = "off"

-----------------------------------------------------------------------------
(* Start *)

\* A new process knows nothing of the requests of the last one.
Fresh ==
    /\ phase' = [q \in Request |-> "free"]
    /\ status' = [q \in Request |-> 0]
    /\ wrote' = [q \in Request |-> {}]
    /\ cancelled' = FALSE /\ elapsed' = FALSE
    /\ UNCHANGED <<caller, target, plan, at, open, pending>>

\* config.Load: a setting is missing or invalid.
Misconfigured ==
    /\ proc = "down"
    /\ why' = "config" /\ turn' = "off"
    /\ Fresh
    /\ UNCHANGED <<pool, proc>>

\* pgpool.New: Postgres does not answer the ping, or the signal comes first.
NoDatabase ==
    /\ proc = "down"
    /\ why' = "postgres" /\ turn' = "off"
    /\ Fresh
    /\ UNCHANGED <<pool, proc>>

\* run: pool, router, the dispatcher's goroutine, the server.
Start ==
    /\ proc = "down"
    /\ proc' = "serving" /\ pool' = "open" /\ turn' = "idle" /\ why' = "none"
    /\ Fresh

-----------------------------------------------------------------------------
(* The dispatcher: Run and ProcessOnce *)

\* Mutant: the queries are not given the context that is cancelled.
PollAnyway ==
    /\ turn = "idle"
    /\ FreeConnection
    /\ turn' = "publishing"
    /\ UNCHANGED <<requests, pool, process>>

\* FetchDue brings an event; a poll that brings none, or fails, changes nothing.
Poll ==
    /\ turn = "idle" /\ ~cancelled
    /\ FreeConnection
    /\ turn' = "publishing"
    /\ UNCHANGED <<requests, pool, process>>

\* The webhook is called under ctx; the venue may have it although the call fails.
Publish ==
    /\ turn = "publishing"
    /\ turn' = "recording"
    /\ UNCHANGED <<requests, pool, process>>

\* MarkSent, MarkRetry or MarkFailed, then the next event of the batch or the ticker.
Record ==
    /\ turn = "recording" /\ ~cancelled
    /\ FreeConnection
    /\ turn' \in {"publishing", "idle"}
    /\ UNCHANGED <<requests, pool, process>>

\* Under a cancelled context, or when the database fails, ProcessOnce ends here: the
\* event keeps its lease and comes up again.
RecordFails ==
    /\ turn = "recording"
    /\ turn' = "idle"
    /\ UNCHANGED <<requests, pool, process>>

StopDispatcher ==
    /\ turn = "idle" /\ cancelled
    /\ turn' = "off"
    /\ UNCHANGED <<requests, pool, process>>

-----------------------------------------------------------------------------
(* Shutdown *)

\* SIGTERM or SIGINT.
Interrupt ==
    /\ proc # "down" /\ ~cancelled
    /\ cancelled' = TRUE
    /\ UNCHANGED <<requests, pool, proc, elapsed, why, turn>>

\* ListenAndServe returns an error: run returns it without waiting for the dispatcher.
ListenFails ==
    /\ proc = "serving"
    /\ proc' = "closing" /\ pool' = "closed" /\ why' = "listen"
    /\ UNCHANGED <<requests, cancelled, elapsed, turn>>

\* httpServer.Shutdown begins: the listener is closed.
Shutdown ==
    /\ proc = "serving" /\ cancelled
    /\ proc' = "draining"
    /\ UNCHANGED <<requests, pool, cancelled, elapsed, why, turn>>

\* No request is left in progress.
Drained ==
    /\ proc = "draining"
    /\ \A q \in Request : ~Running(q)
    /\ proc' = "joining"
    /\ UNCHANGED <<requests, pool, cancelled, elapsed, why, turn>>

Elapse ==
    /\ proc = "draining" /\ ~elapsed
    /\ elapsed' = TRUE
    /\ UNCHANGED <<requests, pool, proc, cancelled, why, turn>>

\* Mutant: without context.WithoutCancel.
NoGrace == cancelled

\* The shutdown context is not derived from the cancelled one: only the timer ends it.
GraceIsOver == elapsed

GraceOver ==
    /\ proc = "draining"
    /\ GraceIsOver
    /\ proc' = "closing" /\ pool' = "closed" /\ why' = "grace"
    /\ UNCHANGED <<requests, cancelled, elapsed, turn>>

\* Mutant: run does not wait.
ReturnAtOnce ==
    /\ proc = "joining"
    /\ proc' = "closing" /\ pool' = "closed" /\ why' = "clean"
    /\ UNCHANGED <<requests, cancelled, elapsed, turn>>

\* wg.Wait returns, and run after it.
Join ==
    /\ proc = "joining"
    /\ turn = "off"
    /\ proc' = "closing" /\ pool' = "closed" /\ why' = "clean"
    /\ UNCHANGED <<requests, cancelled, elapsed, turn>>

\* pool.Close has got every connection back; main exits, and what still runs is cut.
Exit ==
    /\ proc = "closing"
    /\ open = {}
    /\ proc' = "down"
    /\ phase' = [q \in Request |-> IF Running(q) THEN "cut" ELSE phase[q]]
    /\ turn' = IF turn = "off" THEN "off" ELSE "killed"
    /\ UNCHANGED <<caller, target, plan, at, status, open, pending, wrote, pool,
                   cancelled, elapsed, why>>

-----------------------------------------------------------------------------

\* The listener accepts until Shutdown.
Arrive(q) == proc = "serving" /\ Receive(q)

Serve(q) == proc # "down" /\ Proceed(q)

Break(q) == proc # "down" /\ Fail(q)

Lifecycle ==
    \/ Misconfigured \/ NoDatabase \/ Start \/ Interrupt \/ ListenFails
    \/ Shutdown \/ Drained \/ Elapse \/ GraceOver \/ Join \/ Exit

Dispatch == Poll \/ Publish \/ Record \/ RecordFails \/ StopDispatcher

Next ==
    \/ \E q \in Request :
          (Arrive(q) \/ Serve(q) \/ Break(q)) /\ UNCHANGED <<pool, process, turn>>
    \/ Lifecycle
    \/ Dispatch

Spec == Init /\ [][Next]_vars

\* The pool serves its waiters in order, so a statement that waits again and again for
\* a connection gets one; the goroutines of the process are scheduled and its timer
\* fires.  Nothing makes a request arrive, a signal come or the process start.
Fairness ==
    /\ \A q \in Request : SF_vars(Serve(q) /\ UNCHANGED <<pool, process, turn>>)
    /\ WF_vars(Shutdown) /\ WF_vars(Drained \/ GraceOver) /\ WF_vars(Elapse)
    /\ WF_vars(Join) /\ WF_vars(Exit)
    /\ WF_vars(Publish) /\ WF_vars(RecordFails) /\ WF_vars(StopDispatcher)

FairSpec == Spec /\ Fairness

-----------------------------------------------------------------------------
(* Properties *)

\* The process ends a request in progress only after the grace period of a shutdown, or
\* when its listener fails (httpserver.go's comment on context.WithoutCancel).
CutOnlyAfterGrace ==
    \A q \in Request : phase[q] = "cut" => why = "listen" \/ elapsed

\* An exit that run() reports as graceful has left no request unanswered, no
\* transaction open and no delivery half way.
CleanExit ==
    proc = "down" /\ why = "clean" =>
        /\ turn = "off"
        /\ open = {}
        /\ \A q \in Request : phase[q] # "cut"

\* Every request is answered or cut by the end of the process: none waits for ever for
\* a connection, however few the pool has.
Answered == \A q \in Request : Running(q) ~> ~Running(q)

\* A signal ends the process.
Stops == cancelled ~> proc = "down"

=============================================================================

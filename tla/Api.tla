------------------------------------ MODULE Api ------------------------------------
(***************************************************************************)
(* Requests to the two HTTP APIs on their way through middleware, handler, *)
(* service and repositories: each walks the plan of its operation, taking  *)
(* connections from one pgx pool.                                          *)
(*                                                                         *)
(* A request outside a transaction takes a connection for one statement;   *)
(* one inside keeps its own from BEGIN to COMMIT or ROLLBACK.  Row locks   *)
(* are the business of Checkout and Cart.                                  *)
(***************************************************************************)
EXTENDS Routes, FiniteSets

CONSTANTS
    Request,    \* requests in progress at one time
    Caller,     \* the venues and clients requests are made for
    Row,        \* the orders, items, offers and cart lines a request can name
    Owners,     \* [Row -> SUBSET Caller]: an order has its client and its venue
    PoolSize,   \* pgxpool's MaxConns
    Served      \* [Request -> SUBSET Plans]: what each of them may ask for

\* Rows that no request names: those that carry the caller's id, among them a new order;
\* the stock, the offers and the menu version of the venue that is ordered from; and the
\* item that an offer is put on, whosever it is.
Kind == {"own", "order", "shelf", "item"}

ASSUME RowAssumption == Owners \in [Row -> SUBSET Caller] /\ Row \cap Kind = {}
ASSUME PoolAssumption == PoolSize \in Nat \ {0}
ASSUME ServedAssumption == Served \in [Request -> SUBSET Plans]

VARIABLES
    phase,      \* where the request is: "free", "running", "answered" or "cut"
    caller,     \* who asks; of a partner request, the venue of its key
    target,     \* the row it names
    plan,       \* the plan of its operation
    at,         \* the next step of it
    status,     \* the HTTP status of the answer; 200 is any success
    open,       \* the requests that have a transaction
    pending,    \* what the transaction has written
    wrote,      \* what is committed of what the request has written
    pool        \* "open" or "closed"

requests == <<phase, caller, target, plan, at, status, open, pending, wrote>>

StatusCode == {0, 200, 400, 401, 404, 409, 422, 500, 503}

RequestsTypeOK ==
    /\ phase \in [Request -> {"free", "running", "answered", "cut"}]
    /\ caller \in [Request -> Caller]
    /\ target \in [Request -> Row]
    /\ plan \in [Request -> Plans]
    /\ at \in [Request -> Nat]
    /\ status \in [Request -> StatusCode]
    /\ open \in SUBSET Request
    /\ pending \in [Request -> SUBSET (Row \cup Kind)]
    /\ wrote \in [Request -> SUBSET (Row \cup Kind)]
    /\ pool \in {"open", "closed"}

RequestsInit ==
    /\ phase = [q \in Request |-> "free"]
    /\ caller \in [Request -> Caller]
    /\ target \in [Request -> Row]
    /\ plan = [q \in Request |-> <<>>]
    /\ at = [q \in Request |-> 1]
    /\ status = [q \in Request |-> 0]
    /\ open = {}
    /\ pending = [q \in Request |-> {}]
    /\ wrote = [q \in Request |-> {}]

-----------------------------------------------------------------------------
(* Steps *)

Running(q) == phase[q] = "running"

\* The step the request is at, if any is left.
AtStep(q) == Running(q) /\ at[q] \in 1 .. Len(plan[q])
Now(q) == plan[q][at[q]]

IsStatement(step) == step.do \notin {"rule", "begin", "commit"}

Owns(q) == caller[q] \in Owners[target[q]]

\* pool.Acquire.  Only transactions keep their connection from step to step.
FreeConnection == pool = "open" /\ Cardinality(open) < PoolSize

\* Mutant: repositories hold on to the pool and do not join the transaction.
OwnConnection(q) == FreeConnection

\* QuerierFromContext: the transaction in the context, or the pool.
Connection(q) == q \in open \/ FreeConnection

\* What a statement changes.
Writes(q) ==
    CASE Now(q).do = "insert" -> {"own"}
      [] Now(q).do = "order" -> {"order"}
      [] Now(q).do = "take" -> {"shelf"}
      [] Now(q).do = "attach" -> {"own", "item"}
      [] Now(q).do \in {"update", "each"} -> {target[q]}
      [] OTHER -> {}

Advance(q) == at' = [at EXCEPT ![q] = @ + 1]

\* The answer leaves, and the transaction is over, rolled back unless it was committed.
AnswerWith(q, s) ==
    /\ phase' = [phase EXCEPT ![q] = "answered"]
    /\ status' = [status EXCEPT ![q] = s]
    /\ open' = open \ {q}
    /\ pending' = [pending EXCEPT ![q] = {}]
    /\ plan' = [plan EXCEPT ![q] = <<>>]
    /\ at' = [at EXCEPT ![q] = 1]
    /\ UNCHANGED <<caller, target>>

\* A check of the Go code that holds.
Check(q) ==
    /\ AtStep(q)
    /\ Now(q).do = "rule"
    /\ Advance(q)
    /\ UNCHANGED <<phase, caller, target, plan, status, open, pending, wrote>>

\* A statement that finds its row.
Statement(q) ==
    /\ AtStep(q)
    /\ IsStatement(Now(q))
    /\ Connection(q)
    /\ Now(q).do \in {"find", "update", "each"} /\ Now(q).scoped => Owns(q)
    /\ IF q \in open
       THEN pending' = [pending EXCEPT ![q] = @ \cup Writes(q)] /\ UNCHANGED wrote
       ELSE wrote' = [wrote EXCEPT ![q] = @ \cup Writes(q)] /\ UNCHANGED pending
    /\ Advance(q)
    /\ UNCHANGED <<phase, caller, target, plan, status, open>>

\* UpdateAvailability skips an item that is not the venue's and answers without it.
Skip(q) ==
    /\ AtStep(q)
    /\ Now(q).do = "each" /\ ~Owns(q)
    /\ Connection(q)
    /\ AnswerWith(q, 200)
    /\ UNCHANGED wrote

\* A rule or an empty result becomes a domain error and its status.
Refuse(q) ==
    /\ AtStep(q)
    /\ IsStatement(Now(q)) => Connection(q)
    /\ Now(q).do = "find" => ~Owns(q)
    /\ \E code \in Now(q).codes : AnswerWith(q, StatusFor(code))
    /\ UNCHANGED wrote

BeginTx(q) ==
    /\ AtStep(q)
    /\ Now(q).do = "begin"
    /\ FreeConnection
    /\ open' = open \cup {q}
    /\ Advance(q)
    /\ UNCHANGED <<phase, caller, target, plan, status, pending, wrote>>

CommitTx(q) ==
    /\ AtStep(q)
    /\ Now(q).do = "commit"
    /\ open' = open \ {q}
    /\ wrote' = [wrote EXCEPT ![q] = @ \cup pending[q]]
    /\ pending' = [pending EXCEPT ![q] = {}]
    /\ Advance(q)
    /\ UNCHANGED <<phase, caller, target, plan, status>>

\* The strict handler writes the response.
Answer(q) ==
    /\ Running(q)
    /\ at[q] > Len(plan[q])
    /\ AnswerWith(q, 200)
    /\ UNCHANGED wrote

Proceed(q) ==
    \/ Check(q) \/ Statement(q) \/ Skip(q) \/ Refuse(q)
    \/ BeginTx(q) \/ CommitTx(q) \/ Answer(q)

\* Any error that is no domain error: INTERNAL_ERROR, or not ready.
FailStatus(step) == IF step.do = "ping" THEN 503 ELSE 500

\* The database fails, the pool is closed, or the client hangs up; a statement
\* that commits may have done so before the failure is noticed.
Fail(q) ==
    /\ AtStep(q)
    /\ Now(q).do # "rule"
    /\ AnswerWith(q, FailStatus(Now(q)))
    /\ \/ UNCHANGED wrote
       \/ /\ Now(q).do = "commit"
          /\ wrote' = [wrote EXCEPT ![q] = @ \cup pending[q]]
       \/ /\ IsStatement(Now(q)) /\ q \notin open
          /\ FreeConnection
          /\ Now(q).do \in {"update", "each"} /\ Now(q).scoped => Owns(q)
          /\ wrote' = [wrote EXCEPT ![q] = @ \cup Writes(q)]

\* A request comes in, in the place of one that is over.
Receive(q) ==
    /\ ~Running(q)
    /\ phase' = [phase EXCEPT ![q] = "running"]
    /\ \E c \in Caller, r \in Row, p \in Served[q] :
          /\ caller' = [caller EXCEPT ![q] = c]
          /\ target' = [target EXCEPT ![q] = r]
          /\ plan' = [plan EXCEPT ![q] = p]
    /\ at' = [at EXCEPT ![q] = 1]
    /\ status' = [status EXCEPT ![q] = 0]
    /\ wrote' = [wrote EXCEPT ![q] = {}]
    /\ UNCHANGED <<open, pending>>

-----------------------------------------------------------------------------
(* Properties *)

\* A row that a request names is changed only for its owner: venues and clients are
\* compared before the UPDATEs that are by id alone (getOwned, GetOrder), or in their
\* WHERE.  What a checkout takes, by id and unasked, from the stock, the offers and the
\* version of the venue it orders from is committed only together with the order.
OnlyOwnRows ==
    \A q \in Request :
        /\ \A r \in Row : r \in pending[q] \cup wrote[q] => caller[q] \in Owners[r]
        /\ "shelf" \in wrote[q] => "order" \in wrote[q]

\* A request that is refused (4xx) has changed nothing, although the partner's
\* statements commit one by one: whatever may refuse comes before what writes.
RefusalsChangeNothing ==
    \A q \in Request : status[q] \in 400 .. 499 => wrote[q] = {}

=============================================================================

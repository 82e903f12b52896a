# A verification of avito-kitchen-mvp in TLA+

The platform takes food orders for several venues: a customer fills a cart and
checks out, a venue is told of the order through a webhook, accepts or rejects
it and reports its progress. This directory models that program in TLA+, checks
the models with TLC on small instances and proves the properties that matter
most with TLAPS for every instance.

Paths are relative to the repository. `PROJECT.json` maps every definition to
the lines it models and lists the runs, the mutants that each property detects,
the hazards and the theorems.

## 1. The system

### Components

| component | where | state | operations |
| --- | --- | --- | --- |
| Checkout | `internal/usecase/order/checkout_service.go`, `internal/domain/order/checkout.go`, the repositories it calls | `menu_items`, `rescue_offers`, `orders`, `order_items`, `idempotency_keys`, `outbox_events`, `carts` | `PlaceOrder`: one transaction that claims the key, reads the cart and the venue, locks items and offers, prices every line, creates the order, decrements stock, writes the event, clears the cart |
| Order status | `internal/usecase/order/order_service.go`, `internal/usecase/partner/order_service.go`, `internal/domain/order/status.go`, `order_repo.go` | `orders.status`, `eta_at`, `reject_reason`, `order_status_history` | `CancelOrder`, `AcceptOrder`, `RejectOrder`, `AdvanceStatus` |
| Outbox dispatcher | `internal/usecase/outbox/dispatcher.go`, `outbox_repo.go`, `internal/adapter/webhook/publisher.go` | `outbox_events`: status, attempts, next_attempt_at | `FetchDue`, `Publish`, `MarkSent`, `MarkRetry`, `MarkFailed` |
| Venue emulator | `external/venue-pasta-roma/internal/kitchen` | in memory: stock, orders, reservations, seen events, calls still owed | the webhook handlers, the status ticker, staff corrections, the stock sync |
| Menu and its ETag | `internal/usecase/catalog/service.go`, `menu_repo.go` | the menu's tables, `menu_version` | partner edits, the bump after them, `GetMenu` with `If-None-Match` |
| Cart | `internal/usecase/order/cart_service.go`, `internal/domain/order/cart.go`, `cart_repo.go` | `carts`, `cart_items` | add, change, remove, clear; `Save` rewrites every line |
| Venue hours | `internal/domain/catalog/schedule.go`, `venue.go`, `venue_repo.go` | `venues.is_accepting_orders`, `venue_schedules` | profile update, listing with `onlyOpen`, the checkout's judgement, `NextOpenAfter` |
| Rescue offers and listings | `rescue_offer_repo.go`, `cursor.go`, `internal/usecase/partner/rescue_offer_service.go` | `rescue_offers` | create, cancel, use up, list by keyset pages |
| Stock sync | `ticker.go`, `server.go` of the emulator, `menu_repo.go` | the kitchen's stock and `menu_items.stock_qty` | a push of every dish each 30 s, and of one dish after a correction by staff |
| HTTP handlers, routing, errors, partner authentication | `internal/adapter/http`, `httperr`, `errs`, `txmanager.go`, `partner_auth_repo.go` | per request: where it is, its transaction, the connections of the pool | the 25 operations of both APIs and the probes: rules, statements, transaction, answer |
| Server lifecycle and configuration | `cmd/api/main.go`, `httpserver.go`, `pgpool.go`, `config.go` | the process, its context, the grace period, the dispatcher's goroutine | start, signal, drain, join, close |
| Generated code, emulator start-up, migrations, seeds | `internal/generated`, the emulator's `cmd`, `bootstrap`, `config`, `cmd/migrate`, `cmd/seed` | - | translation, one-shot tools |

### How they interact

Everything in the platform meets in PostgreSQL at READ COMMITTED. Checkout runs
in one transaction with row locks (`SELECT ... FOR UPDATE` in id order); cart
saves and cancellations are transactions without row locks on what they read;
the venue's transitions and menu edits are several statements committed one by
one. Checkout and cancellation write an event in their own transaction; the
dispatcher delivers it later, at least once and in no particular order; the
emulator answers by calling the partner API, from the webhook handler or from
its ticker, and keeps what it could not deliver for a later tick. It also overwrites
the platform's stock with its own. The customer polls menus, listings and orders.
All requests and the dispatcher of one process share its connection pool; a signal
cancels the dispatcher's context at once and gives the requests a grace period.

### What is hard

- *Concurrent transactions under READ COMMITTED.* Which rows a statement sees
  depends on when it runs; what was read without a lock may be gone when it is
  used (cart, order status, venue and schedule). Two lock orders exist
  (checkout: items then cart; cart save: cart then items).
- *Failure between statements.* A transaction rolls back anywhere; a sequence
  of autocommitted statements stops anywhere.
- *At-least-once delivery.* A lease that may run out, a crash between delivery
  and `MarkSent`, a lost HTTP answer: the emulator sees events again, late and in
  another order, and the platform sees calls again.
- *Time.* Rescue windows close while a checkout waits for a lock, schedules are
  evaluated both in SQL and in Go with different weekday numbers, leases and
  backoffs race with timeouts.
- *One pool and one process.* A request holds a connection for a statement or for a
  transaction; a shutdown falls into requests, deliveries and transactions.
- *Two numbers for one stock.* The platform sells before the kitchen has heard of it, and the
  kitchen overwrites what the platform has sold from.
- *One unit for several buyers.* Stock, rescue portions and the kitchen's own
  portions run short in the middle of a line. A line that an offer covers in part
  becomes two order items of one dish, and the kitchen compares each by itself.

### What makes each component correct

- Checkout: an order is one atomic purchase against one menu; nothing is
  oversold; one order per key; a replay is genuine; every order has its key and
  its event; checkouts do not deadlock.
- Order status: the status follows the table in `status.go`; ETA and reason fit
  the status; a cancellation and its event are committed together.
- Outbox: every event is settled in the end; it is not given up early, not
  recorded as failed without bound, not marked sent without a reason; a claimed
  event has one owner while the lease outlasts the batch.
- Emulator: stock is reserved once and released at most once; what the kitchen promises beyond its
  stock is one order's second line of a dish and does not add up over orders; the kitchen is not
  ahead of the platform; every order is decided.
- Stock sync: once the kitchen's stock rests, the platform sells what the kitchen has, unless the
  kitchen is short.
- HTTP: no request changes another's own rows, and what a checkout takes from a venue's dishes and
  offers is committed with the caller's order or not at all; a refusal has changed nothing; nobody
  waits for ever for a connection.
- Lifecycle: a shutdown cuts nothing off before the grace period, a clean exit leaves nothing half
  way, a signal ends the process.
- ETag: no stale 304; clients end with the menu as it is.
- Cart: one venue, one line per item; a client who waits sees every operation
  take effect once; every request is answered.
- Hours: the two spellings of the opening rule agree; the announced opening is
  the next one; an answer is the venue's, unless it was edited meanwhile.
- Offers: at most one usable offer per item; pages lose and repeat nothing.

## 2. The modules

| module | models | state and actions |
| --- | --- | --- |
| `OrderLines` | menu rows, offers, cart lines, pricing and decrements as pure operators | - |
| `OrderLedger` | what checkout promises: `Place` in one step | committed rows only |
| `Checkout` | `PlaceOrder` statement by statement | committed rows; per request `pc`, `req`, `seen` (the cart it read), `now`, `lines`, `held` (row locks), `answer`. A lock is one `LockRow` step; writes become visible at `Commit`; `Rollback` may come at any statement; the environment saves carts, edits the menu, cancels offers, opens and closes the venue |
| `OrderMachine` | the table in `status.go` | one status per order |
| `OrderStatus` | the four operations, their read and their writes apart | `row` is the order's columns, `history` and `notices` the tables; `Crash` between statements; `shared` remembers the orders that had two requests at once |
| `Outbox` | the dispatcher and the rows it works on | `wait` is `next_attempt_at` minus now; `elapsed` times the HTTP call; `crashes` and `stalls` count what the environment does to a dispatcher; `largest` remembers the largest batch so far |
| `Kitchen` | the emulator next to an abstract platform | `platform`, `cancels`, `sent` outside; `stock`, `seen`, `orders`, `held` in the emulator; handlers and one ticker with program counters. An order has up to two lines per dish, `Part`: what an offer covers of a cart line and the rest. `Enough` compares every line by itself, `CheckAndReserve` takes both, so `stock` may go below zero; staff may correct it to any integer |
| `StockSync` | `Kitchen` with the platform's stock and the pushes beside it | `shelf` is `stock_qty`; `push` are the updates a request has still to make; `Checkout` takes from the shelf what `Kitchen`'s `PlaceOrder` announces; `Apart` are the steps of `Kitchen` that touch neither |
| `Routes` | every operation of both APIs as its plans: sequences of rules, statements, BEGIN and COMMIT, one per path through handler, service and repositories; the codes and their HTTP status | - |
| `Api` | requests that walk their plan over one pool | `phase`, `plan`, `at`, `status`; `open` transactions hold a connection; `pending` and `wrote` are the rows written, uncommitted and committed. A row is the caller's own, the caller's order, a dish or offer on a venue's shelf, or an item put into an offer (`Kind`). `Check` is a rule, `Statement`, `Skip`, `Refuse`, `BeginTx`, `CommitTx`, `Answer` and `Fail` what may happen at a step |
| `Server` | the process around `Api`: start, failures, signal, `Shutdown`, join, close, exit, and of the dispatcher what a shutdown can fall into | `proc`, `cancelled`, `elapsed`, `why`, `turn` |
| `MenuCache` | writers of the menu and of its version, conditional readers | `menu` counts changes, `version` counts bumps, `editing` are requests before their bump, `missed` those cut off before it and not made up for |
| `ClientCart` | what a client is promised | venue, units, orders, last reply |
| `Cart` | the mutations, `Save` and the checkout's share of the cart, by statement | the rows; the lock on the cart's row, `forUpdate` (the checkout's locks, taken item by item in the order of ids) and `keyShare` (what inserted lines hold of their items until the Save commits); `hasty`: the requests that do not wait for the one before. `RefuseLine` is the CHECK that stops a quantity below one, which nothing in Go does for an addition |
| `VenueHours` | the schedule rule in both spellings, update, two-statement readers | `accepting`, `schedule`, the clock, one reader, `edited` |
| `Keyset` | the cursor and page operators; `InOrder` is the ORDER BY | - |
| `RescueOffers` | offers from creation to end, the feed page by page | offers, sellable items, the clock, one reader |
| `MC*` | instances for TLC | values of the constants |
| `*Proofs` | theorems | - |

`Checkout` instantiates `OrderLedger` over its own committed variables,
`OrderStatus` and `Kitchen` instantiate `OrderMachine` over the status of orders,
`Cart` instantiates `ClientCart` over the units of its lines. `StockSync` extends `Kitchen`, whose
steps are conjuncts of its own, and `Server` extends `Api`, which extends `Routes`.

Definitions carry the source's names where TLA+ allows it. A comment that says
"Mutant" marks a plausible bug of the following definition: a run finds its
property violated when the definition is replaced by it. Mutants are part of no
specification.

### Abstractions

- A transaction's writes are invisible until it commits and a row lock is
  exclusive, as PostgreSQL does it. Waiting is an action that is not enabled.
  The serial order of two claims of one key is the unique index, modelled as a
  lock on the key's row: a second `INSERT` waits for the first transaction.
- A plan of `Routes` is one path through an operation. A rule refuses with any of its codes, at any
  moment; a loop runs once, which is enough for what comes before what; values, row locks
  and what a statement does to a row are the business of the other modules.
- Names, texts, amounts beyond prices, identifiers, JSON and signatures are left out.
  A request body is the hash of it; a menu is the number of its changes.
- Money, stock and time are integers without width: amounts in minor units in
  an `int64` and stock in an `int` cannot reach their bounds by any number of orders a venue could cook.
- Time is slots or ticks. In `VenueHours` slot 0 is Sunday midnight and the clock
  wraps after a week. In `Kitchen` there is no time: what is scheduled may happen at
  any moment, which contains every timing.

## 3. The runs

| run | instance | what it shows |
| --- | --- | --- |
| `checkout_orders` | 2 requests, 2 clients, 1 key, 2 bodies, 2 items with stock 6 and 2, an offer for 2 units, 3 carts, a price cut, 1 clock tick | no stock or offer goes below zero and every unit is accounted for (`NeverOversold`, `StockAccounted`, `RescueUnitsAccounted`); one order per key, linked and announced (`OneOrderPerKey`, `CommittedWhole`); genuine replays; `Checkout` implements `OrderLedger` (`LedgerSpec`) |
| `checkout_answers` | 2 requests of one client under different keys, carts that share items and an offer | `NoWaitCycle`: no set of checkouts waits in a circle; `EveryAttemptAnswered` under fairness |
| `checkout_price` | 1 request | **violation** of `ChargedAsShown`, see section 6 |
| `orders_races` | 1 order, 2 requests, crashes anywhere | `DetailsMatchStatus`, `NoticesMatchHistory`; orders whose requests do not overlap implement `OrderMachine` (`MachineSpec`) |
| `orders_machine` | the same | **violation** of `StatusFollowsTable`, see section 6 |
| `outbox_delivery` | 2 events, 2 dispatchers, batch of 2, lease 2, timeout 1, 2 attempts, 1 crash | `GivesUpLate`, `AttemptsBounded`, `SentWasReceived`, `Exclusive`; `EverySettled` under fairness |
| `kitchen` | 1 order with two lines of 2 portions of one dish, 4 of it in stock, 2 handlers, 1 cancellation, corrections to 2 (each line fits, both do not) and to -1, 2 faults, the ticker's and a member of staff's pushes, pushes that fail any number of times | `ReservedAtMostOnce`, `NeverAhead`, `ShortByOneOrder`; under fairness `OrdersAreDecided` and `StocksAgree` |
| `api_requests` | 2 requests, 2 callers, 1 row of each, 1 connection; plans that write after a check, item by item, by one conditional UPDATE, in a transaction that may refuse in its middle, and the longest checkout, which takes from a venue's shelf and offers | `OnlyOwnRows`, `RefusalsChangeNothing`, `CutOnlyAfterGrace`, `CleanExit`; under fairness `Answered` and `Stops` |
| `menu_etag` | 2 clients, 2 editors, 4 changes | `NotModifiedIsFresh`; `ClientsCatchUp` under fairness |
| `cart_requests` | 3 requests, 3 items of 2 venues, quantities 2 and -1 | `OneVenueOneLine`; a client who waits for answers has the cart of `ClientCart` (`ClientCartSpec`); `EveryRequestAnswered` under fairness although `Save` and checkout may deadlock |
| `hours_week` | 2 slots a day, every schedule of one open day and every one of Monday and another day, three edits | `FilterMirrorsCheckout`, `ClosedUntilNext`, `QuietReadsAreRight` |
| `offers_feed` | 2 items, 3 offers, windows that meet, overlap, enclose and are empty, page sizes 0, 2 and 3 with a maximum of 2 | `AtMostOneActive`, `EverySteadyShown`, `SoonestFirstNoneTwice` |

The type invariants of the modules with a `*Proofs` module are proved (section 5) and not run;
`offers_feed` checks that of `RescueOffers`. `cart_requests` is the only run with `CHECK_DEADLOCK FALSE`:
a client has only so many requests, and when they are answered the system stops.

### The bounds and why they are enough

- *Two of each actor.* The races this code can lose are between two transactions
  over one row or two processes over one event. A third checkout, dispatcher or
  venue request adds no new kind of step, and what is proved (section 5) is proved for
  any number of them. `cart_requests` has three requests because two of them must first
  build up a cart for a third.
- *Two items, one offer.* Two rows of one kind are needed for a wrong lock order
  and for a cart of which one line fails; the offer's two units and a line of
  three make a line that is rescued in part. The cart with
  both items fits the stock twice, the cart with two of the second item once, and neither fits after
  the other: two orders, one order, a refused second order all occur, and the price
  cut takes the first cart below the minimum.
- *One clock tick in checkout.* The window is open or closed, which is all the
  code asks; the tick may fall between any two statements.
- *`MaxCrashes`, `MaxStalls`, `MaxFaults`, `MaxCancels`, `MaxChanges`.* Each bounds how
  often the environment misbehaves. One crash is enough to lose a batch at any step; two faults
  make a decision that is lost twice, or lost once with a redelivery or a restart besides. `MaxLag`
  in `Outbox` bounds how overdue an event is, which the code does not tell apart.
- *`Limit` 2, `Lease` 2, `Timeout` 1.* The relation of the code's 20, 60 s and 10 s: the lease
  outlasts one call and not a full batch of them (`Timeout < Lease <= Limit * Timeout`). A batch
  of one event fits its lease; one of two may outlast it, and then the dispatchers
  overlap, which `GivesUpLate`, `AttemptsBounded`, `SentWasReceived` and `EverySettled` must withstand. No
  stall is needed for that (`MaxStalls` 0); the theorems are about any number.
- *`MaxAttempts` 2.* The one failure that is retried and the one that is final. The
  code's 5 repeats the first.
- *`MaxSeen` 10.* Above the number of events of the instance, as 10000 is meant to be
  above that of a day; the case of a forgotten event is not explored.
- *One order in the kitchen.* Contention for a portion and the order of two orders' events are in the
  theorems of `KitchenProofs`, which hold for any number; the run is about one order's events,
  handlers and calls, and about liveness.
- *Quantities 2 and -1 in the cart.* Two additions make a line that is merged, 2 and -1 one that is
  reduced, and a first -1 one that the CHECK refuses in the middle of the Save.
- *One connection, two requests.* The pool is at its limit as soon as one of them has a transaction.
  The plans in the run are one for each way of writing; the theorems are about every plan.
- *Two slots a day.* An open day is open in the first, in the second or in both, so openings,
  closings and midnight all occur. `FilterMirrorsCheckout` is proved for any number.
- *Page sizes.* 0 and 3 are out of range on both sides, 2 is the maximum: pages end within
  the offers and at their end.

Symmetry is used only in the runs without liveness properties (`checkout_orders`,
`orders_races`, `orders_machine`, `offers_feed`), over requests, clients, keys and hashes,
orders, or the items of the feed: constants their specification does not tell apart.
The items of `Checkout` are numbers, because locks are taken in the order of ids.

### Fairness

- `Checkout`: a begun request keeps executing statements (weak fairness per
  request): a goroutine of the server, which holds its locks until it ends. Beginning
  a request, rolling back and everything the environment does is not fair.
- `Outbox`: time goes on and a dispatcher keeps polling: `Run` is a loop over a ticker.
  Deliveries may fail every time.
- `Kitchen`: some webhook handler that is busy goes on, an event is delivered for a first time (the outbox
  retries; that it gives up after five attempts is outside this run), the ticker ticks, and the
  ticker's batch comes to every order that stays due (strong fairness
  per order: a batch is every order that is due, and a call that is owed becomes due
  again whenever its delay has passed; which orders those are at a tick is left open,
  since the model has no clock).
  Faults are bounded, so an answer that is lost for ever is excluded.
- `StockSync`: the ticker takes a snapshot whenever its last push is over, and its pushes do
  not fail for ever before they come to the same dish (strong fairness per dish). Staff's pushes
  need no fairness.
- `Server`: a request goes on, with strong fairness, since pgxpool serves those who wait for a connection
  in the order they came; the grace period runs out, `Shutdown`, the join and the dispatcher's loop go on.
  Requests, signals, failures of the listener and of statements are not fair.
- `MenuCache`: requests go on to their bump, clients keep asking. That a request is
  cut off before its bump remains possible.
- `Cart`: requests go on, and PostgreSQL fails a statement of a wait cycle
  (`deadlock_timeout`). Without the second, `EveryRequestAnswered` is false.

## 4. How to read a property

Some properties speak of a situation the code can leave; each says so itself.

- `MachineSpec` maps an order with overlapping requests (`shared`) to its initial
  status, so it says nothing of it: `orders_machine` shows what may happen there.
- `DetailsMatchStatus` and `NoticesMatchHistory` hold for the targets the partner API documents: the
  runs give them to `VenueTargets`, the theorems assume them (`Documented`).
- `Exclusive` has the premise that no batch so far had so many events that their timeouts together
  outlast the lease, and that no dispatcher stalls between statements. With the code's 60 s and 10 s
  it speaks of a platform whose batches have had at most five events. Larger ones, up to the limit of
  20, do overlap, see section 6.
- `ShortByOneOrder` bounds a shortfall that the code does allow, see section 6. Like `ReservedOnce` its
  theorem has the premises that the kitchen remembers the events it has seen and that an order has
  at most one committed cancellation.
- `NotModifiedIsFresh` exempts the time between a change and its bump, and a bump
  that was lost until the next one.
- `ClientCartSpec` speaks of the client who waits for each answer; `hasty` clients
  are in the same run for `OneVenueOneLine` and `EveryRequestAnswered`.
- `QuietReadsAreRight` speaks of reads no edit falls into.
- `StockAccounted` is checked while the venue sets no stock itself (`StockValues`
  is empty in its run; `StockConserved` assumes it).
- `ReservedAtMostOnce` is checked and proved with at most one committed cancellation per order, and
  proved while the kitchen forgets no event (`Remembers`).
- `StocksAgree` has the premise that the kitchen's stock rests from some time on, and speaks of the
  dishes of which it is then not short: the platform refuses a negative number. Until then the two
  may be apart, see section 6.
- `OnlyOwnRows` and `RefusalsChangeNothing` compare what is written with who asks; what the rows
  then hold is the business of the other modules. `OnlyOwnRows` is about the rows a caller has: a checkout
  changes a venue's menu, version and offers by id and without asking whose they are, by design
  (`menu_repo.go:220`, `venue_repo.go:184`, `rescue_offer_repo.go:128`). Of these the property says that
  they are never committed without the caller's own order. The menu item an offer is put on is asked of
  nobody: the property says nothing of it, and the code accepts another venue's, see section 6.
- `ClientCartSpec` takes an addition of a number below one as long as something is left of the line.

## 5. What is proved

Theorems are `Spec => []P` or `Spec => AbstractSpec`, for every value of the constants that satisfies
the named assumptions in the module that declares them; `OneStory` and `CancellationsAnnounced` also
assume `Documented`, `ReservedOnce` and `ShortfallsDoNotAddUp` that `MaxCancels <= 1` and `[]Remembers`,
`StockConserved` that `StockValues = {}`.
Every safety property of a passing run and every refinement is stated by one of them; only liveness is left to TLC.

| module | theorem | establishes |
| --- | --- | --- |
| `CheckoutProofs` | `TypeCorrect`, `NoOverselling`, `AtMostOneOrder`, `LinkedKeys`, `OrdersAnnounced`, `WholeCommits`, `GenuineReplays` | the safety of checkout for any number of requests, items, offers, keys |
| | `NoDeadlock` | among any waiting checkouts one waits for none of the others |
| | `RescueUnitsConserved`, `StockConserved` | what is left of an offer or of finite stock and what committed orders took add up to what there was |
| | `ImplementsLedger` | `Spec => Ledger!Spec`: each order is one atomic purchase |
| `OrderStatusProofs` | `TypeCorrect`, `OneStory`, `CancellationsAnnounced`, `SerialImplementsMachine` | as long as the venue keeps to the documented targets, columns tell one story and an event exists exactly with a cancellation; refinement of `OrderMachine` for orders without overlap |
| `OutboxProofs` | `TypeCorrect`, `NeverGivenUpEarly`, `SentForAReason` | for any number of dispatchers and crashes |
| | `FailuresBounded` | at most `MaxAttempts + 2 * (dispatchers - 1)` failures are recorded of an event |
| | `OneDispatcherPerEvent` | while only deliveries take time and no batch so far was larger than fits the lease, an event has one dispatcher, whatever the limit, the lease and the timeout are |
| `CartProofs` | `TypeCorrect`, `CartSound` | one venue, one line per item |
| | `PatientClientServed` | `Spec => ClientCartSpec`: for a client who waits, each operation takes effect in one step, once |
| `RescueOffersProofs` | `TypeCorrect`, `OneUsableOffer` | one usable offer per item, counts not below zero, for any number of items, offers and windows |
| | `NothingSteadyMissed`, `PagesInOrder` | paging misses nothing that stayed and repeats nothing, for any page sizes |
| `KitchenProofs` | `TypesHold`, `ShortfallsDoNotAddUp`, `NeverFurther`, `ReservedOnce` | for any number of orders, dishes, handlers, corrections and faults: a shortfall is one order's and at most its smaller line, the kitchen not ahead, one reservation per order |
| | `SyncIsKitchen` | `SyncSpec => Spec`: with the stock sync beside it the kitchen is still `Kitchen`, so the above holds of it |
| `ServerProofs` | `PlansAreGood` | in every plan of every operation a step that settles the owner comes before an UPDATE by id of the caller's rows, an UPDATE by id of a venue's shelf is in a checkout's transaction with the order's INSERT before it, and whatever refuses comes before what is committed |
| | `TypesHold`, `RowsArePrivate`, `RefusalsAreFree`, `GraceIsGiven`, `CleanExitsAreClean` | for any number of requests, connections, callers and rows, over all operations |
| `CatalogProofs` | `FilterSound`, `QuietReadsSound` | the SQL rule is the Go rule for any day length |
| | `NextOpeningSound` | a closed venue stays closed until the opening it announces, and is open then |
| | `MenuTypes`, `NotModifiedSafe` | no stale 304 |

### The arguments

- **Checkout.** `NeverOversold` alone is not inductive: a step that commits
  subtracts what was priced earlier. `IInv` adds that locks are exclusive, that a
  request past pricing holds the rows of its lines (`LocksHeld`), and that what it
  priced is still what the rows say (`PricedIsCurrent`): another request cannot
  change them without the lock, and venue edits wait for it too
  (`LockedRowsStay`). `OneOrderPerKey` follows from `OrdersHaveKeys`, which needs that
  no key is committed while another request holds its claim (`ClaimedKeysFree`).
  The refinement uses the same invariant: the only step that changes committed
  rows through an order is `Commit`, and `PricedIsCurrent` makes it a `Place`
  against the rows of that very moment.
- **Deadlock.** Each transaction takes its rows table by table and by ascending id (`Before`). `Ordered`
  says what a request can hold at each statement and that the ids it has locked are smaller than those it has
  left, so all it holds is before what it asks for. Only finitely many requests are
  under way, so among those that wait one asks for a row that comes last (`Topmost`). The others hold only rows before what they ask
  for, hence before its row, and it waits for none of them.
- **Sums.** `SumFunction` adds values in an order that it chooses. `SumsAgree` shows that the
  choice does not matter, by induction on the number of values (`NatInduct`, for a set in place of a predicate), so that an
  order that is placed adds its lines and nothing else (`SumWithOneMore`). The commit takes the same from the rows, since
  what was priced is current (`IInv`), and nothing else moves an offer's count.
- **Order status.** A request may write over a row that has changed since, so the invariant must
  say of a row that is read (`ReadsFit`) what it says of the committed row, and
  that the operation was allowed by it (`DecisionsAllowed`). For the refinement,
  `NothingStale`: an order that is not shared still has the row its only request has read.
- **Outbox.** `GivesUpLate` needs that the count a dispatcher claimed with never exceeds
  the row's, since counts only grow. `AttemptsBounded` counts those who may still record a failure: the claims
  that would not exhaust the event (`Stale`) and those that would (`Final`), at most one per dispatcher. While the event can be
  claimed, attempts and stale claims together leave room for one last attempt of each dispatcher (`Bounded`). `Exclusive` needs that a
  claimed event is due again only after all that its dispatcher has left to do: as long as the largest batch fits the
  lease, `wait` of each event is above the timeouts of the rest of the batch (`Budget`), which time and deliveries lower
  together (`Leased`).
- **Menu.** The version is read before the menu. So whoever carries the current version has the
  current menu, or a bump is to come or missing; the invariant says this of the
  copies and of the half-finished reads, whose version is never ahead.
- **Cart.** Carts in the memory of requests are as sound as the committed one,
  with line ids not above the last id issued. They need not be storable; the lines that a Save has
  inserted are (`InsertedStorable`), and it commits when it has inserted all. For the refinement, `Serial`: of a client who waits only one request is in
  flight (`OneAtATime`), and what it will save is what its operation makes of the cart as it is committed
  now (`SavesWhatWasMeant`). The step that commits is then the abstract operation, every other one
  stutters. `UnitsAre` and the lemmas after it say what the three domain operations do to the units of a cart.
- **Kitchen.** `NeverAhead` needs that the answer the ticker is about to apply is still true of the
  platform (`Honest`); the platform's order only goes forward or is cancelled (`AllForward`), so what
  was true of it when it answered stays true. `ReservedAtMostOnce` needs the whole life of an order's two
  events (`Once`): before the first is remembered nothing is known of the order (`Unknown`), one handler decides it before
  it is tracked (`OneDecides`), one cancels it (`OneCancels`), and what is tracked with its lines has its
  dishes until then (`KeepsDishes`). For `ShortByOneOrder` (`Short`): every line passed the comparison, so an order
  that leaves a dish below zero leaves it short of its smaller line at most; while a dish is below zero no order with
  a line of it is reserved, so a shortfall is never added to, and it is paid back with its order's release.
- **Server.** `PlansAreGood` reads the order of steps off each of the plans. The invariant `Sound` carries it along a request:
  having passed an owner's step means being the owner, having taken from a shelf means having inserted an order in the same
  transaction, having committed something means being past what refuses.
  `Ending` says what each stage of the process leaves: no transaction and no request in progress once it joins,
  no delivery once it closes the pool, and an elapsed grace period or a failed listener where something was cut.
- **Hours.** `isoWeekday` and `goWeekday` are inverse on 0..6; a reader that no edit
  interrupted holds parts of the committed venue. `NextOpenAfter` is the least of the openings of the first day that has any
  (`NextOpening`); an instant at which the venue is open has an opening of its day before it (`OpensBefore`), so none comes earlier.
- **Offers.** Two offers of an item that are not cancelled have disjoint windows (`WindowsApart`), and no row changes its window
  or comes back from its cancellation (`Lasting`).
- **Pages.** `InOrder` returns its places in ascending order, each of them once: the place's rank is its position (`InOrderSound`). A page is
  then all that lies between two cursors, or its beginning (`PageOf`). The cursor is the last place shown
  (`CursorAtLast`), and every steady offer up to it has been shown (`ShownSoFar`).

### What is only model-checked

- Liveness and everything under fairness: `EveryAttemptAnswered`, `EverySettled`,
  `OrdersAreDecided`, `StocksAgree`, `ClientsCatchUp`, `EveryRequestAnswered`, `Answered`, `Stops`. The provers have
  no rule for fairness and `ENABLED`.
- `ChargedAsShown` and `StatusFollowsTable`, which are violated (section 6).

## 6. Where the code and its documents differ

Two differences are shown by a run each.

- `checkout_price`. A cart line remembers the price it was shown so that a change is
  reported "instead of silently charging a different amount"
  (`internal/domain/order/cart.go:13-16`). `buildCheckoutLine` makes that comparison only for a line without an offer
  (`checkout_service.go:238`); a line with an offer is charged the discounted price of
  the item's present price (`:281`). The run raises the price between cart and checkout.
- `orders_machine`. "Its status only ever changes through TransitionTo"
  (`internal/domain/order/order.go:40-42`), but `TransitionTo` judges the order as it was
  read, without a lock, and `ApplyTransition` (`order_repo.go:276`) writes whatever the row has by
  then. A cancellation and an acceptance are both judged by the order as created; the cancellation is
  written first and the acceptance over it, so the order goes from created to cancelled and from
  cancelled to confirmed, an edge that `status.go` does not have.

Others came up while modelling; the models contain them, and no property contradicts them.

- A failed checkout rolls its key back (`checkout_service.go:68`), so the key may be
  used again with another body, while `README.md:397-400` reads as if a key were kept.
- A venue's transition writes the status and its history row by two statements that commit
  separately (`order_repo.go:310`), so a transition can be without its row, while
  `README.md:583-584` says that each is recorded.
- `AdvanceStatus` does not limit its target beyond the table
  (`internal/usecase/partner/order_service.go:92`): a venue can confirm an order by it, without an ETA, and
  cancel one, which is recorded without an `order.cancelled` event.
- A batch of 20 events with 10 s each may outlast its lease of 60 s (`dispatcher.go:101`,
  `outbox_repo.go:32-37`, `publisher.go:56`), while `dispatcher.go:45-49` says that "two instances never both deliver the
  same event under normal operation" and `outbox_repo.go:32-36` that the lease need only outlast one attempt.
  Without the premise about the batch, TLC finds `Exclusive` false in the instance of
  `outbox_delivery`, with no crash and no stall: one dispatcher claims both events, its call for the first takes
  the whole timeout, and while its call for the second runs the lease ends and the other dispatcher claims that event.
  A dispatcher that crashes between delivery and `MarkSent` also delivers again, while
  `README.md:570-575` says that nothing is delivered twice. Receivers must expect it, and the emulator does.
- A cart line that a rescue offer covers in part becomes two order items of one dish
  (`internal/domain/order/checkout.go:96-117`) and two lines of the event (`events.go:57-66`). The emulator compares each of them
  with its stock and then takes both (`state.go:150-158`): it accepts an order it has too little for,
  and its stock goes below zero. `ShortByOneOrder` says by how much at most.
- Staff may correct the emulator's stock to a negative number (`server.go:50`, `state.go:178-186`). The platform's CHECK
  (`00004_menu.sql:30`) refuses every push of a negative stock, wherever it comes from, and the platform goes on
  selling from the number it has.
- A rescue offer may be put on any menu item: nothing compares the item's venue with the caller's
  (`rescue_offer_service.go:50-76`, `rescue_offer_repo.go:259`). In `Routes` the item is `Attach`ed, and no
  property calls it the caller's.
- An addition to a cart takes any quantity (`cart_service.go:116`, `cart.go:71-73`). A negative one reduces the line;
  when nothing is left the CHECK of `cart_items` fails the Save, and the client is answered 500 and not 4xx.
- In the emulator a cancellation before the creation
  releases nothing, and the creation reserves afterwards for good
  (`webhook.go:233`); two overlapping cancellations release twice (`webhook.go:241`).
  A 409 on a retried decision is taken as success (`ticker.go:81`), also when it
  means cancelled. An advance whose answer was lost is repeated without end (`ticker.go:53`).
- The loser of a race for the last portion gets "честный `INSUFFICIENT_STOCK`", and not an order that is
  quietly cancelled later (`README.md:348-349`). Between a checkout and the delivery of its event the sync pushes the kitchen's
  stock, which does not know of the order yet, over the platform's (`ticker.go:119`): the portion is on sale
  again, both orders are created, and the kitchen rejects one of them.
- The `RESCUE_...` codes are documented as 409 and 422 (`README.md:227-229`), and every code is said to be "covered here in one
  place" (`httperr.go:18-21`), but `statusFor` does not list them and answers 500. In `Routes` they do.
- The lifetime of the dispatcher: when the listener fails, `run` returns without waiting for it (`main.go:57`) and
  closes the pool under it. `CleanExit` is about the other exits.
- A cart mutation that committed reads the cart again for its answer (`cart_service.go:151`) and may answer 500 for what
  has been done. `RefusalsChangeNothing` is about 4xx.
- `UpdateAvailability` without `stockQty` makes the stock unlimited (`handlers.go:209`), and answers 200 for items it skipped
  because they are another venue's (`menu_repo.go:436`).
- Editing the menu and bumping its version are apart (`menu_repo.go:338`); offers are part of
  the menu's body and not of its version (`rescue_offer_service.go:50`).
- Overlapping edits of one cart undo each other (`cart_service.go:137`), and two first additions for
  different venues leave the cart with the later one's (`cart_repo.go:81`).
- A venue and its schedule are read by two statements (`venue_repo.go:145`, `:169`); with
  an edit between them the halves need not fit. `NextOpenAfter` leaves out a window that starts at this
  instant (`schedule.go:58`), which only matters to a caller that asks while the venue is open.
- A cancelled offer no longer excludes another for its window
  (`migrations/00005_rescue_offers.sql:24`), while the comment of `CancelOffer`
  (`rescue_offer_service.go:80-83`) says that it goes on excluding. `AtMostOneActive` holds either way.

## 7. What is not modelled

- *Generated API code*, apart from the binding of parameters and the answer, which are steps of `Routes` and `Api`; the
  conversions in `mapping.go`; access logs, request ids and the recovery from panics: they change no state.
- *Migrations and seeds*: one-shot tools that run before the service. Keys, checks and types of the schema are in the models.
- *Emulator start-up*: it waits, registers its webhook and loads its menu, one after the other. `Reload` is its effect.
- *The kitchen's listing, its ETA formula and the webhook's signature.*
- *A second process*: `Server` is one process. Two dispatchers are in `Outbox`.
- *Isolation levels above READ COMMITTED*: the code sets no isolation
  level and retries no transaction.
- *Clock skew*: the platform's hosts and PostgreSQL are taken to share a clock.

## 8. The plan

Done, in this order: checkout with its ledger and its proofs, order status,
outbox, emulator, ETag, cart, hours, offers; then the HTTP layer with the process around it and its proofs,
the stock sync, and the proofs of the emulator; then proofs of all safety properties that were only
model-checked: deadlock freedom, conserved stock, bounded failures, exclusive claims, the cart's refinement, the
announced opening, offers and pages.

Next:

1. **Delivery end to end.** Compose `OrderStatus`, `Outbox` and `StockSync`: a committed
   order's event is delivered at least once, the decision comes back, both sides agree in
   the end or the event is `failed`. The abstract specification is an order decided in
   one step; the refinement maps pending events and owed calls to "undecided".
2. **`Exclusive` with stalls and large batches.** How many dispatchers can work on one event at most, by the limit, the lease and the
   timeout, when a dispatcher stalls for a bounded time.
3. **`RescueOffers` by number.** That a reader who reaches the end has read at most as many pages as there are offers
   created.

## 9. Running it

    tlc -workers 4 -config checkout_orders.cfg MCCheckout
    tlapm CheckoutProofs.tla

`PROJECT.json` names the module and the configuration of every run. The longest
runs take about a minute; the proofs of `CheckoutProofs` several.

# TLA+ models and proofs of Atlas ERP Core

Atlas ERP Core is a modular monolith in Go: one HTTP process over one PostgreSQL
database, whose modules call each other through small ports and a synchronous
in-process event bus. This directory holds TLA+ models of what the process does
to its tables while requests race, statements fail and the process dies, of how it
starts, stops, is configured, answers and reports, and of how its migrations treat
the rows of earlier releases; TLC runs that check them on small instances; and TLAPS
proofs, for instances of any size, of almost every safety property and of the
refinements.

Every definition follows the code line by line of control (`PROJECT.json`, `map`,
names the lines); a step of a model is one SQL statement, one gateway call or one
decision of the bus, because that is where goroutines interleave and where errors
come from.

## The system

| part | state | operations | interacts with |
|---|---|---|---|
| customers | `customers` rows: document, name and email, status | create, update, deactivate; `IsActive` check for invoices | publishes `CustomerCreated` (no consumer) |
| invoices | `invoices` rows: status `Pending`, `Paid` | create; settle on `PaymentApproved`; list | asks customers; publishes `InvoiceCreated`, `InvoicePaid` |
| billing | `billings` rows: status, attempt number, one per invoice | create on `InvoiceCreated`; reactivate for a retry under `FOR UPDATE`; mark approved or failed on the payment events | publishes `BillingRequested` |
| payments | `payments` rows: billing, attempt, status, failure category | `ProcessBillingRequest` (reserve, charge, record, publish), from `BillingRequested` or `POST /payments` | gateway port; publishes `PaymentApproved`, `PaymentFailed` |
| event bus | subscribers in order of registration; two once-only fault flags | `Publish`: append to the outbox, run the handlers in the caller's goroutine and context, mark processed or failed | outbox, all modules |
| outbox | `outbox_events` rows: pending, processed, failed | append, mark processed, mark failed, through the executor of the context | bus |
| transactions | the transaction of a context | `WithinTransaction`: begin, run, commit, or roll back on error; `ExecutorFromContext` picks it up | repositories and recorder |
| runtime faults | one profile per process, once-only flags | decorates gateway, recorder and bus | configuration |
| gateway (mock) | none | approve, decline, time out, fail | payments |
| connection pool | connections out | begin, execute, release | every statement |
| process | what is open, the listener, the signal | `run`: start-up, `select`, graceful shutdown, deferred calls | all of the above |
| configuration | three layers of settings | `Load`: merge, parse, validate | process, runtime faults |
| HTTP layer, correlation | per request: id, recorder of status and category | middlewares, decode, validate, map errors, count, log | use cases, observability |
| observability | spans, counters, two providers | start and complete spans, count, shut down | bus, HTTP layer, process |
| migrations | version and dirty mark, schema, rows | `cmd/migrate` up and down, files 1 to 8 | the rows of every release |
| logging, benchmark | none that a result depends on | | |

`POST /invoices` is one long call: save the invoice, publish `InvoiceCreated`,
whose handler saves a billing and publishes `BillingRequested`, whose handler
opens a transaction, reserves the attempt with a `Pending` payment, calls the
gateway, records the outcome and publishes the result event, whose handlers pay
the invoice (publishing `InvoicePaid`) and conclude the billing; then commit, and
back through every `Publish`, each marking its event. `POST /payments` locks the
billing, reactivates it in a transaction of its own, and runs the same use case
for the attempt it read.

What is hard here, and which properties answer it:

* *Racing requests on one invoice.* A retry can arrive as soon as the billing
  row is committed, before the automatic charge has reserved its attempt. The
  billing handlers read and write the billing without locking it. What protects
  them is not visible in their code: the unique index on (billing, attempt), and
  the key-share lock that the payment's foreign key takes on the billing, which
  `FOR UPDATE` conflicts with (`ReservationExclusive`, `AttemptLedger`,
  `OneCallPerAttemptWithoutFaults`, `EveryRequestAnswered`).
* *Failure in the middle.* Only part of the call is transactional; errors travel
  back through nested `Publish` calls that themselves write to the outbox
  (`SettledTogether`, `OutboxTruthful`, `RepliesTruthful`, `CreationAnswered`).
* *Death of the process or of the client's connection, and lost acknowledgements
  of COMMIT*, followed by a retry (`HistoryAppendOnly`, `GatewayOutcomeKept`).
* *Duplicate delivery* of `BillingRequested` (the `duplicate_billing_requested`
  profile), possibly after a retry has moved the billing on.
* *Read-modify-write of customers* without transaction or version
  (`OnlyStaleUpdateReactivates`, `InvoicedCustomerWasActive`).
* *Holding a connection while waiting.* A transaction keeps its connection while it
  waits for row locks and for the gateway (`ConnectionsAccounted`,
  `EveryRequestAnswered`).
* *Stopping at the wrong moment.* A signal may come during start-up, the shutdown
  timeout may end with requests running, the listener may fail
  (`ClosedInOrder`, `NoTransactionCut`, `NilMeansGraceful`, `ProcessEnds`).
* *Early returns.* Every error path of a handler, of `Publish` and of `Load` must
  do all that the normal path does, once (`OneTrueAnswer`, `CategoryFitsStatus`,
  `CountersComplete`, `SpansNested`, `FailuresTraced`, `CountersAgree`,
  `RefusedForItsValue`), and the arithmetic of the timeout may overflow
  (`AcceptedIsRunnable`).
* *Migrations on a database in use*, killed half-way or run by two instances
  (`CleanMeansApplied`, `ExitTruthful`, `RowsConsistent`, `UpgradeKeepsRows`,
  `StuckByRowsOnly`).

`PROJECT.json` lists each hazard at its line with the properties that cover it.

## Modules

**`PaymentFlow`**: invoices, billing, payments, the bus as they use it, outbox,
transactions, fault profiles, gateway. Its state:

* `invoices`, `billings`, `payments`, `outbox`: the committed tables. Ids are
  fresh UUIDs, so a row is identified by the request that inserted it; amounts,
  dates and customer data decide nothing and are left out.
* `profile`, `triggered`: the fault profile of the process and whether its
  once-only fault has happened. The three flags of the code (bus, gateway,
  recorder) are one variable: a process has one profile, so at most one is used.
* `gatewayCalls`: which request charged which attempt. History only.
* per request: `pc` (next statement), `kind`, `inv`, `att` (the event's or
  snapshot's attempt number), `entity` and `loaded` (the Go values in memory),
  `tx` (what the open transaction has written and locked), `reply`.

One action per statement, named after the repository method or use case step. The
transaction of `GetProcessableBillingByInvoiceID` is `LockBilling`,
`UpdateBilling`, `CommitBilling`; the one of `ProcessBillingRequest` begins with
`FindPayment` and ends with `Commit` or `Rollback`. Locks are those PostgreSQL
takes for these statements: `RowLocked` (`FOR UPDATE`), `KeyShared` (foreign key
of an uncommitted payment), `Reserved` (uncommitted entry of the attempt's unique
index), `ApprovedInFlight` (the partial unique index on approved payments). After
a unique violation the transaction is aborted, so the reload of the concurrent
payment that follows it fails.

Faults, `MaxFaults` of them: `StatementFails` (any statement returns an error
without effect, taking the code's error path, including the statements that
record a failure), `CommitUnacknowledged`, `Disconnect` (the request context is
cancelled: nothing later succeeds), `Restart` (all requests are cut off, the flags
are reset). A lost acknowledgement of a statement that commits on its own has the
effect of a fault at the statement after it and is not a separate action.

**`Settlement`**: the abstract specification. Invoices are issued, billed once
and charged attempt by attempt; an attempt is concluded once, in a single step
that writes all three tables; only a failed attempt is followed by another. There
are no requests, locks, events or faults in it. `PaymentFlow` implements it
(`ImplementsSettlement`), with its committed tables as the refinement mapping.

**`Customers`**: create (document normalisation, `ExistsByDocument`, INSERT under
the unique index, `CustomerCreated`), update, deactivate, and `POST /invoices` up
to its INSERT, as autocommitted statements. `Digits` is what `NewDocument` makes
of the text a client wrote: several spellings of one document, or a rejection.
Name and email travel together and nothing depends on their text; they are one
value. `Conclude` covers a lost acknowledgement of the last statement.

**`SyncBus`**: the bus as a component: `Subscribe`, and `Publish` with its snapshot
of the handlers, append, dispatch loop, injected consumer failure, duplicate
delivery, mark and failure path. `events` keeps every call of `Publish` with its
loop variable and its outcome, `call[g]` the innermost call of a goroutine. A
handler that publishes starts a nested call and goes on when that returns
(`HandlerReturns`): after an error it returns it, as all handlers of the application
do; after a nested publication that worked it returns nil, unless it is one of the
`Transactional` handlers, which publish inside a transaction they have yet to commit,
and COMMIT fails (`tx.go:45`). `ProcessBillingRequest`, the handler of
`BillingRequested`, is the only one of these. The critical sections of the code (`mu`, `faultMu`) are
single steps; `options` is what `EventBusOptions` made of the fault profile, at most one
of the two faults. What the recorder is told is taken at its word here; `PaymentFlow`
has the transactions that may undo it.

**`PooledFlow`**: `PaymentFlow` on a connection pool. Every step is a step of
`PaymentFlow` that also finds a connection: `BeginTx` waits for one and keeps it
(`held`) until Commit or Rollback, `ExecutorFromContext` gives the statements of
handlers and recorder the one of their transaction, a statement outside borrows
one, and the gateway call keeps it. Nothing in the code bounds the wait but the
request's context.

**`Server`**: `run` of `cmd/api/main.go`. `phase` is the line `run` is at, `opened`
what it holds, `listener` and `errCh` the goroutine of `ListenAndServe`; each step of
the start-up may fail and returns through the calls deferred so far. A request is a
number of statements, each on a connection. `Shutdown` returns nil when all requests
are answered, or an error when its ten seconds are over; `pgxpool.Close` then refuses
new statements and waits for the running ones, without a timeout.

**`Configuration`**: `Load` as operators on three layers (process, `.env.<APP_ENV>`,
`.env`). A layer maps keys to texts; `Atoi` says which integer a text denotes, and
`Times` is the product on a machine word. `result` is the configuration or the name
of the first setting refused. The reference definitions are `Chosen` (whose overlay it
is: that of the first environment that process or base file name, or local),
`Effective` (the first layer that defines a key) and the conditions in the properties.
`StrongestLayerWins` also says when the overlay that was read is the one of the
environment that is reported; the two cases where it may not be are among the
observations below.

**`TracedBus`**: `SyncBus` with its telemetry. `spans` has one publish span per event
and one consume span per delivery, each with its status, recorded errors and number
of ends; `published`, `consumed` and `failures` are the counters, by label. Every step
is a step of `SyncBus` with what it emits. `SetStatus` keeps the highest of Unset,
Error and Ok, as the SDK does. A delivery is completed, and counted as a failure, by
the error its handler returned itself (`TracedHandlerReturns`), which may be there
although all it published answered Ok. The deferred `CompleteSpan(publishSpan, nil, "")` of
`bus.go:150` therefore leaves every publish span Ok, also when `Publish` fails. A
failed publication is found by its recorded error or by its last consume span, which
is what `FailuresTraced` says.

**`HttpEdge`**: one request from the correlation middleware to the log line. `check` is
the next check of the handler, `wire` what the client got, `recorded` and `errorType`
what the recorder saw, `executed` what the use case returned together with the
category of its span. An answer has its status, the id in its header and its body. A
path or method no route knows is answered by chi itself (`Unhandled`), past the
writers of `errors.go`: the header is set and the request is counted, but it has no
category and its body is a text or nothing. `Outcomes` lists, per use case, the errors its lines can return;
what leads to them is in `PaymentFlow` and `Customers`.

**`Migrations`**: `cmd/migrate` and what files 4 to 8 do to rows. `version` and
`dirty` are golang-migrate's marks, `schema` the version the tables really have. `Pay`
is the traffic of the release whose schema is in place: it writes the rows that schema
admits, so that the next command meets them. A file runs as one implicit transaction
between two marks; one that fails leaves the rows alone and the mark dirty, which is
what `StuckByRowsOnly` is about: without a kill there are three ways to get there, and
it names them with the rows they need.

**`MCPaymentFlow`**, **`MCCustomers`**, **`MCSyncBus`**, **`MCPooledFlow`**,
**`MCServer`**, **`MCConfiguration`**, **`MCTracedBus`**, **`MCHttpEdge`**,
**`MCMigrations`**: the small sets the runs use. `MCSyncBus` is the wiring of
`cmd/api/main.go` and the bus options of its fault profiles; `MCTracedBus` adds the
telemetry, and checks the properties of both.

The theorems are in **`PaymentFlow_proofs`** (tables, history and refinement, then
replies, gateway and outbox), **`PooledFlow_proofs`**, **`Customers_proofs`**,
**`TracedBus_proofs`** (the bus, then its spans, then its counters),
**`Server_proofs`**, **`Configuration_proofs`**, **`HttpEdge_proofs`** and
**`Migrations_proofs`**.

Operators commented "Wrong variant" are not part of a specification. Each is a
plausible mistake in the definition after it (a dropped lock, an ignored error);
`PROJECT.json`, `mutants`, says which property TLC finds violated when it takes
that definition's place, and so which code the property depends on.

## Runs

| run | instance | what it checks and shows |
|---|---|---|
| `payment_flow` | 3 requests, all 6 profiles, 2 faults; 1 invoice, and 2 under `outbox_append_failure` | all safety properties, `HistoryAppendOnly`, refinement of `Settlement`: hold |
| `pooled_flow` | 3 requests, 1 invoice, pools of 1 and 2 connections, duplicated delivery, 1 fault | no connection is lost; every request is answered; a requested billing is concluded unless something failed: hold |
| `customers` | 4 requests, 2 documents in 3 spellings and a wrong one, 1 fault | documents stay unique, answers stay true, only a stale update undoes a deactivation: hold |
| `bus` | 2 goroutines, 4 events, the application's handlers, one of them subscribed late, either once-only fault armed, 1 fault, a COMMIT after a nested success included | deliveries are complete and in order, an answer covers all nested events, injected faults happen once, spans and counters tell what the bus did, every `Publish` returns: hold |
| `server` | 2 requests of 2 statements | closing order, exit code, no cut transaction, the process ends: hold |
| `configuration` | 216 process layers, 8 overlays for 3 names, 12 base files, unreadable files | precedence, acceptance and refusal agree with their references: hold |
| `http_edge` | 2 requests, all routes, an unknown one included, inputs and outcomes | one true answer, category, counters and id: hold |
| `migrations` | 3 commands of releases 4, 6, 7, 8, up or down, 2 payments, 1 kill | marks and exit codes are true, upgrades keep the rows, only three files can get stuck: hold |
| `double_charge` | 2 requests, 1 fault | violation: an attempt can be charged twice after a crash |
| `audit_gap` | 2 requests, 1 fault | violation: a failed dispatch inside the payment transaction leaves no `failed` row |
| `attempt_race` | 2 requests, no fault | violation: the loser of a race for an attempt answers 500 |
| `lost_deactivation` | 3 requests, no fault | violation: an update racing a deactivation restores `Active` |

*Bounds.* Three requests on one invoice are a creator and two retries: the
smallest number with which a retry races a request that itself races another, and
with which a second retry finds what an interrupted first one left. Attempts reach
3 (creator fails, two retries). Invoices share no row, so a second one matters
only for process-wide state, the once-only flag: with one invoice and the
append profile the flag is always consumed by the first `InvoiceCreated`. With two
it can be consumed in one flow, re-armed by a restart, and hit any later publication
of the other; `SecondInvoiceForAppend` keeps the second invoice for that profile. Two faults give a fault
and a fault while recovering from it. Four customer requests are a creation and
three others racing on it. Four events on the bus are the longest chain the wiring
has (`InvoiceCreated`, `BillingRequested`, `PaymentApproved`, `InvoicePaid`), or two
goroutines with a nested event each.

A pool of one connection is the hardest case for a request that would need two, and
two connections let a holder wait for a lock of another holder. Two
requests of two statements put one on each side of every step of the shutdown, before,
inside and between statements. `Configuration` scales the word to 16 bits and the
millisecond to 1000 units, so that one timeout overflows to a negative duration and
another to a short positive one, as they do at 64 bits; whether a setting is blank,
malformed, out of range or valid is all that is told apart. Three commands are an
upgrade, one that is killed or fails, and one that finds what is left; two payments are
a payment and its retry. `Migrations` may stop when its commands are used up, so
deadlock is not checked there.

Requests, commands and the invoices of `migrations` are interchangeable; the runs
without a liveness property use that symmetry, the others none. `pooled_flow` has the
one profile that lengthens a flow: the others only replace an outcome, or stop the flow
with an error, which `RequestedBillingConcludes` excuses.

*Deadlock* is checked everywhere else: a state where no request can move and not all
are answered is an error. (`Quiescent` is the stuttering of a server with nothing
left to do, or of a bus nobody publishes on.)

*Fairness.* In `TracedBus`, weak fairness of `TracedStep(g)`: a goroutine inside
`Publish` keeps running. In `PooledFlow`, weak fairness of `PooledStep(r)` for every
request: the goroutine of an accepted request keeps running, PostgreSQL grants a lock
that stays available, pgxpool gives a free connection to one who waits, and a gateway
call returns because its context has a deadline. Nothing is strongly fair, neither
locks nor connections, so the run shows that no schedule of three requests starves one.
`Server` has weak fairness of `run` itself, of the listener's goroutine and of each
request, whose statements end because the gateway call has a deadline and, as
`pooled_flow` shows, lock waits end; the signal and the failure of the listener are not
fair. Arrivals and faults are nowhere fair. `FairSpec` of `PaymentFlow` (a request keeps
running) is the specification of `audit_gap`, so that its counterexample is not merely
a process that stops.

## Findings

1. `double_charge`. The `Pending` payment that reserves an attempt is inserted in
   the transaction that calls the gateway (`process_billing_request.go:165`). If
   the process or request dies after the call, or COMMIT fails, the reservation
   goes with the transaction and a retry charges the same attempt again.
   `CHANGELOG.md:100` says the reservation prevents duplicate execution. Without
   faults it does (`OneCallPerAttemptWithoutFaults`).
2. `audit_gap`. `handleDispatchFailure` marks the event failed through the
   executor of the context (`bus.go:241`), which for `PaymentApproved`,
   `PaymentFailed` and `InvoicePaid` is the transaction the error rolls back.
   `CHANGELOG.md:60` says failed dispatches leave an auditable `failed` status.
3. `attempt_race`. After a unique violation the existing payment is reloaded in
   the aborted transaction (`process_billing_request.go:138`), so the loser of the
   race answers 500. The test that expects the existing payment
   (`process_payment_test.go:203`) uses a repository without transactions.
4. `lost_deactivation`. `UpdateCustomer` writes back the status it read.

Met while modelling, and part of the models, but without a run of their own:

* `isSupportedAppEnv` ignores case and spaces, the check that keeps fault profiles out
  of production (`config.go:147`) does not: `APP_ENV=Production` is accepted with one.
  `AcceptedIsRunnable` therefore speaks of the exact spelling only.
* A blank `APP_ENV` in the process is skipped when the overlay is chosen
  (`config.go:227`) and taken, as "local", when the setting is read (`config.go:242`):
  the overlay is that of the environment in `.env`, the name reported is local. The
  other case is an overlay that itself sets another `APP_ENV`. `StrongestLayerWins`
  excepts these two.
* A timeout whose product wraps around to a short positive duration is accepted
  (`config.go:116`); `AcceptedIsRunnable` asks only that the wrapped value be positive.
* The router has no NotFound and no MethodNotAllowed handler, so chi answers these
  itself. Their bodies are without the `request_id` that `README.md:376` and
  `CHANGELOG.md:136` and `145` have in error responses (`CorrelationKept`: the header
  has it). Their category is empty in the log, and `normalizeMetricValue` counts them
  as `infrastructure_error`: a client that asks for an unknown path shows up as a
  failure of the infrastructure (`CategoryFitsStatus`).
* Use cases label an error by the line it came up at, handlers by what it is: a
  customer that is not found is `infrastructure_error` in the span
  (`update_customer.go:53`, `create_customer.go:67`) and `domain_error` in the answer.
* `000007_phase4_resilience.up.sql:26` builds a unique index over attempts that the
  same file has all set to 1; a billing with a retried payment, which the release
  before allows (`CHANGELOG.md:124`), makes it fail.
* `000008_phase6_architecture_readiness.up.sql:11` rewrites the status before line 22
  drops the check that forbids it; any outbox row makes it fail. Here and in file 7
  the file is rolled back and the database stays marked dirty, which the command
  cannot undo; the tests migrate empty databases only. `StuckByRowsOnly` is the list
  of such files, file 6 going down included, and says that it is complete.
* File 6 cannot be taken down once an invoice has two payments, nor applied again over
  billings that a release created, whose ids are not those of their payments (a
  rollback that was killed between files 6 and 5 leaves them).
* The publish span of a failed publication reads Ok (see `TracedBus`).

Everything else the runs ask holds; in particular no fault leaves a billing,
an invoice and a payment in disagreement.

## Proofs

Every theorem holds for every value of the constants that the module's assumption
admits: any sets of requests, invoices, documents, handlers, goroutines or commands,
and any number of faults. `PROJECT.json`, `theorems`, says what each establishes. The
safety theorems have one shape: an inductive invariant, checked by TLC on the run's
instance before it was proved, one lemma per action or group of actions for its steps,
and a last lemma that it implies the property.

| module | proved of the specification | from |
|---|---|---|
| `PaymentFlow_proofs` | `TypeOK`, `AttemptLedger`, `ReservationExclusive`, `SettledTogether`, `HistoryAppendOnly`, `ImplementsSettlement` | `IInv` |
| | `RepliesTruthful`, `GatewayOutcomeKept`, `OneCallPerAttemptWithoutFaults`, `OutboxTruthful` | `IInv`, `AInv` |
| `PooledFlow_proofs` | `PooledSpec => Spec`, `ConnectionsAccounted`, `ImplementsSettlement` on the pool | `IInv`, `PoolInv` |
| `Customers_proofs` | `DocumentOwnedOnce`, `CreationAnswered`, `OnlyStaleUpdateReactivates`, `InvoicedCustomerWasActive` | `CInv` |
| `TracedBus_proofs` | `DeliveredInOrder`, `AnswersTruthful`, `FaultsOnce`; `TracedSpec => Spec`; `SpansNested`, `FailuresTraced` | `BusInv`, `TraceInv` |
| | `CountersAgree` | `BusInv`, `CountInv` |
| `Server_proofs` | `TypeOK`, `ClosedInOrder`, `NilMeansGraceful`, `NoTransactionCut` | `SInv` |
| `Configuration_proofs` | `StrongestLayerWins`, `AcceptedIsRunnable`, `RefusedForItsValue` | `LoadInv` |
| `HttpEdge_proofs` | `OneTrueAnswer`, `CategoryFitsStatus`, `CountersComplete`, `CorrelationKept` | `EdgeInv` |
| `Migrations_proofs` | `CleanMeansApplied`, `RowsConsistent`, `ExitTruthful`, `UpgradeKeepsRows` | `MInv` |
| | `StuckByRowsOnly` | `MInv`, `StuckInv` |

**The tables (`IInv`).** None of the properties is
inductive alone. COMMIT publishes what the transaction holds, so one must know
what that is at every statement (`Shape`); the billing it writes was read several
statements earlier, so one must know that the memory still agrees with the table
(`Link`); that in turn holds because nobody else is between reservation and commit
(`ReservationExclusive`) and because a retry holds the row exclusively while it
advances the attempt (`LockExclusive`). `SettlementTables` is `SettledTogether`
without its payments, which `AttemptLedger` determines. The argument for the
crucial step, `InsertPayment`: when it is granted, the attempt has no committed
row, so by `AttemptLedger` and `Link` it is the billing's current one and the
billing is `Requested`; another open reservation of the billing would, by
`ReservationExclusive`, be of the same attempt, for which the unique index makes
this one wait; and no retry holds the row. There is one lemma per action.
`QuietStep` disposes of those that write no table and take no lock, `Apply` is
treated once for the payment transaction and once for the billing's.

**The refinement of `Settlement`** goes over the few steps that change a committed
table: the two INSERTs of `POST /invoices`, the commit of the billing's transaction
(an attempt begins) and the commit of the payment's (an attempt concludes, in all three
tables at once). For each, `IInv` says what the transaction held; every other step is a
stutter. `HistoryAppendOnly` comes from the same classification.

**The answers (`AInv`).** An answer is given long after what it is about, so `AInv`
follows each fact from the statement that established it to the reply: what has been
found or committed when a request is about to answer (`Answers`), who may bill an
invoice (`Creators`), where the outcome of a gateway call went (`Charges`: it is being
pursued, on record, or was given up after a fault), and at which steps of its
publisher an outbox row may have which status (`Rows`). `AppendFaultFirst` is what the
append profile needs: its fault hits before anything is billed.

**The pool (`PoolInv`).** A step on the pool is a step of `PaymentFlow` or only takes a
connection, so everything above holds on any pool. A request holds a connection
exactly in the steps of its transaction.

**Customers (`CInv`).** `InactiveWasDeactivated` ties an inactive row, and the inactive
status an update has read, to a deactivation that was tried; uniqueness needs that a
row keeps its document.

**The bus (`BusInv`).** A call's loop variable, its round and its deliveries determine
each other (`Loop`); the calls of a goroutine form a stack, in which a call waits in a
handler exactly for its only child that has not returned (`Calls`, `Nested`,
`OnlyChild`); a fault that happened is on its flag (`OnceEach`). `TraceInv` gives, for
every phase of a call, the number and state of its spans (`Traces`), and says that the
span of a running publication hangs under the last delivery of its parent (`Hangs`):
that delivery stays the last one because its handler has not returned.

**The counters of the bus (`CountInv`).** `CountersAgree` compares counters with what has
become of the calls of `Publish`: events on record, handlers that failed, deliveries that
were begun. `CountInv` says it with sets: `published` is the size of `RecordSet`,
`failures` that of `StopSet` (the calls that failed, or are about to, at a handler),
`consumed` the sizes of `DeliverySet`, `StopSet` and `WaitSet` (the calls inside a
handler that has published) together. A step moves one call, and the return of a nested publication two, the
child and the parent whose handler goes on, so each set gains or loses at most one member;
`TallyMoves` and `DeliveriesMove` turn that into arithmetic, once, and the lemmas of the
steps only say which call goes where and which counter the step adds to. Two
strengthenings are needed. A call is unrecorded up to its append and on record after it
(`Settled`), so that the append, which counts, really adds a call to `RecordSet`; and the
delivery set is finite, without which its cardinality says nothing.

**The process (`SInv`).** What is open follows from the phase (`Held`); once a process
that served is past the closing of the pool, no request has a connection (`Closed`).

**The configuration (`LoadInv`).** `Load` is one step, so the invariant only says that the
result is what `Load` makes of its input. The substance is in the lemmas on its operators:
the overlay that is read is the one of `Chosen` (`OverlayIsChosen`); the merge of the
files and the lookup give, for every key, the text of the strongest layer that defines it
(`LookupIsEffective`); the early returns report the first check that fails,
and what passes them has passed every check (`ParseErrorInOrder`, `ValidateInOrder`); a
product that does not exceed the word is exact, and any product is within it
(`TimesIsWord`), so a timeout refused as not positive either was not, or overflowed.
`DefaultTimeout` excludes that the default is what is refused.

**The HTTP layer (`EdgeInv`).** Up to the answer nothing was written and every check so
far passed (`Unanswered`), after it everything fits (`TrueAnswer`). The ids drawn are as
many as the requests without an id (`Draws`), and the counters are sums over finite sets
that one step changes by one element.

**Migrations (`MInv`).** `Control` relates marks, lock and schema to the phase of the one
command that works; `Rows` says which rows each schema may hold, and is shown for every
file in both directions and for the traffic between. The rows an upgrade keeps are
compared file by file. `StuckInv` is `StuckByRowsOnly` with what it takes to know which
files a command meets: billings at version 5 are those of a rollback that goes on to
drop them (`RollbackGoesOn`), so that file 6, going up, meets none, and works
(`File6Works`).

*Assumptions.* They are the `ASSUME`s of the modules, which TLC evaluates on every run:
known profiles and outcomes and some invoice (`ConstantsAssumption`); a wiring that
lists, per name, a sequence of different handlers of that name (`BusAssumption`);
finitely many requests and enough different ids to draw, none of them a client's, none a
body of chi (`EdgeAssumption`: sixteen random bytes do not repeat; that each request
draws its own is what `CorrelationKept` shows); releases among 4, 6, 7 and 8, and `None` no command
(`MigrationsAssumption`); a document that is not the mark of a rejected one
(`CustomersAssumption`); at least one statement and one connection
(`ServerAssumption`, `PoolAssumption`); bounds that are natural numbers. Of the
configuration (`ConfigurationAssumption`): every layer is a function on the keys, `Atoi`
is given for every text a layer has for a number, and the default timeout of
`config.go:89`, two seconds, is a positive duration that fits the word. The largest
integer `MaxInt` is the constant, not the number of bits, whose power of two the prover
cannot reason about; nothing needs it to be one.

*Only model-checked.* The liveness properties `EveryRequestAnswered`,
`RequestedBillingConcludes`, `PublishReturns` and `ProcessEnds`, because liveness under
fairness is out of this prover's reach. Every invariant and action property, and the
refinement, that a passing run checks is also proved.

## Not modelled

* The texts of requests, amounts and dates, and the wording of error bodies: a payload
  is reduced to which checks it passes, an error to its status and category.
* Log lines, names and attributes of spans, the histograms, the gateway and retry
  counters, and the query tracer (`observability/postgres.go`, which cuts operation and
  table out of a statement): each formats one value and nothing depends on it.
* The building of the connection string and settings that only have a default.
* What `observability.New` leaves behind when it fails half-way: providers in memory
  nobody can reach, before the process exits.
* A benchmark collector measures the API from outside.
* The read methods of repositories that only tests use: they change nothing.
* Invoice statuses `Overdue` and `Cancelled`: no code writes them.
* Migrations 1 to 3, which only create, and traffic during a migration: a release is
  taken to be stopped while its schema changes.

## Plan

Done: the modules and runs above, the proofs of all their safety and action properties and
of the refinements. What is left is liveness, which stays with TLC, and to follow the code:
a change to a mapped line (`PROJECT.json`, `map`) is a change to its definition, and the
failing step of a proof then names the argument that no longer holds.

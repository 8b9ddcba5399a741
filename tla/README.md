# A TLA+ model of BankMonitoring

BankMonitoring is a Go service that moves money between accounts kept in
PostgreSQL. Clients log in, get a short-lived token, and send `POST /transfers`
with an `Idempotency-Key`. This directory models the whole program around that:
concurrent transfers over one database, their retries and failures, the reads
next to them, the tokens that authorise them, and the life of the process from
its configuration through migrations and seed to shutdown.

## The system and the modules

| Part of the program | Module | What it holds |
| --- | --- | --- |
| `internal/domain/entities`, value objects | `Entities` | the request, `Validate`, debit and credit on int64 |
| `internal/repository` (accounts, transfers, ledger, `WithinTx`), migrations 1-4 | `Store` | tables, row locks, the unique key, uncommitted writes, commit and rollback |
| `internal/service/transfer` (`Create`), `pool.go`, `withTimeout` | `TransferService` | one action per statement of `Create`, for any number of concurrent requests |
| what `Create` promises | `Bank` | a sequential bank: one whole transfer per step |
| `internal/httpapi` (`createTransfer`, `decodeJSON`) | `TransferApi` | header and body checks, the call of `Create`, the HTTP response |
| the `GET` routes, `internal/service/account`, `FindOwned`, `ListByUser`, `FindByID` | `Reads` | reads in snapshots next to running transfers, on the same pool |
| `internal/httpapi/middleware.go`, probes and documentation pages | `Middleware` | the chain around a handler: request id, access log, panics |
| `internal/service/auth`, the login handler, the route table | `Auth` | users, logins, tokens, clocks of several servers, the permission check |
| `internal/config` | `Config` | `Load` and `HTTPAddr` as operators |
| `cmd/api`, `pool.go` | `Lifecycle` | start, signals, the server goroutine, shutdown, `pool.Close`, the health check |
| `internal/repository/migrate.go` | `Migrations` | several replicas and releases migrating one database |
| `internal/seed` | `Seed` | `Demo` run by several starts next to transfers |
| `Create` seen as the bank | `TransferRefinement` | the refinement mapping |
| proofs about the transfers | `TransferServiceProofs`, `TransferApiProofs`, `TransferRefinementProofs`, `BankProofs`, `ReadsProofs` | the inductive invariant, types, locks and keys; answers, HTTP responses and retries; chained statements, the refinement and what follows from it; the books of the bank; reads next to transfers |
| proofs about the others | `StartupProofs`, `LifecycleProofs`, `HttpProofs` | `Migrations` and `Seed`; `Lifecycle`; `Auth` and `Middleware`: the inductive invariants of each, and the theorems that follow |

The modules `MC...` give the constants small values; the `.cfg` files choose
among them.

`Entities` is extended by `Store`, `Store` by `TransferService`, and
`TransferService` by `TransferApi` and by `Reads`. `TransferRefinement` extends
`TransferService` and instantiates `Bank` with a refinement mapping. `Lifecycle`
extends `Config`. Names such as `ChainSpec` of `Middleware` and `SeedSpec` of
`Seed` differ from `Spec` so that one proof module can extend two of them. The
others stand alone: a transfer takes from `Auth` only the
subject of a verified token, `Lifecycle` takes from `Migrations` and `Seed` only
that they return, with or without an error, and `Seed` sees a transfer as two
balances that change together.

### Store and TransferService

`balance`, `transfers` and `ledger` are the committed tables. A transaction
writes to `newRow`, `newBalance` and `newEntries`, which nobody else reads.
Others feel an open transaction in two ways: the account rows it holds `FOR
UPDATE` (`rowLock`), and the key it has inserted (`KeyInFlight`), because
`INSERT ... ON CONFLICT DO NOTHING` waits for an in-flight row with the same
key. `sequence` is the identity column of the ledger. It counts outside
transactions, so rollbacks leave gaps.

Local variables of `Create` are `pc`, `call`, `copy` (the accounts it read),
`status` (`draft.Status`) and `outcome` (what it returns). Its statements are
the actions:

| Action | Code |
| --- | --- |
| `Create` | the entry: blank user, `Validate` |
| `Begin` | `WithinTx` takes a connection and sends BEGIN |
| `LockForTransfer` | one row of `SELECT ... ORDER BY id FOR UPDATE` |
| `Decide` | ownership, destination, currency, `Debit`, `Credit` |
| `CreateIdempotent` | `parseKey` and the INSERT |
| `FindExisting` | the SELECT after a taken key, and `replay` |
| `Save`, `AppendLedger` | `SaveBalances`, `Ledger().Append`, under the CHECKs |
| `Commit`, `Rollback`, `Return` | the end of `BeginTxFunc` and of `Create` |
| `Fail` | the server refuses a statement |
| `Interrupt` | the deadline passes, the connection breaks, or the process dies |
| `Abort` | PostgreSQL notices that the client is gone |

After `Interrupt` the caller has its answer while the transaction lives on in
the server as an *orphan*: the statement already sent may still be executed, a
COMMIT included, until `Abort`. This is how the model covers the answer 500 to
a transfer that is stored all the same, and the crash of the process between
two statements.

`Release` (what the end of a transaction does), `Fail`, `Abort` and the rule
that an orphan never starts another statement (`Goto`) model PostgreSQL and pgx
as the code uses them, and are marked external. Foreign keys add nothing:
`Create` already holds both rows it refers to.

### Text and numbers

Texts are only compared, so an account id is a number (its order is ORDER BY's),
0 is a blank id, a description is its length, and a currency is a member of a
set. `UUIDOf` says which texts denote which UUID (none for junk or the zero
UUID), so two spellings of one key are one key. `MaxInt64` is a constant, and
`Wrap` is two's complement, so small instances reach the overflow checks.

### Reads and Middleware

A read is one SELECT: `Query` takes a connection and the snapshot (`seen`),
`CollectRow` scans one account, `RespondAccounts` and `RespondTransfer` are the
ends of the handlers. Transfers go on between the rows. `ServeTransfer` is
`Serve` of `TransferService` with the pool shared. `known` and `earlier` record
what clients had been told when a read was sent.

`Middleware` follows one request, because every layer keeps its state in values
of its own request. `rec` is the `statusRecorder`, `wire` what net/http has sent.
A handler answers as its route does, and may panic at any point.

### Lifecycle, Migrations and Seed

`step` of `Lifecycle` is the place where `run` is; `server` is the goroutine of
`ListenAndServe`, `channel` is `serverErrors`, `phase` where each handler is. A
signal is caught between `NotifyContext` and `stop`, and ends the process
otherwise. A handler uses one connection at most. `blame` records which variable
a step after `Load` refused, `net.Listen` in the server goroutine included. A port
is a number with a way of writing it, in digits or as the name of a service: a
listener takes both, the URL of the health check only digits; and a listener on
port 0 is given another port. `BadAddr` is an address no listener can be had on.

In `Auth`, `demo` records the `DEMO_PASSWORD` of the latest start and since when it
is in force; each token remembers the password that was good for it.

`Migrations` has one step for each thing golang-migrate does to the database
(`Lock`, `ReadVersion`, `Apply`, `Unlock`), modelled from its use in `Migrate`. A
replica that dies leaves a session (`owner = "ghost"`) whose last statement may
still be executed. Replicas may embed different numbers of migrations
(`Latest`).

`Seed` has one step for each statement of `Demo`. `demoUsers` lists the rows in
the order in which its two nested loops write them. `wrote` holds the rows a
transaction has written, for which others wait. A lost connection leaves an
orphan, as in `TransferService`. `moving` is a transfer between its UPDATE and
its end; a restart of a replica is one more of `Starts`.

## The runs

| Run | States | Shows |
| --- | --- | --- |
| `transfers` | 318,004 | three requests in both directions and between disjoint accounts, with equal, re-spelled and reused keys and all faults: type correctness, one transfer per key, decisions that stay valid, answers that are stored, a visible conflicting row, chained statements, no deadlock over keys and rows together, and refinement of `Bank` |
| `inputs` | 42,676 | malformed messages, every refusal of `Create` and every error code, the int64 limit included, two requests at a time: responses agree with the tables, the service refines `Bank`, the ledger reconciles, money is conserved per currency, every transfer has its two entries |
| `retries` | 581,938 | retries over HTTP: at most one 201, replays show the stored transfer, responses agree with the tables |
| `live` | 35,186 | two transfers and a read on two connections: everybody is answered and every lock is released |
| `reads` | 1,866,034 | two reads, two transfers, all faults: all answers tell one history of whole transfers, and no read is older than what somebody had been told |
| `auth` | 435,463 | what a replaced password or a revoked permission still opens is bounded in time, tokens work on every server |
| `lifecycle` | 186,950 | each variable blank, unusable, at its limits and beyond, signals at any time, two requests on one connection: what `Load` accepts is refused later for four known reasons only, the health check finds the server but for two kinds of port, exit code 0 means a graceful end, no connection is held past the exit, a failed listener is reported, a process stopped while starting never serves, a process told to stop ends |
| `migrations` | 14,492 | three replicas of two releases that fail and die: migrations once and in order, a truthful version table, no service on part of a schema, a half-done migration stays marked, and after the last fault the newest release serves or the version is dirty |
| `seed` | 153,856 | three starts, two passwords, transfers, faults: demo data whole or absent and of one password, balances never reset, no deadlock |
| `middleware` | 343 | the access log tells what was sent, every response has the id of its request, and a panic is answered 500 unless a status was already sent |
| `overflow_retry`, `key_reuse` | | the disagreements below |

### Disagreements with the documentation

Two with the API description come from one order in `Create`: the accounts are
checked before the key is looked up. No money moves twice and nothing wrong is
stored in either case.

* `overflow_retry`: the first attempt fills the destination to the int64 limit.
  Its retry fails in `Credit` and is answered 422 "destination balance limit
  reached". `api/openapi.yaml:114`: "it returns the stored transfer with
  `Idempotent-Replayed: true` and the same status code family".
* `key_reuse`: a key is reused with a body that fails an account check, and is
  answered 403 or 422. `api/openapi.yaml:116`: "Reusing a key with a different
  body answers 409."

`RetriesAreReplayed` passes in `retries`, where all the money together fits an
int64, so that overflow is the only exception.

Five smaller observations from the code, none of which touches money and none
of which has a run of its own:

* `Load` accepts a `DEMO_PASSWORD` of any length from 8 bytes, and bcrypt refuses
  more than 72, so that the start fails after the migrations (`README.md:314`:
  "required when seeding, min. 8 characters").
* `Load` does not look at the address. An `HTTP_ADDR` or `PORT` that nobody can
  listen on ends the process at `main.go:92`, after the migrations and the seed.
  `LateRefusalsAreKnown` names these two and the password as the exceptions next
  to an unusable `DATABASE_URL`.
* With port 0, or a port given as the name of a service (`HTTP_ADDR=:http`), the
  server listens and its health check always fails: it asks at port 0, or cannot
  make a URL (`healthcheck.go:23`). `ProbeFindsServer` has both exceptions.
* The version `Migrate` returns is read without the lock and without its dirty
  flag. An older release can report a version that a newer one is still
  applying (`migrate.go:21`: "It returns the schema version the database ended
  up at"). The number is only logged.
* A request whose handler panics has no line in the access log, only that of
  the panic (`README.md:316`: "one line per request with `request_id`").

### Bounds

* `transfers` has three requests: two that hold and wait for each other's rows,
  and a third that takes the key or the connection in between. Retries of a
  request whose answer was lost are requests of their own. `inputs` and the two
  disagreements need only two.
* Two accounts whose owners pay each other are enough for lock order and double
  spending. With them, two transfers of one user always meet at a row lock
  first, so `transfers` gives each user two accounts: without that nobody would
  ever wait for a key. `inputs` has four as well, one of a second currency and
  one nearly full, and ids without a row.
* `MaxInt64` is 2 or 3: a balance reaches zero, falls short by one and, in
  `inputs` and `overflow_retry`, reaches the limit.
* `MaxConns` is 2, so that three requests in `retries`, two transfers and a read in
  `live`, and four in `reads` exhaust the pool; it is 3 in `transfers`, where all
  three are to meet.
* `auth`: one login, one demo user and an id without a row, two passwords, two
  clocks one unit apart, a token life of 3, and time up to 6 (`MaxTime`), which
  covers issue, revocation, a new password and expiry.
* `reads`: two reads, so that one can be older than the other; one user with two
  accounts and a transfer between them, and a transfer from outside. Two
  connections, so that any two of the four overlap. `live` has one of the reads.
* `lifecycle`: two signals, the second of which meets the default handling; one
  connection where requests are served, so that handlers wait for it. One
  variable at a time differs, because `Load` checks each alone, but for the two
  that make the address. Ports are in digits, named, and 0. `MaxInt32` and
  `MaxPort` are the real limits.
* `migrations`: a replica with one migration and two with a second (one to fail
  in the middle of, one to follow), two faults (`MaxFaults`), so that a restart
  can fail again.
* `seed`: the real list of users and accounts; `Funds` is 1, since balances are
  only moved by one unit at a time.

The models end in an explicit stuttering step (`Quiet` and its like), so that
TLC finds a deadlock among requests.

Requests and transfer ids are interchangeable, and so are reads. Safety runs use
that symmetry; `live`, `lifecycle` and `migrations`, which check liveness, do
not.

### Fairness

`LiveSpec` of `Reads` knows two worlds. In the one (`Proceeding`) goroutines run
and PostgreSQL executes statements, grants free locks and at last notices dead
clients: weak fairness of every `ServeTransfer` and `ServeRead`. In the other
(`Hanging`) no statement need ever return, and only the context timer of
`withTimeout` is sure to fire. Everybody must be answered in both. Nothing is
assumed of faults, of their absence or of new calls. Weak fairness is enough
because no request can overtake another for ever: each makes one call.
Locks are released in the first world only: a session of a database that hangs
keeps what it holds.

`FairSpec` of `Lifecycle` assumes that `run`, the server goroutine and each
handler go on: Migrate returns, the timer of Shutdown fires, and a handler's
deadline ends its wait for the database. It assumes nothing of clients, signals
or a failure of the listener.

`FairSpec` of `Migrations` assumes that replicas run, are restarted when they
exited, and that PostgreSQL ends the session of a dead client. The fairness of a
replica is strong, because PostgreSQL grants the advisory lock in the order of
its waiters. With weak fairness alone an old replica, which finds a version
unknown to it, exits and is started again without end, could keep the others
from the lock for ever. Faults are finitely many (`MaxFaults`): the question is
what happens after the last. An old replica never serves after a newer release
has migrated, so the property speaks of the newest.

## The proofs

### The transfers

Proved for every finite set of accounts, every set of requests, calls and
messages, every pool size and every `MaxInt64`, from the assumptions of the
modules on their constants.

`TransferServiceProofs`:

* `TypeCorrect`: `Spec => []TypeOK`. Balances, committed or in a transaction,
  stay in `0..MaxInt64`: neither `Debit` nor `Credit` ever wraps around.
* `DecisionsStayValid`: `Spec => []DecisionStillValid`. The decision made on the
  locked rows is right up to COMMIT.
* `KeysAreUnique`: `Spec => []OneTransferPerKey`.

None of these is inductive. For example, `DecisionStillValid` needs to
know that a decided request holds both locks, that a request which only holds
locks has fresh copies, and that another request's commit writes only balances
which that request has locked. `IInv` says this for each request:

* `Control`: a call under way is well formed; only an open transaction is
  orphaned;
* `Locking`: a request locks only its own accounts, in ascending order, holds
  both once it has decided, and none outside its transaction;
* `Fresh`: its copies are the committed balances, and after the decision the
  committed balances moved by the amount;
* `Written`: exactly which rows it has written at each step;
* `KeysDistinct`: uncommitted and committed keys differ from each other.

A step of one request leaves the others untouched (`Frame`), and changes a
committed balance only under that row's lock (`BalanceFrame`). So each conjunct
is proved for the moving request alone, action by action.

`TransferApiProofs`:

* `AnswersHold`: `Spec => []AnswersAreStored`, and `ConflictsAreVisible`:
  `Spec => []ConflictIsVisible`. `Answering` adds to `IInv` what a request is
  about to answer: a transfer shown is stored under the request's key and is
  what it asked for (`Shown`), a refused request has left no row, and a conflict
  is with a row that differs. It stays true because rows are only ever added.
* `ResponsesAreTrue`: `ApiSpec => []ResponsesMatchTheTables`, and
  `RetriesAlwaysAgree`: `ApiSpec => []RetriesAgree`. A behaviour of the API is
  one of the service (`ApiIsService`). What is added: a response is the
  handler's own refusal or what Create returned (`Responded`), every stored
  transfer passed all checks (`Sound`) and has its two entries, or none if it
  failed (`Paired`).

`TransferRefinementProofs`:

* `StatementsHold`: `Spec => []StatementsAreChained`. Entry ids come from a
  sequence outside the transactions, so ids of different accounts commit out of
  order. `Chained` says that what a request is about to commit is newer than
  all that its own two accounts have, which their locks guarantee.
* `Refinement`: `Spec => ImplementsBank`. The committed tables, without the ids
  of the ledger entries, behave as the sequential `Bank`. Only `Commit` matters,
  since no other action changes a committed table (`OthersStutter`). `Written`
  says what it publishes: nothing (a replay), a failed row, or a row with both
  balances and entries. `Fresh` says that these were computed from the balances
  as they are now, `Locking` and `Control` that the order is acceptable, and
  `KeysDistinct` that its key is unused (`CommitRefines`).
* `LedgerBalances`, `MoneyIsConserved`, `EntriesAreDouble`: the service keeps
  `LedgerReconciles`, `MoneyConserved` and `DoubleEntry`. They are proved once,
  for the bank, and inherited through the refinement.
* `ApiKeepsTheBooks`: the same, and the refinement, of `ApiSpec`: behind the
  handler, whatever messages come in.
* `DeadlockFree`: `Spec => []NoDeadlock`. Whoever waits for a connection holds
  nothing, whoever has inserted a key waits for nothing, and rows are locked in
  ascending order: in a circle of requests, the one that waits for the largest
  account would wait for somebody who waits for a larger one (`NoCycle`).
* `RetriesFindTheirTransfer`: `ApiSpec => []RetriesAreReplayed`, if the money of
  each currency fits one `int64` (`Affordable`). Create checks the balances
  before it looks at the key, so a retry may be refused with an overflow; it
  cannot if all the money of the currency fits. Run `overflow_retry` shows that
  the condition is needed, and the instance of `retries` meets it. `Settled`
  says that what was stored when a message arrived still is.

`BankProofs` has `BooksAreKept`: the three properties above hold of `Bank` for
any orders. They are sums over finite sets, defined by folds. The library's
induction theorems take an operator as parameter and cannot be used, so what is
needed of sums (adding a member, changing one or two values) is shown by taking
the smallest set for which it fails (`Smallest`). `TransfersExplain` adds that
the completed transfers explain every balance without the ledger; the reads need
it.

### The reads

`ReadsDisturbNothing` (`ReadsProofs`): `ReadSpec => Spec`. A read changes nothing
that a transfer sees, and sharing the pool only takes steps away, so that every
theorem above holds next to any number of reads.

`OneHistory` (`TransferRefinementProofs`): `ReadSpec => []ReadsTellOneHistory`, for
any number of reads and transfers, any pool and any faults. The property asks for
one assignment of sets of transfers to answered reads, and the snapshot an answer
came from is gone once it is sent. So the inductive invariant (`ReadInv`) keeps
the assignment under the existential quantifier, for reads still under way too.
`History` says that there is a `T` with, for each read:

* `Snapshot`: while rows arrive, the snapshot is exactly the bank after the
  transfers of `T`, and the rows so far are rows of it;
* `Follows`: `T` of a read holds what somebody was told before the read was sent,
  and `T` of every read that was answered by then;
* what an answered read showed is the bank after its `T`.

Steps of a transfer add transfers that are in no set of `T`, so they change the sum
over none of these sets (`LaterTransfers`). `Query` sets `T` of its read to all
stored transfers, and all that it has to follow is stored. `OneRead` reduces every
other step to the read that takes it. What this takes from the service is named
in `ReadsProofs` and shown in `TransferRefinementProofs`: new transfers have new
ids (`Grows`), the stored transfers explain the balances (`StoredExplain`, from
`TransfersExplain` through the refinement), and only stored transfers are told
(`ToldAreStored`, from `Answering`).

### Migrations

`StartupProofs`, for any number of replicas, migrations and faults:
`AppliedOnce`, `VersionIsTrue` and `SchemaIsComplete` are the three invariants of
the run, `DirtyStays` is its action property. The version table alone does not
say what a statement already sent will do, so the invariant adds:

* `UnderLock`: whoever reads the version or works on a migration holds the lock;
* `AtWork` and `Before`: what the tables look like before each of the three
  statements of a migration;
* `Ghost`: the same for the statement a dead replica has left behind, whose
  session still holds the lock;
* `Complete`: a replica past its migrations has them all under it. It stays so
  without the lock because migrations are only ever added.

### Lifecycle

`LifecycleProofs`, for any environments and any number of requests and signals:
`CleanExit`, `NothingHeld`, `FailureReported` and `EarlySignal`. The invariant
says which of pool, server and result exist at each step of `run` (`Stages`), and
that success is decided only when nothing is left to do and nothing can come
any more (`Endings`).

`TypeCorrect` says in particular that the handlers never hold more than
`DB_MAX_CONNS` connections (`Bounded`). `LateRefusals` and `ProbeFinds` are about
the configuration: `Configured` keeps what each step of `run` has found out
about the environment. So nothing is left to refuse later but `DATABASE_URL`, a
password too long to hash and the address, and a process that serves has none of
these; and the health check reaches a server that accepts connections exactly
if its port is a number other than 0. The environments are only assumed to be
well formed (`LifecycleAssumption`).

### Auth and Middleware

`HttpProofs`, for any users, servers, clocks within `MaxSkew`, logins and changes
of the table: `OldPasswordBound`, `RevocationBound` and `TokensWork`. A token is
issued from a row that was read earlier, so the invariant follows a permission
from the row (`GoodLogin`: still granted, or taken away after the row was read) to
the token (`GoodToken`: still granted, or taken away at most `LoginLimit` before
the token was issued). It follows the password in the same way: a row of a demo
user has the password in force (`GoodRow`), because the seed replaces it at every
start.

For any request ids, and a handler that writes, panics or aborts at any point, it
has `LogIsRight` (`ChainSpec => []LogMatchesResponse`) and `PanicsGetAnAnswer`
(`ChainSpec => []PanicsAreAnswered`). Two records of one response have to agree:
what `statusRecorder` believes and what net/http has sent. `Recording` says that
they do until the handler ends: nothing was sent while `wroteHeader` is false, and
the recorded status with the id of the request once it is true. `Chain` adds that
this id never changes and that nothing is logged before the end.

### Seed

`StartupProofs`, for any number of starts and any opening balance:
`SeedKeepsBalances`, `SeedsAreWhole` and `SeedingHasNoDeadlock`. An account in an
uncommitted transaction has no committed row and is in no other transaction
(`Unpublished`, `Exclusive`), so a COMMIT never writes over a balance; and a
transfer moves only accounts that have rows (`Moving`). `Progress` says how far
each start is: the rows before some position of `demoUsers` are done, those after
it are not. At the end all rows are there, and of the starts under way the one
furthest ahead waits for nobody.

### What is only model-checked

* Liveness: `EverybodyIsAnswered`, `LocksAreReleased`, `ProcessEnds` and
  `NewestServeOrDirty`. Fairness and ENABLED are out of the prover's reach.
* `RetriesAreReplayed` without `Affordable`, which is false.

Every other property of a passing run, the refinement and the action property
included, is proved.

## What is not modelled, and the plan

* Durations. A timeout may come at any time, so nothing is said about how they
  compare: `REQUEST_TIMEOUT` against the server's `WriteTimeout`, the two seconds
  of the readiness probe, the lock timeout of golang-migrate.
* A process that hangs in `Migrate`, which takes no context, ignores SIGTERM. The
  code promises nothing here, and `ProcessEnds` assumes that Migrate returns.
* Signatures, password hashing and the time the dummy hash takes: library code.
* The content of documentation pages, log levels, `Server-Timing`, and the test
  and load-test support.
* Down migrations, which the program never runs.

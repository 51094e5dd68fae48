# TLA+ models of the Fulfil server

This directory holds a verification development of the code in `src/`: TLA+
modules translated from the TypeScript sources, TLC configurations that check
them on small instances, and TLAPS proofs of the properties that matter most.
`PROJECT.json` lists every run, property, mutant and theorem, and maps every
definition to the source lines it stands for.

## 1. The system

Fulfil is a logistics back end (a pnpm monorepo). Its core is
`packages/server`: a Fastify application whose use cases keep two aggregates
in PostgreSQL and talk to each other only through FlowCatalyst, an external
platform that polls the server's `outbox_messages` table and posts what it
finds there back to the server's routes.

| Component | State | Operations | Interaction |
|---|---|---|---|
| LastMile aggregates (`domain/lastmile`) | fulfilment, shipment | create, linkShipment, scheduleReaction, markReady | pure; called by the use cases |
| Use cases (`operations`) | none | six write use cases | read repositories, commit through the unit of work |
| Routes and hooks (`api`) | async-local scope | five routes, scope resolution, webhook authentication | run a use case under `runWrite`, map failures to HTTP |
| Transactions and outbox (`app-context`, `infrastructure`) | one PostgreSQL transaction per request, async-local | `runWrite`, `commitAggregate`, `emit`, `emitEvent` | aggregate row, audit row and outbox rows in one transaction |
| Repositories and schema | tables | persist, find... | writes on the transaction, reads on the pool |
| Connection pool (`db.ts`) | connections, a queue of queries | acquire, release | shared by all transactions and reads |
| FlowCatalyst (external) | deliveries | deliver, retry, time out | subscriptions and dispatch jobs |
| Framework cache (`framework/cache`) | entries and tag index, in memory or in Redis | get, set, forget, remember, tagged set and flush | concurrent callers |
| Framework measurements | per-route window, mode, SQL buffers | shouldCaptureSql, record | request hooks |
| Framework notices, jobs, scope, metrics | little | capture, runJob | hooks and schedulers |
| Apps, shared catalogs, sync script | none | - | - |

The process the use cases form together:

```
POST /fulfilments            -> fulfilment row + fulfilment:created
fulfilment:created           -> create-shipment job + shipment-requested
                                (a leg without coordinates: park + awaiting-geocoding)
POST /shipments        (job) -> shipment row + shipment:created
shipment:created             -> link-shipment job + link-dispatched
POST .../link-shipment (job) -> fulfilment row updated + shipment-linked
POST /shipments/:id/ready    -> shipment row updated + shipment:ready
```

What is hard about it: reads happen on other connections than the transaction
and are stale by the time it writes; each step is several statements, any of
which may fail; `runWrite` commits even when the use case failed; deliveries
are repeated when an answer is lost and may overlap with their first attempt;
the server may die anywhere; a request needs two connections of one pool; the
tenant of a request has two sources. The repository has no tests.

## 2. Modules

* `LastMileDomain` - rows of the four tables and the pure functions of the
  domain layer. Every row is a record tagged with its table; `Conflicts` says
  which rows a primary key or the partial unique index
  `lmf_unique_open_source` keeps apart. `leap` marks a row whose collection
  window holds a leap second, stored as JSON null: `Readable` is what
  `toAggregate` can map. Nothing in the code ever leaves the
  stage `awaiting_planning`, so `terminated_at` is null in every row and every
  fulfilment is open.
* `LastMileProcess` - requests in flight. Each slot of `req` is one HTTP
  request: `Receive` (route, scope, first guards), one action per repository
  read and decision of a use case, `Execute` for one SQL statement of its
  transaction, `Commit` for the end of the transaction, `Answer` for the reply.
  `db` holds what is committed, `staged` what an open transaction has
  executed, `todo` what it has still to execute. FlowCatalyst is `Deliver`
  with its record of attempts (`tries`) and acknowledgements (`settled`);
  `ReadFails`, `StatementFails`, `Timeout` and `Crash` are the faults; `lost`
  counts the answers FlowCatalyst awaited in vain, of which one crash can take
  several. Reads see only `db`: the repositories read on the pool; a read that
  finds an unreadable row fails. `Execute` is an INSERT for new and changed
  aggregates alike, as both repositories' `persist` is; it waits for a
  conflicting row of an open transaction, as PostgreSQL does, and aborts on a
  conflict with a committed one. Where the row goes in but cannot be read back
  the use case fails (`COMMIT_FAILED`), PostgreSQL does not, and `Commit` makes
  the row permanent without audit row, event and audit message.
* `LastMileContract` - what the use cases promise, as one atomic step each on
  the committed tables; `StrandFulfilment` is a row committed alone.
  `LastMileProcess` is shown to implement it.
* `MCLastMileProcess` - the callers' requests of the runs.
* `LastMileProcess_proofs` - theorems about `LastMileProcess`, and
  `LastMileContract_proofs`, which EXTENDS it, the refinement and what follows.
* `ConnectionPool` - write requests and the postgres.js pool: a connection for
  the transaction, a second one for each read, one FIFO queue.
  `ConnectionPool_proofs` proves that it never oversells and loses no request.
* `ArrayStore` - the in-memory cache store: one action per method, except
  `remember`, whose wait for the caller's function splits it in two. Values are
  the number of the write that stored them; `flushed` remembers the writes that
  a flush owes. `ArrayStore_proofs` proves it.
* `RedisStore` - the Redis cache store, one action per Redis command. `op`
  holds the calls in progress; `done` the writes whose call has returned,
  `disturbed` those with a flush of one of their tags beside them.
  It INSTANCEs `ArrayStore` as the specification of calls that do not overlap
  (`alone`). `RedisStore_proofs` proves all of its properties.
* `SlaTracker` - the SLA tracker of one route and the request hooks that drive
  it: `Start` is onRequest; `Monitor`, `Discard` and `Sample` are onSend with
  the three ways `record` can end. `history` is the sliding window the circular
  one stands for. `SlaTracker_proofs` proves the window, the rate at which
  collecting begins and how long it lasts.
* `SchemaTerms`, `WireSchema`, `ContractSchema` - the body of POST /fulfilments
  described twice: by the TypeBox schemas Ajv validates with, and by the Zod
  contract of `packages/shared`. A schema is a function from the paths of its
  fields to the values each accepts and whether it is required; a body is a
  function from the paths it has to numbers (a text is its length, a date its
  instant, a member of a catalog its place in it). `Fits` is the verdict.
  `OddValues` are those the two libraries read differently: a leap second, a
  date only `z.coerce.date` takes, an address only Ajv's or only Zod's `email`
  takes, a metadata key only a TypeBox Record takes.
* `LastMileRows` - both repositories' `toRow` and `toAggregate`: columns that are
  extracted from the state, dates that are strings in JSONB and are revived on
  reading, the partial unique index over the rows. Pure; the lemmas about it,
  for every aggregate of the domain's types, begin `LastMileIntake_proofs`.
* `PartialFunctions` - `:>` and `@@` as the module TLC defines them: the provers
  cannot look into that module.
* `LastMileIntake` - one body on its way: validated (`PostFulfilment`), the
  rules of the use case (`CheckRules`, `CheckSourceNote`), `Persist` through
  the aggregate registry, audit row, event, end of the transaction (`Close`),
  then the job (`HandleLastMileFulfilmentCreated`) and the shipment
  (`PostShipment`). A date becomes text by `JsonDate`, to which an instant
  outside the years 0 to 9999 is an `Expanded` date that no `date-time` is;
  `FitsColumns` and `WriteLocalAuditLog` hold the limits of the columns, those no
  schema states (tenant, user, NUL characters) included. `LastMileProcess` has
  the interleavings and leaves the data out; this module has the data, one
  request after another.
  Stages and statuses that no use case assigns yet are properties over
  `LaterFulfilments` and `LaterShipments`: what a stored row may become.
  `MCLastMileIntake` holds the bodies, `LastMileIntake_proofs` the theorems.
* `WebhookSignature` - `verifyFlowCatalystSignature` and its hook. An HMAC is the
  record of what was signed with which secret.
* `RequestBoundary` - what surrounds a use case: `Arrive` is the two onRequest
  hooks, `Handle` the webhook hook, the route and `resolveScope`, `UseCase` the
  guards on the scope and what is emitted under it; `RunJob`, `Capture`,
  `SaveNotice`, `EmitAlert`, `CaptureFails` a scheduled task that captures a
  notice. `store` is AsyncLocalStorage, one scope for each asynchronous
  context. `MCRequestBoundary` gives it clocks and delays at both sides of the
  limits; `RequestBoundary_proofs` proves its properties.

## 3. Runs

| Run | Question | Instance |
|---|---|---|
| `Chain` | Do rows, events, audit rows and jobs commit together and only as the contract says? Is an acknowledged delivery never lost? How many duplicates can lost answers make? Does every readable geocoded fulfilment get its shipment, and the shipment its link job? | two requests in flight, one fault, two deliveries of each message, a creation and one with a leap second, fair |
| `Stray` | Can two creations for one source note both commit? Can a call FlowCatalyst did not make commit something dangling, or make the process ask for a shipment of a fulfilment without coordinates? | two requests in flight, four creations for one note number (another tenant's and one without a tenant among them), a caller marking the shipment ready, seven stray calls (create-shipment calls with made-up legs and with a leap second among them), two tenants, one fault |
| `ConnectionPoolSpare` | Does every request end while one connection is spare? | three writers, four connections |
| `ArrayStore` | Does a flush of a tag find every entry it owes? | two keys, two tags, two remembers at a time, three writes |
| `RedisStoreShared` | What does a flush still promise with two callers and failing commands? Is the Redis store the in-memory one while calls do not overlap? | one key, two tags, two writes |
| `SlaTracker` | Is the window recent, does collecting begin and end exactly when it should? | window of four, rate one half, two samples, two requests |
| `Intake` | Do wire schema, contract, rules, rows and columns agree about a creation, and does the shipment get what was promised? | every body that differs from a valid one in one field, both sides of every limit, the odd values, NUL characters; windows in all orders, of a leap second, in years beyond four digits; long tenant and user ids; lines and parcels that refer to each other or not |
| `Boundary` | Does code act in the scope it was started in, are chains traced, is a copied delivery honoured for a bounded time only? | two contexts, two users, two tenants, clocks 60 and 61 s apart, delays to 361 s, four units of work, one fault |

Four more runs state what the documentation or a comment says and exhibit the
behaviour of the code that contradicts it (`PROJECT.json`, findings):

* `Duplicate` - `lastHandledEventId` is documented as "idempotency against
  redelivered inbound events", but no handler reads it: one lost answer gives a
  second shipment with the whole cargo. `Chain` bounds the damage: one shipment
  more for each answer lost.
* `Update` - `persist` is always an INSERT, so every update of an existing
  aggregate (marking ready, linking, parking a fulfilment that waits for
  coordinates) is refused by its own primary key and the transaction aborts.
  The chain therefore stops before its last step, on every delivery.
* `ConnectionPoolFull` - with as many write requests as connections (ten,
  unless configured) each holds its transaction's connection and waits for
  another one to read on; nothing times out.
* `IntakeAtomic` - a collection window of a leap second is a `date-time` to Ajv
  and an invalid Date to JavaScript. Comparisons with it are false, so the rules
  pass; it is stored as JSON null; the INSERT succeeds, reading the row back
  throws inside the commit, the failure becomes a value, and `runWrite` commits
  the row without audit row and event. Every later creation for the note then
  fails reading it. `Intake` shows that no readable row is ever in that state,
  `Chain` what such rows do to the rest of the process: nothing but that
  each read of them fails.

### Divergences without a run

Read off the models while they were written:

* A Redis flush reads a tag's set and later deletes it whole; a tagged set that
  returns in between loses its place in the index (docs/framework.md:450 says
  the flush invalidates all entries so tagged). `RedisStoreShared` shows that
  only overlapping entries are lost.
* Capturing SQL is decided when a request starts, sampling when it ends:
  requests under way when collecting begins are sampled without their queries
  (docs/framework.md:458). A route that is collecting flushes the queries a
  caller asked to keep with `X-SQL-Trace`; `sla_breach_total` counts samples,
  not breaches; `onSend` observes 0 ms for a request without a scope.
* The create route's comment promises 400 for unknown keys; Fastify's
  `removeAdditional` strips them, the contract refuses them. The contract
  upper-cases country codes, the server stores them as they came. A TypeBox
  Record keeps neither the key's length nor refuses other metadata keys, as
  the contract's does. Ajv's `email` and Zod's `email()` each take addresses
  the other refuses (`a@b.c`); `z.coerce.date` takes dates without a time or an
  offset, numbers and null where the wire wants a `date-time`.
  `WireMatchesContract` is therefore about bodies of declared keys, in their
  lines and parcels too (`Declared`), that hold none of the `OddValues`; on
  those `Intake` has the two sides differ as the libraries do.
* A collection window that ends in `9999-12-31T23:59:59-05:00` is a `date-time`
  and is stored, but its UTC year has five digits, so JSON writes it
  `+010000-...`, which the second `date-time` check refuses: its
  create-shipment job fails on every delivery. `JobAccepted` states both halves.
* A tenant or user id longer than 100 characters, a NUL character anywhere in a
  text and a promised window outside what a timestamp's column takes are
  promised by no schema to fail; they fail at the INSERT and abort
  (`CommitFailsOnlyBeyondSchema` names all the reasons).
* A create-shipment call is believed about the legs it brings: a caller who
  makes them up gets a shipment for a fulfilment that is not geocoded. `Stray`
  has the call and the shipment; `JobsForGeocodedOnly` is about the jobs the
  server itself emits, whatever the events it is given claim.
* The use case's comment wants a promised window in the future; one that ends
  now is accepted. Two parcels of one identifier are accepted. A leap second in
  the promised window throws before any SQL is sent, and leaves no trace.
* docs/framework.md:116 and :615 read `x-correlation-id`; `extractRequestToken`
  does not. The tenant hook does nothing without `x-user-id`.
* Dispatch jobs carry a correlation and no causation.
* `flowcatalyst/lastmile/events.ts` has no type for
  `shipment-link-dispatched`; an overridden `FULFIL_DISPATCH_POOL` names a
  pool that is not among `dispatchPools`.
* The notice repository stores a new identifier instead of the notice's.
* An aggregate that was tagged would be persisted still wrapped.

### Bounds

Every bound is a constant of the module or a set in the configuration.
`Requests` is the number of requests at a time: two are enough for every
pairwise race, and a third reads what the first two committed in a slot that
became free. `MaxFaults` and `MaxAttempts` keep retries finite; the interesting
cases need one fault (a lost answer and its retry, or one crash that loses the
answers of both requests). Slots are interchangeable and declared symmetric in
`Stray`, which checks no liveness. Identifiers run out when the sets are used
up; they are as large as the chain can need with the faults allowed (in `Chain`
two shipments, of which the second takes a lost answer, and five jobs, so that
the retries after a crash that loses two answers find one; that one lost answer
never makes a third shipment is left to the theorem, for all bounds), except
where the question needs only the chain's beginning (`Stray`). FlowCatalyst's real maximum is five retries. Identifiers
that a request reserves are chosen by `CHOOSE`: they are interchangeable, so
the choice only breaks a symmetry. The pool of ten connections is scaled to
three or four.

The cache runs bound only the writes: two callers show every pairwise race of
commands, two tags a flush that goes from one tag to the next. The tracker's
window of 50 is scaled to four and its rate of one in twenty to one in two, so
that the rate can be missed, met and exceeded; its bound is the window itself.

`Intake` varies one thing at a time, because each limit is checked by itself;
its clock and the largest integer are small numbers of the same order, the
latter above every limit a schema states. `attempts` and `faults` of a body
allow a second creation and a failing statement where they matter: for all
orders of windows. `Boundary` needs a user's creation, two deliveries and one
repetition, which are its four units of work; a scheduled task costs two of
them. Its delays and clocks are both sides of 300 s less and plus 60 s. Users,
tenants and contexts are interchangeable and are declared symmetric, as no
liveness property is checked there.

Deadlock checking is off in the runs whose system really stops (all messages
settled, no more calls) and in `ConnectionPoolFull`, whose subject is the
deadlock. It is on everywhere else.

### Fairness

`FairSpec` of `LastMileProcess` assumes that a request that can take its next
step takes it (Node's event loop and PostgreSQL do not stop) and that
FlowCatalyst, if it can deliver a message again and again, does. The latter is
strong fairness only because slots are a bound of the model: the server accepts
every connection, so other callers cannot keep FlowCatalyst out. No fairness is
assumed of callers or faults. `FairSpec` of `ConnectionPool` assumes that the
pool serves its queue, that reads with a connection end, and that a use case
goes on. `LastMileIntake` and `RequestBoundary` have no liveness
properties and assume no fairness: whether their requests end is
`LastMileProcess`'s question.

## 4. Proofs

`LastMileProcess_proofs` holds, for all values of the constants that satisfy
`DomainAssumption`, `ProcessAssumption` and `ApiAssumption`:

* `TypeCorrect` - `Spec => []TypeOK`, one lemma per action.
* `RowsStayCompatible` - `Spec => []RowsCompatible`. Uniqueness of open source
  notes is not inductive: it says nothing of the rows that open transactions
  have executed and are about to commit. `RowsCompatible` adds those: no
  committed or staged row conflicts with another one. `Execute` keeps it
  because it waits for, or aborts on, each conflict; `Commit` because what it
  commits was compatible with everything; all other steps stage nothing.
* `SourceNotesUnique` - `Spec => []SourceNoteUnique`, from the former.
* `RefusalsLeaveNoTrace` - `Spec => FailureLeavesNoTrace`, from the invariant
  `Control`: a request has staged rows only while it writes or after it
  succeeded, and whatever ends it otherwise came before its first statement,
  aborts it, or is a row that could not be read back. The last one is the case
  in which committing after a failed use case does harm: what changes is exactly
  that row (`COMMIT_FAILED`).
* `OutboxStaysAtomic` - `Spec => []OutboxAtomicity`, `GeocodedJobsOnly` -
  `Spec => []JobsForGeocodedOnly`, and `JobsHaveDecisions` -
  `Spec => []JobHasDecision`. None is inductive: between two statements a
  transaction holds the row without its event. The invariant `AllBundled` is
  about the batch of a request, what it has staged together with what it has
  still to execute: with the committed rows it is `Whole` (announced, audited,
  answered, and for jobs `Grounded` on a geocoded fulfilment), unless the
  transaction is aborted or its first statement `Strands` on a row that cannot
  be read back. A use case plans a whole batch (a rewritten row is announced by
  the committed one it was read from), `Execute` moves a row within it or drops
  what follows a stranded one, `Commit` commits all that is left or nothing.
* `AnswersKept` - `Spec => []AckImpliesEffect`, from the invariant `AllServe`:
  the batch of an open request contains what its message asks for, or is doomed
  because a row of it conflicts with a committed one (the INSERT of a changed
  row). A doomed batch never reaches a successful end, which is
  `RowsCompatible`; a duplicate link is answered with 2xx only after its effect
  was read.
* `ReferencesStay` - `GenuineShipments => (Spec => []ReferencesHold)`, from the
  invariant `AllSituated`: what a request plans is about rows it had found
  committed or that its own batch creates, and the `shipment:created` it was let
  in with is about a committed shipment. It needs nothing of those who call POST
  /shipments, the link route or `fulfilment:created`, whose use cases look up
  what the body names; `shipment:created` is believed without a read, so nobody
  but FlowCatalyst may send one that the guards let through. In production its
  signature sees to that (`RequestBoundary`).

`ArrayStore_proofs`, under `StoreAssumption`: `TagsAlwaysFind`
(`Spec => []TagsFindEntries`) and `FlushedNeverReturn`
(`Spec => []FlushedStayGone`). The second is not inductive alone: that a flush
removes what it owes needs the index to reach it, which is the first, and both
need `TypeCorrect`.

`SlaTracker_proofs`, under `SlaAssumption`: `EpisodesKeepBudget`
(`Spec => EpisodeBudget`) from the invariant `Budget`, which ties the counter
to the samples taken since collecting began; a budget of zero still takes one.
`WindowStaysRecent` (`Spec => []WindowIsRecent`) from `WindowOK`: the slot the
index points at is the oldest of the window, so overwriting it moves the window
by one. `CollectingBeginsExactly` counts the breaches of the circular window in
the recent one. `TypeCorrect` adds the rest of the state.

`ConnectionPool_proofs`, under `PoolAssumption`: `NeverOversold`
(`FairSpec => []TypeOK`, which bounds the connections in use) and `QueueCorrect`
(`FairSpec => []QueueExact`) from one invariant `IInv`: the types, a queue
without repetitions that holds exactly the waiting requests, reads left for
those that read, and the capacity. The capacity needs the queue to be exact,
because a connection goes to the request at its head.

`LastMileContract_proofs`, under the assumptions of `LastMileProcess`:

* `ContractImplemented` - `Genuine => (Spec => ImplementsContract)`, step by
  step: `Commit` with a successful outcome is the step of the contract that its
  batch names, with a row that could not be read back it is
  `StrandFulfilment`, everything else stutters. It rests on
  `RequestsAreFounded`, the invariant `AllFounded`: a request that was let in
  carries a message that is in the outbox (as far as it believes its body), what
  it plans is one of the four batches of the contract over rows it had found
  committed, and the identifier of the job it may emit is in nobody else's
  hands. Rows are never removed, so what was read remains true although it is
  old. `Genuine` says of others than FlowCatalyst that their `shipment:created`
  and their create-shipment calls are refused by the guards, or name a tenant
  that opens no fulfilments. POST /shipments asks for no signature, so for it
  this is an assumption about clients: the contract creates shipments for jobs
  only. `Chain` satisfies it, the made-up create-shipment calls of `Stray` do
  not, which is why what `Stray` checks assumes less.
* `DuplicatesNeedLostAnswers` - `Genuine /\ GenuineCreations => (Spec =>
  []ShipmentsBoundedByLostAnswers)`, for any number of fulfilments, requests and
  deliveries. Redelivery is a matter of rights, not of rows: `Tokens` of a
  fulfilment are its shipments, its `fulfilment:created` and jobs that are not
  settled, and the requests under way that may still commit a job or a shipment.
  The invariant `AllPaced` (`RedeliveryIsPaced`) bounds the tokens of each
  fulfilment by one, once it is there, and the answers lost so far: the creation
  makes the first, each commit exchanges one token for the next, and two
  requests have the right of one delivery only when an answer to it was lost. A
  timeout loses one, a crash those of all requests whose transaction had ended
  (`Unheard`). `GenuineCreations` says of `fulfilment:created` what `Genuine`
  says of the job.

`RedisStore_proofs`, for any callers, keys, tags and writes:

* `TypeCorrect` - `Spec => []TypeOK`. Types are not inductive alone: `AllFormed`
  adds that a call that stores has a key, that only this key holds its write,
  and that a flush works on one of the tags it has still to do.
* `FlushedStayGone` - `Spec => []QuietFlushedStayGone`, from `Covered`: every
  finished, undisturbed entry is in the set of each of its tags (`Reachable`),
  and a flush in progress has found, when it deletes, whatever it owes
  (`AllThorough`). Sets beside the flush are `disturbed`, which is why the
  index, deleted whole, can miss none of the others.
* `LikeTheArrayStore` - `Spec => AloneLikeArrayStore`. The mapping hides what a
  call in progress has half done: an entry that a flush has found or a tagged
  set has stored without index yet is not there. `Sole` says that while calls
  do not overlap one of them at most is in progress, which is why `DEL` is the
  step of the in-memory flush and the other commands stutter.

`LastMileIntake_proofs`, under `RowsAssumption` and `IntakeAssumption`. The
latter is what the code around the model gives: a body is a JSON object, so a
field has its parents; scope resolution requires a tenant; an odd value (a leap
second, a coerced date, a text one of the two `email` formats refuses) is no
instant and no length; the server's clock is in the years a timestamp takes;
`null` is no type; nobody names the TSID that the server will only generate
later.

* `RowsRoundTrip` (`Spec => []RoundTrip`): one lemma for each kind of nested
  date and one case for each stage, up to `FulfilmentRoundTrip` and
  `ShipmentRoundTrip`, for every aggregate with valid dates. `NoteFreed`
  (`Spec => []TerminalStagesFreeTheNote`) from `HeldWhileOpen` about the index
  and the invariant `RowsOpen` that every stored fulfilment is still open.
* `ReadableRowsAreAnnounced` (`Spec => []ReadableRowHasEvent`). Not inductive,
  as a transaction commits without its event when reading the row back throws;
  `AllAnnounced` says what each step of a request has staged, and that whatever
  reaches the end unaborted holds a row with its audit row and event, or one
  that cannot be read.
* `CargoStaysCoherent` (`Spec => []CargoIsCoherent`) and
  `ShipmentsCarryThePromise` (`Spec => []ShipmentCarriesPromise`) from one
  invariant about where data comes from. A behaviour has one body `post`, so
  `DataTraced` can say outright what every record is: a fulfilment row is what
  the conversions make of the body, a job what they make of that row, a
  shipment row what they make of the job. What remains are facts about
  conversions: windows are read from the paths they were written to
  (`WindowsOf`), and a body that was validated is not changed when its job is
  validated again (`SecondPass`) - defaults are filled in already, and the
  second schema declares no field with a default the first lacks. Declared line
  identifiers differ by a rule, generated ones by the assumption on TSIDs;
  references are checked against declared lines only, all of which are stored.
* `JobsAreAccepted` (`Spec => []JobAccepted`): the second schema accepts what
  the first and the use case made, if the collection window lies in the years
  that JSON writes with four digits (`AcceptedInYears`, `StoredWindow`), and
  refuses it otherwise, since `JsonDate` is then no `date-time`
  (`JsonOfWindow`). Every item the domain stores fits the stored item's schema if
  the draft fitted the draft's (`Completes`: an identifier, references and a
  status are added, the rest is the same); the body of the job fits because each
  part of it comes from a part of the first body under the same schema
  (`JobWelcome`), windows are instants again (`ShipmentSaved`), and the parent
  the job names is there, since rows are never removed (`JobTaken`).
* `CommitsFailOnlyBeyondSchema` (`Spec => []CommitFailsOnlyBeyondSchema`): six
  reasons and no other: a leap second, a promised window outside the years a
  timestamp takes, a revision beyond the integer column, a NUL character, a
  tenant and a user id longer than 100. Without them every date is one
  (`NoLeapIsSound`), the wire's limits are those of the columns (`NoteFits`,
  `OrderFits`, `PromisedFits`, hence `FulfilmentFits`), the uniqueness of the
  note was read before and nothing was inserted since, and what was written can
  be read back (`FulfilmentSaved`). Shipments follow from `JobsAreAccepted`.
* `WireAndContractAgree` (`Spec => []WireMatchesContract`). What the two copies
  hold without dates, addresses and metadata is shown equal, catalog by catalog
  and limit by limit (`SameLeaves`, `SameDropOffs`); the rest is `Alike`, equal
  but for the odd values, which survives nesting and the other order of fields
  (`AlikeLeaves`, `AlikeUnder`, `BodiesAlike`, and for items `LinesAlike`,
  `ParcelsAlike`). Filling in defaults changes no verdict, as they are optional
  and require nothing (`FilledFits`), and the first two rules are the contract's
  two refinements (`RulesOfOrder`, `FirstCodes`). A theorem and not only a
  comparison of data, since bodies, lines and parcels are arbitrary. It needs
  all of `Declared` and `NothingOdd`: a line with an undeclared key is stripped
  by the one and refused by the other.

`RequestBoundary_proofs`, under `SignatureAssumption` and `BoundaryAssumption`:
all eight properties of `Boundary`, for any contexts, users, tenants, clocks,
delays and bounds. The inductive invariant `IInv` adds to the properties what a
context knows of the call it serves (`ContextOK`: before the route the scope is
the user's, from the route on it is what `ResolveScope` makes of the call, and
a delivered call's correlation, event and tenant are those of a message in the
outbox), that every identifier was drawn from the counter, and that a chain is a
request's or a task's, never both. `ReplaysExpire` and `TimelyNeverRefused` follow from what
`Verify` accepts, `IdentityKept` from `ContextOK`.

Checked by TLC only: the three liveness properties (`GeocodedGetsShipment`,
`ShipmentGetsLinkJob`, `EveryRequestEnds`), which are out of the prover's reach,
and the documented promises that the code breaks (section 3). Every safety and
action property and both refinements of the passing runs are theorems.

## 5. Not modelled

* The server registers the SLA tracker with an empty list of routes, no cache
  store, no notice service and no scheduled task yet; the models take these
  components as their API offers them, a notice as captured by a scheduled
  task. The cache manager only picks a store by its name.
* Contracts other than the create command's, params and response schemas,
  OpenAPI: the use cases do not read them. Ajv's `coerceTypes` (a number
  sent as a string) is left out, and lengths are counted alike in Ajv (code
  points) and Zod (UTF-16 units): texts of the basic plane.
* `createdAt` of an event is a second reading of the clock; the model has one.
* `commitDelete`, `emitMany`, the repositories' `delete` and
  `findByFulfilment`, and the registry's `delete` and `extractId` have no
  caller.
* HMAC itself, logging and metrics: output without state. The use cases'
  permission checks are stubs that always grant.
* `ScopeStore.run(scope, done)` in the onRequest hook: that what runs after a
  body has arrived is still in the scope is a property of Node's
  AsyncLocalStorage and Fastify, outside `src/`, and is taken for granted.
* The stray calls of `Stray` do not include a made-up `shipment:created` that
  the guards let through: its handler reads nothing and would emit a link job
  for a shipment that does not exist. Its route checks FlowCatalyst's signature
  in production (`RequestBoundary`); in development it does not.
* Server start is wiring, the two Vue apps are empty shells, the sync script
  posts static definitions from a command line; roles and dispatch pools are
  data the server does not read.
* Effect, Drizzle, the FlowCatalyst SDK and PostgreSQL are modelled from how
  the code uses them and marked external in the map. One read after another of
  one use case may see different committed states (READ COMMITTED on several
  connections).

## 6. Plan

1. Done: all modules of section 2; the theorems of section 4.
2. No open proof within the prover's reach; what remains are the hazards
   that `PROJECT.json` lists without a property, each with the reason.
3. When the code grows: an UPDATE in `persist` (then `version` and lost updates
   of `linkedShipments`), callers of the cache and of notices, scheduled tasks.

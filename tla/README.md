# Verification of experiment-go

A TLA+ development for this repository: what the program promises, models of its
components translated from the Go source (and from the Terraform the program
depends on), TLC runs on small instances, and TLAPS proofs for every instance.

## The system

One Go binary with two roles, chosen by configuration (`cmd/api/main.go`).

- **Ingest role.** Pub/Sub pushes a message that carries a metering document.
  `ingestHandler.consume` checks the push token, reads and decodes the
  envelope and calls `consumption.Service.Ingest`, which finds a parser by the
  document's root element, stamps the run with one `ingestedAt`, and runs the
  streaming parser. The parser calls back with batches of readings; each batch is
  validated and written by `bqsink.Sink.Write`, which appends to BigQuery's
  default stream and waits for the result. The answer decides the message's fate:
  204 when everything is durable, 503 for a transient error (Pub/Sub retries),
  and otherwise the payload is parked in a Cloud Storage bucket and the answer is
  200, so that Pub/Sub stops. The view `readings_current` picks, for each reading
  key, the row with the latest `ingested_at`.
- **API role.** A tasks resource over Postgres (`internal/httpapi/tasks.go`,
  `internal/task`), health endpoints, and embedded migrations.

### Inventory

| Component | State | Operations | What is hard | What makes it correct |
|---|---|---|---|---|
| Ingest handler (`httpapi/ingest.go`, `oidc.go`) | one run per push | `consume`, `park` | runs of one message overlap; answers are lost or late; parking fails | an acknowledgement is never the last trace of a message |
| Consumption service, registry (`consumption/`) | the run's stamp | `Ingest`, `For`, `Validate` | stops in the middle of a document | only valid prefixes reach the sink |
| BigQuery sink (`bqsink/`) | one shared stream | `New`, `Write`, `Close` | an append may land after its error; contexts end | success means durable; retryable errors are retried |
| ESMP parser (`xmlfmt/esmp.go`) | locals of two nested loops, a batch, a counter | `Parse` | order of elements, ends of batches | accepts exactly the legal documents; bounded memory |
| Quarantine (`quarantine/gcs.go`) | objects in a bucket | `Quarantine`, `ObjectName` | names that collide | every parked payload can be found |
| Subscription (`deploy/.../messaging/main.tf`) | lease and delivery count of a message | push, expire, dead-letter | the lease is shorter than a run may be | every message settles |
| View (`deploy/.../warehouse/main.tf`) | none | query | which row is the latest | a correction wins |
| Server life cycle (`httpapi/server.go`, `cmd/api/main.go`) | listener, in-flight requests, clients | `Run`, `serve`, `wireIngest` | drain timeout, clients closed under handlers | nothing is used after it is closed |
| Migrator (`internal/migrator`, `cmd/api/migrate.go`) | schema version, dirty flag, lock | `Up`, `Down`, `Version`, `Force` | several instances at boot, crash in a migration | one at a time, never past a dirty version |
| Tasks (`internal/task`, `httpapi/tasks.go`) | table `tasks` | list, get, create, update, delete | concurrent updates, paging | what was answered is what is stored |
| Configuration (`internal/config`) | none | `Load`, `validate` | silent fallbacks, ranges | what an instance serves has all it needs |
| Pool and readiness (`database`, `httpapi/health.go`) | connections | acquire, ping | exhausted pool, sizes that do not fit | the pool is the one that was configured |
| Router, middleware, burn (`httpapi/router.go`, `middleware.go`, `burn.go`) | the request's id and status | `NewRouter`, `requestID`, `requestLogger`, `recovery`, `burn` | routes that depend on the role, panics, order of the middleware | every request leaves its trace; no handler without its service |

The logger's construction, Kubernetes and load-test files keep no state the properties
are about and are not modelled.

## Modules

| Module | Models |
|---|---|
| `DeliveryContract` | the promise to the message source, abstractly |
| `Ingest` | subscription, concurrent handler runs, service, sink, BigQuery, quarantine, view |
| `MCIngest` | the documents of the TLC instances, and bounds for two-message instances |
| `IngestProofs` | proofs about `Ingest`, including that it implements `DeliveryContract` |
| `EsmpDocument` | what a document is, which ones are legal, and which readings they mean |
| `EsmpParser` | the streaming parser, token by token |
| `MCEsmpParser` | the documents of the parser's instance |
| `EsmpProofs` | types and bounds of `EsmpParser`, proved |
| `EsmpMeaningProofs` | proofs that `EsmpParser` finds what `EsmpDocument` says a document means |
| `ServerLifecycle` | one process from boot to exit, with the requests that run meanwhile |
| `MCServerLifecycle` | the roles that environments `Config` accepts lead to |
| `ServerLifecycleProofs` | proofs about `ServerLifecycle` |
| `Migrator` | instances and operators migrating one database |
| `MCMigrator` | the revisions and commands of the instances |
| `MigratorProofs` | proofs about `Migrator` |
| `TaskTable` | the table `tasks` as the SQL statements see it, shared by the next ones |
| `TaskContract` | the promise to API clients, abstractly: a map from ids to tasks |
| `Tasks` | concurrent requests through handlers, service, repository and pool, with the readiness probe |
| `TaskPaging` | a walk through the pages of the list next to writers |
| `MCTasks`, `MCTaskPaging` | the calls of the instances |
| `TasksProofs` | proofs about `Tasks`, including that it implements `TaskContract` |
| `PagingProofs` | proofs about `TaskPaging` |
| `Config` | the environment's variables to a configuration, and which ones are refused |
| `ObjectNames` | the name a parked payload is stored under |
| `Instance` | one instance from its environment to its answers: wiring, routes, middleware, burn, push tokens, parked payloads |
| `MCInstance` | the environments and requests of its run |
| `InstanceProofs` | proofs about `Instance` and the operators it uses |

### Ingest

The unit of concurrency is a delivery attempt `<<m, n>>`, the n-th push of message
`m`: one run of `consume`. All runs share the table, the bucket and the wall
clock. Actions and code:

| Action | Code |
|---|---|
| `Publish`, `Deliver`, `Expire`, `DeadLetter` | the subscription (`messaging/main.tf:38-73`): at-least-once push, 60 s lease, five delivery attempts |
| `Receive` | `consume` up to the call of `Ingest`: 401, 413, a cut body 503, a bad envelope parked |
| `Open` | `Service.Ingest` up to `Parse`: registry, then the stamp |
| `EmitBatch`, `AwaitResult` | the emit callback: validate, `AppendRows`, `GetResult`, `classify` |
| `ParserCancelled`, `FinishParse` | how `Parse` ends |
| `Park` | `park`: quarantine or log, answer 200 either way |
| `Reply`, `ReplyLate` | the answer reaches Pub/Sub, in time, late or not at all |
| `Commit` | BigQuery applies an append, also after its run has failed or died |
| `Crash`, `Sigterm`, `Disconnect` | the process dies; the stream's context ends; the request's context ends |

A document is abstracted to what decides its fate (envelope, root, batches with
their keys and validity, end). An append is identified by its attempt and batch
index, so two attempts of one message leave two sets of rows. `before` and `calm`
are history variables that no action reads.

`Classify` deserves a word. A gRPC error is "retryable" or "rejected" by the list in
`sink.go:153`; a context that ends surfaces from the client library as the bare
context error, which carries no gRPC status, so `status.Code` is `Unknown` and the
error is permanent.

### EsmpDocument and EsmpParser

One step per XML token. Elements that carry a value are one token each, with text
abstracted to what the parser tells apart; `encoding/xml` guarantees nesting, so
documents nest, but they may stop anywhere. An element that stands where the parser does not look
for it, a `Period` outside a series say, is skipped with all it holds, so it is one token "other":
`WellNested` says all this, and `NestingAssumption` asks it of every document. The file that holds the document loop,
`requirePointContext` and `intervalStart` is not in the tree; these are modelled from
how `esmp.go` calls them and marked external. `EsmpDocument` says, of a whole
document at once and without the parser's state, which documents are acceptable (`Legal`) and
what reading a point means (`ReadingAt`).

### ServerLifecycle

Three kinds of actor: the main goroutine (`main` says where it is), the goroutine of
`Run` that listens (`listener`), and the requests. SIGTERM comes at any moment and only
cancels the context made in `run`; handlers do not see that context, the stream of the
sink does.

| Action | Code |
|---|---|
| `MigrateOnStart`, `OpenPool`, `OpenSink`, `OpenGCS` | `serve` and `wireIngest` up to `srv.Run`, with every way to fail |
| `StartListening`, `Bind`, `ListenerFails` | the goroutine of `Run` |
| `SelectError`, `SelectDone`, `DrainDone`, `DrainTimeout` | the `select` of `Run`, `Shutdown` and its timeout |
| `CloseSink`, `CloseGCS`, `ClosePool`, `PoolClosed`, `Exit` | the deferred calls in their order, then `main` |
| `Accept`, `Acquire`, `Release`, `Write`, `Park` | what a request needs of the pool, the sink and the bucket |

`Return` decides which deferred calls run from what was opened. The drain's timeout is
abstracted: it may pass whenever a request is still running. `misused` is a history of the
requests that called a client after it was closed. What a request does between its uses of a
client is not visible here; `Ingest` models it for the ingest role.

### Migrator

Processes that each run one command at a time (`up` at boot or by hand, `down n`, `down all`,
`force v`) over one database: a recorded version, a dirty flag, an advisory lock that dies
with its session, and `schema`, the migrations whose effect the database really has.
golang-migrate is external and modelled as the statements it sends: `Acquire`, `Check`, then
`Mark`, `Run`, `Clean` for each migration, `Unlock`. A process may crash between any two of
them, and `RunFails` is a file that fails (its transaction is rolled back). `Report` and
`ReadVersion` are `Migrator.Up` and `Down` after the library returns. `StartForce` is an operator
who follows `migrator.go:118-119`: the schema is first repaired by hand to the version that
is then forced, by one operator at a time and not while a migration is running. (`api migrate
version` takes no lock and shows a running migration as dirty: an operator who forces on
that evidence alone is outside the model.) `found` and `met` are history variables.

### Tasks

A request makes one call and runs one statement on one connection. `TaskContract` is a map on
which a call takes effect at most once after it was made, and whose answer tells what the
map held at that instant; a failed call may have had its effect or may still have it.

| Action | Code |
|---|---|
| `Ask`, `Refuse` | routing to a handler; binding, `parseID` and `normaliseTitle`, which answer 400 |
| `Acquire`, `AcquireFails` | the pool hands out at most `DB_MAX_CONNS` connections |
| `Run` with `Insert`, `Update`, `Delete`, `Get`, `List`, `Ping` | the statement takes effect |
| `RunFails`, `ResponseLost` | an error before and after the effect, 500 (503 for the probe) |
| `Respond` | rows scanned, connection released, answer by `Found`, `Removed` or 201 |
| `ProbeTimeout` | the two seconds of `ready` |
| `Leave`, `OrphanRuns`, `OrphanDies` | the client leaves, the context closes the connection, Postgres may finish the statement |
| `Outage` | Postgres goes down or comes back |

The table is a set of rows; `store` reads it as a map. That ids are unique is not built in but an
invariant. A title is abstracted to its trimmed text and whether white space surrounds it.
The `CHECK` on the title is not modelled: `TypeOK` shows that no blank title reaches it. For the
probe, a connection that breaks is not told from an outage. In `Tasks` an insert draws its id and
commits in one step, since no property depends on the order of ids; `TaskPaging` splits it
into `Draw` and `Commit`, because there the order matters: a row may appear between older and
newer ones. `throughout`, `inserted` and `deleted` are history of a walk.

### Config, ObjectNames and Instance

`Config` and `ObjectNames` hold operators only: `Load` and `Valid` are `Load` and `validate`
of `internal/config`, `ObjectName` and `SanitizeID` the functions of those names. `""` is a
variable that is empty or not set. `MCServerLifecycle` takes its roles from `Config` too, and
has TLC compare them with the `Role` of `ServerLifecycle`.

`Instance` composes them with `main.go`, the router and what stands between a request and its
handler. The handlers of tasks and the ingest service only answer here; `Tasks` and `Ingest`
model them.

| Action | Code |
|---|---|
| `LoadConfig`, `Boot` with `Pool`, `Wired` | `run`, `serve`: refuse or wire `Deps`; `NewPool` narrows the sizes to `int32` |
| `Arrive` with `Registered`, `Route`, `RequestID` | `NewRouter`; 404, 405 or gin's redirect of a trailing slash, which runs no middleware; `requestID` |
| `Handle`, `Burn` | the probes, the tasks, `NoRoute`, `NoMethod`; `burn` and `spin` |
| `Push` with `Verifies`, `Consume`, `Park` | `oidcVerifier.Verify`; the outcome of `Ingest`; `GCS.Quarantine` |
| `Panic`, `Recover`, `LogLine` | a panic in a handler, `recovery`, the line `requestLogger` writes when all is over |

`admitted`, `kept` and `nil` are histories that no action reads; `nil` collects the requests whose
handler lacked what it calls, and such a request can do nothing but panic.

## Runs

| Run | Shows | Bounds |
|---|---|---|
| `ingest_one` | the safety invariants, the inductive invariant, and the refinement of `DeliveryContract` | seven kinds of document, one published per behaviour; two attempts, which may overlap |
| `ingest_quiet_correction` | `QuietCorrectionWins` | two messages on one key, two attempts each |
| `ingest_liveness` | `EverySettles`, `EveryRunEnds` | one message, two attempts |
| `esmp_parser` | the parser accepts exactly legal documents, emits each reading once and in order, in bounded batches | two legal documents, every single edit of the larger, every pair of edits of the smaller; batches of 2, limit 4 |
| `server_lifecycle` | partial starts are released, nothing is closed under a handler after a complete drain, exit code 0 means just that, and a signal ends the process | two requests, six configurations |
| `migrator` | a clean version is the truth about the schema, the database moves by one announced migration at a time, success means the command did exactly what it was asked, the lock always comes back | two processes of different revisions, two migrations, four commands |
| `migrator_revisions` | refutes `deploy/README.md:150` (finding) | two boots of two revisions |
| `tasks` | the requests together are the map of `TaskContract`; `EveryoneAnswered` | three requests, eight calls (five operations, refusals, the probe), two connections, two ids |
| `task_paging` | rows missed are bounded by deletions, rows repeated by insertions | five ids, pages of two |
| `instance` | what an instance serves, lets in, logs, burns and parks, for good and bad environments | 45 environments, two requests of 31 kinds; ids of up to three characters cut to two, an `int32` up to 15, an `int64` up to 63 |
| `ingest_later_correction` | refutes the view's comment (finding) | as above |
| `ingest_cancelled_append` | refutes the comment in `classify` (finding) | one message, one attempt |

**Why the bounds suffice.** Messages interact only through the view, so the
one-message run covers every per-message property, and two messages on a common key
cover the pairwise ones. Two attempts give every overlap of an abandoned run with its
successor; `MaxAttempts` is also the dead-letter limit, so the limit is reached. The
documents have two batches, the second of which may be invalid, or end malformed: the
first defect may come before, between or after the writes. `MaxPublished` bounds how many
messages are published. The two-message instances add the constraint `Steady`: a run
that would park stops there instead and contexts do not end. Neither takes away a
write, since parking writes no row and a run may still stop anywhere. `QuietSpec` restricts the publisher
to one message at a time; `QuietCorrectionWins` speaks only of pairs published that
way.

Two requests are enough for the life cycle: one that is still running when another is
answered, or that keeps a connection while another is refused. Four migrator commands allow
a crash inside a migration, the repair, a roll back and a boot by another revision in one
behaviour; two migrations give a first, a last and a middle version.

Three requests on one id give every pair of conflicting calls a witness, and on two connections a
third that waits; two ids let the sequence run out. Requests differ in nothing but their names,
so both runs only keep the behaviours in which they are named in the order of their calls
(constraint `Named`); only `Ask`, which is not fair, could leave these behaviours. Five rows in
pages of two give a first, a middle and a short last page.

The environments of `instance` are one for each role and one for both, each with the
variables that decide something missing, misspelt or out of range, one or two at a time. The words are
scaled so that a pool size (33) wraps to one that can be opened and another (20) to one that cannot,
and a number of milliseconds wraps to something below the cap. Two requests are enough for one to
replace the other's object or take its id; they are symmetric, and the run checks invariants only.

**Assumed.** `ingestedAt` is read from a clock that all instances share and that moves
between two readings: runs on instances with skewed clocks are outside the model.

**Fairness.** `LiveSpec` assumes that a handler run keeps taking steps (a request is
ended after 180 s by Cloud Run, so no wait in it is endless), and that Pub/Sub delivers,
expires leases and dead-letters. It assumes nothing of the publisher, of BigQuery's commits, or
of the faults: appends may hang until the wait ends in an error.

For the life cycle, `LiveSpec` assumes that the main goroutine runs (so the calls it makes at
boot return, and the drain ends by its timeout) and that Postgres ends every statement,
which `Pool.Close` waits for. It assumes nothing of the ingest handlers.

For the tasks, `Fairness` assumes that handlers run, that the pool serves who waits (requests are
finitely many, so nobody is overtaken for ever) and that Postgres ends every statement or the
connection breaks: the repository sets no timeout of its own. It assumes nothing of outages, which
may come and go for ever, nor of statements whose client left.

For the migrator, `LiveSpec` assumes that Postgres ends every statement and hands a free lock to one
who waits. It assumes nothing of the 15 seconds after which the library stops waiting: the
property is that nobody needs them.

## Findings

1. *A later correction does not always win.* `warehouse/main.tf:42` says it "wins because it
   was ingested later", but `ingestedAt` is taken at each delivery (`service.go:45`), so a
   redelivered older message overtakes the correction. `ingest_later_correction` shows it;
   `QuietCorrectionWins` says when the comment does hold: once everything earlier is over.
2. *A cancelled append is not retried.* `sink.go:155` says a cancelled append "must be
   retried, not treated as permanent", but the bare context error is classified as
   permanent, parked and acknowledged. `ingest_cancelled_append` shows it.
3. *Concurrent revision starts can fail.* `deploy/README.md:150` calls them safe, but a revision that
   starts over a schema newer than its own migrations gets an error that `Migrator.Up` does not
   tell from any other, and the process exits. `migrator_revisions` shows it.
Smaller divergences that no run is about:

- `database/postgres.go:22` calls the narrowing of the pool sizes "bounded by config validation", but
  `validate` bounds neither from above. `PoolAsConfigured` says what is left of it.
- `quarantine/gcs.go:34` says that distinct ids "always produce distinct keys". They do as long as the
  32 bits of the digest differ or the readable part does; `Instance` assumes the former of the ids of a run.
- A setting that does not parse is not refused but replaced by its default (`config.go:222-259`),
  although `README.md:161` lets the process fail fast on an invalid configuration. `ServesAsTold` says what
  still holds.
- gin answers a path with a trailing slash by a redirect before any middleware runs: such an answer
  has no `X-Request-ID` and no line in the log. `Traceable` leaves it out.
- A busy pool makes readiness blame Postgres: `README.md:63` says a 503 of `/readyz` names the
  dependency that is down, but the probe waits for a connection of the pool the requests use, and its
  timeout names `postgres` as well (`health.go:41`; `ProbeTimeout` of `Tasks`).

## Proofs

`IngestProofs` (all constants arbitrary, under `IngestAssumption`):

- `TypeCorrect`, `Invariance`: the inductive invariant `IInv`. The four properties are
  not inductive. That 204 means stored needs, while a run is still
  parsing, that every batch before `next` is in the table (`WritesInOrder`); that a
  parked document is torn up to its defect needs the same fact at the moment of parking
  (`TornWhenParked`); that an acknowledged message is accounted for needs that Pub/Sub only
  takes an answer some attempt gave (`AckedOnAnswer`), that a 200 was preceded by a trace
  (`ParkLeavesTrace`), and that an attempt answers once (`AnswersOnce`). `FreshAttempts` and
  `NoEarlyWork` keep a new attempt's state fresh.
- `NoSilentLoss`, `StoredMeansDurable`, `PrefixesOnly`, `TornDocuments`: the
  safety properties, from `IInv`.
- `QuietCorrections`: `QuietCorrectionWins`, from `QuietInv`. A run takes its stamp when it opens the
  document, after the clock has passed every stamp given before (`Stamps`); what was over when a message
  was published stays over (`CalmStaysOver`), so it takes no stamp any more and every stamp it has is
  earlier than any the message will get (`CalmIsEarlier`). A row carries its run's stamp
  (`RowsAreStamped`), and the view picks the latest.
- `Refinement`: `Spec => Contract!Spec`. Each step maps to a step of the contract or a stutter:
  `Commit` to `Store`, `Park` to `Keep`, an acknowledging reply to `Ack`, `DeadLetter` to `Bury`,
  `Publish` to `Accept`. `IInv` supplies the enabling conditions.

`EsmpProofs` and `EsmpMeaningProofs` (any documents that nest, any batch size and limit: the assumptions of
`EsmpDocument` and `EsmpParser`):

- `TypeCorrect`: types, including that the reading count never passes the limit.
- `BoundedBatches`: `BatchesAreBounded` for every document and batch size. It needs the
  strengthening `FullBatches`: while the parser runs every emitted batch was full, so only
  the flush at the end emits a shorter one.
- `ParsesExactlyLegal` and `EmitsWhatIsMeant`: `AcceptsExactlyLegal` and `EmitsReadingsInOrder`, for every
  document. Both rest on `Knows`: between two tokens the parser stands at the level where the
  document nests (`Located`); the locals of `parseTimeSeries` and `parsePeriod` are what the whole-document
  definitions say of the cursor's place (`SeriesKnown`, `PeriodKnown`); the tokens before it are those of a legal
  document (`LegalBefore`) and their points are counted (`Counted`). That this survives a token needs no induction
  over documents: the lemmas `EncloserStep`, `SeriesValStep`, `PeriodNumStep` and `ShownStep` compute the
  meaning of one place from that of the place before. A document is refused because of the token under the
  cursor (`Refuses`). For the order, `RowsInOrder` says that the row at the rank of a point is that point's
  reading; a flush keeps the rows (`FlushKeepsRows`), for concatenating batches is concatenating one more at
  a time (`FlattenAppend`, where the recursive function in `FlattenSeq` is shown to exist and to be
  unique by a least counterexample).
- `SameBatchesAlways`: the rows of the n-th batch are the readings of the same points in every run over a
  document, however the run ends. `Ingest` rests on it: there a document has one sequence of batches,
  whichever attempt parses it. It follows from `BoundedBatches` and `EmitsWhatIsMeant`, since while the parser runs the rows
  stored fill whole batches (`Aligned`).

`ServerLifecycleProofs` (any set of requests, any configurations):

- `TypeCorrect`, `ReleasesEverything`, `ClosedOnlyUndrained`, `CleanStop`, from `Invariance`. The invariant
  says what is open at each position of the main goroutine (`OpenMatchesMain`), that a process
  that never listened has no requests (`QuietBeforeListen`), that requests only need what their
  role opened (`RequestsNeedRole`), and that "ok" was drained (`ResultMatchesMain`). Without the
  middle two a handler could be thought to use a pool that was never there.

`MigratorProofs` (any number of processes, revisions, migrations and commands):

- `TypeCorrect` and `VersionIsTruth`, from `Invariance`: `SchemaMatchesVersion` alone is not inductive,
  for it says nothing while the flag is dirty. `InMigration` says what is applied in the
  middle of a migration, `BetweenMigrations` that nobody else has moved the version since it was
  read, `LockHolder` why, and `ForcePending` that a repair stays true until it is forced.
- `MovesOneAtATime`: `OneMigrationAtATime`, a property of steps: the database only moves by announcing
  the next version (`Announced`), by changing the schema to the announced one (`Changed`), and by
  settling on a version whose schema is there (`Settled`). It needs `MarkedVersion` beside the invariant: in the middle of a
  migration the recorded version is the one it leads to. `NextDoor` says that a migration's file
  turns the schema of its version into the schema of the next.
- `SuccessMeansDone`: `OkMeansDone`, from `DoneInv`. While a command holds the lock, `RolledBackBy` counts
  what a roll back has undone so far; `DecidedBy`, `ReportedBy` and `RoutedBy` carry the outcome from the
  point where it is decided to the report. Another process cannot disturb them (`OthersKeep`), for only
  the holder of the lock moves the version.

`TasksProofs` (any requests, calls, pool and sequence sizes, under `TasksAssumption`):

- `TypeCorrect`, `Invariance`: unique ids, none beyond the sequence, a connection out for exactly the
  requests at the database, and a result exactly for the statements that took effect.
- `Implementation`: `Spec => Contract`. A statement maps to the call's effect on the map (`MapInsert`,
  `MapUpdate`, `MapDelete`, `MapSelect` and `MapPage` say what it does to `store`; all need unique
  ids), an answer to `Tell` or `Fail`, everything else to a stutter. The invariant supplies that
  the statement runs at most once and only for calls the contract accepts.

`PagingProofs` (any number of ids, any limit from 1 to 100, any number of writers):

- `WalkMissesFew`: `MissesOnlyForDeletes`. The strengthening is `BehindIsBounded`: while the walk goes on, the
  rows that stay, were not shown and have a place before the next page are no more than the deletions. An insert moves
  rows back (`NewerGrows`), a page only passes rows it shows (`NotShownWasBehind`), and a deletion brings
  at most one row over the edge (`OneFallsBehind`), for no two rows share a place (`SamePlaceSameRow`). That nothing is left after
  a page that is not full is `LastPage`: places have no gap (`NoGap`, an injection between
  finite sets of one size).
- `WalkRepeatsFew`: `RepeatsOnlyForInserts`. The strengthening charges repetitions before they happen: a row that was
  shown and now has its place on the next page or later counts already (`Charges`). A page turns
  charges into repetitions, an insert moves at most one shown row over the edge (`ChargesStep`), and a row
  that commits late was never shown before (`FreshIds`).

`InstanceProofs` (any environments, requests, ids and word sizes; under the assumptions of `Config`,
`ObjectNames` and `Instance`, the last of which says that half a word of SHA-256 tells the ids of a run apart):
- `Invariant`: `WiredByEnv` ties what is wired to an environment that was accepted; the other parts say
  what a request has left behind at each of its steps (the lines of the log, its id, the token it was let in
  with, the name of its object, the time it burnt). None of the properties is inductive without them:
  `AuthenticPush`, say, needs that the configuration a push was checked against is the one validation passed.
- `TypeCorrect`, `Complete`, `PushesAreAuthentic`, `ServesWhatItIsTold`, `PoolIsConfigured`, `BurnsAreAsked`,
  `EveryRequestTraceable`, `WhatIsParkedIsFound`, `NamesAreInPrefix`: the invariants of the run `instance`.
- `PoolIsConfigured` and `BurnsAreAsked` rest on `WrapFits` (what is left of a number in a word),
  `WhatIsParkedIsFound` on `SameNameSameId`, `NamesAreInPrefix` on `SanitizedInPrefix` (what trimming and
  cutting leave of a sequence of characters; the least and the greatest position come from the well-foundedness of `<`).

Only model-checked: the liveness properties (`EverySettles`, `EveryRunEnds`, `StopsWhenTold`,
`NobodyWaitsForever`, `EveryoneAnswered`), since fairness is
beyond the prover. Every safety property of the passing runs is a theorem.

## Not modelled

An error of `Shutdown` other than its timeout; a second signal;
the migrator's rewriting of the DSN and its close; the encoding of rows; the client libraries' own
retries; a panic in the middle of an ingest run (in `Instance` it is answered 500, which Pub/Sub treats
like the 503 of `Ingest`); the XML decoder; levels and wording of the log; Kubernetes, the remaining Terraform, load tests. The energy-account parser
is registered in `cmd/api/main.go:136` but its source is not in the tree.

## Plan

1. The metadata a quarantined object carries, should its printable form begin to matter.
2. An energy-account parser beside `EsmpParser`, once its source is in the tree.

# process-path-management in TLA+

This directory holds a formal model of the process-path-management service:
what its command side commits, how CPT schedules are replaced, what its outbox
relays deliver while pods come and go, what its analytics projector counts and
its reports say, and how the service behaves without a database. Requests
interleave, statements fail, processes die and messages come twice. TLC checks
the modules on small instances; TLAPS proves their safety properties and two
refinements for every value of the constants.

Run everything from this directory:

    tlc -config MCPathCatalogue.cfg MCPathCatalogue.tla
    tlapm PathCatalogue_proofs.tla

## The system

| Part | State | Operations | Interacts with |
|---|---|---|---|
| ProcessPath aggregate (`internal/domain/processpath`) | terms, routing facts, cycle time, status | Define, Revise, Deactivate | saved whole as one row of `process_paths` |
| Path commands (`application/usecases`, `adapters/outbound/postgres`, HTTP handlers) | `process_paths`, `outbox_events`, one open transaction per request | POST, PUT, DELETE | row and events in one transaction (ADR 0003) |
| Idempotency-Key middleware (`adapters/inbound/http/idempotency.go`) | `idempotency_keys` | insert, replay, record, roll back | its transaction is joined by the use case (ADR 0011) |
| Outbox relay (`outbox_relay.go`) | `published_at`, row locks, a batch | claim, send, mark, commit | reads what the commands commit, writes two Kafka topics |
| API and MCP pods (`cmd/pathmgmt`, `cmd/mcp`, `bootretry`, `migrate.go`) | phase, open transactions, `schema_migrations` | boot, migrate, serve, drain, be killed | each API pod runs a relay |
| Analytics projector (`cmd/pathmgmt-projector`) | group offset, two dedupe tables, the rollup, a dead-letter topic | fetch, gate, apply, dead-letter, commit | reads the analytics topic |
| Reports API and the MCP report tool | none | two queries | read the rollup and the projector's dedupe table |
| CPT schedules (`domain/cptschedule`, `cpt_schedule_repo.go`) | a schedule row and its cutoff rows | PUT, GET | checks that eligible paths are Active |
| In-memory mode (`adapters/outbound/memory`, `fanout_publisher.go`) | a map of shared objects, no transaction | the path commands | sends to both topics while the request waits; development only |
| Queries and the other MCP tools | none | reads | the tables above |
| Telemetry, web console, charts | none of the service's | | |

What is hard here, and where `PROJECT.json` lists it line by line: PUT and
DELETE read the aggregate before their transaction opens; POST reads it inside
one, at READ COMMITTED; the upsert overwrites whatever is there when it gets
the row; outbox ids are drawn long before they commit; one key may be used by
several requests at once; a schedule is read by two statements outside any
transaction and its eligible paths are checked one by one; a COMMIT's
acknowledgement can be lost; a send can fail and still arrive; several relays
work at once during a rolling deploy, and SIGTERM stops a pod's relay before
its requests are drained; a migration can be cut short; the projector's gate
and its projection are two transactions; a consumer group rebalances while a
message is being handled; without a database, requests share the objects they
read and write.

What would make each part correct:

- commands: store and outbox agree; the two topics agree; a deactivated path
  stays so; an id is defined once; answers are true; nobody waits for ever;
- idempotency: a key is applied at most once and its retries agree;
- relay and pods: nothing is marked that was not sent; a row is sent again only
  after a failure; the rows of a path keep their order, or at least consumers
  end at the newest; every row outlives the pod that wrote it; no pod serves on
  a half-migrated schema, and all of them serve in the end;
- projector: nothing counted twice, nothing lost, nothing wedged;
- reports: every day in exactly one of two adjoining windows, counts that are
  exact, a freshness that hides nothing;
- CPT schedules: a schedule is replaced whole, says so on both topics, names
  paths that exist, and a PUT answered 200 took effect;
- in-memory mode: what a client is told is on both topics; what is stored has
  been announced, and what is announced is stored.

## The modules

| Module | Models |
|---|---|
| `ProcessPath` | the aggregate's functions and its row: `Define`, `Revise`, `Deactivate`, `SameTerms`, `Upsert` (the SET list of `ProcessPathRepo.Save`), `ToInterval` / `FromInterval` |
| `PathCatalogue` | concurrent POST, PUT and DELETE requests as sequences of SQL statements; the idempotency middleware; transactions as private write sets |
| `ChangeFeed` | the abstract specification of the transactional outbox: a store of paths and a feed per topic and path that change together |
| `PathCatalogueFeed` | the refinement: the feed of a path is its committed outbox rows ORDER BY id |
| `OutboxRelay` | relays over rows whose writers hold their path from drawing an id to commit |
| `ServicePods` | the life of the pods around `OutboxRelay`: boot, migrations, requests, SIGTERM, drain, kill, restart |
| `AnalyticsProjector` | the consumers of one group over one partition |
| `CatalogueReport` | the reports API and the MCP tool over the projector's tables |
| `CPTSchedule` | concurrent PUT and GET requests for the schedule of a site, while the paths its cutoffs name change |
| `MemoryMode` | the path commands on shared objects, without transactions, with the fan-out to Kafka |
| `MC...` | instances for TLC |
| `PathCatalogue_proofs`, `PathCatalogueFeed_proofs`, `OutboxRelay_proofs`, `ServicePods_proofs`, `AnalyticsProjector_proofs`, `CatalogueReport_proofs`, `CPTSchedule_proofs`, `MemoryMode_proofs` | theorems about the module each is named after |

`PathCatalogue` and `MemoryMode` are two implementations of the same commands;
both compose `ProcessPath` (EXTENDS). `OutboxRelay` takes from `PathCatalogue`
only what `NoLateInsert` and `TopicsAgree` establish: its writers insert one
row per topic under a lock on their path and commit or roll back. `ServicePods`
composes `OutboxRelay`: a writer is a request some pod is serving, a relay
belongs to an API pod, and every failure of a pass has a cause. It implements
`OutboxRelay` (`PodsImplementRelay`). `AnalyticsProjector` takes from the relay
a partition with redeliveries; `CatalogueReport` extends it and reads it in
every state. `CPTSchedule` takes from `PathCatalogue` what a path's status may
do: a row appears active, is never deleted and, given `resurrection`, changes
its status either way (`PathChanges`).

### How state and actions correspond to the code

*Requests.* Each request has a `stage`, the next statement it will issue:
`Arrive` (router), `RefuseMissingKey`, `InsertKey`, `Replay` (middleware),
`FindAndStop` / `FindAndChange` (FindByID and everything decided from that one
read, early returns in the order of the code), `Save` (the upsert), `Publish`
(one INSERT per encoder, twice), `RecordOutcome` (the UPDATE of the key's
row), `Commit`. `RollBack` is any failure before the commit took effect. A POST goes
through all of them in the middleware's transaction; PUT and DELETE read
first and open theirs at `Save`. `tx[r]` is what the transaction has written;
`Commit` publishes it at once and answers with the decided code, or with 500
when the acknowledgement was lost.

*Locks.* Postgres makes an `INSERT ... ON CONFLICT` wait for an uncommitted
row of the same key. That is `HoldsKey`, `HoldsPath` and `Holds`, external to
the repository and the only locks the code relies on.

*CPT schedules.* A request's `stage` is again its next statement. `ReadHeader`
and `ReadCutoffs` are the two SELECTs of `FindBySiteID`, each a snapshot of its
own; `CheckPath` is one lookup of `validateEligiblePathIds`; `Decide` is
`Define` or `Revise` with its early returns; `Save` is the upsert of the site's
row, whose lock orders the writers of a site; `Replace` the DELETE and the
INSERTs of the cutoffs; `Publish` one INSERT per topic; then `Commit` or
`RollBack`. `InOrder` is the `ORDER BY cpt_id` in which cutoffs are read back.

*Relay.* `Claim` is the SELECT ... FOR UPDATE SKIP LOCKED; `Send`,
`SendFails`, `Mark` and `Commit` are the loop of `RelayOnce`; `Abort` is a
pass that ends in ROLLBACK (failed mark, failed commit, killed pod, or the
context that SIGTERM cancels). A topic is a sequence; the Hash balancer keeps
a path on one partition, so only the order of one path's rows is looked at.

*Pods.* `Boot` is the whole of the first dial: a sidecar becomes warm after
some `WarmUps` and the attempts of `bootretry.Do` (`Backoff`) reach it or not;
when they do not, the process exits and `Restart` is the container's next
start. `Migrate` sets the dirty flag, `Migrated` clears it, `Serve` finds
nothing to do, `RefuseDirty` is the error golang-migrate returns for a flag
that a killed pod has left. `Request` and `EndRequest` are `Insert` and
`EndInsert` of the relay's model, done by a pod that serves or drains.
`PodClaims`, `PodRelays` and `PodRelayFails` are passes of a pod that serves.
`Terminate` is SIGTERM, which cancels the relay's context before the drain
begins; `EndPass` is the pass it cut short; `Close` waits for requests and
relay. `Kill` leaves a dead pod's transactions to Postgres, which commits or
rolls them back later (`EndRequest`, `EndPass`).

*Projector.* `Fetch` decodes and routes; `Mark` is `MarkProcessed`, `Apply` is
the projection's own transaction (claim and rollup), each with its bounded
retry loop (`RetryElse`); `DeadLetter` and `Commit` end the message.
`Restart` is a crash or a shutdown, `Rebalance` hands the partition over. The
rollup has a row per UTC day (`Bucket`).

*Reports.* They write nothing, so the two queries are functions of the
projector's state: `Rows` is the SELECT of `Query`, `GetCatalogueGrowth` the
handler with its refusals, `ReportTool` the MCP tool that calls it over HTTP,
`FreshnessLag` the query behind the freshness endpoint.

*In-memory mode.* `store` holds references into `heap`, as the repository's map
holds pointers. `Find` is FindByID and everything decided from the fields read
through its pointer, `Change` the assignments of Define, Revise or Deactivate,
`Save` the map assignment, `Build` the event made from the fields as they are
then, `Send` and `SendFails` one publisher of the fan-out. While a request
revises an object, others may read any mixture of old and new fields
(`Views`), and two of them at once may leave one behind (`Revised`): a data
race, given more outcomes than a build will produce.

### Abstractions

matchPrefix, requiredCapabilities and eligibility are one value of `Terms`
(they are always stored and compared together); direct and
destinationLocationRole are one value of `Routes`. Timestamps that no property
is about, metrics, wording and the JSON of events are left out. A request body
is a record with a `form` that says which check refuses it. A POST whose
body cannot be read at all (400) is left out: its client is gone. An event's id
is the request that published it, since a request publishes once. In a cutoff,
localTime, daysOfWeek and shipMethod are one value of `Departures` (stored and
compared together), and the cptId is a number, in the order of
`ORDER BY cpt_id`; the eligible paths stay a sequence, since the code compares
them in order.

In `ServicePods` all pods are of one release; the dials of one boot are one
step; Postgres may keep the pass of a dead pod as long as it likes before it
notices; golang-migrate's wait for its advisory lock does not time out. The
projector's and the reports API's own boots are not modelled. In `MemoryMode`
the read of a request's fields follows its FindByID at once.

## Runs

| Run | Instance | Shows |
|---|---|---|
| `catalogue` | 4 requests, 1 path, 2 keys, 6 calls | store and outbox agree, topics agree, keys apply once, retries agree, answers hold, ids of a path become visible in order |
| `two_paths` | 3 requests, 2 paths | the commands implement `ChangeFeed`; every request is answered (fairness) |
| `serial` | 4 requests one at a time, every refusal | the documented life cycle holds without concurrency |
| `resurrection` | 3 requests | violation: a stale PUT reactivates a deactivated path |
| `overwrite` | 3 requests | violation: two POSTs define one id |
| `pods` | 2 API pods with a relay each, 1 MCP pod, 1 path, 4 ids, batch 3, 1 failed pass, 2 stops | nothing is marked unsent, order and convergence unless passes overlap, no pod serves a half-migrated schema, rows outlive their pod and all pods serve in the end (fairness) |
| `relay_overlap` | 2 API pods, 1 path, no failure | violation: a later row of a path overtakes an earlier one |
| `stranded` | 1 API pod, 1 stop, no failure | violation: an orderly shutdown leaves a row behind |
| `projector` | 2 consumers, 6 messages over 2 days, 3 attempts, 3 errors, 2 rebalances, 1 cut, 6 instants | nothing counted twice, losses need a cut, reports are exact and tile, freshness is honest, no message wedges (fairness) |
| `projector_restart` | 1 consumer, 1 restart | violation: a restart between gate and apply loses the event |
| `schedules` | 3 requests, 1 site, 2 paths, 2 zones, every refusal | schedule and outbox agree, a read moves forward only, the paths named exist, a PUT answered 200 took effect |
| `memory` | 3 requests, 1 path, 5 calls | fan-out is fail-fast, what is stored is announced and the reverse, a deactivated path stays so |

*Why the bounds are enough.* Four requests on one path are a POST, its retry,
a revision and a deactivation in any order, or three rivals and the request
they compete with; no guard relates more than two requests or two paths. Two
keys and two bodies give a retried key, a key reused with another body and two
keys for one path. 1500 and 2000 ns are on either side of the microsecond. The
second path of `two_paths` is needed only for ids that interleave. Three PUTs
and GETs of one site are a reader and two writers, or three writers, of
which one may read between another's two tables; the bodies differ in the zone
and in the cutoffs, and a third one is the mixture of the two; the two paths
give a schedule that names a path in two cutoffs and lists these out of
order. Sites share no row.

Two API pods overlap, replace each other and migrate at the same time; the MCP
pod is the one that migrates without ever relaying. Two stops are a pod that
goes and the one that took over going too, one of them during a migration. Four
ids are two requests, of which the second may be accepted by the other pod or
during the drain; batch 3 is a batch that ends inside a request's pair of rows.
A sidecar is warm at once, after the 10 s of retry.go:10, or after 20 s, when
five attempts (the last one 15 s in) have given up.

Three attempts are the projector's own number and three errors exhaust one
retry loop; the topic holds a redelivery, a type that is not projected and a
message of the retired envelope, over two days of four units, and the instants
are midnights and times of day between them. The three requests of `memory` are
two that revise one object while the third reads it, or two POSTs of one id and
the PUT or DELETE that meets them; cycle times 1 and 2 and two `Terms` make
every mixture distinct from what was sent.

`MaxId`, `MaxFailures`, `MaxStops`, `MaxErrors`, `MaxRebalances` and `MaxCuts`
bound counters and appear only in guards. Symmetry is used over requests, and
never in a run with a liveness property.

`CHECK_DEADLOCK FALSE` appears where the system may really stop: at the end of
the partition or when `Run` has returned (projector), when no request is left
(memory), on a dirty schema that no pod can serve (pods). `PathCatalogue` marks
its intended end with `Quiescent`; in `CPTSchedule` paths go on changing.

*Fairness.* A request is a goroutine whose statements are bounded by
`statement_timeout`, so `Progress(r)` is weakly fair; `RollBack` is not, nothing
has to fail. Kubernetes starts a container that has exited and a booting
process goes on (`Start(q)`); a drained pod closes (`Close(q)`); a serving
pod's relay loops until its context is cancelled (`PodClaims \/ PodRelays`,
not the failures); Postgres and the clients end every transaction and a
cancelled pass returns (`End(q)`). Stops are not fair. Nothing repairs a dirty
schema, so the liveness properties except it. A projector whose calls return
goes on (`Handle(c)`); nothing restarts a consumer whose `Run` has returned,
and `NeverWedged` therefore allows a stopped owner.

Every property of a passing run has a mutant (`PROJECT.json`): the definition
that would carry the bug, changed as a plausible mistake would change it, and
TLC then finds the property violated.

### What the violations say

1. `overwrite` - "Re-defining an id that already exists ... is rejected with
   409, never a silent overwrite" (README.md:106-108). The check is a plain read
   and the save an upsert, so two concurrent POSTs both succeed.
2. `resurrection` - "Deactivation is terminal" (README.md:123). PUT saves the
   status it read before its transaction opened.
3. `relay_overlap` - "Ordering per path is preserved" (outbox_relay.go:29-32).
   SKIP LOCKED keeps two relays from sending the same row, not from sending
   later rows first.
4. `stranded` - "Let the relay finish its in-flight pass so an event committed
   by a request that completed just before shutdown is not stranded until the
   next pod boots" (main.go:226-228). The relay's context descends from the
   signal's (main.go:181) and is cancelled before the drain, not after it as
   main.go:213-217 lists. `RowsOutliveTheirPod` shows that the next pod does
   publish the row.
5. `projector_restart` - "exactly once per CloudEvents id"
   (analytics_consumer.go:87-89). The gate commits before the projection.

In the first two the outbox's own promise still holds: `StoreAgreesWithOutbox`
and `ImplementsChangeFeed` are checked on concurrent instances that contain the
same behaviours.

Smaller differences have no run of their own; where a property touches them, it
states the exception:

- A torn schedule read. "Every `PUT` replaces the schedule's `timezone` and
  `cutoffs` in full" (openapi.yaml:240-241), but the two SELECTs of a PUT can
  pair the timezone of one schedule with the cutoffs of the next, and a PUT of
  just that mixture is answered 200 as a repetition and writes nothing.
  `AnsweredPutTookEffect` says that nothing else can be answered 200 in vain.
- "A no-op revision does not republish" (README.md:126) fails for a cycle time
  that is not a whole number of microseconds, because the stored interval drops
  the rest (`UpdatedMeansChanged`).
- A schedule whose cutoffs are sent out of cptId order is compared with the
  sorted ones that come back from the store (cpt_schedule.go:248,
  cpt_schedule_repo.go:87) and is published again by an identical PUT.
- Without a database, a change is stored before it is sent: after a failed send
  a retried PUT is a no-op answered 200 that announces nothing.
  `StoredIsAnnounced` therefore excludes runs with a failed request.
- Freshness is the latest event over all partitions, and 0 when nothing was
  projected yet: `FreshnessIsHonest` speaks of one partition in order of time
  with at least one event projected.

## Proofs

All theorems hold for every value of the constants that satisfies the
`ASSUME`s of the module. Each proof consists of an inductive invariant, one
lemma per action (or group of actions that disturb the same conjuncts), and a
temporal step.

| Theorem | Statement |
|---|---|
| `PathCatalogue_proofs!TypeCorrect` | `Spec => []TypeOK` |
| `PathCatalogue_proofs!StoreAgrees` | `Spec => []StoreAgreesWithOutbox` |
| `PathCatalogue_proofs!InsertsInOrder` | `Spec => NoLateInsert` |
| `PathCatalogue_proofs!KeysAppliedOnce` | `Spec => []KeyAppliedOnce` |
| `PathCatalogue_proofs!OutcomesRecorded` | `Spec => []NoNullStatusCommitted` |
| `PathCatalogue_proofs!TopicsAlwaysAgree` | `Spec => []TopicsAgree` |
| `PathCatalogue_proofs!RetriesAlwaysAgree` | `Spec => []RetriesAgree` |
| `PathCatalogue_proofs!AnswersAlwaysHold` | `Spec => []AnswersHold` |
| `PathCatalogue_proofs!SerialDefinedOnce` | `SerialSpec => []DefinedOnce` |
| `PathCatalogue_proofs!SerialDeactivatedOnce` | `SerialSpec => []DeactivatedOnce` |
| `PathCatalogue_proofs!SerialDeactivationIsTerminal` | `SerialSpec => DeactivationIsTerminal` |
| `PathCatalogue_proofs!SerialUpdatesChange` | `SerialSpec => UpdatedMeansChanged` |
| `PathCatalogueFeed_proofs!CatalogueImplementsFeed` | `Spec => ImplementsChangeFeed`, the specification of `ChangeFeed` |
| `OutboxRelay_proofs!RelayTypeCorrect` | `Spec => []TypeOK` |
| `OutboxRelay_proofs!PublishedWasDelivered` | `Spec => []PublishedIsDelivered` |
| `OutboxRelay_proofs!OneRelayKeepsOrder` | `Relays = {r}`: `Spec => []PathOrderPreserved` |
| `OutboxRelay_proofs!OneRelayConverges` | `Relays = {r}`: `Spec => []ConvergesToLatest` |
| `OutboxRelay_proofs!NoNeedlessDuplicates` | `Spec => []DuplicatesNeedFailures` |
| `ServicePods_proofs!PodsImplementRelay` | `PodsSpec => Spec` of `OutboxRelay` |
| `ServicePods_proofs!PodsPublishWhatTheySent` | `PodsSpec => []PublishedIsDelivered` |
| `ServicePods_proofs!PodsNeedFailuresToRepeat` | `PodsSpec => []DuplicatesNeedFailures` |
| `ServicePods_proofs!PodsTypeCorrect` | `PodsSpec => []PodsTypeOK` |
| `ServicePods_proofs!PodsServeMigrated` | `PodsSpec => []ServesOnMigratedSchema` |
| `ServicePods_proofs!BootsSurviveWarmUp` | `PodsSpec => []BootSurvivesWarmUp` |
| `ServicePods_proofs!OrderKeptUnlessOverlap` | `PodsSpec => []OrderUnlessOverlap` |
| `ServicePods_proofs!ConvergeUnlessOverlap` | `PodsSpec => []ConvergesUnlessOverlap` |
| `AnalyticsProjector_proofs!ProjectorTypeCorrect` | `Spec => []TypeOK` |
| `AnalyticsProjector_proofs!EventsCountedOnce` | `Spec => []CountedOnce` |
| `AnalyticsProjector_proofs!OnlyCutsLose` | `Spec => []LossNeedsCut` |
| `CatalogueReport_proofs!WindowsAlwaysTile` | `Spec => []WindowsTile` |
| `CatalogueReport_proofs!FreshnessAlwaysHonest` | `Spec => []FreshnessIsHonest` |
| `CatalogueReport_proofs!ReportsAreExact` | `Spec => []ReportIsExact` |
| `CPTSchedule_proofs!ScheduleAgrees` | `Spec => []ScheduleAgreesWithOutbox` |
| `CPTSchedule_proofs!NamedPathsAlwaysExist` | `Spec => []NamedPathsExist` |
| `CPTSchedule_proofs!ScheduleTypeCorrect` | `Spec => []TypeOK` |
| `CPTSchedule_proofs!ReadsOnlyMoveForward` | `Spec => []ReadsMoveForward` |
| `CPTSchedule_proofs!AnsweredPutsTookEffect` | `Spec => []AnsweredPutTookEffect` |
| `MemoryMode_proofs!MemoryTypeCorrect` | `Spec => []TypeOK` |
| `MemoryMode_proofs!FanOutAlwaysFailsFast` | `Spec => []FanOutIsFailFast` |
| `MemoryMode_proofs!StoredWasAnnounced` | `Spec => []StoredIsAnnounced` |
| `MemoryMode_proofs!AnnouncedWasStored` | `Spec => AnnouncedIsStored` |
| `MemoryMode_proofs!DeactivatedAlwaysStays` | `Spec => DeactivatedStays` |

*Commands.* Four layers, each inductive relative to the one below:

- `Inv1`: types, and what each stage says of the transaction (`StageInv`: which
  parts of the write set are filled; `KeyInv`: a define request past
  `insertKey` holds its key).
- `Inv2` adds `EventsInv` (a transaction's rows are of its own request and path
  and carry ids drawn already), `OneWriter` (the upsert's lock: at most one
  transaction has written a path) and `OrderInv` (ids are unique and below
  `nextId`, and what a writer has drawn is above all committed ids of its
  path). `OneWriter` is why a later id of a path cannot
  become visible first; without it `NoLateInsert` is not inductive.
- `Inv3` adds the key's life (`HeldKeys`, `OneHolder`, `StagedOnce`,
  `CreatedKeys`): a committed Created event implies a committed key row, which
  makes a second fresh insert of that key impossible.
- `Inv4` adds what a request has worked out and been told. A committed event
  says what its own request decided (`OwnEvents`); a request's events commit
  together, one per topic (`GroupInv`), and those of two requests on a path are
  not interleaved (`GroupOrder`, which needs `OneWriter` again); a recorded 201
  stands for a committed Created event with the body whose hash the key row
  has (`KeyTells`); an answered POST was told what the committed row of its key
  tells every retry (`ReplyOf`). `TopicsAgree`, `RetriesAgree` and
  `AnswersHold` follow from it without another induction.

*One operator at a time.* `SerialInv` adds to `Inv4` that the request in flight
has read what is still stored (`FreshOf`), which is exactly what concurrent
requests cannot rely on, and that announced paths are stored (`PathTells`). An
event whose COMMIT took effect while its acknowledgement was lost is covered:
its request ends with 500 and the retry reads the row.

*Refinement.* `ChangeFeed` has one step, a change of the store announced on all
topics. A step of `PathCatalogue` maps to it when it commits a row, and to a
stutter otherwise. The feed of a path is CHOSEN as a list of its rows ORDER BY
id; `ListsAgree` makes that list unique, `Listed` says that it exists in every
reachable state, and `OrderInv` makes a commit append to it. `Grounded` says
that the path of a PUT or DELETE under way is stored, since paths are never
removed, and that a row in a transaction was written over the one still stored:
the first change of a path is a definition and its routing facts never move,
although the aggregate a PUT saves may be stale.

*Relay.* `Inv1` adds to the types that an idle relay holds no row, `Inv2` that
every row that is done (published, or marked in an open pass) or about to be
marked has been sent. `Inv3` says why one relay keeps the order:

- `WriterInv`, `DrawnInv`: what a path's writer has drawn is above all the path has committed;
- `QueueInv`: the published rows, the done rows, and these with the batch, each
  contain every earlier row of their keys, so that a batch is cut off at its
  end only and a rollback falls back to such a set;
- `MarkInv`: the row being marked is the last its topic got;
- `LogInv`: order, and no row of a key is done that is later than the last one
  sent, which is why redeliveries after a rollback end at the newest row.

A step preserves `Inv3` when no two passes are open before and after it
(`Alone`), which is what both `Relays = {r}` and "no overlap so far" give.
`NoNeedlessDuplicates` counts: locked rows are disjoint and unpublished
(`LockInv`), and a topic holds at most one copy more than there were failures,
at most as many copies as failures of a row that is not yet accounted for
(`CopiesInv`). A send adds a copy only to a row of the latter kind, and only an
aborted pass or a failed send takes a row back to it.

*Pods.* Every step of a pod is a step of `OutboxRelay` or leaves it alone
(`PodsStep`), so the relay's theorems carry over by `PodsImplementRelay`.
`LifeInv` adds that one pod migrates at a time and that the schema is flagged
meanwhile, `QuietInv` that a pod which is neither serving nor ending has no
pass and no transaction, and `PassInv` that while no overlap has happened at
most one pass is open and `Inv3` holds. `BootsSurviveWarmUp` unfolds the
recursive function `Backoff` to its fifth attempt (`FifthAttempt`).

*Projector and reports.* `StageInv` says what a consumer in each stage has
fetched. `CountInv` rests on `RedeliveryAssumption`: deliveries of one id are
equal, so that a claimed id adds one to one bucket (`OneBucket`) and one id to
`EventIds`. `PassedInv` is the projector's order of work, which holds until
something is cut: a marked id is applied, dead-lettered or in the hands of a
consumer that will do so (`Settled`), everything behind a committed offset or a
consumer's own is `Covered`, and so is everything before some message of an
applied id (`Reached`). `WindowsTile` is proved from types alone;
`FreshnessIsHonest` combines `Reached` with the order of time. `ReportIsExact`
combines `CountInv` with a lemma on sums: over a finite set, the sizes of
disjoint sets sum up to the size of their union (`SumOfSizes`). It is used
twice, for the kinds of a day, which share no id, and for the days of a window,
which share none either; `Midnights` says that whole days fill the window.

*CPT schedules.* `OneWriter` again: the upsert of the site's row lets one
transaction write a site, so that the events it has drawn are later than all
the site has committed (`EventsOf`), and its commit makes them the latest
(`StoreInv`). What a request reads (`SeenInv`) is a published timezone and then
cutoffs at least as late. That `ORDER BY cpt_id` returns all rows, in order, is
`OrderFacts`: a least counterexample (`OrderExists`) would have an earliest
cutoff to put before the rest.

*In-memory mode.* `MemInv` does without transactions, so it says of every
pointer and every race what remains true. Objects are named by the POST that
made them; the store and the requests share objects of their own path only
(`SharedInv`); who revises an object is among its writers (`WritersInv`).
`Covered` is why what is stored gets announced: whatever mixture an object
holds, some request is going to read it for its event (the last writer, or one
that has not built its event yet) or has an event that says so. `Buried` is the
same for deactivations. A step that builds an event or leaves a mixture behind
keeps `Covered` because the event is read after the request's last write.
`LogInv` (an event of the integration topic is on its way to the other one)
gives `FanOutIsFailFast`.

*Definitions by recursion.* The provers have no induction rule they can
instantiate with a predicate. Where a proof needs what a recursion or a fold
computes, it states the result as an explicit function, shows that this
function satisfies the recursive equation (so that CHOOSE finds one that does)
and that every solution agrees with it, by a least counterexample
(`SubsetInduction`, `SmallestIndex`, `GreatestExists`) or, for the five attempts
of a boot, by unfolding.

What stays with TLC: liveness under fairness (`EveryRequestAnswered`,
`RowsOutliveTheirPod`, `ServesInTheEnd`, `NeverWedged`), which is out of the
prover's reach as ENABLED is. Every invariant, action property and refinement
that the passing runs check is also proved.

## Plan

1. *Done:* `ProcessPath`, `PathCatalogue`, `ChangeFeed`, its refinement and
   proofs; `OutboxRelay` and its proofs; `AnalyticsProjector`; `CPTSchedule`.
2. *Done:* `ServicePods` around the relay, `CatalogueReport` on the projector,
   `MemoryMode`, and the proofs of all but the last.
3. *Done:* proofs of every invariant, action property and refinement the
   passing runs check.
4. Open: an abstract specification of what a projected event goes through, and
   of the schedules as a change feed of their own.

## Not modelled

Queries, the MCP server's catalogue and schedule tools and the readiness
handler change no state; each is one read of tables the models have, or, for a
schedule, the GET of `CPTSchedule`. In memory, the schedules' repository always
replaces a schedule by a new object, and the log publisher announces to nobody.
`memory_store.go` serves tests only. The JSON of events, configuration and
wiring, telemetry, the web console and the deployment files carry no state.
What Kubernetes and the load balancer do between the readiness flip and the
closed listener is outside the repository. Out-of-order migrations and manual
changes to the tables are outside the model, as are Postgres and Kafka
themselves beyond what the code relies on: transactions are atomic, a
unique index makes a conflicting insert wait, an acknowledged message is in its
topic.

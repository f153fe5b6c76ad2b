# Arc for TypeScript: TLA+ models

Arc for TypeScript (`Source/`) is a CQRS framework for Node: commands, queries,
live ("observable") queries over WebSocket and SSE, dependency injection with
scopes, an integration with the Chronicle event store, change observation for
PostgreSQL and MongoDB, and a proxy generator. Everything runs on one event loop,
so the unit of atomicity is the code between two awaits, and what is hard is what
may happen at the awaits: control messages, disconnects, cancellations, late
answers, nested calls and shutdown.

The modules model that: **one action is the settlement of one await together with
all the code that runs up to the next one.** Data is abstracted to what the
properties tell apart; all paths below are relative to `Source/`.

## Inventory

| Component | State it keeps | Operations | What is hard | What makes it correct |
|---|---|---|---|---|
| Revision table, `Core/queries/observable/SubscriptionRevisions.ts` | revision, activity, request key and tombstone time per query id | subscribe, unsubscribe, complete, prune | control messages are late, duplicated, reordered; bounded memory | a late message never revives an ended subscription; the table stays bounded |
| Hub connection, `HubConnection.ts`, `HubSubscriptionRunner.ts` | subscription map, revision table, generations with session, admission and delivery, closing state | accept, subscribe, unsubscribe, admit, deliver, close, releaseTransport, joinDelivery | replacement while a session opens; two ways of closing; deadlines | map and table agree, no orphan session, no stale frame, slot given back once and always |
| Command execution, `Core/commands/*` | result, captured failure, recorded scopes, operation journal | preflight, begin, provide, handle, plan, respond, execute, complete, recover | cancellation at each await, failing scopes, partial execution, compensation budget | scopes unwind, compensation exactly when nothing was committed, first failure kept |
| Chronicle unit of work, `Chronicle/*` | staged entries, nested failure, disposition | stage, nestedCompleted, commit | nested commands share the batch; the append may fail, be lost or be partly acknowledged | all or nothing over the chain of commands; disposition is the truth |
| Service registry and scopes, `Core/dependencyInjection/*` | registry state, scopes, pending constructions, wait graph, participants | createScope, resolve, dispose, beginShutdown, trackExecution | services waiting for each other, shutdown under load, failing constructions | no deadlock, each service disposed once, in order, shutdown ends |
| Arc server, `Core/ArcServer.ts`, `disposeObservableServer.ts` | admission flag, registry | runScoped, dispose | requests racing disposal | nothing is admitted after disposal started |
| Observable sessions, `ObservableSessions.ts`, `ObservableQuerySession.ts` | five pools of sessions, reservations per caller, stream, producer, scope | openSession, current, results, reserveSession, close, coordinateShutdown | abort while opening, close while streaming, shutdown before a pool knows the session | budgets hold, scopes outlive their work, no session escapes a shutdown, the shutdown ends |
| Hub, `ObservableQueryHub.ts` | connections per caller, SSE connections by id | webSocket, openSse, control, dispose | control posts racing connection loss | only the owner controls a connection |
| Transports, `WebSocketTransport.ts`, `SseHubTransport.ts`, `HubKeepAlive.ts`, `attachNodeWebSockets.ts`, `toEmissions.ts` | frame queues, timers | send, pull, close | slow consumers, failing writes | bounded queue, order kept, every send settles |
| Transfer modes, `ObservableTransfer.ts`, `computeChangeSet.ts` | last committed value | prepare, commit | a frame that is prepared and never written | the client's copy equals the server's |
| PostgreSQL observation, `Drizzle/*` | listener generation, leases, dirty flags | acquire, lost, recover, pump, release | lost connections, notifications during a read | no change missed, one listener, drained on disposal |
| MongoDB watcher, `MongoDB/MongoDBWatcher.ts` | listeners, the shared stream and its generation, dirty flag per query | select, changes, listen, start, stop, pump, dispose | the stream opens while its listeners come and go; it fails while another opens | no change missed, no gap in a raw feed, no cursor without a listener |
| Chronicle read models, `ChronicleReadModels.ts` | snapshot and watch | observeSnapshot, watchIterable | change between snapshot and watch | no change missed |
| Source watcher, `Tools/ProxyGenerator/SourceWatch*.ts` | fingerprints, pending checks, scan, debounce | notify, check, reconcile, generate | edits during a check, a scan or a generation; lost notifications | every edit is generated eventually, no check is rolled back |
| Publication, `generateFromSource.ts`, `publishSourceFiles.ts`, `publishGeneratedMetadata.ts` | files on disk | read, preflight, publish, delete, metadata | a crash or a failure between two files, a user who writes meanwhile | handwritten files survive, metadata comes last |
| HTTP and query pipeline, `Core/http`, `Core/queries` | none across requests | handleRequest, queryOperation, paging | order of stages, numeric limits | refusals come before work |
| Host adapters, authentication, tenancy, code analysis, templates, OpenAPI, testing | no concurrent or persistent state | | | left to unit tests |

The hub connection calls the revision table for every control message and opens
sessions through `ObservableSessions`. Commands run in service scopes through
`ArcServer.runScoped`; Chronicle wraps `executeCommandOperation` through
`commandExecutionRunner` and takes part as an execution scope. The service
registry coordinates the shutdown of sessions, connections, scopes and singletons.

## Plan

1. `RevisionTable`, `SubscriptionRevisions` and proofs. *Done.*
2. `HubConnection` on the same table: safety, liveness. *Done.*
3. `CommandExecution` with the Chronicle unit of work. *Done.*
4. `ServiceLifecycle`: scopes, construction, wait graph, plain and coordinated
   shutdown. *Done.*
5. `PostgreSQLObservation` with `ObservationSession`: lost connections, missed
   changes, disposal. *Done.*
6. `LiveQuery`: what an observable query promises, implemented by (5) and (7). *Done.*
7. `MongoDBWatcher`: the shared change stream, joined queries and raw feeds. *Done.*
8. `ObservableSessions`: budgets, streams, snapshots, the shutdown transaction. *Done.*
9. `SourcePublication` and `SourceWatch` on it: watching, generating, crashes. *Done.*

10. Proofs: the revision table, the hub connection, command execution, the service
    lifecycle, the observable sessions, the source watcher, and the MongoDB watcher
    and the PostgreSQL observation with their refinements of `LiveQuery`. *Done.*

Every safety property that a passing run checks is a theorem; what remains with TLC
is liveness (see *What stays with TLC*).
Models that would still add something: the in-process bus of Drizzle
(`DrizzleChangeNotifications`), and a bounded FIFO channel for the two transports.

## Modules

### RevisionTable, SubscriptionRevisions

The JavaScript `Map` is a function on the ids it holds; its iteration order, which
`prune` depends on, is the insertion number of each entry. `RevisionTable` holds
the methods as functions of the table, `SubscriptionRevisions` calls them in any
order with any arguments, which subsumes every loss, duplication and reordering.
`ended` is a history variable: the last revisioned unsubscribe accepted for each
id. The clock (`Date.now()`) advances at any time.

### HubConnection

One physical connection. A generation is one accepted subscribe:
`HubSubscription` with its admission (`HubSubscriptionRunner.admit`) and its
delivery (`deliver`). `sub[g].admission` and `sub[g].delivery` name the await each
is at; `session` is the state of the session the runner was given. Sessions are the
interface of `ObservableSessions`: `close()` is memoised, settles in a step of its
own and may fail. Both transports close their output when a write fails, so a
failed write is `CloseOutput`. `close()` schedules its work in a microtask
(`Close`, `CloseRuns`), a shutdown transaction calls `releaseTransport`
(`ReleaseTransport`), and each has its deadline. There is no history of the frames
written: `Writes(g)` is the step in which generation `g` hands a frame to the output,
and `FramesAreCurrent` relates that step to the map, the aborts and the later
subscribes, which other handlers change while `g` awaits its pipeline, its producer or
the logger.

### CommandExecution

One outermost command. `pc` names the await it is at. A result is the set of its
failures. Scopes are of four kinds: those that report nothing about commits, those
that promise to commit nothing, an application's own commit participant, and the
Chronicle scope, whose unit of work is modelled with it. Nested commands run on the
same unit of work and may be left unawaited (`DetachedNested`). While the unit is
active their events are staged. One that is still running when the unit completes no
longer finds it (`ChronicleUnitOfWork.active`) and appends its events inline
(`NestedStages` to `appending`, `NestedAppendSettles`); `nestedCompleted` then throws
and it ends `late`. `stored` is what the event log really holds of the batch,
`inlined` whose events it holds beside it, `unit.disposition` what the program
believes; the event log may accept, reject, or answer so that the program cannot tell,
having stored any part of the batch. The inline append of an outermost command
without a unit of work (`acknowledgeCommandCommit` in its own context) is left out.

### ServiceLifecycle

One registry with its scopes, the requests that run on it (`runOwned` with a scope
of their own, `runInScope` on a scope the host created) and its shutdown. The code
that decides what happens is the application's: handlers, factories and disposers,
and the shutdown participant. They are the actors. While an actor awaits nothing it
may resolve a service, start a request or ask for the registry's disposal, and await
that or not; then it ends, or, if it is a factory, fails or returns a service that
another factory returned. `lineage` is the set of actors an actor was started from,
which is what `AsyncLocalStorage` lets the code see: the execution, the chain of
resolutions and the disposal the caller is inside. The guards read it as the code
does, through the `hasLiving...` predicates.

`node` are the construction attempts (the cached promises), `waits` the edges of
the wait graph, `scope[s].created` the services a scope owns. A value that a factory
returns twice is claimed by its first owner. `phase` names the await that
`beginShutdown` is at; the tasks of the `ShutdownTransaction` (transports, session
work, session scopes) are one await per phase. Not modelled: the preflight of
declared dependencies, which only refuses a resolution earlier, and application code
that disposes a scope it did not create. `uses` and `disposed` are history.
`#scopes` is a list in the order of admission; `Without` is `Set.delete`.

### ObservationSession, PostgreSQLObservation

The listener of one tenant and the observations of one table on it.
`ObservationSession` holds the session's record and what its methods make of it;
`PostgreSQLObservation` holds the manager, whose leases are the sessions.
`entry[e].stage` names the await of `start` and `recover`, `session[s].lease` that
of a lease's readiness, `session[s].read` that of `readSnapshot`, and
`session[s].current` and `.adopt` those of a caller of `current()` and of the first
subscriber. `AbortController.abort()` rejects everything the entry awaits in the
same turn of the event loop, so `Lost` does all of it in one step. A snapshot is the
version of the table it shows; a read sees any version that was committed while it
ran. A connection can break without anyone noticing (`Break`), which loses the
notifications in flight, until a disconnect event, the heartbeat or a deadline tells
(`LossDetected`). The catalog queries are outcomes: success, a refusal that a retry
cannot change, a failure. `out` and `cover` are history: what was handed out last,
and what a recovery obliges the session to show.

### LiveQuery

The abstract specification of an observation, whichever database feeds it. The
database is a version per source; a subscriber's view is the versions it was last
shown. A view never goes back and never runs ahead of the database (`Show`), and a
watched subscriber that lags is shown something newer or is told that the
observation ended (`FairDelivery`). The fairness is written out instead of with
`WF`: its action is enabled exactly while `Lagging` holds, and TLC then need not
enumerate the abstract successors. Both watchers give a refinement mapping:

* `PostgreSQLObservation`: one source, the table; a session with a subscriber is
  `watched`, one that only answers `current()` is `open`.
* `MongoDBWatcher`: a source per collection, the subscribers are the `select()`
  calls. A joined query reads its collections one after the other, so its view has a
  version for each, not one for the whole database; the code promises no more.

Chronicle's read models do not implement it: a change between the snapshot and the
watch is not delivered, which `Documentation/chronicle/read-models/index.md:67` says.

### MongoDBWatcher

The shared change stream of one scope. `start[s]` is the `start()` call that the
`listen()` of subscription `s` made, `opening` and `current` are `#opening` and
`#stream`, `sub[s]` a subscription with the dirty flag and the read of `select()`.
MongoDB is external and answers with choices: `hello` gives any time between call
and answer, the stream delivers the events after it in order or fails, a `find` sees
any state committed while it ran but never less than the events delivered before it,
and `stream.close()` settles. `gap` is history: a raw feed skipped an event after
the first it saw or after the position of its stream when `listen()` resolved
(`Begins`), whichever comes first.
`MongoObservation`, which owns a stream per observation, is not modelled.

### ObservableSessions

The live query sessions of one server: `openSession` with its reservation, the
five sets that know a session, the `results()` generator with its producer
(`toEmissions`), `current()`, `close()`, and both ends: `disposeObservableServer`
without participants closes what is open, a `ShutdownTransaction` takes every session
through release, work and scopes. `ses[s]` holds one place for each thing that may
run at the same time: the call of `openSession`, the read, the stream, the
producer, the closing and the scope. The pipeline, the emission guards and the
source answer by choice; a source that ignores its cancellation is given up after a
second, so its release settles. A session that has ended keeps only what a shutdown
can still see (`Collected`).

`registry` is the service registry under the sessions. A registry without
participants may shut down on its own, after a singleton failure or through its owner
(`beginShutdown`): it admits no further scope or tracked operation, awaits those that
run, and closes the scopes still registered one after the other, in the model in any
order (`closeServiceScope`). It does so under sessions whose stream is open or being
pulled; they learn it when an emission or a `current()` is refused. `ses[s].taken`
says how far the registry has come with the scope of `s`. The two shutdowns are
combined as they may meet (`disposeObservableServer` before, during or after that of
the registry; a coordinated one takes the registry with it), but for one case: a
participant registered on a borrowed registry whose owner starts its coordinated
shutdown while the server already disposes itself.

### SourcePublication, SourceWatch

`SourcePublication` is one generation: it reads the sources, refuses output that is
not its own, replaces the proxies one at a time, deletes those without a source and
publishes the metadata: `publishGeneratedMetadata` asks for the owner of the module,
reads it, reads it again before the rename, and fails when the two reads differ
(`ownsMetadata`, `readMetadata`, `compareMetadata`). Text is the number of the edit it came from, or one of two
texts of a user: one without a header and one under a header that no longer fits.
`SourceWatch` is the process around it: the first generation, the checkpoint,
notifications, checks of a file or a directory, scans, the poll timer, the
debounce and the chain of generations; a crash at any point restarts it. A file has
a stat signature that a second save may not change, and a notification may be lost
when there is polling. `setting` chooses a configuration: with or without polling,
which files there are and how often each is edited. `known` and `gap` are history.

## Runs

| Run | Question | Bounds and why they are enough | States |
|---|---|---|---|
| `revisions` | Do late messages stay refused, and does the table stay bounded? | three ids and one tombstone, so that tombstones crowd each other out; two revisions; retention 2 within time 3, so that some tombstones expire and others do not; four insertions. The proofs lift the bounds. | 447 802 |
| `hub_connection` | Do map, table, sessions and frames stay consistent? | two ids (symmetric) with a limit of one, two generations, two revisions: replacement, refusal by the limit, and completion of the first generation after the second began. Time stands still here; `revisions` covers expiry. | 1 476 255 |
| `hub_connection_liveness` | Does a closing connection always let go, and give its slot back once? | one id, two generations, the second of which may hang forever. | 112 599 |
| `command_execution` | Does a command end in a consistent state? | two operations, so that the first is compensated for the failure of the second; two nested commands (symmetric), awaited or not, so that one fails while another outlives the unit; where an application's participant is beside them, one (`SecondNestedBesideSilentScopes`); five lists of scopes, with Chronicle outside and inside an application's scope, and two participants that conflict; an observer wait after the commit. | 1 774 513 |
| `observer_failure_compensates` | *Violation:* is a committed command ever compensated? | Chronicle alone, one operation. | |
| `service_lifecycle` | Are services disposed once, in order, never in use, and without circular waits? | two requests, so that they construct the same singletons and nest; two construction attempts over two singletons and a scoped token, the smallest instance with a dependency, an alias and a circle. Requests and singletons are symmetric. | 217 103 |
| `service_hosted` | With a scope of the host and a participant, does every shutdown end and every request return? | one request that owns or borrows a scope, one singleton and one transient, so that one token is constructed twice. | 358 535 |
| `postgresql_observation` | Is a change missed, a snapshot stale, a socket leaked or doubled? | two sessions (symmetric) that share or succeed each other, two entries, one retry, one commit at any moment, one failure besides the deadlines, which may always expire; three connections, so that a late factory, a closing socket and a new one coexist. | 1 900 103 |
| `postgresql_observation_liveness` | Does it implement `LiveQuery`; do `current()` and disposal end? | one session, two commits, so that one arrives while the other is read; one failure and any number of deadlines. | 43 624 |
| `observable_sessions` | Do budgets hold, and does a shutdown find and end everything? | two sessions of one caller, either of which may be a snapshot or a subscription, under a budget of one for the server or one for the caller; one of them streams; the shutdown of the server and that of the registry begin at any moment. | 983 887 |
| `mongo_watcher` | Does a query implement `LiveQuery`; does a feed skip an event; do stream and listeners belong together? | a query that joins two collections and a raw feed, so that either may be the first or the last on the stream; three changes, so that one comes before the stream, one during a read and one after it failed. | 432 929 |
| `source_watch` | Does the output follow the sources, and does it spare what a user wrote? | one file edited twice, or two files of which one is edited once, with and without polling; one mishap, which is a failed step, a hand edit of the output, a repeated notification or a crash. | 1 237 255 |

Deadlock checking is off where a finished connection, command or bounded history
legitimately stops.

### What the violation shows

`ChronicleUnitOfWork.commit` overwrites `Committed` by `NotCommitted` when the wait
for observers fails after the append; operations are then compensated although their
events are stored. `CompensatesUncommittedOrObserved`, which the passing run checks,
excepts exactly this case.

### Where a property excepts something

A property that would be too strong says in its comment what the code does instead.
These are the places where a reader of the documentation may be surprised:

* `HubSubscriptionRunner.ts:67`: `admit` checks that its generation is current,
  awaits the application's logger, and writes the error frame without checking
  again. The frame names its query id and revision. `FramesAreCurrent` leaves it out.
* `ChronicleUnitOfWork.ts:49`: a nested command that its handler did not await and that
  outlives the unit of work appends its events inline (`ChronicleResponseHandler.ts:91`);
  then `nestedCompleted` throws, and its caller gets a failure although the events are
  stored. `Documentation/chronicle/commands/transactional-commands.md:20` says that
  returned events keep the command's verdict and the stored events in step, and
  `Documentation/chronicle/index.md:73` that those of nested commands are appended
  together or not at all. `NestedFailureDiscardsBatch` and `SuccessIsWhole` say what
  holds: the staged events are all or nothing, and what is appended beside them was
  never staged.
* `runCommandOperation.ts:65`: a nested command that authorization, parsing or a
  filter refuses never reaches the unit of work, so its parent may send its batch
  and succeed. `Documentation/chronicle/commands/transactional-commands.md:26` says
  that none of the staged events are sent if any nested command fails, and further
  on that a rejected command never reaches Chronicle. `NestedFailureDiscardsBatch` is
  about those that were admitted.
* `ObservableSessions.ts:84-91`: a session that is canceled while it is opening
  gives up its place in the caller's budget at once and is registered all the same
  when the pipeline returns, so for a moment a caller may hold one more than
  `observable-query-demultiplexer.md` says. The budget of the server is exact.
* `ObservableQuerySession.ts:159-174`: a close outside a shutdown transaction does
  not wait for a `current()` that is reading. `ScopeOutlivesWork` excepts it.
* `ServiceRegistry.ts:234-241`: a registry that shuts down without participants closes
  the scope of a session while its source is open or being pulled
  (`ObservableQuerySession.ts:102` says so). `ScopeOutlivesWork` asks of the registry
  only that no tracked operation uses the scope, then or ever after.
* `ServiceRegistry.ts:117-139`: the wait graph has no edges for closing scopes.
  `NoCircularWait` is about handlers and factories; it does not count that a closing
  request waits for its disposers.
* `watchSource.ts`: an edit between the read of the first generation and the
  checkpoint is in neither, and waits for the next edit. `gap` marks it.
* `SourceWatchMonitor.ts:56,110`: without polling, a check that read a file before
  its directory was moved, and ends during the scan the move caused, makes the scan
  leave out the fresher observation. `gap` marks it.
* `publishSourceFiles.ts:22-29`: text that a user writes between the comparison and
  the rename is replaced. `raced` marks it.
* `publishGeneratedMetadata.ts:36-37`: so is metadata that a user writes between the
  read that looks for its owner and the read it is later compared with; the comparison
  of lines 46-50 then sees no change. `raced` marks it, too; what is written between
  the other reads is noticed.

## Fairness

`HubConnection.Spec` assumes that microtasks run, timers fire, and writes and log
calls settle; of producers, admissions and session closes only those outside `Stuck`
are assumed to settle, which is why the connection has deadlines. Clients,
disconnects and results are under no fairness. `CommandExecution.Spec` has none: the
code awaits handlers, scopes and operations without a deadline and goes on when they
settle, so nothing but the application decides whether a command returns.
`ServiceLifecycle.Spec` assumes that application code
which awaits nothing ends, and that the registry's own continuations run. A
participant is assumed to finish draining only once every request has returned: it
may be what those requests are waiting on, and the code must not make them wait for
it. Nobody is obliged to start a request or a shutdown. `PostgreSQLObservation.Spec`
assumes that timers fire, that reads settle (the code gives them no deadline) and
that an intact connection delivers its notifications; factories and closes may never
settle, because the code has deadlines for them. `MongoDBWatcher.Spec` assumes that
commands, finds and closes settle, which the code awaits without a deadline, and that
an open stream delivers or fails. `ObservableSessions.Spec` assumes that what a
session awaits settles, and a source that was canceled answers or is given up; a
source that was not canceled need never emit, and a caller need never pull, read or
close; the registry that shuts down goes on when what it awaits has settled.
`SourceWatch.Spec` assumes that reads settle, timers fire and, without
polling, that notifications arrive; with polling they may be lost, and the scans have
to find the edit.

## Proofs

Eight modules, `<Module>Proofs`, hold the theorems and the lemmas they rest on. Each is
proved for every value of the constants that satisfies the named assumptions, with
no bound on sessions, ids, scopes, operations, changes or mishaps but the model's
own. All follow one pattern: an invariant, strengthened until it is inductive; a
lemma per action that preserves it; and the properties of the runs as consequences
of it, or, for action properties, of one step from a state that satisfies it. The runs
check the properties on small instances; the strengthened invariants live in the proof
modules and are in no run.

**Revision table** (`RevisionsInv`; ids finite, limit and retention positive, `None`
no revision, key or record). The run's invariants are not inductive: `RevisionsInv`
adds that insertion numbers are distinct (else "the newest N tombstones" could be
more than N), that each tombstone equals the record of its id's last unsubscribe
(else nothing relates what prune sees to the history), and that every unsubscribe is
outranked by the entry of its id or may be forgotten. `PruneTable` shows what prune
keeps, by taking the oldest of the tombstones that would be too many;
`DroppedForgettable` that what it drops may be forgotten; a fresh tombstone is never
pruned by the call that inserts it (`FreshTombstoneSurvives`).

**Hub connection** (`HubInv`; the same assumptions, `Stuck` a set of generations).
`MapMatchesTable` and `NoOrphanSession` support each other: the map is only right if
replaced generations are aborted in the step that replaces them. `HubInv` adds that an unborn
generation is untouched and only an admitted one has a session (`GenerationOK`), that
what the map holds it holds under its own id also while the connection closes
(`HeldUnderItsQuery`), and how far the two ways of closing can have come
(`ClosingOK`). The last yields `SlotReleasedAtMostOnce`, the safety half of
`SlotReleased`. What the table does to *active* entries (`PruneKeepsActive`,
`AfterUnsubscribeActive`, `SubscribedActive`) is all the proof needs of it.
`FramesAreCurrent` needs one invariant more, `FrameInv`: what the map holds was not
aborted and is the newest generation of its query, and a connection without an output is
closed. It is what turns the runner's check, which looks only at the map and at its own
generation, into a statement about the connection and about every later subscribe.

**Command execution** (`CommandInv`; scopes are lists of the known kinds with at most
one Chronicle unit of work, which the registry enforces: `OneUnitOfWork`).
`CommandInv` says what each stage may rely on: nothing is stored or compensated
before completion (`BeforeOK`), only handlers stage (`StagedOK`), one batch is
appended by one scope (`CommitOK`), a failed nested command poisons the batch for
good (`NestedOK`), a stored batch whose disposition reads "absent" has a failed
observer (`ObservedOK`), outcomes of the journal in order (`JournalOK`) and how far
recovery has come (`RecoveryOK`). `KnownAbsence` is the heart: when the command
decides to compensate, either no scope reported a commit and nothing is stored, or an
observer failed. `BesideInv` adds what is appended beside the batch: only a nested
command that outlived the unit appends there, and it had staged nothing; with `NestedOK`
it gives `NestedFailureDiscardsBatch`, and with the batch `SuccessIsWhole`.
`NothingStartsAfterCancel` is an action property and needs of the
invariant only its type.

**Service lifecycle** (`LifecycleInv`; finitely many requests, `None` no scope, token,
attempt or actor: `RequestsFinite`, `NoneIsNothing`). None of the four properties is
inductive, and they need each other: who may still use a service depends on what the
shutdown has behind it, and that on which scopes are closed. The parts of the
invariant are:

* `PhaseOK`: in each phase, what the shutdown has behind it. Every execution that runs
  is joined, every scope that lives is in the list still to close, and the root scope
  is touched only when that list is empty.
* `ServicesOK`: a scope that reclaims its services has no attempt pending; a service is
  listed once by the scope that owns it or was disposed once, and never both
  (`CreatedOK`, `DisposedOK`, `OwnedOK`). From it, `DisposedOnce`.
* `UsesOK`: a handler that uses a service runs on its scope or uses a singleton, and a
  factory awaits what it uses as long as that is pending. With `PhaseOK` it gives
  `NotDisposedInUse`. `InOrder` says that of a service and one its factory awaited, the
  first comes later in the scope's list and was disposed earlier: `DependentsFirst`.
* `ActorsOK`: every set of pending attempts has one that waits for none of the set
  (`WaitsOK`), an attempt that really is awaited has its edge in `waits`, and a request
  is awaited only by what it was started from.

`NoCircularWait` speaks of actors and not of edges. If a set of actors only awaits
itself and has a factory in it, `WaitsOK` picks an attempt that waits for none of the
others; the actors running innermost in that attempt can only await handlers, and those
run in it too. So a set remains that only awaits handlers, and `HandlersEnd` refutes it:
a handler's context is that of the actor awaiting it and one more, contexts are sets
of actors, and there are finitely many.

**Observable sessions** (`SessionsInv`; finitely many sessions, positive budgets).
`SubscriptionBudgets` needs that a place is held, reserved or given up exactly once;
`EverySessionIsFound` and `ScopeOutlivesWork` need which of its calls (open, pull,
close, shutdown) a session can be in together (`CallOK`, `StreamOK`, `EndOK`,
`WorkOK`) and in which pool it then is (`PlaceOK`). The budgets are cardinalities:
the proof uses only that a pool grows by one session when a place is reserved below
the limit. `RegistryOK` says that a registry that closes scopes has no tracked operation
left and, since it admits none, never has one again; `ScopeOutlivesWork` needs it for
the scopes the registry takes.

**MongoDB watcher** (`WatcherInv == StreamInv /\ ReadInv`; feeds are subscriptions,
each subscription reads some collection). `StreamInv` relates a listener to the start
it waits for, the start to `#opening`, and the stream to its cursor, so that a stop
between two awaits leaves nobody behind; `ReadInv` bounds what a query shows by what
it has read and by what was committed. From both, `WatcherImplementsLiveQuery`: every
step maps to a step or a stutter of `LiveQuery`, step by step
(`LiveQuery!Init /\ [][LiveQuery!Next]_(LiveQuery!vars)`).

**Source watcher** (`SourceInv`; finitely many files, the directory is none of them,
no user text is `None`: `WatchConstants`, `TextsAreNotNone`). `PublicationOK` says for
each stage of a generation what is behind it; it gives `UserTextKept` and
`MetadataLast`, across crashes. `WatchOK` says that a read that will be believed is no
older than what the checkpoint knows, or was marked during the scan; it gives
`NoRollback`.

### What stays with TLC

* Liveness under fairness is outside the prover's reach: `SlotReleased` (but for "at most once"), `SessionsReleased`, `RequestsReturn`, `ShutdownTerminates`,
  `ShutdownEnds`, `OutputFollowsSources`, `CurrentSettles`, `DisposalEnds`, and the
  fairness half of both `ImplementsLiveQuery`.
* The expected violation is a counterexample, and needs no proof.

## Not modelled

* Hub admission (`ObservableQueryHub`) and the transports' frame queues: one
  synchronous method each; a refused or failed write is an outcome in
  `HubConnection`.
* Transfer modes and change sets: pure functions over JSON values, which unit tests
  reach; `HubConnection` models when their baseline is committed.
* The in-process bus of Drizzle: a synchronous publish, queued until the outermost
  command returns. The sessions it wakes are those of `ObservationSession`.
* Chronicle read models: see `LiveQuery`.
* Admission of commands and queries, HTTP handling, authentication, tenancy and the
  host adapters: sequences of early returns over the data of one request. The
  arithmetic of paging (`queryRendering.ts:15`: page times page size may exceed what
  a database accepts as an offset) is left to unit tests.
* The limit of 32 concurrent reads of the source watcher, index barrels and file
  permissions.
* Two scopes whose disposers close each other (`ServiceScope.ts:214`): the code does
  not detect it unless one is inside the other, and application code of the model
  disposes only its own scope.
* Formatting, logging texts, malformed frames, proxy templates, OpenAPI, lint rules
  and test helpers, which keep no state between steps; and the scripts under
  `scripts/` and `.cratis/`, which are tooling of the repository.

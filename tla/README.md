# A TLA+ development of `events`

`events` (crate `events`, Rust, tokio, SQLite files through turso) is a partitioned
event store.  A *partition* is a directory with event files
`events_<label>[_<ordinal>].db` and a `catalog.db` that routes reads to them.
Callers append through an `EventStream`, which replaces ("rotates") its active
file when a time window ends or the file has grown; event handlers read the
events after their own durable cursor.

The modules here model naming and rotation, the catalog, opening a partition
and repairing its catalog, appending with everything that can come in between,
reading, the caches of streams and of databases, the worker pool that drains
partitions, and the way of progress events to clients.  TLC checks them on small
instances; TLAPS proves most of their safety properties for every value of the
constants.  Paths below are relative to the repository (`src/event_stream.rs` and
so on).

## 1. Inventory

| Component (file) | State it keeps | Operations | Talks to | What makes it correct |
|---|---|---|---|---|
| Rotation policy (`rotation.rs`) | none | floor to window, label, generate and parse names, next ordinal, should_rotate | called by the event stream | names sort by age, a name restores window and ordinal, ordinals never leave their range |
| Catalog (`catalog.rs`) | rows (name, first_version, last_version, sealed) in `catalog.db` | create (upsert), seal, list, replace all, ranges after a version | statements of the event stream, each committed on its own | ranges say what the files hold; every committed event is routed; one unsealed range |
| Event stream: open (`event_stream.rs:142-334`) | the active partition behind an `RwLock` | open, use or rebuild the catalog, create a first file | catalog, migrations, pool, file system | the file that becomes active holds the last version |
| Event stream: append (`:336-418, 495-803`) | append head (`current_version`) and rows of the active file | maybe_rotate, rotate_until_current_window, rotate_partition, insert | the same | versions unique, gapless, in one sequence; expected versions mean what they say |
| Event reading (`:420-493, 845-961`) | none; the cursor is the application's | load_after_version, workflow loads | catalog, then one query per file | a cursor passes over no event |
| Migrations (`migration.rs`) | `_migrations` per database | load applied, apply, record | every newly opened database | a script runs once; an interrupted one is noticed |
| Database pool (`pool.rs`) | cached databases in order of use, per database one idle connection and a count of those lent | find or open, take and return a connection, evict | everybody | bounded; the counts are right; a connection is lent once; abandoned rows are never committed |
| Namespaces, partition cache (`partitions.rs`) | cached `EventStream`s per partition key | ensure, list, open, evict | event stream | never more streams than configured; an evicted stream stays valid |
| Progress broadcast (`broadcast.rs`) | a bounded mpsc queue, a broadcast ring | send, try_send, subscribe, forward | handlers and clients | who subscribed before the final event was forwarded sees it or learns that it lagged |
| Notifications store (`notifications_store.rs`) | latest event per request, expiry | record, look up, clean up | maintenance worker | nothing final is replaced by something older; nothing is seen after expiry |
| Runtime, maintenance worker (`runtime.rs`) | shutdown flag, timer | build, run cleanup, shut down | notifications store | the worker stops after shutdown, whatever it was waiting for, and goes on after a failed cleanup |
| Worker pool example (`examples/partition_worker_pool.rs`) | offsets, active and pending partitions, one task per active one | announce, spawn, drain, checkpoint, join | partition cache, event stream | one handler per partition, no announcement lost, events projected in order and once, also by tasks that outlive a failure |

Interaction is by shared state: all callers of one `EventStream` share its
`RwLock<ActivePartition>`; all `EventStream`s, and readers, share the files and
the catalog.  SQLite statements are atomic; the transaction of an append is
`BEGIN IMMEDIATE`.  Nothing groups the statements of a rotation or of the
creation of a file.

What is hard here, and where:

- a rotation is decided under a read lock, on one sample of the clock, and
  carried out later under a write lock (`event_stream.rs:495-534`);
- the clock of an append is sampled before the lock is awaited (`:354`);
- sealing the old file, creating the new one with schema, head and range are
  separate commits (`:529-559`, `:312-334`); an error, a dropped future or the
  end of the process may come between any two;
- `UNIQUE(version)` holds within one file only: across files uniqueness depends
  on the head handed over at rotation and on the choice of the active file at
  open (`:180-242`);
- a load looks at the catalog once and then reads file by file (`:427-447`);
- both caches are looked up and entered under separate locks, with the opening in
  between (`partitions.rs:163-188`, `pool.rs:107-142`), and what they evict may
  be in use;
- a future dropped within the transaction of `append` puts its connection back
  with the transaction open (`pool.rs:284-292`), and the next rotation, load or append
  of the stream gets that connection;
- the supervisor of the worker pool gets announcements and finished tasks in any
  order (`examples/partition_worker_pool.rs:117-163`);
- live progress events are dropped without subscribers and overwritten when one is
  slow (`broadcast.rs:242-279`), recorded ones expire; lookups and cleanups use clocks
  read before their statements (`notifications_store.rs:87`, `:160`, `:256`).

`PROJECT.json` lists the hazards line by line with the properties aimed at each.

## 2. The modules

| Module | Models | Extends |
|---|---|---|
| `Rotation` | `rotation.rs` as operators | – |
| `RotationNames` | the sequence of names a partition runs through, for several policies | `Rotation` |
| `Catalog` | the SQL statements of `catalog.rs` on a function from names to ranges | `Rotation` |
| `EventLog` | *abstract:* one log; an append takes effect, or is refused, at one instant | – |
| `EventStream` | open, append, rotation, migrations of files and catalog, crashes, failures | `Catalog`; `EventLog` by refinement |
| `EventReader` | handlers with cursors, of all events or of a workflow's | `EventStream` |
| `PartitionCache` | the streams an `EventNamespaces` keeps | – |
| `CachedStream` | callers that get their stream from the cache | `EventStream`, `PartitionCache` |
| `Projection` | *abstract:* the events of each partition are projected in order, each once | – |
| `WorkerPool` | application, supervisor and drain tasks of the example | `PartitionCache`; `Projection` by refinement |
| `DatabasePool` | `pool.rs`: instances, connections, counts, eviction | – |
| `PooledAppend` | the statements of an append's transaction on pooled connections | `DatabasePool` |
| `NotificationsStore` | the recorded events, their expiry and the maintenance worker | – |
| `StreamBroadcast` | queue, loop and rings of live events | – |
| `ProgressStreaming` | handlers that publish and clients that follow a request | the last two |
| `MCEventStream`, `MCCachedStream`, `MCWorkerPool`, `MCPooledAppend`, `MCProgressStreaming` | constants of the runs | what they are named after |
| `EventStreamProofs` | types; versions, and `EventLog`, up to the first end of the process | `EventStream` |
| `WindowProofs` | lemmas: windows, labels and time | `Rotation` |
| `RestartProofs` | versions, catalog and `EventLog` across restarts | `EventStreamProofs`, `WindowProofs` |
| `ReaderProofs` | what handlers read | `EventReader`, `RestartProofs` |
| `RotationNamesProofs` | names | `RotationNames`, `WindowProofs` |
| `WorkerPoolProofs` | types, cache, tasks, and `Projection` | `WorkerPool` |
| `PooledAppendProofs` | the pool and the appends on it | `PooledAppend` |
| `ProgressProofs` | recorded and live progress | `ProgressStreaming` |

`EventStream` is the partition in detail; the others take from it what they need.
`CachedStream` composes it with the cache, where one `EventStream` value is one of
its `Handles`.  `WorkerPool` needs of a partition only its version, because
`EventLog` (one sequence, atomic appends) is what `EventStream` is shown to
implement through one handle.  `PooledAppend` takes one active file and opens up
the transaction that is one step in `EventStream`.

### State

| Variable | Code |
|---|---|
| `now` | `OffsetDateTime::now_utc()`, in ticks of a second or more |
| `phase[n]` | how far the event file of name n has got: file, tables, recorded migration |
| `rows[n]` | the `version` column of its `events` table |
| `head[n]` | `current_version` of its append head, `Null` without the row or table |
| `abandoned[n]` | a transaction left open in that file: the stream through whose pool it can be seen, the rows it inserted and the head it wrote |
| `catalogPhase`, `catalog` | the same for `catalog.db`, and its rows |
| `active[h]`, `lock[h]` | the `RwLock<ActivePartition>` of the `EventStream` h and who holds it for writing |
| `pc[a]`, `job[a]` | where a caller or an open is, and the file it is creating |
| `handle[p]`, `call[p]`, `outcome[p]` | a caller's stream, arguments and last result |
| `stamp[p]` | `now_ms` as the caller sampled it |
| `resume[p]` | where the caller goes on after a rotation: the one of `maybe_rotate`, or the loop of `rotate_until_current_window` |
| `cursor`, `handled`, `load`, `follows` | a handler's stored offset, the versions it has processed, a load in progress, the versions it is interested in |
| `stores`, `max_open_stores` | the entries of `PartitionCache` in the order of `last_access`, and its limit |
| `opening[p]`, `holds[p]` | the stream a caller opens after a miss, and whether it has one |
| `main`, `dirty`, `dirty_tx` | the example's `main`, the channel, its sender |
| `supervisor`, `active`, `pending`, `dirty_rx_closed` | `run_supervisor` and `SupervisorState` |
| `task[t]` | a slot of the `JoinSet`: partition, step, cursor, last version loaded |
| `version`, `offsets`, `projected` | per partition: events appended, offset stored, versions projected in order |
| `databases`, `instances` | the map of the pool in the order of `last_access`, and every `DatabaseInstance` somebody refers to, in the map or not |
| `task[t]` (`DatabasePool`) | a task's step in the pool, its instance and connection |
| `appender`, `transaction`, `length`, `acknowledged`, `abandoned` (`PooledAppend`) | the stream's write lock, the open transactions, committed events, successful appends, the number of transactions left open |
| `stored[r]`, `shutdown`, `worker`, `cutoff` | a request's row, the `watch` receiver, the maintenance worker, the clock its cleanup has read |
| `queue`, `receiver[s]` | the mpsc channel, and what a subscriber has not read of the ring |
| `handler[r]`, `client[c]` | the publishing handler of a request and the clock it has read; a client's step, the clock its lookup has read and, for the properties only, whether its subscription came before the outcome was broadcast |

A name is a record (unit, label, ordinal).  Ordinal 0 stands for the base name
without suffix, and the order of names is the text order of the code.  Payloads,
event types, metadata, sequence numbers and trace ids make no difference to
any property and are left out; a batch is its number of events, and because
payload validation may refuse any of them, `RejectEvents` is always possible.

### Actions

One action is what lies between two points where another task, or a restart,
can see a difference: one statement or transaction, one look at the active
partition under the read lock, one sample of the clock.

`append` is `Invoke`, `MaybeRotate` (the decision under the read lock),
`SampleRotationClock` (its second clock sample, still under that lock; a writer
waits for it, see `Writable`), `ReturnEmptyBatch` / `RejectEvents` /
`SampleClock`, then `RotateUntilCurrentWindow` and finally `AppendFails`,
`AppendConflicts` or `AppendCommits` for the transaction.  `rotate_partition` is
`RotatePartition` (write lock, next name, head), `SealActiveRange` and the five
steps of the creation of a file, which a first open shares: `CreateFile`,
`ApplySchema`, `RecordMigration`, `InitializeEventFileAppendHead`, `AddRange`.
`open_partitioned` is `OpenPartitioned`, the two catalog migration steps,
and then `UseCatalog`, `RebuildEventFileRanges`, `SurveyFails` or
`CreateNewActivePartition`.  `load_after_version` is `BeginLoad`, one
`QueryRange` per file and `FinishLoad`, which also stores the new cursor:
`docs/explanation/cursor-mechanism.md` has the application commit its changes
together with the checkpoint.

A handler follows all events or those of one workflow
(`load_workflow_after_version` filters in the query and leaves routing and cursor
as they are); which versions belong to the workflow is given by `Follows`.

**Caches.**  `open_cached` is `HitStore`, or `MissStore`, the opening, and
`InsertStore`; between the last two the mutex is free.  `get_database` is
`FindsDatabase`, or `MissesDatabase`, `InsertsDatabase` and, above the maximum, one
`EvictsDatabase` per entry looked at, with the write lock kept until
`EndsEviction`.  `get_connection` goes on with `GetsConnection` (the instance's
mutex: count and take) and, for a new connection, `ConfiguresConnection`.
`PooledConnection::drop` is `ReturnsConnection` (the `try_lock` may fail) and
`ReleasesConnection`.  Times of last use are the order of the entries.  Idle
entries of `PartitionCache` may go at any look at it.

**Worker pool.**  One action per turn of `select!` (`ReceiveDirty`,
`ReceiveClosed`, `JoinNext`, `JoinFailed`, `SupervisorReturns` for `else`), per step of
`main` and of `drain_partition`.  `JoinFailed` drops the `JoinSet`, which only
*asks* the other tasks to stop: each goes on, through a whole batch if it is
not suspended, until `AbortTask` takes it.  `MainFails` returns an error from
`main`; supervisor and tasks run on until the runtime is shut down
(`SupervisorIsStopped`, then `AbortTask`).  Which stream an opener gets makes no
difference in this model (`AnyStream`): what two streams of one partition do to its
versions is `CachedStream`'s subject and finding 4.

**Progress.**  A handler records (`SamplesClock`, `Records`) and then sends
(`Sends`, with `send` or `try_send`).  A client does what
`docs/how-to/stream-progress-updates.md:193-200` and
`docs/explanation/progress-streaming.md:143-148` have it do: it looks up the recorded
notification (`Connects` reads the clock, `LooksUp` is the query), then subscribes,
then receives until the terminal event.  The maintenance worker reads the clock
(`WorkerTicks`) before it deletes (`WorkerCleansUp`), or fails to (`CleanupFails`),
which is logged.

The environment:

- `Tick`: the clock goes forward;
- `Fault`: any pending operation returns an error, or its future is dropped outside
  the transaction of an append;
- `AbandonAppend`: the future is dropped within that transaction, or its
  ROLLBACK fails.  Nothing is rolled back: the connection goes back to the stream's
  pool, with any part of the batch inserted and perhaps the head written.  Until
  `AbandonedRollsBack` (the pool closes the connection) nobody else can write to
  the file; a rotation that reads the head, a load, `current_version` may see
  what was never committed (`HeadsSeen`, `VisibleRows`), and may as well get another
  connection and not see it.  The constant `Faults` says which of the two a run has;
- `Crash`: the process ends anywhere.  The databases run in WAL mode with
  `synchronous = NORMAL` (`pool.rs`), so the model is that of a process that
  dies under an operating system that does not: statements that returned stay;
- `Shutdown`: the process ends with nothing in progress;
- `DamageCatalog`: the rows of a closed partition's catalog are gone or all
  unsealed, as in `tests/local_append_head_tests.rs:277` and `:364`.

`MaxClock`, `MaxCalls`, `MaxFaults`, `MaxOutages`, `MaxAppends`, `MaxLength` and
`MaxAbandoned` only bound the state space.
`MaxOverflowOrdinal` is a constant of the code (999 999).

## 3. What the runs check

| Run | Instance | Shows |
|---|---|---|
| `size` | 2 callers, 2 calls, 1 handle, 1 handler of all events or of a workflow, fixed clock, rotation by size with 1 overflow ordinal, batches of 0 or 2, `Any`/`NoStream`/`Exact(2)`, one shutdown with or without damage to the catalog, fairness | catalog, files and memory agree, a rotation never touches an existing file, running out of ordinals leaves the active file usable, handlers skip nothing, the partition is one log; calls return, a partition that was shut down in good order opens again, with the migrations of the first time, and events are handled |
| `crash` | 2 callers, 3 calls, 1 handler of all events, 2 overflow ordinals, batches of 1 or 2, two crashes at any step | after every crash the open finds the file with the last version, or fails; no version is lost, repeated, skipped or misrouted |
| `race` | 2 callers, 3 calls, 2 clock ticks, no handler; one fault, an error at any step or an append abandoned within its transaction | with stale clock samples, rotations back to an older file and half-done rotations no version is given twice or behind the last one, though one may be skipped |
| `names` | windows of one and two minutes, an hour, a day and two days (in shortened units), clock to 49 ticks, 3 ordinals | a new name is never an old one and sorts behind it; it restores window start and ordinal |
| `workers` | 2 partitions, one appended to up to 3 times, the other once, 3 task slots, channel of 1, loads of 2, cache limit 1 or 2 and changing, 1 failing open, append, load or projection | one task per partition, no announcement lost, the pool implements `Projection` with its liveness, also while tasks outlive a failure, the application ends |
| `pool` | 2 tasks, 3 files, maximum 1, 2 commits, 1 transaction left open | counts are exact, connections exclusive, only acknowledged rows committed, used databases spared |
| `progress` | 2 requests with 2 and 1 steps, 1 client, queue and ring of 1, time to live 1, clock to 2 | a client that subscribed in time gets the outcome, every other learns it when it connects again, recorded steps do not go back; the worker stops, expired rows go although cleanups fail or use an old clock |
| `stale_clock`, `failed_rotation`, `torn_creation`, `two_handles`, `look_up_first` | one property each | section 5 |

Properties, in the order of what they would cost when false:

- `VersionsUnique`, `VersionsAscend`, `Gapless`, `CurrentVersionIsLast`: the version
  sequence across files;
- `IsOneLog`: `EventStream` implements `EventLog` under
  `length <- StreamVersion`; rotations and opens are stutters;
- `CommittedIsReachable`, `RangesDescribeFiles`, `OneUnsealedRange`,
  `SealedFilesDoNotGrow`, `RotationTargetIsNew`: what catalog, disk and memory
  owe each other;
- `HandledInOrder`, `EventsAreHandled`: what a handler gets;
- `CallsReturn`, `PartitionOpens`: progress;
- `OneHandlerPerPartition`, `NothingLeftBehind`, `IsProjection`, `MainReturns`,
  `CacheWithinLimit`: what the worker pool promises;
- `CommitsAreAcknowledged`, `ConnectionsAreClean`, `ConnectionIsExclusive`,
  `ActiveCountIsExact`, `EvictionSparesUsed`: what the pool owes
  its users;
- `ClientsLearnOutcome`, `SubscribersGetOutcome`, `RecordedStepGrows`, `WorkerStops`,
  `ExpiredRowsGo`: progress on its way to a client;
- `NamesSortByAge`, `RestartRestoresPartition`: what rebuild and restart rely on.

**Bounds.**  Two callers are enough for each decision the code makes on stale
data, as every such decision involves one caller that decided and one that
moved the partition on; a third repeats the second.  Three calls let a file be
filled, replaced and replaced again; in `size`, which pays for its liveness with
two, callers that decided together do the same, as a file's size may be at its
limit before anything is in it.  One overflow ordinal makes the ordinals run
out, two make a rotation chain longer than one link.  `FileSizes = {0, 1}`
against `MaxBytes = 1` leaves the outcome of the size check open, which includes
every relation between bytes and events.  Two outages let the second one hit
the recovery from the first.  A cursor reads with limits smaller than a file (`size`)
and as large (`crash`).

In `workers`, three appends to one partition let it be announced while it waits,
while its task runs and after its task's last load, and one to the other lets the
supervisor and the cache have a second one at each of these points (`MaxAppends`
is given per partition); the channel of one makes the
application wait.  Three slots are one more than the partitions, so a second task
of a partition would have room.  In `pool` the third file and the second task let
one evict what the other is about to use, and let a file have two instances; one
transaction left open is found by the next user of its connection.  In `progress` a
ring of one lags at the second event, and the second request fills the queue
and the ring with events the client is not waiting for.

The clock stands still in `size` and `crash`: with a moving clock, stale
samples break what these runs state about the catalog and the handlers, which is
the finding of `stale_clock` and not a property of the rest of the protocol.
`race` moves the clock and checks what does survive.  One time window with a
moving clock would show nothing more.

**Deadlock** is checked in `size` and `crash`, where a handler can
always load again, so there it only says that the model does not get stuck as a
whole; progress is the business of `CallsReturn` and its companions.  `race`
has no handler and really stops when its calls are used up, `names` when its
clock and ordinals are, `progress` when clients and handlers are done,
the worker has stopped and the clock stands still.  In
`workers` the cache's limit can always change, and in `pool` there is always a
file to read, so that, too, only says that the models do not get stuck as a whole.

**Fairness** (`Fairness`, `LiveSpecReader`).  Weak fairness of opening and of
loading: the tasks are scheduled and database calls return.  Strong fairness of
the steps of an append: its lock is free again and again but not for good while
others append, and tokio's `RwLock` is fair, it queues its waiters.  Handlers
whose batches fail for ever make no progress, so from some time on none does.
Nothing is assumed about `Invoke`, `Fault`, ticks, shutdowns or crashes.

In `workers`, each of the application, the supervisor and every task has weak
fairness of its steps as a whole: the runtime polls what is ready.  `select!`
may prefer either branch for ever only as long as both stay ready, which a
finite number of announcements excludes.  Failures, aborts and changes of the cache's
limit are not fair, and nothing is once the pool or the application gave up: a task
may be aborted then before its next step.  In `progress` the broadcast loop, handlers,
clients and the worker are weakly fair; a lagging client comes back and finds the
recorded outcome, or, when that has expired, asks the application's read model, as the
guide says.  Strong fairness holds of the worker's notification, since `select!` picks
among ready branches at random and does not pass over a change for ever, and of
`WorkerCleansUp`: a cleanup that fails again and again succeeds some other time.
A row that `ExpiredRowsGo` speaks of may therefore survive several cleanups.

With a moving clock `CallsReturn` is *not* true under this fairness: when one
caller holds a sample of the old window and another one of the new, each may
find the active file to be the other's in `rotate_until_current_window` and
rotate it back, and both can repeat that without end.  Nothing in the code
excludes it; in practice the race is decided by chance after a few turns.  No
document promises otherwise, so it is recorded as a hazard (line 517).

## 4. What is proved

For all values of the constants that the modules' assumptions allow:
`RotationAssumption`, `CatalogAssumption`, `EventStreamAssumption`,
`EventReaderAssumption`, `RotationNamesAssumption`, `PartitionCacheAssumption`, `WorkerPoolAssumption`,
`DatabasePoolAssumption`, `PooledAppendAssumption`, `NotificationsStoreAssumption`,
`StreamBroadcastAssumption`, `ProgressStreamingAssumption`.  They say what kind of value each
constant is, and one thing more: in `RotationNames` a window is a multiple of the
precision of its label.

| Module | Theorem | Statement |
|---|---|---|
| `EventStreamProofs` | `TypeCorrect` | `Spec => []TypeOK` |
| | `VersionsAreUnique` | with `OneHandle`: `Spec => [](outages = 0 => VersionsUnique)` |
| | `VersionsAreMonotonic` | with `OneHandle`: `Spec /\ [](outages = 0) => VersionsAscend` |
| | `VersionsAreGapless` | with `OneHandle` and `NothingIsAbandoned`: `Spec => [](outages = 0 => Gapless /\ CurrentVersionIsLast)` |
| | `StreamIsOneLog` | with `OneHandle` and `NothingIsAbandoned`: `Spec /\ [](outages = 0) => IsOneLog` |
| `RestartProofs` | `VersionsStayUnique`, `VersionsStayGapless`, `CurrentVersionStaysLast` | with `Restartable`: `Spec => []VersionsUnique`, `[]Gapless`, `[]CurrentVersionIsLast` |
| | `RangesStayTrue`, `CommittedStaysReachable`, `OneRangeStaysUnsealed`, `RotationsCreateFiles` | likewise `RangesDescribeFiles`, `CommittedIsReachable`, `OneUnsealedRange`, `RotationTargetIsNew` |
| | `SealedFilesStay` | likewise the action property `SealedFilesDoNotGrow` |
| | `StreamStaysOneLog` | with `Restartable`: `Spec => IsOneLog` |
| `ReaderProofs` | `HandlersSkipNothing` | with `Restartable`: `SpecReader => []HandledInOrder` |
| `RotationNamesProofs` | `NamesRestorePartitions`, `LaterNamesSortBehind` | `Spec => []RestartRestoresPartition`, `Spec => NamesSortByAge` |
| `WorkerPoolProofs` | `WorkersAreTyped`, `CacheStaysWithinLimit` | `Spec => []TypeOK`, `Spec => []CacheWithinLimit` |
| | `OneHandler`, `NothingIsLeft` | `Spec => []OneHandlerPerPartition`, `Spec => []NothingLeftBehind` |
| | `ProjectsInOrder` | `Spec => Handlers!SafeSpec`, the safety part of `Projection` |
| `PooledAppendProofs` | `PoolIsTyped` | `Spec => []TypeOK` |
| | `ActiveConnectionsAreCounted`, `NoConnectionIsShared` | `Spec => []ActiveCountIsExact`, `[]ConnectionIsExclusive` |
| | `OnlyAcknowledgedIsCommitted`, `LentConnectionsAreClean` | `Spec => []CommitsAreAcknowledged`, `[]ConnectionsAreClean` |
| | `UsedDatabasesStay`, `PoolStaysBounded` | `Spec => EvictionSparesUsed`, `Spec => []PoolIsBounded` |
| `ProgressProofs` | `ProgressIsTyped` | `Spec => []TypeOK` |
| | `NoFinalEventIsMissed`, `RecordedStepsGrow` | `Spec => []SubscribersGetOutcome`, `Spec => RecordedStepGrows` |

### The event stream up to the first end of the process

Two conditions limit the theorems of `EventStreamProofs` from `VersionsAreUnique`
on.  `OneHandle` (there is one `EventStream` value) is real: run `two_handles` shows
the properties to fail without it.  `outages = 0` is the part of a behaviour
before the process first ends.  That versions are unique and ascend asks nothing else:
faults, appends abandoned within their transaction, stale clock samples and rotations
back to an older file are all included.  That they are gapless, and that the partition is
one log, also needs `NothingIsAbandoned` (`"abandon" \notin Faults`), and that too is real:
after an abandoned append a rotation may start a file behind versions that were never
committed (section 5).  Faults that roll back remain included.

**Types.**  `TypeOK` is not inductive: which file a step creates depends on
`job`, and a caller that runs must have a request and an open handle.
`StepFacts` says so, `TypeInv == TypeOK /\ StepFacts` is inductive.  Its proof has
one lemma per group of actions (`CreationTypes`, `OpenTypes`, `AppendTypes`,
`EnvironmentTypes`), after lemmas about `Rotation`: a generated name parses back,
the file a rotation moves to is one of `Names` (`NewPartitionInfo`).

**Versions.**  That two files share no version says nothing about the next
version to be given.  The inductive invariant `LogFacts` adds

- `HeadCountsAll`: while the handle is open no version stored anywhere is beyond the
  head of the active file and, where nothing is abandoned, all of `1..head` are stored;
- `RotationIsExclusive`: who is between `seal` and `add_range` holds the
  write lock, and carries in `job` the head of the active file, or one beyond it that
  it read in an abandoned transaction;
- `NewHeadIsReady`: just before the switch, the head of the new file is that
  number, also when the new "file" is an older one that is used again;
- `OpeningIsFresh`: an open that has not finished has nothing stored, which is
  what `outages = 0` buys.

`LogInv == outages = 0 => LogFacts` is preserved by every step (`LogStep`), beside
`AbandonedIsAhead`: a transaction left open has seen a head no smaller than the committed one.  It
covers failures because `Finish` leaves rows and heads alone
(`FinishKeepsLog`): an abandoned rotation has at most overwritten the head of
a file that is not active.

**Refinement.**  `StepImplemented` needs of a state only that the versions are
gapless, that the head of the active file is the last one, and `CallFacts` (a caller
in the transaction has a non-empty batch, an idle one no call).  Every step maps to
a step of `EventLog` or leaves `length`, `call` and `outcome` alone; `AppendCommits`
maps to `Append` since the head is the length (`AppendIsSeen`), the end of a process
to `Crash`.  Both `StreamIsOneLog` and `StreamStaysOneLog` follow.

### The event stream across restarts

`RestartProofs` removes `outages = 0` and adds what concerns the catalog.  Its
hypothesis is `Restartable`, of three parts:

- `OneHandle`;
- `Undisturbed`: `MaxFaults = 0`, and catalogs are damaged only where the process
  always ends in good order.  Both exclude real trouble rather than difficulty.
  When a rotation fails after the new file got its head, the old file stays active and
  grows past it; a survey after a restart may then take the new file, with its stale
  head, for the last one.  A crash inside a rotation followed by a loss of the
  catalog does the same with one more process in between.  That is finding 2 carried on;
- `RotationsGoOnward`: labels say exactly when a window starts, and either there is
  a single caller, or all of the clock lies in one window.  Two callers and a
  moving clock are finding 1.  `OneCallerGoesOnward` and `OneWindowGoesOnward` say
  for which constants this holds: one caller and a window of whole minutes, hours or
  days (whichever its label counts), or `MaxClock < Window`.

The runs `size` and `crash` are instances of it.  The inductive invariant `IInv` was
checked by TLC beforehand on instances of every combination: two callers in
one window and one caller with a moving clock, each with crashes and with shutdowns and
damage.  Beside `TypeInv` it says

- of the files (`FilesInv`, `ChainInv`): a file with a head holds exactly the versions
  from its first to its head, all below are stored too, and in the order of names each file
  starts behind the ones before; only the newest may lack its head;
- of the catalog (`RangeInv`, `CatalogInv`): a range has the first version of its file,
  and the last when sealed; and a catalog with one unsealed range, which
  `open_partitioned` believes as it stands, names the newest file and leaves out none.
  This last one is what decides which file is appended to after a crash: without it
  an interrupted rotation could leave a catalog that looks right and is not;
- of the agents (`SettledInv`, `OpenInv`, `TargetInv`, `RotationIsExclusive`): what an
  orderly end leaves behind; the active file has the one unsealed range unless a
  rotation is under way; the file being created is new, sorts behind all others, and gets the
  head of the last;
- of time (`ClockInv`): nobody is about to rotate to a window before the active
  one.

That the file a rebuild chooses, the last by name, has the highest head is
`LastOfNames` with `HeadsAscend`; that all versions are `1..n` is
`HighestHeadCounts`.  Where an argument would be an induction over versions or
files, the proofs take a least counterexample instead (`WFMin`, which needs no operator
parameter).

### Reading

`ReaderProofs` has no hypothesis beyond `Restartable`; `ReadersChangeNothing` carries over
what is proved of the stream to the specification with handlers.  A load spans
several steps, so `HandledInOrder` needs to know what a load in progress has got so
far, while files grow and the catalog changes under it.  `LoadHolds` says: what
was found is behind the cursor and in files no longer to do; a version that is missing
is behind all that was found, and while there is room for more, it is in a file
still to do or in one behind all of those.

- `BeginLoad` establishes it from the ranges (`RangeInv`) and the highest head.
- `QueryRange` keeps it, since the order of the ranges is that of the names
  (`SurveyOrder`) and each file starts behind the ones before (`HeadsAscend`).  When the
  limit cuts something off, the limit is reached (`FirstRowsFacts`).
- Everything else keeps it by `StoreGrows`: rows stay, files keep their first version,
  and new rows go behind all others, in the newest file.
- `FinishLoad` then moves the cursor to the last version found, and as versions have no
  gaps nothing lies between.

### Names

`RotationNames` is the chain of files of one stream.  `WindowProofs` shows that
flooring to a window is monotone and that a label of a multiple of its unit is exact
(`LabelIsExact`); a name then restores its window, and the next one sorts behind it,
by window or by ordinal.  For windows that are not multiples, two windows
can share a label; the code does not exclude them and the assumption does.

### The worker pool

That no partition has two tasks is not inductive: `active` has to tell the truth.
`IInv` has four parts.

- `TypeInv`, with `pending \subseteq active`.
- `TasksInv`: while the supervisor runs, the partitions with a task are exactly the
  active ones, one task each; after it returned there is none; after a failure
  tasks may go on, and none is added.  As slots are more than
  partitions, which is how the assumption states that a `JoinSet` has no limit, a
  free one exists (`FreeSlot`).
- `DrainInv`: between batches the offset of a partition is the number of its
  events projected; a task in a batch is as far as the projection, and what it
  loaded exists (`InStep`).
- `AnnouncedInv`: while the supervisor runs, a partition with an event beyond its
  offset is in the channel, pending, in a task that did not find its last load
  empty, or the one `main` is about to send; and the channel's end is seen only
  when `main` has nothing more to say.

The third says what a step projects (`ProjectsInOrder`), the fourth that the
supervisor has nothing left to do when both branches of `select!` are disabled
(`NothingIsLeft`).  Failures are included: a failed task ends the supervisor, the
others run on in step with their partitions until they are aborted.
`CacheInv` and `BoundInv` are separate invariants: the cache holds no more than its
limit, whichever way the limit moved, and no
partition is appended to more often than announced.

### The pool

`PooledAppendProofs` is about any number of tasks, files and transactions left open.

- `MapInv`: paths in the map are distinct, an instance exists as long as something refers
  to it, and what an eviction has yet to look at is still in the map, since it holds
  the write lock.
- `UsersInv` is `ActiveCountIsExact /\ ConnectionIsExclusive`; neither is
  preserved alone.
- `AppendInv`: an open transaction that counts belongs to the one task that holds
  the stream's write lock; one that was left open has no such task, and
  nobody commits it.
- `BoundInv`, for `PoolIsBounded`: the entries an eviction went past were each in use
  when it looked.  To count them later, the invariant says that there is a function from
  tasks to the instances they held then (`KeptBy`), so that the map's length is bounded
  by the size of its domain.

`EvictionSparesUsed` follows from `UsersInv`: a count of zero means no user.

### Progress

`RowsInv` ties a request's row to its handler's step, and its expiry to the clock
sample the handler holds.  `ClientsInv` says that who receives has subscribed, and
`SubscribersGetOutcome` itself is inductive with it: a client that subscribed while the
outcome was not sent or still in the queue has it in the queue, gets it into its ring
with the loop's next turns (`Delivered`), and loses it from there only by reading or by
lagging.  It rests on `send`, which waits for room, being used for the terminal event.
What happens to a client that subscribes later is finding 5.

### Only model-checked

- The whole of `CachedStream`, whose property the code violates (`two_handles`).
- All liveness (`CallsReturn`, `PartitionOpens`, `EventsAreHandled`, `MainReturns`,
  the liveness of `Projection`, `ClientsLearnOutcome`, `WorkerStops`, `ExpiredRowsGo`):
  liveness under fairness and `ENABLED` are outside what the installed backends can do.
- Faults combined with restarts, for which no run states more than the findings do.
- What an abandoned append does to readers and to the catalog: section 5 says
  that the properties fail there.

## 5. Findings

1. *Stale clock* (`stale_clock`, `event_stream.rs:354`).  `append` samples the
   clock once.  A caller overtaken by a window change finds the active file
   "not current" and rotates *back* to the earlier window's base file, whose
   range is overwritten and whose rows then interleave with those of the newer
   file.  `load_after_version` reads file by file and cuts off at its limit, so
   a handler's cursor can pass versions it was never given.  Versions stay
   unique and gapless (run `race`, theorems).
2. *Failed rotation* (`failed_rotation`, `:537`).  The old range is sealed in
   one statement and the new file made in later ones.  When one fails, or the
   caller drops its future, the handle keeps the sealed file as the active one; the next
   append goes there, beyond the recorded `last_version`, and no load finds it
   until the catalog is rebuilt.
3. *Torn creation* (`torn_creation`, `:268`).  A process that ends while an event
   file is being created leaves a file without an append head.  The survey that
   repairs the catalog fails on that file, at this open and every later one.
4. *Two handles* (`two_handles`, `partitions.rs:174`).  Concurrent first opens,
   and eviction of a stream still in use, produce two `EventStream` values on one
   partition.  Each has its own idea of the active file; after one rotates, both give
   the same versions.  The run is `CachedStream`: every handle in it came out of
   `open_cached`.
5. *Look up first* (`look_up_first`, `broadcast.rs:211`).  A client that connects in
   the documented order looks up, and the outcome may be recorded and broadcast before it
   subscribes: it then waits for an event that is not coming, although "live subscribers
   receive progress and terminal events" (`stream-progress-updates.md:307`).  It learns
   the outcome when it connects again (`ClientsLearnOutcome`).

Three more the model shows, without a run of their own:

- *Abandoned append* (`pool.rs:288`).  When a caller drops the future of `append`
  within its transaction (a timeout around it is enough), `PooledConnection::drop`
  puts the connection back with the transaction open.  The next rotation of the stream
  reads the append head on that connection (`event_stream.rs:533-534`), so the new file
  starts behind events that were never committed: the versions have a gap, against
  "stored events start at version `1`" (`docs/explanation/architecture.md:280`) when they
  were the first.  `Gapless` and `IsOneLog` are violated in the instance of `race`;
  that versions stay unique and ascend is what that run and the theorems say.
- *Dirty read* (`pool.rs:288`).  A load on that connection returns the events of the
  open transaction (`VisibleRows`); the handler's offset moves behind them, they vanish
  when the connection is closed, and what is appended under their versions later is
  skipped.  `HandledInOrder` is violated in that instance with a handler.
- *Pool maximum* (`pool.rs:197`).  `evict_old_databases` returns at exactly
  `max_cached_databases`, before the insert, so the "Maximum number of cached
  Database instances" (`pool.rs:36`) is passed by one; databases in use are spared on top
  of that.  In the instance of `pool`, with a maximum of one, the map holds two.  The
  bound that does hold is the theorem `PoolStaysBounded`.

## 6. Not modelled

- The connections below `EventStream`: which of a file's connections an operation gets
  is a choice there (`HeadsSeen`, `VisibleRows`), and that one can be had is assumed;
  `PooledAppend` has the pool itself.  A rotation that runs its own statements on a connection
  with an open transaction, and so joins them to it, is modelled as one that fails
  (`HeadIsLocked`).
- Windows that are no multiple of their label's precision, or shorter than a
  millisecond (`rotation.rs:30`): an assumption of `RotationNames` excludes them.
- `partitions.rs`: names and paths, the creation of directories and the listing of
  partitions, which do not touch the cache.
- `broadcast.rs`: the end of the loop when all senders are gone, the errors senders
  get then; payloads and items of an event.
- `notifications_store.rs`: two publishers of one request.  The store keeps
  whatever is recorded last, so `RecordedStepGrows` would not hold with them; the guides
  have one handler per request.
- `runtime.rs`: construction and configuration.
- Ties of `last_access` beyond either order; PRAGMAs; the error paths that only
  return before anything changed.
- Checksums and application migrations; the order of scripts within a
  database (there is one script per database here).
- Damage to files other than missing or all-unsealed catalog rows; loss of power.
- `lib.rs`, `error.rs`, `actor.rs`, `application_schema.rs`: data, conversions,
  construction.

## 7. Plan

Done: the core (`Rotation`, `Catalog`, `EventLog`, `EventStream`, `EventReader`,
`RotationNames`), the caches (`PartitionCache`, `CachedStream`, `DatabasePool`,
`PooledAppend`), the worker pool (`WorkerPool`, `Projection`), progress
(`NotificationsStore`, `StreamBroadcast`, `ProgressStreaming`), and the proofs of
section 4, which cover every safety property of the passing runs.  Open, in this order:

1. **Faults and restarts.**  What remains true when a failed rotation is followed by a
   restart, with a survey that may choose the stale file: `Gapless` does not, that
   committed events are never overwritten may.
2. **Windows.**  `RotationsGoOnward` for several callers whose clock samples are
   never older than the active file's window, which is weaker than one window.

Running it: `tlc -config Size.cfg MCEventStream` and likewise for the other
configurations (`Names.cfg` with `RotationNames`, `Workers.cfg` with `MCWorkerPool`,
`TwoHandles.cfg` with `MCCachedStream`, `Pool.cfg` with `MCPooledAppend`,
`Progress.cfg` and `LookUpFirst.cfg` with `MCProgressStreaming`), each between a
few seconds and four minutes;
`tlapm` on each of the modules named `...Proofs`.

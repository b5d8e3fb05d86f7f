# A verification project for gh-ost

TLA+ modules that model the online schema migration of this repository, TLC
configurations that check them on small instances, and theorems that TLAPS
proves for every instance.  `PROJECT.json` relates every definition to the lines
it models, lists the runs, the mutants that show that each property can fail, the
findings, the hazards and the theorems.

- [The system](#the-system)
- [Modules](#modules) and [what they assume of MySQL](#what-is-assumed-of-mysql)
- [Runs](#runs) and [findings](#findings)
- [Proofs](#proofs)
- [Plan](#plan)
- [What is not modelled](#what-is-not-modelled)

## The system

gh-ost changes a table while an application uses it.  It creates a *ghost* table
with the new structure, copies the rows of the original table in chunks, applies
the row events it reads from the binary log, and finally swaps the two tables.

| Part | State | Operations | Interacts with |
|---|---|---|---|
| Migrator (`logic/migrator.go`) | `rowCopyCompleteFlag`, `applyEventsQueue`, `copyRowsQueue`, `ghostTableMigrated`, `allEventsUpToLockProcessed` | `Migrate`, `iterateChunks`, `executeWriteFuncs`, `onApplyEventStruct`, `onChangelogStateEvent`, `cutOver`, `atomicCutOver`, `cutOverTwoStep`, `finalCleanup`, `retryOperation` | owns all others; goroutines and channels |
| Applier (`logic/applier.go`) | connections `db` and `singletonDB`; ranges, kept in the context | range reads, `ApplyIterationInsertQuery`, `ApplyDMLEventQueries`, `AtomicCutOverMagicLock`, `AtomicCutoverRename`, sentry table, changelog, heartbeat | statements to MySQL |
| Events streamer (`logic/streamer.go`, `binlog/gomysql_reader.go`) | listeners, coordinates, `LastAppliedRowsEventHint`, `eventsChannel` | `StreamEvents`, `notifyListeners`, reconnect | calls the migrator's listeners |
| Throttler (`logic/throttler.go`) | lag, HTTP status, general check, hibernation: all in the context | four collectors, a checker every 100 ms, `throttle` | read by executor and cut-over |
| Server (`logic/server.go`) | flags in the context | interactive commands | operator |
| Inspector (`logic/inspect.go`) | structure of both tables | validation, shared unique key | MySQL |
| Hooks (`logic/hooks.go`) | none | external programs | flow of the migrator |
| SQL builder, parser (`sql/`) | none | queries as text, ALTER as text | applier, migrator |
| Topology, coordinates (`mysql/`) | none | walk to the master, order of coordinates | inspector, streamer |
| Context, command line (`base/`, `cmd/`) | everything shared | setters that clamp values | all |

What makes each correct, and what is hard about it:

- *Row copy and events.*  The ghost table must converge to the original one
  although rows are copied and events applied in an order unrelated to the one in
  which the application wrote, in transactions that fail and are retried.
- *Cut-over.*  The swap must be atomic and lose no write, the application
  must never stay locked out, a failed attempt must leave things as they were —
  with three goroutines, three connections, locks that vanish with their
  connection, and leftovers of earlier attempts; or, in two steps, with a single
  connection whose loss releases the lock between two renames.
- *Streamer.*  Every event once and in order across reconnects.
- *Throttler.*  Any factor throttles; what is read is as fresh as it claims.
- *Migration flow.*  Steps in order, no wait for something that will not come, the
  outcome reported as it was; tables that are complete wherever an error, a
  panic or a crash leaves them, also for the run that comes after it.
- *Inspection.*  Every column's data goes to the right column, rows are identified
  by a key that is one in both tables, the master is the master, and the binary
  log that is read has what will be written.

## Modules

### GhostSync

The core: everything that writes to the ghost table before the cut-over.  Four
parties take steps: the application (`Write`), MySQL (`BecomeVisible`), the
streamer (`Stream`) and gh-ost's goroutine `executeWriteFuncs`, preceded by the
steps of `Migrate` that set it up.

| In the code | In the module |
|---|---|
| rows of the original table | `hist`: the table after each event of `log`; `Seen` is what another session reads |
| binary log, position of the streamer | `log`, `read` |
| `applyEventsQueue` | `queue`, at most `QueueCapacity` events |
| `dmlEvents` of `onApplyEventStruct`, and the transaction of `ApplyDMLEventQueries` | `batch` (the *objects*: `buildDMLEventQuery` changes them), `done`, `work` |
| ghost table | `ghost` |
| `MigrationRangeMin/MaxValues`, `MigrationIterationRangeMin/MaxValues`, `GetIteration() == 0` | `rangeMin`, `rangeMax`, `iterMin`, `iterMax`, `firstIteration` |
| `rowCopyCompleteFlag` | `rowCopyComplete` |
| place in `Migrate` or `executeWriteFuncs`; failed attempts of `retryOperation` | `pc`, `tries` |

A transaction of events is executed event by event (`ExecNextEvent`), so that it
can fail in between; other statements are single steps, because MySQL makes them
atomic.  Every statement has a failing action, which for those that commit
includes the COMMIT whose answer is lost.  `Retry` is `retryOperation`: the last
failure reaches `PanicAbort`, which ends the process (`pc = "aborted"`).

Data is abstracted: a composite unique key is a point of a linear order (its
columns are compared lexicographically), the remaining columns are one value.
Columns that the migration drops, adds or converts do not matter to what the
properties say; a key column that the ALTER renames is the same key.

Three constants say what the environment does: `MovesKeys` (the application
updates columns of the unique key), `CommitGap` (an event reaches gh-ost before
its row is visible to other sessions, as with a slow storage engine commit after
the binary log is flushed), `FetchErrors` (a connection dies while the one-row
answer of a range query is fetched).

### RangeQueries

What `GhostSync` takes for granted when it makes a composite key a point of a linear
order: the queries of the row copy as the builder composes them.  A range is a
disjunction of conjunctions of comparisons of one column with a placeholder, its
arguments are a list (`explodedArgs`) that the server assigns by position, and
ORDER BY names the columns one by one, ENUM columns as strings (`concat`),
because that is how they are compared.  `isEnum` says which columns of the key are
ENUMs, with labels in the reverse order of their declaration.  The table does not
change meanwhile — that is `GhostSync`'s subject, and it is a finite set of keys from
the start — but the chunk size does, even
between the two queries that look for the end of a chunk.

### Swap and CutOver

`Swap` is what a cut-over promises to the application: what it finds by the name
of its table is the original table or, from one moment on, the ghost table, which
has got every write by then, each once and in order.  `CutOver` is how that is
kept: one or several attempts of `atomicCutOver` or `cutOverTwoStep`.  `main` is the
migrator.  In the atomic kind `locker[a]` and `renamer[a]` are the goroutines of
attempt `a`, `server[a]` is the server thread that executes its RENAME, `chan[a]`
are its channels.  The two-step kind has one goroutine and the single connection
of `singletonDB`; each of its operations (lock, the renames, unlock) is retried
by itself, which `tries` counts, and the last failure ends the process.  The way
of a challenge — binary log, streamer, goroutine, `applyEventsQueue`, executor,
`allEventsUpToLockProcessed` — is modelled with the writes it must not overtake
(`log`, `read`, `async`, `queue`, `sending`, `applied`).  An error path sends what
the code sends, that of deferred functions included.  Timeouts are always
possible; other faults only as far as the set of faults allows that is chosen
among `FaultChoices` at the start:

| Fault | What happens |
|---|---|
| `lockDies` | the connection with LOCK TABLES is lost; the server frees its locks |
| `query` | any other statement fails |
| `begin` | `AtomicCutoverRename` cannot begin a transaction |
| `renameLost` | the connection of RENAME is lost while the server thread lives on |
| `slowRename` | RENAME is issued after gh-ost has used up its retries waiting for it |
| `reconnect` | the single connection is lost between two statements of the two-step cut-over, and the pool opens another, without the locks |

### EventLog and Streamer

`EventLog` is the promise the streamer makes to a listener: from some position
on, every event of its table, once and in order.  `Streamer` is how it is kept.

| In the code | In the module |
|---|---|
| binary log files of the server | `log`, with the coordinates and the kind of each event; `logFile` |
| `binlogStreamer`, `currentCoordinates`, `LastAppliedRowsEventHint` | `next`, `current`, `hint` |
| locals of `EventsStreamer.StreamEvents` | `lastHint`, `successiveFailures` |
| where that goroutine is: in `GetEvent`, asleep after an error, returned, returned with an error for `PanicAbort` | `reader` = `streaming`, `failed`, `stopped`, `aborted` |
| `eventsChannel`; the entry in `notifyListeners`, with `listenersMutex` locked | `eventsChannel`, `notifying` |
| `Migrate`, from `initiateApplier` to the end of the cut-over | `migrate` |
| when `addDMLEventsListener` got the mutex; what its listener was given | `start`, `delivered` |

A new reader (`Reconnect`) begins at the start of the file, yields events that
were passed on before, and `handleRowsEvent` skips what is not beyond the hint.
`onChangelogStateEvent` sends `GhostTableMigrated` on a channel without buffer
that `Migrate` receives from once, and does so inside `notifyListeners`.
Positions are modulo `PosLimit` (the event header has 32 bits) and file names
compare as strings, so that file `LongFile` comes before the others.

### Throttle

Four goroutines collect reasons to throttle, one combines them, and the heartbeat,
by which lag is measured, looks at the outcome.

| In the code | In the module |
|---|---|
| what the operator, the application and the servers do | `commanded`, `flag`, `load`, `url`, `answer`, `link`, `beat`, `row` |
| results of the collectors, in the context | `generalCheck`, `httpStatus`, `currentLag`, `lagResult`; `collected` is what `firstThrottlingCollected` has received |
| `HibernateUntil`, the goroutine that sleeps as long, timers for critical load | `hibernating`, `waking`, `rechecks` |
| `throttlerFunction`, as far as `shouldThrottle` has come | `checking` |
| `isThrottled`, `throttleReasonHint` | `throttled` |
| `InitiateHeartbeat`, `numSuccessiveFailures` | `heartbeat` |

Lag is the age of a heartbeat row, young or old, on each server; it grows while
no heartbeat is written (`BeatAges`) or a server lags behind (`RowAges`), and
`Replicate` ends it.  A heartbeat that is merely late is not modelled.  A round of
a collector is one step, because its result is replaced by that of the next round;
the check reads its five sources one by one, and the end of hibernation has its
two steps, because their order matters.  A flag file stands for max-load and the
throttle query, too: the three give the same result in the same place.

### Migration

The whole of `Migrate` and of the process around it, with tables seen as wholes.
`GhostSync`, `CutOver`, `Streamer` and `Throttle` say what happens inside a step;
`Migration` says what one step leaves to the next, to the process that reports the
outcome, and to a later run.

| In the code | In the module |
|---|---|
| the tables by the four names gh-ost uses | `tables`: `original` or `altered` (complete, in one structure or the other), `behind` (rows or writes are missing), `sentry`, `empty`, `migrated` (the changelog's state row), `none` |
| the replication threads of a replica under test | `replicating` |
| `PostponeCutOverFlagFile` | `flagFile` |
| command line | `options`, chosen anew at each `Start` |
| place in `Migrate`, `cutOver`, `handleCutOverResult`, `finalCleanup` | `pc`; `blocked` is a second send to `PanicAbort` |
| failed attempts of the cut-over; what the attempt returned | `tries`, `outcome` |
| an error in `PanicAbort`, received by `listenOnPanicAbort` | `panicked` |
| `IsPostponingCutOver`, `UserCommandedUnpostponeFlag`, a command that has read the one and not yet set the other | `isPostponing`, `unpostpone`, `commanded` |
| `onSuccess` | `told` |
| the exit status | `process` |

A write of the application makes every complete table `behind` that does not get
it: all but the one by the original name, and the ghost table once row copy and
events keep it in sync.  `Faults` lists what may fail: statements (`query`), hooks,
a swap that took place and is reported as failed (`swapUnseen`, which `CutOver`
shows to be possible), the renames that revert a test, a panic by command, death of
the process at any point.  After either, `Start` runs gh-ost again, with any
options, on the tables that are there.

### Columns and Inspection

`Columns` is what gh-ost makes of a table and of an ALTER statement —
`columnRenameMap`, dropped columns, shared columns, shared unique keys and their
order — beside what MySQL makes of the same statement.  A statement is a set of
clauses (change, modify, drop, add, keys, rename of the table); a column name is a
word in one of two spellings, because MySQL compares names regardless of case
and gh-ost does so only here and there.  A column of the ghost table carries, as
`holds`, whose data it is to have: that is what the pairs of names are compared
with.

`Inspection` is the run of `validateStatement`, `initiateInspector` and
`inspectOriginalAndGhostTables`.

| In the code | In the module |
|---|---|
| flags that decide what is refused | `options` |
| the ALTER, the table, and what else there is about it | `statement`, `original`, `obstacles` |
| grants; replication topology; its broken links | `grants`, `master`, `broken` |
| `log_bin`, `binlog_format`, `binlog_row_image`, `log_slave_updates`, and the format of the replication thread, which has taken the one there was when it started | `binlog`, `replicates` |
| recursion of `GetMasterConnectionConfigSafe` with `visitedKeys` | `config`, `visited` |
| `ApplierConnectionConfig`, `Equals` of `Key` and of `ImpliedKey` | `applier`, `Equals` |
| ghost table; `UniqueKey`; `SharedColumns` and `MappedSharedColumns`; `SetConvertDatetimeToTimestamp` | `ghost`, `uniqueKey`, `pairs`, `converted` |
| where it ends | `pc` = `accepted`, `refused`, or `panicked` (nil dereferenced) |

`Init` leaves the usual in all groups but one: any table and statement, or any
obstacles, or any topology with any roles, or any binary log settings with grants
and the topologies these are about.  Conditions of the code that relate two groups
(`InspectorIsAlsoApplier` with the topology, replicas with a change of the format)
are met within one of them.

### Modules for proofs and for TLC

`GhostSyncProofs`, `CutOverProofs`, `StreamerProofs`, `ThrottleProofs`,
`MigrationProofs`, `InspectionProofs` and `RangeQueriesProofs` hold the theorems about
the modules they are named after.  `Foundations` has what two of them need and the
library does not: induction over a bounded range of numbers, stated of a set instead
of an operator, and from it what the recursive function in `FlattenSeq` computes.

`MCGhostSync` is the instance of `GhostSync` for TLC: the contents of rows are
interchangeable, so `Val` is a symmetry set in `gaps`, which checks invariants only.

### What is assumed of MySQL

Statements and transactions are atomic; `LOCK IN SHARE MODE` waits for row locks;
the events of a table arrive in the order of their commits; LOCK TABLES waits for
transactions that use the table, and their events are in the binary log before
it; a waiting RENAME comes before later requests for the same tables, so that no
writer slips in between UNLOCK TABLES and RENAME; the locks of a connection end
with it; an ALTER renames, drops, adds and converts columns, and keys follow them;
an ENUM is sorted by its place in the declaration and compared with a string by its
label.  These are the definitions marked external in `PROJECT.json`.  Events of
a transaction larger than one row are single events in the model, which is finer
than the code's view of them.

## Runs

All take about a minute, `moves` two, `throttle` two or three.  Deadlock is not
checked: the model stops when the process does (`aborted`, `done`, `gaveUp`,
`accepted`, `refused`) or when the application's writes are used up and all is
applied; that nothing stops before is what the liveness properties say.

| Run | Shows | Bounds |
|---|---|---|
| `moves` | `TypeOK`, `Converged`, `AllNecessaryRowsCopied`, `CatchesUp`, `IInv` with updates of the key | 3 keys, chunks of 2: a full chunk and a partial one; 2 writes, batches of up to 2; one attempt, because a retried update of the key breaks them (`keymove`); that they hold with retries and no such update is what the theorems say |
| `gaps` | `NoStaleRows`, `EventsIntact` with failures and retries, delayed visibility and broken fetches | 2 keys, chunks of 1: three iterations; 3 writes, more than a batch of 2 takes from the queue; two attempts; no updates of the key |
| `chunks` | `CopiedInKeyOrder`, `ChunkHasItsSize`, `TypeOK` | keys of one to three columns, each ENUM or not, two values a column, every table of up to eight rows; chunks of 1 and 3: full, partial and exact last chunks |
| `cutover_faults` | `TypeOK`, `EventsUpToLockProcessed`, `NoSendBlocks`, `NoWriteLost`, `SwapsTables` (implements `Swap`) for both kinds under all faults but `slowRename` and `reconnect`; `FailureMeansNoSwap` where nothing but timeouts and `begin` strikes | two attempts, so that one meets the leftovers of another; 2 writes, queue of two |
| `cutover_live` | `SuccessMeansSwap`, `LockIsReleased`, `AttemptsReturn` for both kinds under all faults but `begin` | one attempt, 2 writes |
| `streamer` | `EveryEventOnce` (implements `EventLog`), `IInv`, `ListenerIsAdded`, `EventsArrive`, `TypeOK` | 4 events after one from before the start, 2 files, 2 broken connections, one retry: a break before, in and after the first rows event, in either file |
| `throttle` | `ThrottlingSettles`, `NoGapAfterHibernation`, `TypeOK` | three control replicas, the inspected server among them, so that a lag, an error and an answer with neither merge in any order; two changes around gh-ost, as critical load and its end, with lag in between; a heartbeat that may fail and end; critical load hibernates or is looked at again |
| `flow` | `InPlaceIsComplete`, `SomethingIsKept`, `ExitZeroMeansDone`, `ReplicationRuns`, `PostponedWhileFileExists`, `RunEnds`, `TypeOK` under failing statements and hooks, panic and death of the process | two runs, the second with any options on what the first left; two attempts of the cut-over; all combinations of options |
| `inspection` | `ColumnsPaired`, `KeyIdentifiesRows`, `MasterIsMaster`, `ChangesReachInspector`, `InspectionEnds`, `TypeOK` | two columns and three words in two spellings: swaps, a third name, an added column of a name given up; up to two keys of one or two columns; three servers in any topology, rings included, and a second address of one |

Tables start in every possible state.  The interesting coincidences need two
writes (one before, one after some step of gh-ost) and three keys at most (below,
in and above a chunk).  Two columns are enough for `inspection`, because names are
compared pair by pair; three servers, because a ring, a chain and a branch differ there.

*Fairness.*  `GhostSync!FairSpec` has weak fairness for the streamer, for the
executor's goroutine and for MySQL's commit: goroutines that run are scheduled,
and the loops of the code wait for nothing but what the guards say and the end of
throttling (`executeWriteFuncs`, before each event or chunk).  So `CatchesUp` presumes
that throttling ends; when it does is what `Throttle` is about.  To the safety
properties throttling is a step that comes late, as any may.  There is no fairness
for the application and for failures.  `MaxWrites` makes the application
pause in the end; without it the events, which have precedence, could starve the
row copy, as the code intends.  `CutOver!FairSpec` has weak fairness for each
goroutine, each server thread and the migrator; its timers are alternatives of the
steps that wait, so no wait is assumed to be answered.  `Streamer!FairSpec` has
weak fairness for the two goroutines of the streamer and for the steps of
`Migrate` that set up the listener; none for the server, for errors and for the
cut-over.  The connection is assumed to answer when it does not fail.
`Throttle!FairSpec` has weak fairness for each goroutine, which a ticker or a timer
wakes, and for replication that is up; none for changes, failures or the passing
of time.  `Migration!FairSpec` has weak fairness for the goroutine of `Migrate` and
for the exit of the process, which presumes again that throttling ends (`cutOver`
waits for it before it looks at the postponement); the operator, who may end a postponement, owes
nothing, so that `RunEnds` excepts it, and neither does who would start gh-ost
again.  `Inspection!FairSpec` has weak fairness for its only goroutine.

### Findings

Runs that are expected to find a violation, of something the repository says:

- `keymove` — an update of the unique key, retried, leaves the old row behind:
  `buildDMLEventQuery` overwrites the type of the event it is given.
- `cutover_begin` — no transaction for RENAME: `atomicCutOver` waits for ever.
- `cutover_drop` — check and drop of the sentry table are two steps; the old
  table, with the original data, may be what is dropped.

The constants that describe the environment are there because other values break
a property, which a changed cfg shows in a moment:

- `FetchErrors = TRUE` in `GhostSync_moves.cfg` violates
  `AllNecessaryRowsCopied`: `rows.Err()` is not looked at, so a connection lost
  while a range end is fetched is taken for the end of the table.
- `CommitGap = TRUE` there does, too: a row inserted above the maximum may be
  missed when its event comes before the listener and its visibility after the
  range is read.
- Without its condition on `faults`, `FailureMeansNoSwap` is violated: the lock
  connection dies after it dropped the sentry table, the attempt fails, and RENAME
  swaps the tables all the same.  The two-step cut-over reports failure after its
  renames when the unlock fails for good.
- `PastKinds = {"migrated"}` in `Streamer_live.cfg` violates `ListenerIsAdded`:
  when the stream breaks before the first rows event the hint is empty, the file
  is read from its start, and a `GhostTableMigrated` left there by an earlier
  migration of the same table arrives as well.  `Migrate` goes on with the first,
  the second blocks the streamer with the mutex locked, and `AddListener` waits
  for ever.
- `PosLimit = 3` there (a file beyond 4 GB) and `LongFile = 2` (the file number
  gets a digit more) violate `EventsArrive`: new events compare as not beyond the
  hint and are skipped.
- Rows with NULL in the unique key, which `doc/shared-key.md:48` warns of, are not
  among the tables of `RangeQueries`: a comparison with NULL is not true, and NULL
  sorts first, so that a NULL in the first column of the least key leaves nothing
  to copy.
- `"slowRename"` added to a set of `FaultChoices` in `CutOver_faults.cfg` violates
  `NoWriteLost`: a RENAME issued after the wait for it was given up finds neither
  lock nor sentry in its way.  `"reconnect"` does, too: the lock of the two-step
  cut-over ends with its connection, unnoticed, and the application writes before
  the first rename.
- `ClearsURL = TRUE` in `Throttle_settles.cfg`, with `MaxChanges = 3` (and one
  replica and one policy, to keep it small), violates `ThrottlingSettles`: the
  last status of a URL that is unset stays, and throttles for ever, although
  `doc/throttle.md:53` calls the check disabled without a URL.
- Without the condition `control = "polling"` in `ControlThrottles`, the same bounds violate
  `ThrottlingSettles`: the general collector may begin a hibernation before the
  goroutine for the control replicas starts, which then ends, and no lag of a
  control replica ever throttles the migration.
- `ControlThrottles` wants every control replica to lag or fail if one fails.  With
  a lagging, a failing and a healthy one, whose answers arrive in this order,
  `readControlReplicasLag` has an error replace the lag, with a lag of 0, and the
  healthy answer the error: nothing throttles, although `doc/throttle.md:29` says
  that "any controlled replica lagging more than this value will cause throttling to
  kick in".  With `Lagging # {}` for its last line, as that has it, `throttle`
  violates `ThrottlingSettles` after two changes.
- `May` has a lagging or failing server, and `~heartbeat.alive`: more than
  `MaxRetries` failures in a row end the heartbeat for good, and the lag that
  follows throttles the migration until it is stopped.  And `ControlThrottles` wants
  all control replicas to fail, if none lags: one that answers can hide another that
  does not.
- `"postponedHook"` added to `Faults` in `Migration_flow.cfg` violates
  `PostponedWhileFileExists`: `sleepWhileTrue` ends with the hook's error, which
  `cutOver` does not look at, so that the cut-over begins although the flag file
  exists (`doc/perks.md:60`).
- `"startHook"` there violates `ReplicationRuns`: the error of
  gh-ost-on-start-replication leaves `handleCutOverResult` early, its result is
  ignored, and the attempt is retried on a replica that does not replicate.
- `"stateRow"` there violates `RunEnds`: `initiateApplier` ignores the error of
  `WriteChangelogState`, and `Migrate` waits for a row that does not exist.
- `"rollbackTwice"` there violates `ExitZeroMeansDone`: when the single renames of
  `RenameTablesRollback` fail as well, a test ends as a success with the tables
  still swapped.
- `SpelledAlike` in `ColumnsPaired`: CHANGE with the old name in other case than
  the table's is approved as a rename, but looked up by exact name, so that the
  column is in no pair and its data is left out without a word
  (`doc/command-line-flags.md:21`).  `TakesGeneratedName`: generated columns are
  left out by name.
- `NameTakenOver` in `KeyIdentifiesRows`: keys of both tables are the same if they
  have the same names; after CHANGE a b, CHANGE b a the chosen key names other
  data in the ghost table.
- A chosen key with a column that is in no pair — a generated one, or one dropped
  and added again — ends in a nil pointer: `pc = "panicked"`, which no property
  forbids.
- A column converted from DATETIME to TIMESTAMP gets no time zone conversion when
  it is renamed or spelled in another way at the same time; `converted` is
  looked up by name.
- `ChangesReachInspector` leaves out `tungsten` and `assumeRBR`, which are the
  operator's word, and asks for both threads: when only the SQL thread runs,
  `restartReplication` is skipped, and the thread goes on with the format it has,
  although `inspect.go:274` says the restart makes certain.
- A ring of masters that knows the inspected server by an address other than the
  host name it reports of itself would make `InspectorIsAlsoApplier` false and
  pass by `--allow-on-master`.  `At` assumes that replicas know their masters by
  the names these report; only the operator (`Alias`) uses another.

They leave the passing runs of the same properties with what they are true of:
`Converged` holds without retries of updates of the key, `NoWriteLost` without
`slowRename`, and so on.

## Proofs

`GhostSyncProofs` proves, for all values of the constants:

- `TypeCorrect`: `Spec => [](TypeOK /\ HistInv /\ HistStable)`, with no
  assumption on the environment;
- `InvariantHolds`, `ConvergedHolds`, `CopyGuaranteeHolds`: `Spec => []P` for `P` =
  `IInv`, `Converged`, `AllNecessaryRowsCopied`, assuming `Sound`: no `CommitGap`, no
  `FetchErrors`, and no retries together with `MovesKeys`.  As
  [above](#findings), none of the three can be left out for `Converged` or
  `AllNecessaryRowsCopied`;
- `RowsInvariantHolds`, `NoStaleRowsHolds`, `EventsIntactHolds`: `Spec => []P` for
  `P` = `RowsIInv`, `NoStaleRows`, `EventsIntact`, assuming only the last of these,
  `OneAttempt`.  This covers the run `gaps`, whose `CommitGap` and `FetchErrors` are set.

*The argument.*  `Converged` is far from inductive: the ghost table is, at almost
any time, equal to no state of the original table.  What holds row by row is that
a row of the ghost table is *at or ahead of* the events applied: it equals the
row of `hist` at some point from `Handled` on (`Ahead`).  Rows that are absent
from the ghost table need more: absence is right only for keys the copy is through
with (`Covered`); for the others it means nothing.  `SyncInv` says this of the
committed table and of the open transaction's view of it.  An event takes a row
from "at or ahead of `n`" to "at or ahead of `n + 1`", because the row is either
written to the state at `n + 1` or already ahead of it; that an UPDATE of an
absent row does nothing is right because an absent row that is ahead stays so, and
an uncovered one is copied later.  A chunk copies the present state, which is
ahead of everything.  `HistStable` lifts "no event concerns the row" from one step
to any distance: with it, a row that is ahead of `Handled` and has no pending
event is the original row, which gives `Converged` and `AllNecessaryRowsCopied`.
`PipelineInv` ties queue and batch to positions in the log; `ControlInv` holds the
facts about `pc` that the other conjuncts need.

With `CommitGap` or `FetchErrors` the gaps are no longer in step: a row may be missing
that no event brings.  The rows still are, which is `RowsInv`: what a chunk copies may
have been written before events that are already applied, but its locking read waits for
writers of its rows, so that by `HistStable` nothing that is not visible yet concerns the
rows it copies, and they are rows of the present.

`StreamerProofs` proves, for any number of events, files, retries and breaks:

- `StreamerTypeCorrect`: `Spec => []TypeOK`, and `StreamerInvariant`:
  `Spec => []IInv`, with no assumption on the environment;
- `StreamerImplementsEventLog`: `Sound /\ Spec => EveryEventOnce`, where `Sound`
  says that no position wraps around and no file name gets a digit more.

*The argument.*  As long as nothing wraps, coordinates grow along the log
(`LogInv`, `LogOrder`), so that comparing with the hint is comparing with the last
entry passed on, `Sent`.  `ReaderInv` says that the hint is `Sent`, and that no
reader is beyond the entry after it: a reconnect only moves it back, because the
file it starts at is the one it was in.  Hence what is skipped was passed on, and
what is not is exactly the next entry (`RowsOrder`).  With an empty hint there is
nothing to relate to, and any entry may be the first: that is the freedom
`EventLog` has in the choice of `start`.  `ChannelInv` carries "one by one"
through channel and goroutine, and `DeliveredInv` says that nothing of the table
is between the last delivery and the last notification, so that a delivery is a
step of `EventLog` and every other step is a write, the subscription or none.

`CutOverProofs` proves, for any number of attempts and writes and whatever the queue
holds:

- under all faults: `InvariantHolds` (`IInv`), `TypeCorrect`,
  `EventsUpToLockAreProcessed`, `NoSendEverBlocks`, `SuccessIsSwap`, `FailureIsNoSwap`
  (which states its condition on `faults` itself);
- `NoWriteIsLost`: `Spec => NoWriteLost`, and `CutOverImplementsSwap`:
  `Spec => SwapsTables`, assuming that no set of `FaultChoices` has `slowRename` or
  `reconnect` in it.  With either, TLC finds a lost write ([findings](#findings)).
- `OldTableIsKept`: `Spec => OldTableKept`, assuming that timeouts and `begin` are all
  that strikes an atomic cut-over.  `cutover_drop` shows that it does not hold under other
  faults.

*The argument.*  `PipelineInv` follows a challenge: every write before its position
in the log is applied, or before it in the queue.  It lives in the gap between the
goroutine that queues the challenge and the queue itself, and it is what makes an
answered challenge worth anything; `ChallengeInv` adds that while the lock of an
attempt is held no write is behind the attempt's challenge, because the lock is older
than the challenge (`LockerInv`).  `OrderInv` says that the writes in the queue are in
the order of the log and behind those applied, so that the executor's next write is
`Swap`'s.  `LockerInv`, `RenamerInv` and `TellInv` count what the goroutines of every
attempt, past ones included, have sent and may yet send: that is `NoSendBlocks`.
RENAME is the hard part: it may be executed at any time, also one of an attempt long
given up.  `PendingInv` says that at most one is still to come, and that it either
meets a lock, a sentry table, or an `applied` that is complete, because it has been
waiting in front of the application since the lock.  That needs `SentryInv` and
`WaitInv`: the sentry is dropped only on a message that is sent when RENAME is waiting
or has failed.  These three are under the condition `Sound`, as is `TwoStepInv`, the
lock of the other kind; `AliveInv`, `FailureInv`, `SwapperInv`, `AbortInv` and `OldInv`
are under `Calm`: then the RENAME of a failed attempt has failed, too.  A step of `Swap`
is a write of the application, `ExecuteEvent` with a write, `ServerRenames` with its
first outcome, `RenameOriginal` or `RenameGhost`; all other steps change nothing the
application could see.

`MigrationProofs` proves, for any number of runs, attempts and changes and any mixture of
options:

- under all faults: `InvariantHolds`, `TypeCorrect`, `SomethingKept`: the tables are
  complete by some name wherever a run is ended;
- `InPlaceComplete` and `ExitZeroIsDone`, assuming `"rollbackTwice" \notin Faults`;
  `ReplicationGoesOn`, assuming `"startHook" \notin Faults`; `PostponedUntilTold`, an action
  property, assuming `"postponedHook" \notin Faults`.  Each assumption excludes one of
  the [findings](#findings), by which TLC violates the property.

*The argument.*  `KeptInv`, that original or ghost table is complete, is what every
fault keeps: each statement that takes a table away does so by a name that is not the
last complete one.  It needs `TablesInv`, which says what the names may hold at each
`pc`: before the swap (`Unswapped`), after it (`AreSwapped`), or between two renames
(`HalfSwapped`).  `TestInv` follows a test through attempt and rollback, while nothing
is written because the replica does not replicate; `FinishInv` follows the final
cleanup, up to the exit status.  Both rest on renames that can be reverted.

`InspectionProofs` proves, for any statement and table of the two columns of
`Columns`, any words for their names and any servers, from `WordAssumption` and
`ServerAssumption` alone: `InvariantHolds`, `TypeCorrect`, `MasterFound`, `ChangesArrive`,
`ColumnsArePaired` and `KeyIdentifies`, for the properties of the run.  *The argument.*
`WalkInv` says of the recursion of `GetMasterConnectionConfigSafe` that it has gone up
the chain of masters: the present server is, or is above, each that was visited;
`RolesInv` says where it ended.  `BinlogInv` says what the settings are once a check has
passed, and that the replication thread has been restarted since.  `RenamesInv` and
`TableInv` say that parser and ghost table stem from the same statement; what follows for
an accepted run is about the operators of `Columns`: a column becomes at most one column
of the ghost table, and the pair found by names is that one (`ColumnsPaired` names the
statements excepted); equal names of two keys mean equal columns unless a name was
taken over.

The proof of `MasterFound` found a definition of the model wrong: `Upstream` gave all
servers for one without a master, so that the property asked for less than it said.  It
has been corrected.

`RangeQueriesProofs` proves, for keys of any length, ENUM or not, for any finite table
and any chunk sizes: `InvariantHolds`, `TypeCorrect`, `CopiedInOrder`, and `ChunkSizeHolds`,
an action property.  *The argument.*  The order of ORDER BY is a strict total order
(`KeyTransitive`, `KeyTotal`).  `RangeSelects`: the disjunction with its list of
arguments, which the server fills in by position, selects exactly the keys on one side
of the range's end.  Where the arguments of the n-th conjunction begin in the list is the length of
those before it, which takes the induction in `Foundations`.  Then a chunk is an
interval of the order, and `CopiedInv` says that the keys copied are those before it;
`ChunkInv`, with the ranks of keys in a finite table, says how many an interval has.

`ThrottleProofs` proves, for all replicas, policies and changes: `HibernationInvariant`
and `NoGapHolds`, `Spec => []HibernationInv` and `Spec => []NoGapAfterHibernation`, and
`TypeCorrect`, `Spec => []TypeOK`.  *The argument.*  A check that slept and goes on has
found `HibernateUntil` cleared; it is cleared after the general check was set to
"leaving hibernation", and only another round of the general collector replaces that.
A new hibernation in between leaves it as it is.  `TypeOK` bounds the failures of the
heartbeat, which is not inductive without `HeartbeatInv`: a heartbeat that is alive has
not failed more often than it may.  The lag of the control replicas is a fold over
their answers, whose type is proved by induction over the answers.

*Assumptions on constants.*  Sizes are positive, flags are Boolean, `None` is not a
value (`SizesAssumption`, `FlagsAssumption`, `BoundsAssumption`, `NoneAssumption`,
`CutOverAssumption`, `MigrationAssumption`, `RangesAssumption`); the inspected server is one of
the servers, and the operator's alias and `Nowhere` are not (`ServerAssumption`); there are
three words for names (`WordAssumption`); there are finitely many control
replicas, the inspected server possibly among them, and policies and answers are known
ones (`ThrottleAssumption`).

*Only model-checked.*  Every safety property of the passing runs is stated by a
theorem.  Liveness is beyond the prover: `CatchesUp`, `ListenerIsAdded`, `EventsArrive`,
`LockIsReleased`, `AttemptsReturn`, `ThrottlingSettles`, `RunEnds` and `InspectionEnds`
stay with TLC, and so do the violations under [findings](#findings).

## Plan

The modules, their runs and the theorems about their safety properties are there.  What
is left is of the environment of `Throttle`: lag when the migration runs on a replica,
and what `executeWriteFuncs` does before the first check.

## What is not modelled

Text and I/O: tokens of ALTER statements and the regular expressions that find
them (RENAME COLUMN, which the parser does not know, is a clause it does not see
and is left out), conversion of values, status output, configuration files,
sockets, the environment of hooks, credentials and TLS.  Interactive commands that
set one number.  Row count estimates and progress, which influence nothing.  The
vendored libraries and MySQL itself, beyond what is listed above; tables that are not
transactional, which are copied without a locking read (`builder.go:216`).  Time as a
quantity: a timeout may strike at any moment of the wait it ends, and the retry
intervals, exponential or not, are any time.

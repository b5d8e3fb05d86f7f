------------------------------ MODULE GhostSync ------------------------------
(***************************************************************************)
(* How gh-ost fills the ghost table.  The application keeps writing to the *)
(* original table; every write lands in the binary log.  The streamer      *)
(* reads the log and, once the migrator has a listener, queues each row    *)
(* event.  A single goroutine (executeWriteFuncs) writes to the ghost      *)
(* table: it applies queued events in batches, one transaction per batch,  *)
(* and, when the queue is empty, copies the next chunk of rows of the      *)
(* original table.  Every statement it sends may fail and is retried.      *)
(*                                                                         *)
(* Rows are identified by the migration's unique key; its columns are      *)
(* compared lexicographically, so a key is a point of a linear order and   *)
(* is taken from 1..KeyCount.  The other columns of a row are one value.   *)
(***************************************************************************)
EXTENDS Naturals, Sequences, FiniteSets

CONSTANTS
    KeyCount,       \* unique key values are 1..KeyCount
    Val,            \* what a row may hold besides its key
    None,           \* "there is no such row"
    ChunkSize,      \* --chunk-size
    DMLBatchSize,   \* --dml-batch-size
    QueueCapacity,  \* capacity of applyEventsQueue (MaxEventsBatchSize)
    MaxRetries,     \* --default-retries: attempts of one operation
    MaxWrites,      \* bound: how often the application writes
    MovesKeys,      \* the application updates columns of the unique key
    CommitGap,      \* MySQL ships an event before its row is visible
    FetchErrors     \* a connection may die while a result is fetched

ASSUME SizesAssumption ==
    /\ KeyCount \in Nat \ {0}
    /\ ChunkSize \in Nat \ {0}
    /\ DMLBatchSize \in Nat \ {0}
    /\ QueueCapacity \in Nat \ {0}
    /\ MaxRetries \in Nat \ {0}
    /\ MaxWrites \in Nat
ASSUME FlagsAssumption == {MovesKeys, CommitGap, FetchErrors} \subseteq BOOLEAN
ASSUME NoneAssumption == None \notin Val

VARIABLES
    log,        \* row events of the original table, in binlog order
    hist,       \* history: hist[n + 1] is the original table after n events
    visible,    \* how many of the events other sessions can see committed
    read,       \* how many of the events the streamer has read
    queue,      \* applyEventsQueue
    batch,      \* dmlEvents of the batch being applied, objects and all
    done,       \* how many of them the open transaction has executed
    work,       \* the ghost table as the open transaction sees it
    ghost,      \* the ghost table, committed
    pc,         \* where the migrator, then executeWriteFuncs, is
    tries,      \* failed attempts of the operation under way
    rangeMin, rangeMax,     \* MigrationRange{Min,Max}Values
    iterMin, iterMax,       \* MigrationIterationRange{Min,Max}Values
    firstIteration,         \* GetIteration() == 0
    rowCopyComplete         \* rowCopyCompleteFlag

mysqlVars == <<log, hist, visible>>
eventVars == <<read, queue>>
txVars    == <<batch, done, work>>
rangeVars == <<rangeMin, rangeMax>>
iterVars  == <<iterMin, iterMax, firstIteration>>
vars == <<mysqlVars, eventVars, txVars, ghost, pc, tries, rangeVars, iterVars,
          rowCopyComplete>>

-----------------------------------------------------------------------------
Key   == 1..KeyCount
NoKey == 0                      \* nil *ColumnValues
Row   == Val \cup {None}
Table == [Key -> Row]

(* A binlog.BinlogDMLEvent: where and new are the key columns of           *)
(* WhereColumnValues and NewColumnValues, val the rest of the new row.     *)
Event == [dml : {"insert", "update", "delete"}, where : Key, new : Key, val : Row]

Rows(t) == {k \in Key : t[k] # None}

Touches(e, k) == k \in {e.where, e.new}

(* The original table as a plain read of another session sees it.          *)
Seen == hist[visible + 1]

(* The original table with every logged write in it.                       *)
Original == hist[Len(log) + 1]

(* A write that is logged but not yet visible still holds its row locks.   *)
Locked(k) == \E i \in visible + 1 .. Len(log) : Touches(log[i], k)

(* How many log events gh-ost is through with: read before there was a     *)
(* listener, or applied to the ghost table.                                *)
Handled == read - Len(queue) - Len(batch)

Setup == {"listen", "readMin", "readMax"}
Copying == {"offset", "temptable", "insert"}
Running == {"idle", "apply"} \cup Copying

Init ==
    /\ hist \in {<<t>> : t \in Table}
    /\ log = <<>> /\ visible = 0
    /\ read = 0 /\ queue = <<>>
    /\ batch = <<>> /\ done = 0
    /\ ghost = [k \in Key |-> None] /\ work = ghost
    /\ pc = "listen" /\ tries = 0
    /\ rangeMin = NoKey /\ rangeMax = NoKey
    /\ iterMin = NoKey /\ iterMax = NoKey /\ firstIteration = TRUE
    /\ rowCopyComplete = FALSE

-----------------------------------------------------------------------------
(* MySQL and the application.                                              *)

(* What the event does to the original table, and when it is possible.     *)
Legal(t, e) ==
    \/ e.dml = "insert" /\ e.where = e.new /\ t[e.new] = None /\ e.val \in Val
    \/ e.dml = "delete" /\ e.where = e.new /\ t[e.new] # None /\ e.val = None
    \/ e.dml = "update" /\ t[e.where] # None /\ e.val \in Val
                        /\ (e.where = e.new \/ (MovesKeys /\ t[e.new] = None))
Written(t, e) == [t EXCEPT ![e.where] = None, ![e.new] = e.val]

(* The application writes a row.  The event is in the binary log at once;  *)
(* with CommitGap the row becomes visible to others only later.            *)
Write ==
    /\ Len(log) < MaxWrites
    /\ \E e \in Event :
        /\ Legal(Original, e)
        /\ ~Locked(e.where) /\ ~Locked(e.new)
        /\ log' = Append(log, e)
        /\ hist' = Append(hist, Written(Original, e))
    /\ visible' = IF CommitGap THEN visible ELSE Len(log')
    /\ UNCHANGED <<eventVars, txVars, ghost, pc, tries, rangeVars, iterVars,
                   rowCopyComplete>>

(* The storage engine commits the oldest write that is only logged.        *)
BecomeVisible ==
    /\ visible < Len(log)
    /\ visible' = visible + 1
    /\ UNCHANGED <<log, hist, eventVars, txVars, ghost, pc, tries, rangeVars,
                   iterVars, rowCopyComplete>>

(* Mutant: the listener is only added after the setup.                     *)
StreamToLateListener ==
    /\ read < Len(log)
    /\ \/ pc \in Setup /\ queue' = queue
       \/ /\ pc \notin Setup /\ Len(queue) < QueueCapacity
          /\ queue' = Append(queue, log[read + 1])
    /\ read' = read + 1
    /\ UNCHANGED <<mysqlVars, txVars, ghost, pc, tries, rangeVars, iterVars,
                   rowCopyComplete>>

(* The streamer reads the next event and calls the listener, if there is   *)
(* one, which blocks while the queue is full.                              *)
Stream ==
    /\ read < Len(log)
    /\ IF pc = "listen"
       THEN queue' = queue
       ELSE /\ Len(queue) < QueueCapacity
            /\ queue' = Append(queue, log[read + 1])
    /\ read' = read + 1
    /\ UNCHANGED <<mysqlVars, txVars, ghost, pc, tries, rangeVars, iterVars,
                   rowCopyComplete>>

-----------------------------------------------------------------------------
(* The migrator's setup, in the order of Migrate.                          *)

addDMLEventsListener ==
    /\ pc = "listen"
    /\ pc' = "readMin"
    /\ UNCHANGED <<mysqlVars, eventVars, txVars, ghost, tries, rangeVars,
                   iterVars, rowCopyComplete>>

(* What a one-row query yields: an answer or, when no row qualifies, NoKey. *)
(* With FetchErrors it may also be NoKey because the loop over rows.Next() *)
(* ended with the connection: rows.Err() is not looked at.                 *)
Fetched(rows, answers) ==
    answers \cup (IF rows = {} \/ FetchErrors THEN {NoKey} ELSE {})

ReadMigrationMinValues ==
    /\ pc = "readMin"
    /\ rangeMin' \in Fetched(Rows(Seen), {k \in Rows(Seen) : \A j \in Rows(Seen) : k <= j})
    /\ pc' = "readMax"
    /\ UNCHANGED <<mysqlVars, eventVars, txVars, ghost, tries, rangeMax,
                   iterVars, rowCopyComplete>>

ReadMigrationMaxValues ==
    /\ pc = "readMax"
    /\ rangeMax' \in Fetched(Rows(Seen), {k \in Rows(Seen) : \A j \in Rows(Seen) : j <= k})
    /\ pc' = "idle"
    /\ UNCHANGED <<mysqlVars, eventVars, txVars, ghost, tries, rangeMin,
                   iterVars, rowCopyComplete>>

(* A range query that returns an error ends the migration: Migrate returns.*)
ReadMigrationRangeFails ==
    /\ pc \in {"readMin", "readMax"}
    /\ pc' = "aborted"
    /\ UNCHANGED <<mysqlVars, eventVars, txVars, ghost, tries, rangeVars,
                   iterVars, rowCopyComplete>>

(* iterateChunks finds no minimum: there is nothing to copy.               *)
iterateNoRows ==
    /\ pc \in Running
    /\ rangeMin = NoKey
    /\ ~rowCopyComplete
    /\ rowCopyComplete' = TRUE
    /\ UNCHANGED <<mysqlVars, eventVars, txVars, ghost, pc, tries, rangeVars,
                   iterVars>>

-----------------------------------------------------------------------------
(* executeWriteFuncs: the events, which have precedence.                   *)

(* Mutant: one attempt too many.                                           *)
RetryOnceMore(again) ==
    IF tries < MaxRetries
    THEN tries' = tries + 1 /\ pc' = again
    ELSE tries' = tries /\ pc' = "aborted"

(* retryOperation: the attempt failed; try again, or give up for good,     *)
(* which reaches PanicAbort and ends the process.                          *)
Retry(again) ==
    IF tries + 1 < MaxRetries
    THEN tries' = tries + 1 /\ pc' = again
    ELSE tries' = tries /\ pc' = "aborted"

EmptyTable == [k \in Key |-> None]

(* Mutant: the event that did not fit the batch is dropped.                *)
onApplyEventStructDropsOne ==
    /\ pc = "idle" /\ queue # <<>>
    /\ \E n \in 1..DMLBatchSize :
        /\ n = Len(queue) \/ (n = DMLBatchSize /\ n <= Len(queue))
        /\ batch' = SubSeq(queue, 1, n)
        /\ queue' = SubSeq(queue, n + 2, Len(queue))
    /\ done' = 0 /\ work' = ghost
    /\ pc' = "apply" /\ tries' = 0
    /\ UNCHANGED <<mysqlVars, read, ghost, rangeVars, iterVars, rowCopyComplete>>

(* onApplyEventStruct: take an event, and as many more as are there and as *)
(* fit a batch, and begin a transaction.                                   *)
onApplyEventStruct ==
    /\ pc = "idle"
    /\ queue # <<>>
    /\ \E n \in 1..DMLBatchSize :
        /\ n = Len(queue) \/ (n = DMLBatchSize /\ n <= Len(queue))
        /\ batch' = SubSeq(queue, 1, n)
        /\ queue' = SubSeq(queue, n + 1, Len(queue))
    /\ done' = 0 /\ work' = ghost
    /\ pc' = "apply" /\ tries' = 0
    /\ UNCHANGED <<mysqlVars, read, ghost, rangeVars, iterVars, rowCopyComplete>>

(* buildDMLEventQuery replaces the DML of an update that changes the key:  *)
(* the event object stays an insert once its statements are built.         *)
Built(e) == IF e.dml = "update" /\ e.where # e.new THEN [e EXCEPT !.dml = "insert"] ELSE e

(* Mutant: an update of the key leaves the row with the old key.           *)
AppliedKeepingOldKey(g, e) ==
    CASE e.dml = "delete" -> [g EXCEPT ![e.where] = None]
      [] e.dml = "update" /\ e.where = e.new /\ g[e.where] = None -> g
      [] OTHER -> [g EXCEPT ![e.new] = e.val]

(* What the statements built for an event do to the ghost table: DELETE,   *)
(* REPLACE, UPDATE of a row that may not be there, DELETE then REPLACE.    *)
Applied(g, e) ==
    CASE e.dml = "delete" -> [g EXCEPT ![e.where] = None]
      [] e.dml = "insert" -> [g EXCEPT ![e.new] = e.val]
      [] e.dml = "update" /\ e.where = e.new ->
            IF g[e.where] = None THEN g ELSE [g EXCEPT ![e.where] = e.val]
      [] OTHER -> [g EXCEPT ![e.where] = None, ![e.new] = e.val]

ExecNextEvent ==
    /\ pc = "apply"
    /\ done < Len(batch)
    /\ work' = Applied(work, batch[done + 1])
    /\ batch' = [batch EXCEPT ![done + 1] = Built(@)]
    /\ done' = done + 1
    /\ UNCHANGED <<mysqlVars, eventVars, ghost, pc, tries, rangeVars, iterVars,
                   rowCopyComplete>>

CommitBatch ==
    /\ pc = "apply"
    /\ done = Len(batch)
    /\ ghost' = work
    /\ batch' = <<>> /\ done' = 0 /\ work' = EmptyTable
    /\ pc' = "idle" /\ tries' = 0
    /\ UNCHANGED <<mysqlVars, eventVars, rangeVars, iterVars, rowCopyComplete>>

(* The transaction fails: at its beginning or at COMMIT, with the objects  *)
(* as they are; at the next event, whose statements have been built; or    *)
(* after COMMIT took effect, with only the answer lost.                    *)
ApplyDMLEventQueriesFails ==
    /\ pc = "apply"
    /\ \/ done \in {0, Len(batch)} /\ UNCHANGED <<batch, ghost>>
       \/ /\ done < Len(batch)
          /\ batch' = [batch EXCEPT ![done + 1] = Built(@)]
          /\ UNCHANGED ghost
       \/ done = Len(batch) /\ ghost' = work /\ UNCHANGED batch
    /\ done' = 0 /\ work' = ghost'
    /\ Retry("apply")
    /\ UNCHANGED <<mysqlVars, eventVars, rangeVars, iterVars, rowCopyComplete>>

-----------------------------------------------------------------------------
(* executeWriteFuncs: a chunk of the row copy, when there is no event.     *)

(* copyRowsFunc begins the next range where the last one ended.  Without a *)
(* maximum the query's arguments dereference nil and the process is gone.  *)
copyRowsFunc ==
    /\ pc = "idle" /\ queue = <<>>
    /\ ~rowCopyComplete /\ rangeMin # NoKey
    /\ iterMin' = IF iterMax = NoKey THEN rangeMin ELSE iterMax
    /\ pc' = IF rangeMax = NoKey THEN "aborted" ELSE "offset"
    /\ tries' = 0
    /\ UNCHANGED <<mysqlVars, eventVars, txVars, ghost, rangeVars, iterMax,
                   firstIteration, rowCopyComplete>>

(* Mutant: the first range does not include its first row either.          *)
PastIterMinStrictly(k) == iterMin < k

(* Keys past the beginning of the range: only the first one includes it.   *)
PastIterMin(k) == iterMin < k \/ (firstIteration /\ k = iterMin)

RemainingRows == {k \in Rows(Seen) : PastIterMin(k) /\ k <= rangeMax}
UpTo(k) == {j \in RemainingRows : j <= k}

RangeEndFound(k) ==
    /\ iterMax' = k
    /\ pc' = "insert" /\ tries' = 0
    /\ UNCHANGED <<iterMin, firstIteration, rowCopyComplete>>

(* First query: the row at offset ChunkSize - 1.                           *)
RangeEndViaOffset ==
    /\ pc = "offset"
    /\ \/ \E k \in RemainingRows :
            Cardinality(UpTo(k)) = ChunkSize /\ RangeEndFound(k)
       \/ /\ Cardinality(RemainingRows) < ChunkSize \/ FetchErrors
          /\ pc' = "temptable"
          /\ UNCHANGED <<tries, iterVars, rowCopyComplete>>
    /\ UNCHANGED <<mysqlVars, eventVars, txVars, ghost, rangeVars>>

(* Second query: the last of the next ChunkSize rows; no row, no further   *)
(* range, and iterateChunks reports the row copy complete.                 *)
RangeEndViaTemptable ==
    /\ pc = "temptable"
    /\ \/ \E k \in RemainingRows :
            /\ \/ Cardinality(UpTo(k)) = ChunkSize
               \/ UpTo(k) = RemainingRows /\ Cardinality(RemainingRows) < ChunkSize
            /\ RangeEndFound(k)
       \/ /\ RemainingRows = {} \/ FetchErrors
          /\ rowCopyComplete' = TRUE
          /\ pc' = "idle" /\ tries' = 0
          /\ UNCHANGED iterVars
    /\ UNCHANGED <<mysqlVars, eventVars, txVars, ghost, rangeVars>>

CalculateNextIterationRangeEndValuesFails ==
    /\ pc \in {"offset", "temptable"}
    /\ Retry("offset")
    /\ UNCHANGED <<mysqlVars, eventVars, txVars, ghost, rangeVars, iterVars,
                   rowCopyComplete>>

(* INSERT IGNORE ... SELECT ... LOCK IN SHARE MODE over the chunk, which   *)
(* waits for writers that hold locks on its rows.  The table is taken to   *)
(* be transactional: for others the query has no locking clause.           *)
ChunkRange == {k \in Key : PastIterMin(k) /\ k <= iterMax}
Copied(g) == [k \in Key |-> IF k \in ChunkRange /\ g[k] = None THEN Seen[k] ELSE g[k]]

(* Mutants: a plain SELECT; the first iteration never ends.                *)
ApplyIterationInsertQueryUnlocked ==
    /\ pc = "insert"
    /\ ghost' = Copied(ghost)
    /\ firstIteration' = FALSE
    /\ pc' = "idle" /\ tries' = 0
    /\ UNCHANGED <<mysqlVars, eventVars, txVars, rangeVars, iterMin, iterMax,
                   rowCopyComplete>>

ApplyIterationInsertQueryUncounted ==
    /\ pc = "insert"
    /\ \A k \in ChunkRange : ~Locked(k)
    /\ ghost' = Copied(ghost)
    /\ pc' = "idle" /\ tries' = 0
    /\ UNCHANGED <<mysqlVars, eventVars, txVars, rangeVars, iterVars,
                   rowCopyComplete>>

ApplyIterationInsertQuery ==
    /\ pc = "insert"
    /\ \A k \in ChunkRange : ~Locked(k)
    /\ ghost' = Copied(ghost)
    /\ firstIteration' = FALSE
    /\ pc' = "idle" /\ tries' = 0
    /\ UNCHANGED <<mysqlVars, eventVars, txVars, rangeVars, iterMin, iterMax,
                   rowCopyComplete>>

(* The transaction fails, or commits and its answer is lost.               *)
ApplyIterationInsertQueryFails ==
    /\ pc = "insert"
    /\ \/ UNCHANGED ghost
       \/ (\A k \in ChunkRange : ~Locked(k)) /\ ghost' = Copied(ghost)
    /\ Retry("insert")
    /\ UNCHANGED <<mysqlVars, eventVars, txVars, rangeVars, iterVars,
                   rowCopyComplete>>

-----------------------------------------------------------------------------
(* What the migrator does when nothing fails.                              *)
Migrator ==
    \/ addDMLEventsListener
    \/ ReadMigrationMinValues \/ ReadMigrationMaxValues \/ iterateNoRows
    \/ onApplyEventStruct \/ ExecNextEvent \/ CommitBatch
    \/ copyRowsFunc \/ RangeEndViaOffset \/ RangeEndViaTemptable
    \/ ApplyIterationInsertQuery

Failures ==
    \/ ReadMigrationRangeFails
    \/ ApplyDMLEventQueriesFails
    \/ CalculateNextIterationRangeEndValuesFails
    \/ ApplyIterationInsertQueryFails

(* Once the process is gone the model stops.                               *)
Next ==
    /\ pc # "aborted"
    /\ Write \/ BecomeVisible \/ Stream \/ Migrator \/ Failures

Spec == Init /\ [][Next]_vars

(* The streamer's goroutine, the executor's and MySQL's commit keep going. *)
(* The executor waits before each event or chunk while it is throttled,    *)
(* which here is one of the reasons why a step may be late: that it is not *)
(* late for ever presumes that throttling ends.                            *)
FairSpec == Spec /\ WF_vars(Stream) /\ WF_vars(Migrator) /\ WF_vars(BecomeVisible)

-----------------------------------------------------------------------------
(* The types of the variables.                                             *)
TypeOK ==
    /\ log \in Seq(Event) /\ hist \in Seq(Table)
    /\ visible \in 0..Len(log) /\ read \in 0..Len(log)
    /\ queue \in Seq(Event) /\ batch \in Seq(Event)
    /\ done \in 0..Len(batch)
    /\ work \in Table /\ ghost \in Table
    /\ pc \in Setup \cup Running \cup {"aborted"}
    /\ tries \in 0..MaxRetries - 1
    /\ rangeMin \in Key \cup {NoKey} /\ rangeMax \in Key \cup {NoKey}
    /\ iterMin \in Key \cup {NoKey} /\ iterMax \in Key \cup {NoKey}
    /\ firstIteration \in BOOLEAN /\ rowCopyComplete \in BOOLEAN

(* The events gh-ost has yet to apply that concern a row.                  *)
Pending(k) == {i \in Handled + 1 .. Len(log) : Touches(log[i], k)}

(* When the row copy is complete and no event is outstanding, the ghost    *)
(* table is the original table: what the checksum that follows every       *)
(* migration on a replica expects.                                         *)
Converged ==
    (pc = "idle" /\ rowCopyComplete /\ Handled = Len(log)) => ghost = Original

(* rowCopyCompleteFlag = 1 means that all necessary rows have been copied: *)
(* a row the ghost table lacks, or has wrong, has an event on its way.     *)
AllNecessaryRowsCopied ==
    (pc # "aborted" /\ rowCopyComplete) =>
        \A k \in Key : ghost[k] # Original[k] => Pending(k) # {}

(* Copy and events never bring back the past: a row of the ghost table is  *)
(* the row the original table has now or had after the events applied.     *)
NoStaleRows ==
    pc # "aborted" =>
        \A k \in Rows(ghost) : \E m \in Handled..Len(log) : ghost[k] = hist[m + 1][k]

(* Between binary log and transaction no event is lost, doubled, swapped   *)
(* or rewritten, whatever is batched, retried or still in the queue.       *)
EventsIntact ==
    pc # "aborted" =>
        /\ \A i \in done + 1 .. Len(batch) : batch[i] = log[Handled + i]
        /\ \A i \in DOMAIN queue : queue[i] = log[Handled + Len(batch) + i]

(* Once the application pauses, the ghost table catches up and stays in    *)
(* sync, unless the migration gives up or is throttled for ever            *)
(* (executeWriteFuncs, iterateChunks).                                     *)
CatchesUp == <>[](pc = "aborted" \/ (rowCopyComplete /\ ghost = Original))

-----------------------------------------------------------------------------
(* The inductive invariant behind Converged and AllNecessaryRowsCopied.    *)

HistInv ==
    /\ Len(hist) = Len(log) + 1
    /\ \A i \in 1..Len(log) :
        Legal(hist[i], log[i]) /\ hist[i + 1] = Written(hist[i], log[i])

(* A row that no event in between concerns is what it was.                 *)
HistStable ==
    \A k \in Key : \A i, j \in 0..Len(log) :
        (i <= j /\ \A m \in i + 1 .. j : ~Touches(log[m], k)) =>
            hist[i + 1][k] = hist[j + 1][k]

(* queue and batch are the log between Handled and read, except that a     *)
(* built update of the key is no longer what was logged.                   *)
PipelineInv ==
    /\ Handled \in 0..read
    /\ \A i \in DOMAIN queue : queue[i] = log[Handled + Len(batch) + i]
    /\ \A i \in DOMAIN batch : (MovesKeys /\ i <= done) \/ batch[i] = log[Handled + i]

ControlInv ==
    /\ visible = Len(log)
    /\ pc \in Setup => ghost = EmptyTable /\ ~rowCopyComplete /\ iterMax = NoKey
    /\ pc = "listen" => queue = <<>>
    /\ pc # "apply" => batch = <<>> /\ done = 0
    /\ pc # "insert" => (firstIteration <=> iterMax = NoKey)
    /\ pc \in Copying => (firstIteration => iterMin = rangeMin)
    /\ pc = "insert" => iterMax # NoKey

(* The keys the row copy is through with: outside the range when it was    *)
(* read, or no further than the chunks copied.                             *)
Covered(k) ==
    \/ rowCopyComplete
    \/ pc \notin {"listen", "readMin"} /\ (rangeMin = NoKey \/ k < rangeMin)
    \/ pc \notin Setup /\ rangeMax < k
    \/ pc \notin Copying /\ k <= iterMax
    \/ pc \in Copying /\ ~firstIteration /\ k <= iterMin

Ahead(g, n, k) == \E m \in n..Len(log) : g[k] = hist[m + 1][k]

(* Table g, that has the effects of the first n events and maybe of later  *)
(* ones: its rows, and the gaps among covered keys, are at n or ahead.     *)
InStep(g, n) == \A k \in Key : (g[k] # None \/ Covered(k)) => Ahead(g, n, k)

SyncInv ==
    /\ InStep(ghost, Handled)
    /\ pc = "apply" => InStep(work, Handled + done)

IInv ==
    /\ TypeOK /\ HistInv /\ HistStable
    /\ pc # "aborted" => PipelineInv /\ ControlInv /\ SyncInv
=============================================================================

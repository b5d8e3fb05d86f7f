--------------------------- MODULE GhostSyncProofs ---------------------------
(***************************************************************************)
(* Proofs about GhostSync for every size of the table, of the chunks, of   *)
(* the batches, of the queue and of the log.                               *)
(***************************************************************************)
EXTENDS GhostSync, TLAPS

(* A transaction with an update of the key is not attempted twice.         *)
OneAttempt == ~MovesKeys \/ MaxRetries = 1

(* The circumstances under which the ghost table is kept in sync: also,    *)
(* MySQL shows a row before it ships its event, and no fetch is cut short  *)
(* unnoticed.                                                              *)
Sound == ~CommitGap /\ ~FetchErrors /\ OneAttempt

(* What is left of ControlInv, and of SyncInv, without the other two: what *)
(* the events need, and that rows, though not gaps, are in step.           *)
OrderInv ==
    /\ pc = "listen" => ghost = EmptyTable /\ queue = <<>>
    /\ pc # "apply" => batch = <<>> /\ done = 0

RowsInStep(g, n) == \A k \in Rows(g) : Ahead(g, n, k)

RowsInv ==
    /\ RowsInStep(ghost, Handled)
    /\ pc = "apply" => RowsInStep(work, Handled + done)

RowsIInv ==
    /\ TypeOK /\ HistInv /\ HistStable
    /\ pc # "aborted" => PipelineInv /\ OrderInv /\ RowsInv

-----------------------------------------------------------------------------
(* Types.                                                                  *)

LEMMA TableTypes ==
    ASSUME NEW t \in Table, NEW e \in Event
    PROVE  Written(t, e) \in Table /\ Applied(t, e) \in Table /\ Built(e) \in Event
BY DEF Table, Event, Row, Written, Applied, Built

LEMMA SeenType ==
    ASSUME TypeOK, Len(hist) = Len(log) + 1
    PROVE  Seen \in Table /\ Original \in Table
BY DEF TypeOK, Seen, Original

LEMMA CopiedType ==
    ASSUME TypeOK, Len(hist) = Len(log) + 1, NEW g \in Table
    PROVE  Copied(g) \in Table
BY SeenType DEF Copied, Table, Row

LEMMA InitType == Init => TypeOK
<1> SUFFICES ASSUME Init PROVE TypeOK
  OBVIOUS
<1>1. ghost \in Table /\ work \in Table
  BY DEF Init, Table, Row
<1>2. hist \in Seq(Table)
  <2>1. PICK t \in Table : hist = <<t>>
    BY DEF Init
  <2>2. QED
    BY <2>1
<1>3. pc \in Setup \cup Running \cup {"aborted"} /\ tries \in 0..MaxRetries - 1
  BY SizesAssumption DEF Init, Setup
<1>4. /\ visible \in 0..Len(log) /\ read \in 0..Len(log) /\ done \in 0..Len(batch)
      /\ log \in Seq(Event) /\ queue \in Seq(Event) /\ batch \in Seq(Event)
  BY DEF Init
<1>5. QED
  BY <1>1, <1>2, <1>3, <1>4 DEF Init, TypeOK, NoKey

-----------------------------------------------------------------------------
(* Facts about the history.                                                *)

(* A write moves InStep to the longer history.                             *)
LEMMA WriteKeepsAhead ==
    ASSUME TypeOK, HistInv, Write, NEW g \in Table, NEW n \in 0..Len(log), NEW k \in Key,
           Ahead(g, n, k)
    PROVE  \E m \in n..Len(log') : g[k] = hist'[m + 1][k]
<1>1. PICK m \in n..Len(log) : g[k] = hist[m + 1][k]
  BY DEF Ahead
<1>2. PICK e \in Event : log' = Append(log, e) /\ hist' = Append(hist, Written(Original, e))
  BY DEF Write
<1>3. Written(Original, e) \in Table
  BY SeenType, TableTypes DEF HistInv
<1>4. Len(log') = Len(log) + 1 /\ hist'[m + 1] = hist[m + 1]
  BY <1>2, <1>3 DEF TypeOK, HistInv
<1>5. m \in n..Len(log')
  BY <1>4 DEF TypeOK
<1>6. QED
  BY <1>1, <1>4, <1>5

LEMMA WriteKeepsHist ==
    ASSUME TypeOK, HistInv, HistStable, Write
    PROVE  HistInv' /\ HistStable'
<1>1. PICK e \in Event : /\ Legal(Original, e)
                         /\ log' = Append(log, e)
                         /\ hist' = Append(hist, Written(Original, e))
  BY DEF Write
<1>2. Written(Original, e) \in Table
  BY SeenType, TableTypes DEF HistInv
<1> DEFINE L == Len(log)
<1>3. L \in Nat /\ Len(log') = L + 1 /\ Len(hist') = L + 2
  BY <1>1, <1>2 DEF TypeOK, HistInv
<1>4. \A i \in 1..L : log'[i] = log[i]
  BY <1>1 DEF TypeOK
<1>5. \A i \in 1..L + 1 : hist'[i] = hist[i]
  BY <1>1, <1>2 DEF TypeOK, HistInv
<1>6. log'[L + 1] = e /\ hist'[L + 2] = Written(hist[L + 1], e) /\ Legal(hist[L + 1], e)
  BY <1>1, <1>2 DEF TypeOK, HistInv, Original
<1>7. HistInv'
  <2>1. ASSUME NEW i \in 1..Len(log')
        PROVE  Legal(hist[i], log[i])' /\ hist'[i + 1] = Written(hist[i], log[i])'
    <3>1. CASE i = L + 1
      BY <1>3, <1>5, <1>6, <3>1 DEF Legal, Written
    <3>2. CASE i \in 1..L
      BY <1>3, <1>4, <1>5, <3>2 DEF HistInv, Legal, Written
    <3>3. QED
      BY <1>3, <3>1, <3>2
  <2>2. QED
    BY <1>3, <2>1 DEF HistInv
<1>8. HistStable'
  <2> SUFFICES ASSUME NEW k \in Key, NEW i \in 0..L + 1, NEW j \in 0..L + 1, i <= j,
                      \A m \in i + 1 .. j : ~Touches(log'[m], k)
               PROVE  hist'[i + 1][k] = hist'[j + 1][k]
    BY <1>3 DEF HistStable, Touches
  <2>1. CASE j <= L
    <3>1. \A m \in i + 1 .. j : ~Touches(log[m], k)
      BY <1>3, <1>4, <2>1
    <3>2. hist[i + 1][k] = hist[j + 1][k]
      <4>1. i \in 0..Len(log) /\ j \in 0..Len(log)
        BY <1>3, <2>1
      <4>2. QED
        BY <3>1, <4>1 DEF HistStable
    <3>3. QED
      BY <1>3, <1>5, <2>1, <3>2
  <2>2. CASE j = L + 1 /\ i <= L
    <3>1. \A m \in i + 1 .. L : ~Touches(log[m], k)
      BY <1>3, <1>4, <2>2
    <3>2. hist[i + 1][k] = hist[L + 1][k]
      BY <1>3, <2>2, <3>1 DEF HistStable
    <3>3. ~Touches(e, k)
      BY <1>3, <1>6, <2>2
    <3>4. hist'[L + 2][k] = hist[L + 1][k]
      <4>1. hist[L + 1] \in Table
        BY SeenType DEF HistInv, Original
      <4>2. QED
        BY <1>6, <3>3, <4>1 DEF Written, Touches, Table
    <3>5. QED
      BY <1>3, <1>5, <2>2, <3>2, <3>4
  <2>3. CASE j = L + 1 /\ i = L + 1
    BY <2>3
  <2>4. QED
    BY <1>3, <2>1, <2>2, <2>3
<1>9. QED
  BY <1>7, <1>8

(* Executing the next event keeps a table in step.                         *)
LEMMA AppliedInStep ==
    ASSUME TypeOK, HistInv, NEW g \in Table, NEW n \in 0..Len(log) - 1, InStep(g, n)
    PROVE  InStep(Applied(g, log[n + 1]), n + 1)
<1> DEFINE e == log[n + 1]
           h == Applied(g, e)
<1>1. n \in Nat /\ n + 1 \in 1..Len(log) /\ e \in Event
  BY DEF TypeOK
<1>2. Legal(hist[n + 1], e) /\ hist[n + 2] = Written(hist[n + 1], e)
  BY <1>1 DEF HistInv
<1>3. hist[n + 1] \in Table
  BY <1>1 DEF HistInv, TypeOK
<1> SUFFICES ASSUME NEW k \in Key, h[k] # None \/ Covered(k)
             PROVE  Ahead(h, n + 1, k)
  BY DEF InStep
<1>4. CASE ~Touches(e, k)
  <2>1. h[k] = g[k] /\ hist[n + 2][k] = hist[n + 1][k]
    BY <1>1, <1>2, <1>3, <1>4 DEF Touches, Applied, Written, Table, Event
  <2>2. PICK m \in n..Len(log) : g[k] = hist[m + 1][k]
    BY <2>1 DEF InStep, Ahead
  <2>3. CASE m = n
    BY <1>1, <2>1, <2>2, <2>3 DEF Ahead
  <2>4. CASE m # n
    BY <1>1, <2>1, <2>2, <2>4 DEF Ahead
  <2>5. QED
    BY <2>3, <2>4
<1>5. CASE Touches(e, k) /\ h[k] = hist[n + 2][k]
  BY <1>1, <1>5 DEF Ahead
<1>6. CASE Touches(e, k) /\ h[k] # hist[n + 2][k]
  <2>1. e.dml = "update" /\ e.where = e.new /\ k = e.new /\ g[k] = None /\ h[k] = None
    BY <1>1, <1>2, <1>3, <1>6 DEF Touches, Applied, Written, Legal, Table, Event
  <2>2. PICK m \in n..Len(log) : g[k] = hist[m + 1][k]
    BY <2>1 DEF InStep, Ahead
  <2>3. m # n
    BY <1>2, <2>1, <2>2 DEF Legal
  <2>4. QED
    BY <1>1, <2>1, <2>2, <2>3 DEF Ahead
<1>7. QED
  BY <1>4, <1>5, <1>6

(* Copying a chunk keeps the ghost table in step.                          *)
LEMMA CopiedInStep ==
    ASSUME TypeOK, HistInv, visible = Len(log), NEW n \in 0..Len(log), NEW g \in Table,
           InStep(g, n)
    PROVE  /\ InStep(Copied(g), n)
           /\ \A k \in ChunkRange : Ahead(Copied(g), n, k)
<1>1. Seen \in Table /\ Seen = hist[Len(log) + 1]
  BY SeenType DEF Seen, HistInv
<1>2. ASSUME NEW k \in Key, g[k] # None \/ Covered(k) \/ k \in ChunkRange
      PROVE  Ahead(Copied(g), n, k)
  <2>1. CASE k \in ChunkRange /\ g[k] = None
    BY <1>1, <2>1 DEF Copied, Ahead
  <2>2. CASE ~(k \in ChunkRange /\ g[k] = None)
    <3>1. Copied(g)[k] = g[k] /\ Ahead(g, n, k)
      BY <1>2, <2>2 DEF Copied, InStep
    <3>2. QED
      BY <3>1 DEF Ahead
  <2>3. QED
    BY <2>1, <2>2
<1>3. ASSUME NEW k \in Key, Copied(g)[k] # None \/ Covered(k)
      PROVE  g[k] # None \/ Covered(k) \/ k \in ChunkRange
  BY <1>3 DEF Copied
<1>4. QED
  BY <1>2, <1>3 DEF InStep, ChunkRange

-----------------------------------------------------------------------------
(* Every step keeps the types and the history.                             *)

LEMMA RetryType ==
    ASSUME TypeOK, NEW again \in Running, Retry(again)
    PROVE  tries' \in 0..MaxRetries - 1 /\ pc' \in Running \cup {"aborted"}
BY SizesAssumption DEF TypeOK, Retry

LEMMA StepType ==
    ASSUME TypeOK, HistInv, [Next]_vars
    PROVE  TypeOK'
<1> USE DEF mysqlVars, eventVars, txVars, rangeVars, iterVars
<1>1. CASE Write
  <2>1. PICK e \in Event : /\ log' = Append(log, e)
                           /\ hist' = Append(hist, Written(Original, e))
    BY <1>1 DEF Write
  <2>2. Written(Original, e) \in Table
    BY SeenType, TableTypes DEF HistInv
  <2>3. log' \in Seq(Event) /\ hist' \in Seq(Table) /\ Len(log') = Len(log) + 1
    BY <2>1, <2>2 DEF TypeOK
  <2>4. visible' \in 0..Len(log') /\ read' \in 0..Len(log')
    BY <1>1, <2>3 DEF Write, TypeOK
  <2>5. QED
    BY <1>1, <2>3, <2>4 DEF Write, TypeOK
<1>2. CASE BecomeVisible
  BY <1>2 DEF BecomeVisible, TypeOK
<1>3. CASE Stream
  <2>1. log[read + 1] \in Event /\ read' \in 0..Len(log)
    BY <1>3 DEF Stream, TypeOK
  <2>2. queue' \in Seq(Event)
    <3>1. queue \in Seq(Event)
      BY DEF TypeOK
    <3>2. CASE pc = "listen"
      BY <1>3, <3>1, <3>2 DEF Stream
    <3>3. CASE queue' = Append(queue, log[read + 1])
      BY <2>1, <3>1, <3>3
    <3>4. QED
      BY <1>3, <3>2, <3>3 DEF Stream
  <2>3. QED
    BY <1>3, <2>1, <2>2 DEF Stream, TypeOK
<1>4. CASE addDMLEventsListener
  BY <1>4 DEF addDMLEventsListener, TypeOK, Setup
<1>5. CASE ReadMigrationMinValues
  BY <1>5 DEF ReadMigrationMinValues, TypeOK, Setup, Fetched, Rows
<1>6. CASE ReadMigrationMaxValues
  BY <1>6 DEF ReadMigrationMaxValues, TypeOK, Running, Fetched, Rows
<1>7. CASE iterateNoRows
  BY <1>7 DEF iterateNoRows, TypeOK
<1>8. CASE onApplyEventStruct
  <2>1. PICK n \in 1..DMLBatchSize : /\ n <= Len(queue)
                                     /\ batch' = SubSeq(queue, 1, n)
                                     /\ queue' = SubSeq(queue, n + 1, Len(queue))
    BY <1>8 DEF onApplyEventStruct, TypeOK
  <2>2. batch' \in Seq(Event) /\ queue' \in Seq(Event) /\ Len(batch') \in Nat
    BY <2>1 DEF TypeOK
  <2>3. done' \in 0..Len(batch') /\ work' \in Table
    BY <1>8, <2>2 DEF onApplyEventStruct, TypeOK
  <2>4. tries' \in 0..MaxRetries - 1 /\ pc' \in Running
    BY <1>8, SizesAssumption DEF onApplyEventStruct, Running
  <2>5. QED
    BY <1>8, <2>2, <2>3, <2>4 DEF onApplyEventStruct, TypeOK
<1>9. CASE ExecNextEvent
  <2>1. done + 1 \in 1..Len(batch) /\ batch[done + 1] \in Event
    BY <1>9 DEF ExecNextEvent, TypeOK
  <2>2. work' \in Table /\ Built(batch[done + 1]) \in Event
    BY <1>9, <2>1, TableTypes DEF ExecNextEvent, TypeOK
  <2>3. batch' \in Seq(Event) /\ Len(batch') = Len(batch)
    BY <1>9, <2>1, <2>2 DEF ExecNextEvent, TypeOK
  <2>4. done' \in 0..Len(batch')
    BY <1>9, <2>1, <2>3 DEF ExecNextEvent, TypeOK
  <2>5. QED
    BY <1>9, <2>2, <2>3, <2>4 DEF ExecNextEvent, TypeOK
<1>10. CASE CommitBatch
  <2>1. EmptyTable \in Table
    BY DEF EmptyTable, Table, Row
  <2>2. tries' \in 0..MaxRetries - 1 /\ pc' \in Running /\ done' \in 0..Len(batch')
    BY <1>10, SizesAssumption DEF CommitBatch, Running
  <2>3. QED
    BY <1>10, <2>1, <2>2 DEF CommitBatch, TypeOK
<1>11. CASE copyRowsFunc
  <2>1. tries' \in 0..MaxRetries - 1 /\ pc' \in Running \cup {"aborted"}
    BY <1>11, SizesAssumption DEF copyRowsFunc, Running, Copying
  <2>2. QED
    BY <1>11, <2>1 DEF copyRowsFunc, TypeOK
<1>12. CASE RangeEndViaOffset \/ RangeEndViaTemptable
  <2>1. iterMax' \in Key \cup {NoKey} /\ rowCopyComplete' \in BOOLEAN
    BY <1>12 DEF RangeEndViaOffset, RangeEndViaTemptable, RangeEndFound, RemainingRows,
                 Rows, TypeOK
  <2>2. tries' \in 0..MaxRetries - 1 /\ pc' \in Running
    BY <1>12, SizesAssumption DEF RangeEndViaOffset, RangeEndViaTemptable, RangeEndFound,
                                  TypeOK, Running, Copying
  <2>3. QED
    BY <1>12, <2>1, <2>2 DEF RangeEndViaOffset, RangeEndViaTemptable, RangeEndFound, TypeOK
<1>13. CASE ApplyIterationInsertQuery
  <2>1. ghost' \in Table
    BY <1>13, CopiedType DEF ApplyIterationInsertQuery, TypeOK, HistInv
  <2>2. tries' \in 0..MaxRetries - 1 /\ pc' \in Running
    BY <1>13, SizesAssumption DEF ApplyIterationInsertQuery, Running
  <2>3. QED
    BY <1>13, <2>1, <2>2 DEF ApplyIterationInsertQuery, TypeOK
<1>14. CASE ReadMigrationRangeFails
  BY <1>14 DEF ReadMigrationRangeFails, TypeOK
<1>15. CASE ApplyDMLEventQueriesFails
  <2>1. batch' \in Seq(Event) /\ Len(batch') \in Nat
    <3>1. CASE UNCHANGED batch
      BY <3>1 DEF TypeOK
    <3>2. CASE done < Len(batch) /\ batch' = [batch EXCEPT ![done + 1] = Built(@)]
      <4>1. done + 1 \in 1..Len(batch) /\ batch[done + 1] \in Event
        BY <3>2 DEF TypeOK
      <4>2. Built(batch[done + 1]) \in Event
        BY <4>1, TableTypes DEF TypeOK
      <4>3. QED
        BY <3>2, <4>1, <4>2 DEF TypeOK
    <3>3. QED
      BY <1>15, <3>1, <3>2 DEF ApplyDMLEventQueriesFails
  <2>2. ghost' \in Table /\ work' \in Table /\ done' \in 0..Len(batch')
    BY <1>15, <2>1 DEF ApplyDMLEventQueriesFails, TypeOK
  <2>3. tries' \in 0..MaxRetries - 1 /\ pc' \in Running \cup {"aborted"}
    BY <1>15, RetryType DEF ApplyDMLEventQueriesFails, Running
  <2>4. QED
    BY <1>15, <2>1, <2>2, <2>3 DEF ApplyDMLEventQueriesFails, TypeOK
<1>16. CASE CalculateNextIterationRangeEndValuesFails
  <2>1. tries' \in 0..MaxRetries - 1 /\ pc' \in Running \cup {"aborted"}
    BY <1>16, RetryType DEF CalculateNextIterationRangeEndValuesFails, Running, Copying
  <2>2. QED
    BY <1>16, <2>1 DEF CalculateNextIterationRangeEndValuesFails, TypeOK
<1>17. CASE ApplyIterationInsertQueryFails
  <2>1. tries' \in 0..MaxRetries - 1 /\ pc' \in Running \cup {"aborted"}
    BY <1>17, RetryType DEF ApplyIterationInsertQueryFails, Running, Copying
  <2>2. ghost' \in Table
    BY <1>17, CopiedType DEF ApplyIterationInsertQueryFails, TypeOK, HistInv
  <2>3. QED
    BY <1>17, <2>1, <2>2 DEF ApplyIterationInsertQueryFails, TypeOK
<1>18. CASE UNCHANGED vars
  BY <1>18 DEF vars, TypeOK
<1>19. QED
  BY <1>1, <1>2, <1>3, <1>4, <1>5, <1>6, <1>7, <1>8, <1>9, <1>10, <1>11, <1>12, <1>13,
     <1>14, <1>15, <1>16, <1>17, <1>18 DEF Next, Migrator, Failures

LEMMA StepHist ==
    ASSUME TypeOK, HistInv, HistStable, [Next]_vars
    PROVE  HistInv' /\ HistStable'
<1>1. CASE Write
  BY <1>1, WriteKeepsHist
<1>2. CASE UNCHANGED <<log, hist>>
  <2>1. HistInv'
    BY <1>2 DEF HistInv, Legal, Written
  <2>2. log' = log /\ hist' = hist
    BY <1>2
  <2>3. HistStable'
    BY <2>2 DEF HistStable, Touches
  <2>4. QED
    BY <2>1, <2>3
<1>3. CASE BecomeVisible \/ Stream \/ UNCHANGED vars
  BY <1>2, <1>3 DEF BecomeVisible, Stream, vars, mysqlVars
<1>4. CASE Migrator
  BY <1>2, <1>4 DEF Migrator, mysqlVars, addDMLEventsListener, ReadMigrationMinValues,
     ReadMigrationMaxValues, iterateNoRows, onApplyEventStruct, ExecNextEvent, CommitBatch,
     copyRowsFunc, RangeEndViaOffset, RangeEndViaTemptable, ApplyIterationInsertQuery
<1>5. CASE Failures
  BY <1>2, <1>5 DEF Failures, mysqlVars, ReadMigrationRangeFails, ApplyDMLEventQueriesFails,
     CalculateNextIterationRangeEndValuesFails, ApplyIterationInsertQueryFails
<1>6. QED
  BY <1>1, <1>3, <1>4, <1>5 DEF Next

LEMMA InitHist == Init => HistInv /\ HistStable
<1> SUFFICES ASSUME Init PROVE HistInv /\ HistStable
  OBVIOUS
<1>1. Len(log) = 0 /\ Len(hist) = 1
  BY DEF Init
<1>2. QED
  BY <1>1 DEF HistInv, HistStable

(* The types are right, whatever fails.                                    *)
THEOREM TypeCorrect == Spec => [](TypeOK /\ HistInv /\ HistStable)
<1>1. Init => TypeOK /\ HistInv /\ HistStable
  BY InitType, InitHist
<1>2. TypeOK /\ HistInv /\ HistStable /\ [Next]_vars => (TypeOK /\ HistInv /\ HistStable)'
  BY StepType, StepHist
<1>3. QED
  BY <1>1, <1>2, PTL DEF Spec

-----------------------------------------------------------------------------
(* The pipeline and the control state.                                     *)

LEMMA BuiltAsLogged ==
    ASSUME TypeOK, HistInv, ~MovesKeys, NEW n \in 1..Len(log)
    PROVE  Built(log[n]) = log[n]
BY DEF TypeOK, HistInv, Legal, Built

(* A second attempt of a transaction only happens without updates of keys. *)
LEMMA RetryMeansNoMoves ==
    ASSUME OneAttempt, TypeOK, NEW again, Retry(again), pc' # "aborted"
    PROVE  ~MovesKeys /\ pc' = again
BY SizesAssumption DEF OneAttempt, TypeOK, Retry

LEMMA StepControl ==
    ASSUME Sound, IInv, pc # "aborted", Next, pc' # "aborted"
    PROVE  ControlInv'
<1> USE DEF mysqlVars, eventVars, txVars, rangeVars, iterVars, Setup, Copying, Running
<1>0. ControlInv /\ TypeOK /\ pc # "aborted"
  BY DEF IInv
<1>1. CASE Write
  BY <1>0, <1>1 DEF Write, Sound, ControlInv, EmptyTable
<1>2. CASE BecomeVisible
  BY <1>0, <1>2 DEF BecomeVisible, ControlInv, TypeOK
<1>3. CASE Stream
  BY <1>0, <1>3 DEF Stream, ControlInv, EmptyTable
<1>4. CASE addDMLEventsListener
  BY <1>0, <1>4 DEF addDMLEventsListener, ControlInv, EmptyTable
<1>5. CASE ReadMigrationMinValues \/ ReadMigrationMaxValues
  BY <1>0, <1>5 DEF ReadMigrationMinValues, ReadMigrationMaxValues, ControlInv, EmptyTable
<1>6. CASE iterateNoRows
  BY <1>0, <1>6 DEF iterateNoRows, ControlInv, EmptyTable
<1>7. CASE onApplyEventStruct
  BY <1>0, <1>7 DEF onApplyEventStruct, ControlInv
<1>8. CASE ExecNextEvent \/ CommitBatch
  BY <1>0, <1>8 DEF ExecNextEvent, CommitBatch, ControlInv
<1>9. CASE copyRowsFunc
  BY <1>0, <1>9 DEF copyRowsFunc, ControlInv
<1>10. CASE RangeEndViaOffset \/ RangeEndViaTemptable
  <2>1. /\ pc \in Copying /\ pc # "insert"
        /\ UNCHANGED <<log, visible, ghost, iterMin, firstIteration, rangeMin, batch, done>>
    BY <1>10 DEF RangeEndViaOffset, RangeEndViaTemptable, RangeEndFound
  <2>2. CASE \E k \in RemainingRows : RangeEndFound(k)
    <3>1. pc' = "insert" /\ iterMax' # NoKey
      BY <2>2, SizesAssumption DEF RangeEndFound, RemainingRows, Rows, Key, NoKey
    <3>2. QED
      BY <1>0, <2>1, <3>1 DEF ControlInv
  <2>3. CASE pc' \in {"temptable", "idle"} /\ iterMax' = iterMax
    BY <1>0, <2>1, <2>3 DEF ControlInv
  <2>4. QED
    BY <1>10, <2>2, <2>3 DEF RangeEndViaOffset, RangeEndViaTemptable
<1>11. CASE ApplyIterationInsertQuery
  BY <1>0, <1>11 DEF ApplyIterationInsertQuery, ControlInv
<1>12. CASE ReadMigrationRangeFails
  BY <1>12 DEF ReadMigrationRangeFails
<1>13. CASE ApplyDMLEventQueriesFails
  <2>1. pc = "apply" /\ pc' = "apply" /\ UNCHANGED <<log, visible, iterVars, rangeVars>>
    BY <1>0, <1>13, RetryMeansNoMoves DEF Sound, ApplyDMLEventQueriesFails
  <2>2. QED
    BY <1>0, <2>1 DEF ControlInv
<1>14. CASE CalculateNextIterationRangeEndValuesFails \/ ApplyIterationInsertQueryFails
  BY <1>0, <1>14 DEF CalculateNextIterationRangeEndValuesFails,
                     ApplyIterationInsertQueryFails, Retry, ControlInv
<1>15. QED
  BY <1>1, <1>2, <1>3, <1>4, <1>5, <1>6, <1>7, <1>8, <1>9, <1>10, <1>11, <1>12, <1>13,
     <1>14 DEF Next, Migrator, Failures

LEMMA StepPipeline ==
    ASSUME OneAttempt, TypeOK, HistInv, OrderInv, PipelineInv, pc # "aborted", Next,
           pc' # "aborted"
    PROVE  PipelineInv'
<1> USE DEF mysqlVars, eventVars, txVars, rangeVars, iterVars
<1>0. /\ OrderInv /\ TypeOK /\ HistInv /\ PipelineInv
      /\ Len(queue) \in Nat /\ Len(batch) \in Nat /\ Len(log) \in Nat /\ read \in Nat
  BY DEF TypeOK
<1>1. CASE Write
  <2>1. \A i \in 1..Len(log) : log'[i] = log[i]
    BY <1>0, <1>1 DEF Write, TypeOK
  <2>2. Handled' = Handled /\ queue' = queue /\ batch' = batch /\ done' = done
        /\ read' = read
    BY <1>1 DEF Write, Handled
  <2>3. \A i \in DOMAIN queue : queue[i] = log'[Handled + Len(batch) + i]
    <3>1. \A i \in DOMAIN queue : Handled + Len(batch) + i \in 1..Len(log)
      BY <1>0 DEF PipelineInv, Handled, TypeOK
    <3>2. QED
      BY <1>0, <2>1, <3>1 DEF PipelineInv
  <2>4. \A i \in DOMAIN batch : (MovesKeys /\ i <= done) \/ batch[i] = log'[Handled + i]
    <3>1. \A i \in DOMAIN batch : Handled + i \in 1..Len(log)
      BY <1>0 DEF PipelineInv, Handled, TypeOK
    <3>2. QED
      BY <1>0, <2>1, <3>1 DEF PipelineInv
  <2>5. QED
    BY <1>0, <2>2, <2>3, <2>4 DEF PipelineInv
<1>2. CASE Stream /\ pc = "listen"
  BY <1>0, <1>2 DEF Stream, OrderInv, PipelineInv, Handled
<1>3. CASE Stream /\ pc # "listen"
  <2>1. queue' = Append(queue, log[read + 1]) /\ read' = read + 1
        /\ UNCHANGED <<log, batch, done>>
    BY <1>3 DEF Stream
  <2>2. /\ Len(queue') = Len(queue) + 1 /\ queue'[Len(queue) + 1] = log[read + 1]
        /\ \A i \in DOMAIN queue : queue'[i] = queue[i]
    BY <1>0, <2>1 DEF TypeOK
  <2>3. Handled' = Handled /\ Handled + Len(batch) + Len(queue) = read
    BY <1>0, <2>1, <2>2 DEF Handled
  <2>4. ASSUME NEW i \in DOMAIN queue'
        PROVE  queue'[i] = log'[Handled' + Len(batch') + i]
    <3>1. i \in 1..Len(queue) + 1
      BY <2>1, <2>2, <1>0, <2>4 DEF TypeOK
    <3>2. CASE i = Len(queue) + 1
      <4>1. Handled + Len(batch) + (Len(queue) + 1) = read + 1
        BY <1>0, <2>3 DEF PipelineInv
      <4>2. log' = log /\ batch' = batch
        BY <2>1
      <4>3. QED
        BY <2>2, <2>3, <3>2, <4>1, <4>2
    <3>3. CASE i \in DOMAIN queue
      <4>1. queue[i] = log[Handled + Len(batch) + i]
        BY <1>0, <3>3 DEF PipelineInv
      <4>2. QED
        BY <2>1, <2>2, <2>3, <3>3, <4>1
    <3>4. DOMAIN queue = 1..Len(queue)
      BY <1>0 DEF TypeOK
    <3>5. QED
      BY <1>0, <3>1, <3>2, <3>3, <3>4
  <2>5. QED
    BY <1>0, <2>1, <2>3, <2>4 DEF PipelineInv
<1>4. CASE onApplyEventStruct
  <2>1. PICK n \in 1..DMLBatchSize : /\ n <= Len(queue)
                                     /\ batch' = SubSeq(queue, 1, n)
                                     /\ queue' = SubSeq(queue, n + 1, Len(queue))
    BY <1>4, <1>0 DEF onApplyEventStruct
  <2>2. batch = <<>> /\ UNCHANGED <<log, read>>
    BY <1>4, <1>0 DEF onApplyEventStruct, OrderInv
  <2>3. /\ Len(batch') = n /\ Len(queue') = Len(queue) - n
        /\ \A i \in 1..n : batch'[i] = queue[i]
        /\ \A i \in 1..Len(queue) - n : queue'[i] = queue[n + i]
    BY <1>0, <2>1, SizesAssumption DEF TypeOK
  <2>4. Handled' = Handled /\ Len(batch) = 0
    <3>1. n \in Nat
      BY SizesAssumption
    <3>2. Len(batch) = 0
      BY <2>2
    <3>3. read' = read
      BY <2>2
    <3>4. QED
      BY <1>0, <2>3, <3>1, <3>2, <3>3 DEF Handled
  <2>5. DOMAIN batch' = 1..n /\ DOMAIN queue' = 1..Len(queue) - n
    BY <1>0, <2>1, SizesAssumption DEF TypeOK
  <2>6. n \in Nat /\ Handled \in Nat
    BY <1>0, SizesAssumption DEF PipelineInv
  <2>7. \A i \in 1..Len(queue) : queue[i] = log[Handled + i]
    BY <1>0, <2>4, <2>6 DEF PipelineInv, TypeOK
  <2>8. \A i \in DOMAIN batch' : batch'[i] = log'[Handled' + i]
    BY <1>0, <2>1, <2>2, <2>3, <2>4, <2>5, <2>6, <2>7
  <2>9. \A i \in DOMAIN queue' : queue'[i] = log'[Handled' + Len(batch') + i]
    <3>1. \A i \in 1..Len(queue) - n : n + i \in 1..Len(queue)
                                      /\ Handled + (n + i) = Handled + n + i
      BY <1>0, <2>1, <2>6
    <3>2. log' = log
      BY <2>2
    <3>3. QED
      BY <2>3, <2>4, <2>5, <2>7, <3>1, <3>2
  <2>10. Handled' \in 0..read'
    BY <1>0, <2>2, <2>4 DEF PipelineInv
  <2>11. QED
    BY <2>8, <2>9, <2>10 DEF PipelineInv
<1>5. CASE ExecNextEvent
  <2>1. /\ batch' = [batch EXCEPT ![done + 1] = Built(@)]
        /\ done' = done + 1 /\ done + 1 \in DOMAIN batch
        /\ UNCHANGED <<log, read, queue>>
    BY <1>0, <1>5 DEF ExecNextEvent, TypeOK
  <2>2. Len(batch') = Len(batch) /\ DOMAIN batch' = DOMAIN batch
    BY <1>0, <2>1 DEF TypeOK
  <2>3. Handled' = Handled
    BY <2>1, <2>2 DEF Handled
  <2>4. ASSUME NEW i \in DOMAIN batch
        PROVE  (MovesKeys /\ i <= done') \/ batch'[i] = log[Handled + i]
    <3>1. CASE i # done + 1
      BY <1>0, <2>1, <3>1 DEF PipelineInv, TypeOK
    <3>2. CASE i = done + 1 /\ ~MovesKeys
      <4>1. batch[i] = log[Handled + i] /\ Handled + i \in 1..Len(log)
        BY <1>0, <2>1, <3>2 DEF PipelineInv, TypeOK, Handled
      <4>2. QED
        BY <1>0, <2>1, <3>2, <4>1, BuiltAsLogged
    <3>3. CASE i = done + 1 /\ MovesKeys
      BY <2>1, <3>3, <1>0 DEF TypeOK
    <3>4. QED
      BY <3>1, <3>2, <3>3
  <2>5. QED
    BY <1>0, <2>1, <2>2, <2>3, <2>4 DEF PipelineInv
<1>6. CASE CommitBatch
  BY <1>0, <1>6 DEF CommitBatch, PipelineInv, Handled, TypeOK
<1>7. CASE ApplyDMLEventQueriesFails
  <2>1. ~MovesKeys
    BY <1>0, <1>7, RetryMeansNoMoves DEF ApplyDMLEventQueriesFails
  <2>2. UNCHANGED batch
    <3>1. CASE done < Len(batch) /\ batch' = [batch EXCEPT ![done + 1] = Built(@)]
      <4>1. done + 1 \in DOMAIN batch /\ Handled + done + 1 \in 1..Len(log)
        BY <1>0, <3>1 DEF TypeOK, PipelineInv, Handled
      <4>2. batch[done + 1] = log[Handled + (done + 1)]
        BY <1>0, <2>1, <4>1 DEF PipelineInv
      <4>3. Built(batch[done + 1]) = batch[done + 1]
        <5>1. Handled + (done + 1) \in 1..Len(log)
          BY <1>0, <4>1 DEF TypeOK, PipelineInv
        <5>2. QED
          BY <1>0, <2>1, <4>2, <5>1, BuiltAsLogged
      <4>4. QED
        BY <1>0, <3>1, <4>1, <4>3 DEF TypeOK
    <3>2. QED
      BY <1>7, <3>1 DEF ApplyDMLEventQueriesFails
  <2>3. UNCHANGED <<log, read, queue, batch>>
    BY <1>7, <2>2 DEF ApplyDMLEventQueriesFails
  <2>4. QED
    BY <1>0, <2>1, <2>3 DEF PipelineInv, Handled
<1>8. CASE UNCHANGED <<log, read, queue, batch, done>>
  BY <1>0, <1>8 DEF PipelineInv, Handled
<1>9. CASE BecomeVisible \/ Migrator
  BY <1>4, <1>5, <1>6, <1>8, <1>9 DEF BecomeVisible, Migrator, addDMLEventsListener,
     ReadMigrationMinValues, ReadMigrationMaxValues, iterateNoRows, copyRowsFunc,
     RangeEndViaOffset, RangeEndViaTemptable, ApplyIterationInsertQuery
<1>10. CASE Failures
  BY <1>7, <1>8, <1>10 DEF Failures, ReadMigrationRangeFails,
     CalculateNextIterationRangeEndValuesFails, ApplyIterationInsertQueryFails
<1>11. QED
  BY <1>1, <1>2, <1>3, <1>9, <1>10 DEF Next

-----------------------------------------------------------------------------
(* Ghost table and original table.                                         *)

(* A table that has the effects of n events has those of fewer.            *)
LEMMA InStepEarlier ==
    ASSUME TypeOK, NEW g \in Table, NEW n \in Nat, NEW m \in 0..n, InStep(g, n)
    PROVE  InStep(g, m)
BY DEF InStep, Ahead, TypeOK

(* Keys may become covered if the table is at or ahead of n at them.       *)
LEMMA InStepCovers ==
    ASSUME TypeOK, UNCHANGED <<log, hist>>, NEW g, NEW n, InStep(g, n),
           \A k \in Key : Covered(k)' => Covered(k) \/ Ahead(g, n, k)
    PROVE  \A k \in Key : (g[k] # None \/ Covered(k)') => \E m \in n..Len(log') : g[k] = hist'[m + 1][k]
<1>1. log' = log /\ hist' = hist
  OBVIOUS
<1>2. QED
  BY <1>1 DEF InStep, Ahead

(* Steps that leave the tables alone.                                      *)
LEMMA SyncCovers ==
    ASSUME TypeOK, SyncInv, UNCHANGED <<log, hist, ghost, work, done>>, Handled' = Handled,
           pc' = "apply" => pc = "apply",
           \A k \in Key : Covered(k)' => Covered(k)
                          \/ (pc' # "apply" /\ Ahead(ghost, Handled, k))
    PROVE  SyncInv'
<1>1. InStep(ghost, Handled)'
  BY InStepCovers DEF SyncInv, InStep, Ahead
<1>2. pc' = "apply" => InStep(work, Handled + done)'
  BY InStepCovers DEF SyncInv, InStep, Ahead
<1>3. QED
  BY <1>1, <1>2 DEF SyncInv

(* A key that the original table does not have now.                        *)
LEMMA AbsentAhead ==
    ASSUME TypeOK, HistInv, visible = Len(log), NEW n \in 0..Len(log), NEW k \in Key,
           InStep(ghost, n), k \notin Rows(Seen)
    PROVE  Ahead(ghost, n, k)
<1>1. CASE ghost[k] = None
  BY <1>1 DEF Ahead, Rows, Seen, TypeOK
<1>2. CASE ghost[k] # None
  BY <1>2 DEF InStep
<1>3. QED
  BY <1>1, <1>2

LEMMA StepSync ==
    ASSUME Sound, IInv, pc # "aborted", Next, pc' # "aborted"
    PROVE  SyncInv'
<1> USE DEF mysqlVars, eventVars, txVars, rangeVars, iterVars
<1>0. /\ ControlInv /\ TypeOK /\ HistInv /\ PipelineInv /\ SyncInv
      /\ Len(queue) \in Nat /\ Len(batch) \in Nat /\ Len(log) \in Nat /\ read \in Nat
      /\ done \in 0..Len(batch) /\ read <= Len(log)
      /\ ghost \in Table /\ work \in Table
  BY DEF IInv, TypeOK
<1>a. /\ Handled \in 0..Len(log) /\ Handled + Len(batch) <= Len(log)
      /\ Handled + done \in 0..Len(log) /\ visible = Len(log)
  BY <1>0 DEF PipelineInv, Handled, ControlInv
<1>1. CASE Write
  <2>1. /\ UNCHANGED <<ghost, work, done, pc>> /\ Handled' = Handled
        /\ \A k \in Key : Covered(k)' <=> Covered(k)
    BY <1>1 DEF Write, Handled, Covered
  <2>2. ASSUME NEW g \in Table, NEW n \in 0..Len(log), InStep(g, n), NEW k \in Key,
               g[k] # None \/ Covered(k)
        PROVE  \E m \in n..Len(log') : g[k] = hist'[m + 1][k]
    BY <1>0, <1>1, <2>2, WriteKeepsAhead DEF InStep
  <2>3. InStep(ghost, Handled)'
    BY <1>0, <1>a, <2>1, <2>2 DEF SyncInv, InStep, Ahead
  <2>4. pc' = "apply" => InStep(work, Handled + done)'
    BY <1>0, <1>a, <2>1, <2>2 DEF SyncInv, InStep, Ahead
  <2>5. QED
    BY <2>3, <2>4 DEF SyncInv
<1>2. CASE Stream /\ pc = "listen"
  <2>1. /\ pc' = "listen" /\ ghost' = EmptyTable
        /\ \A k \in Key : ~Covered(k)'
    BY <1>0, <1>2, SizesAssumption
       DEF Stream, ControlInv, Covered, Setup, Copying, Key, NoKey
  <2>2. QED
    BY <2>1 DEF SyncInv, InStep, EmptyTable
<1>3. CASE Stream /\ pc # "listen"
  <2>1. Len(queue') = Len(queue) + 1 /\ read' = read + 1
    BY <1>0, <1>3 DEF Stream, TypeOK
  <2>2. Handled' = Handled /\ UNCHANGED <<log, hist, ghost, work, done, pc>>
    BY <1>0, <1>3, <2>1 DEF Stream, Handled
  <2>3. \A k \in Key : Covered(k)' => Covered(k)
    BY <1>3 DEF Stream, Covered
  <2>4. QED
    BY <1>0, <2>2, <2>3, SyncCovers
<1>4. CASE addDMLEventsListener
  <2>1. \A k \in Key : Covered(k)' => Covered(k)
    BY <1>4 DEF addDMLEventsListener, Covered, Setup, Copying
  <2>2. Handled' = Handled /\ UNCHANGED <<log, hist, ghost, work, done>> /\ pc' # "apply"
    BY <1>4 DEF addDMLEventsListener, Handled
  <2>3. QED
    BY <1>0, <2>1, <2>2, SyncCovers
<1>5. CASE ReadMigrationMinValues
  <2>1. /\ Handled' = Handled /\ UNCHANGED <<log, hist, ghost, work, done>>
        /\ pc = "readMin" /\ pc' = "readMax"
    BY <1>5 DEF ReadMigrationMinValues, Handled
  <2>2. \A k \in Key : rangeMin' = NoKey \/ k < rangeMin' => k \notin Rows(Seen)
    BY <1>5, SizesAssumption
       DEF ReadMigrationMinValues, Fetched, Sound, Key, NoKey, Rows
  <2>3. \A k \in Key : Covered(k)' => Covered(k) \/ k \notin Rows(Seen)
    BY <1>5, <2>1, <2>2 DEF ReadMigrationMinValues, Covered, Setup, Copying
  <2>4. QED
    BY <1>0, <1>a, <2>1, <2>3, SyncCovers, AbsentAhead DEF SyncInv
<1>6. CASE ReadMigrationMaxValues
  <2>1. /\ Handled' = Handled /\ UNCHANGED <<log, hist, ghost, work, done>>
        /\ pc = "readMax" /\ pc' = "idle"
    BY <1>6 DEF ReadMigrationMaxValues, Handled
  <2>2. \A k \in Key : rangeMax' < k => k \notin Rows(Seen)
    BY <1>6, SizesAssumption
       DEF ReadMigrationMaxValues, Fetched, Sound, Key, NoKey, Rows
  <2>3. \A k \in Key : Covered(k)' => Covered(k) \/ k \notin Rows(Seen)
    BY <1>6, <2>1, <2>2 DEF ReadMigrationMaxValues, Covered, Setup, Copying
  <2>4. QED
    BY <1>0, <1>a, <2>1, <2>3, SyncCovers, AbsentAhead DEF SyncInv
<1>7. CASE iterateNoRows
  <2>1. Handled' = Handled /\ UNCHANGED <<log, hist, ghost, work, done, pc>>
    BY <1>7 DEF iterateNoRows, Handled
  <2>2. \A k \in Key : Covered(k)
    BY <1>7 DEF iterateNoRows, Covered, Running, Copying
  <2>3. QED
    BY <1>0, <2>1, <2>2, SyncCovers
<1>8. CASE onApplyEventStruct
  <2>1. PICK n \in 1..DMLBatchSize : /\ n <= Len(queue)
                                     /\ batch' = SubSeq(queue, 1, n)
                                     /\ queue' = SubSeq(queue, n + 1, Len(queue))
    BY <1>8, <1>0 DEF onApplyEventStruct
  <2>2. Len(batch') = n /\ Len(queue') = Len(queue) - n /\ Len(batch) = 0
    <3>1. batch = <<>>
      BY <1>0, <1>8 DEF ControlInv, onApplyEventStruct
    <3>2. Len(batch') = n /\ Len(queue') = Len(queue) - n
      BY <1>0, <2>1, SizesAssumption DEF TypeOK
    <3>3. QED
      BY <3>1, <3>2
  <2>3. n \in Nat /\ read' = read
    BY <1>8, SizesAssumption DEF onApplyEventStruct
  <2>4. Handled' = Handled
    BY <1>0, <2>2, <2>3 DEF Handled
  <2>5. /\ UNCHANGED <<log, hist, ghost>> /\ done' = 0 /\ work' = ghost
        /\ \A k \in Key : Covered(k)' => Covered(k)
    BY <1>8 DEF onApplyEventStruct, Covered, Setup, Copying
  <2>6. InStep(ghost, Handled)'
    BY <1>0, <2>4, <2>5, InStepCovers DEF SyncInv, InStep, Ahead
  <2>7. Handled' + done' = Handled' /\ work' = ghost'
    BY <1>a, <2>4, <2>5
  <2>8. QED
    BY <2>6, <2>7 DEF SyncInv, InStep, Ahead
<1>9. CASE ExecNextEvent
  <2>1. /\ done < Len(batch) /\ done' = done + 1 /\ pc = "apply" /\ pc' = "apply"
        /\ work' = Applied(work, batch[done + 1])
        /\ UNCHANGED <<log, hist, ghost, queue, read>>
    BY <1>9 DEF ExecNextEvent
  <2>2. Len(batch') = Len(batch)
    BY <1>0, <1>9 DEF ExecNextEvent, TypeOK
  <2>3. Handled' = Handled
    BY <2>1, <2>2 DEF Handled
  <2>4. batch[done + 1] = log[(Handled + done) + 1] /\ Handled + done \in 0..Len(log) - 1
    <3>1. done + 1 \in DOMAIN batch
      BY <1>0, <2>1 DEF TypeOK
    <3>2. batch[done + 1] = log[Handled + (done + 1)]
      BY <1>0, <3>1 DEF PipelineInv
    <3>3. QED
      BY <1>0, <1>a, <2>1, <3>2
  <2>5. InStep(work', Handled + done + 1)
    BY <1>0, <2>1, <2>4, AppliedInStep DEF SyncInv
  <2>6. \A k \in Key : Covered(k)' => Covered(k)
    BY <1>9 DEF ExecNextEvent, Covered
  <2>7. Handled' + done' = Handled + done + 1
    BY <1>0, <1>a, <2>1, <2>3
  <2>8. InStep(ghost, Handled)'
    BY <1>0, <2>1, <2>3, <2>6, InStepCovers DEF SyncInv, InStep, Ahead
  <2>9. InStep(work, Handled + done)'
    BY <2>1, <2>5, <2>6, <2>7 DEF InStep, Ahead
  <2>10. QED
    BY <2>8, <2>9 DEF SyncInv
<1>10. CASE CommitBatch
  <2>1. /\ done = Len(batch) /\ ghost' = work /\ pc = "apply" /\ pc' = "idle" /\ batch' = <<>>
        /\ UNCHANGED <<log, hist, queue, read>>
    BY <1>10 DEF CommitBatch
  <2>2. Handled' = Handled + done
    BY <1>0, <2>1 DEF Handled
  <2>3. \A k \in Key : Covered(k)' => Covered(k)
    BY <1>10 DEF CommitBatch, Covered, Setup, Copying
  <2>4. InStep(ghost, Handled)'
    BY <1>0, <2>1, <2>2, <2>3 DEF SyncInv, InStep, Ahead
  <2>5. QED
    BY <2>1, <2>4 DEF SyncInv
<1>11. CASE ApplyDMLEventQueriesFails
  <2>1. pc = "apply" /\ pc' = "apply"
    BY <1>0, <1>11, RetryMeansNoMoves DEF Sound, ApplyDMLEventQueriesFails
  <2>2. Len(batch') = Len(batch)
    BY <1>0, <1>11 DEF ApplyDMLEventQueriesFails, TypeOK
  <2>3. /\ Handled' = Handled /\ done' = 0 /\ work' = ghost' /\ ghost' \in {ghost, work}
        /\ UNCHANGED <<log, hist>>
    BY <1>11, <2>2 DEF ApplyDMLEventQueriesFails, Handled
  <2>4. InStep(ghost', Handled)
    BY <1>0, <1>a, <2>1, <2>3, InStepEarlier DEF SyncInv
  <2>5. \A k \in Key : Covered(k)' => Covered(k)
    BY <1>11, <2>1 DEF ApplyDMLEventQueriesFails, Covered
  <2>6. InStep(ghost, Handled)'
    BY <2>3, <2>4, <2>5 DEF InStep, Ahead
  <2>7. Handled' + done' = Handled' /\ work' = ghost'
    BY <1>a, <2>3
  <2>8. QED
    BY <2>6, <2>7 DEF SyncInv, InStep, Ahead
<1>12. CASE copyRowsFunc
  <2>1. /\ Handled' = Handled /\ UNCHANGED <<log, hist, ghost, work, done>> /\ pc' = "offset"
        /\ pc = "idle"
    BY <1>12 DEF copyRowsFunc, Handled
  <2>2. \A k \in Key : Covered(k)' => Covered(k)
    BY <1>0, <1>12, <2>1 DEF copyRowsFunc, Covered, Setup, Copying, ControlInv
  <2>3. QED
    BY <1>0, <2>1, <2>2, SyncCovers
<1>13. CASE RangeEndViaOffset \/ RangeEndViaTemptable
  <2>1. /\ Handled' = Handled /\ UNCHANGED <<log, hist, ghost, work, done>>
        /\ pc \in {"offset", "temptable"} /\ pc' \in {"temptable", "insert", "idle"}
    BY <1>13 DEF RangeEndViaOffset, RangeEndViaTemptable, RangeEndFound, Handled
  <2>2. CASE pc' \in {"temptable", "insert"}
    <3>1. \A k \in Key : Covered(k)' => Covered(k)
      BY <1>13, <2>1, <2>2 DEF RangeEndViaOffset, RangeEndViaTemptable, RangeEndFound,
                               Covered, Setup, Copying
    <3>2. QED
      BY <1>0, <2>1, <3>1, SyncCovers
  <2>3. CASE pc' = "idle"
    <3>1. RemainingRows = {} /\ pc = "temptable"
      BY <1>13, <2>3 DEF RangeEndViaOffset, RangeEndViaTemptable, RangeEndFound, Sound
    <3>2. \A k \in Key : k \notin Rows(Seen) \/ Covered(k)
      <4>1. /\ rangeMin \in Nat /\ rangeMax \in Nat /\ iterMin \in Nat
            /\ firstIteration \in BOOLEAN /\ Key \subseteq Nat
            /\ firstIteration => iterMin = rangeMin
        BY <1>0, <3>1, SizesAssumption DEF TypeOK, Key, NoKey, ControlInv, Copying
      <4>2. QED
        BY <3>1, <4>1 DEF RemainingRows, PastIterMin, Covered, Setup, Copying
    <3>3. \A k \in Key : Covered(k) \/ Ahead(ghost, Handled, k)
      BY <1>0, <1>a, <3>2, AbsentAhead DEF SyncInv
    <3>4. QED
      BY <1>0, <2>1, <2>3, <3>3, SyncCovers
  <2>4. QED
    BY <2>1, <2>2, <2>3
<1>14. CASE ApplyIterationInsertQuery
  <2>1. /\ Handled' = Handled /\ UNCHANGED <<log, hist, batch>> /\ pc = "insert"
        /\ pc' = "idle" /\ ghost' = Copied(ghost)
    BY <1>14 DEF ApplyIterationInsertQuery, Handled
  <2>2. /\ InStep(ghost', Handled) /\ \A k \in ChunkRange : Ahead(ghost', Handled, k)
    BY <1>0, <1>a, <2>1, CopiedInStep DEF SyncInv
  <2>3. \A k \in Key : Covered(k)' => Covered(k) \/ k \in ChunkRange
    <3>1. /\ rangeMin \in Nat /\ rangeMax \in Nat /\ iterMin \in Nat /\ iterMax \in Nat
          /\ firstIteration \in BOOLEAN /\ Key \subseteq Nat
          /\ firstIteration => iterMin = rangeMin
      BY <1>0, <2>1, SizesAssumption DEF TypeOK, Key, NoKey, ControlInv, Copying
    <3>2. UNCHANGED <<rangeMin, rangeMax, iterMax, rowCopyComplete>>
      BY <1>14 DEF ApplyIterationInsertQuery
    <3>3. QED
      BY <2>1, <3>1, <3>2 DEF ChunkRange, PastIterMin, Covered, Setup, Copying
  <2>4. InStep(ghost, Handled)'
    BY <2>1, <2>2, <2>3 DEF InStep, Ahead
  <2>5. QED
    BY <2>1, <2>4 DEF SyncInv
<1>15. CASE CalculateNextIterationRangeEndValuesFails
  <2>1. /\ Handled' = Handled /\ UNCHANGED <<log, hist, ghost, work, done>>
        /\ pc \in {"offset", "temptable"} /\ pc' = "offset"
    BY <1>15 DEF CalculateNextIterationRangeEndValuesFails, Retry, Handled
  <2>2. \A k \in Key : Covered(k)' => Covered(k)
    BY <1>15, <2>1 DEF CalculateNextIterationRangeEndValuesFails, Covered, Setup, Copying
  <2>3. QED
    BY <1>0, <2>1, <2>2, SyncCovers
<1>16. CASE ApplyIterationInsertQueryFails
  <2>1. /\ Handled' = Handled /\ UNCHANGED <<log, hist>> /\ pc = "insert" /\ pc' = "insert"
        /\ ghost' \in {ghost, Copied(ghost)}
    BY <1>16 DEF ApplyIterationInsertQueryFails, Retry, Handled
  <2>2. InStep(ghost', Handled)
    BY <1>0, <1>a, <2>1, CopiedInStep DEF SyncInv
  <2>3. \A k \in Key : Covered(k)' => Covered(k)
    BY <1>16, <2>1 DEF ApplyIterationInsertQueryFails, Covered, Setup, Copying
  <2>4. InStep(ghost, Handled)'
    BY <2>1, <2>2, <2>3 DEF InStep, Ahead
  <2>5. QED
    BY <2>1, <2>4 DEF SyncInv
<1>17. CASE BecomeVisible
  BY <1>0, <1>a, <1>17 DEF BecomeVisible
<1>18. CASE ReadMigrationRangeFails
  BY <1>18 DEF ReadMigrationRangeFails
<1>19. QED
  BY <1>1, <1>2, <1>3, <1>4, <1>5, <1>6, <1>7, <1>8, <1>9, <1>10, <1>11, <1>12, <1>13,
     <1>14, <1>15, <1>16, <1>17, <1>18 DEF Next, Migrator, Failures

-----------------------------------------------------------------------------
(* The rows of the ghost table, whatever the application sees of its       *)
(* writes and whatever the fetches return.                                 *)

LEMMA StepOrder ==
    ASSUME OneAttempt, TypeOK, OrderInv, Next, pc' # "aborted"
    PROVE  OrderInv'
<1> USE DEF mysqlVars, eventVars, txVars, rangeVars, iterVars, OrderInv
<1>1. CASE Write \/ BecomeVisible \/ Stream
  BY <1>1 DEF Write, BecomeVisible, Stream, EmptyTable
<1>2. CASE Migrator
  BY <1>2 DEF Migrator, addDMLEventsListener, ReadMigrationMinValues,
     ReadMigrationMaxValues, iterateNoRows, onApplyEventStruct, ExecNextEvent, CommitBatch,
     copyRowsFunc, RangeEndViaOffset, RangeEndViaTemptable, RangeEndFound,
     ApplyIterationInsertQuery, EmptyTable, Running, Copying
<1>3. CASE ApplyDMLEventQueriesFails
  BY <1>3, RetryMeansNoMoves DEF ApplyDMLEventQueriesFails
<1>4. CASE Failures /\ ~ApplyDMLEventQueriesFails
  BY <1>4 DEF Failures, ReadMigrationRangeFails,
     CalculateNextIterationRangeEndValuesFails, ApplyIterationInsertQueryFails, Retry
<1>5. QED
  BY <1>1, <1>2, <1>3, <1>4 DEF Next

(* Executing the next event keeps the rows in step: an update of an absent *)
(* row leaves it absent.                                                   *)
LEMMA AppliedRowsInStep ==
    ASSUME TypeOK, HistInv, NEW g \in Table, NEW n \in 0..Len(log) - 1, RowsInStep(g, n)
    PROVE  RowsInStep(Applied(g, log[n + 1]), n + 1)
<1> DEFINE e == log[n + 1]
           h == Applied(g, e)
<1>1. n \in Nat /\ n + 1 \in 1..Len(log) /\ e \in Event
  BY DEF TypeOK
<1>2. Legal(hist[n + 1], e) /\ hist[n + 2] = Written(hist[n + 1], e)
  BY <1>1 DEF HistInv
<1>3. hist[n + 1] \in Table
  BY <1>1 DEF HistInv, TypeOK
<1> SUFFICES ASSUME NEW k \in Key, h[k] # None
             PROVE  Ahead(h, n + 1, k)
  BY DEF RowsInStep, Rows
<1>4. CASE Touches(e, k)
  <2>1. h[k] = hist[n + 2][k]
    BY <1>1, <1>2, <1>3, <1>4 DEF Touches, Applied, Written, Legal, Table, Event
  <2>2. QED
    BY <1>1, <2>1 DEF Ahead
<1>5. CASE ~Touches(e, k)
  <2>1. h[k] = g[k] /\ hist[n + 2][k] = hist[n + 1][k]
    BY <1>1, <1>2, <1>3, <1>5 DEF Touches, Applied, Written, Table, Event
  <2>2. PICK m \in n..Len(log) : g[k] = hist[m + 1][k]
    BY <2>1 DEF RowsInStep, Rows, Ahead
  <2>3. CASE m = n
    BY <1>1, <2>1, <2>2, <2>3 DEF Ahead
  <2>4. CASE m # n
    BY <1>1, <2>1, <2>2, <2>4 DEF Ahead
  <2>5. QED
    BY <2>3, <2>4
<1>6. QED
  BY <1>4, <1>5

(* Copying a chunk none of whose rows is locked copies present rows, also  *)
(* if other writes are not yet visible.                                    *)
LEMMA CopiedRowsInStep ==
    ASSUME TypeOK, HistInv, HistStable, NEW n \in 0..Len(log), NEW g \in Table,
           RowsInStep(g, n), \A k \in ChunkRange : ~Locked(k)
    PROVE  RowsInStep(Copied(g), n)
<1> SUFFICES ASSUME NEW k \in Key, Copied(g)[k] # None
             PROVE  Ahead(Copied(g), n, k)
  BY DEF RowsInStep, Rows
<1>1. CASE k \in ChunkRange /\ g[k] = None
  <2>1. Copied(g)[k] = hist[visible + 1][k]
    BY <1>1 DEF Copied, Seen
  <2>2. \A m \in visible + 1 .. Len(log) : ~Touches(log[m], k)
    BY <1>1 DEF Locked
  <2>3. visible \in 0..Len(log) /\ Len(log) \in 0..Len(log) /\ visible <= Len(log)
    BY DEF TypeOK
  <2>4. hist[visible + 1][k] = hist[Len(log) + 1][k]
    BY <2>2, <2>3 DEF HistStable
  <2>5. QED
    BY <2>1, <2>3, <2>4 DEF Ahead
<1>2. CASE ~(k \in ChunkRange /\ g[k] = None)
  <2>1. Copied(g)[k] = g[k]
    BY <1>2 DEF Copied
  <2>2. Ahead(g, n, k)
    BY <2>1 DEF RowsInStep, Rows
  <2>3. QED
    BY <2>1, <2>2 DEF Ahead
<1>3. QED
  BY <1>1, <1>2

(* A table whose rows have the effects of n events has those of fewer.     *)
LEMMA RowsInStepEarlier ==
    ASSUME TypeOK, NEW g \in Table, NEW n \in Nat, NEW m \in 0..n, RowsInStep(g, n)
    PROVE  RowsInStep(g, m)
BY DEF RowsInStep, Rows, Ahead, TypeOK

(* Rows stay in step while log and history do not change.                  *)
LEMMA RowsCarried ==
    ASSUME UNCHANGED <<log, hist>>, NEW g, NEW n, RowsInStep(g, n)
    PROVE  \A k \in Rows(g) : \E m \in n..Len(log') : g[k] = hist'[m + 1][k]
<1>1. log' = log /\ hist' = hist
  OBVIOUS
<1>2. QED
  BY <1>1 DEF RowsInStep, Ahead

(* Steps that leave tables and events alone.                               *)
LEMMA RowsUnmoved ==
    ASSUME TypeOK, RowsInv, UNCHANGED <<log, hist, ghost, work, done>>, Handled' = Handled,
           pc' = "apply" => pc = "apply"
    PROVE  RowsInv'
<1>1. RowsInStep(ghost, Handled)'
  BY RowsCarried DEF RowsInv, RowsInStep, Rows, Ahead
<1>2. pc' = "apply" => RowsInStep(work, Handled + done)'
  BY RowsCarried DEF RowsInv, RowsInStep, Rows, Ahead
<1>3. QED
  BY <1>1, <1>2 DEF RowsInv

LEMMA StepRows ==
    ASSUME OneAttempt, RowsIInv, pc # "aborted", Next, pc' # "aborted"
    PROVE  RowsInv'
<1> USE DEF mysqlVars, eventVars, txVars, rangeVars, iterVars
<1>0. /\ OrderInv /\ TypeOK /\ HistInv /\ HistStable /\ PipelineInv /\ RowsInv
      /\ Len(queue) \in Nat /\ Len(batch) \in Nat /\ Len(log) \in Nat /\ read \in Nat
      /\ done \in 0..Len(batch) /\ read <= Len(log)
      /\ ghost \in Table /\ work \in Table
  BY DEF RowsIInv, TypeOK
<1>a. /\ Handled \in 0..Len(log) /\ Handled + Len(batch) <= Len(log)
      /\ Handled + done \in 0..Len(log)
  BY <1>0 DEF PipelineInv, Handled
<1>1. CASE Write
  <2>1. UNCHANGED <<ghost, work, done, pc>> /\ Handled' = Handled
    BY <1>1 DEF Write, Handled
  <2>2. ASSUME NEW g \in Table, NEW n \in 0..Len(log), RowsInStep(g, n), NEW k \in Rows(g)
        PROVE  \E m \in n..Len(log') : g[k] = hist'[m + 1][k]
    BY <1>0, <1>1, <2>2, WriteKeepsAhead DEF RowsInStep, Rows
  <2>3. RowsInStep(ghost, Handled)'
    <3>1. \A k \in Rows(ghost) : \E m \in Handled..Len(log') : ghost[k] = hist'[m + 1][k]
      BY <1>0, <1>a, <2>2 DEF RowsInv
    <3>2. QED
      BY <2>1, <3>1 DEF RowsInStep, Rows, Ahead
  <2>4. pc' = "apply" => RowsInStep(work, Handled + done)'
    <3>1. pc = "apply" => \A k \in Rows(work) : \E m \in Handled + done .. Len(log') :
                              work[k] = hist'[m + 1][k]
      BY <1>0, <1>a, <2>2 DEF RowsInv
    <3>2. QED
      BY <2>1, <3>1 DEF RowsInStep, Rows, Ahead
  <2>5. QED
    BY <2>3, <2>4 DEF RowsInv
<1>2. CASE Stream /\ pc = "listen"
  <2>1. pc' = "listen" /\ ghost' = EmptyTable
    BY <1>0, <1>2 DEF Stream, OrderInv
  <2>2. QED
    BY <2>1 DEF RowsInv, RowsInStep, Rows, EmptyTable
<1>3. CASE Stream /\ pc # "listen"
  <2>1. Len(queue') = Len(queue) + 1 /\ read' = read + 1
    BY <1>0, <1>3 DEF Stream, TypeOK
  <2>2. Handled' = Handled /\ UNCHANGED <<log, hist, ghost, work, done, pc>>
    BY <1>0, <1>3, <2>1 DEF Stream, Handled
  <2>3. QED
    BY <1>0, <2>2, RowsUnmoved
<1>4. CASE onApplyEventStruct
  <2>1. PICK n \in 1..DMLBatchSize : /\ n <= Len(queue)
                                     /\ batch' = SubSeq(queue, 1, n)
                                     /\ queue' = SubSeq(queue, n + 1, Len(queue))
    BY <1>4, <1>0 DEF onApplyEventStruct
  <2>2. Len(batch') = n /\ Len(queue') = Len(queue) - n /\ Len(batch) = 0
    <3>1. batch = <<>>
      BY <1>0, <1>4 DEF OrderInv, onApplyEventStruct
    <3>2. Len(batch') = n /\ Len(queue') = Len(queue) - n
      BY <1>0, <2>1, SizesAssumption DEF TypeOK
    <3>3. QED
      BY <3>1, <3>2
  <2>3. n \in Nat /\ read' = read
    BY <1>4, SizesAssumption DEF onApplyEventStruct
  <2>4. Handled' = Handled
    BY <1>0, <2>2, <2>3 DEF Handled
  <2>5. UNCHANGED <<log, hist, ghost>> /\ done' = 0 /\ work' = ghost
    BY <1>4 DEF onApplyEventStruct
  <2>6. RowsInStep(ghost, Handled)'
    BY <1>0, <2>4, <2>5, RowsCarried DEF RowsInv, RowsInStep, Rows, Ahead
  <2>7. Handled' + done' = Handled' /\ work' = ghost'
    BY <1>a, <2>4, <2>5
  <2>8. QED
    BY <2>6, <2>7 DEF RowsInv, RowsInStep, Rows, Ahead
<1>5. CASE ExecNextEvent
  <2>1. /\ done < Len(batch) /\ done' = done + 1 /\ pc = "apply" /\ pc' = "apply"
        /\ work' = Applied(work, batch[done + 1])
        /\ UNCHANGED <<log, hist, ghost, queue, read>>
    BY <1>5 DEF ExecNextEvent
  <2>2. Len(batch') = Len(batch)
    BY <1>0, <1>5 DEF ExecNextEvent, TypeOK
  <2>3. Handled' = Handled
    BY <2>1, <2>2 DEF Handled
  <2>4. batch[done + 1] = log[(Handled + done) + 1] /\ Handled + done \in 0..Len(log) - 1
    <3>1. done + 1 \in DOMAIN batch
      BY <1>0, <2>1 DEF TypeOK
    <3>2. batch[done + 1] = log[Handled + (done + 1)]
      BY <1>0, <3>1 DEF PipelineInv
    <3>3. QED
      BY <1>0, <1>a, <2>1, <3>2
  <2>5. RowsInStep(work', Handled + done + 1)
    BY <1>0, <2>1, <2>4, AppliedRowsInStep DEF RowsInv
  <2>6. Handled' + done' = Handled + done + 1
    BY <1>0, <1>a, <2>1, <2>3
  <2>7. RowsInStep(ghost, Handled)'
    BY <1>0, <2>1, <2>3, RowsCarried DEF RowsInv, RowsInStep, Rows, Ahead
  <2>8. RowsInStep(work, Handled + done)'
    BY <2>1, <2>5, <2>6 DEF RowsInStep, Rows, Ahead
  <2>9. QED
    BY <2>7, <2>8 DEF RowsInv
<1>6. CASE CommitBatch
  <2>1. /\ done = Len(batch) /\ ghost' = work /\ pc = "apply" /\ pc' = "idle" /\ batch' = <<>>
        /\ UNCHANGED <<log, hist, queue, read>>
    BY <1>6 DEF CommitBatch
  <2>2. Handled' = Handled + done
    BY <1>0, <2>1 DEF Handled
  <2>3. RowsInStep(ghost, Handled)'
    BY <1>0, <2>1, <2>2 DEF RowsInv, RowsInStep, Rows, Ahead
  <2>4. QED
    BY <2>1, <2>3 DEF RowsInv
<1>7. CASE ApplyDMLEventQueriesFails
  <2>1. pc = "apply" /\ pc' = "apply"
    BY <1>0, <1>7, RetryMeansNoMoves DEF ApplyDMLEventQueriesFails
  <2>2. Len(batch') = Len(batch)
    BY <1>0, <1>7 DEF ApplyDMLEventQueriesFails, TypeOK
  <2>3. /\ Handled' = Handled /\ done' = 0 /\ work' = ghost' /\ ghost' \in {ghost, work}
        /\ UNCHANGED <<log, hist>>
    BY <1>7, <2>2 DEF ApplyDMLEventQueriesFails, Handled
  <2>4. RowsInStep(ghost', Handled)
    BY <1>0, <1>a, <2>1, <2>3, RowsInStepEarlier DEF RowsInv
  <2>5. RowsInStep(ghost, Handled)'
    BY <2>3, <2>4 DEF RowsInStep, Rows, Ahead
  <2>6. Handled' + done' = Handled' /\ work' = ghost'
    BY <1>a, <2>3
  <2>7. QED
    BY <2>5, <2>6 DEF RowsInv, RowsInStep, Rows, Ahead
<1>8. CASE ApplyIterationInsertQuery \/ ApplyIterationInsertQueryFails
  <2>1. /\ Handled' = Handled /\ UNCHANGED <<log, hist>> /\ pc' # "apply"
        /\ ghost' = ghost \/ (ghost' = Copied(ghost) /\ \A k \in ChunkRange : ~Locked(k))
    BY <1>8 DEF ApplyIterationInsertQuery, ApplyIterationInsertQueryFails, Retry, Handled
  <2>2. RowsInStep(ghost', Handled)
    BY <1>0, <1>a, <2>1, CopiedRowsInStep DEF RowsInv
  <2>3. RowsInStep(ghost, Handled)'
    BY <2>1, <2>2 DEF RowsInStep, Rows, Ahead
  <2>4. QED
    BY <2>1, <2>3 DEF RowsInv
<1>9. CASE UNCHANGED <<log, hist, read, queue, batch, ghost, work, done>> /\ pc' # "apply"
  <2>1. Handled' = Handled
    BY <1>9 DEF Handled
  <2>2. QED
    BY <1>0, <1>9, <2>1, RowsUnmoved
<1>10. CASE BecomeVisible \/ iterateNoRows
  <2>1. Handled' = Handled /\ UNCHANGED <<log, hist, ghost, work, done, pc>>
    BY <1>10 DEF BecomeVisible, iterateNoRows, Handled
  <2>2. QED
    BY <1>0, <2>1, RowsUnmoved
<1>11. CASE Migrator
  BY <1>4, <1>5, <1>6, <1>8, <1>9, <1>10, <1>11 DEF Migrator, addDMLEventsListener,
     ReadMigrationMinValues, ReadMigrationMaxValues, copyRowsFunc, RangeEndViaOffset,
     RangeEndViaTemptable, RangeEndFound
<1>12. CASE Failures
  BY <1>7, <1>8, <1>9, <1>12 DEF Failures, ReadMigrationRangeFails,
     CalculateNextIterationRangeEndValuesFails, Retry
<1>13. QED
  BY <1>1, <1>2, <1>3, <1>10, <1>11, <1>12 DEF Next

-----------------------------------------------------------------------------
(* The theorems.                                                           *)

LEMMA InitIInv == Init => IInv
<1> SUFFICES ASSUME Init PROVE IInv
  OBVIOUS
<1>1. TypeOK /\ HistInv /\ HistStable
  BY InitType, InitHist
<1>2. PipelineInv
  BY DEF Init, PipelineInv, Handled
<1>3. ControlInv
  BY DEF Init, ControlInv, EmptyTable, Setup, Copying
<1>4. \A k \in Key : ~Covered(k) /\ ghost[k] = None
  BY SizesAssumption DEF Init, Covered, Setup, Copying, Key, NoKey
<1>5. SyncInv
  BY <1>4 DEF Init, SyncInv, InStep
<1>6. QED
  BY <1>1, <1>2, <1>3, <1>5 DEF IInv

LEMMA StepIInv ==
    ASSUME Sound, IInv, [Next]_vars
    PROVE  IInv'
<1>1. TypeOK' /\ HistInv' /\ HistStable'
  BY StepType, StepHist DEF IInv
<1>2. CASE UNCHANGED vars
  <2>1. /\ PipelineInv' = PipelineInv /\ ControlInv' = ControlInv /\ pc' = pc
    BY <1>2 DEF vars, mysqlVars, eventVars, txVars, rangeVars, iterVars, PipelineInv,
                ControlInv, Handled
  <2>2. ASSUME pc # "aborted" PROVE SyncInv'
    <3>1. /\ UNCHANGED <<log, hist, ghost, work, done, pc>> /\ Handled' = Handled
          /\ \A k \in Key : Covered(k)' => Covered(k)
      BY <1>2 DEF vars, mysqlVars, eventVars, txVars, rangeVars, iterVars, Handled, Covered
    <3>2. QED
      BY <2>2, <3>1, SyncCovers DEF IInv
  <2>3. QED
    BY <1>1, <2>1, <2>2 DEF IInv
<1>3. CASE Next /\ pc' # "aborted"
  <2>1. pc # "aborted"
    BY <1>3 DEF Next
  <2>2. OrderInv
    BY <2>1 DEF IInv, ControlInv, OrderInv, Setup
  <2>3. PipelineInv'
    BY <1>3, <2>1, <2>2, StepPipeline DEF IInv, Sound
  <2>4. QED
    BY <1>1, <1>3, <2>1, <2>3, StepControl, StepSync DEF IInv
<1>4. CASE pc' = "aborted"
  BY <1>1, <1>4 DEF IInv
<1>5. QED
  BY <1>2, <1>3, <1>4

(* The strengthening is inductive: at every moment each row of the ghost   *)
(* table, and each gap the row copy is through with, is what the original  *)
(* table had at the last applied event or has had since.                   *)
THEOREM InvariantHolds ==
    ASSUME Sound
    PROVE  Spec => []IInv
<1>1. Init => IInv
  BY InitIInv
<1>2. IInv /\ [Next]_vars => IInv'
  BY StepIInv
<1>3. QED
  BY <1>1, <1>2, PTL DEF Spec

LEMMA InitRows == Init => RowsIInv
<1>1. Init => TypeOK /\ HistInv /\ HistStable
  BY InitType, InitHist
<1>2. Init => PipelineInv /\ OrderInv
  BY DEF Init, PipelineInv, Handled, OrderInv, EmptyTable
<1>3. Init => RowsInv
  BY DEF Init, RowsInv, RowsInStep, Rows
<1>4. QED
  BY <1>1, <1>2, <1>3 DEF RowsIInv

LEMMA StepRowsIInv ==
    ASSUME OneAttempt, RowsIInv, [Next]_vars
    PROVE  RowsIInv'
<1>1. TypeOK' /\ HistInv' /\ HistStable'
  BY StepType, StepHist DEF RowsIInv
<1>2. CASE UNCHANGED vars
  <2>1. /\ UNCHANGED <<log, hist, read, queue, batch, ghost, work, done, pc>>
        /\ Handled' = Handled
    BY <1>2 DEF vars, mysqlVars, eventVars, txVars, rangeVars, iterVars, Handled
  <2>2. ASSUME pc # "aborted" PROVE PipelineInv' /\ OrderInv'
    BY <2>1, <2>2 DEF RowsIInv, PipelineInv, OrderInv, EmptyTable
  <2>3. ASSUME pc # "aborted" PROVE RowsInv'
    BY <2>1, <2>3, RowsUnmoved DEF RowsIInv
  <2>4. QED
    BY <1>1, <2>1, <2>2, <2>3 DEF RowsIInv
<1>3. CASE Next /\ pc' # "aborted"
  <2>1. pc # "aborted"
    BY <1>3 DEF Next
  <2>2. PipelineInv' /\ OrderInv'
    BY <1>3, <2>1, StepPipeline, StepOrder DEF RowsIInv
  <2>3. QED
    BY <1>1, <1>3, <2>1, <2>2, StepRows DEF RowsIInv
<1>4. CASE pc' = "aborted"
  BY <1>1, <1>4 DEF RowsIInv
<1>5. QED
  BY <1>2, <1>3, <1>4

(* Rows in the ghost table are at or ahead of the events applied, and      *)
(* queue and batch are the outstanding part of the log, however early      *)
(* MySQL ships events and whatever the row copy misses.                    *)
THEOREM RowsInvariantHolds ==
    ASSUME OneAttempt
    PROVE  Spec => []RowsIInv
<1>1. Init => RowsIInv
  BY InitRows
<1>2. RowsIInv /\ [Next]_vars => RowsIInv'
  BY StepRowsIInv
<1>3. QED
  BY <1>1, <1>2, PTL DEF Spec

(* With the copy complete and no event outstanding the tables are equal,   *)
(* for every table, chunk size, batch size and interleaving of writes.     *)
THEOREM ConvergedHolds ==
    ASSUME Sound
    PROVE  Spec => []Converged
<1>1. IInv => Converged
  <2> SUFFICES ASSUME IInv, pc = "idle", rowCopyComplete, Handled = Len(log)
               PROVE  ghost = Original
    BY DEF Converged
  <2>1. \A k \in Key : Ahead(ghost, Len(log), k)
    BY DEF IInv, SyncInv, InStep, Covered
  <2>2. \A k \in Key : ghost[k] = hist[Len(log) + 1][k]
    BY <2>1 DEF IInv, TypeOK, Ahead
  <2>3. ghost \in Table /\ hist[Len(log) + 1] \in Table
    BY SeenType DEF IInv, TypeOK, HistInv, Original
  <2>4. QED
    BY <2>2, <2>3 DEF Table, Original
<1>2. QED
  BY <1>1, InvariantHolds, PTL

(* The flag that ends the row copy is a guarantee: a row the ghost table   *)
(* lacks or has wrong is the subject of an event still to be applied.      *)
THEOREM CopyGuaranteeHolds ==
    ASSUME Sound
    PROVE  Spec => []AllNecessaryRowsCopied
<1>1. IInv => AllNecessaryRowsCopied
  <2> SUFFICES ASSUME IInv, pc # "aborted", rowCopyComplete, NEW k \in Key, Pending(k) = {}
               PROVE  ghost[k] = Original[k]
    BY DEF AllNecessaryRowsCopied
  <2>1. Handled \in 0..Len(log) /\ Len(log) \in Nat
    BY DEF IInv, PipelineInv, TypeOK
  <2>2. PICK m \in Handled..Len(log) : ghost[k] = hist[m + 1][k]
    BY DEF IInv, SyncInv, InStep, Covered, Ahead
  <2>3. \A i \in m + 1 .. Len(log) : ~Touches(log[i], k)
    BY <2>1, <2>2 DEF Pending
  <2>4. hist[m + 1][k] = hist[Len(log) + 1][k]
    <3>1. m \in 0..Len(log) /\ Len(log) \in 0..Len(log) /\ m <= Len(log)
      BY <2>1, <2>2
    <3>2. HistStable
      BY DEF IInv
    <3>3. QED
      BY <2>3, <3>1, <3>2 DEF HistStable
  <2>5. QED
    BY <2>2, <2>4 DEF Original
<1>2. QED
  BY <1>1, InvariantHolds, PTL

(* No row of the ghost table is older than the last event applied, also    *)
(* when MySQL ships events early and fetches are cut short.                *)
THEOREM NoStaleRowsHolds ==
    ASSUME OneAttempt
    PROVE  Spec => []NoStaleRows
<1>1. RowsIInv => NoStaleRows
  BY DEF RowsIInv, RowsInv, RowsInStep, Ahead, NoStaleRows
<1>2. QED
  BY <1>1, RowsInvariantHolds, PTL

(* The events still to be executed are the next events of the log.         *)
THEOREM EventsIntactHolds ==
    ASSUME OneAttempt
    PROVE  Spec => []EventsIntact
<1>1. RowsIInv => EventsIntact
  BY DEF RowsIInv, PipelineInv, EventsIntact, TypeOK
<1>2. QED
  BY <1>1, RowsInvariantHolds, PTL
=============================================================================

--------------------------- MODULE MigrationProofs ---------------------------
(***************************************************************************)
(* Proofs about Migration for any number of tries and of runs, and any set *)
(* of faults that may strike.                                              *)
(***************************************************************************)
EXTENDS Migration, TLAPS

Running == process = "running"

(* Where Migrate is before the ghost table is in sync ...                  *)
Beginning == {"onStartup", "inspect"}
Setup == (BeforeServer \ Beginning) \cup {"onBeforeRowCopy", "copy"}

(* ... while it cuts over ...                                              *)
RollbackPlaces == {"rollback", "rollbackGhost", "rollbackOld"}
RestartPlaces  == {"onStartReplication", "startReplication"}
TestPlaces     == {"onStopReplication", "stopReplication"} \cup RollbackPlaces \cup RestartPlaces
CutOverPlaces  == {"cutOver", "postpone", "attempt", "retry", "blocked"} \cup TestPlaces

(* ... and when it is over.                                                *)
Finish == {"dropChangelog", "dropOldTable", "dropGhostTable", "onSuccess", "done"}

-----------------------------------------------------------------------------
(* The inductive invariant, whatever fails.                                *)

(* The types, variables by variables.                                      *)
WorldType == tables \in [Names -> Contents] /\ replicating \in BOOLEAN /\ flagFile \in BOOLEAN
RunType == options \in Options /\ process \in {"running", "exit 0", "exit 1"}
CountType == runs \in 1..MaxRuns /\ tries \in 0 .. MaxRetries - 1
FlagType ==
    /\ panicked \in BOOLEAN /\ isPostponing \in BOOLEAN /\ unpostpone \in BOOLEAN
    /\ commanded \in BOOLEAN /\ told \in BOOLEAN
PlaceType ==
    /\ pc \in Beginning \cup Setup \cup {"onRowCopyComplete", "onBeforeCutOver"} \cup CutOverPlaces
                       \cup Finish \cup {"failed", "exited"}
    /\ outcome \in {"none", "ok", "error"}
Typed == WorldType /\ RunType /\ CountType /\ FlagType /\ PlaceType

(* Every mode, and every place, keeps to what is its own.                  *)
ControlInv ==
    /\ Running <=> pc # "exited"
    /\ pc \in TestPlaces => Test
    /\ pc \in CutOverPlaces \ {"cutOver"} => ~Noop
    /\ pc \in {"stopReplication", "startReplication"} => ~options.skipReplicaStop

(* The tables before the swap, after it, and between two renames.          *)
Unswapped == tables["original"] \in {"original", "behind"} /\ tables["ghost"] = "altered"
AreSwapped ==
    tables["original"] = "altered" /\ tables["ghost"] = "none" /\ tables["old"] \in {"original", "behind"}
HalfSwapped ==
    tables["original"] = "none" /\ tables["ghost"] = "altered" /\ tables["old"] \in {"original", "behind"}

TablesInv ==
    /\ Running /\ pc \in Beginning => tables["original"] \in {"original", "none"}
    /\ Running /\ (pc \in Setup \cup {"onRowCopyComplete", "onBeforeCutOver"} \/ (Noop /\ pc \in CutOverPlaces \cup Finish)) => tables["original"] = "original"
    /\ Running /\ ~Noop /\ pc \in {"onRowCopyComplete", "onBeforeCutOver"} => Unswapped
    /\ Running /\ ~Noop /\ pc \in CutOverPlaces => Unswapped \/ AreSwapped \/ HalfSwapped

(* The tables that are never both incomplete.                              *)
KeptInv == tables["original"] \in Complete \/ tables["ghost"] \in Complete

-----------------------------------------------------------------------------
(* What holds if a table that was renamed can be renamed back.             *)

RollsBack == "rollbackTwice" \notin Faults

InPlaceInv == RollsBack => InPlaceIsComplete

(* During the attempt of a test nothing is written; before and after it    *)
(* the original table is in its place.                                     *)
TestInv == RollsBack /\ Running /\ Test =>
    /\ pc \in RollbackPlaces \cup {"attempt"} => ~replicating
    /\ pc \in CutOverPlaces \ RollbackPlaces => Unswapped
    /\ pc = "rollbackOld" => ~AreSwapped
    /\ pc \in RollbackPlaces /\ ~Unswapped => tables["old"] = "original"
    /\ pc \in RollbackPlaces => outcome \in {"ok", "error"}
    /\ outcome = "ok" /\ pc \in {"rollback", "rollbackGhost"} => AreSwapped
    /\ outcome = "ok" /\ pc = "rollbackOld" => HalfSwapped

(* What is in place when Migrate returns.                                  *)
AfterCutOver ==
    /\ tables["original"] = IF options.mode = "execute" THEN "altered" ELSE "original"
    /\ Test => tables["old"] = "none" /\ tables["ghost"] # "none"
    /\ options.mode = "execute" => tables["ghost"] = "none"

Finished ==
    /\ told
    /\ tables["original"] = IF options.mode = "execute" THEN "altered" ELSE "original"
    /\ tables["changelog"] = "none"
    /\ (tables["ghost"] # "none") = Test
    /\ ~Noop => (tables["old"] = "none") = (Test \/ options.okToDropTable)

FinishInv == RollsBack =>
    /\ Running /\ pc \in Finish \ {"done"} => AfterCutOver
    /\ Running /\ pc \in Finish \ {"dropChangelog", "done"} => tables["changelog"] = "none"
    /\ Running /\ pc \in {"dropChangelog", "dropOldTable"} /\ options.mode = "execute" => tables["old"] # "none"
    /\ Running /\ pc \in {"dropGhostTable", "onSuccess"} /\ options.mode = "execute" =>
          (tables["old"] = "none") = options.okToDropTable
    /\ Running /\ pc = "onSuccess" /\ Noop => tables["ghost"] = "none"
    /\ Running /\ pc = "done" => panicked \/ Finished
    /\ process = "exit 0" => Finished

-----------------------------------------------------------------------------
(* What holds if the hook that starts replication does not fail.           *)

(* Where a test may have stopped it.                                       *)
Stopped == {"attempt", "failed"} \cup RollbackPlaces \cup RestartPlaces \cup Finish

ReplicationInv == "startHook" \notin Faults /\ Running =>
    replicating \/ panicked \/ (Test /\ pc \in Stopped)

IInv ==
    /\ Typed /\ ControlInv /\ TablesInv /\ KeptInv
    /\ InPlaceInv /\ TestInv /\ FinishInv /\ ReplicationInv

-----------------------------------------------------------------------------
(* The types.                                                              *)

(* The type invariant of Migration is that of these groups of variables.   *)
LEMMA TypeParts == TypeOK <=> Typed
<1>1. {replicating, flagFile, panicked, isPostponing, unpostpone, commanded, told} \subseteq BOOLEAN
      <=> /\ replicating \in BOOLEAN /\ flagFile \in BOOLEAN /\ panicked \in BOOLEAN
          /\ isPostponing \in BOOLEAN /\ unpostpone \in BOOLEAN /\ commanded \in BOOLEAN
          /\ told \in BOOLEAN
    OBVIOUS
<1>2. BeforeServer \cup {"onBeforeRowCopy", "copy", "onRowCopyComplete",
           "onBeforeCutOver", "cutOver", "postpone", "onStopReplication", "stopReplication",
           "attempt", "rollback", "rollbackGhost", "rollbackOld", "onStartReplication",
           "startReplication", "retry", "blocked", "dropChangelog", "dropOldTable",
           "dropGhostTable", "onSuccess", "done", "failed", "exited"}
      = Beginning \cup Setup \cup {"onRowCopyComplete", "onBeforeCutOver"} \cup CutOverPlaces
          \cup Finish \cup {"failed", "exited"}
    BY DEF Beginning, Setup, BeforeServer, CutOverPlaces, TestPlaces, RollbackPlaces, RestartPlaces, Finish
<1> QED
    BY <1>1, <1>2 DEF TypeOK, Typed, WorldType, RunType, CountType, FlagType, PlaceType

LEMMA Bounds == MaxRetries \in Nat \ {0} /\ MaxRuns \in Nat \ {0}
BY MigrationAssumption

(* Tables, replication, flag file.                                         *)
LEMMA WorldTypeKept ==
    ASSUME WorldType, Next
    PROVE  WorldType'
<1>1. ASSUME UNCHANGED <<tables, replicating, flagFile>> PROVE WorldType'
    BY <1>1 DEF WorldType
<1>2. ASSUME \/ OnStartup \/ InitiateInspector \/ AwaitGhostTableMigrated
             \/ InspectOriginalAndGhostTables \/ OnValidated \/ Prepare
      PROVE  WorldType'
    BY <1>2, <1>1
    DEF OnStartup, Hook, Step, Goto, Fails, given, postVars, InitiateInspector,
        AwaitGhostTableMigrated, InspectOriginalAndGhostTables, Queries, OnValidated,
        Prepare
<1>3. ASSUME \/ OnBeforeRowCopy \/ OnRowCopyComplete \/ OnBeforeCutOver
             \/ BeginCutOver \/ Postpone \/ ReturnCutOverError
      PROVE  WorldType'
    BY <1>3, <1>1
    DEF OnBeforeRowCopy, Hook, Step, Goto, Fails, given, postVars, OnRowCopyComplete,
        OnBeforeCutOver, BeginCutOver, CutOverSucceeds, Postpone, EndsPostponing,
        Unpostponed, ReturnCutOverError, CutOverFails, Panic
<1>4. ASSUME \/ OnSuccess \/ ListenOnPanicAbort \/ Killed \/ ExitWithError
             \/ ExitDone \/ CommandUnpostpone
      PROVE  WorldType'
    BY <1>4, <1>1
    DEF OnSuccess, Step, Goto, Fails, given, postVars, ListenOnPanicAbort, Exit, world,
        Killed, ExitWithError, ExitDone, CommandUnpostpone
<1>5. ASSUME \/ SetUnpostpone \/ CommandPanic
      PROVE  WorldType'
    BY <1>5, <1>1 DEF SetUnpostpone, world, given, CommandPanic, postVars
<1>6. ASSUME ApplicationWrites PROVE WorldType'
    BY <1>6 DEF WorldType, Names, Contents, Complete, ApplicationWrites, given, postVars
<1>7. ASSUME OperatorTouchesFlagFile PROVE WorldType'
    BY <1>7
    DEF WorldType, Names, Contents, Complete, OperatorTouchesFlagFile, given, postVars
<1>8. ASSUME ValidateOrDropExistingTables PROVE WorldType'
    BY <1>8
    DEF WorldType, Names, Contents, Complete, ValidateOrDropExistingTables,
        DropLeftover, CheckLeftover, Dropped, Step, Goto, Fails, given, postVars
<1>9. ASSUME CreateChangelogTable PROVE WorldType'
    BY <1>9
    DEF WorldType, Names, Contents, Complete, CreateChangelogTable, Creates, Step, Goto,
        Fails, given, postVars
<1>10. ASSUME CreateGhostTable PROVE WorldType'
    BY <1>10
    DEF WorldType, Names, Contents, Complete, CreateGhostTable, Creates, Step, Goto,
        Fails, given, postVars
<1>11. ASSUME AlterGhost PROVE WorldType'
    BY <1>11
    DEF WorldType, Names, Contents, Complete, AlterGhost, Creates, Step, Goto, Fails,
        given, postVars
<1>12. ASSUME WriteChangelogState PROVE WorldType'
    BY <1>12
    DEF WorldType, Names, Contents, Complete, WriteChangelogState, Step, Goto, given,
        postVars
<1>13. ASSUME CreateFlagFiles PROVE WorldType'
    BY <1>13
    DEF WorldType, Names, Contents, Complete, CreateFlagFiles, Goto, Fails, given,
        postVars
<1>14. ASSUME ConsumeRowCopyComplete PROVE WorldType'
    BY <1>14
    DEF WorldType, Names, Contents, Complete, ConsumeRowCopyComplete, Step, Goto, Panic,
        given, postVars
<1>15. ASSUME OnStopReplication PROVE WorldType'
    BY <1>15
    DEF WorldType, Names, Contents, Complete, OnStopReplication, CutOverFails, Panic,
        Step, Goto, given, postVars
<1>16. ASSUME StopReplication PROVE WorldType'
    BY <1>16
    DEF WorldType, Names, Contents, Complete, StopReplication, CutOverPanics, Step,
        Goto, given, postVars
<1>17. ASSUME AtomicCutOver PROVE WorldType'
    BY <1>17
    DEF WorldType, Names, Contents, Complete, AtomicCutOver, Handle, Swapped, CanSwap,
        Dropped, Step, given, postVars
<1>18. ASSUME CutOverTwoStep PROVE WorldType'
    BY <1>18
    DEF WorldType, Names, Contents, Complete, CutOverTwoStep, Handle, Swapped, CanSwap,
        Step, given, postVars
<1>19. ASSUME RenameTablesRollback PROVE WorldType'
    BY <1>19
    DEF WorldType, Names, Contents, Complete, RenameTablesRollback, Handled, CanRename,
        Step, Goto, given, postVars
<1>20. ASSUME RenameBackToGhost PROVE WorldType'
    BY <1>20
    DEF WorldType, Names, Contents, Complete, RenameBackToGhost, RenameBack, Renamed,
        CanRename, Step, Goto, given, postVars
<1>21. ASSUME RenameBackToOriginal PROVE WorldType'
    BY <1>21
    DEF WorldType, Names, Contents, Complete, RenameBackToOriginal, RenameBack, Renamed,
        CanRename, Handled, Step, Goto, given, postVars
<1>22. ASSUME OnStartReplication PROVE WorldType'
    BY <1>22
    DEF WorldType, Names, Contents, Complete, OnStartReplication, Step, Goto, given,
        postVars
<1>23. ASSUME StartReplication PROVE WorldType'
    BY <1>23
    DEF WorldType, Names, Contents, Complete, StartReplication, Panic, Step, Goto,
        given, postVars
<1>24. ASSUME FinalCleanup PROVE WorldType'
    BY <1>24
    DEF WorldType, Names, Contents, Complete, FinalCleanup, FinalDrop, CleanupFails,
        Panic, Dropped, Step, Goto, given, postVars
<1>25. ASSUME Start PROVE WorldType'
    BY <1>25 DEF WorldType, Names, Contents, Complete, Start, postVars
<1> QED
    BY <1>1, <1>2, <1>3, <1>4, <1>5, <1>6, <1>7, <1>8, <1>9, <1>10, <1>11, <1>12, <1>13,
       <1>14, <1>15, <1>16, <1>17, <1>18, <1>19, <1>20, <1>21, <1>22, <1>23, <1>24,
       <1>25
    DEF Next, Migrate, Initiate, CutOverSteps, Exits

(* Options, runs, the end of a run.                                        *)
LEMMA RunTypeKept ==
    ASSUME RunType, Next
    PROVE  RunType'
<1>1. ASSUME UNCHANGED <<options, process>> PROVE RunType'
    BY <1>1 DEF RunType
<1>2. ASSUME \/ ApplicationWrites \/ OperatorTouchesFlagFile \/ OnStartup
             \/ InitiateInspector \/ ValidateOrDropExistingTables
             \/ CreateChangelogTable
      PROVE  RunType'
    BY <1>2, <1>1
    DEF ApplicationWrites, given, postVars, OperatorTouchesFlagFile, OnStartup, Hook,
        Step, Goto, Fails, InitiateInspector, ValidateOrDropExistingTables,
        DropLeftover, CheckLeftover, Dropped, CreateChangelogTable, Creates
<1>3. ASSUME \/ CreateGhostTable \/ AlterGhost \/ WriteChangelogState
             \/ CreateFlagFiles \/ AwaitGhostTableMigrated
             \/ InspectOriginalAndGhostTables
      PROVE  RunType'
    BY <1>3, <1>1
    DEF CreateGhostTable, Creates, Step, Goto, Fails, given, postVars, AlterGhost,
        WriteChangelogState, CreateFlagFiles, AwaitGhostTableMigrated,
        InspectOriginalAndGhostTables, Queries
<1>4. ASSUME \/ OnValidated \/ Prepare \/ OnBeforeRowCopy
             \/ ConsumeRowCopyComplete \/ OnRowCopyComplete \/ OnBeforeCutOver
      PROVE  RunType'
    BY <1>4, <1>1
    DEF OnValidated, Hook, Step, Goto, Fails, given, postVars, Prepare, Queries,
        OnBeforeRowCopy, ConsumeRowCopyComplete, Panic, OnRowCopyComplete,
        OnBeforeCutOver
<1>5. ASSUME \/ BeginCutOver \/ Postpone \/ OnStopReplication \/ StopReplication
             \/ AtomicCutOver \/ CutOverTwoStep
      PROVE  RunType'
    BY <1>5, <1>1
    DEF BeginCutOver, CutOverSucceeds, Step, Goto, given, postVars, Postpone,
        EndsPostponing, Unpostponed, OnStopReplication, CutOverFails, Panic,
        StopReplication, CutOverPanics, AtomicCutOver, Handle, Swapped, CanSwap,
        Dropped, CutOverTwoStep
<1>6. ASSUME \/ ReturnCutOverError \/ RenameTablesRollback \/ RenameBackToGhost
             \/ RenameBackToOriginal \/ OnStartReplication \/ StartReplication
      PROVE  RunType'
    BY <1>6, <1>1
    DEF ReturnCutOverError, CutOverFails, Panic, Step, given, postVars,
        RenameTablesRollback, Handled, CanRename, Goto, RenameBackToGhost, RenameBack,
        Renamed, RenameBackToOriginal, OnStartReplication, StartReplication
<1>7. ASSUME \/ FinalCleanup \/ OnSuccess \/ CommandUnpostpone \/ SetUnpostpone
             \/ CommandPanic
      PROVE  RunType'
    BY <1>7, <1>1
    DEF FinalCleanup, FinalDrop, CleanupFails, Panic, Dropped, Step, Goto, given,
        postVars, OnSuccess, Fails, CommandUnpostpone, world, SetUnpostpone,
        CommandPanic
<1>8. ASSUME ListenOnPanicAbort PROVE RunType'
    BY <1>8 DEF RunType, ListenOnPanicAbort, Exit, world
<1>9. ASSUME Killed PROVE RunType'
    BY <1>9 DEF RunType, Killed, Exit, world
<1>10. ASSUME ExitWithError PROVE RunType'
    BY <1>10 DEF RunType, ExitWithError, Exit, world
<1>11. ASSUME ExitDone PROVE RunType'
    BY <1>11 DEF RunType, ExitDone, Exit, world
<1>12. ASSUME Start PROVE RunType'
    BY <1>12 DEF RunType, Start, postVars
<1> QED
    BY <1>1, <1>2, <1>3, <1>4, <1>5, <1>6, <1>7, <1>8, <1>9, <1>10, <1>11, <1>12
    DEF Next, Migrate, Initiate, CutOverSteps, Exits

(* Runs and attempts: neither goes beyond its bound.                       *)
LEMMA CountTypeKept ==
    ASSUME CountType, Next
    PROVE  CountType'
<1>1. ASSUME UNCHANGED <<runs, tries>> PROVE CountType'
    BY <1>1 DEF CountType
<1>2. ASSUME \/ ApplicationWrites \/ OperatorTouchesFlagFile \/ OnStartup
             \/ InitiateInspector \/ ValidateOrDropExistingTables
             \/ CreateChangelogTable
      PROVE  CountType'
    BY <1>2, <1>1
    DEF ApplicationWrites, given, postVars, OperatorTouchesFlagFile, OnStartup, Hook,
        Step, Goto, Fails, InitiateInspector, ValidateOrDropExistingTables,
        DropLeftover, CheckLeftover, Dropped, CreateChangelogTable, Creates
<1>3. ASSUME \/ CreateGhostTable \/ AlterGhost \/ WriteChangelogState
             \/ CreateFlagFiles \/ AwaitGhostTableMigrated
             \/ InspectOriginalAndGhostTables
      PROVE  CountType'
    BY <1>3, <1>1
    DEF CreateGhostTable, Creates, Step, Goto, Fails, given, postVars, AlterGhost,
        WriteChangelogState, CreateFlagFiles, AwaitGhostTableMigrated,
        InspectOriginalAndGhostTables, Queries
<1>4. ASSUME \/ OnValidated \/ Prepare \/ OnBeforeRowCopy
             \/ ConsumeRowCopyComplete \/ OnRowCopyComplete \/ OnBeforeCutOver
      PROVE  CountType'
    BY <1>4, <1>1
    DEF OnValidated, Hook, Step, Goto, Fails, given, postVars, Prepare, Queries,
        OnBeforeRowCopy, ConsumeRowCopyComplete, Panic, OnRowCopyComplete,
        OnBeforeCutOver
<1>5. ASSUME \/ BeginCutOver \/ Postpone \/ AtomicCutOver \/ CutOverTwoStep
             \/ RenameTablesRollback \/ RenameBackToGhost
      PROVE  CountType'
    BY <1>5, <1>1
    DEF BeginCutOver, CutOverSucceeds, Step, Goto, given, postVars, Postpone,
        EndsPostponing, Unpostponed, AtomicCutOver, Handle, Swapped, CanSwap, Dropped,
        CutOverTwoStep, RenameTablesRollback, Handled, CanRename, RenameBackToGhost,
        RenameBack, Renamed
<1>6. ASSUME \/ RenameBackToOriginal \/ OnStartReplication \/ StartReplication
             \/ FinalCleanup \/ OnSuccess \/ CommandUnpostpone
      PROVE  CountType'
    BY <1>6, <1>1
    DEF RenameBackToOriginal, RenameBack, Renamed, CanRename, Handled, Step, Goto,
        given, postVars, OnStartReplication, StartReplication, Panic, FinalCleanup,
        FinalDrop, CleanupFails, Dropped, OnSuccess, Fails, CommandUnpostpone, world
<1>7. ASSUME \/ SetUnpostpone \/ CommandPanic
      PROVE  CountType'
    BY <1>7, <1>1 DEF SetUnpostpone, world, given, CommandPanic, postVars
<1>8. ASSUME OnStopReplication PROVE CountType'
  <2>1. UNCHANGED runs /\ (UNCHANGED tries \/ (tries + 1 < MaxRetries /\ tries' = tries + 1))
    BY <1>8 DEF OnStopReplication, CutOverFails, Panic, Step, Goto, given, postVars
  <2> QED
    BY <2>1, Bounds DEF CountType
<1>9. ASSUME StopReplication PROVE CountType'
  <2>1. UNCHANGED runs /\ (UNCHANGED tries \/ (tries + 1 < MaxRetries /\ tries' = tries + 1))
    BY <1>9 DEF StopReplication, CutOverPanics, Step, Goto, given, postVars
  <2> QED
    BY <2>1, Bounds DEF CountType
<1>10. ASSUME ReturnCutOverError PROVE CountType'
  <2>1. UNCHANGED runs /\ (UNCHANGED tries \/ (tries + 1 < MaxRetries /\ tries' = tries + 1))
    BY <1>10 DEF ReturnCutOverError, CutOverFails, Panic, Step, given, postVars
  <2> QED
    BY <2>1, Bounds DEF CountType
<1>11. ASSUME ListenOnPanicAbort PROVE CountType'
  <2>1. UNCHANGED runs /\ tries' = 0
    BY <1>11 DEF ListenOnPanicAbort, Exit, world
  <2> QED
    BY <2>1, Bounds DEF CountType
<1>12. ASSUME Killed PROVE CountType'
  <2>1. UNCHANGED runs /\ tries' = 0
    BY <1>12 DEF Killed, Exit, world
  <2> QED
    BY <2>1, Bounds DEF CountType
<1>13. ASSUME ExitWithError PROVE CountType'
  <2>1. UNCHANGED runs /\ tries' = 0
    BY <1>13 DEF ExitWithError, Exit, world
  <2> QED
    BY <2>1, Bounds DEF CountType
<1>14. ASSUME ExitDone PROVE CountType'
  <2>1. UNCHANGED runs /\ tries' = 0
    BY <1>14 DEF ExitDone, Exit, world
  <2> QED
    BY <2>1, Bounds DEF CountType
<1>15. ASSUME Start PROVE CountType'
    BY <1>15, Bounds DEF CountType, Start, postVars
<1> QED
    BY <1>1, <1>2, <1>3, <1>4, <1>5, <1>6, <1>7, <1>8, <1>9, <1>10, <1>11, <1>12, <1>13,
       <1>14, <1>15
    DEF Next, Migrate, Initiate, CutOverSteps, Exits

(* What the goroutines share.                                              *)
LEMMA FlagTypeKept ==
    ASSUME FlagType, Next
    PROVE  FlagType'
<1>1. ASSUME UNCHANGED <<panicked, isPostponing, unpostpone, commanded, told>> PROVE FlagType'
    BY <1>1 DEF FlagType
<1>2. ASSUME \/ ApplicationWrites \/ OperatorTouchesFlagFile \/ OnStartup
             \/ InitiateInspector \/ ValidateOrDropExistingTables
             \/ CreateChangelogTable
      PROVE  FlagType'
    BY <1>2, <1>1
    DEF ApplicationWrites, given, postVars, OperatorTouchesFlagFile, OnStartup, Hook,
        Step, Goto, Fails, InitiateInspector, ValidateOrDropExistingTables,
        DropLeftover, CheckLeftover, Dropped, CreateChangelogTable, Creates
<1>3. ASSUME \/ CreateGhostTable \/ AlterGhost \/ WriteChangelogState
             \/ CreateFlagFiles \/ AwaitGhostTableMigrated
             \/ InspectOriginalAndGhostTables
      PROVE  FlagType'
    BY <1>3, <1>1
    DEF CreateGhostTable, Creates, Step, Goto, Fails, given, postVars, AlterGhost,
        WriteChangelogState, CreateFlagFiles, AwaitGhostTableMigrated,
        InspectOriginalAndGhostTables, Queries
<1>4. ASSUME \/ OnValidated \/ Prepare \/ OnBeforeRowCopy \/ OnRowCopyComplete
             \/ OnBeforeCutOver \/ BeginCutOver
      PROVE  FlagType'
    BY <1>4, <1>1
    DEF OnValidated, Hook, Step, Goto, Fails, given, postVars, Prepare, Queries,
        OnBeforeRowCopy, OnRowCopyComplete, OnBeforeCutOver, BeginCutOver,
        CutOverSucceeds
<1>5. ASSUME \/ AtomicCutOver \/ RenameTablesRollback \/ RenameBackToGhost
             \/ RenameBackToOriginal \/ OnStartReplication
      PROVE  FlagType'
    BY <1>5, <1>1
    DEF AtomicCutOver, Handle, Swapped, CanSwap, Dropped, Step, given, postVars,
        RenameTablesRollback, Handled, CanRename, Goto, RenameBackToGhost, RenameBack,
        Renamed, RenameBackToOriginal, OnStartReplication
<1>6. ASSUME ConsumeRowCopyComplete PROVE FlagType'
    BY <1>6 DEF FlagType, ConsumeRowCopyComplete, Step, Goto, Panic, given, postVars
<1>7. ASSUME Postpone PROVE FlagType'
    BY <1>7
    DEF FlagType, Postpone, EndsPostponing, Unpostponed, Step, Goto, given, postVars
<1>8. ASSUME OnStopReplication PROVE FlagType'
    BY <1>8
    DEF FlagType, OnStopReplication, CutOverFails, Panic, Step, Goto, given, postVars
<1>9. ASSUME StopReplication PROVE FlagType'
    BY <1>9 DEF FlagType, StopReplication, CutOverPanics, Step, Goto, given, postVars
<1>10. ASSUME CutOverTwoStep PROVE FlagType'
    BY <1>10
    DEF FlagType, CutOverTwoStep, Handle, Swapped, CanSwap, Step, given, postVars
<1>11. ASSUME ReturnCutOverError PROVE FlagType'
    BY <1>11
    DEF FlagType, ReturnCutOverError, CutOverFails, Panic, Step, given, postVars
<1>12. ASSUME StartReplication PROVE FlagType'
    BY <1>12 DEF FlagType, StartReplication, Panic, Step, Goto, given, postVars
<1>13. ASSUME FinalCleanup PROVE FlagType'
    BY <1>13
    DEF FlagType, FinalCleanup, FinalDrop, CleanupFails, Panic, Dropped, Step, Goto,
        given, postVars
<1>14. ASSUME OnSuccess PROVE FlagType'
    BY <1>14 DEF FlagType, OnSuccess, Step, Goto, Fails, given, postVars
<1>15. ASSUME ListenOnPanicAbort PROVE FlagType'
    BY <1>15 DEF FlagType, ListenOnPanicAbort, Exit, world
<1>16. ASSUME Killed PROVE FlagType'
    BY <1>16 DEF FlagType, Killed, Exit, world
<1>17. ASSUME ExitWithError PROVE FlagType'
    BY <1>17 DEF FlagType, ExitWithError, Exit, world
<1>18. ASSUME ExitDone PROVE FlagType'
    BY <1>18 DEF FlagType, ExitDone, Exit, world
<1>19. ASSUME Start PROVE FlagType'
    BY <1>19 DEF FlagType, Start, postVars
<1>20. ASSUME CommandUnpostpone PROVE FlagType'
    BY <1>20 DEF FlagType, CommandUnpostpone, world, given
<1>21. ASSUME SetUnpostpone PROVE FlagType'
    BY <1>21 DEF FlagType, SetUnpostpone, world, given
<1>22. ASSUME CommandPanic PROVE FlagType'
    BY <1>22 DEF FlagType, CommandPanic, world, given, postVars
<1> QED
    BY <1>1, <1>2, <1>3, <1>4, <1>5, <1>6, <1>7, <1>8, <1>9, <1>10, <1>11, <1>12, <1>13,
       <1>14, <1>15, <1>16, <1>17, <1>18, <1>19, <1>20, <1>21, <1>22
    DEF Next, Migrate, Initiate, CutOverSteps, Exits

(* Where Migrate is, and the attempt.                                      *)
LEMMA PlaceTypeKept ==
    ASSUME PlaceType, Next
    PROVE  PlaceType'
<1>1. ASSUME UNCHANGED <<pc, outcome>> PROVE PlaceType'
    BY <1>1 DEF PlaceType
<1>2. ASSUME \/ ApplicationWrites \/ OperatorTouchesFlagFile \/ CommandUnpostpone
             \/ SetUnpostpone \/ CommandPanic
      PROVE  PlaceType'
    BY <1>2, <1>1
    DEF ApplicationWrites, given, postVars, OperatorTouchesFlagFile, CommandUnpostpone,
        world, SetUnpostpone, CommandPanic
<1>3. ASSUME OnStartup PROVE PlaceType'
    BY <1>3
    DEF PlaceType, Running, Beginning, Setup, BeforeServer, CutOverPlaces, TestPlaces,
        RollbackPlaces, RestartPlaces, Finish, OnStartup, Hook, Step, Goto, Fails,
        given, postVars
<1>4. ASSUME InitiateInspector PROVE PlaceType'
    BY <1>4
    DEF PlaceType, Running, Beginning, Setup, BeforeServer, CutOverPlaces, TestPlaces,
        RollbackPlaces, RestartPlaces, Finish, InitiateInspector, Step, Goto, Fails,
        given, postVars
<1>5. ASSUME ValidateOrDropExistingTables PROVE PlaceType'
    BY <1>5
    DEF PlaceType, Running, Beginning, Setup, BeforeServer, CutOverPlaces, TestPlaces,
        RollbackPlaces, RestartPlaces, Finish, ValidateOrDropExistingTables,
        DropLeftover, CheckLeftover, Dropped, Step, Goto, Fails, given, postVars
<1>6. ASSUME CreateChangelogTable PROVE PlaceType'
    BY <1>6
    DEF PlaceType, Running, Beginning, Setup, BeforeServer, CutOverPlaces, TestPlaces,
        RollbackPlaces, RestartPlaces, Finish, CreateChangelogTable, Creates, Step,
        Goto, Fails, given, postVars
<1>7. ASSUME CreateGhostTable PROVE PlaceType'
    BY <1>7
    DEF PlaceType, Running, Beginning, Setup, BeforeServer, CutOverPlaces, TestPlaces,
        RollbackPlaces, RestartPlaces, Finish, CreateGhostTable, Creates, Step, Goto,
        Fails, given, postVars
<1>8. ASSUME AlterGhost PROVE PlaceType'
    BY <1>8
    DEF PlaceType, Running, Beginning, Setup, BeforeServer, CutOverPlaces, TestPlaces,
        RollbackPlaces, RestartPlaces, Finish, AlterGhost, Creates, Step, Goto, Fails,
        given, postVars
<1>9. ASSUME WriteChangelogState PROVE PlaceType'
    BY <1>9
    DEF PlaceType, Running, Beginning, Setup, BeforeServer, CutOverPlaces, TestPlaces,
        RollbackPlaces, RestartPlaces, Finish, WriteChangelogState, Step, Goto, given,
        postVars
<1>10. ASSUME CreateFlagFiles PROVE PlaceType'
    BY <1>10
    DEF PlaceType, Running, Beginning, Setup, BeforeServer, CutOverPlaces, TestPlaces,
        RollbackPlaces, RestartPlaces, Finish, CreateFlagFiles, Goto, Fails, given,
        postVars
<1>11. ASSUME AwaitGhostTableMigrated PROVE PlaceType'
    BY <1>11
    DEF PlaceType, Running, Beginning, Setup, BeforeServer, CutOverPlaces, TestPlaces,
        RollbackPlaces, RestartPlaces, Finish, AwaitGhostTableMigrated, Step, Goto,
        given, postVars
<1>12. ASSUME InspectOriginalAndGhostTables PROVE PlaceType'
    BY <1>12
    DEF PlaceType, Running, Beginning, Setup, BeforeServer, CutOverPlaces, TestPlaces,
        RollbackPlaces, RestartPlaces, Finish, InspectOriginalAndGhostTables, Queries,
        Step, Goto, Fails, given, postVars
<1>13. ASSUME OnValidated PROVE PlaceType'
    BY <1>13
    DEF PlaceType, Running, Beginning, Setup, BeforeServer, CutOverPlaces, TestPlaces,
        RollbackPlaces, RestartPlaces, Finish, OnValidated, Hook, Step, Goto, Fails,
        given, postVars
<1>14. ASSUME Prepare PROVE PlaceType'
    BY <1>14
    DEF PlaceType, Running, Beginning, Setup, BeforeServer, CutOverPlaces, TestPlaces,
        RollbackPlaces, RestartPlaces, Finish, Prepare, Queries, Step, Goto, Fails,
        given, postVars
<1>15. ASSUME OnBeforeRowCopy PROVE PlaceType'
    BY <1>15
    DEF PlaceType, Running, Beginning, Setup, BeforeServer, CutOverPlaces, TestPlaces,
        RollbackPlaces, RestartPlaces, Finish, OnBeforeRowCopy, Hook, Step, Goto, Fails,
        given, postVars
<1>16. ASSUME ConsumeRowCopyComplete PROVE PlaceType'
    BY <1>16
    DEF PlaceType, Running, Beginning, Setup, BeforeServer, CutOverPlaces, TestPlaces,
        RollbackPlaces, RestartPlaces, Finish, ConsumeRowCopyComplete, Step, Goto,
        Panic, given, postVars
<1>17. ASSUME OnRowCopyComplete PROVE PlaceType'
    BY <1>17
    DEF PlaceType, Running, Beginning, Setup, BeforeServer, CutOverPlaces, TestPlaces,
        RollbackPlaces, RestartPlaces, Finish, OnRowCopyComplete, Hook, Step, Goto,
        Fails, given, postVars
<1>18. ASSUME OnBeforeCutOver PROVE PlaceType'
    BY <1>18
    DEF PlaceType, Running, Beginning, Setup, BeforeServer, CutOverPlaces, TestPlaces,
        RollbackPlaces, RestartPlaces, Finish, OnBeforeCutOver, Hook, Step, Goto, Fails,
        given, postVars
<1>19. ASSUME BeginCutOver PROVE PlaceType'
    BY <1>19
    DEF PlaceType, Running, Beginning, Setup, BeforeServer, CutOverPlaces, TestPlaces,
        RollbackPlaces, RestartPlaces, Finish, BeginCutOver, CutOverSucceeds, Step,
        Goto, given, postVars
<1>20. ASSUME Postpone PROVE PlaceType'
    BY <1>20
    DEF PlaceType, Running, Beginning, Setup, BeforeServer, CutOverPlaces, TestPlaces,
        RollbackPlaces, RestartPlaces, Finish, Postpone, EndsPostponing, Unpostponed,
        Step, Goto, given, postVars
<1>21. ASSUME OnStopReplication PROVE PlaceType'
    BY <1>21
    DEF PlaceType, Running, Beginning, Setup, BeforeServer, CutOverPlaces, TestPlaces,
        RollbackPlaces, RestartPlaces, Finish, OnStopReplication, CutOverFails, Panic,
        Step, Goto, given, postVars
<1>22. ASSUME StopReplication PROVE PlaceType'
    BY <1>22
    DEF PlaceType, Running, Beginning, Setup, BeforeServer, CutOverPlaces, TestPlaces,
        RollbackPlaces, RestartPlaces, Finish, StopReplication, CutOverPanics, Step,
        Goto, given, postVars
<1>23. ASSUME AtomicCutOver PROVE PlaceType'
    BY <1>23
    DEF PlaceType, Running, Beginning, Setup, BeforeServer, CutOverPlaces, TestPlaces,
        RollbackPlaces, RestartPlaces, Finish, AtomicCutOver, Handle, Swapped, CanSwap,
        Dropped, Step, given, postVars
<1>24. ASSUME CutOverTwoStep PROVE PlaceType'
    BY <1>24
    DEF PlaceType, Running, Beginning, Setup, BeforeServer, CutOverPlaces, TestPlaces,
        RollbackPlaces, RestartPlaces, Finish, CutOverTwoStep, Handle, Swapped, CanSwap,
        Step, given, postVars
<1>25. ASSUME ReturnCutOverError PROVE PlaceType'
    BY <1>25
    DEF PlaceType, Running, Beginning, Setup, BeforeServer, CutOverPlaces, TestPlaces,
        RollbackPlaces, RestartPlaces, Finish, ReturnCutOverError, CutOverFails, Panic,
        Step, given, postVars
<1>26. ASSUME RenameTablesRollback PROVE PlaceType'
    BY <1>26
    DEF PlaceType, Running, Beginning, Setup, BeforeServer, CutOverPlaces, TestPlaces,
        RollbackPlaces, RestartPlaces, Finish, RenameTablesRollback, Handled, CanRename,
        Step, Goto, given, postVars
<1>27. ASSUME RenameBackToGhost PROVE PlaceType'
    BY <1>27
    DEF PlaceType, Running, Beginning, Setup, BeforeServer, CutOverPlaces, TestPlaces,
        RollbackPlaces, RestartPlaces, Finish, RenameBackToGhost, RenameBack, Renamed,
        CanRename, Step, Goto, given, postVars
<1>28. ASSUME RenameBackToOriginal PROVE PlaceType'
    BY <1>28
    DEF PlaceType, Running, Beginning, Setup, BeforeServer, CutOverPlaces, TestPlaces,
        RollbackPlaces, RestartPlaces, Finish, RenameBackToOriginal, RenameBack,
        Renamed, CanRename, Handled, Step, Goto, given, postVars
<1>29. ASSUME OnStartReplication PROVE PlaceType'
    BY <1>29
    DEF PlaceType, Running, Beginning, Setup, BeforeServer, CutOverPlaces, TestPlaces,
        RollbackPlaces, RestartPlaces, Finish, OnStartReplication, Step, Goto, given,
        postVars
<1>30. ASSUME StartReplication PROVE PlaceType'
    BY <1>30
    DEF PlaceType, Running, Beginning, Setup, BeforeServer, CutOverPlaces, TestPlaces,
        RollbackPlaces, RestartPlaces, Finish, StartReplication, Panic, Step, Goto,
        given, postVars
<1>31. ASSUME FinalCleanup PROVE PlaceType'
    BY <1>31
    DEF PlaceType, Running, Beginning, Setup, BeforeServer, CutOverPlaces, TestPlaces,
        RollbackPlaces, RestartPlaces, Finish, FinalCleanup, FinalDrop, CleanupFails,
        Panic, Dropped, Step, Goto, given, postVars
<1>32. ASSUME OnSuccess PROVE PlaceType'
    BY <1>32
    DEF PlaceType, Running, Beginning, Setup, BeforeServer, CutOverPlaces, TestPlaces,
        RollbackPlaces, RestartPlaces, Finish, OnSuccess, Step, Goto, Fails, given,
        postVars
<1>33. ASSUME ListenOnPanicAbort PROVE PlaceType'
    BY <1>33
    DEF PlaceType, Running, Beginning, Setup, BeforeServer, CutOverPlaces, TestPlaces,
        RollbackPlaces, RestartPlaces, Finish, ListenOnPanicAbort, Exit, world
<1>34. ASSUME Killed PROVE PlaceType'
    BY <1>34
    DEF PlaceType, Running, Beginning, Setup, BeforeServer, CutOverPlaces, TestPlaces,
        RollbackPlaces, RestartPlaces, Finish, Killed, Exit, world
<1>35. ASSUME ExitWithError PROVE PlaceType'
    BY <1>35
    DEF PlaceType, Running, Beginning, Setup, BeforeServer, CutOverPlaces, TestPlaces,
        RollbackPlaces, RestartPlaces, Finish, ExitWithError, Exit, world
<1>36. ASSUME ExitDone PROVE PlaceType'
    BY <1>36
    DEF PlaceType, Running, Beginning, Setup, BeforeServer, CutOverPlaces, TestPlaces,
        RollbackPlaces, RestartPlaces, Finish, ExitDone, Exit, world
<1>37. ASSUME Start PROVE PlaceType'
    BY <1>37
    DEF PlaceType, Running, Beginning, Setup, BeforeServer, CutOverPlaces, TestPlaces,
        RollbackPlaces, RestartPlaces, Finish, Start, postVars
<1> QED
    BY <1>1, <1>2, <1>3, <1>4, <1>5, <1>6, <1>7, <1>8, <1>9, <1>10, <1>11, <1>12, <1>13,
       <1>14, <1>15, <1>16, <1>17, <1>18, <1>19, <1>20, <1>21, <1>22, <1>23, <1>24,
       <1>25, <1>26, <1>27, <1>28, <1>29, <1>30, <1>31, <1>32, <1>33, <1>34, <1>35,
       <1>36, <1>37
    DEF Next, Migrate, Initiate, CutOverSteps, Exits

(* Every step keeps the run to the places of its mode.                     *)
LEMMA ControlKept ==
    ASSUME Typed, ControlInv, Next
    PROVE  ControlInv'
<1>1. ASSUME UNCHANGED <<process, options, pc>> PROVE ControlInv'
    BY <1>1 DEF ControlInv, Noop, Test, Running
<1>2. ASSUME \/ ApplicationWrites \/ OperatorTouchesFlagFile \/ CommandUnpostpone
             \/ SetUnpostpone \/ CommandPanic
      PROVE  ControlInv'
    BY <1>2, <1>1
    DEF ApplicationWrites, given, postVars, OperatorTouchesFlagFile, CommandUnpostpone,
        world, SetUnpostpone, CommandPanic
<1>3. ASSUME OnStartup PROVE ControlInv'
    BY <1>3
    DEF ControlInv, Noop, Test, Running, Typed, PlaceType, RunType, Beginning, Setup,
        BeforeServer, CutOverPlaces, TestPlaces, RollbackPlaces, RestartPlaces, Finish,
        OnStartup, Hook, Step, Goto, Fails, given, postVars
<1>4. ASSUME InitiateInspector PROVE ControlInv'
    BY <1>4
    DEF ControlInv, Noop, Test, Running, Typed, PlaceType, RunType, Beginning, Setup,
        BeforeServer, CutOverPlaces, TestPlaces, RollbackPlaces, RestartPlaces, Finish,
        InitiateInspector, Step, Goto, Fails, given, postVars
<1>5. ASSUME ValidateOrDropExistingTables PROVE ControlInv'
    BY <1>5
    DEF ControlInv, Noop, Test, Running, Typed, PlaceType, RunType, Beginning, Setup,
        BeforeServer, CutOverPlaces, TestPlaces, RollbackPlaces, RestartPlaces, Finish,
        ValidateOrDropExistingTables, DropLeftover, CheckLeftover, Dropped, Step, Goto,
        Fails, given, postVars
<1>6. ASSUME CreateChangelogTable PROVE ControlInv'
    BY <1>6
    DEF ControlInv, Noop, Test, Running, Typed, PlaceType, RunType, Beginning, Setup,
        BeforeServer, CutOverPlaces, TestPlaces, RollbackPlaces, RestartPlaces, Finish,
        CreateChangelogTable, Creates, Step, Goto, Fails, given, postVars
<1>7. ASSUME CreateGhostTable PROVE ControlInv'
    BY <1>7
    DEF ControlInv, Noop, Test, Running, Typed, PlaceType, RunType, Beginning, Setup,
        BeforeServer, CutOverPlaces, TestPlaces, RollbackPlaces, RestartPlaces, Finish,
        CreateGhostTable, Creates, Step, Goto, Fails, given, postVars
<1>8. ASSUME AlterGhost PROVE ControlInv'
    BY <1>8
    DEF ControlInv, Noop, Test, Running, Typed, PlaceType, RunType, Beginning, Setup,
        BeforeServer, CutOverPlaces, TestPlaces, RollbackPlaces, RestartPlaces, Finish,
        AlterGhost, Creates, Step, Goto, Fails, given, postVars
<1>9. ASSUME WriteChangelogState PROVE ControlInv'
    BY <1>9
    DEF ControlInv, Noop, Test, Running, Typed, PlaceType, RunType, Beginning, Setup,
        BeforeServer, CutOverPlaces, TestPlaces, RollbackPlaces, RestartPlaces, Finish,
        WriteChangelogState, Step, Goto, given, postVars
<1>10. ASSUME CreateFlagFiles PROVE ControlInv'
    BY <1>10
    DEF ControlInv, Noop, Test, Running, Typed, PlaceType, RunType, Beginning, Setup,
        BeforeServer, CutOverPlaces, TestPlaces, RollbackPlaces, RestartPlaces, Finish,
        CreateFlagFiles, Goto, Fails, given, postVars
<1>11. ASSUME AwaitGhostTableMigrated PROVE ControlInv'
    BY <1>11
    DEF ControlInv, Noop, Test, Running, Typed, PlaceType, RunType, Beginning, Setup,
        BeforeServer, CutOverPlaces, TestPlaces, RollbackPlaces, RestartPlaces, Finish,
        AwaitGhostTableMigrated, Step, Goto, given, postVars
<1>12. ASSUME InspectOriginalAndGhostTables PROVE ControlInv'
    BY <1>12
    DEF ControlInv, Noop, Test, Running, Typed, PlaceType, RunType, Beginning, Setup,
        BeforeServer, CutOverPlaces, TestPlaces, RollbackPlaces, RestartPlaces, Finish,
        InspectOriginalAndGhostTables, Queries, Step, Goto, Fails, given, postVars
<1>13. ASSUME OnValidated PROVE ControlInv'
    BY <1>13
    DEF ControlInv, Noop, Test, Running, Typed, PlaceType, RunType, Beginning, Setup,
        BeforeServer, CutOverPlaces, TestPlaces, RollbackPlaces, RestartPlaces, Finish,
        OnValidated, Hook, Step, Goto, Fails, given, postVars
<1>14. ASSUME Prepare PROVE ControlInv'
    BY <1>14
    DEF ControlInv, Noop, Test, Running, Typed, PlaceType, RunType, Beginning, Setup,
        BeforeServer, CutOverPlaces, TestPlaces, RollbackPlaces, RestartPlaces, Finish,
        Prepare, Queries, Step, Goto, Fails, given, postVars
<1>15. ASSUME OnBeforeRowCopy PROVE ControlInv'
    BY <1>15
    DEF ControlInv, Noop, Test, Running, Typed, PlaceType, RunType, Beginning, Setup,
        BeforeServer, CutOverPlaces, TestPlaces, RollbackPlaces, RestartPlaces, Finish,
        OnBeforeRowCopy, Hook, Step, Goto, Fails, given, postVars
<1>16. ASSUME ConsumeRowCopyComplete PROVE ControlInv'
    BY <1>16
    DEF ControlInv, Noop, Test, Running, Typed, PlaceType, RunType, Beginning, Setup,
        BeforeServer, CutOverPlaces, TestPlaces, RollbackPlaces, RestartPlaces, Finish,
        ConsumeRowCopyComplete, Step, Goto, Panic, given, postVars
<1>17. ASSUME OnRowCopyComplete PROVE ControlInv'
    BY <1>17
    DEF ControlInv, Noop, Test, Running, Typed, PlaceType, RunType, Beginning, Setup,
        BeforeServer, CutOverPlaces, TestPlaces, RollbackPlaces, RestartPlaces, Finish,
        OnRowCopyComplete, Hook, Step, Goto, Fails, given, postVars
<1>18. ASSUME OnBeforeCutOver PROVE ControlInv'
    BY <1>18
    DEF ControlInv, Noop, Test, Running, Typed, PlaceType, RunType, Beginning, Setup,
        BeforeServer, CutOverPlaces, TestPlaces, RollbackPlaces, RestartPlaces, Finish,
        OnBeforeCutOver, Hook, Step, Goto, Fails, given, postVars
<1>19. ASSUME BeginCutOver PROVE ControlInv'
    BY <1>19
    DEF ControlInv, Noop, Test, Running, Typed, PlaceType, RunType, Beginning, Setup,
        BeforeServer, CutOverPlaces, TestPlaces, RollbackPlaces, RestartPlaces, Finish,
        BeginCutOver, CutOverSucceeds, Step, Goto, given, postVars
<1>20. ASSUME Postpone PROVE ControlInv'
    BY <1>20
    DEF ControlInv, Noop, Test, Running, Typed, PlaceType, RunType, Beginning, Setup,
        BeforeServer, CutOverPlaces, TestPlaces, RollbackPlaces, RestartPlaces, Finish,
        Postpone, EndsPostponing, Unpostponed, Step, Goto, given, postVars
<1>21. ASSUME OnStopReplication PROVE ControlInv'
    BY <1>21
    DEF ControlInv, Noop, Test, Running, Typed, PlaceType, RunType, Beginning, Setup,
        BeforeServer, CutOverPlaces, TestPlaces, RollbackPlaces, RestartPlaces, Finish,
        OnStopReplication, CutOverFails, Panic, Step, Goto, given, postVars
<1>22. ASSUME StopReplication PROVE ControlInv'
    BY <1>22
    DEF ControlInv, Noop, Test, Running, Typed, PlaceType, RunType, Beginning, Setup,
        BeforeServer, CutOverPlaces, TestPlaces, RollbackPlaces, RestartPlaces, Finish,
        StopReplication, CutOverPanics, Step, Goto, given, postVars
<1>23. ASSUME AtomicCutOver PROVE ControlInv'
    BY <1>23
    DEF ControlInv, Noop, Test, Running, Typed, PlaceType, RunType, Beginning, Setup,
        BeforeServer, CutOverPlaces, TestPlaces, RollbackPlaces, RestartPlaces, Finish,
        AtomicCutOver, Handle, Swapped, CanSwap, Dropped, Step, given, postVars
<1>24. ASSUME CutOverTwoStep PROVE ControlInv'
    BY <1>24
    DEF ControlInv, Noop, Test, Running, Typed, PlaceType, RunType, Beginning, Setup,
        BeforeServer, CutOverPlaces, TestPlaces, RollbackPlaces, RestartPlaces, Finish,
        CutOverTwoStep, Handle, Swapped, CanSwap, Step, given, postVars
<1>25. ASSUME ReturnCutOverError PROVE ControlInv'
    BY <1>25
    DEF ControlInv, Noop, Test, Running, Typed, PlaceType, RunType, Beginning, Setup,
        BeforeServer, CutOverPlaces, TestPlaces, RollbackPlaces, RestartPlaces, Finish,
        ReturnCutOverError, CutOverFails, Panic, Step, given, postVars
<1>26. ASSUME RenameTablesRollback PROVE ControlInv'
    BY <1>26
    DEF ControlInv, Noop, Test, Running, Typed, PlaceType, RunType, Beginning, Setup,
        BeforeServer, CutOverPlaces, TestPlaces, RollbackPlaces, RestartPlaces, Finish,
        RenameTablesRollback, Handled, CanRename, Step, Goto, given, postVars
<1>27. ASSUME RenameBackToGhost PROVE ControlInv'
    BY <1>27
    DEF ControlInv, Noop, Test, Running, Typed, PlaceType, RunType, Beginning, Setup,
        BeforeServer, CutOverPlaces, TestPlaces, RollbackPlaces, RestartPlaces, Finish,
        RenameBackToGhost, RenameBack, Renamed, CanRename, Step, Goto, given, postVars
<1>28. ASSUME RenameBackToOriginal PROVE ControlInv'
    BY <1>28
    DEF ControlInv, Noop, Test, Running, Typed, PlaceType, RunType, Beginning, Setup,
        BeforeServer, CutOverPlaces, TestPlaces, RollbackPlaces, RestartPlaces, Finish,
        RenameBackToOriginal, RenameBack, Renamed, CanRename, Handled, Step, Goto,
        given, postVars
<1>29. ASSUME OnStartReplication PROVE ControlInv'
    BY <1>29
    DEF ControlInv, Noop, Test, Running, Typed, PlaceType, RunType, Beginning, Setup,
        BeforeServer, CutOverPlaces, TestPlaces, RollbackPlaces, RestartPlaces, Finish,
        OnStartReplication, Step, Goto, given, postVars
<1>30. ASSUME StartReplication PROVE ControlInv'
    BY <1>30
    DEF ControlInv, Noop, Test, Running, Typed, PlaceType, RunType, Beginning, Setup,
        BeforeServer, CutOverPlaces, TestPlaces, RollbackPlaces, RestartPlaces, Finish,
        StartReplication, Panic, Step, Goto, given, postVars
<1>31. ASSUME FinalCleanup PROVE ControlInv'
    BY <1>31
    DEF ControlInv, Noop, Test, Running, Typed, PlaceType, RunType, Beginning, Setup,
        BeforeServer, CutOverPlaces, TestPlaces, RollbackPlaces, RestartPlaces, Finish,
        FinalCleanup, FinalDrop, CleanupFails, Panic, Dropped, Step, Goto, given,
        postVars
<1>32. ASSUME OnSuccess PROVE ControlInv'
    BY <1>32
    DEF ControlInv, Noop, Test, Running, Typed, PlaceType, RunType, Beginning, Setup,
        BeforeServer, CutOverPlaces, TestPlaces, RollbackPlaces, RestartPlaces, Finish,
        OnSuccess, Step, Goto, Fails, given, postVars
<1>33. ASSUME ListenOnPanicAbort PROVE ControlInv'
    BY <1>33
    DEF ControlInv, Noop, Test, Running, Typed, PlaceType, RunType, Beginning, Setup,
        BeforeServer, CutOverPlaces, TestPlaces, RollbackPlaces, RestartPlaces, Finish,
        ListenOnPanicAbort, Exit, world
<1>34. ASSUME Killed PROVE ControlInv'
    BY <1>34
    DEF ControlInv, Noop, Test, Running, Typed, PlaceType, RunType, Beginning, Setup,
        BeforeServer, CutOverPlaces, TestPlaces, RollbackPlaces, RestartPlaces, Finish,
        Killed, Exit, world
<1>35. ASSUME ExitWithError PROVE ControlInv'
    BY <1>35
    DEF ControlInv, Noop, Test, Running, Typed, PlaceType, RunType, Beginning, Setup,
        BeforeServer, CutOverPlaces, TestPlaces, RollbackPlaces, RestartPlaces, Finish,
        ExitWithError, Exit, world
<1>36. ASSUME ExitDone PROVE ControlInv'
    BY <1>36
    DEF ControlInv, Noop, Test, Running, Typed, PlaceType, RunType, Beginning, Setup,
        BeforeServer, CutOverPlaces, TestPlaces, RollbackPlaces, RestartPlaces, Finish,
        ExitDone, Exit, world
<1>37. ASSUME Start PROVE ControlInv'
    BY <1>37
    DEF ControlInv, Noop, Test, Running, Typed, PlaceType, RunType, Beginning, Setup,
        BeforeServer, CutOverPlaces, TestPlaces, RollbackPlaces, RestartPlaces, Finish,
        Start, postVars
<1> QED
    BY <1>1, <1>2, <1>3, <1>4, <1>5, <1>6, <1>7, <1>8, <1>9, <1>10, <1>11, <1>12, <1>13,
       <1>14, <1>15, <1>16, <1>17, <1>18, <1>19, <1>20, <1>21, <1>22, <1>23, <1>24,
       <1>25, <1>26, <1>27, <1>28, <1>29, <1>30, <1>31, <1>32, <1>33, <1>34, <1>35,
       <1>36, <1>37
    DEF Next, Migrate, Initiate, CutOverSteps, Exits

(* A write of the application finds the original table in place and leaves *)
(* it complete, and the ghost table too if that is kept in sync.           *)
LEMMA ApplicationWritesEffect ==
    ASSUME WorldType, ApplicationWrites
    PROVE  /\ replicating /\ tables["original"] \in Complete
           /\ tables'["original"] = tables["original"]
           /\ InSync => tables'["ghost"] = tables["ghost"]
           /\ tables'["changelog"] = tables["changelog"]
              \/ (tables["changelog"] \in Complete /\ tables'["changelog"] = "behind")
           /\ tables'["ghost"] = tables["ghost"]
              \/ (tables["ghost"] \in Complete /\ tables'["ghost"] = "behind")
           /\ tables'["old"] = tables["old"]
              \/ (tables["old"] \in Complete /\ tables'["old"] = "behind")
           /\ UNCHANGED <<replicating, flagFile, options, process, pc, outcome, panicked, told>>
<1>1. tables' = [n \in Names |->
          IF tables[n] \in Complete /\ n # "original" /\ ~(n = "ghost" /\ InSync)
          THEN "behind" ELSE tables[n]]
    BY DEF ApplicationWrites
<1>2. /\ replicating /\ tables["original"] \in Complete
      /\ UNCHANGED <<replicating, flagFile, options, process, pc, outcome, panicked, told>>
    BY DEF ApplicationWrites, given
<1> QED
    BY <1>1, <1>2 DEF Names

(* Every step leaves the tables as they have to be where it leads.         *)
LEMMA TablesKept ==
    ASSUME Typed, ControlInv, TablesInv, Next
    PROVE  TablesInv'
<1>1. ASSUME UNCHANGED <<tables, process, options, pc>> PROVE TablesInv'
    BY <1>1 DEF TablesInv, Unswapped, AreSwapped, HalfSwapped, Noop, Test, Running
<1>2. ASSUME \/ OperatorTouchesFlagFile \/ CommandUnpostpone \/ SetUnpostpone
             \/ CommandPanic
      PROVE  TablesInv'
    BY <1>2, <1>1
    DEF OperatorTouchesFlagFile, given, postVars, CommandUnpostpone, world,
        SetUnpostpone, CommandPanic
<1>3. ASSUME ApplicationWrites PROVE TablesInv'
    BY <1>3, ApplicationWritesEffect
    DEF TablesInv, Unswapped, AreSwapped, HalfSwapped, Noop, Test, Running, Typed,
        InSync, Beginning, Setup, BeforeServer, CutOverPlaces, TestPlaces,
        RollbackPlaces, RestartPlaces, Finish, Complete
<1>4. ASSUME OnStartup PROVE TablesInv'
    BY <1>4
    DEF TablesInv, Unswapped, AreSwapped, HalfSwapped, Noop, Test, Running, Typed,
        WorldType, RunType, PlaceType, Names, Contents, Complete, Beginning, Setup,
        BeforeServer, CutOverPlaces, TestPlaces, RollbackPlaces, RestartPlaces, Finish,
        ControlInv, OnStartup, Hook, Step, Goto, Fails, given, postVars
<1>5. ASSUME InitiateInspector PROVE TablesInv'
    BY <1>5
    DEF TablesInv, Unswapped, AreSwapped, HalfSwapped, Noop, Test, Running, Typed,
        WorldType, RunType, PlaceType, Names, Contents, Complete, Beginning, Setup,
        BeforeServer, CutOverPlaces, TestPlaces, RollbackPlaces, RestartPlaces, Finish,
        ControlInv, InitiateInspector, Step, Goto, Fails, given, postVars
<1>6. ASSUME ValidateOrDropExistingTables PROVE TablesInv'
    BY <1>6
    DEF TablesInv, Unswapped, AreSwapped, HalfSwapped, Noop, Test, Running, Typed,
        WorldType, RunType, PlaceType, Names, Contents, Complete, Beginning, Setup,
        BeforeServer, CutOverPlaces, TestPlaces, RollbackPlaces, RestartPlaces, Finish,
        ControlInv, ValidateOrDropExistingTables, DropLeftover, CheckLeftover, Dropped,
        Step, Goto, Fails, given, postVars
<1>7. ASSUME CreateChangelogTable PROVE TablesInv'
    BY <1>7
    DEF TablesInv, Unswapped, AreSwapped, HalfSwapped, Noop, Test, Running, Typed,
        WorldType, RunType, PlaceType, Names, Contents, Complete, Beginning, Setup,
        BeforeServer, CutOverPlaces, TestPlaces, RollbackPlaces, RestartPlaces, Finish,
        ControlInv, CreateChangelogTable, Creates, Step, Goto, Fails, given, postVars
<1>8. ASSUME CreateGhostTable PROVE TablesInv'
    BY <1>8
    DEF TablesInv, Unswapped, AreSwapped, HalfSwapped, Noop, Test, Running, Typed,
        WorldType, RunType, PlaceType, Names, Contents, Complete, Beginning, Setup,
        BeforeServer, CutOverPlaces, TestPlaces, RollbackPlaces, RestartPlaces, Finish,
        ControlInv, CreateGhostTable, Creates, Step, Goto, Fails, given, postVars
<1>9. ASSUME AlterGhost PROVE TablesInv'
    BY <1>9
    DEF TablesInv, Unswapped, AreSwapped, HalfSwapped, Noop, Test, Running, Typed,
        WorldType, RunType, PlaceType, Names, Contents, Complete, Beginning, Setup,
        BeforeServer, CutOverPlaces, TestPlaces, RollbackPlaces, RestartPlaces, Finish,
        ControlInv, AlterGhost, Creates, Step, Goto, Fails, given, postVars
<1>10. ASSUME WriteChangelogState PROVE TablesInv'
    BY <1>10
    DEF TablesInv, Unswapped, AreSwapped, HalfSwapped, Noop, Test, Running, Typed,
        WorldType, RunType, PlaceType, Names, Contents, Complete, Beginning, Setup,
        BeforeServer, CutOverPlaces, TestPlaces, RollbackPlaces, RestartPlaces, Finish,
        ControlInv, WriteChangelogState, Step, Goto, given, postVars
<1>11. ASSUME CreateFlagFiles PROVE TablesInv'
    BY <1>11
    DEF TablesInv, Unswapped, AreSwapped, HalfSwapped, Noop, Test, Running, Typed,
        WorldType, RunType, PlaceType, Names, Contents, Complete, Beginning, Setup,
        BeforeServer, CutOverPlaces, TestPlaces, RollbackPlaces, RestartPlaces, Finish,
        ControlInv, CreateFlagFiles, Goto, Fails, given, postVars
<1>12. ASSUME AwaitGhostTableMigrated PROVE TablesInv'
    BY <1>12
    DEF TablesInv, Unswapped, AreSwapped, HalfSwapped, Noop, Test, Running, Typed,
        WorldType, RunType, PlaceType, Names, Contents, Complete, Beginning, Setup,
        BeforeServer, CutOverPlaces, TestPlaces, RollbackPlaces, RestartPlaces, Finish,
        ControlInv, AwaitGhostTableMigrated, Step, Goto, given, postVars
<1>13. ASSUME InspectOriginalAndGhostTables PROVE TablesInv'
    BY <1>13
    DEF TablesInv, Unswapped, AreSwapped, HalfSwapped, Noop, Test, Running, Typed,
        WorldType, RunType, PlaceType, Names, Contents, Complete, Beginning, Setup,
        BeforeServer, CutOverPlaces, TestPlaces, RollbackPlaces, RestartPlaces, Finish,
        ControlInv, InspectOriginalAndGhostTables, Queries, Step, Goto, Fails, given,
        postVars
<1>14. ASSUME OnValidated PROVE TablesInv'
    BY <1>14
    DEF TablesInv, Unswapped, AreSwapped, HalfSwapped, Noop, Test, Running, Typed,
        WorldType, RunType, PlaceType, Names, Contents, Complete, Beginning, Setup,
        BeforeServer, CutOverPlaces, TestPlaces, RollbackPlaces, RestartPlaces, Finish,
        ControlInv, OnValidated, Hook, Step, Goto, Fails, given, postVars
<1>15. ASSUME Prepare PROVE TablesInv'
    BY <1>15
    DEF TablesInv, Unswapped, AreSwapped, HalfSwapped, Noop, Test, Running, Typed,
        WorldType, RunType, PlaceType, Names, Contents, Complete, Beginning, Setup,
        BeforeServer, CutOverPlaces, TestPlaces, RollbackPlaces, RestartPlaces, Finish,
        ControlInv, Prepare, Queries, Step, Goto, Fails, given, postVars
<1>16. ASSUME OnBeforeRowCopy PROVE TablesInv'
    BY <1>16
    DEF TablesInv, Unswapped, AreSwapped, HalfSwapped, Noop, Test, Running, Typed,
        WorldType, RunType, PlaceType, Names, Contents, Complete, Beginning, Setup,
        BeforeServer, CutOverPlaces, TestPlaces, RollbackPlaces, RestartPlaces, Finish,
        ControlInv, OnBeforeRowCopy, Hook, Step, Goto, Fails, given, postVars
<1>17. ASSUME ConsumeRowCopyComplete PROVE TablesInv'
    BY <1>17
    DEF TablesInv, Unswapped, AreSwapped, HalfSwapped, Noop, Test, Running, Typed,
        WorldType, RunType, PlaceType, Names, Contents, Complete, Beginning, Setup,
        BeforeServer, CutOverPlaces, TestPlaces, RollbackPlaces, RestartPlaces, Finish,
        ControlInv, ConsumeRowCopyComplete, Step, Goto, Panic, given, postVars
<1>18. ASSUME OnRowCopyComplete PROVE TablesInv'
    BY <1>18
    DEF TablesInv, Unswapped, AreSwapped, HalfSwapped, Noop, Test, Running, Typed,
        WorldType, RunType, PlaceType, Names, Contents, Complete, Beginning, Setup,
        BeforeServer, CutOverPlaces, TestPlaces, RollbackPlaces, RestartPlaces, Finish,
        ControlInv, OnRowCopyComplete, Hook, Step, Goto, Fails, given, postVars
<1>19. ASSUME OnBeforeCutOver PROVE TablesInv'
    BY <1>19
    DEF TablesInv, Unswapped, AreSwapped, HalfSwapped, Noop, Test, Running, Typed,
        WorldType, RunType, PlaceType, Names, Contents, Complete, Beginning, Setup,
        BeforeServer, CutOverPlaces, TestPlaces, RollbackPlaces, RestartPlaces, Finish,
        ControlInv, OnBeforeCutOver, Hook, Step, Goto, Fails, given, postVars
<1>20. ASSUME BeginCutOver PROVE TablesInv'
    BY <1>20
    DEF TablesInv, Unswapped, AreSwapped, HalfSwapped, Noop, Test, Running, Typed,
        WorldType, RunType, PlaceType, Names, Contents, Complete, Beginning, Setup,
        BeforeServer, CutOverPlaces, TestPlaces, RollbackPlaces, RestartPlaces, Finish,
        ControlInv, BeginCutOver, CutOverSucceeds, Step, Goto, given, postVars
<1>21. ASSUME Postpone PROVE TablesInv'
    BY <1>21
    DEF TablesInv, Unswapped, AreSwapped, HalfSwapped, Noop, Test, Running, Typed,
        WorldType, RunType, PlaceType, Names, Contents, Complete, Beginning, Setup,
        BeforeServer, CutOverPlaces, TestPlaces, RollbackPlaces, RestartPlaces, Finish,
        ControlInv, Postpone, EndsPostponing, Unpostponed, Step, Goto, given, postVars
<1>22. ASSUME OnStopReplication PROVE TablesInv'
    BY <1>22
    DEF TablesInv, Unswapped, AreSwapped, HalfSwapped, Noop, Test, Running, Typed,
        WorldType, RunType, PlaceType, Names, Contents, Complete, Beginning, Setup,
        BeforeServer, CutOverPlaces, TestPlaces, RollbackPlaces, RestartPlaces, Finish,
        ControlInv, OnStopReplication, CutOverFails, Panic, Step, Goto, given, postVars
<1>23. ASSUME StopReplication PROVE TablesInv'
    BY <1>23
    DEF TablesInv, Unswapped, AreSwapped, HalfSwapped, Noop, Test, Running, Typed,
        WorldType, RunType, PlaceType, Names, Contents, Complete, Beginning, Setup,
        BeforeServer, CutOverPlaces, TestPlaces, RollbackPlaces, RestartPlaces, Finish,
        ControlInv, StopReplication, CutOverPanics, Step, Goto, given, postVars
<1>24. ASSUME AtomicCutOver PROVE TablesInv'
    BY <1>24
    DEF TablesInv, Unswapped, AreSwapped, HalfSwapped, Noop, Test, Running, Typed,
        WorldType, RunType, PlaceType, Names, Contents, Complete, Beginning, Setup,
        BeforeServer, CutOverPlaces, TestPlaces, RollbackPlaces, RestartPlaces, Finish,
        ControlInv, AtomicCutOver, Handle, Swapped, CanSwap, Dropped, Step, given,
        postVars
<1>25. ASSUME CutOverTwoStep PROVE TablesInv'
    BY <1>25
    DEF TablesInv, Unswapped, AreSwapped, HalfSwapped, Noop, Test, Running, Typed,
        WorldType, RunType, PlaceType, Names, Contents, Complete, Beginning, Setup,
        BeforeServer, CutOverPlaces, TestPlaces, RollbackPlaces, RestartPlaces, Finish,
        ControlInv, CutOverTwoStep, Handle, Swapped, CanSwap, Step, given, postVars
<1>26. ASSUME ReturnCutOverError PROVE TablesInv'
    BY <1>26
    DEF TablesInv, Unswapped, AreSwapped, HalfSwapped, Noop, Test, Running, Typed,
        WorldType, RunType, PlaceType, Names, Contents, Complete, Beginning, Setup,
        BeforeServer, CutOverPlaces, TestPlaces, RollbackPlaces, RestartPlaces, Finish,
        ControlInv, ReturnCutOverError, CutOverFails, Panic, Step, given, postVars
<1>27. ASSUME RenameTablesRollback PROVE TablesInv'
    BY <1>27
    DEF TablesInv, Unswapped, AreSwapped, HalfSwapped, Noop, Test, Running, Typed,
        WorldType, RunType, PlaceType, Names, Contents, Complete, Beginning, Setup,
        BeforeServer, CutOverPlaces, TestPlaces, RollbackPlaces, RestartPlaces, Finish,
        ControlInv, RenameTablesRollback, Handled, CanRename, Step, Goto, given,
        postVars
<1>28. ASSUME RenameBackToGhost PROVE TablesInv'
    BY <1>28
    DEF TablesInv, Unswapped, AreSwapped, HalfSwapped, Noop, Test, Running, Typed,
        WorldType, RunType, PlaceType, Names, Contents, Complete, Beginning, Setup,
        BeforeServer, CutOverPlaces, TestPlaces, RollbackPlaces, RestartPlaces, Finish,
        ControlInv, RenameBackToGhost, RenameBack, Renamed, CanRename, Step, Goto,
        given, postVars
<1>29. ASSUME RenameBackToOriginal PROVE TablesInv'
    BY <1>29
    DEF TablesInv, Unswapped, AreSwapped, HalfSwapped, Noop, Test, Running, Typed,
        WorldType, RunType, PlaceType, Names, Contents, Complete, Beginning, Setup,
        BeforeServer, CutOverPlaces, TestPlaces, RollbackPlaces, RestartPlaces, Finish,
        ControlInv, RenameBackToOriginal, RenameBack, Renamed, CanRename, Handled, Step,
        Goto, given, postVars
<1>30. ASSUME OnStartReplication PROVE TablesInv'
    BY <1>30
    DEF TablesInv, Unswapped, AreSwapped, HalfSwapped, Noop, Test, Running, Typed,
        WorldType, RunType, PlaceType, Names, Contents, Complete, Beginning, Setup,
        BeforeServer, CutOverPlaces, TestPlaces, RollbackPlaces, RestartPlaces, Finish,
        ControlInv, OnStartReplication, Step, Goto, given, postVars
<1>31. ASSUME StartReplication PROVE TablesInv'
    BY <1>31
    DEF TablesInv, Unswapped, AreSwapped, HalfSwapped, Noop, Test, Running, Typed,
        WorldType, RunType, PlaceType, Names, Contents, Complete, Beginning, Setup,
        BeforeServer, CutOverPlaces, TestPlaces, RollbackPlaces, RestartPlaces, Finish,
        ControlInv, StartReplication, Panic, Step, Goto, given, postVars
<1>32. ASSUME FinalCleanup PROVE TablesInv'
    BY <1>32
    DEF TablesInv, Unswapped, AreSwapped, HalfSwapped, Noop, Test, Running, Typed,
        WorldType, RunType, PlaceType, Names, Contents, Complete, Beginning, Setup,
        BeforeServer, CutOverPlaces, TestPlaces, RollbackPlaces, RestartPlaces, Finish,
        ControlInv, FinalCleanup, FinalDrop, CleanupFails, Panic, Dropped, Step, Goto,
        given, postVars
<1>33. ASSUME OnSuccess PROVE TablesInv'
    BY <1>33
    DEF TablesInv, Unswapped, AreSwapped, HalfSwapped, Noop, Test, Running, Typed,
        WorldType, RunType, PlaceType, Names, Contents, Complete, Beginning, Setup,
        BeforeServer, CutOverPlaces, TestPlaces, RollbackPlaces, RestartPlaces, Finish,
        ControlInv, OnSuccess, Step, Goto, Fails, given, postVars
<1>34. ASSUME ListenOnPanicAbort PROVE TablesInv'
    BY <1>34
    DEF TablesInv, Unswapped, AreSwapped, HalfSwapped, Noop, Test, Running, Typed,
        WorldType, RunType, PlaceType, Names, Contents, Complete, Beginning, Setup,
        BeforeServer, CutOverPlaces, TestPlaces, RollbackPlaces, RestartPlaces, Finish,
        ControlInv, ListenOnPanicAbort, Exit, world
<1>35. ASSUME Killed PROVE TablesInv'
    BY <1>35
    DEF TablesInv, Unswapped, AreSwapped, HalfSwapped, Noop, Test, Running, Typed,
        WorldType, RunType, PlaceType, Names, Contents, Complete, Beginning, Setup,
        BeforeServer, CutOverPlaces, TestPlaces, RollbackPlaces, RestartPlaces, Finish,
        ControlInv, Killed, Exit, world
<1>36. ASSUME ExitWithError PROVE TablesInv'
    BY <1>36
    DEF TablesInv, Unswapped, AreSwapped, HalfSwapped, Noop, Test, Running, Typed,
        WorldType, RunType, PlaceType, Names, Contents, Complete, Beginning, Setup,
        BeforeServer, CutOverPlaces, TestPlaces, RollbackPlaces, RestartPlaces, Finish,
        ControlInv, ExitWithError, Exit, world
<1>37. ASSUME ExitDone PROVE TablesInv'
    BY <1>37
    DEF TablesInv, Unswapped, AreSwapped, HalfSwapped, Noop, Test, Running, Typed,
        WorldType, RunType, PlaceType, Names, Contents, Complete, Beginning, Setup,
        BeforeServer, CutOverPlaces, TestPlaces, RollbackPlaces, RestartPlaces, Finish,
        ControlInv, ExitDone, Exit, world
<1>38. ASSUME Start PROVE TablesInv'
    BY <1>38
    DEF TablesInv, Unswapped, AreSwapped, HalfSwapped, Noop, Test, Running, Typed,
        WorldType, RunType, PlaceType, Names, Contents, Complete, Beginning, Setup,
        BeforeServer, CutOverPlaces, TestPlaces, RollbackPlaces, RestartPlaces, Finish,
        ControlInv, Start, postVars
<1> QED
    BY <1>1, <1>2, <1>3, <1>4, <1>5, <1>6, <1>7, <1>8, <1>9, <1>10, <1>11, <1>12, <1>13,
       <1>14, <1>15, <1>16, <1>17, <1>18, <1>19, <1>20, <1>21, <1>22, <1>23, <1>24,
       <1>25, <1>26, <1>27, <1>28, <1>29, <1>30, <1>31, <1>32, <1>33, <1>34, <1>35,
       <1>36, <1>37, <1>38
    DEF Next, Migrate, Initiate, CutOverSteps, Exits

(* No step spoils the last table that has every row.                       *)
LEMMA KeptKept ==
    ASSUME Typed, ControlInv, TablesInv, KeptInv, Next
    PROVE  KeptInv'
<1>1. ASSUME UNCHANGED <<tables>> PROVE KeptInv'
    BY <1>1 DEF KeptInv
<1>2. ASSUME \/ OperatorTouchesFlagFile \/ OnStartup \/ InitiateInspector
             \/ CreateFlagFiles \/ AwaitGhostTableMigrated
             \/ InspectOriginalAndGhostTables
      PROVE  KeptInv'
    BY <1>2, <1>1
    DEF OperatorTouchesFlagFile, given, postVars, OnStartup, Hook, Step, Goto, Fails,
        InitiateInspector, CreateFlagFiles, AwaitGhostTableMigrated,
        InspectOriginalAndGhostTables, Queries
<1>3. ASSUME \/ OnValidated \/ Prepare \/ OnBeforeRowCopy \/ OnRowCopyComplete
             \/ OnBeforeCutOver \/ BeginCutOver
      PROVE  KeptInv'
    BY <1>3, <1>1
    DEF OnValidated, Hook, Step, Goto, Fails, given, postVars, Prepare, Queries,
        OnBeforeRowCopy, OnRowCopyComplete, OnBeforeCutOver, BeginCutOver,
        CutOverSucceeds
<1>4. ASSUME \/ Postpone \/ OnStopReplication \/ StopReplication
             \/ ReturnCutOverError \/ OnStartReplication \/ StartReplication
      PROVE  KeptInv'
    BY <1>4, <1>1
    DEF Postpone, EndsPostponing, Unpostponed, Step, Goto, given, postVars,
        OnStopReplication, CutOverFails, Panic, StopReplication, CutOverPanics,
        ReturnCutOverError, OnStartReplication, StartReplication
<1>5. ASSUME \/ OnSuccess \/ ListenOnPanicAbort \/ Killed \/ ExitWithError
             \/ ExitDone \/ CommandUnpostpone
      PROVE  KeptInv'
    BY <1>5, <1>1
    DEF OnSuccess, Step, Goto, Fails, given, postVars, ListenOnPanicAbort, Exit, world,
        Killed, ExitWithError, ExitDone, CommandUnpostpone
<1>6. ASSUME \/ SetUnpostpone \/ CommandPanic
      PROVE  KeptInv'
    BY <1>6, <1>1 DEF SetUnpostpone, world, given, CommandPanic, postVars
<1>7. ASSUME ApplicationWrites PROVE KeptInv'
    BY <1>7
    DEF KeptInv, TablesInv, Unswapped, AreSwapped, HalfSwapped, Noop, Test, Running,
        Typed, WorldType, RunType, PlaceType, Names, Contents, Complete, Beginning,
        Setup, BeforeServer, CutOverPlaces, TestPlaces, RollbackPlaces, RestartPlaces,
        Finish, ControlInv, ApplicationWrites, given, postVars
<1>8. ASSUME ValidateOrDropExistingTables PROVE KeptInv'
    BY <1>8
    DEF KeptInv, TablesInv, Unswapped, AreSwapped, HalfSwapped, Noop, Test, Running,
        Typed, WorldType, RunType, PlaceType, Names, Contents, Complete, Beginning,
        Setup, BeforeServer, CutOverPlaces, TestPlaces, RollbackPlaces, RestartPlaces,
        Finish, ControlInv, ValidateOrDropExistingTables, DropLeftover, CheckLeftover,
        Dropped, Step, Goto, Fails, given, postVars
<1>9. ASSUME CreateChangelogTable PROVE KeptInv'
    BY <1>9
    DEF KeptInv, TablesInv, Unswapped, AreSwapped, HalfSwapped, Noop, Test, Running,
        Typed, WorldType, RunType, PlaceType, Names, Contents, Complete, Beginning,
        Setup, BeforeServer, CutOverPlaces, TestPlaces, RollbackPlaces, RestartPlaces,
        Finish, ControlInv, CreateChangelogTable, Creates, Step, Goto, Fails, given,
        postVars
<1>10. ASSUME CreateGhostTable PROVE KeptInv'
    BY <1>10
    DEF KeptInv, TablesInv, Unswapped, AreSwapped, HalfSwapped, Noop, Test, Running,
        Typed, WorldType, RunType, PlaceType, Names, Contents, Complete, Beginning,
        Setup, BeforeServer, CutOverPlaces, TestPlaces, RollbackPlaces, RestartPlaces,
        Finish, ControlInv, CreateGhostTable, Creates, Step, Goto, Fails, given,
        postVars
<1>11. ASSUME AlterGhost PROVE KeptInv'
    BY <1>11
    DEF KeptInv, TablesInv, Unswapped, AreSwapped, HalfSwapped, Noop, Test, Running,
        Typed, WorldType, RunType, PlaceType, Names, Contents, Complete, Beginning,
        Setup, BeforeServer, CutOverPlaces, TestPlaces, RollbackPlaces, RestartPlaces,
        Finish, ControlInv, AlterGhost, Creates, Step, Goto, Fails, given, postVars
<1>12. ASSUME WriteChangelogState PROVE KeptInv'
    BY <1>12
    DEF KeptInv, TablesInv, Unswapped, AreSwapped, HalfSwapped, Noop, Test, Running,
        Typed, WorldType, RunType, PlaceType, Names, Contents, Complete, Beginning,
        Setup, BeforeServer, CutOverPlaces, TestPlaces, RollbackPlaces, RestartPlaces,
        Finish, ControlInv, WriteChangelogState, Step, Goto, given, postVars
<1>13. ASSUME ConsumeRowCopyComplete PROVE KeptInv'
    BY <1>13
    DEF KeptInv, TablesInv, Unswapped, AreSwapped, HalfSwapped, Noop, Test, Running,
        Typed, WorldType, RunType, PlaceType, Names, Contents, Complete, Beginning,
        Setup, BeforeServer, CutOverPlaces, TestPlaces, RollbackPlaces, RestartPlaces,
        Finish, ControlInv, ConsumeRowCopyComplete, Step, Goto, Panic, given, postVars
<1>14. ASSUME AtomicCutOver PROVE KeptInv'
    BY <1>14
    DEF KeptInv, TablesInv, Unswapped, AreSwapped, HalfSwapped, Noop, Test, Running,
        Typed, WorldType, RunType, PlaceType, Names, Contents, Complete, Beginning,
        Setup, BeforeServer, CutOverPlaces, TestPlaces, RollbackPlaces, RestartPlaces,
        Finish, ControlInv, AtomicCutOver, Handle, Swapped, CanSwap, Dropped, Step,
        given, postVars
<1>15. ASSUME CutOverTwoStep PROVE KeptInv'
    BY <1>15
    DEF KeptInv, TablesInv, Unswapped, AreSwapped, HalfSwapped, Noop, Test, Running,
        Typed, WorldType, RunType, PlaceType, Names, Contents, Complete, Beginning,
        Setup, BeforeServer, CutOverPlaces, TestPlaces, RollbackPlaces, RestartPlaces,
        Finish, ControlInv, CutOverTwoStep, Handle, Swapped, CanSwap, Step, given,
        postVars
<1>16. ASSUME RenameTablesRollback PROVE KeptInv'
    BY <1>16
    DEF KeptInv, TablesInv, Unswapped, AreSwapped, HalfSwapped, Noop, Test, Running,
        Typed, WorldType, RunType, PlaceType, Names, Contents, Complete, Beginning,
        Setup, BeforeServer, CutOverPlaces, TestPlaces, RollbackPlaces, RestartPlaces,
        Finish, ControlInv, RenameTablesRollback, Handled, CanRename, Step, Goto, given,
        postVars
<1>17. ASSUME RenameBackToGhost PROVE KeptInv'
    BY <1>17
    DEF KeptInv, TablesInv, Unswapped, AreSwapped, HalfSwapped, Noop, Test, Running,
        Typed, WorldType, RunType, PlaceType, Names, Contents, Complete, Beginning,
        Setup, BeforeServer, CutOverPlaces, TestPlaces, RollbackPlaces, RestartPlaces,
        Finish, ControlInv, RenameBackToGhost, RenameBack, Renamed, CanRename, Step,
        Goto, given, postVars
<1>18. ASSUME RenameBackToOriginal PROVE KeptInv'
    BY <1>18
    DEF KeptInv, TablesInv, Unswapped, AreSwapped, HalfSwapped, Noop, Test, Running,
        Typed, WorldType, RunType, PlaceType, Names, Contents, Complete, Beginning,
        Setup, BeforeServer, CutOverPlaces, TestPlaces, RollbackPlaces, RestartPlaces,
        Finish, ControlInv, RenameBackToOriginal, RenameBack, Renamed, CanRename,
        Handled, Step, Goto, given, postVars
<1>19. ASSUME FinalCleanup PROVE KeptInv'
    BY <1>19
    DEF KeptInv, TablesInv, Unswapped, AreSwapped, HalfSwapped, Noop, Test, Running,
        Typed, WorldType, RunType, PlaceType, Names, Contents, Complete, Beginning,
        Setup, BeforeServer, CutOverPlaces, TestPlaces, RollbackPlaces, RestartPlaces,
        Finish, ControlInv, FinalCleanup, FinalDrop, CleanupFails, Panic, Dropped, Step,
        Goto, given, postVars
<1>20. ASSUME Start PROVE KeptInv'
    BY <1>20
    DEF KeptInv, TablesInv, Unswapped, AreSwapped, HalfSwapped, Noop, Test, Running,
        Typed, WorldType, RunType, PlaceType, Names, Contents, Complete, Beginning,
        Setup, BeforeServer, CutOverPlaces, TestPlaces, RollbackPlaces, RestartPlaces,
        Finish, ControlInv, Start, postVars
<1> QED
    BY <1>1, <1>2, <1>3, <1>4, <1>5, <1>6, <1>7, <1>8, <1>9, <1>10, <1>11, <1>12, <1>13,
       <1>14, <1>15, <1>16, <1>17, <1>18, <1>19, <1>20
    DEF Next, Migrate, Initiate, CutOverSteps, Exits

(* If renames can be reverted, no step puts an incomplete table in place.  *)
LEMMA InPlaceKept ==
    ASSUME Typed, ControlInv, TablesInv, InPlaceInv, TestInv, Next
    PROVE  InPlaceInv'
<1>1. ASSUME UNCHANGED <<tables>> PROVE InPlaceInv'
    BY <1>1 DEF InPlaceInv, InPlaceIsComplete, RollsBack, TestInv
<1>2. ASSUME \/ OperatorTouchesFlagFile \/ OnStartup \/ InitiateInspector
             \/ CreateFlagFiles \/ AwaitGhostTableMigrated
             \/ InspectOriginalAndGhostTables
      PROVE  InPlaceInv'
    BY <1>2, <1>1
    DEF OperatorTouchesFlagFile, given, postVars, OnStartup, Hook, Step, Goto, Fails,
        InitiateInspector, CreateFlagFiles, AwaitGhostTableMigrated,
        InspectOriginalAndGhostTables, Queries
<1>3. ASSUME \/ OnValidated \/ Prepare \/ OnBeforeRowCopy \/ OnRowCopyComplete
             \/ OnBeforeCutOver \/ BeginCutOver
      PROVE  InPlaceInv'
    BY <1>3, <1>1
    DEF OnValidated, Hook, Step, Goto, Fails, given, postVars, Prepare, Queries,
        OnBeforeRowCopy, OnRowCopyComplete, OnBeforeCutOver, BeginCutOver,
        CutOverSucceeds
<1>4. ASSUME \/ Postpone \/ OnStopReplication \/ StopReplication
             \/ ReturnCutOverError \/ OnStartReplication \/ StartReplication
      PROVE  InPlaceInv'
    BY <1>4, <1>1
    DEF Postpone, EndsPostponing, Unpostponed, Step, Goto, given, postVars,
        OnStopReplication, CutOverFails, Panic, StopReplication, CutOverPanics,
        ReturnCutOverError, OnStartReplication, StartReplication
<1>5. ASSUME \/ OnSuccess \/ ListenOnPanicAbort \/ Killed \/ ExitWithError
             \/ ExitDone \/ CommandUnpostpone
      PROVE  InPlaceInv'
    BY <1>5, <1>1
    DEF OnSuccess, Step, Goto, Fails, given, postVars, ListenOnPanicAbort, Exit, world,
        Killed, ExitWithError, ExitDone, CommandUnpostpone
<1>6. ASSUME \/ SetUnpostpone \/ CommandPanic
      PROVE  InPlaceInv'
    BY <1>6, <1>1 DEF SetUnpostpone, world, given, CommandPanic, postVars
<1>7. ASSUME ApplicationWrites PROVE InPlaceInv'
    BY <1>7
    DEF InPlaceInv, InPlaceIsComplete, RollsBack, TestInv, TablesInv, Unswapped,
        AreSwapped, HalfSwapped, Noop, Test, Running, Typed, WorldType, RunType,
        PlaceType, Names, Contents, Complete, Beginning, Setup, BeforeServer,
        CutOverPlaces, TestPlaces, RollbackPlaces, RestartPlaces, Finish, ControlInv,
        ApplicationWrites, given, postVars
<1>8. ASSUME ValidateOrDropExistingTables PROVE InPlaceInv'
    BY <1>8
    DEF InPlaceInv, InPlaceIsComplete, RollsBack, TestInv, TablesInv, Unswapped,
        AreSwapped, HalfSwapped, Noop, Test, Running, Typed, WorldType, RunType,
        PlaceType, Names, Contents, Complete, Beginning, Setup, BeforeServer,
        CutOverPlaces, TestPlaces, RollbackPlaces, RestartPlaces, Finish, ControlInv,
        ValidateOrDropExistingTables, DropLeftover, CheckLeftover, Dropped, Step, Goto,
        Fails, given, postVars
<1>9. ASSUME CreateChangelogTable PROVE InPlaceInv'
    BY <1>9
    DEF InPlaceInv, InPlaceIsComplete, RollsBack, TestInv, TablesInv, Unswapped,
        AreSwapped, HalfSwapped, Noop, Test, Running, Typed, WorldType, RunType,
        PlaceType, Names, Contents, Complete, Beginning, Setup, BeforeServer,
        CutOverPlaces, TestPlaces, RollbackPlaces, RestartPlaces, Finish, ControlInv,
        CreateChangelogTable, Creates, Step, Goto, Fails, given, postVars
<1>10. ASSUME CreateGhostTable PROVE InPlaceInv'
    BY <1>10
    DEF InPlaceInv, InPlaceIsComplete, RollsBack, TestInv, TablesInv, Unswapped,
        AreSwapped, HalfSwapped, Noop, Test, Running, Typed, WorldType, RunType,
        PlaceType, Names, Contents, Complete, Beginning, Setup, BeforeServer,
        CutOverPlaces, TestPlaces, RollbackPlaces, RestartPlaces, Finish, ControlInv,
        CreateGhostTable, Creates, Step, Goto, Fails, given, postVars
<1>11. ASSUME AlterGhost PROVE InPlaceInv'
    BY <1>11
    DEF InPlaceInv, InPlaceIsComplete, RollsBack, TestInv, TablesInv, Unswapped,
        AreSwapped, HalfSwapped, Noop, Test, Running, Typed, WorldType, RunType,
        PlaceType, Names, Contents, Complete, Beginning, Setup, BeforeServer,
        CutOverPlaces, TestPlaces, RollbackPlaces, RestartPlaces, Finish, ControlInv,
        AlterGhost, Creates, Step, Goto, Fails, given, postVars
<1>12. ASSUME WriteChangelogState PROVE InPlaceInv'
    BY <1>12
    DEF InPlaceInv, InPlaceIsComplete, RollsBack, TestInv, TablesInv, Unswapped,
        AreSwapped, HalfSwapped, Noop, Test, Running, Typed, WorldType, RunType,
        PlaceType, Names, Contents, Complete, Beginning, Setup, BeforeServer,
        CutOverPlaces, TestPlaces, RollbackPlaces, RestartPlaces, Finish, ControlInv,
        WriteChangelogState, Step, Goto, given, postVars
<1>13. ASSUME ConsumeRowCopyComplete PROVE InPlaceInv'
    BY <1>13
    DEF InPlaceInv, InPlaceIsComplete, RollsBack, TestInv, TablesInv, Unswapped,
        AreSwapped, HalfSwapped, Noop, Test, Running, Typed, WorldType, RunType,
        PlaceType, Names, Contents, Complete, Beginning, Setup, BeforeServer,
        CutOverPlaces, TestPlaces, RollbackPlaces, RestartPlaces, Finish, ControlInv,
        ConsumeRowCopyComplete, Step, Goto, Panic, given, postVars
<1>14. ASSUME AtomicCutOver PROVE InPlaceInv'
    BY <1>14
    DEF InPlaceInv, InPlaceIsComplete, RollsBack, TestInv, TablesInv, Unswapped,
        AreSwapped, HalfSwapped, Noop, Test, Running, Typed, WorldType, RunType,
        PlaceType, Names, Contents, Complete, Beginning, Setup, BeforeServer,
        CutOverPlaces, TestPlaces, RollbackPlaces, RestartPlaces, Finish, ControlInv,
        AtomicCutOver, Handle, Swapped, CanSwap, Dropped, Step, given, postVars
<1>15. ASSUME CutOverTwoStep PROVE InPlaceInv'
    BY <1>15
    DEF InPlaceInv, InPlaceIsComplete, RollsBack, TestInv, TablesInv, Unswapped,
        AreSwapped, HalfSwapped, Noop, Test, Running, Typed, WorldType, RunType,
        PlaceType, Names, Contents, Complete, Beginning, Setup, BeforeServer,
        CutOverPlaces, TestPlaces, RollbackPlaces, RestartPlaces, Finish, ControlInv,
        CutOverTwoStep, Handle, Swapped, CanSwap, Step, given, postVars
<1>16. ASSUME RenameTablesRollback PROVE InPlaceInv'
    BY <1>16
    DEF InPlaceInv, InPlaceIsComplete, RollsBack, TestInv, TablesInv, Unswapped,
        AreSwapped, HalfSwapped, Noop, Test, Running, Typed, WorldType, RunType,
        PlaceType, Names, Contents, Complete, Beginning, Setup, BeforeServer,
        CutOverPlaces, TestPlaces, RollbackPlaces, RestartPlaces, Finish, ControlInv,
        RenameTablesRollback, Handled, CanRename, Step, Goto, given, postVars
<1>17. ASSUME RenameBackToGhost PROVE InPlaceInv'
    BY <1>17
    DEF InPlaceInv, InPlaceIsComplete, RollsBack, TestInv, TablesInv, Unswapped,
        AreSwapped, HalfSwapped, Noop, Test, Running, Typed, WorldType, RunType,
        PlaceType, Names, Contents, Complete, Beginning, Setup, BeforeServer,
        CutOverPlaces, TestPlaces, RollbackPlaces, RestartPlaces, Finish, ControlInv,
        RenameBackToGhost, RenameBack, Renamed, CanRename, Step, Goto, given, postVars
<1>18. ASSUME RenameBackToOriginal PROVE InPlaceInv'
    BY <1>18
    DEF InPlaceInv, InPlaceIsComplete, RollsBack, TestInv, TablesInv, Unswapped,
        AreSwapped, HalfSwapped, Noop, Test, Running, Typed, WorldType, RunType,
        PlaceType, Names, Contents, Complete, Beginning, Setup, BeforeServer,
        CutOverPlaces, TestPlaces, RollbackPlaces, RestartPlaces, Finish, ControlInv,
        RenameBackToOriginal, RenameBack, Renamed, CanRename, Handled, Step, Goto,
        given, postVars
<1>19. ASSUME FinalCleanup PROVE InPlaceInv'
    BY <1>19
    DEF InPlaceInv, InPlaceIsComplete, RollsBack, TestInv, TablesInv, Unswapped,
        AreSwapped, HalfSwapped, Noop, Test, Running, Typed, WorldType, RunType,
        PlaceType, Names, Contents, Complete, Beginning, Setup, BeforeServer,
        CutOverPlaces, TestPlaces, RollbackPlaces, RestartPlaces, Finish, ControlInv,
        FinalCleanup, FinalDrop, CleanupFails, Panic, Dropped, Step, Goto, given,
        postVars
<1>20. ASSUME Start PROVE InPlaceInv'
    BY <1>20
    DEF InPlaceInv, InPlaceIsComplete, RollsBack, TestInv, TablesInv, Unswapped,
        AreSwapped, HalfSwapped, Noop, Test, Running, Typed, WorldType, RunType,
        PlaceType, Names, Contents, Complete, Beginning, Setup, BeforeServer,
        CutOverPlaces, TestPlaces, RollbackPlaces, RestartPlaces, Finish, ControlInv,
        Start, postVars
<1> QED
    BY <1>1, <1>2, <1>3, <1>4, <1>5, <1>6, <1>7, <1>8, <1>9, <1>10, <1>11, <1>12, <1>13,
       <1>14, <1>15, <1>16, <1>17, <1>18, <1>19, <1>20
    DEF Next, Migrate, Initiate, CutOverSteps, Exits

(* Every step of a test keeps the way back.                                *)
LEMMA TestKept ==
    ASSUME Typed, ControlInv, TablesInv, InPlaceInv, TestInv, Next
    PROVE  TestInv'
<1>1. ASSUME UNCHANGED <<tables, process, options, pc, replicating, outcome>> PROVE TestInv'
    BY <1>1
    DEF InPlaceInv, InPlaceIsComplete, RollsBack, TestInv, TablesInv, Unswapped,
        AreSwapped, HalfSwapped, Noop, Test, Running
<1>2. ASSUME \/ OperatorTouchesFlagFile \/ CommandUnpostpone \/ SetUnpostpone
             \/ CommandPanic
      PROVE  TestInv'
    BY <1>2, <1>1
    DEF OperatorTouchesFlagFile, given, postVars, CommandUnpostpone, world,
        SetUnpostpone, CommandPanic
<1>3. ASSUME ApplicationWrites PROVE TestInv'
    BY <1>3, ApplicationWritesEffect
    DEF TestInv, TablesInv, ControlInv, Unswapped, Noop, Test, Running, Typed, InSync,
        Beginning, Setup, BeforeServer, CutOverPlaces, TestPlaces, RollbackPlaces,
        RestartPlaces, Finish, Complete
<1>4. ASSUME OnStartup PROVE TestInv'
    BY <1>4
    DEF InPlaceInv, InPlaceIsComplete, RollsBack, TestInv, TablesInv, Unswapped,
        AreSwapped, HalfSwapped, Noop, Test, Running, Typed, WorldType, RunType,
        PlaceType, Names, Contents, Complete, Beginning, Setup, BeforeServer,
        CutOverPlaces, TestPlaces, RollbackPlaces, RestartPlaces, Finish, ControlInv,
        OnStartup, Hook, Step, Goto, Fails, given, postVars
<1>5. ASSUME InitiateInspector PROVE TestInv'
    BY <1>5
    DEF InPlaceInv, InPlaceIsComplete, RollsBack, TestInv, TablesInv, Unswapped,
        AreSwapped, HalfSwapped, Noop, Test, Running, Typed, WorldType, RunType,
        PlaceType, Names, Contents, Complete, Beginning, Setup, BeforeServer,
        CutOverPlaces, TestPlaces, RollbackPlaces, RestartPlaces, Finish, ControlInv,
        InitiateInspector, Step, Goto, Fails, given, postVars
<1>6. ASSUME ValidateOrDropExistingTables PROVE TestInv'
    BY <1>6
    DEF InPlaceInv, InPlaceIsComplete, RollsBack, TestInv, TablesInv, Unswapped,
        AreSwapped, HalfSwapped, Noop, Test, Running, Typed, WorldType, RunType,
        PlaceType, Names, Contents, Complete, Beginning, Setup, BeforeServer,
        CutOverPlaces, TestPlaces, RollbackPlaces, RestartPlaces, Finish, ControlInv,
        ValidateOrDropExistingTables, DropLeftover, CheckLeftover, Dropped, Step, Goto,
        Fails, given, postVars
<1>7. ASSUME CreateChangelogTable PROVE TestInv'
    BY <1>7
    DEF InPlaceInv, InPlaceIsComplete, RollsBack, TestInv, TablesInv, Unswapped,
        AreSwapped, HalfSwapped, Noop, Test, Running, Typed, WorldType, RunType,
        PlaceType, Names, Contents, Complete, Beginning, Setup, BeforeServer,
        CutOverPlaces, TestPlaces, RollbackPlaces, RestartPlaces, Finish, ControlInv,
        CreateChangelogTable, Creates, Step, Goto, Fails, given, postVars
<1>8. ASSUME CreateGhostTable PROVE TestInv'
    BY <1>8
    DEF InPlaceInv, InPlaceIsComplete, RollsBack, TestInv, TablesInv, Unswapped,
        AreSwapped, HalfSwapped, Noop, Test, Running, Typed, WorldType, RunType,
        PlaceType, Names, Contents, Complete, Beginning, Setup, BeforeServer,
        CutOverPlaces, TestPlaces, RollbackPlaces, RestartPlaces, Finish, ControlInv,
        CreateGhostTable, Creates, Step, Goto, Fails, given, postVars
<1>9. ASSUME AlterGhost PROVE TestInv'
    BY <1>9
    DEF InPlaceInv, InPlaceIsComplete, RollsBack, TestInv, TablesInv, Unswapped,
        AreSwapped, HalfSwapped, Noop, Test, Running, Typed, WorldType, RunType,
        PlaceType, Names, Contents, Complete, Beginning, Setup, BeforeServer,
        CutOverPlaces, TestPlaces, RollbackPlaces, RestartPlaces, Finish, ControlInv,
        AlterGhost, Creates, Step, Goto, Fails, given, postVars
<1>10. ASSUME WriteChangelogState PROVE TestInv'
    BY <1>10
    DEF InPlaceInv, InPlaceIsComplete, RollsBack, TestInv, TablesInv, Unswapped,
        AreSwapped, HalfSwapped, Noop, Test, Running, Typed, WorldType, RunType,
        PlaceType, Names, Contents, Complete, Beginning, Setup, BeforeServer,
        CutOverPlaces, TestPlaces, RollbackPlaces, RestartPlaces, Finish, ControlInv,
        WriteChangelogState, Step, Goto, given, postVars
<1>11. ASSUME CreateFlagFiles PROVE TestInv'
    BY <1>11
    DEF InPlaceInv, InPlaceIsComplete, RollsBack, TestInv, TablesInv, Unswapped,
        AreSwapped, HalfSwapped, Noop, Test, Running, Typed, WorldType, RunType,
        PlaceType, Names, Contents, Complete, Beginning, Setup, BeforeServer,
        CutOverPlaces, TestPlaces, RollbackPlaces, RestartPlaces, Finish, ControlInv,
        CreateFlagFiles, Goto, Fails, given, postVars
<1>12. ASSUME AwaitGhostTableMigrated PROVE TestInv'
    BY <1>12
    DEF InPlaceInv, InPlaceIsComplete, RollsBack, TestInv, TablesInv, Unswapped,
        AreSwapped, HalfSwapped, Noop, Test, Running, Typed, WorldType, RunType,
        PlaceType, Names, Contents, Complete, Beginning, Setup, BeforeServer,
        CutOverPlaces, TestPlaces, RollbackPlaces, RestartPlaces, Finish, ControlInv,
        AwaitGhostTableMigrated, Step, Goto, given, postVars
<1>13. ASSUME InspectOriginalAndGhostTables PROVE TestInv'
    BY <1>13
    DEF InPlaceInv, InPlaceIsComplete, RollsBack, TestInv, TablesInv, Unswapped,
        AreSwapped, HalfSwapped, Noop, Test, Running, Typed, WorldType, RunType,
        PlaceType, Names, Contents, Complete, Beginning, Setup, BeforeServer,
        CutOverPlaces, TestPlaces, RollbackPlaces, RestartPlaces, Finish, ControlInv,
        InspectOriginalAndGhostTables, Queries, Step, Goto, Fails, given, postVars
<1>14. ASSUME OnValidated PROVE TestInv'
    BY <1>14
    DEF InPlaceInv, InPlaceIsComplete, RollsBack, TestInv, TablesInv, Unswapped,
        AreSwapped, HalfSwapped, Noop, Test, Running, Typed, WorldType, RunType,
        PlaceType, Names, Contents, Complete, Beginning, Setup, BeforeServer,
        CutOverPlaces, TestPlaces, RollbackPlaces, RestartPlaces, Finish, ControlInv,
        OnValidated, Hook, Step, Goto, Fails, given, postVars
<1>15. ASSUME Prepare PROVE TestInv'
    BY <1>15
    DEF InPlaceInv, InPlaceIsComplete, RollsBack, TestInv, TablesInv, Unswapped,
        AreSwapped, HalfSwapped, Noop, Test, Running, Typed, WorldType, RunType,
        PlaceType, Names, Contents, Complete, Beginning, Setup, BeforeServer,
        CutOverPlaces, TestPlaces, RollbackPlaces, RestartPlaces, Finish, ControlInv,
        Prepare, Queries, Step, Goto, Fails, given, postVars
<1>16. ASSUME OnBeforeRowCopy PROVE TestInv'
    BY <1>16
    DEF InPlaceInv, InPlaceIsComplete, RollsBack, TestInv, TablesInv, Unswapped,
        AreSwapped, HalfSwapped, Noop, Test, Running, Typed, WorldType, RunType,
        PlaceType, Names, Contents, Complete, Beginning, Setup, BeforeServer,
        CutOverPlaces, TestPlaces, RollbackPlaces, RestartPlaces, Finish, ControlInv,
        OnBeforeRowCopy, Hook, Step, Goto, Fails, given, postVars
<1>17. ASSUME ConsumeRowCopyComplete PROVE TestInv'
    BY <1>17
    DEF InPlaceInv, InPlaceIsComplete, RollsBack, TestInv, TablesInv, Unswapped,
        AreSwapped, HalfSwapped, Noop, Test, Running, Typed, WorldType, RunType,
        PlaceType, Names, Contents, Complete, Beginning, Setup, BeforeServer,
        CutOverPlaces, TestPlaces, RollbackPlaces, RestartPlaces, Finish, ControlInv,
        ConsumeRowCopyComplete, Step, Goto, Panic, given, postVars
<1>18. ASSUME OnRowCopyComplete PROVE TestInv'
    BY <1>18
    DEF InPlaceInv, InPlaceIsComplete, RollsBack, TestInv, TablesInv, Unswapped,
        AreSwapped, HalfSwapped, Noop, Test, Running, Typed, WorldType, RunType,
        PlaceType, Names, Contents, Complete, Beginning, Setup, BeforeServer,
        CutOverPlaces, TestPlaces, RollbackPlaces, RestartPlaces, Finish, ControlInv,
        OnRowCopyComplete, Hook, Step, Goto, Fails, given, postVars
<1>19. ASSUME OnBeforeCutOver PROVE TestInv'
    BY <1>19
    DEF InPlaceInv, InPlaceIsComplete, RollsBack, TestInv, TablesInv, Unswapped,
        AreSwapped, HalfSwapped, Noop, Test, Running, Typed, WorldType, RunType,
        PlaceType, Names, Contents, Complete, Beginning, Setup, BeforeServer,
        CutOverPlaces, TestPlaces, RollbackPlaces, RestartPlaces, Finish, ControlInv,
        OnBeforeCutOver, Hook, Step, Goto, Fails, given, postVars
<1>20. ASSUME BeginCutOver PROVE TestInv'
    BY <1>20
    DEF InPlaceInv, InPlaceIsComplete, RollsBack, TestInv, TablesInv, Unswapped,
        AreSwapped, HalfSwapped, Noop, Test, Running, Typed, WorldType, RunType,
        PlaceType, Names, Contents, Complete, Beginning, Setup, BeforeServer,
        CutOverPlaces, TestPlaces, RollbackPlaces, RestartPlaces, Finish, ControlInv,
        BeginCutOver, CutOverSucceeds, Step, Goto, given, postVars
<1>21. ASSUME Postpone PROVE TestInv'
    BY <1>21
    DEF InPlaceInv, InPlaceIsComplete, RollsBack, TestInv, TablesInv, Unswapped,
        AreSwapped, HalfSwapped, Noop, Test, Running, Typed, WorldType, RunType,
        PlaceType, Names, Contents, Complete, Beginning, Setup, BeforeServer,
        CutOverPlaces, TestPlaces, RollbackPlaces, RestartPlaces, Finish, ControlInv,
        Postpone, EndsPostponing, Unpostponed, Step, Goto, given, postVars
<1>22. ASSUME OnStopReplication PROVE TestInv'
    BY <1>22
    DEF InPlaceInv, InPlaceIsComplete, RollsBack, TestInv, TablesInv, Unswapped,
        AreSwapped, HalfSwapped, Noop, Test, Running, Typed, WorldType, RunType,
        PlaceType, Names, Contents, Complete, Beginning, Setup, BeforeServer,
        CutOverPlaces, TestPlaces, RollbackPlaces, RestartPlaces, Finish, ControlInv,
        OnStopReplication, CutOverFails, Panic, Step, Goto, given, postVars
<1>23. ASSUME StopReplication PROVE TestInv'
    BY <1>23
    DEF InPlaceInv, InPlaceIsComplete, RollsBack, TestInv, TablesInv, Unswapped,
        AreSwapped, HalfSwapped, Noop, Test, Running, Typed, WorldType, RunType,
        PlaceType, Names, Contents, Complete, Beginning, Setup, BeforeServer,
        CutOverPlaces, TestPlaces, RollbackPlaces, RestartPlaces, Finish, ControlInv,
        StopReplication, CutOverPanics, Step, Goto, given, postVars
<1>24. ASSUME AtomicCutOver PROVE TestInv'
    BY <1>24
    DEF InPlaceInv, InPlaceIsComplete, RollsBack, TestInv, TablesInv, Unswapped,
        AreSwapped, HalfSwapped, Noop, Test, Running, Typed, WorldType, RunType,
        PlaceType, Names, Contents, Complete, Beginning, Setup, BeforeServer,
        CutOverPlaces, TestPlaces, RollbackPlaces, RestartPlaces, Finish, ControlInv,
        AtomicCutOver, Handle, Swapped, CanSwap, Dropped, Step, given, postVars
<1>25. ASSUME CutOverTwoStep PROVE TestInv'
    BY <1>25
    DEF InPlaceInv, InPlaceIsComplete, RollsBack, TestInv, TablesInv, Unswapped,
        AreSwapped, HalfSwapped, Noop, Test, Running, Typed, WorldType, RunType,
        PlaceType, Names, Contents, Complete, Beginning, Setup, BeforeServer,
        CutOverPlaces, TestPlaces, RollbackPlaces, RestartPlaces, Finish, ControlInv,
        CutOverTwoStep, Handle, Swapped, CanSwap, Step, given, postVars
<1>26. ASSUME ReturnCutOverError PROVE TestInv'
    BY <1>26
    DEF InPlaceInv, InPlaceIsComplete, RollsBack, TestInv, TablesInv, Unswapped,
        AreSwapped, HalfSwapped, Noop, Test, Running, Typed, WorldType, RunType,
        PlaceType, Names, Contents, Complete, Beginning, Setup, BeforeServer,
        CutOverPlaces, TestPlaces, RollbackPlaces, RestartPlaces, Finish, ControlInv,
        ReturnCutOverError, CutOverFails, Panic, Step, given, postVars
<1>27. ASSUME RenameTablesRollback PROVE TestInv'
    BY <1>27
    DEF InPlaceInv, InPlaceIsComplete, RollsBack, TestInv, TablesInv, Unswapped,
        AreSwapped, HalfSwapped, Noop, Test, Running, Typed, WorldType, RunType,
        PlaceType, Names, Contents, Complete, Beginning, Setup, BeforeServer,
        CutOverPlaces, TestPlaces, RollbackPlaces, RestartPlaces, Finish, ControlInv,
        RenameTablesRollback, Handled, CanRename, Step, Goto, given, postVars
<1>28. ASSUME RenameBackToGhost PROVE TestInv'
    BY <1>28
    DEF InPlaceInv, InPlaceIsComplete, RollsBack, TestInv, TablesInv, Unswapped,
        AreSwapped, HalfSwapped, Noop, Test, Running, Typed, WorldType, RunType,
        PlaceType, Names, Contents, Complete, Beginning, Setup, BeforeServer,
        CutOverPlaces, TestPlaces, RollbackPlaces, RestartPlaces, Finish, ControlInv,
        RenameBackToGhost, RenameBack, Renamed, CanRename, Step, Goto, given, postVars
<1>29. ASSUME RenameBackToOriginal PROVE TestInv'
    BY <1>29
    DEF InPlaceInv, InPlaceIsComplete, RollsBack, TestInv, TablesInv, Unswapped,
        AreSwapped, HalfSwapped, Noop, Test, Running, Typed, WorldType, RunType,
        PlaceType, Names, Contents, Complete, Beginning, Setup, BeforeServer,
        CutOverPlaces, TestPlaces, RollbackPlaces, RestartPlaces, Finish, ControlInv,
        RenameBackToOriginal, RenameBack, Renamed, CanRename, Handled, Step, Goto,
        given, postVars
<1>30. ASSUME OnStartReplication PROVE TestInv'
    BY <1>30
    DEF InPlaceInv, InPlaceIsComplete, RollsBack, TestInv, TablesInv, Unswapped,
        AreSwapped, HalfSwapped, Noop, Test, Running, Typed, WorldType, RunType,
        PlaceType, Names, Contents, Complete, Beginning, Setup, BeforeServer,
        CutOverPlaces, TestPlaces, RollbackPlaces, RestartPlaces, Finish, ControlInv,
        OnStartReplication, Step, Goto, given, postVars
<1>31. ASSUME StartReplication PROVE TestInv'
    BY <1>31
    DEF InPlaceInv, InPlaceIsComplete, RollsBack, TestInv, TablesInv, Unswapped,
        AreSwapped, HalfSwapped, Noop, Test, Running, Typed, WorldType, RunType,
        PlaceType, Names, Contents, Complete, Beginning, Setup, BeforeServer,
        CutOverPlaces, TestPlaces, RollbackPlaces, RestartPlaces, Finish, ControlInv,
        StartReplication, Panic, Step, Goto, given, postVars
<1>32. ASSUME FinalCleanup PROVE TestInv'
    BY <1>32
    DEF InPlaceInv, InPlaceIsComplete, RollsBack, TestInv, TablesInv, Unswapped,
        AreSwapped, HalfSwapped, Noop, Test, Running, Typed, WorldType, RunType,
        PlaceType, Names, Contents, Complete, Beginning, Setup, BeforeServer,
        CutOverPlaces, TestPlaces, RollbackPlaces, RestartPlaces, Finish, ControlInv,
        FinalCleanup, FinalDrop, CleanupFails, Panic, Dropped, Step, Goto, given,
        postVars
<1>33. ASSUME OnSuccess PROVE TestInv'
    BY <1>33
    DEF InPlaceInv, InPlaceIsComplete, RollsBack, TestInv, TablesInv, Unswapped,
        AreSwapped, HalfSwapped, Noop, Test, Running, Typed, WorldType, RunType,
        PlaceType, Names, Contents, Complete, Beginning, Setup, BeforeServer,
        CutOverPlaces, TestPlaces, RollbackPlaces, RestartPlaces, Finish, ControlInv,
        OnSuccess, Step, Goto, Fails, given, postVars
<1>34. ASSUME ListenOnPanicAbort PROVE TestInv'
    BY <1>34
    DEF InPlaceInv, InPlaceIsComplete, RollsBack, TestInv, TablesInv, Unswapped,
        AreSwapped, HalfSwapped, Noop, Test, Running, Typed, WorldType, RunType,
        PlaceType, Names, Contents, Complete, Beginning, Setup, BeforeServer,
        CutOverPlaces, TestPlaces, RollbackPlaces, RestartPlaces, Finish, ControlInv,
        ListenOnPanicAbort, Exit, world
<1>35. ASSUME Killed PROVE TestInv'
    BY <1>35
    DEF InPlaceInv, InPlaceIsComplete, RollsBack, TestInv, TablesInv, Unswapped,
        AreSwapped, HalfSwapped, Noop, Test, Running, Typed, WorldType, RunType,
        PlaceType, Names, Contents, Complete, Beginning, Setup, BeforeServer,
        CutOverPlaces, TestPlaces, RollbackPlaces, RestartPlaces, Finish, ControlInv,
        Killed, Exit, world
<1>36. ASSUME ExitWithError PROVE TestInv'
    BY <1>36
    DEF InPlaceInv, InPlaceIsComplete, RollsBack, TestInv, TablesInv, Unswapped,
        AreSwapped, HalfSwapped, Noop, Test, Running, Typed, WorldType, RunType,
        PlaceType, Names, Contents, Complete, Beginning, Setup, BeforeServer,
        CutOverPlaces, TestPlaces, RollbackPlaces, RestartPlaces, Finish, ControlInv,
        ExitWithError, Exit, world
<1>37. ASSUME ExitDone PROVE TestInv'
    BY <1>37
    DEF InPlaceInv, InPlaceIsComplete, RollsBack, TestInv, TablesInv, Unswapped,
        AreSwapped, HalfSwapped, Noop, Test, Running, Typed, WorldType, RunType,
        PlaceType, Names, Contents, Complete, Beginning, Setup, BeforeServer,
        CutOverPlaces, TestPlaces, RollbackPlaces, RestartPlaces, Finish, ControlInv,
        ExitDone, Exit, world
<1>38. ASSUME Start PROVE TestInv'
    BY <1>38
    DEF InPlaceInv, InPlaceIsComplete, RollsBack, TestInv, TablesInv, Unswapped,
        AreSwapped, HalfSwapped, Noop, Test, Running, Typed, WorldType, RunType,
        PlaceType, Names, Contents, Complete, Beginning, Setup, BeforeServer,
        CutOverPlaces, TestPlaces, RollbackPlaces, RestartPlaces, Finish, ControlInv,
        Start, postVars
<1> QED
    BY <1>1, <1>2, <1>3, <1>4, <1>5, <1>6, <1>7, <1>8, <1>9, <1>10, <1>11, <1>12, <1>13,
       <1>14, <1>15, <1>16, <1>17, <1>18, <1>19, <1>20, <1>21, <1>22, <1>23, <1>24,
       <1>25, <1>26, <1>27, <1>28, <1>29, <1>30, <1>31, <1>32, <1>33, <1>34, <1>35,
       <1>36, <1>37, <1>38
    DEF Next, Migrate, Initiate, CutOverSteps, Exits

(* Every step towards the end leaves what that end promises.               *)
LEMMA FinishKept ==
    ASSUME Typed, ControlInv, TablesInv, InPlaceInv, TestInv, FinishInv, Next
    PROVE  FinishInv'
<1>1. ASSUME UNCHANGED <<tables, process, options, pc, panicked, told>> PROVE FinishInv'
    BY <1>1
    DEF FinishInv, AfterCutOver, Finished, TablesInv, Unswapped, AreSwapped,
        HalfSwapped, Noop, Test, Running
<1>2. ASSUME \/ OperatorTouchesFlagFile \/ CommandUnpostpone \/ SetUnpostpone
      PROVE  FinishInv'
    BY <1>2, <1>1
    DEF OperatorTouchesFlagFile, given, postVars, CommandUnpostpone, world,
        SetUnpostpone
<1>3. ASSUME ApplicationWrites PROVE FinishInv'
    BY <1>3
    DEF FinishInv, AfterCutOver, Finished, TablesInv, Unswapped, AreSwapped,
        HalfSwapped, Noop, Test, Running, InPlaceInv, InPlaceIsComplete, RollsBack,
        TestInv, Typed, WorldType, RunType, PlaceType, Names, Contents, Complete,
        Beginning, Setup, BeforeServer, CutOverPlaces, TestPlaces, RollbackPlaces,
        RestartPlaces, Finish, ControlInv, ApplicationWrites, given, postVars
<1>4. ASSUME OnStartup PROVE FinishInv'
    BY <1>4
    DEF FinishInv, AfterCutOver, Finished, TablesInv, Unswapped, AreSwapped,
        HalfSwapped, Noop, Test, Running, InPlaceInv, InPlaceIsComplete, RollsBack,
        TestInv, Typed, WorldType, RunType, PlaceType, Names, Contents, Complete,
        Beginning, Setup, BeforeServer, CutOverPlaces, TestPlaces, RollbackPlaces,
        RestartPlaces, Finish, ControlInv, OnStartup, Hook, Step, Goto, Fails, given,
        postVars
<1>5. ASSUME InitiateInspector PROVE FinishInv'
    BY <1>5
    DEF FinishInv, AfterCutOver, Finished, TablesInv, Unswapped, AreSwapped,
        HalfSwapped, Noop, Test, Running, InPlaceInv, InPlaceIsComplete, RollsBack,
        TestInv, Typed, WorldType, RunType, PlaceType, Names, Contents, Complete,
        Beginning, Setup, BeforeServer, CutOverPlaces, TestPlaces, RollbackPlaces,
        RestartPlaces, Finish, ControlInv, InitiateInspector, Step, Goto, Fails, given,
        postVars
<1>6. ASSUME ValidateOrDropExistingTables PROVE FinishInv'
    BY <1>6
    DEF FinishInv, AfterCutOver, Finished, TablesInv, Unswapped, AreSwapped,
        HalfSwapped, Noop, Test, Running, InPlaceInv, InPlaceIsComplete, RollsBack,
        TestInv, Typed, WorldType, RunType, PlaceType, Names, Contents, Complete,
        Beginning, Setup, BeforeServer, CutOverPlaces, TestPlaces, RollbackPlaces,
        RestartPlaces, Finish, ControlInv, ValidateOrDropExistingTables, DropLeftover,
        CheckLeftover, Dropped, Step, Goto, Fails, given, postVars
<1>7. ASSUME CreateChangelogTable PROVE FinishInv'
    BY <1>7
    DEF FinishInv, AfterCutOver, Finished, TablesInv, Unswapped, AreSwapped,
        HalfSwapped, Noop, Test, Running, InPlaceInv, InPlaceIsComplete, RollsBack,
        TestInv, Typed, WorldType, RunType, PlaceType, Names, Contents, Complete,
        Beginning, Setup, BeforeServer, CutOverPlaces, TestPlaces, RollbackPlaces,
        RestartPlaces, Finish, ControlInv, CreateChangelogTable, Creates, Step, Goto,
        Fails, given, postVars
<1>8. ASSUME CreateGhostTable PROVE FinishInv'
    BY <1>8
    DEF FinishInv, AfterCutOver, Finished, TablesInv, Unswapped, AreSwapped,
        HalfSwapped, Noop, Test, Running, InPlaceInv, InPlaceIsComplete, RollsBack,
        TestInv, Typed, WorldType, RunType, PlaceType, Names, Contents, Complete,
        Beginning, Setup, BeforeServer, CutOverPlaces, TestPlaces, RollbackPlaces,
        RestartPlaces, Finish, ControlInv, CreateGhostTable, Creates, Step, Goto, Fails,
        given, postVars
<1>9. ASSUME AlterGhost PROVE FinishInv'
    BY <1>9
    DEF FinishInv, AfterCutOver, Finished, TablesInv, Unswapped, AreSwapped,
        HalfSwapped, Noop, Test, Running, InPlaceInv, InPlaceIsComplete, RollsBack,
        TestInv, Typed, WorldType, RunType, PlaceType, Names, Contents, Complete,
        Beginning, Setup, BeforeServer, CutOverPlaces, TestPlaces, RollbackPlaces,
        RestartPlaces, Finish, ControlInv, AlterGhost, Creates, Step, Goto, Fails,
        given, postVars
<1>10. ASSUME WriteChangelogState PROVE FinishInv'
    BY <1>10
    DEF FinishInv, AfterCutOver, Finished, TablesInv, Unswapped, AreSwapped,
        HalfSwapped, Noop, Test, Running, InPlaceInv, InPlaceIsComplete, RollsBack,
        TestInv, Typed, WorldType, RunType, PlaceType, Names, Contents, Complete,
        Beginning, Setup, BeforeServer, CutOverPlaces, TestPlaces, RollbackPlaces,
        RestartPlaces, Finish, ControlInv, WriteChangelogState, Step, Goto, given,
        postVars
<1>11. ASSUME CreateFlagFiles PROVE FinishInv'
    BY <1>11
    DEF FinishInv, AfterCutOver, Finished, TablesInv, Unswapped, AreSwapped,
        HalfSwapped, Noop, Test, Running, InPlaceInv, InPlaceIsComplete, RollsBack,
        TestInv, Typed, WorldType, RunType, PlaceType, Names, Contents, Complete,
        Beginning, Setup, BeforeServer, CutOverPlaces, TestPlaces, RollbackPlaces,
        RestartPlaces, Finish, ControlInv, CreateFlagFiles, Goto, Fails, given, postVars
<1>12. ASSUME AwaitGhostTableMigrated PROVE FinishInv'
    BY <1>12
    DEF FinishInv, AfterCutOver, Finished, TablesInv, Unswapped, AreSwapped,
        HalfSwapped, Noop, Test, Running, InPlaceInv, InPlaceIsComplete, RollsBack,
        TestInv, Typed, WorldType, RunType, PlaceType, Names, Contents, Complete,
        Beginning, Setup, BeforeServer, CutOverPlaces, TestPlaces, RollbackPlaces,
        RestartPlaces, Finish, ControlInv, AwaitGhostTableMigrated, Step, Goto, given,
        postVars
<1>13. ASSUME InspectOriginalAndGhostTables PROVE FinishInv'
    BY <1>13
    DEF FinishInv, AfterCutOver, Finished, TablesInv, Unswapped, AreSwapped,
        HalfSwapped, Noop, Test, Running, InPlaceInv, InPlaceIsComplete, RollsBack,
        TestInv, Typed, WorldType, RunType, PlaceType, Names, Contents, Complete,
        Beginning, Setup, BeforeServer, CutOverPlaces, TestPlaces, RollbackPlaces,
        RestartPlaces, Finish, ControlInv, InspectOriginalAndGhostTables, Queries, Step,
        Goto, Fails, given, postVars
<1>14. ASSUME OnValidated PROVE FinishInv'
    BY <1>14
    DEF FinishInv, AfterCutOver, Finished, TablesInv, Unswapped, AreSwapped,
        HalfSwapped, Noop, Test, Running, InPlaceInv, InPlaceIsComplete, RollsBack,
        TestInv, Typed, WorldType, RunType, PlaceType, Names, Contents, Complete,
        Beginning, Setup, BeforeServer, CutOverPlaces, TestPlaces, RollbackPlaces,
        RestartPlaces, Finish, ControlInv, OnValidated, Hook, Step, Goto, Fails, given,
        postVars
<1>15. ASSUME Prepare PROVE FinishInv'
    BY <1>15
    DEF FinishInv, AfterCutOver, Finished, TablesInv, Unswapped, AreSwapped,
        HalfSwapped, Noop, Test, Running, InPlaceInv, InPlaceIsComplete, RollsBack,
        TestInv, Typed, WorldType, RunType, PlaceType, Names, Contents, Complete,
        Beginning, Setup, BeforeServer, CutOverPlaces, TestPlaces, RollbackPlaces,
        RestartPlaces, Finish, ControlInv, Prepare, Queries, Step, Goto, Fails, given,
        postVars
<1>16. ASSUME OnBeforeRowCopy PROVE FinishInv'
    BY <1>16
    DEF FinishInv, AfterCutOver, Finished, TablesInv, Unswapped, AreSwapped,
        HalfSwapped, Noop, Test, Running, InPlaceInv, InPlaceIsComplete, RollsBack,
        TestInv, Typed, WorldType, RunType, PlaceType, Names, Contents, Complete,
        Beginning, Setup, BeforeServer, CutOverPlaces, TestPlaces, RollbackPlaces,
        RestartPlaces, Finish, ControlInv, OnBeforeRowCopy, Hook, Step, Goto, Fails,
        given, postVars
<1>17. ASSUME ConsumeRowCopyComplete PROVE FinishInv'
    BY <1>17
    DEF FinishInv, AfterCutOver, Finished, TablesInv, Unswapped, AreSwapped,
        HalfSwapped, Noop, Test, Running, InPlaceInv, InPlaceIsComplete, RollsBack,
        TestInv, Typed, WorldType, RunType, PlaceType, Names, Contents, Complete,
        Beginning, Setup, BeforeServer, CutOverPlaces, TestPlaces, RollbackPlaces,
        RestartPlaces, Finish, ControlInv, ConsumeRowCopyComplete, Step, Goto, Panic,
        given, postVars
<1>18. ASSUME OnRowCopyComplete PROVE FinishInv'
    BY <1>18
    DEF FinishInv, AfterCutOver, Finished, TablesInv, Unswapped, AreSwapped,
        HalfSwapped, Noop, Test, Running, InPlaceInv, InPlaceIsComplete, RollsBack,
        TestInv, Typed, WorldType, RunType, PlaceType, Names, Contents, Complete,
        Beginning, Setup, BeforeServer, CutOverPlaces, TestPlaces, RollbackPlaces,
        RestartPlaces, Finish, ControlInv, OnRowCopyComplete, Hook, Step, Goto, Fails,
        given, postVars
<1>19. ASSUME OnBeforeCutOver PROVE FinishInv'
    BY <1>19
    DEF FinishInv, AfterCutOver, Finished, TablesInv, Unswapped, AreSwapped,
        HalfSwapped, Noop, Test, Running, InPlaceInv, InPlaceIsComplete, RollsBack,
        TestInv, Typed, WorldType, RunType, PlaceType, Names, Contents, Complete,
        Beginning, Setup, BeforeServer, CutOverPlaces, TestPlaces, RollbackPlaces,
        RestartPlaces, Finish, ControlInv, OnBeforeCutOver, Hook, Step, Goto, Fails,
        given, postVars
<1>20. ASSUME BeginCutOver PROVE FinishInv'
    BY <1>20
    DEF FinishInv, AfterCutOver, Finished, TablesInv, Unswapped, AreSwapped,
        HalfSwapped, Noop, Test, Running, InPlaceInv, InPlaceIsComplete, RollsBack,
        TestInv, Typed, WorldType, RunType, PlaceType, Names, Contents, Complete,
        Beginning, Setup, BeforeServer, CutOverPlaces, TestPlaces, RollbackPlaces,
        RestartPlaces, Finish, ControlInv, BeginCutOver, CutOverSucceeds, Step, Goto,
        given, postVars
<1>21. ASSUME Postpone PROVE FinishInv'
    BY <1>21
    DEF FinishInv, AfterCutOver, Finished, TablesInv, Unswapped, AreSwapped,
        HalfSwapped, Noop, Test, Running, InPlaceInv, InPlaceIsComplete, RollsBack,
        TestInv, Typed, WorldType, RunType, PlaceType, Names, Contents, Complete,
        Beginning, Setup, BeforeServer, CutOverPlaces, TestPlaces, RollbackPlaces,
        RestartPlaces, Finish, ControlInv, Postpone, EndsPostponing, Unpostponed, Step,
        Goto, given, postVars
<1>22. ASSUME OnStopReplication PROVE FinishInv'
    BY <1>22
    DEF FinishInv, AfterCutOver, Finished, TablesInv, Unswapped, AreSwapped,
        HalfSwapped, Noop, Test, Running, InPlaceInv, InPlaceIsComplete, RollsBack,
        TestInv, Typed, WorldType, RunType, PlaceType, Names, Contents, Complete,
        Beginning, Setup, BeforeServer, CutOverPlaces, TestPlaces, RollbackPlaces,
        RestartPlaces, Finish, ControlInv, OnStopReplication, CutOverFails, Panic, Step,
        Goto, given, postVars
<1>23. ASSUME StopReplication PROVE FinishInv'
    BY <1>23
    DEF FinishInv, AfterCutOver, Finished, TablesInv, Unswapped, AreSwapped,
        HalfSwapped, Noop, Test, Running, InPlaceInv, InPlaceIsComplete, RollsBack,
        TestInv, Typed, WorldType, RunType, PlaceType, Names, Contents, Complete,
        Beginning, Setup, BeforeServer, CutOverPlaces, TestPlaces, RollbackPlaces,
        RestartPlaces, Finish, ControlInv, StopReplication, CutOverPanics, Step, Goto,
        given, postVars
<1>24. ASSUME AtomicCutOver PROVE FinishInv'
  <2>1. Running /\ process' = process /\ UNCHANGED options /\ ~Noop
    BY <1>24
    DEF AtomicCutOver, Step, given, Handle, Running, ControlInv, Running, Beginning,
        Setup, BeforeServer, CutOverPlaces, TestPlaces, RollbackPlaces, RestartPlaces,
        Finish
  <2>2. pc' \in {"rollback", "retry"}
        \/ /\ pc' = "dropChangelog" /\ ~Test
           /\ tables["original"] # "none" /\ tables["ghost"] # "none" /\ Swapped
    BY <1>24 DEF AtomicCutOver, Handle, CanSwap
  <2>3. CASE pc' \in {"rollback", "retry"}
    BY <2>1, <2>3 DEF FinishInv, Running, Finish
  <2>4. CASE pc' = "dropChangelog"
    <3>1. ~Test /\ options.mode = "execute"
      BY <2>1, <2>2, <2>4 DEF Typed, RunType, Options, Modes, Noop, Test
    <3>2. tables["ghost"] = "altered" /\ tables'["original"] = tables["ghost"]
          /\ tables'["ghost"] = "none" /\ tables'["old"] = tables["original"]
          /\ tables["original"] # "none"
      BY <1>24, <2>1, <2>2, <2>4
      DEF AtomicCutOver, Step, Swapped, TablesInv, Unswapped, AreSwapped, HalfSwapped,
          Running, Typed, WorldType, Names, Running, Beginning, Setup, BeforeServer,
          CutOverPlaces, TestPlaces, RollbackPlaces, RestartPlaces, Finish
    <3> QED
      BY <2>1, <2>4, <3>1, <3>2 DEF FinishInv, AfterCutOver, Running, Noop, Test
  <2> QED
    BY <2>2, <2>3, <2>4
<1>25. ASSUME CutOverTwoStep PROVE FinishInv'
  <2>1. Running /\ process' = process /\ UNCHANGED options /\ ~Noop
    BY <1>25
    DEF CutOverTwoStep, Step, given, Handle, Running, ControlInv, Running, Beginning,
        Setup, BeforeServer, CutOverPlaces, TestPlaces, RollbackPlaces, RestartPlaces,
        Finish
  <2>2. pc' \in {"rollback", "retry"}
        \/ /\ pc' = "dropChangelog" /\ ~Test
           /\ tables["original"] # "none" /\ tables["ghost"] # "none" /\ Swapped
    BY <1>25 DEF CutOverTwoStep, Handle, CanSwap
  <2>3. CASE pc' \in {"rollback", "retry"}
    BY <2>1, <2>3 DEF FinishInv, Running, Finish
  <2>4. CASE pc' = "dropChangelog"
    <3>1. ~Test /\ options.mode = "execute"
      BY <2>1, <2>2, <2>4 DEF Typed, RunType, Options, Modes, Noop, Test
    <3>2. tables["ghost"] = "altered" /\ tables'["original"] = tables["ghost"]
          /\ tables'["ghost"] = "none" /\ tables'["old"] = tables["original"]
          /\ tables["original"] # "none"
      BY <1>25, <2>1, <2>2, <2>4
      DEF CutOverTwoStep, Step, Swapped, TablesInv, Unswapped, AreSwapped, HalfSwapped,
          Running, Typed, WorldType, Names, Running, Beginning, Setup, BeforeServer,
          CutOverPlaces, TestPlaces, RollbackPlaces, RestartPlaces, Finish
    <3> QED
      BY <2>1, <2>4, <3>1, <3>2 DEF FinishInv, AfterCutOver, Running, Noop, Test
  <2> QED
    BY <2>2, <2>3, <2>4
<1>26. ASSUME ReturnCutOverError PROVE FinishInv'
    BY <1>26
    DEF FinishInv, AfterCutOver, Finished, TablesInv, Unswapped, AreSwapped,
        HalfSwapped, Noop, Test, Running, InPlaceInv, InPlaceIsComplete, RollsBack,
        TestInv, Typed, WorldType, RunType, PlaceType, Names, Contents, Complete,
        Beginning, Setup, BeforeServer, CutOverPlaces, TestPlaces, RollbackPlaces,
        RestartPlaces, Finish, ControlInv, ReturnCutOverError, CutOverFails, Panic,
        Step, given, postVars
<1>27. ASSUME RenameTablesRollback PROVE FinishInv'
    BY <1>27
    DEF FinishInv, AfterCutOver, Finished, TablesInv, Unswapped, AreSwapped,
        HalfSwapped, Noop, Test, Running, InPlaceInv, InPlaceIsComplete, RollsBack,
        TestInv, Typed, WorldType, RunType, PlaceType, Names, Contents, Complete,
        Beginning, Setup, BeforeServer, CutOverPlaces, TestPlaces, RollbackPlaces,
        RestartPlaces, Finish, ControlInv, RenameTablesRollback, Handled, CanRename,
        Step, Goto, given, postVars
<1>28. ASSUME RenameBackToGhost PROVE FinishInv'
    BY <1>28
    DEF FinishInv, AfterCutOver, Finished, TablesInv, Unswapped, AreSwapped,
        HalfSwapped, Noop, Test, Running, InPlaceInv, InPlaceIsComplete, RollsBack,
        TestInv, Typed, WorldType, RunType, PlaceType, Names, Contents, Complete,
        Beginning, Setup, BeforeServer, CutOverPlaces, TestPlaces, RollbackPlaces,
        RestartPlaces, Finish, ControlInv, RenameBackToGhost, RenameBack, Renamed,
        CanRename, Step, Goto, given, postVars
<1>29. ASSUME RenameBackToOriginal PROVE FinishInv'
    BY <1>29
    DEF FinishInv, AfterCutOver, Finished, TablesInv, Unswapped, AreSwapped,
        HalfSwapped, Noop, Test, Running, InPlaceInv, InPlaceIsComplete, RollsBack,
        TestInv, Typed, WorldType, RunType, PlaceType, Names, Contents, Complete,
        Beginning, Setup, BeforeServer, CutOverPlaces, TestPlaces, RollbackPlaces,
        RestartPlaces, Finish, ControlInv, RenameBackToOriginal, RenameBack, Renamed,
        CanRename, Handled, Step, Goto, given, postVars
<1>30. ASSUME OnStartReplication PROVE FinishInv'
    BY <1>30
    DEF FinishInv, AfterCutOver, Finished, TablesInv, Unswapped, AreSwapped,
        HalfSwapped, Noop, Test, Running, InPlaceInv, InPlaceIsComplete, RollsBack,
        TestInv, Typed, WorldType, RunType, PlaceType, Names, Contents, Complete,
        Beginning, Setup, BeforeServer, CutOverPlaces, TestPlaces, RollbackPlaces,
        RestartPlaces, Finish, ControlInv, OnStartReplication, Step, Goto, given,
        postVars
<1>31. ASSUME StartReplication PROVE FinishInv'
    BY <1>31
    DEF FinishInv, AfterCutOver, Finished, TablesInv, Unswapped, AreSwapped,
        HalfSwapped, Noop, Test, Running, InPlaceInv, InPlaceIsComplete, RollsBack,
        TestInv, Typed, WorldType, RunType, PlaceType, Names, Contents, Complete,
        Beginning, Setup, BeforeServer, CutOverPlaces, TestPlaces, RollbackPlaces,
        RestartPlaces, Finish, ControlInv, StartReplication, Panic, Step, Goto, given,
        postVars
<1>32. ASSUME FinalCleanup PROVE FinishInv'
  <2>1. Running /\ UNCHANGED <<options, process>> /\ options.mode \in Modes
        /\ options.okToDropTable \in BOOLEAN
    BY <1>32 DEF FinalCleanup, FinalDrop, Step, given, Running, Typed, RunType, Options
  <2>2. pc' = "done" => panicked'
    BY <1>32 DEF FinalCleanup, FinalDrop, CleanupFails, Goto, Panic
  <2>3. ASSUME pc' = "done" PROVE FinishInv'
    BY <2>1, <2>2, <2>3 DEF FinishInv, Running, Finish
  <2>4. CASE FinalDrop("dropChangelog", "changelog", TRUE, "dropOldTable")
    <3>1. pc = "dropChangelog" /\ (pc' = "done" \/ (pc' = "dropOldTable" /\ Dropped("changelog")))
      BY <2>4 DEF FinalDrop, CleanupFails, Step, Goto, Panic
    <3> QED
      BY <2>1, <2>3, <3>1
      DEF FinishInv, AfterCutOver, Dropped, Running, Finish, Noop, Test, Typed, WorldType, Names
  <2>5. CASE FinalDrop("dropOldTable", "old", options.okToDropTable /\ ~Test, "dropGhostTable")
    <3>1. /\ pc = "dropOldTable"
          /\ \/ pc' = "done"
             \/ pc' = "dropGhostTable" /\ options.okToDropTable /\ ~Test /\ Dropped("old")
             \/ pc' = "dropGhostTable" /\ ~(options.okToDropTable /\ ~Test) /\ UNCHANGED tables
      BY <2>5 DEF FinalDrop, CleanupFails, Step, Goto, Panic
    <3> QED
      BY <2>1, <2>3, <3>1
      DEF FinishInv, AfterCutOver, Dropped, Running, Finish, Noop, Test, Typed, WorldType, Names, Modes
  <2>6. CASE FinalDrop("dropGhostTable", "ghost", Noop, "onSuccess")
    <3>1. /\ pc = "dropGhostTable"
          /\ \/ pc' = "done"
             \/ pc' = "onSuccess" /\ Noop /\ Dropped("ghost")
             \/ pc' = "onSuccess" /\ ~Noop /\ UNCHANGED tables
      BY <2>6 DEF FinalDrop, CleanupFails, Step, Goto, Panic
    <3> QED
      BY <2>1, <2>3, <3>1
      DEF FinishInv, AfterCutOver, Dropped, Running, Finish, Noop, Test, Typed, WorldType, Names, Modes
  <2> QED
    BY <1>32, <2>4, <2>5, <2>6 DEF FinalCleanup
<1>33. ASSUME OnSuccess PROVE FinishInv'
  <2>1. /\ pc = "onSuccess" /\ Running /\ UNCHANGED <<tables, options, process, panicked>>
        /\ pc' = "failed" \/ (pc' = "done" /\ told')
    BY <1>33 DEF OnSuccess, Step, Goto, Fails, given, Running
  <2>2. RollsBack => AfterCutOver /\ tables["changelog"] = "none"
           /\ (options.mode = "execute" => (tables["old"] = "none") = options.okToDropTable)
           /\ (Noop => tables["ghost"] = "none")
    BY <2>1 DEF FinishInv, Finish
  <2>3. options.mode \in Modes /\ options.okToDropTable \in BOOLEAN
    BY DEF Typed, RunType, Options
  <2>4. CASE pc' = "failed"
    BY <2>1, <2>4 DEF FinishInv, Running, Finish
  <2>5. CASE pc' = "done" /\ told'
    <3>1. RollsBack => Finished'
      BY <2>1, <2>2, <2>3, <2>5 DEF Finished, AfterCutOver, Noop, Test, Modes
    <3> QED
      BY <2>1, <2>5, <3>1 DEF FinishInv, Running, Finish
  <2> QED
    BY <2>1, <2>4, <2>5
<1>34. ASSUME ListenOnPanicAbort PROVE FinishInv'
    BY <1>34
    DEF FinishInv, AfterCutOver, Finished, TablesInv, Unswapped, AreSwapped,
        HalfSwapped, Noop, Test, Running, InPlaceInv, InPlaceIsComplete, RollsBack,
        TestInv, Typed, WorldType, RunType, PlaceType, Names, Contents, Complete,
        Beginning, Setup, BeforeServer, CutOverPlaces, TestPlaces, RollbackPlaces,
        RestartPlaces, Finish, ControlInv, ListenOnPanicAbort, Exit, world
<1>35. ASSUME Killed PROVE FinishInv'
    BY <1>35
    DEF FinishInv, AfterCutOver, Finished, TablesInv, Unswapped, AreSwapped,
        HalfSwapped, Noop, Test, Running, InPlaceInv, InPlaceIsComplete, RollsBack,
        TestInv, Typed, WorldType, RunType, PlaceType, Names, Contents, Complete,
        Beginning, Setup, BeforeServer, CutOverPlaces, TestPlaces, RollbackPlaces,
        RestartPlaces, Finish, ControlInv, Killed, Exit, world
<1>36. ASSUME ExitWithError PROVE FinishInv'
    BY <1>36
    DEF FinishInv, AfterCutOver, Finished, TablesInv, Unswapped, AreSwapped,
        HalfSwapped, Noop, Test, Running, InPlaceInv, InPlaceIsComplete, RollsBack,
        TestInv, Typed, WorldType, RunType, PlaceType, Names, Contents, Complete,
        Beginning, Setup, BeforeServer, CutOverPlaces, TestPlaces, RollbackPlaces,
        RestartPlaces, Finish, ControlInv, ExitWithError, Exit, world
<1>37. ASSUME ExitDone PROVE FinishInv'
    BY <1>37
    DEF FinishInv, AfterCutOver, Finished, TablesInv, Unswapped, AreSwapped,
        HalfSwapped, Noop, Test, Running, InPlaceInv, InPlaceIsComplete, RollsBack,
        TestInv, Typed, WorldType, RunType, PlaceType, Names, Contents, Complete,
        Beginning, Setup, BeforeServer, CutOverPlaces, TestPlaces, RollbackPlaces,
        RestartPlaces, Finish, ControlInv, ExitDone, Exit, world
<1>38. ASSUME Start PROVE FinishInv'
    BY <1>38
    DEF FinishInv, AfterCutOver, Finished, TablesInv, Unswapped, AreSwapped,
        HalfSwapped, Noop, Test, Running, InPlaceInv, InPlaceIsComplete, RollsBack,
        TestInv, Typed, WorldType, RunType, PlaceType, Names, Contents, Complete,
        Beginning, Setup, BeforeServer, CutOverPlaces, TestPlaces, RollbackPlaces,
        RestartPlaces, Finish, ControlInv, Start, postVars
<1>39. ASSUME CommandPanic PROVE FinishInv'
    BY <1>39
    DEF FinishInv, AfterCutOver, Finished, TablesInv, Unswapped, AreSwapped,
        HalfSwapped, Noop, Test, Running, InPlaceInv, InPlaceIsComplete, RollsBack,
        TestInv, Typed, WorldType, RunType, PlaceType, Names, Contents, Complete,
        Beginning, Setup, BeforeServer, CutOverPlaces, TestPlaces, RollbackPlaces,
        RestartPlaces, Finish, ControlInv, CommandPanic, world, given, postVars
<1> QED
    BY <1>1, <1>2, <1>3, <1>4, <1>5, <1>6, <1>7, <1>8, <1>9, <1>10, <1>11, <1>12, <1>13,
       <1>14, <1>15, <1>16, <1>17, <1>18, <1>19, <1>20, <1>21, <1>22, <1>23, <1>24,
       <1>25, <1>26, <1>27, <1>28, <1>29, <1>30, <1>31, <1>32, <1>33, <1>34, <1>35,
       <1>36, <1>37, <1>38, <1>39
    DEF Next, Migrate, Initiate, CutOverSteps, Exits

(* Replication is stopped only where a test stops it.                      *)
LEMMA ReplicationKept ==
    ASSUME Typed, ControlInv, ReplicationInv, Next
    PROVE  ReplicationInv'
<1>1. ASSUME UNCHANGED <<process, options, pc, replicating, panicked>> PROVE ReplicationInv'
    BY <1>1 DEF ReplicationInv, Stopped, Running, Test
<1>2. ASSUME \/ ApplicationWrites \/ OperatorTouchesFlagFile \/ CommandUnpostpone
             \/ SetUnpostpone
      PROVE  ReplicationInv'
    BY <1>2, <1>1
    DEF ApplicationWrites, given, postVars, OperatorTouchesFlagFile, CommandUnpostpone,
        world, SetUnpostpone
<1>3. ASSUME OnStartup PROVE ReplicationInv'
    BY <1>3
    DEF ReplicationInv, Stopped, Running, Test, Noop, ControlInv, Typed, WorldType,
        RunType, PlaceType, Beginning, Setup, BeforeServer, CutOverPlaces, TestPlaces,
        RollbackPlaces, RestartPlaces, Finish, OnStartup, Hook, Step, Goto, Fails,
        given, postVars
<1>4. ASSUME InitiateInspector PROVE ReplicationInv'
    BY <1>4
    DEF ReplicationInv, Stopped, Running, Test, Noop, ControlInv, Typed, WorldType,
        RunType, PlaceType, Beginning, Setup, BeforeServer, CutOverPlaces, TestPlaces,
        RollbackPlaces, RestartPlaces, Finish, InitiateInspector, Step, Goto, Fails,
        given, postVars
<1>5. ASSUME ValidateOrDropExistingTables PROVE ReplicationInv'
    BY <1>5
    DEF ReplicationInv, Stopped, Running, Test, Noop, ControlInv, Typed, WorldType,
        RunType, PlaceType, Beginning, Setup, BeforeServer, CutOverPlaces, TestPlaces,
        RollbackPlaces, RestartPlaces, Finish, ValidateOrDropExistingTables,
        DropLeftover, CheckLeftover, Dropped, Step, Goto, Fails, given, postVars
<1>6. ASSUME CreateChangelogTable PROVE ReplicationInv'
    BY <1>6
    DEF ReplicationInv, Stopped, Running, Test, Noop, ControlInv, Typed, WorldType,
        RunType, PlaceType, Beginning, Setup, BeforeServer, CutOverPlaces, TestPlaces,
        RollbackPlaces, RestartPlaces, Finish, CreateChangelogTable, Creates, Step,
        Goto, Fails, given, postVars
<1>7. ASSUME CreateGhostTable PROVE ReplicationInv'
    BY <1>7
    DEF ReplicationInv, Stopped, Running, Test, Noop, ControlInv, Typed, WorldType,
        RunType, PlaceType, Beginning, Setup, BeforeServer, CutOverPlaces, TestPlaces,
        RollbackPlaces, RestartPlaces, Finish, CreateGhostTable, Creates, Step, Goto,
        Fails, given, postVars
<1>8. ASSUME AlterGhost PROVE ReplicationInv'
    BY <1>8
    DEF ReplicationInv, Stopped, Running, Test, Noop, ControlInv, Typed, WorldType,
        RunType, PlaceType, Beginning, Setup, BeforeServer, CutOverPlaces, TestPlaces,
        RollbackPlaces, RestartPlaces, Finish, AlterGhost, Creates, Step, Goto, Fails,
        given, postVars
<1>9. ASSUME WriteChangelogState PROVE ReplicationInv'
    BY <1>9
    DEF ReplicationInv, Stopped, Running, Test, Noop, ControlInv, Typed, WorldType,
        RunType, PlaceType, Beginning, Setup, BeforeServer, CutOverPlaces, TestPlaces,
        RollbackPlaces, RestartPlaces, Finish, WriteChangelogState, Step, Goto, given,
        postVars
<1>10. ASSUME CreateFlagFiles PROVE ReplicationInv'
    BY <1>10
    DEF ReplicationInv, Stopped, Running, Test, Noop, ControlInv, Typed, WorldType,
        RunType, PlaceType, Beginning, Setup, BeforeServer, CutOverPlaces, TestPlaces,
        RollbackPlaces, RestartPlaces, Finish, CreateFlagFiles, Goto, Fails, given,
        postVars
<1>11. ASSUME AwaitGhostTableMigrated PROVE ReplicationInv'
    BY <1>11
    DEF ReplicationInv, Stopped, Running, Test, Noop, ControlInv, Typed, WorldType,
        RunType, PlaceType, Beginning, Setup, BeforeServer, CutOverPlaces, TestPlaces,
        RollbackPlaces, RestartPlaces, Finish, AwaitGhostTableMigrated, Step, Goto,
        given, postVars
<1>12. ASSUME InspectOriginalAndGhostTables PROVE ReplicationInv'
    BY <1>12
    DEF ReplicationInv, Stopped, Running, Test, Noop, ControlInv, Typed, WorldType,
        RunType, PlaceType, Beginning, Setup, BeforeServer, CutOverPlaces, TestPlaces,
        RollbackPlaces, RestartPlaces, Finish, InspectOriginalAndGhostTables, Queries,
        Step, Goto, Fails, given, postVars
<1>13. ASSUME OnValidated PROVE ReplicationInv'
    BY <1>13
    DEF ReplicationInv, Stopped, Running, Test, Noop, ControlInv, Typed, WorldType,
        RunType, PlaceType, Beginning, Setup, BeforeServer, CutOverPlaces, TestPlaces,
        RollbackPlaces, RestartPlaces, Finish, OnValidated, Hook, Step, Goto, Fails,
        given, postVars
<1>14. ASSUME Prepare PROVE ReplicationInv'
    BY <1>14
    DEF ReplicationInv, Stopped, Running, Test, Noop, ControlInv, Typed, WorldType,
        RunType, PlaceType, Beginning, Setup, BeforeServer, CutOverPlaces, TestPlaces,
        RollbackPlaces, RestartPlaces, Finish, Prepare, Queries, Step, Goto, Fails,
        given, postVars
<1>15. ASSUME OnBeforeRowCopy PROVE ReplicationInv'
    BY <1>15
    DEF ReplicationInv, Stopped, Running, Test, Noop, ControlInv, Typed, WorldType,
        RunType, PlaceType, Beginning, Setup, BeforeServer, CutOverPlaces, TestPlaces,
        RollbackPlaces, RestartPlaces, Finish, OnBeforeRowCopy, Hook, Step, Goto, Fails,
        given, postVars
<1>16. ASSUME ConsumeRowCopyComplete PROVE ReplicationInv'
    BY <1>16
    DEF ReplicationInv, Stopped, Running, Test, Noop, ControlInv, Typed, WorldType,
        RunType, PlaceType, Beginning, Setup, BeforeServer, CutOverPlaces, TestPlaces,
        RollbackPlaces, RestartPlaces, Finish, ConsumeRowCopyComplete, Step, Goto,
        Panic, given, postVars
<1>17. ASSUME OnRowCopyComplete PROVE ReplicationInv'
    BY <1>17
    DEF ReplicationInv, Stopped, Running, Test, Noop, ControlInv, Typed, WorldType,
        RunType, PlaceType, Beginning, Setup, BeforeServer, CutOverPlaces, TestPlaces,
        RollbackPlaces, RestartPlaces, Finish, OnRowCopyComplete, Hook, Step, Goto,
        Fails, given, postVars
<1>18. ASSUME OnBeforeCutOver PROVE ReplicationInv'
    BY <1>18
    DEF ReplicationInv, Stopped, Running, Test, Noop, ControlInv, Typed, WorldType,
        RunType, PlaceType, Beginning, Setup, BeforeServer, CutOverPlaces, TestPlaces,
        RollbackPlaces, RestartPlaces, Finish, OnBeforeCutOver, Hook, Step, Goto, Fails,
        given, postVars
<1>19. ASSUME BeginCutOver PROVE ReplicationInv'
    BY <1>19
    DEF ReplicationInv, Stopped, Running, Test, Noop, ControlInv, Typed, WorldType,
        RunType, PlaceType, Beginning, Setup, BeforeServer, CutOverPlaces, TestPlaces,
        RollbackPlaces, RestartPlaces, Finish, BeginCutOver, CutOverSucceeds, Step,
        Goto, given, postVars
<1>20. ASSUME Postpone PROVE ReplicationInv'
    BY <1>20
    DEF ReplicationInv, Stopped, Running, Test, Noop, ControlInv, Typed, WorldType,
        RunType, PlaceType, Beginning, Setup, BeforeServer, CutOverPlaces, TestPlaces,
        RollbackPlaces, RestartPlaces, Finish, Postpone, EndsPostponing, Unpostponed,
        Step, Goto, given, postVars
<1>21. ASSUME OnStopReplication PROVE ReplicationInv'
    BY <1>21
    DEF ReplicationInv, Stopped, Running, Test, Noop, ControlInv, Typed, WorldType,
        RunType, PlaceType, Beginning, Setup, BeforeServer, CutOverPlaces, TestPlaces,
        RollbackPlaces, RestartPlaces, Finish, OnStopReplication, CutOverFails, Panic,
        Step, Goto, given, postVars
<1>22. ASSUME StopReplication PROVE ReplicationInv'
    BY <1>22
    DEF ReplicationInv, Stopped, Running, Test, Noop, ControlInv, Typed, WorldType,
        RunType, PlaceType, Beginning, Setup, BeforeServer, CutOverPlaces, TestPlaces,
        RollbackPlaces, RestartPlaces, Finish, StopReplication, CutOverPanics, Step,
        Goto, given, postVars
<1>23. ASSUME AtomicCutOver PROVE ReplicationInv'
    BY <1>23
    DEF ReplicationInv, Stopped, Running, Test, Noop, ControlInv, Typed, WorldType,
        RunType, PlaceType, Beginning, Setup, BeforeServer, CutOverPlaces, TestPlaces,
        RollbackPlaces, RestartPlaces, Finish, AtomicCutOver, Handle, Swapped, CanSwap,
        Dropped, Step, given, postVars
<1>24. ASSUME CutOverTwoStep PROVE ReplicationInv'
    BY <1>24
    DEF ReplicationInv, Stopped, Running, Test, Noop, ControlInv, Typed, WorldType,
        RunType, PlaceType, Beginning, Setup, BeforeServer, CutOverPlaces, TestPlaces,
        RollbackPlaces, RestartPlaces, Finish, CutOverTwoStep, Handle, Swapped, CanSwap,
        Step, given, postVars
<1>25. ASSUME ReturnCutOverError PROVE ReplicationInv'
    BY <1>25
    DEF ReplicationInv, Stopped, Running, Test, Noop, ControlInv, Typed, WorldType,
        RunType, PlaceType, Beginning, Setup, BeforeServer, CutOverPlaces, TestPlaces,
        RollbackPlaces, RestartPlaces, Finish, ReturnCutOverError, CutOverFails, Panic,
        Step, given, postVars
<1>26. ASSUME RenameTablesRollback PROVE ReplicationInv'
    BY <1>26
    DEF ReplicationInv, Stopped, Running, Test, Noop, ControlInv, Typed, WorldType,
        RunType, PlaceType, Beginning, Setup, BeforeServer, CutOverPlaces, TestPlaces,
        RollbackPlaces, RestartPlaces, Finish, RenameTablesRollback, Handled, CanRename,
        Step, Goto, given, postVars
<1>27. ASSUME RenameBackToGhost PROVE ReplicationInv'
    BY <1>27
    DEF ReplicationInv, Stopped, Running, Test, Noop, ControlInv, Typed, WorldType,
        RunType, PlaceType, Beginning, Setup, BeforeServer, CutOverPlaces, TestPlaces,
        RollbackPlaces, RestartPlaces, Finish, RenameBackToGhost, RenameBack, Renamed,
        CanRename, Step, Goto, given, postVars
<1>28. ASSUME RenameBackToOriginal PROVE ReplicationInv'
    BY <1>28
    DEF ReplicationInv, Stopped, Running, Test, Noop, ControlInv, Typed, WorldType,
        RunType, PlaceType, Beginning, Setup, BeforeServer, CutOverPlaces, TestPlaces,
        RollbackPlaces, RestartPlaces, Finish, RenameBackToOriginal, RenameBack,
        Renamed, CanRename, Handled, Step, Goto, given, postVars
<1>29. ASSUME OnStartReplication PROVE ReplicationInv'
    BY <1>29
    DEF ReplicationInv, Stopped, Running, Test, Noop, ControlInv, Typed, WorldType,
        RunType, PlaceType, Beginning, Setup, BeforeServer, CutOverPlaces, TestPlaces,
        RollbackPlaces, RestartPlaces, Finish, OnStartReplication, Step, Goto, given,
        postVars
<1>30. ASSUME StartReplication PROVE ReplicationInv'
    BY <1>30
    DEF ReplicationInv, Stopped, Running, Test, Noop, ControlInv, Typed, WorldType,
        RunType, PlaceType, Beginning, Setup, BeforeServer, CutOverPlaces, TestPlaces,
        RollbackPlaces, RestartPlaces, Finish, StartReplication, Panic, Step, Goto,
        given, postVars
<1>31. ASSUME FinalCleanup PROVE ReplicationInv'
    BY <1>31
    DEF ReplicationInv, Stopped, Running, Test, Noop, ControlInv, Typed, WorldType,
        RunType, PlaceType, Beginning, Setup, BeforeServer, CutOverPlaces, TestPlaces,
        RollbackPlaces, RestartPlaces, Finish, FinalCleanup, FinalDrop, CleanupFails,
        Panic, Dropped, Step, Goto, given, postVars
<1>32. ASSUME OnSuccess PROVE ReplicationInv'
    BY <1>32
    DEF ReplicationInv, Stopped, Running, Test, Noop, ControlInv, Typed, WorldType,
        RunType, PlaceType, Beginning, Setup, BeforeServer, CutOverPlaces, TestPlaces,
        RollbackPlaces, RestartPlaces, Finish, OnSuccess, Step, Goto, Fails, given,
        postVars
<1>33. ASSUME ListenOnPanicAbort PROVE ReplicationInv'
    BY <1>33
    DEF ReplicationInv, Stopped, Running, Test, Noop, ControlInv, Typed, WorldType,
        RunType, PlaceType, Beginning, Setup, BeforeServer, CutOverPlaces, TestPlaces,
        RollbackPlaces, RestartPlaces, Finish, ListenOnPanicAbort, Exit, world
<1>34. ASSUME Killed PROVE ReplicationInv'
    BY <1>34
    DEF ReplicationInv, Stopped, Running, Test, Noop, ControlInv, Typed, WorldType,
        RunType, PlaceType, Beginning, Setup, BeforeServer, CutOverPlaces, TestPlaces,
        RollbackPlaces, RestartPlaces, Finish, Killed, Exit, world
<1>35. ASSUME ExitWithError PROVE ReplicationInv'
    BY <1>35
    DEF ReplicationInv, Stopped, Running, Test, Noop, ControlInv, Typed, WorldType,
        RunType, PlaceType, Beginning, Setup, BeforeServer, CutOverPlaces, TestPlaces,
        RollbackPlaces, RestartPlaces, Finish, ExitWithError, Exit, world
<1>36. ASSUME ExitDone PROVE ReplicationInv'
    BY <1>36
    DEF ReplicationInv, Stopped, Running, Test, Noop, ControlInv, Typed, WorldType,
        RunType, PlaceType, Beginning, Setup, BeforeServer, CutOverPlaces, TestPlaces,
        RollbackPlaces, RestartPlaces, Finish, ExitDone, Exit, world
<1>37. ASSUME Start PROVE ReplicationInv'
    BY <1>37
    DEF ReplicationInv, Stopped, Running, Test, Noop, ControlInv, Typed, WorldType,
        RunType, PlaceType, Beginning, Setup, BeforeServer, CutOverPlaces, TestPlaces,
        RollbackPlaces, RestartPlaces, Finish, Start, postVars
<1>38. ASSUME CommandPanic PROVE ReplicationInv'
    BY <1>38
    DEF ReplicationInv, Stopped, Running, Test, Noop, ControlInv, Typed, WorldType,
        RunType, PlaceType, Beginning, Setup, BeforeServer, CutOverPlaces, TestPlaces,
        RollbackPlaces, RestartPlaces, Finish, CommandPanic, world, given, postVars
<1> QED
    BY <1>1, <1>2, <1>3, <1>4, <1>5, <1>6, <1>7, <1>8, <1>9, <1>10, <1>11, <1>12, <1>13,
       <1>14, <1>15, <1>16, <1>17, <1>18, <1>19, <1>20, <1>21, <1>22, <1>23, <1>24,
       <1>25, <1>26, <1>27, <1>28, <1>29, <1>30, <1>31, <1>32, <1>33, <1>34, <1>35,
       <1>36, <1>37, <1>38
    DEF Next, Migrate, Initiate, CutOverSteps, Exits

-----------------------------------------------------------------------------
(* The invariant holds from the start.                                     *)
LEMMA InitIInv == Init => IInv
<1> SUFFICES ASSUME Init PROVE IInv
    OBVIOUS
<1>1. options.mode \in Modes /\ (options.skipReplicaStop => Test)
    BY DEF Init, Options, Test
<1>2. Typed
    <2>1. CountType
        BY Bounds DEF Init, CountType
    <2>2. WorldType /\ RunType /\ FlagType /\ PlaceType
        BY DEF Init, WorldType, RunType, FlagType, PlaceType, Names, Contents, Complete, Beginning
    <2> QED
        BY <2>1, <2>2 DEF Typed
<1>3. /\ pc = "onStartup" /\ process = "running" /\ replicating
      /\ tables["original"] = "original"
    BY DEF Init, Names
<1>4. ControlInv
    BY <1>1, <1>3 DEF ControlInv, Running, CutOverPlaces, TestPlaces, RollbackPlaces, RestartPlaces
<1>5. TablesInv /\ KeptInv /\ InPlaceInv
    BY <1>3
    DEF TablesInv, KeptInv, InPlaceInv, InPlaceIsComplete, Running, Complete, Beginning, Setup,
        BeforeServer, CutOverPlaces, TestPlaces, RollbackPlaces, RestartPlaces, Finish
<1>6. TestInv /\ FinishInv
    BY <1>3
    DEF TestInv, FinishInv, Running, CutOverPlaces, TestPlaces, RollbackPlaces, RestartPlaces, Finish
<1>7. ReplicationInv
    BY <1>3 DEF ReplicationInv
<1> QED
    BY <1>2, <1>4, <1>5, <1>6, <1>7 DEF IInv

(* Every step preserves it, and so does a step of something else.          *)
LEMMA StepIInv == IInv /\ [Next]_vars => IInv'
<1> SUFFICES ASSUME IInv, [Next]_vars PROVE IInv'
    OBVIOUS
<1>1. CASE Next
    <2>1. Typed /\ ControlInv /\ TablesInv /\ KeptInv
          /\ InPlaceInv /\ TestInv /\ FinishInv /\ ReplicationInv
        BY DEF IInv
    <2>2. Typed'
        BY <1>1, <2>1, WorldTypeKept, RunTypeKept, CountTypeKept, FlagTypeKept, PlaceTypeKept
        DEF Typed
    <2>3. ControlInv' /\ TablesInv' /\ KeptInv'
        BY <1>1, <2>1, ControlKept, TablesKept, KeptKept
    <2>4. InPlaceInv' /\ TestInv'
        BY <1>1, <2>1, InPlaceKept, TestKept
    <2>5. FinishInv' /\ ReplicationInv'
        BY <1>1, <2>1, FinishKept, ReplicationKept
    <2> QED
        BY <2>2, <2>3, <2>4, <2>5 DEF IInv
<1>2. CASE UNCHANGED vars
    <2>1. /\ UNCHANGED <<tables, replicating, flagFile>> /\ UNCHANGED <<options, runs, process>>
          /\ UNCHANGED <<isPostponing, unpostpone, commanded>>
          /\ UNCHANGED <<pc, tries, outcome, panicked, told>>
        BY <1>2 DEF vars, world, given, postVars
    <2>2. Typed'
        <3>1. WorldType' /\ RunType'
            BY <2>1 DEF IInv, Typed, WorldType, RunType
        <3>2. CountType'
            BY <2>1 DEF IInv, Typed, CountType
        <3>3. FlagType' /\ PlaceType'
            BY <2>1 DEF IInv, Typed, FlagType, PlaceType
        <3> QED
            BY <3>1, <3>2, <3>3 DEF Typed
    <2>3. ControlInv' /\ TablesInv' /\ KeptInv'
        BY <2>1
        DEF IInv, ControlInv, TablesInv, KeptInv, Unswapped, AreSwapped, HalfSwapped, Noop, Test,
            Running
    <2>4. InPlaceInv' /\ TestInv'
        BY <2>1
        DEF IInv, InPlaceInv, InPlaceIsComplete, TestInv, Unswapped, AreSwapped, HalfSwapped, Test,
            Running
    <2>5. FinishInv' /\ ReplicationInv'
        BY <2>1
        DEF IInv, FinishInv, AfterCutOver, Finished, ReplicationInv, Noop, Test, Running
    <2> QED
        BY <2>2, <2>3, <2>4, <2>5 DEF IInv
<1> QED
    BY <1>1, <1>2

(* The inductive invariant: whatever fails, in every run and every mode.   *)
THEOREM InvariantHolds == Spec => []IInv
BY InitIInv, StepIInv, PTL DEF Spec

-----------------------------------------------------------------------------
(* What follows from it.                                                   *)

(* The variables have their types: no step of Migrate leads to a place     *)
(* that is none of its own, and neither runs nor attempts are overrun.     *)
THEOREM TypeCorrect == Spec => []TypeOK
<1>1. IInv => TypeOK
    BY TypeParts DEF IInv
<1> QED
    BY <1>1, InvariantHolds, PTL

(* Whatever fails, wherever the process dies and whatever a later run is   *)
(* told to drop: some table has every row and every write.                 *)
THEOREM SomethingKept == Spec => []SomethingIsKept
<1>1. IInv => SomethingIsKept
    BY DEF IInv, KeptInv, SomethingIsKept, Names
<1> QED
    BY <1>1, InvariantHolds, PTL

(* If a single table can be renamed back, whatever else fails, the         *)
(* application never works on an incomplete table.                         *)
THEOREM InPlaceComplete ==
    ASSUME "rollbackTwice" \notin Faults
    PROVE  Spec => []InPlaceIsComplete
<1>1. IInv => InPlaceIsComplete
    BY DEF IInv, InPlaceInv, RollsBack
<1> QED
    BY <1>1, InvariantHolds, PTL

(* Then, too, a process that ends with status 0 has done all it was asked  *)
(* for: tables in place, leftovers dropped, on-success told.               *)
THEOREM ExitZeroIsDone ==
    ASSUME "rollbackTwice" \notin Faults
    PROVE  Spec => []ExitZeroMeansDone
<1>1. IInv => ExitZeroMeansDone
    BY DEF IInv, FinishInv, RollsBack, Finished, ExitZeroMeansDone
<1> QED
    BY <1>1, InvariantHolds, PTL

(* If the hook that starts replication does not fail, the replica          *)
(* replicates between two attempts of a test, or the process is ending.    *)
THEOREM ReplicationGoesOn ==
    ASSUME "startHook" \notin Faults
    PROVE  Spec => []ReplicationRuns
<1>1. IInv => ReplicationRuns
    BY DEF IInv, ReplicationInv, ReplicationRuns, Running, Stopped, RollbackPlaces, RestartPlaces,
           Finish
<1> QED
    BY <1>1, InvariantHolds, PTL

-----------------------------------------------------------------------------
(* The postponement.                                                       *)

(* Only Postpone leads from a postponed cut-over to an attempt.            *)
LEMMA OnlyPostponeEndsPostponing ==
    ASSUME Next, pc = "postpone", pc' \in {"attempt", "onStopReplication"}
    PROVE  Postpone
<1>1. ~ApplicationWrites /\ ~OperatorTouchesFlagFile /\ ~OnStartup
      /\ ~InitiateInspector /\ ~ValidateOrDropExistingTables /\ ~CreateChangelogTable
    BY DEF ApplicationWrites, given, postVars, OperatorTouchesFlagFile, OnStartup, Hook,
        Step, Goto, Fails, InitiateInspector, ValidateOrDropExistingTables,
        DropLeftover, CheckLeftover, Dropped, CreateChangelogTable, Creates
<1>2. ~CreateGhostTable /\ ~AlterGhost /\ ~WriteChangelogState
      /\ ~CreateFlagFiles /\ ~AwaitGhostTableMigrated /\ ~InspectOriginalAndGhostTables
    BY DEF CreateGhostTable, Creates, Step, Goto, Fails, given, postVars, AlterGhost,
        WriteChangelogState, CreateFlagFiles, AwaitGhostTableMigrated,
        InspectOriginalAndGhostTables, Queries
<1>3. ~OnValidated /\ ~Prepare /\ ~OnBeforeRowCopy
      /\ ~ConsumeRowCopyComplete /\ ~OnRowCopyComplete /\ ~OnBeforeCutOver
    BY DEF OnValidated, Hook, Step, Goto, Fails, given, postVars, Prepare, Queries,
        OnBeforeRowCopy, ConsumeRowCopyComplete, Panic, OnRowCopyComplete,
        OnBeforeCutOver
<1>4. ~BeginCutOver /\ ~OnStopReplication /\ ~StopReplication
      /\ ~AtomicCutOver /\ ~CutOverTwoStep /\ ~ReturnCutOverError
    BY DEF BeginCutOver, CutOverSucceeds, Step, Goto, given, postVars, OnStopReplication,
        CutOverFails, Panic, StopReplication, CutOverPanics, AtomicCutOver, Handle,
        Swapped, CanSwap, Dropped, CutOverTwoStep, ReturnCutOverError
<1>5. ~RenameTablesRollback /\ ~RenameBackToGhost /\ ~RenameBackToOriginal
      /\ ~OnStartReplication /\ ~StartReplication /\ ~FinalCleanup
    BY DEF RenameTablesRollback, Handled, CanRename, Step, Goto, given, postVars,
        RenameBackToGhost, RenameBack, Renamed, RenameBackToOriginal,
        OnStartReplication, StartReplication, Panic, FinalCleanup, FinalDrop,
        CleanupFails, Dropped
<1>6. ~OnSuccess /\ ~ListenOnPanicAbort /\ ~Killed
      /\ ~ExitWithError /\ ~ExitDone /\ ~Start
    BY DEF OnSuccess, Step, Goto, Fails, given, postVars, ListenOnPanicAbort, Exit, world,
        Killed, ExitWithError, ExitDone, Start
<1>7. ~CommandUnpostpone /\ ~SetUnpostpone /\ ~CommandPanic
    BY DEF CommandUnpostpone, world, given, SetUnpostpone, CommandPanic, postVars
<1> QED
    BY <1>1, <1>2, <1>3, <1>4, <1>5, <1>6, <1>7
    DEF Next, Migrate, Initiate, CutOverSteps, Exits

(* If the hook that begins the postponement does not fail, no attempt      *)
(* begins as long as the flag file exists, except by a command of the      *)
(* operator, and a command is good for one attempt.                        *)
THEOREM PostponedUntilTold ==
    ASSUME "postponedHook" \notin Faults
    PROVE  Spec => PostponedWhileFileExists
<1>1. ASSUME [Next]_vars, pc = "postpone", pc' \in {"attempt", "onStopReplication"}
      PROVE  ~options.postpone \/ ~flagFile \/ (unpostpone /\ ~unpostpone')
    <2>1. Postpone
        BY <1>1, OnlyPostponeEndsPostponing DEF vars
    <2> QED
        BY <1>1, <2>1 DEF Postpone, Unpostponed, EndsPostponing, Goto
<1>2. [Next]_vars =>
        ((pc = "postpone" /\ pc' \in {"attempt", "onStopReplication"}) =>
            ~options.postpone \/ ~flagFile \/ (unpostpone /\ ~unpostpone'))
    BY <1>1
<1> QED
    BY <1>2, PTL DEF Spec, PostponedWhileFileExists

=============================================================================

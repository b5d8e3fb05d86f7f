------------------------------ MODULE Migration ------------------------------
(***************************************************************************)
(* A migration from the start of the process to its exit: the order of     *)
(* steps in Migrate, what each leaves behind when it fails, the loop of    *)
(* cut-over attempts with postponement, the revert of a test on a replica, *)
(* the cleanup, and what the process reports.  gh-ost may be started       *)
(* again, with other options, on the tables that an earlier run left.      *)
(*                                                                         *)
(* Tables are seen as a whole: GhostSync says how the ghost table is       *)
(* filled and kept in sync, CutOver what an attempt does and how it can    *)
(* fail, Streamer and Throttle what else Migrate waits for.                *)
(***************************************************************************)
EXTENDS Naturals, FiniteSets

CONSTANTS
    MaxRetries,  \* --default-retries
    MaxRuns,     \* bound: how often gh-ost is started
    Faults       \* what may go wrong, besides a cut-over that times out

FaultKinds == {
    "query",          \* a statement (or the touch of a file) fails, for good if retried
    "hook",           \* a hook fails; these two have their own kind:
    "postponedHook",  \* gh-ost-on-begin-postponed
    "startHook",      \* gh-ost-on-start-replication
    "stateRow",       \* WriteChangelogState writes nothing
    "swapUnseen",     \* an attempt is reported as failed, the tables are swapped
    "rollback",       \* the RENAME that reverts both tables fails,
    "rollbackTwice",  \* ... and so does one of a single table
    "panic",          \* the operator commands panic
    "killed" }        \* the process dies

ASSUME MigrationAssumption ==
    /\ {MaxRetries, MaxRuns} \subseteq Nat \ {0}
    /\ Faults \subseteq FaultKinds

Names == {"original", "ghost", "old", "changelog"}

(* Every row and every write: in the structure the run began with, or in   *)
(* the one of the ghost table.                                             *)
Complete == {"original", "altered"}

(* The contents by some name.  "behind": rows or writes are missing.       *)
Contents == Complete \cup {"none", "behind", "sentry", "empty", "migrated"}

Modes == {"noop", "test", "execute"}

(* The options, as far as the command line lets them be combined.          *)
Options == {o \in [mode : Modes, skipReplicaStop : BOOLEAN, postpone : BOOLEAN,
                   okToDropTable : BOOLEAN, dropGhost : BOOLEAN, dropOld : BOOLEAN,
                   cutOverType : {"atomic", "two-step"}] :
                o.skipReplicaStop => o.mode = "test"}

VARIABLES
    tables,        \* what there is by each of the Names
    replicating,   \* do writes of the application reach the migrated server?
    flagFile,      \* does the postpone-cut-over flag file exist?
    options,       \* of the run
    runs,          \* how many there were
    process,       \* "running", or how the last run ended
    pc,            \* where the run is in Migrate
    tries,         \* failed attempts of the cut-over
    outcome,       \* what the attempt's cut-over returned
    panicked,      \* PanicAbort has received an error
    isPostponing,  \* IsPostponingCutOver
    unpostpone,    \* UserCommandedUnpostponeFlag
    commanded,     \* the server is about to set it
    told           \* on-success has run

world    == <<tables, replicating, flagFile>>
given    == <<options, runs, process>>
postVars == <<isPostponing, unpostpone, commanded>>
vars     == <<world, given, pc, tries, outcome, panicked, postVars, told>>

Init ==
    /\ tables = [n \in Names |-> IF n = "original" THEN "original" ELSE "none"]
    /\ replicating = TRUE /\ flagFile = FALSE
    /\ options \in Options
    /\ runs = 1 /\ process = "running" /\ pc = "onStartup"
    /\ tries = 0 /\ outcome = "none" /\ panicked = FALSE
    /\ isPostponing = FALSE /\ unpostpone = FALSE /\ commanded = FALSE
    /\ told = FALSE

Test == options.mode = "test"
Noop == options.mode = "noop"

-----------------------------------------------------------------------------
(* The application, the operator, the process.                             *)

BeforeServer == {"onStartup", "inspect", "dropGhost", "checkGhost", "dropOld", "checkOld",
    "changelog", "createGhost", "alterGhost", "writeState", "flagFiles", "await", "examine",
    "onValidated", "prepare"}

(* From here on row copy and events keep the ghost table in sync.          *)
InSync ==
    process = "running" /\ ~Noop /\ pc \notin BeforeServer \cup {"onBeforeRowCopy", "copy"}

(* Only what has the original name gets the writes, and the ghost table    *)
(* through gh-ost.                                                         *)
ApplicationWrites ==
    /\ replicating /\ tables["original"] \in Complete
    /\ tables' = [n \in Names |->
          IF tables[n] \in Complete /\ n # "original" /\ ~(n = "ghost" /\ InSync)
          THEN "behind" ELSE tables[n]]
    /\ UNCHANGED <<replicating, flagFile, given, pc, tries, outcome, panicked, postVars, told>>

OperatorTouchesFlagFile ==
    /\ options.postpone
    /\ flagFile' \in BOOLEAN
    /\ UNCHANGED <<tables, replicating, given, pc, tries, outcome, panicked, postVars, told>>

(* The process ends: what it had in memory is gone.                        *)
Exit(status) ==
    /\ process' = status /\ pc' = "exited"
    /\ tries' = 0 /\ outcome' = "none" /\ panicked' = FALSE
    /\ isPostponing' = FALSE /\ unpostpone' = FALSE /\ commanded' = FALSE
    /\ UNCHANGED <<world, options, runs, told>>

(* listenOnPanicAbort: log.Fatale.                                         *)
ListenOnPanicAbort == process = "running" /\ panicked /\ Exit("exit 1")

Killed == process = "running" /\ "killed" \in Faults /\ Exit("exit 1")

(* Migrate has returned: an error, after which the on-failure hook runs,   *)
(* or nil, after which the process waits, long enough for a panic to end   *)
(* it first.                                                               *)
ExitWithError == process = "running" /\ pc = "failed" /\ Exit("exit 1")
ExitDone == process = "running" /\ pc = "done" /\ ~panicked /\ Exit("exit 0")

Start ==
    /\ process # "running" /\ runs < MaxRuns
    /\ runs' = runs + 1 /\ process' = "running" /\ pc' = "onStartup"
    /\ options' \in Options
    /\ tables' = [tables EXCEPT !["original"] = IF @ = "none" THEN @ ELSE "original"]
    /\ replicating' = TRUE /\ told' = FALSE
    /\ UNCHANGED <<flagFile, tries, outcome, panicked, postVars>>

-----------------------------------------------------------------------------
(* Steps of Migrate.                                                       *)

Step(at) ==
    /\ process = "running" /\ pc = at
    /\ UNCHANGED <<flagFile, given>>

Goto(at) == pc' = at /\ UNCHANGED <<tries, outcome, panicked, told>>

(* retryOperation is through with its tries.  A second error finds nobody  *)
(* who receives from PanicAbort.                                           *)
Panic(at) ==
    /\ ~panicked /\ panicked' = TRUE
    /\ pc' = at /\ UNCHANGED <<tries, outcome, told>>

Fails(fault) == fault \in Faults /\ Goto("failed")

Hook(at, next) ==
    /\ Step(at)
    /\ Goto(next) \/ Fails("hook")
    /\ UNCHANGED <<tables, replicating, postVars>>

OnStartup == Hook("onStartup", "inspect")

(* Mutant: the original table need not exist.                              *)
InitiateWithoutInspector ==
    /\ Step("inspect")
    /\ Goto(IF options.dropGhost THEN "dropGhost" ELSE "checkGhost")
    /\ UNCHANGED <<tables, replicating, postVars>>

(* initiateInspector and initiateStreaming; the original table must be     *)
(* there.                                                                  *)
InitiateInspector ==
    /\ Step("inspect")
    /\ \/ /\ tables["original"] # "none"
          /\ Goto(IF options.dropGhost THEN "dropGhost" ELSE "checkGhost")
       \/ tables["original"] = "none" /\ Goto("failed")
       \/ Fails("query")
    /\ UNCHANGED <<tables, replicating, postVars>>

Dropped(name) == tables' = [tables EXCEPT ![name] = "none"]

(* ValidateOrDropExistingTables: a table left behind is dropped, if asked  *)
(* for, or stops the migration.  A check that fails takes it for absent.   *)
DropLeftover(at, name, next) ==
    /\ Step(at)
    /\ \/ Dropped(name) /\ Goto(next)
       \/ Fails("query") /\ UNCHANGED tables
    /\ UNCHANGED <<replicating, postVars>>

CheckLeftover(at, name, next) ==
    /\ Step(at)
    /\ \/ (tables[name] = "none" \/ "query" \in Faults) /\ Goto(next)
       \/ tables[name] # "none" /\ Goto("failed")
    /\ UNCHANGED <<tables, replicating, postVars>>

ValidateOrDropExistingTables ==
    \/ DropLeftover("dropGhost", "ghost", "checkGhost")
    \/ CheckLeftover("checkGhost", "ghost", IF options.dropOld THEN "dropOld" ELSE "checkOld")
    \/ DropLeftover("dropOld", "old", "checkOld")
    \/ CheckLeftover("checkOld", "old", "changelog")

(* A statement that creates or changes a table.                            *)
Creates(at, name, content, possible, next) ==
    /\ Step(at)
    /\ \/ possible /\ tables' = [tables EXCEPT ![name] = content] /\ Goto(next)
       \/ ~possible /\ Goto("failed") /\ UNCHANGED tables
       \/ Fails("query") /\ UNCHANGED tables
    /\ UNCHANGED <<replicating, postVars>>

CreateChangelogTable == Creates("changelog", "changelog", "empty", TRUE, "createGhost")
CreateGhostTable ==
    Creates("createGhost", "ghost", "behind", tables["ghost"] = "none", "alterGhost")
AlterGhost == Creates("alterGhost", "ghost", "behind", TRUE, "writeState")

(* The error of WriteChangelogState is ignored.                            *)
WriteChangelogState ==
    /\ Step("writeState")
    /\ \/ tables' = [tables EXCEPT !["changelog"] = "migrated"]
       \/ "stateRow" \in Faults /\ UNCHANGED tables
    /\ Goto("flagFiles")
    /\ UNCHANGED <<replicating, postVars>>

CreateFlagFiles ==
    /\ process = "running" /\ pc = "flagFiles"
    /\ \/ flagFile' = (options.postpone \/ flagFile) /\ Goto("await")
       \/ options.postpone /\ ~flagFile /\ Fails("query") /\ UNCHANGED flagFile
    /\ UNCHANGED <<tables, replicating, given, postVars>>

(* The state row comes back through binary log and streamer.               *)
AwaitGhostTableMigrated ==
    /\ Step("await")
    /\ tables["changelog"] = "migrated"
    /\ Goto("examine")
    /\ UNCHANGED <<tables, replicating, postVars>>

Queries(at, next) ==
    /\ Step(at)
    /\ Goto(next) \/ Fails("query")
    /\ UNCHANGED <<tables, replicating, postVars>>

InspectOriginalAndGhostTables == Queries("examine", "onValidated")
OnValidated == Hook("onValidated", "prepare")

(* Server, row count, listener, range of the row copy, throttler.          *)
Prepare == Queries("prepare", "onBeforeRowCopy")
OnBeforeRowCopy == Hook("onBeforeRowCopy", "copy")

(* Mutant: an error that ends the row copy is not looked at.               *)
ConsumeAnyRowCopy ==
    /\ Step("copy")
    /\ tables' = [tables EXCEPT !["ghost"] = IF Noop THEN @ ELSE "altered"] \/ UNCHANGED tables
    /\ Goto("onRowCopyComplete")
    /\ UNCHANGED <<replicating, postVars>>

(* The row copy ends; after an error Migrate goes on until PanicAbort ends *)
(* the process.                                                            *)
ConsumeRowCopyComplete ==
    /\ Step("copy")
    /\ \/ /\ tables' = [tables EXCEPT !["ghost"] = IF Noop THEN @ ELSE "altered"]
          /\ Goto("onRowCopyComplete")
       \/ "query" \in Faults /\ Panic("failed") /\ UNCHANGED tables
    /\ UNCHANGED <<replicating, postVars>>

OnRowCopyComplete == Hook("onRowCopyComplete", "onBeforeCutOver")
OnBeforeCutOver == Hook("onBeforeCutOver", "cutOver")

-----------------------------------------------------------------------------
(* The operator's commands, once the server listens.                       *)

Serving == process = "running" /\ pc \notin BeforeServer

CommandUnpostpone ==
    /\ Serving /\ isPostponing /\ ~commanded
    /\ commanded' = TRUE
    /\ UNCHANGED <<world, given, pc, tries, outcome, panicked, isPostponing, unpostpone, told>>

SetUnpostpone ==
    /\ commanded
    /\ unpostpone' = TRUE /\ commanded' = FALSE
    /\ UNCHANGED <<world, given, pc, tries, outcome, panicked, isPostponing, told>>

CommandPanic ==
    /\ "panic" \in Faults
    /\ Serving /\ ~panicked
    /\ panicked' = TRUE
    /\ UNCHANGED <<world, given, pc, tries, outcome, postVars, told>>

-----------------------------------------------------------------------------
(* retryOperation(cutOver).                                                *)

CutOverSucceeds == Goto("dropChangelog")

(* Mutant: attempts are not counted.                                       *)
RetryForEver == pc' = "cutOver" /\ UNCHANGED <<tries, outcome, panicked, told>>

(* Mutant: one attempt too many.                                           *)
CutOverFailsOnceMore ==
    IF tries < MaxRetries
    THEN pc' = "cutOver" /\ tries' = tries + 1 /\ UNCHANGED <<outcome, panicked, told>>
    ELSE Panic("failed")

(* cutOver returns an error ...                                            *)
CutOverFails ==
    IF tries + 1 < MaxRetries
    THEN pc' = "cutOver" /\ tries' = tries + 1 /\ UNCHANGED <<outcome, panicked, told>>
    ELSE Panic("failed")

(* ... that has been sent to PanicAbort: a second one is not received.     *)
CutOverPanics ==
    /\ ~panicked /\ panicked' = TRUE
    /\ IF tries + 1 < MaxRetries
       THEN pc' = "cutOver" /\ tries' = tries + 1
       ELSE pc' = "blocked" /\ tries' = tries
    /\ UNCHANGED <<outcome, told>>

BeginCutOver ==
    /\ Step("cutOver")
    /\ IF Noop THEN CutOverSucceeds ELSE Goto("postpone")
    /\ UNCHANGED <<tables, replicating, postVars>>

EndsPostponing == isPostponing' = FALSE /\ Goto(IF Test THEN "onStopReplication" ELSE "attempt")

(* Mutant: a command counts for all attempts to come.                      *)
UnpostponedForGood ==
    /\ unpostpone /\ EndsPostponing /\ UNCHANGED unpostpone

Unpostponed ==
    /\ unpostpone /\ unpostpone' = FALSE
    /\ EndsPostponing

(* One look at flag and file.  sleepWhileTrue ends with the error of a     *)
(* hook, which nobody looks at.                                            *)
Postpone ==
    /\ Step("postpone")
    /\ \/ options.postpone /\ Unpostponed
       \/ /\ ~options.postpone \/ (~unpostpone /\ ~flagFile)
          /\ EndsPostponing /\ UNCHANGED unpostpone
       \/ /\ options.postpone /\ ~unpostpone /\ flagFile
          /\ \/ isPostponing' = TRUE /\ Goto("postpone")
             \/ "postponedHook" \in Faults /\ ~isPostponing /\ EndsPostponing
          /\ UNCHANGED unpostpone
    /\ UNCHANGED <<tables, replicating, commanded>>

(* With --test-on-replica-skip-replica-stop the hook stops replication.    *)
OnStopReplication ==
    /\ Step("onStopReplication")
    /\ \/ Goto(IF options.skipReplicaStop THEN "attempt" ELSE "stopReplication")
          /\ replicating' = (replicating /\ ~options.skipReplicaStop)
       \/ "hook" \in Faults /\ CutOverFails /\ UNCHANGED replicating
    /\ UNCHANGED <<tables, postVars>>

StopReplication ==
    /\ Step("stopReplication")
    /\ \/ replicating' = FALSE /\ Goto("attempt")
       \/ /\ "query" \in Faults
          /\ replicating' \in {replicating, FALSE}
          /\ CutOverPanics
    /\ UNCHANGED <<tables, postVars>>

(* What cutOver does next with the result of the attempt.                  *)
Handle(result) ==
    IF Test THEN pc' = "rollback" /\ outcome' = result /\ UNCHANGED <<tries, told>>
    ELSE IF result = "ok" THEN pc' = "dropChangelog" /\ UNCHANGED <<tries, outcome, told>>
    ELSE pc' = "retry" /\ UNCHANGED <<tries, outcome, told>>

Swapped == tables' =
    [tables EXCEPT !["original"] = tables["ghost"], !["ghost"] = "none",
                   !["old"] = tables["original"]]

CanSwap(oldNames) ==
    tables["original"] # "none" /\ tables["ghost"] # "none" /\ tables["old"] \in oldNames

(* The attempts of CutOver: one that fails may leave its sentry table, or  *)
(* have swapped the tables all the same.                                   *)
AtomicCutOver ==
    /\ Step("attempt") /\ options.cutOverType = "atomic"
    /\ \/ CanSwap({"none", "sentry"}) /\ Swapped /\ Handle("ok")
       \/ "swapUnseen" \in Faults /\ CanSwap({"none", "sentry"}) /\ Swapped /\ Handle("error")
       \/ /\ \/ UNCHANGED tables
             \/ tables["old"] = "sentry" /\ Dropped("old")
             \/ /\ tables["old"] = "none" /\ "query" \in Faults
                /\ tables' = [tables EXCEPT !["old"] = "sentry"]
          /\ Handle("error")
    /\ UNCHANGED <<replicating, panicked, postVars>>

(* Its operations are retried by themselves: an error has been sent to     *)
(* PanicAbort.  Some renames may be done.                                  *)
CutOverTwoStep ==
    /\ Step("attempt") /\ options.cutOverType = "two-step"
    /\ \/ CanSwap({"none"}) /\ Swapped /\ Handle("ok") /\ UNCHANGED panicked
       \/ /\ ~panicked /\ panicked' = TRUE
          /\ Handle("error")
          /\ \/ UNCHANGED tables
             \/ /\ "query" \in Faults /\ CanSwap({"none"})
                /\ \/ Swapped
                   \/ tables' = [tables EXCEPT !["original"] = "none",
                                               !["old"] = tables["original"]]
    /\ UNCHANGED <<replicating, postVars>>

(* cutOver returns the error of an attempt, which was sent to PanicAbort   *)
(* if it was one of cutOverTwoStep.                                        *)
ReturnCutOverError ==
    /\ Step("retry")
    /\ CutOverFails
    /\ UNCHANGED <<tables, replicating, postVars>>

-----------------------------------------------------------------------------
(* handleCutOverResult, on a replica.                                      *)

Renamed(from, to) ==
    /\ tables[from] # "none" /\ tables[to] = "none"
    /\ tables' = [tables EXCEPT ![from] = "none", ![to] = tables[from]]

CanRename(from, to) == tables[from] # "none" /\ tables[to] = "none"

Handled ==
    IF outcome = "ok" THEN Goto("dropChangelog")
    ELSE Goto("onStartReplication")

(* RenameTablesRollback: both at once, or else one by one, whatever fails. *)
RenameTablesRollback ==
    /\ Step("rollback")
    /\ \/ /\ CanRename("original", "ghost") /\ tables["old"] # "none"
          /\ tables' = [tables EXCEPT !["original"] = tables["old"],
                          !["ghost"] = tables["original"], !["old"] = "none"]
          /\ Handled
       \/ /\ \/ ~CanRename("original", "ghost") \/ tables["old"] = "none"
             \/ "rollback" \in Faults
          /\ Goto("rollbackGhost") /\ UNCHANGED tables
    /\ UNCHANGED <<replicating, postVars>>

RenameBack(at, from, to, then) ==
    /\ Step(at)
    /\ \/ Renamed(from, to)
       \/ (~CanRename(from, to) \/ "rollbackTwice" \in Faults) /\ UNCHANGED tables
    /\ then
    /\ UNCHANGED <<replicating, postVars>>

RenameBackToGhost == RenameBack("rollbackGhost", "original", "ghost", Goto("rollbackOld"))
RenameBackToOriginal == RenameBack("rollbackOld", "old", "original", Handled)

(* The result of handleCutOverResult is ignored: the error of the hook     *)
(* leaves replication as it is.                                            *)
OnStartReplication ==
    /\ Step("onStartReplication")
    /\ \/ /\ Goto(IF options.skipReplicaStop THEN "retry" ELSE "startReplication")
          /\ replicating' = (replicating \/ options.skipReplicaStop)
       \/ "startHook" \in Faults /\ Goto("retry") /\ UNCHANGED replicating
    /\ UNCHANGED <<tables, postVars>>

(* Mutant: replication is not started.                                     *)
StayStopped ==
    /\ Step("startReplication")
    /\ Goto("retry")
    /\ UNCHANGED <<tables, replicating, postVars>>

StartReplication ==
    /\ Step("startReplication")
    /\ \/ replicating' = TRUE /\ Goto("retry")
       \/ /\ "query" \in Faults /\ replicating' \in {replicating, TRUE}
          /\ Panic("retry")
    /\ UNCHANGED <<tables, postVars>>

-----------------------------------------------------------------------------
(* The end of Migrate.                                                     *)

(* Mutant: retryOperation gives up without PanicAbort.                     *)
CleanupForgives == Goto("done")

(* The error of finalCleanup makes Migrate return nil; PanicAbort has it.  *)
CleanupFails == Panic("done")

FinalDrop(at, name, wanted, next) ==
    /\ Step(at)
    /\ \/ wanted /\ Dropped(name) /\ Goto(next)
       \/ ~wanted /\ Goto(next) /\ UNCHANGED tables
       \/ wanted /\ "query" \in Faults /\ CleanupFails /\ UNCHANGED tables
    /\ UNCHANGED <<replicating, postVars>>

FinalCleanup ==
    \/ FinalDrop("dropChangelog", "changelog", TRUE, "dropOldTable")
    \/ FinalDrop("dropOldTable", "old", options.okToDropTable /\ ~Test, "dropGhostTable")
    \/ FinalDrop("dropGhostTable", "ghost", Noop, "onSuccess")

OnSuccess ==
    /\ Step("onSuccess")
    /\ \/ pc' = "done" /\ told' = TRUE /\ UNCHANGED <<tries, outcome, panicked>>
       \/ Fails("hook")
    /\ UNCHANGED <<tables, replicating, postVars>>

-----------------------------------------------------------------------------
Initiate ==
    \/ OnStartup \/ InitiateInspector \/ ValidateOrDropExistingTables
    \/ CreateChangelogTable \/ CreateGhostTable \/ AlterGhost \/ WriteChangelogState
    \/ CreateFlagFiles \/ AwaitGhostTableMigrated \/ InspectOriginalAndGhostTables
    \/ OnValidated \/ Prepare \/ OnBeforeRowCopy
    \/ ConsumeRowCopyComplete \/ OnRowCopyComplete \/ OnBeforeCutOver

CutOverSteps ==
    \/ BeginCutOver \/ Postpone \/ OnStopReplication \/ StopReplication
    \/ AtomicCutOver \/ CutOverTwoStep
    \/ RenameTablesRollback \/ RenameBackToGhost \/ RenameBackToOriginal
    \/ OnStartReplication \/ StartReplication \/ ReturnCutOverError

Migrate == Initiate \/ CutOverSteps \/ FinalCleanup \/ OnSuccess

Exits == ListenOnPanicAbort \/ ExitWithError \/ ExitDone

Next ==
    \/ ApplicationWrites \/ OperatorTouchesFlagFile
    \/ Migrate \/ Exits \/ Killed \/ Start
    \/ CommandUnpostpone \/ SetUnpostpone \/ CommandPanic

Spec == Init /\ [][Next]_vars

(* The goroutines run, unless throttled for ever, and MySQL answers.  The  *)
(* operator owes nothing.                                                  *)
FairSpec == Spec /\ WF_vars(Migrate) /\ WF_vars(Exits)

-----------------------------------------------------------------------------
(* The types of the variables.                                             *)
TypeOK ==
    /\ tables \in [Names -> Contents]
    /\ {replicating, flagFile, panicked, isPostponing, unpostpone, commanded, told} \subseteq BOOLEAN
    /\ options \in Options /\ runs \in 1..MaxRuns
    /\ process \in {"running", "exit 0", "exit 1"}
    /\ pc \in BeforeServer \cup {"onBeforeRowCopy", "copy", "onRowCopyComplete",
           "onBeforeCutOver", "cutOver", "postpone", "onStopReplication", "stopReplication",
           "attempt", "rollback", "rollbackGhost", "rollbackOld", "onStartReplication",
           "startReplication", "retry", "blocked", "dropChangelog", "dropOldTable",
           "dropGhostTable", "onSuccess", "done", "failed", "exited"}
    /\ tries \in 0 .. MaxRetries - 1 /\ outcome \in {"none", "ok", "error"}

(* The application never works on a table that lacks rows or writes,       *)
(* whatever a test reverts and in whatever state a run finds the tables.   *)
InPlaceIsComplete == tables["original"] \in Complete \cup {"none"}

(* Some table has every row and every write, even after a crash between    *)
(* two renames and a new run that was told to drop what it finds.          *)
SomethingIsKept == \E n \in Names : tables[n] \in Complete

(* Status 0 means that all is done: tables in place, leftovers dropped as  *)
(* asked for, on-success told.  (After a test, "You are now left with the  *)
(* original table and the ghost table.")                                   *)
ExitZeroMeansDone ==
    process = "exit 0" =>
        /\ told
        /\ tables["original"] = IF options.mode = "execute" THEN "altered" ELSE "original"
        /\ tables["changelog"] = "none"
        /\ (tables["ghost"] # "none") = Test
        /\ ~Noop => (tables["old"] = "none") = (Test \/ options.okToDropTable)

(* Between two attempts of a test the replica replicates, or the process   *)
(* is about to end.                                                        *)
ReplicationRuns ==
    (process = "running" /\ pc \in {"cutOver", "postpone"}) => replicating \/ panicked

(* As long as the flag file exists no attempt of the cut-over begins,      *)
(* unless the operator commands it: one command, one attempt.              *)
PostponedWhileFileExists ==
    [][(pc = "postpone" /\ pc' \in {"attempt", "onStopReplication"}) =>
        ~options.postpone \/ ~flagFile \/ (unpostpone /\ ~unpostpone')]_vars

(* Every run ends, or waits for the operator to end the postponement.      *)
(* This presumes that throttling ends, which cutOver waits for before it   *)
(* looks at the postponement.                                              *)
RunEnds == []<>(process # "running" \/ isPostponing)
=============================================================================

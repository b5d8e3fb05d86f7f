------------------------------- MODULE CutOver -------------------------------
(***************************************************************************)
(* The two kinds of cut-over.  Each attempt of atomicCutOver runs three    *)
(* goroutines on three connections: the migrator; AtomicCutOverMagicLock,  *)
(* which creates the sentry table in the place of the old table, locks it  *)
(* and the original table, and later drops the sentry and unlocks; and     *)
(* AtomicCutoverRename, whose RENAME must wait for the lock.  While the    *)
(* table is locked the migrator writes a challenge to the changelog and    *)
(* waits until it comes back through binary log, streamer and executor:    *)
(* by then every write made before the lock has been applied.              *)
(*                                                                         *)
(* An attempt that fails is followed by another one, while goroutines and  *)
(* server threads of the first may still be at work.                       *)
(*                                                                         *)
(* cutOverTwoStep has one goroutine: lock, challenge, one ALTER TABLE ...  *)
(* RENAME for each table, unlock.  Between the two renames there is no     *)
(* table by the original name.  Each of its operations is retried by       *)
(* itself, and ends the process when its retries are used up.              *)
(***************************************************************************)
EXTENDS Naturals, Sequences, FiniteSets

CONSTANTS
    CutOverTypes,   \* --cut-over, "atomic" or "two-step"
    MaxAttempts,    \* --default-retries, of every retryOperation
    QueueCapacity,  \* capacity of applyEventsQueue
    MaxWrites,      \* bound: how often the application writes
    FaultChoices    \* what may go wrong, besides timeouts: one of these sets

FaultKinds == {
    "lockDies",     \* the connection that holds the table lock dies
    "query",        \* a statement of gh-ost fails
    "begin",        \* AtomicCutoverRename cannot begin a transaction
    "renameLost",   \* RENAME's connection dies, the server thread lives on
    "slowRename",   \* RENAME takes longer to be issued than gh-ost waits
    "reconnect" }   \* the single connection dies, and the pool opens another

ASSUME CutOverAssumption ==
    /\ {MaxAttempts, QueueCapacity} \subseteq Nat \ {0}
    /\ MaxWrites \in Nat
    /\ CutOverTypes \subseteq {"atomic", "two-step"}
    /\ FaultChoices \subseteq SUBSET FaultKinds

VARIABLES
    cutOverType,
    faults,     \* which of FaultKinds may strike
    swapped,    \* the original table's name now is the ghost table's data
    del,        \* what is there by the name of the old table
    lockHolder, \* the attempt whose session holds LOCK TABLES, or NoOne
    alive,      \* is the lock session of the attempt connected?
    server,     \* what the server thread does with the attempt's RENAME
    log,        \* binary log: AppWrite, or the challenge of an attempt
    read,       \* how much of it the streamer has read
    async,      \* challenges (positions) in goroutines, not yet queued
    queue,      \* applyEventsQueue, as positions of the log
    sending,    \* the challenge the executor is blocked on sending, or 0
    applied,    \* the writes applied to the ghost table
    attempt,    \* the attempt under way
    main,       \* where the migrator is in atomicCutOver or cutOverTwoStep
    outcome,    \* what atomicCutOver is about to return
    tries,      \* failed tries of the operation of cutOverTwoStep under way
    locker,     \* where the attempt's AtomicCutOverMagicLock is
    renamer,    \* where the attempt's AtomicCutoverRename is
    renameKnownToHaveFailed,
    chan        \* the channels of the attempt, with what is in them

Attempt  == 1..MaxAttempts
NoOne    == 0
AppWrite == 0
Channels == {"okToUnlockTable", "tableLocked", "tableUnlocked",
             "renameSessionId", "tablesRenamed"}

given     == <<cutOverType, faults>>
tableVars == <<swapped, del, lockHolder, alive, server>>
pipeVars  == <<log, read, async, queue, sending, applied>>
mainVars  == <<attempt, main, outcome, tries>>
goVars    == <<locker, renamer, renameKnownToHaveFailed>>
stepVars  == <<tableVars, pipeVars, mainVars, goVars, chan>>
vars      == <<given, stepVars>>

Init ==
    /\ cutOverType \in CutOverTypes /\ faults \in FaultChoices
    /\ swapped = FALSE /\ del = "none" /\ lockHolder = NoOne
    /\ alive = [a \in Attempt |-> FALSE]
    /\ server = [a \in Attempt |-> "none"]
    /\ log = <<>> /\ read = 0 /\ async = {} /\ queue = <<>>
    /\ sending = 0 /\ applied = {}
    /\ attempt = 0 /\ main = "retry" /\ outcome = "none" /\ tries = 0
    /\ locker = [a \in Attempt |-> "off"]
    /\ renamer = [a \in Attempt |-> "off"]
    /\ renameKnownToHaveFailed = [a \in Attempt |-> FALSE]
    /\ chan = [a \in Attempt |-> [c \in Channels |-> <<>>]]

(* Is there a table by the original name?                                  *)
OriginalThere == swapped \/ del # "old"

Writes == {i \in DOMAIN log : log[i] = AppWrite}

(* The channels with the messages of sent, one sequence a channel, added.  *)
Sent(a, sent) == [chan EXCEPT ![a] =
    [c \in Channels |-> IF c \in DOMAIN sent THEN @[c] \o sent[c] ELSE @[c]]]
Received(c) == [chan EXCEPT ![attempt][c] = Tail(@)]

-----------------------------------------------------------------------------
(* The application and the way of its writes to the ghost table.           *)

(* Metadata locks are granted in the order of request: a RENAME that waits *)
(* comes before any later writer, DROP or LOCK TABLES.                     *)
RenameWaits == \E a \in Attempt : server[a] = "waiting"
Unlocked == lockHolder = NoOne /\ ~RenameWaits

ApplicationWrites ==
    /\ ~swapped /\ OriginalThere /\ Unlocked
    /\ Cardinality(Writes) < MaxWrites
    /\ log' = Append(log, AppWrite)
    /\ UNCHANGED <<tableVars, read, async, queue, sending, applied, mainVars, goVars, chan>>

(* Mutant: each event is queued by a goroutine of its own.                 *)
StreamEventAside ==
    /\ read < Len(log)
    /\ async' = async \cup {read + 1} /\ read' = read + 1
    /\ UNCHANGED <<tableVars, log, queue, sending, applied, mainVars, goVars, chan>>

(* Streamer: a write is queued; for a challenge onChangelogStateEvent      *)
(* starts a goroutine that will queue it.                                  *)
StreamEvent ==
    /\ read < Len(log)
    /\ \/ /\ log[read + 1] = AppWrite /\ Len(queue) < QueueCapacity
          /\ queue' = Append(queue, read + 1) /\ async' = async
       \/ /\ log[read + 1] # AppWrite
          /\ async' = async \cup {read + 1} /\ queue' = queue
    /\ read' = read + 1
    /\ UNCHANGED <<tableVars, log, sending, applied, mainVars, goVars, chan>>

(* Mutant: the goroutine does not wait for room in the queue.              *)
EnqueueChallengeAtOnce ==
    /\ \E i \in async : queue' = Append(queue, i) /\ async' = async \ {i}
    /\ UNCHANGED <<tableVars, log, read, sending, applied, mainVars, goVars, chan>>

EnqueueChallenge ==
    /\ Len(queue) < QueueCapacity
    /\ \E i \in async : queue' = Append(queue, i) /\ async' = async \ {i}
    /\ UNCHANGED <<tableVars, log, read, sending, applied, mainVars, goVars, chan>>

(* Executor: apply a write (there has to be a ghost table), or block on    *)
(* sending a challenge to allEventsUpToLockProcessed.                      *)
ExecuteEvent ==
    /\ sending = 0 /\ queue # <<>>
    /\ LET i == Head(queue)
       IN  \/ /\ log[i] = AppWrite /\ ~swapped
              /\ applied' = applied \cup {i} /\ sending' = 0
           \/ log[i] # AppWrite /\ sending' = i /\ applied' = applied
    /\ queue' = Tail(queue)
    /\ UNCHANGED <<tableVars, log, read, async, mainVars, goVars, chan>>

-----------------------------------------------------------------------------
(* AtomicCutOverMagicLock, attempt a.                                      *)

LockStep(a, from, to) ==
    /\ locker[a] = from
    /\ locker' = [locker EXCEPT ![a] = to]
    /\ UNCHANGED <<swapped, server, pipeVars, mainVars, renamer, renameKnownToHaveFailed>>

(* The session: connection_id, get_lock, lock_wait_timeout.                *)
LockSession(a) ==
    /\ LockStep(a, "begin", "check")
    /\ alive' = [alive EXCEPT ![a] = TRUE]
    /\ UNCHANGED <<del, lockHolder, chan>>

(* No connection: the function returns before anything is deferred.        *)
LockBeginFails(a) ==
    /\ "query" \in faults
    /\ LockStep(a, "begin", "exited")
    /\ chan' = Sent(a, [tableLocked |-> <<"error">>])
    /\ UNCHANGED <<del, lockHolder, alive>>

(* Any other error before the tables are locked goes to tableLocked; then  *)
(* the deferred function sends one more error to each channel.             *)
LockFails(a) ==
    /\ \E at \in {"begin", "check", "clear", "create", "lock"} :
        /\ LockStep(a, at, "exited")
        /\ \/ "query" \in faults
           \/ at = "check" /\ del = "old"
           \/ at = "create" /\ del # "none"
           \/ at = "lock"                        \* lock_wait_timeout, or no table
    /\ chan' = Sent(a, [tableLocked |-> <<"error", "error">>, tableUnlocked |-> <<"error">>])
    /\ alive' = [alive EXCEPT ![a] = FALSE]
    /\ UNCHANGED <<del, lockHolder>>

(* CreateAtomicCutOverSentryTable: look for a table left behind, drop it   *)
(* if it is a sentry, create the new one.                                  *)
SentryCheck(a) ==
    /\ \/ del = "none" /\ LockStep(a, "check", "create")
       \/ del = "sentry" /\ LockStep(a, "check", "clear")
       \/ "query" \in faults /\ LockStep(a, "check", "create")  \* an error counts as no table
    /\ UNCHANGED <<del, lockHolder, alive, chan>>

SentryClear(a) ==
    /\ LockStep(a, "clear", "create")
    /\ Unlocked
    /\ del' = "none"
    /\ UNCHANGED <<lockHolder, alive, chan>>

SentryCreate(a) ==
    /\ LockStep(a, "create", "lock")
    /\ del = "none" /\ ~RenameWaits
    /\ del' = "sentry"
    /\ UNCHANGED <<lockHolder, alive, chan>>

(* LOCK TABLES waits for the transactions that use the tables.             *)
LockTables(a) ==
    /\ LockStep(a, "lock", "locked")
    /\ Unlocked /\ del # "none"
    /\ lockHolder' = a
    /\ chan' = Sent(a, [tableLocked |-> <<"ok">>])
    /\ UNCHANGED <<del, alive>>

LockTold(a) ==
    /\ LockStep(a, "locked", "drop")
    /\ chan[a].okToUnlockTable # <<>>
    /\ chan' = [chan EXCEPT ![a].okToUnlockTable = Tail(@)]
    /\ UNCHANGED <<del, lockHolder, alive>>

(* An error of DROP is logged and ignored: the tables must be unlocked.    *)
LockDropSentry(a) ==
    /\ LockStep(a, "drop", "unlock")
    /\ \/ alive[a] /\ del' = "none"
       \/ (~alive[a] \/ "query" \in faults) /\ del' = del
    /\ UNCHANGED <<lockHolder, alive, chan>>

Unlocks(a, answers) ==
    /\ LockStep(a, "unlock", "exited")
    /\ lockHolder' = IF lockHolder = a THEN NoOne ELSE lockHolder
    /\ chan' = Sent(a, [tableUnlocked |-> answers, tableLocked |-> <<"error">>])
    /\ UNCHANGED <<del, alive>>

(* Mutant: a failing UNLOCK TABLES does not return from the function.      *)
LockUnlockGoesOn(a) ==
    Unlocks(a, IF alive[a] THEN <<"ok", "error">> ELSE <<"error", "ok", "error">>)

LockUnlock(a) == Unlocks(a, <<IF alive[a] THEN "ok" ELSE "error", "error">>)

(* The connection is lost: the server releases the table locks.            *)
LockDies(a) ==
    /\ "lockDies" \in faults
    /\ alive[a]
    /\ \E at \in {"locked", "drop", "unlock"} : LockStep(a, at, at)
    /\ alive' = [alive EXCEPT ![a] = FALSE]
    /\ lockHolder' = IF lockHolder = a THEN NoOne ELSE lockHolder
    /\ UNCHANGED <<del, chan>>

-----------------------------------------------------------------------------
(* AtomicCutoverRename, attempt a, and the server thread of its RENAME.    *)

RenameStep(a, from, to) ==
    /\ renamer[a] = from
    /\ renamer' = [renamer EXCEPT ![a] = to]
    /\ UNCHANGED <<swapped, del, lockHolder, alive, pipeVars, mainVars, locker>>

(* The session: connection_id, lock_wait_timeout.                          *)
RenameSession(a) ==
    /\ RenameStep(a, "begin", "issue")
    /\ chan' = Sent(a, [renameSessionId |-> <<"id">>])
    /\ UNCHANGED <<server, renameKnownToHaveFailed>>

RenameIssue(a) ==
    /\ RenameStep(a, "issue", "issued")
    /\ server' = [server EXCEPT ![a] = "waiting"]
    /\ UNCHANGED <<renameKnownToHaveFailed, chan>>

RenameReturns(a) ==
    /\ server[a] = "ok"
    /\ RenameStep(a, "issued", "exited")
    /\ chan' = Sent(a, [tablesRenamed |-> <<"ok", "error">>, renameSessionId |-> <<"none">>])
    /\ UNCHANGED <<server, renameKnownToHaveFailed>>

(* What follows an error: the caller notes it and has the table unlocked.  *)
RenameGivesUp(a, from, deferred) ==
    /\ RenameStep(a, from, "exited")
    /\ renameKnownToHaveFailed' = [renameKnownToHaveFailed EXCEPT ![a] = TRUE]
    /\ chan' = [Sent(a, deferred) EXCEPT ![a].okToUnlockTable = Append(@, "ok")]
    /\ UNCHANGED server

(* Without a transaction the function returns before anything is deferred: *)
(* nothing is sent to its channels.                                        *)
RenameBeginFails(a) == "begin" \in faults /\ RenameGivesUp(a, "begin", <<>>)

(* Mutant: the deferred function sends no session id.                      *)
RenameFailsSilently(a) ==
    /\ "query" \in faults
    /\ \E at \in {"begin", "issue"} :
        RenameGivesUp(a, at, [tablesRenamed |-> <<"error">>])

RenameFails(a) ==
    /\ "query" \in faults
    /\ \E at \in {"begin", "issue"} :
        RenameGivesUp(a, at, [renameSessionId |-> <<"none">>, tablesRenamed |-> <<"error">>])

RenameReturnsError(a) ==
    /\ server[a] = "error" \/ "renameLost" \in faults
    /\ RenameGivesUp(a, "issued",
        [renameSessionId |-> <<"none">>, tablesRenamed |-> <<"error", "error">>])

(* RENAME original TO old, ghost TO original: all or nothing, once nobody  *)
(* holds a lock; it fails if there is an old table or no ghost table.      *)
ServerRenames(a) ==
    /\ server[a] = "waiting" /\ lockHolder = NoOne
    /\ \/ /\ del = "none" /\ ~swapped
          /\ swapped' = TRUE /\ del' = "old"
          /\ server' = [server EXCEPT ![a] = "ok"]
       \/ /\ del # "none" \/ swapped
          /\ server' = [server EXCEPT ![a] = "error"]
          /\ UNCHANGED <<swapped, del>>
    /\ UNCHANGED <<lockHolder, alive, pipeVars, mainVars, goVars, chan>>

(* lock_wait_timeout of the RENAME session.                                *)
ServerTimesOut(a) ==
    /\ server[a] = "waiting" /\ lockHolder # NoOne
    /\ server' = [server EXCEPT ![a] = "error"]
    /\ UNCHANGED <<swapped, del, lockHolder, alive, pipeVars, mainVars, goVars, chan>>

-----------------------------------------------------------------------------
(* atomicCutOver itself, with retryOperation around it, and what it shares *)
(* with cutOverTwoStep, where retryOperation is around each operation.     *)

Goto(at) == main' = at /\ UNCHANGED <<attempt, outcome, tries>>
Leaving(result) == main' = "leave" /\ outcome' = result /\ UNCHANGED <<attempt, tries>>
TellUnlock == chan' = Sent(attempt, [okToUnlockTable |-> <<"ok">>])

(* An operation of cutOverTwoStep succeeds, and the next one begins ...    *)
NextOperation(at) == main' = at /\ tries' = 0 /\ UNCHANGED <<attempt, outcome>>

(* ... or fails: it is tried again, or PanicAbort ends the process.        *)
RetryFrom(at) ==
    /\ IF tries + 1 < MaxAttempts
       THEN main' = at /\ tries' = tries + 1
       ELSE main' = "aborted" /\ tries' = tries
    /\ UNCHANGED <<attempt, outcome>>

StartAttempt ==
    /\ cutOverType = "atomic"
    /\ main = "retry" /\ attempt < MaxAttempts
    /\ attempt' = attempt + 1
    /\ main' = "locking" /\ outcome' = "none" /\ tries' = tries
    /\ locker' = [locker EXCEPT ![attempt'] = "begin"]
    /\ UNCHANGED <<tableVars, pipeVars, renamer, renameKnownToHaveFailed, chan>>

(* Go on to the next step if the channel says so, otherwise fail.          *)
Await(at, c, next) ==
    /\ main = at /\ chan[attempt][c] # <<>>
    /\ IF Head(chan[attempt][c]) = "ok" THEN next ELSE Leaving("error")
    /\ chan' = Received(c)
    /\ UNCHANGED <<tableVars, pipeVars, goVars>>

AwaitTableLocked == Await("locking", "tableLocked", Goto("challenge"))

(* waitForEventsUpToLock: the challenge names this call of it alone.       *)
Challenge == IF cutOverType = "atomic" THEN attempt ELSE tries + 1

WaitFails == IF cutOverType = "atomic" THEN Leaving("error") ELSE RetryFrom("challenge")

(* WriteChangelogState writes two rows, of which only the first is the     *)
(* challenge, and returns the error of the second.                         *)
WriteChallenge ==
    /\ main = "challenge"
    /\ \/ log' = Append(log, Challenge) /\ Goto("waiting")
       \/ "query" \in faults /\ log' = log /\ Goto("waiting")
       \/ "query" \in faults /\ log' \in {log, Append(log, Challenge)} /\ WaitFails
    /\ UNCHANGED <<tableVars, read, async, queue, sending, applied, goVars, chan>>

ReceiveChallenge ==
    /\ main = "waiting" /\ sending # 0
    /\ sending' = 0
    /\ UNCHANGED <<tableVars, log, read, async, queue, applied, goVars, chan>>

WaitSucceeds ==
    IF cutOverType = "atomic" THEN Goto("rename") ELSE NextOperation("renameOriginal")

(* Mutant: any challenge will do.                                          *)
AwaitAnyChallenge == ReceiveChallenge /\ WaitSucceeds

(* The challenge of an earlier call is skipped.                            *)
AwaitChallenge ==
    /\ ReceiveChallenge
    /\ IF log[sending] = Challenge THEN WaitSucceeds ELSE Goto("waiting")

ChallengeTimeout ==
    /\ main = "waiting"
    /\ WaitFails
    /\ UNCHANGED <<tableVars, pipeVars, goVars, chan>>

SpawnRename ==
    /\ main = "rename"
    /\ Goto("renameId")
    /\ renamer' = [renamer EXCEPT ![attempt] = "begin"]
    /\ UNCHANGED <<tableVars, pipeVars, locker, renameKnownToHaveFailed, chan>>

AwaitRenameSessionId ==
    /\ main = "renameId" /\ chan[attempt].renameSessionId # <<>>
    /\ Goto("expect")
    /\ chan' = Received("renameSessionId")
    /\ UNCHANGED <<tableVars, pipeVars, goVars>>

(* Mutant: nobody looks whether RENAME is waiting yet.                     *)
TrustRename ==
    /\ main = "expect"
    /\ Goto("expectLock")
    /\ UNCHANGED <<tableVars, pipeVars, goVars, chan>>

(* waitForRename: RENAME is seen waiting, or is known to have failed.      *)
ExpectRename ==
    /\ main = "expect"
    /\ server[attempt] = "waiting" \/ renameKnownToHaveFailed[attempt]
    /\ Goto("expectLock")
    /\ UNCHANGED <<tableVars, pipeVars, goVars, chan>>

(* Mutant: one look at PROCESSLIST, without retries.                       *)
ExpectRenameOnce ==
    /\ main = "expect"
    /\ server[attempt] # "waiting"
    /\ Leaving("error") /\ TellUnlock
    /\ UNCHANGED <<tableVars, pipeVars, goVars>>

(* Its retries are used up: RENAME was over before it was seen waiting,    *)
(* PROCESSLIST could not be read, or RENAME is not issued yet.             *)
ExpectRenameGivesUp ==
    /\ main = "expect"
    /\ \/ server[attempt] \in {"ok", "error"}
       \/ "query" \in faults /\ server[attempt] # "none"
       \/ "slowRename" \in faults
    /\ Leaving("error") /\ TellUnlock
    /\ UNCHANGED <<tableVars, pipeVars, goVars>>

(* ExpectUsedLock, which takes any error for a lost lock.                  *)
ExpectLock ==
    /\ main = "expectLock"
    /\ \/ alive[attempt] /\ Goto("release")
       \/ (~alive[attempt] \/ "query" \in faults) /\ Leaving("error")
    /\ UNCHANGED <<tableVars, pipeVars, goVars, chan>>

Release ==
    /\ main = "release"
    /\ Goto("unlocked") /\ TellUnlock
    /\ UNCHANGED <<tableVars, pipeVars, goVars>>

AwaitUnlocked == Await("unlocked", "tableUnlocked", Goto("renamed"))

(* Mutant: the outcome of RENAME is not looked at.                         *)
AwaitRenamedAnyhow ==
    /\ main = "renamed" /\ chan[attempt].tablesRenamed # <<>>
    /\ Leaving("ok")
    /\ chan' = Received("tablesRenamed")
    /\ UNCHANGED <<tableVars, pipeVars, goVars>>

AwaitRenamed == Await("renamed", "tablesRenamed", Leaving("ok"))

(* Mutant: an attempt that fails leaves the tables locked.                 *)
LeaveLocked ==
    /\ main = "leave"
    /\ Goto("checkSentry")
    /\ UNCHANGED <<tableVars, pipeVars, goVars, chan>>

(* Whatever it returns, the deferred function has the table unlocked ...   *)
Leave ==
    /\ main = "leave"
    /\ Goto("checkSentry") /\ TellUnlock
    /\ UNCHANGED <<tableVars, pipeVars, goVars>>

Return ==
    Goto(IF outcome = "ok" THEN "done" ELSE IF attempt < MaxAttempts THEN "retry" ELSE "gaveUp")

(* ... and drops the sentry table, if it finds one.                        *)
CheckSentry ==
    /\ main = "checkSentry"
    /\ \/ del = "sentry" /\ Goto("dropSentry")
       \/ (del # "sentry" \/ "query" \in faults) /\ Return
    /\ UNCHANGED <<tableVars, pipeVars, goVars, chan>>

DropSentry ==
    /\ main = "dropSentry"
    /\ \/ Unlocked /\ del' = "none"
       \/ "query" \in faults /\ del' = del
    /\ Return
    /\ UNCHANGED <<swapped, lockHolder, alive, server, pipeVars, goVars, chan>>

-----------------------------------------------------------------------------
(* cutOverTwoStep.  LOCK TABLES and the first rename use the only          *)
(* connection of singletonDB, whose session is that of the attempt here.   *)

(* What a statement of cutOverTwoStep does not touch.                      *)
TwoStep(at) ==
    /\ main = at
    /\ UNCHANGED <<server, pipeVars, goVars, chan>>

StartTwoStep ==
    /\ cutOverType = "two-step"
    /\ main = "retry" /\ attempt < MaxAttempts
    /\ attempt' = attempt + 1
    /\ main' = "lockTable" /\ tries' = 0 /\ outcome' = "none"
    /\ UNCHANGED <<tableVars, pipeVars, goVars, chan>>

LockOriginalTable ==
    /\ TwoStep("lockTable")
    /\ \/ /\ Unlocked
          /\ lockHolder' = attempt /\ alive' = [alive EXCEPT ![attempt] = TRUE]
          /\ NextOperation("challenge")
       \/ "query" \in faults /\ RetryFrom("lockTable") /\ UNCHANGED <<lockHolder, alive>>
    /\ UNCHANGED <<swapped, del>>

(* The connection with the table lock is lost.  The next statement on it   *)
(* fails, or database/sql runs it on a new connection, without the lock.   *)
ConnectionLost ==
    /\ "reconnect" \in faults
    /\ \E at \in {"challenge", "waiting", "renameOriginal"} : TwoStep(at)
    /\ cutOverType = "two-step" /\ lockHolder = attempt
    /\ lockHolder' = NoOne
    /\ UNCHANGED <<swapped, del, alive, mainVars>>

(* SwapTablesQuickAndBumpy, the first rename.  The session has the table   *)
(* locked, or nobody has; the lock ends with the name it was for.  On a    *)
(* retry after the second rename failed there is nothing to rename.        *)
RenameOriginal ==
    /\ TwoStep("renameOriginal")
    /\ \/ /\ OriginalThere /\ del = "none" /\ lockHolder \in {attempt, NoOne}
          /\ del' = "old" /\ lockHolder' = NoOne
          /\ \/ Goto("renameGhost")
             \/ "query" \in faults /\ RetryFrom("renameOriginal")    \* the answer is lost
       \/ /\ del # "none" \/ "query" \in faults
          /\ RetryFrom("renameOriginal")
          /\ UNCHANGED <<del, lockHolder>>
    /\ UNCHANGED <<swapped, alive>>

(* The second rename, on another connection.                               *)
RenameGhost ==
    /\ TwoStep("renameGhost")
    /\ \/ swapped' = TRUE /\ NextOperation("unlockTables")
       \/ "query" \in faults /\ swapped' \in BOOLEAN /\ RetryFrom("renameOriginal")
    /\ UNCHANGED <<del, lockHolder, alive>>

UnlockTables ==
    /\ TwoStep("unlockTables")
    /\ \/ NextOperation("done")
       \/ "query" \in faults /\ RetryFrom("unlockTables")
    /\ UNCHANGED <<swapped, del, lockHolder, alive>>

(* The process ends, and with it its sessions.                             *)
ProcessExits ==
    /\ TwoStep("aborted") /\ lockHolder # NoOne
    /\ lockHolder' = NoOne
    /\ UNCHANGED <<swapped, del, alive, mainVars>>

-----------------------------------------------------------------------------
Locker(a) ==
    \/ LockSession(a) \/ SentryCheck(a) \/ SentryClear(a) \/ SentryCreate(a)
    \/ LockTables(a) \/ LockFails(a) \/ LockTold(a) \/ LockDropSentry(a) \/ LockUnlock(a)

Renamer(a) ==
    RenameSession(a) \/ RenameIssue(a) \/ RenameReturns(a) \/ RenameReturnsError(a)

Server(a) == ServerRenames(a) \/ ServerTimesOut(a)

Migrator ==
    \/ StartAttempt \/ AwaitTableLocked
    \/ WriteChallenge \/ AwaitChallenge \/ ChallengeTimeout
    \/ SpawnRename \/ AwaitRenameSessionId
    \/ ExpectRename \/ ExpectRenameGivesUp \/ ExpectLock
    \/ Release \/ AwaitUnlocked \/ AwaitRenamed
    \/ Leave \/ CheckSentry \/ DropSentry
    \/ StartTwoStep \/ LockOriginalTable \/ RenameOriginal \/ RenameGhost \/ UnlockTables
    \/ ProcessExits

Step ==
    \/ ApplicationWrites \/ StreamEvent \/ EnqueueChallenge \/ ExecuteEvent
    \/ Migrator \/ ConnectionLost
    \/ \E a \in Attempt :
        \/ Locker(a) \/ LockBeginFails(a) \/ LockDies(a)
        \/ Renamer(a) \/ RenameBeginFails(a) \/ RenameFails(a)
        \/ Server(a)

Next == Step /\ UNCHANGED given

Spec == Init /\ [][Next]_vars

(* Goroutines and server threads run; timers fire, which puts an end to    *)
(* every wait for a timeout.  The application and the faults owe nothing.  *)
FairSpec ==
    /\ Spec
    /\ WF_stepVars(StreamEvent) /\ WF_stepVars(EnqueueChallenge) /\ WF_stepVars(ExecuteEvent)
    /\ WF_stepVars(Migrator)
    /\ \A a \in Attempt : WF_stepVars(Locker(a)) /\ WF_stepVars(Renamer(a)) /\ WF_stepVars(Server(a))

-----------------------------------------------------------------------------
(* The types of the variables.                                             *)
TypeOK ==
    /\ cutOverType \in CutOverTypes /\ faults \in FaultChoices
    /\ swapped \in BOOLEAN
    /\ del \in {"none", "sentry", "old"}
    /\ lockHolder \in Attempt \cup {NoOne}
    /\ alive \in [Attempt -> BOOLEAN]
    /\ server \in [Attempt -> {"none", "waiting", "ok", "error"}]
    /\ log \in Seq(Attempt \cup {AppWrite}) /\ read \in 0..Len(log)
    /\ async \subseteq DOMAIN log
    /\ queue \in Seq(DOMAIN log) /\ Len(queue) <= QueueCapacity
    /\ sending \in 0..Len(log) /\ applied \subseteq Writes
    /\ attempt \in 0..MaxAttempts /\ tries \in 0 .. MaxAttempts - 1
    /\ main \in {"retry", "locking", "challenge", "waiting", "rename", "renameId",
                 "expect", "expectLock", "release", "unlocked", "renamed", "leave",
                 "checkSentry", "dropSentry", "done", "gaveUp", "lockTable",
                 "renameOriginal", "renameGhost", "unlockTables", "aborted"}
    /\ outcome \in {"none", "ok", "error"}
    /\ locker \in [Attempt -> {"off", "begin", "check", "clear", "create", "lock",
                               "locked", "drop", "unlock", "exited"}]
    /\ renamer \in [Attempt -> {"off", "begin", "issue", "issued", "exited"}]
    /\ renameKnownToHaveFailed \in [Attempt -> BOOLEAN]
    /\ chan \in [Attempt -> [Channels -> Seq({"ok", "error", "id", "none"})]]

(* Once the challenge is back, and while the lock it was written under     *)
(* holds, every write of the application is in the ghost table: what the   *)
(* migrator assumes when it goes on to rename.                             *)
EventsUpToLockProcessed ==
    (/\ main \in {"rename", "renameId", "expect", "expectLock", "release", "unlocked",
                  "renameOriginal"}
     /\ lockHolder = attempt) => applied = Writes

(* The original table gives up its name, and the ghost table gets it, only *)
(* when the ghost table has every write, even if connections die and       *)
(* RENAMEs of earlier attempts are still waiting.                          *)
NoWriteLost == [][(swapped' # swapped \/ (del' = "old" /\ del # "old")) => applied = Writes]_vars

(* What the application finds by the name of its table.                    *)
Table == IF swapped THEN "ghost" ELSE IF OriginalThere THEN "original" ELSE "none"

Promise == INSTANCE Swap WITH
    gap <- cutOverType = "two-step", written <- Writes, table <- Table

(* The cut-over does what Swap promises: writes are applied one by one and *)
(* in order, past challenges and queue; the ghost table takes the name     *)
(* once and for good, when it has got them all; and there is no moment     *)
(* without a table, unless the cut-over is the two-step one.               *)
SwapsTables == Promise!Spec

(* DropAtomicCutOverSentryTableIfExists drops nothing but sentry tables:   *)
(* the old table, which is there since the swap, stays.                    *)
OldTableKept == [][del = "old" => del' = "old"]_vars

(* Success is only reported when the tables are swapped ...                *)
SuccessMeansSwap == main = "done" => swapped

(* ... and a cut-over that fails leaves the original table in its place,   *)
(* if nothing but timeouts made it fail, or a transaction that could not   *)
(* begin.                                                                  *)
FailureMeansNoSwap ==
    (/\ faults \subseteq {"begin"}
     /\ main \in {"gaveUp", "aborted"} \/ (main = "retry" /\ attempt > 0)) =>
        ~swapped /\ OriginalThere

(* No goroutine ever blocks on sending to a channel nobody reads any more: *)
(* each has room for all that is sent.                                     *)
NoSendBlocks == \A a \in Attempt : \A c \in Channels :
    Len(chan[a][c]) <= IF c = "okToUnlockTable" THEN 4 ELSE 2

(* Whoever locked the application out of its table lets it in again,       *)
(* whatever fails on the way.                                              *)
LockIsReleased == \A a \in Attempt : lockHolder = a ~> lockHolder # a

(* The cut-over ends: the tables are swapped, the attempts are used up, or *)
(* the process ends.                                                       *)
AttemptsReturn == <>(main \in {"done", "gaveUp", "aborted"})
=============================================================================

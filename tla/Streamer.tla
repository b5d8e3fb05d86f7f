------------------------------- MODULE Streamer -------------------------------
(***************************************************************************)
(* EventsStreamer and GoMySQLReader.  gh-ost reads the binary log as a     *)
(* replica does.  When the stream breaks, a new reader starts at the       *)
(* beginning of the file the old one was in and skips what is not beyond   *)
(* LastAppliedRowsEventHint, the coordinates of the last rows event that   *)
(* was passed on.  A goroutine takes the entries from a channel of one and *)
(* gives them to the listeners of their table, under listenersMutex:       *)
(* onChangelogStateEvent, which tells Migrate that the ghost table is      *)
(* there, and the listener on the original table, which Migrate only adds  *)
(* after that.                                                             *)
(*                                                                         *)
(* A rows event counts as one entry: its rows are passed on in a loop that *)
(* nothing interrupts.  Events other than rows events and rotations only   *)
(* move the current coordinates, and are left out.                         *)
(***************************************************************************)
EXTENDS Naturals, Sequences

CONSTANTS
    None,         \* no listener yet
    MaxRetries,   \* --default-retries
    PosLimit,     \* positions in the header of an event are modulo this
    LongFile,     \* the first file number with a digit more
    PastKinds,    \* what the first file may hold before gh-ost connects
    MaxPast,      \* bound: how many events that is
    MaxEvents,    \* bound: events in the log
    MaxFile,      \* bound: number of the last file
    MaxErrors     \* bound: how often the stream breaks

Kind == {"dml",        \* rows of the original table
         "migrated",   \* the state GhostTableMigrated in the changelog
         "other"}      \* rows of any other table

EventsChannelBufferSize == 1
FirstFile == 1

ASSUME BoundsAssumption ==
    /\ MaxRetries \in Nat /\ MaxPast \in Nat /\ MaxEvents \in Nat /\ MaxErrors \in Nat
    /\ LongFile \in Nat /\ MaxFile \in Nat \ {0} /\ PosLimit \in Nat \ {0}
    /\ PastKinds \subseteq Kind

ASSUME NoneAssumption == None \notin Nat

VARIABLES
    log,         \* the binary log: the coordinates and the kind of each event
    logFile,     \* the file the server writes
    next,        \* the event of the log that the connection yields next
    current,     \* currentCoordinates
    hint,        \* LastAppliedRowsEventHint
    lastHint,    \* lastAppliedRowsEventHint of EventsStreamer.StreamEvents
    successiveFailures,
    reader,      \* streaming, failed, stopped, or aborted with the process
    errors,      \* how often the stream broke
    eventsChannel,
    notifying,   \* the entry whose listeners are called, under the mutex
    notified,    \* the last entry whose listeners have been called
    migrate,     \* where Migrate is
    start,       \* what was notified when the listener was added
    delivered    \* the entries given to the listener on the original table

serverVars == <<log, logFile>>
readerVars == <<next, current, hint, lastHint, successiveFailures, reader, errors>>
notifyVars == <<notifying, notified, delivered>>
vars == <<serverVars, readerVars, eventsChannel, notifyVars, migrate, start>>

NoEntry == 0
Empty == [file |-> 0, pos |-> 0]     \* no coordinates: the file has no name

Coordinates(i) == [file |-> log[i].file, pos |-> log[i].pos]

(* The header of an event has 32 bits for the position of its end.         *)
NextPos(i) == (i + 1) % PosLimit

Written(kind) ==
    LET n == Len(log)
        p == IF n > 0 /\ log[n].file = logFile THEN log[n].pos ELSE 0
    IN  Append(log, [file |-> logFile, pos |-> NextPos(p), kind |-> kind])

Init ==
    /\ logFile = FirstFile
    /\ \E n \in 0..MaxPast : log \in
        {[i \in 1..n |-> [file |-> FirstFile, pos |-> i % PosLimit, kind |-> k[i]]] :
            k \in [1..n -> PastKinds]}
    /\ next = Len(log) + 1
    /\ current = [file |-> FirstFile, pos |-> 0]
    /\ hint = Empty /\ lastHint = Empty
    /\ successiveFailures = 0 /\ reader = "streaming" /\ errors = 0
    /\ eventsChannel = <<>>
    /\ notifying = NoEntry /\ notified = NoEntry
    /\ migrate = "initiateApplier" /\ start = None /\ delivered = <<>>

Alive == reader # "aborted"
canStopStreaming == migrate = "cutOverComplete"

-----------------------------------------------------------------------------
(* The order of coordinates.  File names are compared as strings: one with *)
(* a digit more starts with 1 and comes before those that start with 9.    *)
FileSmallerThan(f, g) ==
    IF (f < LongFile) = (g < LongFile) THEN f < g ELSE LongFile <= f

SmallerThan(c, d) ==
    FileSmallerThan(c.file, d.file) \/ (c.file = d.file /\ c.pos < d.pos)

(* Mutants: the same coordinates do not count as handled; the file is not  *)
(* looked at.                                                              *)
SmallerThanOnly(c, d) == SmallerThan(c, d)

SmallerThanOrEqualsInFile(c, d) == c.pos <= d.pos

SmallerThanOrEquals(c, d) == SmallerThan(c, d) \/ c = d

-----------------------------------------------------------------------------
(* The server.                                                             *)

WriteRows(kind) ==
    /\ Alive /\ Len(log) < MaxEvents
    /\ log' = Written(kind)
    /\ UNCHANGED <<logFile, readerVars, eventsChannel, notifyVars, migrate, start>>

FlushLogs ==
    /\ Alive /\ logFile < MaxFile
    /\ logFile' = logFile + 1
    /\ UNCHANGED <<log, readerVars, eventsChannel, notifyVars, migrate, start>>

-----------------------------------------------------------------------------
(* GoMySQLReader.StreamEvents, the goroutine of EventsStreamer.            *)

(* canStopStreaming is looked at before each event, never while the reader *)
(* waits for one: a step that ends with the look goes on or stops.         *)
GoesOn(to) == reader' = IF canStopStreaming THEN "stopped" ELSE to

GetsEvent ==
    /\ reader = "streaming"
    /\ UNCHANGED <<serverVars, lastHint, successiveFailures, notifyVars, migrate, start>>

(* All events of the file are read: the reader is told the next file.      *)
GetRotateEvent ==
    /\ GetsEvent
    /\ current.file < logFile
    /\ next <= Len(log) => log[next].file > current.file
    /\ current' = [file |-> current.file + 1, pos |-> current.pos]
    /\ GoesOn("streaming")
    /\ UNCHANGED <<next, hint, errors, eventsChannel>>

(* Mutant: a goroutine of its own puts the entry into the channel.         *)
handleRowsEventAsync ==
    /\ GetsEvent
    /\ next <= Len(log) /\ log[next].file = current.file
    /\ current' = [file |-> current.file, pos |-> log[next].pos]
    /\ next' = next + 1
    /\ ~SmallerThanOrEquals(current', hint)
    /\ eventsChannel' = Append(eventsChannel, next)
    /\ hint' = current'
    /\ GoesOn("streaming")
    /\ UNCHANGED errors

(* handleRowsEvent: skip what was handled; otherwise pass it on, as soon   *)
(* as there is room in the channel.                                        *)
handleRowsEvent ==
    /\ GetsEvent
    /\ next <= Len(log) /\ log[next].file = current.file
    /\ current' = [file |-> current.file, pos |-> log[next].pos]
    /\ next' = next + 1
    /\ \/ /\ SmallerThanOrEquals(current', hint)
          /\ UNCHANGED <<hint, eventsChannel>>
       \/ /\ ~SmallerThanOrEquals(current', hint)
          /\ Len(eventsChannel) < EventsChannelBufferSize
          /\ eventsChannel' = Append(eventsChannel, next)
          /\ hint' = current'
    /\ GoesOn("streaming")
    /\ UNCHANGED errors

(* Mutant: any error ends the streaming.                                   *)
StopOnError ==
    /\ GetsEvent
    /\ errors < MaxErrors
    /\ reader' = "stopped" /\ errors' = errors + 1
    /\ UNCHANGED <<next, current, hint, eventsChannel>>

(* The connection is lost, or the syncer cannot go on.                     *)
GetEventFails ==
    /\ GetsEvent
    /\ errors < MaxErrors
    /\ GoesOn("failed") /\ errors' = errors + 1
    /\ UNCHANGED <<next, current, hint, eventsChannel>>

-----------------------------------------------------------------------------
(* EventsStreamer.StreamEvents, after an error and the sleep.              *)

Failures == IF hint = lastHint THEN successiveFailures + 1 ELSE 0

(* The connection yields what is in the file, and what comes after it.     *)
IsFirstOf(i, file) ==
    /\ \A j \in 1 .. i - 1 : log[j].file < file
    /\ i <= Len(log) => log[i].file >= file

Recovers ==
    /\ reader = "failed"
    /\ successiveFailures' = Failures
    /\ UNCHANGED <<serverVars, errors, eventsChannel, notifyVars, migrate, start>>

(* Mutant: the new reader is not told what was handled.                    *)
ReconnectWithoutHint ==
    /\ Recovers
    /\ Failures <= MaxRetries
    /\ lastHint' = hint
    /\ current' = [file |-> current.file, pos |-> 0]
    /\ next' \in 1 .. Len(log) + 1 /\ IsFirstOf(next', current.file)
    /\ hint' = Empty
    /\ GoesOn("streaming")

(* A new reader, at the beginning of the file (GetReconnectBinlogCoordi-   *)
(* nates), which is given the hint of the old one.                         *)
Reconnect ==
    /\ Recovers
    /\ Failures <= MaxRetries
    /\ lastHint' = hint
    /\ current' = [file |-> current.file, pos |-> 0]
    /\ next' \in 1 .. Len(log) + 1 /\ IsFirstOf(next', current.file)
    /\ GoesOn("streaming")
    /\ UNCHANGED hint

(* Too many failures without a rows event in between, or the new reader    *)
(* cannot connect: the error reaches PanicAbort.                           *)
GiveUp ==
    /\ Recovers
    /\ \/ Failures > MaxRetries /\ lastHint' = lastHint
       \/ Failures <= MaxRetries /\ lastHint' = hint
    /\ reader' = "aborted"
    /\ UNCHANGED <<next, current, hint>>

-----------------------------------------------------------------------------
(* The goroutine that empties eventsChannel, and the listeners.            *)

ReceiveEntry ==
    /\ Alive /\ notifying = NoEntry /\ eventsChannel # <<>>
    /\ notifying' = Head(eventsChannel)
    /\ eventsChannel' = Tail(eventsChannel)
    /\ UNCHANGED <<serverVars, readerVars, notified, delivered, migrate, start>>

Notified(kind) ==
    /\ Alive /\ notifying # NoEntry
    /\ log[notifying].kind = kind
    /\ notifying' = NoEntry /\ notified' = notifying
    /\ UNCHANGED <<serverVars, readerVars, eventsChannel, start>>

notifyNobody == Notified("other") /\ UNCHANGED <<delivered, migrate>>

notifyOriginalTable ==
    /\ Notified("dml")
    /\ delivered' = IF start = None THEN delivered ELSE Append(delivered, notifying)
    /\ UNCHANGED migrate

(* ghostTableMigrated has no buffer: the listener blocks, with the mutex   *)
(* locked, until Migrate receives, which it does once.                     *)
onChangelogStateEvent ==
    /\ Notified("migrated")
    /\ migrate = "waiting" /\ migrate' = "validating"
    /\ UNCHANGED delivered

-----------------------------------------------------------------------------
(* Migrate.                                                                *)

MigrateStep(from, to) ==
    /\ Alive /\ migrate = from /\ migrate' = to
    /\ UNCHANGED <<logFile, readerVars, eventsChannel, notifyVars>>

initiateApplier ==
    /\ MigrateStep("initiateApplier", "waiting")
    /\ log' = Written("migrated")
    /\ UNCHANGED start

(* AddListener has to wait for the mutex.                                  *)
addDMLEventsListener ==
    /\ MigrateStep("validating", "listening")
    /\ notifying = NoEntry
    /\ start' = notified
    /\ UNCHANGED log

cutOver ==
    /\ MigrateStep("listening", "cutOverComplete")
    /\ UNCHANGED <<log, start>>

-----------------------------------------------------------------------------
StreamEvents ==
    GetRotateEvent \/ handleRowsEvent \/ Reconnect \/ GiveUp
notifyListeners == ReceiveEntry \/ notifyNobody \/ notifyOriginalTable \/ onChangelogStateEvent

Next ==
    \/ \E kind \in {"dml", "other"} : WriteRows(kind)
    \/ FlushLogs
    \/ StreamEvents \/ GetEventFails
    \/ notifyListeners
    \/ initiateApplier \/ addDMLEventsListener \/ cutOver

Spec == Init /\ [][Next]_vars

(* The goroutines run; the server, errors and the cut-over owe nothing.    *)
FairSpec ==
    /\ Spec
    /\ WF_vars(StreamEvents) /\ WF_vars(notifyListeners)
    /\ WF_vars(initiateApplier) /\ WF_vars(addDMLEventsListener)

-----------------------------------------------------------------------------
Coordinate == [file : 0..MaxFile, pos : 0 .. PosLimit - 1]
LogEntry == [file : FirstFile..MaxFile, pos : 0 .. PosLimit - 1, kind : Kind]

(* The types of the variables.                                             *)
TypeOK ==
    /\ log \in Seq(LogEntry)
    /\ logFile \in FirstFile..MaxFile
    /\ next \in 1 .. Len(log) + 1
    /\ current \in Coordinate /\ hint \in Coordinate /\ lastHint \in Coordinate
    /\ successiveFailures \in 0 .. MaxRetries + 1
    /\ reader \in {"streaming", "failed", "stopped", "aborted"} /\ errors \in 0..MaxErrors
    /\ eventsChannel \in Seq(1..Len(log)) /\ Len(eventsChannel) <= EventsChannelBufferSize
    /\ notifying \in 0..Len(log) /\ notified \in 0..Len(log)
    /\ migrate \in {"initiateApplier", "waiting", "validating", "listening", "cutOverComplete"}
    /\ start \in (0..Len(log)) \cup {None}
    /\ delivered \in Seq(1..Len(log))

(* A reader that goes on has not used up its retries.                      *)
RetriesInv == reader # "aborted" => successiveFailures <= MaxRetries

(* What the promise rests on.  No position or file name wraps around ...   *)
Sound == MaxFile < LongFile /\ MaxPast + 1 < PosLimit /\ MaxEvents + 1 < PosLimit

(* ... so coordinates grow along the log.                                  *)
LogInv ==
    /\ Len(log) <= MaxPast + 1 \/ Len(log) <= MaxEvents + 1
    /\ migrate = "initiateApplier" => Len(log) <= MaxPast \/ Len(log) <= MaxEvents
    /\ \A i \in DOMAIN log : log[i].file <= logFile /\ log[i].pos \in 1..i
    /\ \A i, j \in DOMAIN log : i < j =>
        log[i].file < log[j].file \/ (log[i].file = log[j].file /\ log[i].pos < log[j].pos)

(* The last entry that was passed on.                                      *)
Sent == IF eventsChannel # <<>> THEN eventsChannel[1]
        ELSE IF notifying # NoEntry THEN notifying ELSE notified

(* The hint is the last entry, and the reader is not beyond the next one.  *)
ReaderInv ==
    /\ current.file \in FirstFile..logFile
    /\ \A i \in DOMAIN log :
        IF i < next THEN log[i].file <= current.file ELSE current.file <= log[i].file
    /\ IF hint = Empty THEN Sent = NoEntry
       ELSE Sent # NoEntry /\ hint = Coordinates(Sent) /\ next <= Sent + 1

(* Entries are passed on one by one.                                       *)
ChannelInv ==
    /\ notifying # NoEntry /\ notified # NoEntry => notifying = notified + 1
    /\ eventsChannel # <<>> /\ notifying # NoEntry => eventsChannel[1] = notifying + 1
    /\ eventsChannel # <<>> /\ notifying = NoEntry /\ notified # NoEntry
        => eventsChannel[1] = notified + 1

(* Between the last entry delivered and the last one notified is none of   *)
(* the table; the listener comes after a first entry.                      *)
DeliveredInv ==
    /\ migrate \in {"validating", "listening", "cutOverComplete"} => notified # NoEntry
    /\ start # None <=> migrate \in {"listening", "cutOverComplete"}
    /\ start = None => delivered = <<>>
    /\ start # None => LET last == IF delivered = <<>> THEN start ELSE delivered[Len(delivered)]
                       IN  /\ last <= notified
                           /\ \A i \in last + 1 .. notified : log[i].kind # "dml"

(* The inductive invariant of the proofs.                                  *)
IInv ==
    /\ TypeOK /\ RetriesInv
    /\ Sound => LogInv /\ ReaderInv /\ ChannelInv /\ DeliveredInv

(* The listener is given every event of its table after some point, once   *)
(* and in order, however often the stream breaks and is read again.        *)
Promise == INSTANCE EventLog WITH
    log <- [i \in DOMAIN log |-> log[i].kind = "dml"],
    None <- None, start <- start, delivered <- delivered
EveryEventOnce == Promise!Spec

(* Migrate gets to add its listener, unless the streamer gives up ...      *)
ListenerIsAdded == <>(start # None \/ reader = "aborted")

(* ... and then the listener is given all there is, unless the streamer    *)
(* gives up or the cut-over is over.                                       *)
EventsArrive == <>[](\/ reader = "aborted" \/ canStopStreaming
                     \/ /\ start # None
                        /\ {i \in DOMAIN log : log[i].kind = "dml" /\ i > start}
                            = {delivered[j] : j \in DOMAIN delivered})
=============================================================================

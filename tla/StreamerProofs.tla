---------------------------- MODULE StreamerProofs ----------------------------
(***************************************************************************)
(* Proofs about Streamer for every number of events, files, retries and    *)
(* broken connections: that it implements EventLog.                        *)
(***************************************************************************)
EXTENDS Streamer, TLAPS

LEMMA ModRange ==
    ASSUME NEW a \in Nat, NEW b \in Nat \ {0} PROVE a % b \in 0 .. b - 1
BY SMT

LEMMA ModSmall ==
    ASSUME NEW a \in Nat, NEW b \in Nat \ {0}, a < b PROVE a % b = a
BY SMT

-----------------------------------------------------------------------------
(* Types.                                                                  *)

LEMMA LogType ==
    ASSUME TypeOK
    PROVE  /\ Len(log) \in Nat /\ DOMAIN log = 1..Len(log)
           /\ \A i \in 1..Len(log) :
                /\ log[i] \in LogEntry /\ log[i].kind \in Kind
                /\ log[i].file \in 1..MaxFile /\ log[i].pos \in 0 .. PosLimit - 1
                /\ log[i].file \in Nat /\ log[i].pos \in Nat
<1>1. log \in Seq(LogEntry)
  BY DEF TypeOK
<1>2. \A e \in LogEntry :
        e.kind \in Kind /\ e.file \in 1..MaxFile /\ e.pos \in 0 .. PosLimit - 1
  BY DEF LogEntry, FirstFile
<1>3. Len(log) \in Nat /\ DOMAIN log = 1..Len(log) /\ \A i \in 1..Len(log) : log[i] \in LogEntry
  BY <1>1
<1>4. \A i \in 1..MaxFile : i \in Nat
  OBVIOUS
<1>5. \A i \in 0 .. PosLimit - 1 : i \in Nat
  BY BoundsAssumption
<1>6. QED
  BY <1>2, <1>3, <1>4, <1>5

LEMMA CoordinateType ==
    /\ \A c \in Coordinate : c.file \in 0..MaxFile /\ c.pos \in 0 .. PosLimit - 1
    /\ \A f \in 0..MaxFile, p \in 0 .. PosLimit - 1 : [file |-> f, pos |-> p] \in Coordinate
    /\ 0 \in 0 .. PosLimit - 1
BY BoundsAssumption DEF Coordinate

(* A write adds one entry, in the file the server writes.                  *)
LEMMA WrittenType ==
    ASSUME TypeOK, NEW kind \in Kind
    PROVE  /\ Written(kind) \in Seq(LogEntry)
           /\ Len(Written(kind)) = Len(log) + 1
           /\ \A i \in DOMAIN log : Written(kind)[i] = log[i]
           /\ Written(kind)[Len(log) + 1].file = logFile
           /\ Written(kind)[Len(log) + 1].kind = kind
<1> DEFINE n == Len(log)
           p == IF n > 0 /\ log[n].file = logFile THEN log[n].pos ELSE 0
           e == [file |-> logFile, pos |-> NextPos(p), kind |-> kind]
<1>1. p \in Nat
  BY LogType
<1> HIDE DEF p
<1>2. NextPos(p) \in 0 .. PosLimit - 1
  BY <1>1, ModRange, BoundsAssumption DEF NextPos
<1>3. e \in LogEntry
  BY <1>2 DEF TypeOK, LogEntry
<1>4. log \in Seq(LogEntry)
  BY DEF TypeOK, LogEntry
<1>5. Written(kind) = Append(log, e)
  BY DEF Written, p
<1> HIDE DEF e
<1>6. /\ Written(kind) \in Seq(LogEntry)
      /\ Len(Written(kind)) = Len(log) + 1
      /\ \A i \in DOMAIN log : Written(kind)[i] = log[i]
      /\ Written(kind)[Len(log) + 1] = e
  BY <1>3, <1>4, <1>5
<1>7. QED
  BY <1>6 DEF e

LEMMA SeqMonotone ==
    ASSUME NEW S, NEW T, S \subseteq T, NEW s \in Seq(S) PROVE s \in Seq(T)
OBVIOUS

(* A longer log keeps everything else well typed.                          *)
LEMMA LongerLogType ==
    ASSUME TypeOK, log' \in Seq(LogEntry), Len(log') = Len(log) + 1
    PROVE  /\ eventsChannel \in Seq(1..Len(log')) /\ delivered \in Seq(1..Len(log'))
           /\ next \in 1 .. Len(log') + 1
           /\ notifying \in 0..Len(log') /\ notified \in 0..Len(log')
           /\ start \in (0..Len(log')) \cup {None}
<1>1. Len(log) \in Nat
  BY LogType
<1>2. 1..Len(log) \subseteq 1..Len(log') /\ 0..Len(log) \subseteq 0..Len(log')
  BY <1>1
<1>3. eventsChannel \in Seq(1..Len(log')) /\ delivered \in Seq(1..Len(log'))
  BY <1>2, SeqMonotone DEF TypeOK
<1>4. QED
  BY <1>1, <1>2, <1>3 DEF TypeOK

LEMMA InitType == Init => TypeOK /\ RetriesInv
<1> SUFFICES ASSUME Init PROVE TypeOK /\ RetriesInv
  OBVIOUS
<1>1. PICK n \in 0..MaxPast : \E k \in [1..n -> PastKinds] :
        log = [i \in 1..n |-> [file |-> FirstFile, pos |-> i % PosLimit, kind |-> k[i]]]
  BY DEF Init
<1>2. PICK k \in [1..n -> PastKinds] :
        log = [i \in 1..n |-> [file |-> FirstFile, pos |-> i % PosLimit, kind |-> k[i]]]
  BY <1>1
<1>3. n \in Nat
  BY BoundsAssumption
<1>4. \A i \in 1..n : i % PosLimit \in 0 .. PosLimit - 1
  BY <1>3, ModRange, BoundsAssumption
<1>5. \A i \in 1..n : [file |-> FirstFile, pos |-> i % PosLimit, kind |-> k[i]] \in LogEntry
  <2>1. \A i \in 1..n : k[i] \in Kind
    BY BoundsAssumption
  <2>2. FirstFile \in FirstFile..MaxFile
    BY BoundsAssumption DEF FirstFile
  <2>3. QED
    BY <1>4, <2>1, <2>2 DEF LogEntry
<1>6. log \in Seq(LogEntry) /\ Len(log) = n
  BY <1>2, <1>3, <1>5
<1>7. Empty \in Coordinate /\ current \in Coordinate
  BY BoundsAssumption DEF Init, Empty, Coordinate, FirstFile
<1>8. QED
  BY <1>6, <1>7, BoundsAssumption
     DEF Init, TypeOK, RetriesInv, LogEntry, FirstFile, NoEntry, EventsChannelBufferSize

LEMMA NextType == TypeOK /\ RetriesInv /\ [Next]_vars => TypeOK' /\ RetriesInv'
<1> SUFFICES ASSUME TypeOK, RetriesInv, [Next]_vars PROVE TypeOK' /\ RetriesInv'
  OBVIOUS
<1> USE BoundsAssumption, NoneAssumption
        DEF NoEntry, FirstFile, EventsChannelBufferSize, RetriesInv
<1>1. ASSUME NEW kind \in {"dml", "other"}, WriteRows(kind) PROVE TypeOK' /\ RetriesInv'
  <2>1. log' \in Seq(LogEntry) /\ Len(log') = Len(log) + 1
    BY <1>1, WrittenType DEF WriteRows, Kind
  <2>2. QED
    BY <1>1, <2>1, LongerLogType DEF WriteRows, TypeOK, readerVars, notifyVars
<1>2. CASE initiateApplier
  <2>1. log' \in Seq(LogEntry) /\ Len(log') = Len(log) + 1
    BY <1>2, WrittenType DEF initiateApplier, Kind
  <2>2. QED
    BY <1>2, <2>1, LongerLogType DEF initiateApplier, MigrateStep, TypeOK, readerVars, notifyVars
<1>3. CASE FlushLogs
  BY <1>3 DEF FlushLogs, TypeOK, readerVars, notifyVars
<1>4. CASE GetRotateEvent
  <2>1. current' \in Coordinate
    <3> DEFINE f == current.file
    <3>1. f + 1 \in 0..MaxFile /\ current.pos \in 0 .. PosLimit - 1
      <4>1. f \in 0..MaxFile /\ current.pos \in 0 .. PosLimit - 1
        BY CoordinateType DEF TypeOK
      <4>2. f < logFile /\ logFile \in 1..MaxFile
        BY <1>4 DEF GetRotateEvent, TypeOK
      <4> HIDE DEF f
      <4>3. QED
        BY <4>1, <4>2
    <3>2. QED
      BY <1>4, <3>1, CoordinateType DEF GetRotateEvent
  <2>2. QED
    BY <1>4, <2>1 DEF GetRotateEvent, GetsEvent, GoesOn, TypeOK, serverVars, notifyVars
<1>5. CASE handleRowsEvent
  <2>1. current' \in Coordinate
    <3>1. next \in 1..Len(log) /\ current.file \in 0..MaxFile
      BY <1>5, LogType, CoordinateType DEF handleRowsEvent, TypeOK
    <3>2. log[next].pos \in 0 .. PosLimit - 1
      BY <3>1, LogType
    <3>3. QED
      BY <1>5, <3>1, <3>2, CoordinateType DEF handleRowsEvent
  <2>2. hint' \in Coordinate /\ eventsChannel' \in Seq(1..Len(log)) /\ Len(eventsChannel') <= 1
    <3>1. CASE UNCHANGED <<hint, eventsChannel>>
      BY <3>1 DEF TypeOK
    <3>2. CASE Len(eventsChannel) < 1 /\ eventsChannel' = Append(eventsChannel, next) /\ hint' = current'
      <4>1. next \in 1..Len(log)
        BY <1>5, LogType DEF handleRowsEvent, TypeOK
      <4>2. QED
        BY <2>1, <3>2, <4>1 DEF TypeOK
    <3>3. QED
      BY <1>5, <3>1, <3>2 DEF handleRowsEvent
  <2>3. next' \in 1 .. Len(log) + 1
    <3>1. next \in Nat /\ next >= 1 /\ Len(log) \in Nat
      BY LogType DEF TypeOK
    <3>2. next <= Len(log) /\ next' = next + 1
      BY <1>5 DEF handleRowsEvent
    <3>3. QED
      BY <3>1, <3>2
  <2>4. /\ UNCHANGED <<serverVars, lastHint, successiveFailures, notifyVars, migrate, start, errors>>
        /\ reader = "streaming" /\ reader' \in {"streaming", "stopped"}
    BY <1>5 DEF handleRowsEvent, GetsEvent, GoesOn
  <2>5. QED
    BY <2>1, <2>2, <2>3, <2>4 DEF TypeOK, serverVars, notifyVars
<1>6. CASE GetEventFails
  BY <1>6 DEF GetEventFails, GetsEvent, GoesOn, TypeOK, serverVars, notifyVars
<1>7. CASE Reconnect
  <2>1. current' \in Coordinate
    <3>1. current.file \in 0..MaxFile
      BY CoordinateType DEF TypeOK
    <3>2. QED
      BY <1>7, <3>1, CoordinateType DEF Reconnect
  <2>2. successiveFailures' \in 0 .. MaxRetries + 1 /\ successiveFailures' <= MaxRetries
    BY <1>7 DEF Reconnect, Recovers, Failures, TypeOK
  <2>3. next' \in 1 .. Len(log) + 1 /\ reader' \in {"streaming", "stopped"} /\ lastHint' = hint /\ hint' = hint
    BY <1>7 DEF Reconnect, GoesOn
  <2>4. QED
    BY <1>7, <2>1, <2>2, <2>3 DEF Reconnect, Recovers, TypeOK, serverVars, notifyVars
<1>8. CASE GiveUp
  BY <1>8 DEF GiveUp, Recovers, Failures, TypeOK, serverVars, notifyVars
<1>9. CASE ReceiveEntry
  BY <1>9 DEF ReceiveEntry, TypeOK, serverVars, readerVars
<1>10. CASE notifyNobody
  BY <1>10 DEF notifyNobody, Notified, TypeOK, serverVars, readerVars
<1>11. CASE notifyOriginalTable
  <2>1. notifying \in 1..Len(log)
    BY <1>11 DEF notifyOriginalTable, Notified, TypeOK
  <2>2. delivered' \in Seq(1..Len(log))
    <3>1. delivered \in Seq(1..Len(log))
      BY DEF TypeOK
    <3>2. Append(delivered, notifying) \in Seq(1..Len(log))
      BY <2>1, <3>1
    <3>3. delivered' = delivered \/ delivered' = Append(delivered, notifying)
      BY <1>11 DEF notifyOriginalTable
    <3>4. QED
      BY <3>1, <3>2, <3>3
  <2>3. QED
    BY <1>11, <2>1, <2>2 DEF notifyOriginalTable, Notified, TypeOK, serverVars, readerVars
<1>12. CASE onChangelogStateEvent
  BY <1>12 DEF onChangelogStateEvent, Notified, TypeOK, serverVars, readerVars
<1>13. CASE addDMLEventsListener
  BY <1>13 DEF addDMLEventsListener, MigrateStep, TypeOK, readerVars, notifyVars
<1>14. CASE cutOver
  BY <1>14 DEF cutOver, MigrateStep, TypeOK, readerVars, notifyVars
<1>15. CASE UNCHANGED vars
  BY <1>15 DEF vars, serverVars, readerVars, notifyVars, TypeOK
<1>16. QED
  BY <1>1, <1>2, <1>3, <1>4, <1>5, <1>6, <1>7, <1>8, <1>9, <1>10, <1>11, <1>12,
     <1>13, <1>14, <1>15 DEF Next, StreamEvents, notifyListeners

(* The types of all variables, whatever the bounds.                        *)
THEOREM StreamerTypeCorrect == Spec => []TypeOK
<1>1. Spec => [](TypeOK /\ RetriesInv)
  BY InitType, NextType, PTL DEF Spec
<1>2. QED
  BY <1>1, PTL

-----------------------------------------------------------------------------
(* The order of the coordinates.                                           *)

OrderInv == LogInv /\ ReaderInv /\ ChannelInv /\ DeliveredInv

(* As long as no file name gets a digit more, coordinates are compared by  *)
(* the number of the file, then by position.                               *)
LEMMA CoordinateOrder ==
    ASSUME Sound, NEW c \in Coordinate, NEW d \in Coordinate
    PROVE  SmallerThanOrEquals(c, d)
            <=> c.file < d.file \/ (c.file = d.file /\ c.pos <= d.pos)
<1>1. /\ c.file \in 0..MaxFile /\ c.pos \in 0 .. PosLimit - 1
      /\ d.file \in 0..MaxFile /\ d.pos \in 0 .. PosLimit - 1
      /\ (c = d <=> c.file = d.file /\ c.pos = d.pos)
  BY CoordinateType DEF Coordinate
<1>2. FileSmallerThan(c.file, d.file) <=> c.file < d.file
  <2> DEFINE f == c.file
             g == d.file
  <2>1. f \in 0..MaxFile /\ g \in 0..MaxFile
    BY <1>1
  <2> HIDE DEF f, g
  <2>2. FileSmallerThan(f, g) <=> f < g
    BY <2>1, BoundsAssumption DEF FileSmallerThan, Sound
  <2>3. QED
    BY <2>2 DEF f, g
<1> DEFINE f == c.file
           g == d.file
           p == c.pos
           q == d.pos
<1>3. SmallerThanOrEquals(c, d) <=> f < g \/ (f = g /\ p < q) \/ (f = g /\ p = q)
  BY <1>1, <1>2 DEF SmallerThanOrEquals, SmallerThan
<1>4. p \in Nat /\ q \in Nat
  BY <1>1, BoundsAssumption
<1> HIDE DEF f, g, p, q
<1>5. SmallerThanOrEquals(c, d) <=> f < g \/ (f = g /\ p <= q)
  BY <1>3, <1>4
<1>6. QED
  BY <1>5 DEF f, g, p, q

(* Then the order of the coordinates is the order of the log.              *)
LEMMA LogOrder ==
    ASSUME TypeOK, Sound, LogInv, NEW i \in 1..Len(log), NEW j \in 1..Len(log)
    PROVE  /\ SmallerThanOrEquals(Coordinates(i), Coordinates(j)) <=> i <= j
           /\ i <= j => log[i].file <= log[j].file
           /\ Coordinates(i) \in Coordinate /\ Coordinates(i) # Empty
           /\ ~SmallerThanOrEquals(Coordinates(i), Empty)
<1> DEFINE f(x) == log[x].file
           p(x) == log[x].pos
<1>1. \A x \in {i, j} : f(x) \in 1..MaxFile /\ p(x) \in 0 .. PosLimit - 1 /\ p(x) \in Nat
  BY LogType
<1>2. /\ i < j => f(i) < f(j) \/ (f(i) = f(j) /\ p(i) < p(j))
      /\ j < i => f(j) < f(i) \/ (f(j) = f(i) /\ p(j) < p(i))
  BY LogType DEF LogInv
<1>3. \A x \in {i, j} : Coordinates(x) \in Coordinate
                        /\ Coordinates(x).file = f(x) /\ Coordinates(x).pos = p(x)
  BY <1>1, CoordinateType DEF Coordinates
<1>4. Empty \in Coordinate /\ Empty.file = 0 /\ Empty.pos = 0
  BY CoordinateType, BoundsAssumption DEF Empty
<1>5. /\ SmallerThanOrEquals(Coordinates(i), Coordinates(j))
            <=> f(i) < f(j) \/ (f(i) = f(j) /\ p(i) <= p(j))
      /\ SmallerThanOrEquals(Coordinates(i), Empty)
            <=> f(i) < 0 \/ (f(i) = 0 /\ p(i) <= 0)
  BY <1>3, <1>4, CoordinateOrder
<1>6. Coordinates(i) # Empty
  BY <1>1, <1>3, <1>4
<1> HIDE DEF f, p
<1>7. ~(f(i) < 0 \/ f(i) = 0)
  BY <1>1
<1>8. i \in Nat /\ j \in Nat /\ (i = j => f(i) = f(j) /\ p(i) = p(j))
  BY LogType
<1>9. /\ i <= j <=> f(i) < f(j) \/ (f(i) = f(j) /\ p(i) <= p(j))
      /\ i <= j => f(i) <= f(j)
  BY <1>1, <1>2, <1>8
<1>10. QED
  BY <1>3, <1>5, <1>6, <1>7, <1>9 DEF f

LEMMA SentType ==
    ASSUME TypeOK
    PROVE  /\ Sent \in 0..Len(log) /\ Len(log) \in Nat
           /\ eventsChannel # <<>> => eventsChannel[1] \in 1..Len(log)
           /\ eventsChannel = <<>> <=> Len(eventsChannel) = 0
<1>1. /\ eventsChannel # <<>> => eventsChannel[1] \in 1..Len(log)
      /\ eventsChannel = <<>> <=> Len(eventsChannel) = 0
  BY DEF TypeOK
<1>2. QED
  BY <1>1, LogType DEF Sent, NoEntry, TypeOK

-----------------------------------------------------------------------------
(* The inductive invariant, one lemma per kind of step.                    *)

LEMMA InitOrder == ASSUME Init, Sound, TypeOK PROVE OrderInv
<1> USE DEF NoEntry, Empty, FirstFile
<1>1. PICK n \in 0..MaxPast : \E k \in [1..n -> PastKinds] :
        log = [i \in 1..n |-> [file |-> FirstFile, pos |-> i % PosLimit, kind |-> k[i]]]
  BY DEF Init
<1>2. PICK k \in [1..n -> PastKinds] :
        log = [i \in 1..n |-> [file |-> FirstFile, pos |-> i % PosLimit, kind |-> k[i]]]
  BY <1>1
<1>3. n \in Nat /\ n <= MaxPast /\ MaxPast \in Nat
  BY BoundsAssumption
<1>4. \A i \in 1..n : i % PosLimit = i
  BY <1>3, ModSmall, BoundsAssumption DEF Sound
<1>5. Len(log) = n /\ DOMAIN log = 1..n /\ \A i \in 1..n : log[i].file = 1 /\ log[i].pos = i
  BY <1>2, <1>3, <1>4
<1>6. logFile = 1 /\ current.file = 1
  BY DEF Init
<1>7. LogInv
  BY <1>3, <1>5, <1>6 DEF LogInv
<1>8. ReaderInv
  BY <1>3, <1>5, <1>6 DEF Init, ReaderInv, Sent
<1>9. QED
  BY <1>7, <1>8 DEF Init, OrderInv, ChannelInv, DeliveredInv

(* A write makes the log longer by the greatest coordinates of all.        *)
LEMMA GrowsInOrder ==
    ASSUME TypeOK, Sound, LogInv, NEW kind \in Kind, log' = Written(kind), logFile' = logFile,
           Len(log) < MaxEvents \/ (migrate = "initiateApplier" /\ migrate' # "initiateApplier"),
           migrate' = "initiateApplier" => migrate = "initiateApplier"
    PROVE  LogInv'
<1> DEFINE n == Len(log)
           q == IF n > 0 /\ log[n].file = logFile THEN log[n].pos ELSE 0
           f(x) == log[x].file
           p(x) == log[x].pos
<1>1. /\ n \in Nat /\ DOMAIN log = 1..n /\ logFile \in 1..MaxFile
      /\ \A i \in 1..n : f(i) \in 1..MaxFile /\ p(i) \in Nat
  BY LogType DEF TypeOK, FirstFile
<1>2. /\ \A i \in 1..n : f(i) <= logFile /\ p(i) \in 1..i
      /\ \A i, j \in 1..n : i < j => f(i) < f(j) \/ (f(i) = f(j) /\ p(i) < p(j))
  BY <1>1 DEF LogInv
<1>3. q \in 0..n
  BY <1>1, <1>2
<1>4. n + 1 < PosLimit
  <2>1. n < MaxEvents \/ n <= MaxPast \/ n <= MaxEvents
    BY DEF LogInv
  <2>2. QED
    BY <1>1, <2>1, BoundsAssumption DEF Sound
<1>5. NextPos(q) = q + 1
  <2>1. q + 1 < PosLimit /\ q + 1 \in Nat
    BY <1>1, <1>3, <1>4, BoundsAssumption
  <2>2. QED
    BY <2>1, ModSmall, BoundsAssumption DEF NextPos
<1>6. log' = Append(log, [file |-> logFile, pos |-> q + 1, kind |-> kind])
  BY <1>5 DEF Written
<1>7. /\ Len(log') = n + 1 /\ DOMAIN log' = 1 .. n + 1
      /\ \A i \in 1..n : log'[i] = log[i]
      /\ log'[n + 1].file = logFile /\ log'[n + 1].pos = q + 1
  BY <1>1, <1>6 DEF TypeOK
<1> HIDE DEF q
<1>8. \A i \in 1..n : f(i) < logFile \/ (f(i) = logFile /\ p(i) <= q)
  <2> SUFFICES ASSUME NEW i \in 1..n, f(i) = logFile PROVE p(i) <= q
    BY <1>1, <1>2
  <2>1. n \in 1..n
    BY <1>1
  <2>2. f(n) = logFile /\ p(i) <= p(n)
    BY <1>1, <1>2, <2>1
  <2>3. q = p(n)
    BY <1>1, <2>2 DEF q
  <2>4. QED
    BY <2>2, <2>3
<1>9. \A i \in 1 .. n + 1 : log'[i].file <= logFile /\ log'[i].pos \in 1..i
  <2> SUFFICES ASSUME NEW i \in 1 .. n + 1 PROVE log'[i].file <= logFile /\ log'[i].pos \in 1..i
    OBVIOUS
  <2>1. CASE i \in 1..n
    BY <1>2, <1>7, <2>1
  <2>2. CASE i = n + 1
    BY <1>1, <1>3, <1>7, <2>2
  <2>3. QED
    BY <1>1, <2>1, <2>2
<1>10. \A i, j \in 1 .. n + 1 : i < j =>
         \/ log'[i].file < log'[j].file
         \/ log'[i].file = log'[j].file /\ log'[i].pos < log'[j].pos
  <2> SUFFICES ASSUME NEW i \in 1 .. n + 1, NEW j \in 1 .. n + 1, i < j
               PROVE  \/ log'[i].file < log'[j].file
                      \/ log'[i].file = log'[j].file /\ log'[i].pos < log'[j].pos
    OBVIOUS
  <2>1. i \in 1..n
    BY <1>1
  <2>2. CASE j \in 1..n
    BY <1>2, <1>7, <2>1, <2>2
  <2>3. CASE j = n + 1
    <3>1. f(i) < logFile \/ (f(i) = logFile /\ p(i) < q + 1)
      BY <1>1, <1>3, <1>8, <2>1
    <3>2. QED
      BY <1>7, <2>1, <2>3, <3>1
  <2>4. QED
    BY <1>1, <2>2, <2>3
<1>11. /\ Len(log') <= MaxPast + 1 \/ Len(log') <= MaxEvents + 1
       /\ migrate' = "initiateApplier" => Len(log') <= MaxPast \/ Len(log') <= MaxEvents
  <2>1. n < MaxEvents \/ (migrate' # "initiateApplier" /\ (n <= MaxPast \/ n <= MaxEvents))
    BY DEF LogInv
  <2>2. QED
    BY <1>1, <1>7, <2>1, BoundsAssumption
<1>12. QED
  BY <1>7, <1>9, <1>10, <1>11 DEF LogInv

(* A write changes nothing of what the other parts say.                    *)
LEMMA WriteOrder ==
    ASSUME TypeOK, Sound, OrderInv, NEW kind \in Kind, log' = Written(kind),
           UNCHANGED <<logFile, readerVars, eventsChannel, notifyVars, start>>,
           Len(log) < MaxEvents \/ (migrate = "initiateApplier" /\ migrate' # "initiateApplier"),
           migrate' = migrate \/ (migrate = "initiateApplier" /\ migrate' = "waiting")
    PROVE  OrderInv'
<1> DEFINE n == Len(log)
<1> USE DEF NoEntry
<1>1. LogInv'
  BY GrowsInOrder DEF OrderInv
<1>2. /\ n \in Nat /\ DOMAIN log = 1..n /\ DOMAIN log' = 1 .. n + 1
      /\ \A i \in 1..n : log'[i] = log[i]
      /\ log'[n + 1].file = logFile
  BY LogType, WrittenType DEF TypeOK
<1>3. Sent' = Sent /\ Sent \in 0..n /\ (Sent # 0 => Coordinates(Sent)' = Coordinates(Sent))
  <2>1. Sent' = Sent
    BY DEF Sent, notifyVars
  <2>2. Sent \in 0..n
    BY SentType
  <2>3. QED
    BY <1>2, <2>1, <2>2 DEF Coordinates
<1>4. ReaderInv'
  <2>1. \A i \in 1 .. n + 1 : IF i < next THEN log'[i].file <= current.file
                                          ELSE current.file <= log'[i].file
    <3> SUFFICES ASSUME NEW i \in 1 .. n + 1
                 PROVE  IF i < next THEN log'[i].file <= current.file
                                    ELSE current.file <= log'[i].file
      OBVIOUS
    <3>1. CASE i \in 1..n
      BY <1>2, <3>1 DEF OrderInv, ReaderInv
    <3>2. CASE i = n + 1
      BY <1>2, <3>2 DEF OrderInv, ReaderInv, TypeOK
    <3>3. QED
      BY <1>2, <3>1, <3>2
  <2>2. QED
    BY <1>2, <1>3, <2>1 DEF OrderInv, ReaderInv, readerVars, Empty
<1>5. ChannelInv'
  BY DEF OrderInv, ChannelInv, notifyVars
<1>6. DeliveredInv'
  <2> DEFINE last == IF delivered = <<>> THEN start ELSE delivered[Len(delivered)]
  <2>1. notified \in 0..n
    BY DEF TypeOK
  <2>2. start # None => last \in Nat
    <3>1. delivered # <<>> => delivered[Len(delivered)] \in 1..n
      BY DEF TypeOK
    <3>2. QED
      BY <1>2, <3>1 DEF TypeOK
  <2>3. ASSUME start # None PROVE \A i \in last + 1 .. notified : log'[i].kind # "dml"
    BY <1>2, <2>1, <2>2, <2>3 DEF OrderInv, DeliveredInv
  <2>4. QED
    BY <2>3 DEF OrderInv, DeliveredInv, notifyVars
<1>7. QED
  BY <1>1, <1>4, <1>5, <1>6 DEF OrderInv

(* Steps that leave the log, the reader and the channel alone.             *)
LEMMA SameLogOrder ==
    ASSUME TypeOK, Sound, OrderInv, log' = log, logFile' = logFile,
           migrate' = "initiateApplier" => migrate = "initiateApplier"
    PROVE  LogInv'
BY DEF OrderInv, LogInv

LEMMA ReceiveOrder ==
    ASSUME TypeOK, Sound, OrderInv, ReceiveEntry PROVE OrderInv'
<1> USE DEF NoEntry
<1>1. /\ eventsChannel # <<>> /\ notifying = 0 /\ notifying' = eventsChannel[1]
      /\ notifying' # 0 /\ eventsChannel' = <<>>
      /\ UNCHANGED <<log, logFile, next, current, hint, notified, delivered, migrate, start>>
  <2>1. /\ eventsChannel # <<>> /\ notifying = 0 /\ notifying' = Head(eventsChannel)
        /\ eventsChannel' = Tail(eventsChannel)
        /\ UNCHANGED <<log, logFile, next, current, hint, notified, delivered, migrate, start>>
    BY DEF ReceiveEntry, serverVars, readerVars
  <2>2. eventsChannel[1] \in 1..Len(log)
    BY <2>1, SentType
  <2>3. Tail(eventsChannel) = <<>>
    BY <2>1 DEF TypeOK, EventsChannelBufferSize
  <2>4. QED
    BY <2>1, <2>2, <2>3 DEF TypeOK
<1>2. LogInv'
  BY <1>1, SameLogOrder
<1>3. Sent' = Sent
  BY <1>1 DEF Sent
<1>4. Coordinates(Sent)' = Coordinates(Sent)
  BY <1>1, <1>3 DEF Coordinates
<1>5. ReaderInv'
  BY <1>1, <1>3, <1>4 DEF OrderInv, ReaderInv, Empty
<1>6. ChannelInv'
  BY <1>1 DEF OrderInv, ChannelInv
<1>7. DeliveredInv'
  BY <1>1 DEF OrderInv, DeliveredInv
<1>8. QED
  BY <1>2, <1>5, <1>6, <1>7 DEF OrderInv

(* The entry after the last one notified is the one being notified.        *)
LEMMA NotifyingIsNext ==
    ASSUME TypeOK, OrderInv, notifying # NoEntry, start # None
    PROVE  notified \in Nat /\ notifying = notified + 1
BY DEF TypeOK, OrderInv, ChannelInv, DeliveredInv, NoEntry

LEMMA NotifiedOrder ==
    ASSUME TypeOK, Sound, OrderInv, notifyNobody \/ notifyOriginalTable \/ onChangelogStateEvent
    PROVE  OrderInv'
<1> USE DEF NoEntry
<1>1. /\ notifying # 0 /\ notifying' = 0 /\ notified' = notifying
      /\ UNCHANGED <<log, logFile, next, current, hint, eventsChannel, start>>
      /\ notifying \in 1..Len(log) /\ Len(log) \in Nat
  BY LogType DEF notifyNobody, notifyOriginalTable, onChangelogStateEvent, Notified, serverVars,
        readerVars, TypeOK
<1>2. \/ migrate' = migrate
      \/ migrate = "waiting" /\ migrate' = "validating"
  BY DEF notifyNobody, notifyOriginalTable, onChangelogStateEvent
<1>3. LogInv'
  <2>1. migrate' = "initiateApplier" => migrate = "initiateApplier"
    BY <1>2
  <2>2. QED
    BY <1>1, <2>1, SameLogOrder
<1>4. Sent' = Sent
  BY <1>1 DEF Sent
<1>5. Coordinates(Sent)' = Coordinates(Sent)
  BY <1>1, <1>4 DEF Coordinates
<1>6. ReaderInv'
  BY <1>1, <1>4, <1>5 DEF OrderInv, ReaderInv, Empty
<1>7. ChannelInv'
  BY <1>1 DEF OrderInv, ChannelInv
<1>8. DeliveredInv'
  <2> DEFINE last == IF delivered = <<>> THEN start ELSE delivered[Len(delivered)]
  <2>1. CASE start = None
    <3>1. delivered = <<>> /\ delivered' = <<>>
      BY <2>1 DEF OrderInv, DeliveredInv, notifyNobody, notifyOriginalTable,
            onChangelogStateEvent
    <3>2. QED
      BY <1>1, <1>2, <2>1, <3>1 DEF OrderInv, DeliveredInv
  <2>2. CASE start # None
    <3>1. /\ notified \in Nat /\ notifying = notified + 1
          /\ last <= notified /\ \A i \in last + 1 .. notified : log[i].kind # "dml"
          /\ migrate' = migrate /\ migrate \in {"listening", "cutOverComplete"}
      BY <1>1, <1>2, <2>2, NotifyingIsNext DEF OrderInv, DeliveredInv
    <3>2. last \in Nat
      <4>1. delivered # <<>> => delivered[Len(delivered)] \in 1..Len(log)
        BY DEF TypeOK
      <4>2. QED
        BY <1>1, <2>2, <4>1 DEF TypeOK
    <3>3. CASE log[notifying].kind # "dml" /\ delivered' = delivered
      <4>1. \A i \in last + 1 .. notifying : log[i].kind # "dml"
        BY <3>1, <3>2, <3>3
      <4>2. last <= notifying
        BY <3>1, <3>2
      <4>3. last' = last
        BY <1>1, <3>3
      <4> HIDE DEF last
      <4>4. /\ last' <= notified' /\ \A i \in last' + 1 .. notified' : log'[i].kind # "dml"
        BY <1>1, <4>1, <4>2, <4>3
      <4>5. QED
        BY <1>1, <2>2, <3>1, <4>4 DEF DeliveredInv, last
    <3>4. CASE delivered' = Append(delivered, notifying)
      <4>1. delivered' # <<>> /\ delivered'[Len(delivered')] = notifying
        <5> DEFINE S == 1..Len(log)
        <5>1. delivered \in Seq(S) /\ notifying \in S
          BY <1>1 DEF TypeOK
        <5> HIDE DEF S
        <5>2. QED
          BY <3>4, <5>1
      <4>2. notifying <= notifying /\ \A i \in notifying + 1 .. notifying : FALSE
        BY <1>1
      <4>3. QED
        BY <1>1, <2>2, <3>1, <4>1, <4>2 DEF DeliveredInv
    <3>5. QED
      BY <2>2, <3>3, <3>4
         DEF notifyNobody, notifyOriginalTable, onChangelogStateEvent, Notified
  <2>3. QED
    BY <2>1, <2>2
<1>9. QED
  BY <1>3, <1>6, <1>7, <1>8 DEF OrderInv

LEMMA MigrateOrder ==
    ASSUME TypeOK, Sound, OrderInv, addDMLEventsListener \/ cutOver PROVE OrderInv'
<1> USE DEF NoEntry
<1>1. /\ UNCHANGED <<log, logFile, next, current, hint, eventsChannel, notifying, notified, delivered>>
      /\ migrate' # "initiateApplier"
  BY DEF addDMLEventsListener, cutOver, MigrateStep, readerVars, notifyVars
<1>2. LogInv'
  BY <1>1, SameLogOrder
<1>3. Sent' = Sent
  BY <1>1 DEF Sent
<1>4. Coordinates(Sent)' = Coordinates(Sent)
  BY <1>1, <1>3 DEF Coordinates
<1>5. ReaderInv'
  BY <1>1, <1>3, <1>4 DEF OrderInv, ReaderInv, Empty
<1>6. ChannelInv'
  BY <1>1 DEF OrderInv, ChannelInv
<1>7. DeliveredInv'
  <2>1. CASE addDMLEventsListener
    <3>1. /\ migrate = "validating" /\ migrate' = "listening" /\ start' = notified
          /\ start = None /\ delivered = <<>> /\ notified # 0
          /\ notified \in Nat /\ notified # None
      BY <2>1, NoneAssumption
         DEF addDMLEventsListener, MigrateStep, OrderInv, DeliveredInv, TypeOK
    <3>2. notified <= notified /\ \A i \in notified + 1 .. notified : FALSE
      BY <3>1
    <3>3. QED
      BY <1>1, <3>1, <3>2 DEF DeliveredInv
  <2>2. CASE cutOver
    BY <1>1, <2>2 DEF cutOver, MigrateStep, OrderInv, DeliveredInv
  <2>3. QED
    BY <2>1, <2>2
<1>8. QED
  BY <1>2, <1>5, <1>6, <1>7 DEF OrderInv

(* The parts about the goroutine and Migrate do not see the reader.        *)
LEMMA ReaderOnly ==
    ASSUME TypeOK, Sound, OrderInv, UNCHANGED <<log, notifyVars, migrate, start, eventsChannel>>,
           logFile' = logFile
    PROVE  LogInv' /\ ChannelInv' /\ DeliveredInv' /\ Sent' = Sent
                   /\ Coordinates(Sent)' = Coordinates(Sent)
<1>1. LogInv'
  BY SameLogOrder
<1>2. ChannelInv' /\ DeliveredInv' /\ Sent' = Sent
  BY DEF OrderInv, ChannelInv, DeliveredInv, Sent, notifyVars
<1>3. QED
  BY <1>1, <1>2 DEF Coordinates

LEMMA RotateOrder ==
    ASSUME TypeOK, Sound, OrderInv, GetRotateEvent PROVE OrderInv'
<1>1. /\ UNCHANGED <<log, logFile, notifyVars, migrate, start, eventsChannel, next, hint>>
      /\ current' = [file |-> current.file + 1, pos |-> current.pos]
      /\ current.file < logFile
      /\ next <= Len(log) => log[next].file > current.file
  BY DEF GetRotateEvent, GetsEvent, serverVars
<1> DEFINE f == current.file
<1>2. current'.file = f + 1 /\ f \in FirstFile..logFile /\ f < logFile /\ logFile \in FirstFile..MaxFile
  BY <1>1 DEF OrderInv, ReaderInv, TypeOK
<1>3. Len(log) \in Nat /\ DOMAIN log = 1..Len(log) /\ next \in 1 .. Len(log) + 1
  BY LogType DEF TypeOK
<1>4. \A i \in 1..Len(log) : IF i < next THEN log[i].file <= f + 1 ELSE f + 1 <= log[i].file
  <2> SUFFICES ASSUME NEW i \in 1..Len(log)
               PROVE  IF i < next THEN log[i].file <= f + 1 ELSE f + 1 <= log[i].file
    OBVIOUS
  <2>1. f \in Nat /\ log[i].file \in Nat
    BY <1>2, LogType DEF FirstFile
  <2>2. CASE i < next
    BY <1>3, <2>1, <2>2 DEF OrderInv, ReaderInv
  <2>3. CASE ~(i < next)
    <3>1. next \in 1..Len(log) /\ next <= i
      BY <1>3, <2>3
    <3>2. log[next].file \in Nat /\ log[next].file > f /\ log[next].file <= log[i].file
      BY <1>1, <3>1, LogType, LogOrder DEF OrderInv
    <3>3. QED
      BY <2>1, <2>3, <3>2
  <2>4. QED
    BY <2>2, <2>3
<1>5. ReaderInv'
  <2>1. f + 1 \in FirstFile..logFile
    BY <1>2 DEF FirstFile
  <2> HIDE DEF f
  <2>2. Sent' = Sent /\ Coordinates(Sent)' = Coordinates(Sent)
    BY <1>1, ReaderOnly
  <2>3. QED
    BY <1>1, <1>2, <1>3, <1>4, <2>1, <2>2 DEF OrderInv, ReaderInv, Empty
<1>6. QED
  BY <1>1, <1>5, ReaderOnly DEF OrderInv

(* A new reader starts at or before the event the old one was to yield.    *)
LEMMA ReconnectOrder ==
    ASSUME TypeOK, Sound, OrderInv, Reconnect PROVE OrderInv'
<1>1. /\ UNCHANGED <<log, logFile, notifyVars, migrate, start, eventsChannel, hint>>
      /\ current'.file = current.file
      /\ next' \in 1 .. Len(log) + 1 /\ IsFirstOf(next', current.file)
  BY DEF Reconnect, Recovers, serverVars
<1> DEFINE f == current.file
<1>2. /\ Len(log) \in Nat /\ DOMAIN log = 1..Len(log) /\ next \in 1 .. Len(log) + 1
      /\ f \in FirstFile..logFile /\ f \in Nat
      /\ \A i \in 1..Len(log) : log[i].file \in Nat
  BY LogType DEF OrderInv, ReaderInv, TypeOK, FirstFile
<1>3. /\ \A j \in 1 .. next' - 1 : log[j].file < f
      /\ next' <= Len(log) => log[next'].file >= f
  BY <1>1 DEF IsFirstOf
<1>4. next' <= next
  <2> SUFFICES ASSUME next < next' PROVE FALSE
    BY <1>1, <1>2
  <2>1. next \in 1..Len(log) /\ next \in 1 .. next' - 1
    <3> DEFINE n == Len(log)
    <3>1. next' \in 1 .. n + 1 /\ next \in 1 .. n + 1 /\ n \in Nat
      BY <1>1, <1>2
    <3> HIDE DEF n
    <3>2. \A a, b \in 1 .. n + 1 : a < b => a \in 1..n /\ a \in 1 .. b - 1
      BY <3>1
    <3>3. next \in 1..n /\ next \in 1 .. next' - 1
      BY <3>1, <3>2
    <3>4. QED
      BY <3>3 DEF n
  <2>2. log[next].file < f /\ f <= log[next].file
    BY <1>2, <1>3, <2>1 DEF OrderInv, ReaderInv
  <2>3. QED
    BY <1>2, <2>1, <2>2
<1>5. \A i \in 1..Len(log) : IF i < next' THEN log[i].file <= f ELSE f <= log[i].file
  <2> SUFFICES ASSUME NEW i \in 1..Len(log)
               PROVE  IF i < next' THEN log[i].file <= f ELSE f <= log[i].file
    OBVIOUS
  <2>1. CASE i < next'
    BY <1>1, <1>2, <1>3, <2>1
  <2>2. CASE ~(i < next')
    <3>1. next' \in 1..Len(log) /\ next' <= i
      BY <1>1, <1>2, <2>2
    <3>2. log[next'].file <= log[i].file
      BY <3>1, LogOrder DEF OrderInv
    <3>3. QED
      BY <1>2, <1>3, <2>2, <3>1, <3>2
  <2>3. QED
    BY <2>1, <2>2
<1>6. Sent' = Sent /\ Coordinates(Sent)' = Coordinates(Sent) /\ Sent \in Nat
  BY <1>1, ReaderOnly, SentType
<1>7. ReaderInv'
  <2>1. IF hint = Empty THEN Sent = NoEntry
        ELSE Sent # NoEntry /\ hint = Coordinates(Sent) /\ next <= Sent + 1
    BY DEF OrderInv, ReaderInv
  <2>2. hint # Empty => next' <= Sent + 1
    BY <1>1, <1>2, <1>4, <1>6, <2>1
  <2> HIDE DEF f
  <2>3. current'.file = f
    BY <1>1 DEF f
  <2>4. QED
    BY <1>1, <1>2, <1>5, <1>6, <2>1, <2>2, <2>3 DEF ReaderInv, Empty
<1>8. QED
  BY <1>1, <1>7, ReaderOnly DEF OrderInv

(* What is skipped was passed on; what is not is the entry after the last. *)
LEMMA RowsOrder ==
    ASSUME TypeOK, Sound, OrderInv, handleRowsEvent PROVE OrderInv'
<1> USE DEF NoEntry
<1>1. /\ UNCHANGED <<log, logFile, notifyVars, migrate, start>>
      /\ next <= Len(log) /\ log[next].file = current.file
      /\ current' = [file |-> current.file, pos |-> log[next].pos]
      /\ next' = next + 1
  BY DEF handleRowsEvent, GetsEvent, serverVars
<1>2. /\ Len(log) \in Nat /\ DOMAIN log = 1..Len(log)
      /\ next \in 1..Len(log) /\ next \in Nat
      /\ \A i \in 1..Len(log) : log[i].file \in Nat
      /\ Sent \in 0..Len(log)
      /\ Sent \in Nat
  BY <1>1, LogType, SentType DEF TypeOK
<1>3. current' = Coordinates(next) /\ current'.file = current.file
  BY <1>1 DEF Coordinates
<1>4. \A i \in 1..Len(log) : IF i < next' THEN log[i].file <= current.file
                                          ELSE current.file <= log[i].file
  <2> SUFFICES ASSUME NEW i \in 1..Len(log)
               PROVE  IF i < next + 1 THEN log[i].file <= current.file
                                      ELSE current.file <= log[i].file
    BY <1>1
  <2>1. i = next \/ (i < next /\ i < next + 1) \/ (~(i < next) /\ ~(i < next + 1))
    BY <1>2
  <2>2. i = next => log[i].file <= current.file
    BY <1>1, <1>2
  <2>3. IF i < next THEN log[i].file <= current.file ELSE current.file <= log[i].file
    BY <1>2 DEF OrderInv, ReaderInv
  <2>4. i = next => i < next + 1
    BY <1>2
  <2>5. QED
    BY <2>1, <2>2, <2>3, <2>4
<1>5. current.file \in FirstFile..logFile
  BY DEF OrderInv, ReaderInv
<1>6. IF hint = Empty THEN Sent = 0
      ELSE Sent \in 1..Len(log) /\ hint = Coordinates(Sent) /\ next <= Sent + 1
  BY <1>2 DEF OrderInv, ReaderInv
<1>7. CASE SmallerThanOrEquals(current', hint) /\ UNCHANGED <<hint, eventsChannel>>
  <2>1. hint # Empty
    BY <1>2, <1>3, <1>7, LogOrder DEF OrderInv
  <2>2. next <= Sent
    BY <1>2, <1>3, <1>6, <1>7, <2>1, LogOrder DEF OrderInv
  <2>3. LogInv' /\ ChannelInv' /\ DeliveredInv' /\ Sent' = Sent
                /\ Coordinates(Sent)' = Coordinates(Sent)
    BY <1>1, <1>7, ReaderOnly
  <2>4. next' <= Sent + 1 /\ Sent # 0
    BY <1>1, <1>2, <2>2
  <2>5. hint' = hint /\ hint = Coordinates(Sent)
    BY <1>6, <1>7, <2>1
  <2>6. ReaderInv'
    BY <1>1, <1>2, <1>3, <1>4, <1>5, <2>1, <2>3, <2>4, <2>5 DEF ReaderInv, Empty
  <2>7. QED
    BY <2>3, <2>6 DEF OrderInv
<1>8. CASE /\ ~SmallerThanOrEquals(current', hint) /\ hint' = current'
           /\ Len(eventsChannel) < EventsChannelBufferSize
           /\ eventsChannel' = Append(eventsChannel, next)
  <2>1. eventsChannel = <<>>
    <3>1. Len(eventsChannel) \in Nat /\ (eventsChannel = <<>> <=> Len(eventsChannel) = 0)
      BY SentType DEF TypeOK
    <3>2. QED
      BY <1>8, <3>1 DEF EventsChannelBufferSize
  <2>2. eventsChannel' # <<>> /\ eventsChannel'[1] = next
    BY <1>8, <2>1
  <2>3. Sent = IF notifying # 0 THEN notifying ELSE notified
    BY <2>1 DEF Sent
  <2>4. Sent # 0 => next = Sent + 1
    <3> SUFFICES ASSUME Sent # 0 PROVE next = Sent + 1
      OBVIOUS
    <3>1. hint = Coordinates(Sent) /\ next <= Sent + 1 /\ Sent \in 1..Len(log)
      BY <1>6
    <3>2. ~(next <= Sent)
      BY <1>2, <1>3, <1>8, <3>1, LogOrder DEF OrderInv
    <3>3. QED
      BY <1>2, <3>1, <3>2
  <2>5. Sent' = next
    BY <2>2 DEF Sent
  <2>6. Coordinates(Sent)' = Coordinates(next) /\ Coordinates(next) # Empty
    <3>1. Coordinates(next) # Empty
      BY <1>2, LogOrder DEF OrderInv
    <3>2. QED
      BY <1>1, <2>5, <3>1 DEF Coordinates
  <2>7. hint' = Coordinates(next) /\ next' <= next + 1 /\ next # 0
    BY <1>1, <1>2, <1>3, <1>8
  <2>8. ReaderInv'
    BY <1>1, <1>2, <1>3, <1>4, <1>5, <2>5, <2>6, <2>7 DEF ReaderInv, Empty
  <2>9. ChannelInv'
    BY <1>1, <2>2, <2>3, <2>4 DEF OrderInv, ChannelInv, notifyVars
  <2>10. LogInv'
    BY <1>1, SameLogOrder
  <2>11. DeliveredInv'
    BY <1>1 DEF OrderInv, DeliveredInv, notifyVars
  <2>12. QED
    BY <2>8, <2>9, <2>10, <2>11 DEF OrderInv
<1>9. QED
  BY <1>7, <1>8 DEF handleRowsEvent

LEMMA NextOrder ==
    ASSUME TypeOK, Sound, OrderInv, [Next]_vars PROVE OrderInv'
<1>1. ASSUME NEW kind \in {"dml", "other"}, WriteRows(kind) PROVE OrderInv'
  <2>1. kind \in Kind
    BY DEF Kind
  <2>2. QED
    BY <1>1, <2>1, WriteOrder DEF WriteRows, notifyVars, readerVars
<1>2. CASE initiateApplier
  BY <1>2, WriteOrder DEF initiateApplier, MigrateStep, Kind
<1>3. CASE FlushLogs
  <2>1. /\ UNCHANGED <<log, readerVars, eventsChannel, notifyVars, migrate, start>>
        /\ logFile' = logFile + 1 /\ logFile \in Nat
        /\ \A i \in DOMAIN log : log[i].file \in Nat
    BY <1>3, LogType DEF FlushLogs, TypeOK, FirstFile
  <2>2. current.file \in FirstFile..logFile => current.file \in FirstFile..logFile'
    BY <2>1 DEF FirstFile
  <2>3. \A i \in DOMAIN log : log[i].file <= logFile => log[i].file <= logFile'
    BY <2>1
  <2>4. LogInv'
    BY <2>1, <2>3 DEF OrderInv, LogInv
  <2>5. Sent' = Sent /\ Coordinates(Sent)' = Coordinates(Sent)
    BY <2>1 DEF Sent, Coordinates, notifyVars
  <2>6. ReaderInv'
    BY <2>1, <2>2, <2>5 DEF OrderInv, ReaderInv, readerVars, Empty
  <2>7. QED
    BY <2>1, <2>4, <2>6 DEF OrderInv, ChannelInv, DeliveredInv, notifyVars
<1>4. CASE GetEventFails \/ GiveUp \/ UNCHANGED vars
  <2>1. /\ UNCHANGED <<log, logFile, notifyVars, migrate, start, eventsChannel>>
        /\ UNCHANGED <<next, current, hint>>
    BY <1>4 DEF GetEventFails, GetsEvent, GiveUp, Recovers, vars, serverVars, readerVars
  <2>2. QED
    BY <2>1, ReaderOnly DEF OrderInv, ReaderInv, Empty
<1>5. QED
  BY <1>1, <1>2, <1>3, <1>4, RotateOrder, RowsOrder, ReconnectOrder, ReceiveOrder, NotifiedOrder,
     MigrateOrder DEF Next, StreamEvents, notifyListeners

(* The reader's place, the channel and what was delivered fit together,    *)
(* however often the stream breaks.                                        *)
THEOREM StreamerInvariant == Spec => []IInv
<1>1. Init => IInv
  BY InitType, InitOrder DEF IInv, OrderInv
<1>2. IInv /\ [Next]_vars => IInv'
  <2> SUFFICES ASSUME IInv, [Next]_vars PROVE IInv'
    OBVIOUS
  <2>1. TypeOK' /\ RetriesInv'
    BY NextType DEF IInv
  <2>2. Sound => LogInv' /\ ReaderInv' /\ ChannelInv' /\ DeliveredInv'
    BY NextOrder DEF IInv, OrderInv
  <2>3. Sound' <=> Sound
    BY DEF Sound
  <2>4. QED
    BY <2>1, <2>2, <2>3 DEF IInv
<1>3. QED
  BY <1>1, <1>2, PTL DEF Spec

-----------------------------------------------------------------------------
(* The streamer implements EventLog.                                       *)

OfTable == [i \in DOMAIN log |-> log[i].kind = "dml"]

LEMMA OfTableType ==
    ASSUME TypeOK
    PROVE  OfTable \in Seq(BOOLEAN) /\ Len(OfTable) = Len(log) /\ DOMAIN OfTable = 1..Len(log)
BY LogType DEF OfTable

LEMMA WriteIsWrite ==
    ASSUME TypeOK, NEW kind \in Kind, log' = Written(kind), UNCHANGED <<start, delivered>>
    PROVE  Promise!Write
<1> DEFINE b == kind = "dml"
           n == Len(log)
<1>1. /\ n \in Nat /\ DOMAIN log = 1..n /\ DOMAIN log' = 1 .. n + 1
      /\ \A i \in 1..n : log'[i] = log[i]
      /\ log'[n + 1].kind = kind
  BY LogType, WrittenType
<1>2. OfTable \in Seq(BOOLEAN) /\ Len(OfTable) = n
  BY OfTableType
<1>3. OfTable' = [i \in 1 .. n + 1 |-> log'[i].kind = "dml"]
  BY <1>1 DEF OfTable
<1>4. Append(OfTable, b) = [i \in 1 .. n + 1 |-> IF i = n + 1 THEN b ELSE OfTable[i]]
  BY <1>1, <1>2
<1>5. \A i \in 1 .. n + 1 : (log'[i].kind = "dml") = IF i = n + 1 THEN b ELSE OfTable[i]
  BY <1>1 DEF OfTable
<1>6. OfTable' = Append(OfTable, b)
  BY <1>3, <1>4, <1>5
<1>7. QED
  BY <1>6 DEF Promise!Write, OfTable

(* The last entry delivered, and the one that is: nothing is in between.   *)
LEMMA DeliverIsNext ==
    ASSUME TypeOK, Sound, OrderInv, notifyOriginalTable, start # None PROVE Promise!Deliver
<1> DEFINE last == IF delivered = <<>> THEN start ELSE delivered[Len(delivered)]
<1>1. /\ notifying # NoEntry /\ notifying \in 1..Len(log) /\ log[notifying].kind = "dml"
      /\ delivered' = Append(delivered, notifying) /\ UNCHANGED <<log, start>>
  BY DEF notifyOriginalTable, Notified, TypeOK, NoEntry, serverVars
<1>2. notified \in Nat /\ notifying = notified + 1
  BY <1>1, NotifyingIsNext
<1>3. last <= notified /\ \A i \in last + 1 .. notified : log[i].kind # "dml"
  BY DEF OrderInv, DeliveredInv
<1>4. last \in Nat
  <2>1. delivered # <<>> => delivered[Len(delivered)] \in 1..Len(log)
    BY DEF TypeOK
  <2>2. start \in Nat
    BY LogType DEF TypeOK
  <2>3. QED
    BY <2>1, <2>2
<1>5. \A i \in last + 1 .. notifying - 1 : i \in 1..Len(log) /\ i \in last + 1 .. notified
  BY <1>1, <1>2, <1>4, LogType
<1>6. notifying \in DOMAIN OfTable /\ OfTable[notifying]
  BY <1>1, LogType DEF OfTable
<1>7. \A i \in last + 1 .. notifying - 1 : ~OfTable[i]
  BY <1>3, <1>5, LogType DEF OfTable
<1>8. notifying > last
  BY <1>2, <1>3, <1>4
<1>9. OfTable' = OfTable
  BY <1>1 DEF OfTable
<1>10. QED
  BY <1>1, <1>6, <1>7, <1>8, <1>9 DEF Promise!Deliver, Promise!Last, OfTable

(* Unless positions wrap around or a file name gets a digit more, the      *)
(* listener is given every event once and in order, for any number of      *)
(* events, files, retries and broken connections.                          *)
THEOREM StreamerImplementsEventLog == Sound /\ Spec => EveryEventOnce
<1> SUFFICES ASSUME Sound PROVE Spec => EveryEventOnce
  OBVIOUS
<1>1. Init => Promise!Init
  BY InitType, OfTableType DEF Init, Promise!Init, OfTable
<1>2. TypeOK /\ OrderInv /\ [Next]_vars => [Promise!Next]_(Promise!vars)
  <2> SUFFICES ASSUME TypeOK, OrderInv, [Next]_vars PROVE [Promise!Next]_(Promise!vars)
    OBVIOUS
  <2> USE DEF Promise!Next
  <2>1. ASSUME NEW kind \in {"dml", "other"}, WriteRows(kind) PROVE Promise!Write
    BY <2>1, WriteIsWrite DEF WriteRows, Kind, notifyVars
  <2>2. CASE initiateApplier
    BY <2>2, WriteIsWrite DEF initiateApplier, MigrateStep, Kind, notifyVars
  <2>3. CASE addDMLEventsListener
    <3>1. start = None /\ start' \in 0..Len(log) /\ UNCHANGED <<log, delivered>>
      BY <2>3 DEF addDMLEventsListener, MigrateStep, TypeOK, OrderInv, DeliveredInv, notifyVars
    <3>2. Len(OfTable) = Len(log) /\ OfTable' = OfTable
      BY <3>1, OfTableType DEF OfTable
    <3>3. Promise!Subscribe
      BY <3>1, <3>2 DEF Promise!Subscribe, OfTable
    <3>4. QED
      BY <3>3
  <2>4. CASE notifyOriginalTable /\ start # None
    BY <2>4, DeliverIsNext
  <2>5. CASE UNCHANGED <<log, start, delivered>>
    BY <2>5 DEF Promise!vars
  <2>6. CASE \/ FlushLogs \/ GetRotateEvent \/ handleRowsEvent \/ Reconnect \/ GiveUp
             \/ GetEventFails \/ ReceiveEntry \/ notifyNobody \/ onChangelogStateEvent \/ cutOver
             \/ notifyOriginalTable /\ start = None
             \/ UNCHANGED vars
    <3>1. UNCHANGED <<log, start, delivered>>
      BY <2>6 DEF FlushLogs, GetRotateEvent, handleRowsEvent, Reconnect, GiveUp, GetEventFails,
            GetsEvent, Recovers, ReceiveEntry, notifyNobody, onChangelogStateEvent, cutOver,
            notifyOriginalTable, Notified, MigrateStep, vars, serverVars, notifyVars
    <3>2. QED
      BY <2>5, <3>1
  <2>7. QED
    BY <2>1, <2>2, <2>3, <2>4, <2>6 DEF Next, StreamEvents, notifyListeners
<1>3. IInv => TypeOK /\ OrderInv
  BY DEF IInv, OrderInv
<1>4. QED
  BY <1>1, <1>2, <1>3, StreamerInvariant, PTL DEF Spec, EveryEventOnce, Promise!Spec
=============================================================================

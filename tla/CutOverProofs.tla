---------------------------- MODULE CutOverProofs ----------------------------
(***************************************************************************)
(* Proofs about CutOver for any number of attempts and writes, any         *)
(* capacity of the queue, and any set of faults.                           *)
(***************************************************************************)
EXTENDS CutOver, SequenceTheorems, TLAPS

Atomic  == cutOverType = "atomic"
TwoStepKind == cutOverType = "two-step"

(* Where AtomicCutOverMagicLock is before, and while, it may have the lock. *)
Locking == {"begin", "check", "clear", "create", "lock"}
Holding == {"locked", "drop", "unlock"}

(* Where atomicCutOver is before, and while, its RENAME is on the way.     *)
BeforeRename == {"challenge", "waiting", "rename"}
Renaming     == {"renameId", "expect", "expectLock", "release", "unlocked", "renamed"}

(* What the two kinds of cut-over have for themselves.                     *)
AtomicPlaces  == Renaming \cup {"locking", "rename", "leave", "checkSentry", "dropSentry", "gaveUp"}
TwoStepPlaces == {"lockTable", "renameOriginal", "renameGhost", "unlockTables", "aborted"}

Message == {"ok", "error", "id", "none"}
HasOk(s) == \E i \in DOMAIN s : s[i] = "ok"

-----------------------------------------------------------------------------
(* The inductive invariant, whatever fails.                                *)

Untouched(a) ==
    /\ locker[a] = "off" /\ renamer[a] = "off" /\ server[a] = "none"
    /\ \A c \in Channels : chan[a][c] = <<>>

(* Each kind keeps to its steps; attempts to come are untouched.           *)
ControlInv ==
    /\ attempt = 0 => main = "retry"
    /\ \A a \in Attempt : a > attempt \/ TwoStepKind => Untouched(a)
    /\ main \in TwoStepPlaces => TwoStepKind
    /\ main \in AtomicPlaces => Atomic
    /\ TwoStepKind => attempt \in {0, 1} /\ (main = "retry" => attempt = 0)

(* The queue's write number i is before its place p.                       *)
InQueue(i, p) == \E q \in 1 .. p - 1 : queue[q] = i

(* Events and challenges keep their order: what is before a challenge in   *)
(* the log is applied when the executor sends the challenge on.            *)
Arrives(i, p) == i \in applied \/ InQueue(i, p)

PipelineInv ==
    /\ \A i \in Writes : i <= read => Arrives(i, Len(queue) + 1)
    /\ \A p \in DOMAIN queue : log[queue[p]] # AppWrite =>
           \A i \in Writes : i < queue[p] => Arrives(i, p)
    /\ sending # 0 => log[sending] # AppWrite /\ \A i \in Writes : i < sending => i \in applied
    /\ \A j \in async : log[j] # AppWrite /\ j <= read

(* What waits in the queue, challenges aside, waits in the order of the    *)
(* log, and behind what has been applied.                                  *)
OrderInv ==
    /\ \A p \in DOMAIN queue : queue[p] <= read
    /\ \A i \in applied : i <= read
    /\ \A p \in DOMAIN queue : queue[p] \in Writes =>
          /\ \A q \in 1 .. p - 1 : queue[q] \in Writes => queue[q] < queue[p]
          /\ \A i \in applied : i < queue[p]

(* AtomicCutOverMagicLock: locks are taken while the migrator waits for    *)
(* them, before the attempt's challenge is written.                        *)
LockerOf(a) ==
    /\ locker[a] \in Locking => a = attempt /\ main = "locking"
    /\ locker[a] \in Locking \ {"begin"} => alive[a]
    /\ lockHolder = a <=> alive[a] /\ locker[a] \in Holding
    /\ locker[a] \in Locking \cup {"off"} =>
           /\ chan[a].tableLocked = <<>> /\ chan[a].tableUnlocked = <<>>
           /\ \A j \in DOMAIN log : log[j] # a
    /\ locker[a] \in Holding => Len(chan[a].tableLocked) <= 1 /\ chan[a].tableUnlocked = <<>>
    /\ Len(chan[a].tableLocked) <= 2 /\ Len(chan[a].tableUnlocked) <= 2
    /\ a = attempt /\ main \in BeforeRename => locker[a] \notin Locking \cup {"off"}

LockerInv == Atomic => \A a \in Attempt : LockerOf(a)

(* AtomicCutoverRename: "ok" comes from a RENAME that has swapped.         *)
RenamerOf(a) ==
    /\ a = attempt /\ main \in BeforeRename \cup {"locking"} => renamer[a] = "off"
    /\ renamer[a] = "begin" => a = attempt /\ main = "renameId"
    /\ renamer[a] \in {"off", "begin"} => chan[a].renameSessionId = <<>>
    /\ renamer[a] \in {"issue", "issued"} => Len(chan[a].renameSessionId) <= 1
    /\ Len(chan[a].renameSessionId) <= 2
    /\ renamer[a] # "exited" => chan[a].tablesRenamed = <<>>
    /\ Len(chan[a].tablesRenamed) <= 2
    /\ renamer[a] \in {"off", "begin", "issue"} => server[a] = "none"
    /\ renameKnownToHaveFailed[a] => renamer[a] = "exited"
    /\ server[a] = "ok" => swapped
    /\ HasOk(chan[a].tablesRenamed) => server[a] = "ok"

RenamerInv == Atomic => \A a \in Attempt : RenamerOf(a)

(* How often atomicCutOver has told attempt a to unlock.                   *)
Told(a) ==
    IF a < attempt \/ main \in {"checkSentry", "dropSentry", "retry", "done", "gaveUp"} THEN 2
    ELSE IF main \in {"unlocked", "renamed", "leave"} THEN 1 ELSE 0

(* AtomicCutoverRename tells it as well, once, if it fails.                *)
Allowed(a) == Told(a) + (IF renamer[a] = "exited" THEN 1 ELSE 0)

TellInv == Atomic => \A a \in Attempt : Len(chan[a].okToUnlockTable) <= Allowed(a)

(* What is reported, and what there is by which name.                      *)
OutcomeInv ==
    /\ outcome = "ok" => swapped /\ main \in {"leave", "checkSentry", "dropSentry", "done"}
    /\ main = "done" => swapped
    /\ Atomic /\ del = "old" => swapped
    /\ TwoStepKind =>
        /\ del \in {"none", "old"} /\ (swapped => del = "old")
        /\ main = "renameGhost" => ~swapped /\ del = "old"
        /\ main = "unlockTables" => swapped
        /\ del = "old" => main \in {"renameOriginal", "renameGhost", "unlockTables", "done", "aborted"}

(* While a lock is held, every write is before the challenge written under *)
(* it.                                                                     *)
ChallengeInv ==
    /\ TwoStepKind /\ main \in {"retry", "lockTable"} => \A j \in DOMAIN log : log[j] = AppWrite
    /\ TwoStepKind /\ main = "renameGhost" => lockHolder = NoOne
    /\ lockHolder # NoOne => \A i \in Writes, j \in DOMAIN log :
           log[j] # AppWrite /\ (Atomic => log[j] = lockHolder) => i < j
    /\ EventsUpToLockProcessed

-----------------------------------------------------------------------------
(* What holds unless RENAME is issued late, or the connection of the       *)
(* two-step cut-over is replaced unnoticed.                                *)

Sound == faults \cap {"slowRename", "reconnect"} = {}

(* A RENAME that may still be executed.                                    *)
Pending(a) == renamer[a] \in {"begin", "issue"} \/ server[a] = "waiting"

(* The sentry table stays until the lock's holder drops it ...             *)
SentryOf(a) ==
    /\ locker[a] = "lock" =>
          /\ ~RenameWaits /\ del = "sentry"
          /\ \A b \in Attempt : lockHolder = b => locker[b] = "unlock"
    /\ lockHolder = a /\ locker[a] \in {"locked", "drop"} => del = "sentry"
    /\ a = attempt /\ locker[a] = "locked" /\ main \in BeforeRename \cup {"locking"} => ~RenameWaits
    /\ a = attempt /\ locker[a] = "locked" /\ main \in BeforeRename \cup {"locking", "renameId", "expect"} =>
          lockHolder \in {a, NoOne} /\ del = "sentry"

SentryInv == Sound /\ Atomic => \A a \in Attempt : SentryOf(a)

(* ... which it is not told to before RENAME is issued.                    *)
WaitOf(a) ==
    /\ renamer[a] \in {"begin", "issue"} =>
          /\ a = attempt /\ main \in {"renameId", "expect"}
          /\ locker[a] = "locked" /\ chan[a].okToUnlockTable = <<>>
    /\ a = attempt /\ main \in BeforeRename \cup {"locking"} =>
          chan[a].okToUnlockTable = <<>>
    /\ a = attempt /\ main \in BeforeRename => locker[a] = "locked"
    /\ a = attempt /\ main = "locking" /\ chan[a].tableLocked # <<>>
          /\ Head(chan[a].tableLocked) = "ok" => locker[a] = "locked"

WaitInv == Sound /\ Atomic => \A a \in Attempt : WaitOf(a)

(* Only one RENAME is under way, and when neither lock nor sentry stop it, *)
(* it has been keeping the application out since the lock.                 *)
PendingOf(a) ==
    /\ \A b \in Attempt : b # a => ~Pending(b)
    /\ lockHolder \in {a, NoOne}
    /\ lockHolder = a => applied = Writes
    /\ lockHolder = NoOne /\ del = "none" => server[a] = "waiting" /\ applied = Writes

PendingInv == Sound /\ Atomic => \A a \in Attempt : Pending(a) => PendingOf(a)

(* The lock of the two-step cut-over is there until the first rename.      *)
TwoStepInv == Sound /\ TwoStepKind =>
    /\ main \in {"challenge", "waiting"} => lockHolder = attempt
    /\ main = "renameOriginal" => lockHolder = attempt \/ del = "old"
    /\ del = "old" => applied = Writes

-----------------------------------------------------------------------------
(* What holds if nothing goes wrong but timeouts and the beginning of a    *)
(* transaction: the RENAME of an attempt that fails has failed.            *)
Calm == faults \subseteq {"begin"}

(* The connection with the lock lives, and UNLOCK TABLES succeeds.         *)
AliveOf(a) ==
    /\ locker[a] \in Holding => alive[a]
    /\ a = attempt /\ main \in BeforeRename \cup Renaming /\ main # "renamed" =>
          /\ alive[a]
          /\ chan[a].tableUnlocked # <<>> => Head(chan[a].tableUnlocked) = "ok"

AliveInv == Calm /\ Atomic => \A a \in Attempt : AliveOf(a)

(* No RENAME outlives its attempt, and the attempt learns how it ended.    *)
FailureOf(a) ==
    /\ server[a] \in {"waiting", "ok"} => a = attempt
    /\ server[a] = "waiting" => renamer[a] = "issued" /\ main \in Renaming
    /\ server[a] = "waiting" /\ main \notin {"unlocked", "renamed"} =>
          lockHolder = a /\ locker[a] = "locked" /\ chan[a].okToUnlockTable = <<>>
    /\ server[a] = "ok" => main \in {"unlocked", "renamed"} \/ outcome = "ok"
    /\ a = attempt /\ main \in Renaming /\ chan[a].tablesRenamed # <<>>
          /\ Head(chan[a].tablesRenamed) # "ok" => server[a] = "error"

FailureInv == Calm /\ Atomic => \A a \in Attempt : FailureOf(a)

SwapperInv == Calm /\ Atomic /\ swapped => \E a \in Attempt : server[a] = "ok"

(* The old table stays, once it is there.                                  *)
OldInv == Calm /\ Atomic =>
    /\ swapped => del = "old"
    /\ main = "dropSentry" => ~swapped

AbortInv == Calm /\ TwoStepKind /\ main \in {"renameOriginal", "aborted"} => del = "none"

IInv ==
    /\ TypeOK /\ ControlInv /\ PipelineInv /\ OrderInv /\ LockerInv /\ RenamerInv /\ TellInv
    /\ OutcomeInv /\ ChallengeInv
    /\ SentryInv /\ WaitInv /\ PendingInv /\ TwoStepInv
    /\ AliveInv /\ FailureInv /\ SwapperInv /\ AbortInv /\ OldInv

(* A step that takes the original table away from its name, or puts the    *)
(* ghost table there.                                                      *)
Swaps == swapped' # swapped \/ (del' = "old" /\ del # "old")

-----------------------------------------------------------------------------
(* Types, variables by variables.                                          *)

TableType ==
    /\ swapped \in BOOLEAN /\ del \in {"none", "sentry", "old"}
    /\ lockHolder \in Attempt \cup {NoOne}
    /\ alive \in [Attempt -> BOOLEAN]
    /\ server \in [Attempt -> {"none", "waiting", "ok", "error"}]

PipeType ==
    /\ log \in Seq(Attempt \cup {AppWrite}) /\ read \in 0..Len(log)
    /\ async \subseteq DOMAIN log
    /\ queue \in Seq(DOMAIN log) /\ Len(queue) <= QueueCapacity
    /\ sending \in 0..Len(log) /\ applied \subseteq Writes

MainType ==
    /\ attempt \in 0..MaxAttempts /\ tries \in 0 .. MaxAttempts - 1
    /\ main \in AtomicPlaces \cup TwoStepPlaces \cup {"retry", "challenge", "waiting", "done"}
    /\ outcome \in {"none", "ok", "error"}

GoType ==
    /\ locker \in [Attempt -> Locking \cup Holding \cup {"off", "exited"}]
    /\ renamer \in [Attempt -> {"off", "begin", "issue", "issued", "exited"}]
    /\ renameKnownToHaveFailed \in [Attempt -> BOOLEAN]

ChanType == chan \in [Attempt -> [Channels -> Seq(Message)]]

GivenType == cutOverType \in CutOverTypes /\ faults \in FaultChoices

(* The type invariant of CutOver is that of these groups of variables.     *)
LEMMA TypeParts ==
    TypeOK <=> GivenType /\ TableType /\ PipeType /\ MainType /\ GoType /\ ChanType
<1> USE DEF TypeOK, GivenType, TableType, PipeType, MainType, GoType, ChanType, Message
<1>1. main \in {"retry", "locking", "challenge", "waiting", "rename", "renameId",
                "expect", "expectLock", "release", "unlocked", "renamed", "leave",
                "checkSentry", "dropSentry", "done", "gaveUp", "lockTable",
                "renameOriginal", "renameGhost", "unlockTables", "aborted"} <=>
      main \in AtomicPlaces \cup TwoStepPlaces \cup {"retry", "challenge", "waiting", "done"}
    BY DEF AtomicPlaces, TwoStepPlaces, Renaming
<1>2. {"off", "begin", "check", "clear", "create", "lock", "locked", "drop", "unlock", "exited"}
        = Locking \cup Holding \cup {"off", "exited"}
    BY DEF Locking, Holding
<1> HIDE DEF Message
<1>3. Message = {"ok", "error", "id", "none"}
    BY DEF Message
<1> QED
    BY <1>1, <1>2, <1>3

-----------------------------------------------------------------------------
(* What steps do to channels, as far as the invariants look at them.       *)

Appended(old, new, messages) ==
    /\ Len(new) = Len(old) + Len(messages)
    /\ old = <<>> => new = messages
    /\ old # <<>> => new # <<>> /\ Head(new) = Head(old)
    /\ HasOk(new) => HasOk(old) \/ HasOk(messages)

(* Nothing but the channels cs of attempt a changes.                       *)
OnlyThese(a, cs) == \A b \in Attempt, c \in Channels :
    b # a \/ c \notin cs => chan'[b][c] = chan[b][c]

Sends(a, c, messages) == Appended(chan[a][c], chan'[a][c], messages)

Receives(a, c) ==
    /\ OnlyThese(a, {c})
    /\ chan[a][c] # <<>> /\ Head(chan[a][c]) \in Message
    /\ Len(chan'[a][c]) = Len(chan[a][c]) - 1
    /\ HasOk(chan'[a][c]) => HasOk(chan[a][c])
    /\ Head(chan[a][c]) = "ok" => HasOk(chan[a][c])

(* Appending to a channel, in terms of what the invariants look at.        *)
LEMMA Concatenated ==
    ASSUME NEW s \in Seq(Message), NEW t \in Seq(Message)
    PROVE  s \o t \in Seq(Message) /\ Appended(s, s \o t, t)
<1>1. s \o t \in Seq(Message) /\ Len(s \o t) = Len(s) + Len(t)
    OBVIOUS
<1>2. ASSUME s = <<>>
      PROVE  s \o t = t
    BY <1>2, ConcatEmptySeq
<1>3. \A i \in 1 .. Len(s) + Len(t) : (s \o t)[i] = IF i <= Len(s) THEN s[i] ELSE t[i - Len(s)]
    BY ConcatProperties
<1>4. ASSUME s # <<>>
      PROVE  s \o t # <<>> /\ Head(s \o t) = Head(s)
    <2>1. Len(s) \in Nat /\ Len(s) > 0 /\ Len(t) \in Nat
        BY <1>4
    <2>2. (s \o t)[1] = s[1] /\ Len(s \o t) > 0
        BY <1>1, <1>3, <2>1
    <2> QED
        BY <1>1, <2>1, <2>2
<1>5. ASSUME NEW i \in DOMAIN (s \o t), (s \o t)[i] = "ok"
      PROVE  HasOk(s) \/ HasOk(t)
    <2>1. i \in 1 .. Len(s) + Len(t) /\ Len(s) \in Nat /\ Len(t) \in Nat
        BY <1>1, <1>5
    <2>2. CASE i <= Len(s)
        BY <1>3, <1>5, <2>1, <2>2 DEF HasOk
    <2>3. CASE i > Len(s)
        <3>1. i - Len(s) \in 1..Len(t) /\ t[i - Len(s)] = "ok"
            BY <1>3, <1>5, <2>1, <2>3
        <3> QED
            BY <3>1 DEF HasOk
    <2> QED
        BY <2>1, <2>2, <2>3
<1>6. HasOk(s \o t) => HasOk(s) \/ HasOk(t)
    BY <1>5 DEF HasOk
<1> QED
    BY <1>1, <1>2, <1>4, <1>6 DEF Appended

(* Sent appends to some channels of one attempt.                           *)
LEMMA SentGrows ==
    ASSUME ChanType, NEW a \in Attempt, NEW sent, chan' = Sent(a, sent),
           \A c \in Channels : c \in DOMAIN sent => sent[c] \in Seq(Message)
    PROVE  /\ ChanType'
           /\ OnlyThese(a, DOMAIN sent)
           /\ \A c \in Channels : c \in DOMAIN sent => Sends(a, c, sent[c])
<1> DEFINE New == [c \in Channels |-> IF c \in DOMAIN sent THEN chan[a][c] \o sent[c] ELSE chan[a][c]]
<1>1. chan' = [chan EXCEPT ![a] = New]
    BY DEF Sent, ChanType
<1>2. ASSUME NEW c \in Channels, c \in DOMAIN sent
      PROVE  New[c] \in Seq(Message) /\ Appended(chan[a][c], New[c], sent[c])
    <2>1. chan[a][c] \in Seq(Message) /\ sent[c] \in Seq(Message)
        BY <1>2 DEF ChanType
    <2>2. New[c] = chan[a][c] \o sent[c]
        BY <1>2
    <2> HIDE DEF New
    <2> QED
        BY <2>1, <2>2, Concatenated
<1>3. New \in [Channels -> Seq(Message)]
    BY <1>2 DEF ChanType
<1>4. \A c \in Channels : c \notin DOMAIN sent => New[c] = chan[a][c]
    OBVIOUS
<1> HIDE DEF New
<1>5. ChanType' /\ chan'[a] = New /\ \A b \in Attempt : b # a => chan'[b] = chan[b]
    BY <1>1, <1>3 DEF ChanType
<1> QED
    BY <1>2, <1>4, <1>5 DEF OnlyThese, Sends

(* Received takes the head of one channel of one attempt.                  *)
LEMMA ReceivedShrinks ==
    ASSUME ChanType, NEW a \in Attempt, NEW c \in Channels, chan[a][c] # <<>>,
           chan' = [chan EXCEPT ![a][c] = Tail(@)]
    PROVE  ChanType' /\ Receives(a, c)
<1> DEFINE s == chan[a][c]
<1>1. s \in Seq(Message) /\ Len(s) \in Nat /\ Len(s) > 0
    BY DEF ChanType
<1>2. Tail(s) \in Seq(Message) /\ Len(Tail(s)) = Len(s) - 1 /\ Head(s) = s[1] /\ s[1] \in Message
    BY <1>1
<1>3. \A i \in DOMAIN Tail(s) : Tail(s)[i] = s[i + 1] /\ i + 1 \in DOMAIN s
    BY <1>1, <1>2
<1>4. HasOk(Tail(s)) => HasOk(s)
    BY <1>3 DEF HasOk
<1>5. Head(s) = "ok" => HasOk(s)
    <2>1. 1 \in DOMAIN s
        BY <1>1
    <2> QED
        BY <1>2, <2>1 DEF HasOk
<1>6. chan'[a][c] = Tail(s) /\ OnlyThese(a, {c}) /\ ChanType'
    BY <1>1, <1>2 DEF ChanType, OnlyThese
<1> QED
    BY <1>1, <1>2, <1>4, <1>5, <1>6 DEF Receives

(* No error is taken for an "ok".                                          *)
LEMMA ErrorsAreNoOk ==
    /\ ~HasOk(<<>>) /\ ~HasOk(<<"error">>) /\ ~HasOk(<<"error", "error">>)
    /\ HasOk(<<"ok", "error">>)
BY DEF HasOk

(* The names of the channels, and that they are not the same.              *)
LEMMA Typed ==
    /\ {<<"ok">>, <<"error">>, <<"error", "error">>, <<"ok", "error">>, <<"id">>, <<"none">>}
          \subseteq Seq(Message)
    /\ Channels = {"okToUnlockTable", "tableLocked", "tableUnlocked", "renameSessionId", "tablesRenamed"}
BY DEF Message, Channels

(* What each action sends or receives.                                     *)
LEMMA LockBeginFailsSends ==
    ASSUME ChanType, NEW a \in Attempt, LockBeginFails(a)
    PROVE  /\ ChanType' /\ OnlyThese(a, {"tableLocked"})
           /\ Sends(a, "tableLocked", <<"error">>)
<1> DEFINE sent == [tableLocked |-> <<"error">>]
<1>1. chan' = Sent(a, sent)
    BY DEF LockBeginFails
<1>2. DOMAIN sent = {"tableLocked"} /\ \A c \in Channels : c \in DOMAIN sent => sent[c] \in Seq(Message)
    BY Typed
<1>3. sent["tableLocked"] = <<"error">>
    OBVIOUS
<1> HIDE DEF sent
<1> QED
    BY <1>1, <1>2, <1>3, SentGrows, Typed

LEMMA LockFailsSends ==
    ASSUME ChanType, NEW a \in Attempt, LockFails(a)
    PROVE  /\ ChanType' /\ OnlyThese(a, {"tableLocked", "tableUnlocked"})
           /\ Sends(a, "tableLocked", <<"error", "error">>)
           /\ Sends(a, "tableUnlocked", <<"error">>)
<1> DEFINE sent == [tableLocked |-> <<"error", "error">>, tableUnlocked |-> <<"error">>]
<1>1. chan' = Sent(a, sent)
    BY DEF LockFails
<1>2. DOMAIN sent = {"tableLocked", "tableUnlocked"} /\ \A c \in Channels : c \in DOMAIN sent => sent[c] \in Seq(Message)
    BY Typed
<1>3. sent["tableLocked"] = <<"error", "error">> /\ sent["tableUnlocked"] = <<"error">>
    OBVIOUS
<1> HIDE DEF sent
<1> QED
    BY <1>1, <1>2, <1>3, SentGrows, Typed

LEMMA LockTablesSends ==
    ASSUME ChanType, NEW a \in Attempt, LockTables(a)
    PROVE  /\ ChanType' /\ OnlyThese(a, {"tableLocked"})
           /\ Sends(a, "tableLocked", <<"ok">>)
<1> DEFINE sent == [tableLocked |-> <<"ok">>]
<1>1. chan' = Sent(a, sent)
    BY DEF LockTables
<1>2. DOMAIN sent = {"tableLocked"} /\ \A c \in Channels : c \in DOMAIN sent => sent[c] \in Seq(Message)
    BY Typed
<1>3. sent["tableLocked"] = <<"ok">>
    OBVIOUS
<1> HIDE DEF sent
<1> QED
    BY <1>1, <1>2, <1>3, SentGrows, Typed

LEMMA RenameSessionSends ==
    ASSUME ChanType, NEW a \in Attempt, RenameSession(a)
    PROVE  /\ ChanType' /\ OnlyThese(a, {"renameSessionId"})
           /\ Sends(a, "renameSessionId", <<"id">>)
<1> DEFINE sent == [renameSessionId |-> <<"id">>]
<1>1. chan' = Sent(a, sent)
    BY DEF RenameSession
<1>2. DOMAIN sent = {"renameSessionId"} /\ \A c \in Channels : c \in DOMAIN sent => sent[c] \in Seq(Message)
    BY Typed
<1>3. sent["renameSessionId"] = <<"id">>
    OBVIOUS
<1> HIDE DEF sent
<1> QED
    BY <1>1, <1>2, <1>3, SentGrows, Typed

LEMMA RenameReturnsSends ==
    ASSUME ChanType, NEW a \in Attempt, RenameReturns(a)
    PROVE  /\ ChanType' /\ OnlyThese(a, {"tablesRenamed", "renameSessionId"})
           /\ Sends(a, "tablesRenamed", <<"ok", "error">>)
           /\ Sends(a, "renameSessionId", <<"none">>)
<1> DEFINE sent == [tablesRenamed |-> <<"ok", "error">>, renameSessionId |-> <<"none">>]
<1>1. chan' = Sent(a, sent)
    BY DEF RenameReturns
<1>2. DOMAIN sent = {"tablesRenamed", "renameSessionId"} /\ \A c \in Channels : c \in DOMAIN sent => sent[c] \in Seq(Message)
    BY Typed
<1>3. sent["tablesRenamed"] = <<"ok", "error">> /\ sent["renameSessionId"] = <<"none">>
    OBVIOUS
<1> HIDE DEF sent
<1> QED
    BY <1>1, <1>2, <1>3, SentGrows, Typed

LEMMA LockUnlockSends ==
    ASSUME ChanType, NEW a \in Attempt, LockUnlock(a)
    PROVE  /\ ChanType' /\ OnlyThese(a, {"tableUnlocked", "tableLocked"})
           /\ Sends(a, "tableUnlocked", IF alive[a] THEN <<"ok", "error">> ELSE <<"error", "error">>)
           /\ Sends(a, "tableLocked", <<"error">>)
<1> DEFINE answers == IF alive[a] THEN <<"ok", "error">> ELSE <<"error", "error">>
           sent == [tableUnlocked |-> answers, tableLocked |-> <<"error">>]
<1>1. chan' = Sent(a, sent)
    BY DEF LockUnlock, Unlocks
<1>2. DOMAIN sent = {"tableUnlocked", "tableLocked"}
      /\ \A c \in Channels : c \in DOMAIN sent => sent[c] \in Seq(Message)
    BY Typed
<1>3. sent["tableUnlocked"] = answers /\ sent["tableLocked"] = <<"error">>
    OBVIOUS
<1> HIDE DEF sent
<1> QED
    BY <1>1, <1>2, <1>3, SentGrows, Typed

LEMMA GivesUpSends ==
    ASSUME ChanType, NEW a \in Attempt, NEW from, NEW deferred, RenameGivesUp(a, from, deferred),
           "okToUnlockTable" \notin DOMAIN deferred,
           \A c \in Channels : c \in DOMAIN deferred => deferred[c] \in Seq(Message)
    PROVE  /\ ChanType' /\ OnlyThese(a, {"okToUnlockTable"} \cup DOMAIN deferred)
           /\ Sends(a, "okToUnlockTable", <<"ok">>)
           /\ \A c \in Channels : c \in DOMAIN deferred => Sends(a, c, deferred[c])
<1> DEFINE sent == [c \in DOMAIN deferred \cup {"okToUnlockTable"} |->
                       IF c = "okToUnlockTable" THEN <<"ok">> ELSE deferred[c]]
           New == [c \in Channels |-> IF c \in DOMAIN deferred THEN chan[a][c] \o deferred[c] ELSE chan[a][c]]
           All == [c \in Channels |-> IF c \in DOMAIN sent THEN chan[a][c] \o sent[c] ELSE chan[a][c]]
<1>1. Sent(a, deferred) = [chan EXCEPT ![a] = New]
    BY DEF Sent, ChanType
<1>2. Sent(a, sent) = [chan EXCEPT ![a] = All]
    BY DEF Sent, ChanType
<1>3. New.okToUnlockTable = chan[a].okToUnlockTable
    BY DEF Channels
<1>4. Append(chan[a].okToUnlockTable, "ok") = chan[a].okToUnlockTable \o <<"ok">>
    <2>1. chan[a].okToUnlockTable \in Seq(Message) /\ "ok" \in Message
        BY DEF ChanType, Channels, Message
    <2> QED
        BY <2>1, AppendIsConcat
<1>5. All = [New EXCEPT !.okToUnlockTable = chan[a].okToUnlockTable \o <<"ok">>]
    BY DEF Channels
<1>6. chan' = [[chan EXCEPT ![a] = New] EXCEPT ![a].okToUnlockTable = Append(@, "ok")]
    BY <1>1 DEF RenameGivesUp
<1>7. chan' = [chan EXCEPT ![a] = [New EXCEPT !.okToUnlockTable = Append(New.okToUnlockTable, "ok")]]
    <2> HIDE DEF New
    <2> QED
        BY <1>6 DEF ChanType
<1>8. chan' = Sent(a, sent)
    BY <1>2, <1>3, <1>4, <1>5, <1>7
<1>9. \A c \in Channels : c \in DOMAIN sent => sent[c] \in Seq(Message)
    BY Typed
<1>10. /\ DOMAIN sent = DOMAIN deferred \cup {"okToUnlockTable"}
       /\ sent["okToUnlockTable"] = <<"ok">>
       /\ \A c \in DOMAIN deferred : sent[c] = deferred[c]
    OBVIOUS
<1> HIDE DEF sent
<1> QED
    BY <1>8, <1>9, <1>10, SentGrows, Typed

LEMMA RenameBeginFailsSends ==
    ASSUME ChanType, NEW a \in Attempt, RenameBeginFails(a)
    PROVE  /\ ChanType' /\ OnlyThese(a, {"okToUnlockTable"})
           /\ Sends(a, "okToUnlockTable", <<"ok">>)
<1>1. RenameGivesUp(a, "begin", <<>>)
    BY DEF RenameBeginFails
<1>2. DOMAIN <<>> = {}
    OBVIOUS
<1>3. {"okToUnlockTable"} \cup DOMAIN <<>> = {"okToUnlockTable"}
    BY <1>2
<1> QED
    BY <1>1, <1>2, <1>3, GivesUpSends

LEMMA RenameFailsSends ==
    ASSUME ChanType, NEW a \in Attempt, RenameFails(a)
    PROVE  /\ ChanType' /\ OnlyThese(a, {"okToUnlockTable", "renameSessionId", "tablesRenamed"})
           /\ Sends(a, "okToUnlockTable", <<"ok">>)
           /\ Sends(a, "renameSessionId", <<"none">>)
           /\ Sends(a, "tablesRenamed", <<"error">>)
<1> DEFINE deferred == [renameSessionId |-> <<"none">>, tablesRenamed |-> <<"error">>]
<1>1. PICK at \in {"begin", "issue"} : RenameGivesUp(a, at, deferred)
    BY DEF RenameFails
<1>2. /\ DOMAIN deferred = {"renameSessionId", "tablesRenamed"}
      /\ deferred["renameSessionId"] = <<"none">> /\ deferred["tablesRenamed"] = <<"error">>
    OBVIOUS
<1> HIDE DEF deferred
<1>3. \A c \in Channels : c \in DOMAIN deferred => deferred[c] \in Seq(Message)
    BY <1>2, Typed
<1>4. {"okToUnlockTable"} \cup DOMAIN deferred = {"okToUnlockTable", "renameSessionId", "tablesRenamed"}
    BY <1>2
<1> QED
    BY <1>1, <1>2, <1>3, <1>4, GivesUpSends, Typed

LEMMA RenameReturnsErrorSends ==
    ASSUME ChanType, NEW a \in Attempt, RenameReturnsError(a)
    PROVE  /\ ChanType' /\ OnlyThese(a, {"okToUnlockTable", "renameSessionId", "tablesRenamed"})
           /\ Sends(a, "okToUnlockTable", <<"ok">>)
           /\ Sends(a, "renameSessionId", <<"none">>)
           /\ Sends(a, "tablesRenamed", <<"error", "error">>)
<1> DEFINE deferred == [renameSessionId |-> <<"none">>, tablesRenamed |-> <<"error", "error">>]
<1>1. RenameGivesUp(a, "issued", deferred)
    BY DEF RenameReturnsError
<1>2. /\ DOMAIN deferred = {"renameSessionId", "tablesRenamed"}
      /\ deferred["renameSessionId"] = <<"none">>
      /\ deferred["tablesRenamed"] = <<"error", "error">>
    OBVIOUS
<1> HIDE DEF deferred
<1>3. \A c \in Channels : c \in DOMAIN deferred => deferred[c] \in Seq(Message)
    BY <1>2, Typed
<1>4. {"okToUnlockTable"} \cup DOMAIN deferred = {"okToUnlockTable", "renameSessionId", "tablesRenamed"}
    BY <1>2
<1> QED
    BY <1>1, <1>2, <1>3, <1>4, GivesUpSends, Typed

(* The migrator has an attempt under way unless it is about to retry.      *)
LEMMA UnderWay == ASSUME MainType, attempt # 0 PROVE attempt \in Attempt
BY CutOverAssumption DEF MainType, Attempt

LEMMA TellUnlockSends ==
    ASSUME ChanType, attempt \in Attempt, TellUnlock
    PROVE  /\ ChanType' /\ OnlyThese(attempt, {"okToUnlockTable"})
           /\ Sends(attempt, "okToUnlockTable", <<"ok">>)
<1> DEFINE sent == [okToUnlockTable |-> <<"ok">>]
<1>1. chan' = Sent(attempt, sent)
    BY DEF TellUnlock
<1>2. DOMAIN sent = {"okToUnlockTable"} /\ \A c \in Channels : c \in DOMAIN sent => sent[c] \in Seq(Message)
    BY Typed
<1>3. sent["okToUnlockTable"] = <<"ok">>
    OBVIOUS
<1> HIDE DEF sent
<1> QED
    BY <1>1, <1>2, <1>3, SentGrows, Typed

LEMMA AwaitReceives ==
    ASSUME ChanType, attempt \in Attempt, NEW c \in Channels,
           chan[attempt][c] # <<>>, chan' = Received(c)
    PROVE  ChanType' /\ Receives(attempt, c)
BY ReceivedShrinks DEF Received

LEMMA LockToldReceives ==
    ASSUME ChanType, NEW a \in Attempt, LockTold(a)
    PROVE  ChanType' /\ Receives(a, "okToUnlockTable")
BY ReceivedShrinks, Typed DEF LockTold

(* What the migrator receives ...                                          *)
LEMMA MigratorReceives ==
    ASSUME ChanType, attempt \in Attempt
    PROVE  /\ AwaitTableLocked => ChanType' /\ Receives(attempt, "tableLocked")
           /\ AwaitRenameSessionId => ChanType' /\ Receives(attempt, "renameSessionId")
           /\ AwaitUnlocked => ChanType' /\ Receives(attempt, "tableUnlocked")
           /\ AwaitRenamed => ChanType' /\ Receives(attempt, "tablesRenamed")
BY AwaitReceives, Typed
DEF AwaitTableLocked, AwaitRenameSessionId, AwaitUnlocked, AwaitRenamed, Await

(* ... and sends.                                                          *)
LEMMA MigratorSends ==
    ASSUME ChanType, attempt \in Attempt, ExpectRenameGivesUp \/ Release \/ Leave
    PROVE  /\ ChanType' /\ OnlyThese(attempt, {"okToUnlockTable"})
           /\ Sends(attempt, "okToUnlockTable", <<"ok">>)
BY TellUnlockSends DEF ExpectRenameGivesUp, Release, Leave

-----------------------------------------------------------------------------
(* What steps do to the types.                                             *)

(* A migrator that is on its way has an attempt under way.                 *)
LEMMA Moving ==
    ASSUME MainType, ControlInv
    PROVE  attempt \in Attempt \/ (attempt = 0 /\ main = "retry")
BY UnderWay DEF ControlInv

(* Every step keeps the types of the tables, locks and server threads.     *)
LEMMA TableTypeKept ==
    ASSUME TableType, MainType, ControlInv,
           Step
    PROVE  TableType'
<1>1. ASSUME UNCHANGED <<swapped, del, lockHolder, alive, server>>
      PROVE  TableType'
    BY <1>1 DEF TableType
<1>2. ASSUME NEW a \in Attempt,
             \/ LockBeginFails(a) \/ SentryCheck(a) \/ LockTold(a)
             \/ RenameSession(a) \/ RenameReturns(a) \/ RenameBeginFails(a)
             \/ RenameFails(a) \/ RenameReturnsError(a)
      PROVE  TableType'
    <2>1. UNCHANGED <<swapped, del, lockHolder, alive, server>>
        BY <1>2
        DEF LockBeginFails, LockStep, tableVars, SentryCheck, LockTold, RenameSession,
            RenameStep, RenameReturns, RenameBeginFails, RenameGivesUp, RenameFails,
            RenameReturnsError
    <2> QED
        BY <2>1, <1>1
<1>3. ASSUME \/ ApplicationWrites \/ StreamEvent \/ EnqueueChallenge \/ ExecuteEvent
             \/ StartAttempt \/ AwaitTableLocked \/ WriteChallenge \/ AwaitChallenge
             \/ ChallengeTimeout \/ SpawnRename \/ AwaitRenameSessionId
             \/ ExpectRename \/ ExpectRenameGivesUp \/ ExpectLock \/ Release
             \/ AwaitUnlocked \/ AwaitRenamed \/ Leave \/ CheckSentry
             \/ StartTwoStep \/ UnlockTables
      PROVE  TableType'
    <2>1. UNCHANGED <<swapped, del, lockHolder, alive, server>>
        BY <1>3
        DEF ApplicationWrites, tableVars, StreamEvent, EnqueueChallenge, ExecuteEvent,
            StartAttempt, AwaitTableLocked, Await, Goto, Leaving, WriteChallenge,
            WaitFails, RetryFrom, AwaitChallenge, ReceiveChallenge, WaitSucceeds,
            NextOperation, ChallengeTimeout, SpawnRename, AwaitRenameSessionId,
            ExpectRename, ExpectRenameGivesUp, ExpectLock, Release, AwaitUnlocked,
            AwaitRenamed, Leave, CheckSentry, Return, StartTwoStep, UnlockTables,
            TwoStep
    <2> QED
        BY <2>1, <1>1
<1>4. ASSUME NEW a \in Attempt, LockSession(a)
      PROVE  TableType'
    BY <1>4, Moving DEF TableType, LockSession, LockStep, tableVars
<1>5. ASSUME NEW a \in Attempt, LockFails(a)
      PROVE  TableType'
    BY <1>5, Moving DEF TableType, LockFails, LockStep, tableVars
<1>6. ASSUME NEW a \in Attempt, SentryClear(a)
      PROVE  TableType'
    BY <1>6, Moving DEF TableType, SentryClear, LockStep, tableVars
<1>7. ASSUME NEW a \in Attempt, SentryCreate(a)
      PROVE  TableType'
    BY <1>7, Moving DEF TableType, SentryCreate, LockStep, tableVars
<1>8. ASSUME NEW a \in Attempt, LockTables(a)
      PROVE  TableType'
    BY <1>8, Moving DEF TableType, LockTables, LockStep, tableVars
<1>9. ASSUME NEW a \in Attempt, LockDropSentry(a)
      PROVE  TableType'
    BY <1>9, Moving DEF TableType, LockDropSentry, LockStep, tableVars
<1>10. ASSUME NEW a \in Attempt, LockUnlock(a)
      PROVE  TableType'
    BY <1>10, Moving DEF TableType, LockUnlock, Unlocks, LockStep, tableVars
<1>11. ASSUME NEW a \in Attempt, LockDies(a)
      PROVE  TableType'
    BY <1>11, Moving DEF TableType, LockDies, LockStep, tableVars
<1>12. ASSUME NEW a \in Attempt, RenameIssue(a)
      PROVE  TableType'
    BY <1>12, Moving DEF TableType, RenameIssue, RenameStep, tableVars
<1>13. ASSUME NEW a \in Attempt, ServerRenames(a)
      PROVE  TableType'
    BY <1>13, Moving DEF TableType, ServerRenames, tableVars
<1>14. ASSUME NEW a \in Attempt, ServerTimesOut(a)
      PROVE  TableType'
    BY <1>14, Moving DEF TableType, ServerTimesOut, tableVars
<1>15. ASSUME DropSentry
      PROVE  TableType'
    BY <1>15, Moving DEF TableType, DropSentry, Return, Goto, tableVars
<1>16. ASSUME LockOriginalTable
      PROVE  TableType'
    BY <1>16, Moving
    DEF TableType, MainType, LockOriginalTable, TwoStep, NextOperation, RetryFrom,
        tableVars
<1>17. ASSUME RenameOriginal
      PROVE  TableType'
    BY <1>17, Moving DEF TableType, RenameOriginal, TwoStep, Goto, RetryFrom, tableVars
<1>18. ASSUME RenameGhost
      PROVE  TableType'
    BY <1>18, Moving
    DEF TableType, RenameGhost, TwoStep, NextOperation, RetryFrom, tableVars
<1>19. ASSUME ProcessExits
      PROVE  TableType'
    BY <1>19, Moving DEF TableType, ProcessExits, TwoStep, tableVars
<1>20. ASSUME ConnectionLost
      PROVE  TableType'
    BY <1>20, Moving DEF TableType, ConnectionLost, TwoStep, tableVars
<1> QED
    BY <1>1, <1>2, <1>3, <1>4, <1>5, <1>6, <1>7, <1>8, <1>9, <1>10, <1>11, <1>12, <1>13,
       <1>14, <1>15, <1>16, <1>17, <1>18, <1>19, <1>20
    DEF Step, Migrator, Locker, Renamer, Server

(* The binary log only grows.                                              *)
LEMMA LogGrows ==
    ASSUME PipeType, NEW e \in Attempt \cup {AppWrite}, log' = Append(log, e)
    PROVE  /\ log' \in Seq(Attempt \cup {AppWrite})
           /\ DOMAIN log = 1..Len(log) /\ DOMAIN log' = DOMAIN log \cup {Len(log) + 1}
           /\ Len(log') = Len(log) + 1 /\ Len(log) \in Nat
           /\ log'[Len(log) + 1] = e /\ \A j \in DOMAIN log : log'[j] = log[j]
           /\ Writes' = IF e = AppWrite THEN Writes \cup {Len(log) + 1} ELSE Writes
           /\ \A s : s \in Seq(DOMAIN log) => s \in Seq(DOMAIN log')
<1>1. log \in Seq(Attempt \cup {AppWrite})
    BY DEF PipeType
<1>2. /\ log' \in Seq(Attempt \cup {AppWrite})
      /\ DOMAIN log = 1..Len(log) /\ DOMAIN log' = 1..(Len(log) + 1)
      /\ Len(log') = Len(log) + 1 /\ Len(log) \in Nat
      /\ log'[Len(log) + 1] = e /\ \A j \in DOMAIN log : log'[j] = log[j]
    BY <1>1
<1>3. DOMAIN log' = DOMAIN log \cup {Len(log) + 1} /\ Len(log) + 1 \notin DOMAIN log
    BY <1>2
<1>4. Writes' = {i \in DOMAIN log' : log'[i] = AppWrite}
    BY DEF Writes
<1>5. Writes' = IF e = AppWrite THEN Writes \cup {Len(log) + 1} ELSE Writes
    BY <1>2, <1>3, <1>4 DEF Writes
<1>6. ASSUME NEW s \in Seq(DOMAIN log)
      PROVE  s \in Seq(DOMAIN log')
    BY <1>3
<1> QED
    BY <1>2, <1>3, <1>5, <1>6

(* The capacity of the executor's queue is a number.                       *)
LEMMA Capacity == QueueCapacity \in Nat
BY CutOverAssumption

(* What appending to the queue does, position by position.                 *)
LEMMA QueueGrows ==
    ASSUME PipeType, NEW i \in DOMAIN log, queue' = Append(queue, i)
    PROVE  /\ queue' \in Seq(DOMAIN log) /\ Len(queue) \in Nat /\ Len(queue') = Len(queue) + 1
           /\ DOMAIN queue = 1..Len(queue) /\ DOMAIN queue' = 1..(Len(queue) + 1)
           /\ queue'[Len(queue) + 1] = i /\ \A p \in DOMAIN queue : queue'[p] = queue[p]
<1>1. queue \in Seq(DOMAIN log)
    BY DEF PipeType
<1> QED
    BY <1>1

(* What taking its head does, position by position.                        *)
LEMMA QueueShrinks ==
    ASSUME PipeType, queue # <<>>, queue' = Tail(queue)
    PROVE  /\ queue' \in Seq(DOMAIN log) /\ Len(queue) \in Nat \ {0} /\ Len(queue') = Len(queue) - 1
           /\ Head(queue) = queue[1] /\ 1 \in DOMAIN queue /\ queue[1] \in DOMAIN log
           /\ DOMAIN queue = 1..Len(queue) /\ DOMAIN queue' = 1..(Len(queue) - 1)
           /\ \A p \in DOMAIN queue' : queue'[p] = queue[p + 1]
<1>1. queue \in Seq(DOMAIN log)
    BY DEF PipeType
<1>2. Len(queue) \in Nat \ {0}
    BY <1>1
<1> QED
    BY <1>1, <1>2

(* A challenge is never taken for a write of the application.              *)
LEMMA ChallengeIsAttempt ==
    ASSUME MainType, attempt \in Attempt
    PROVE  Challenge \in Attempt /\ Challenge # AppWrite
BY CutOverAssumption DEF MainType, Challenge, Attempt, AppWrite

(* What WriteChallenge appends, if anything.                               *)
LEMMA WrittenChallenge ==
    ASSUME MainType, ControlInv, WriteChallenge
    PROVE  attempt \in Attempt /\ (log' = log \/ log' = Append(log, Challenge))
<1>1. main = "challenge"
    BY DEF WriteChallenge
<1> QED
    BY <1>1, Moving DEF WriteChallenge

(* Every step keeps the types of log, queue and what is applied.           *)
LEMMA PipeTypeKept ==
    ASSUME PipeType, MainType, ControlInv,
           Step
    PROVE  PipeType'
<1>1. ASSUME UNCHANGED <<log, read, async, queue, sending, applied>>
      PROVE  PipeType'
    BY <1>1 DEF PipeType, Writes
<1>2. ASSUME NEW a \in Attempt,
             \/ LockSession(a) \/ LockBeginFails(a) \/ LockFails(a)
             \/ SentryCheck(a) \/ SentryClear(a) \/ SentryCreate(a) \/ LockTables(a)
             \/ LockTold(a) \/ LockDropSentry(a) \/ LockUnlock(a) \/ LockDies(a)
             \/ RenameSession(a) \/ RenameIssue(a) \/ RenameReturns(a)
             \/ RenameBeginFails(a) \/ RenameFails(a) \/ RenameReturnsError(a)
             \/ ServerRenames(a) \/ ServerTimesOut(a)
      PROVE  PipeType'
    <2>1. UNCHANGED <<log, read, async, queue, sending, applied>>
        BY <1>2
        DEF LockSession, LockStep, pipeVars, LockBeginFails, LockFails, SentryCheck,
            SentryClear, SentryCreate, LockTables, LockTold, LockDropSentry, LockUnlock,
            Unlocks, LockDies, RenameSession, RenameStep, RenameIssue, RenameReturns,
            RenameBeginFails, RenameGivesUp, RenameFails, RenameReturnsError,
            ServerRenames, ServerTimesOut
    <2> QED
        BY <2>1, <1>1
<1>3. ASSUME \/ StartAttempt \/ AwaitTableLocked \/ ChallengeTimeout \/ SpawnRename
             \/ AwaitRenameSessionId \/ ExpectRename \/ ExpectRenameGivesUp
             \/ ExpectLock \/ Release \/ AwaitUnlocked \/ AwaitRenamed \/ Leave
             \/ CheckSentry \/ DropSentry \/ StartTwoStep \/ LockOriginalTable
             \/ RenameOriginal \/ RenameGhost \/ UnlockTables \/ ProcessExits
             \/ ConnectionLost
      PROVE  PipeType'
    <2>1. UNCHANGED <<log, read, async, queue, sending, applied>>
        BY <1>3
        DEF StartAttempt, pipeVars, AwaitTableLocked, Await, Goto, Leaving,
            ChallengeTimeout, WaitFails, RetryFrom, SpawnRename, AwaitRenameSessionId,
            ExpectRename, ExpectRenameGivesUp, ExpectLock, Release, AwaitUnlocked,
            AwaitRenamed, Leave, CheckSentry, Return, DropSentry, StartTwoStep,
            LockOriginalTable, TwoStep, NextOperation, RenameOriginal, RenameGhost,
            UnlockTables, ProcessExits, ConnectionLost
    <2> QED
        BY <2>1, <1>1
<1>4. ASSUME ApplicationWrites
      PROVE  PipeType'
    <2>1. log' = Append(log, AppWrite) /\ UNCHANGED <<read, async, queue, sending, applied>>
        BY <1>4 DEF ApplicationWrites
    <2> QED
        BY <2>1, LogGrows DEF PipeType
<1>5. ASSUME StreamEvent
      PROVE  PipeType'
    <2>1. read + 1 \in DOMAIN log /\ read + 1 \in 0..Len(log)
        BY <1>5 DEF StreamEvent, PipeType
    <2>2. /\ queue' = queue \/ (queue' = Append(queue, read + 1) /\ Len(queue) < QueueCapacity)
          /\ async' \subseteq async \cup {read + 1} /\ read' = read + 1
          /\ UNCHANGED <<log, sending, applied>>
        BY <1>5 DEF StreamEvent
    <2>3. queue' \in Seq(DOMAIN log) /\ Len(queue') <= QueueCapacity
        <3>1. Len(queue) \in Nat /\ Len(queue) <= QueueCapacity /\ queue \in Seq(DOMAIN log)
            BY DEF PipeType
        <3>2. queue' = queue \/ (queue' \in Seq(DOMAIN log) /\ Len(queue') = Len(queue) + 1
                                 /\ Len(queue) < QueueCapacity)
            BY <2>1, <2>2, QueueGrows
        <3> QED
            BY <2>2, <3>1, <3>2, Capacity
    <2> QED
        BY <2>1, <2>2, <2>3 DEF PipeType, Writes
<1>6. ASSUME EnqueueChallenge
      PROVE  PipeType'
    <2>1. PICK i \in async : queue' = Append(queue, i) /\ async' = async \ {i}
        BY <1>6 DEF EnqueueChallenge
    <2>2. i \in DOMAIN log /\ Len(queue) < QueueCapacity /\ UNCHANGED <<log, read, sending, applied>>
        BY <1>6 DEF EnqueueChallenge, PipeType
    <2>3. queue' \in Seq(DOMAIN log) /\ Len(queue') <= QueueCapacity
        <3>1. Len(queue) \in Nat /\ Len(queue) <= QueueCapacity /\ queue \in Seq(DOMAIN log)
            BY DEF PipeType
        <3>2. queue' = queue \/ (queue' \in Seq(DOMAIN log) /\ Len(queue') = Len(queue) + 1
                                 /\ Len(queue) < QueueCapacity)
            BY <2>1, <2>2, QueueGrows
        <3> QED
            BY <2>2, <3>1, <3>2, Capacity
    <2> QED
        BY <2>1, <2>2, <2>3 DEF PipeType, Writes
<1>7. ASSUME ExecuteEvent
      PROVE  PipeType'
    <2>1. queue # <<>> /\ queue' = Tail(queue) /\ UNCHANGED <<log, read, async>>
        BY <1>7 DEF ExecuteEvent
    <2>2. \/ log[queue[1]] = AppWrite /\ applied' = applied \cup {queue[1]} /\ sending' = 0
          \/ sending' = queue[1] /\ applied' = applied
        BY <1>7, <2>1, QueueShrinks DEF ExecuteEvent
    <2>3. queue' \in Seq(DOMAIN log) /\ Len(queue') <= QueueCapacity
        <3>1. Len(queue) \in Nat /\ Len(queue) <= QueueCapacity
            BY DEF PipeType
        <3> QED
            BY <2>1, <3>1, QueueShrinks, Capacity
    <2>4. queue[1] \in DOMAIN log /\ queue[1] \in 0..Len(log)
        BY <2>1, QueueShrinks DEF PipeType
    <2> QED
        BY <2>1, <2>2, <2>3, <2>4 DEF PipeType, Writes
<1>8. ASSUME WriteChallenge
      PROVE  PipeType'
    <2>1. log' = log \/ log' = Append(log, Challenge)
        BY <1>8, WrittenChallenge
    <2>2. UNCHANGED <<read, async, queue, sending, applied>>
        BY <1>8 DEF WriteChallenge
    <2>3. CASE log' = log
        BY <2>2, <2>3 DEF PipeType, Writes
    <2>4. CASE log' = Append(log, Challenge)
        BY <1>8, <2>2, <2>4, WrittenChallenge, ChallengeIsAttempt, LogGrows DEF PipeType
    <2> QED
        BY <2>1, <2>3, <2>4
<1>9. ASSUME AwaitChallenge
      PROVE  PipeType'
    BY <1>9
    DEF PipeType, Writes, AwaitChallenge, ReceiveChallenge, WaitSucceeds, Goto,
        NextOperation, pipeVars
<1> QED
    BY <1>1, <1>2, <1>3, <1>4, <1>5, <1>6, <1>7, <1>8, <1>9
    DEF Step, Migrator, Locker, Renamer, Server

(* Every step keeps the types of what the migrator knows.                  *)
LEMMA MainTypeKept ==
    ASSUME MainType,
           Step
    PROVE  MainType'
<1>1. ASSUME UNCHANGED <<attempt, main, outcome, tries>>
      PROVE  MainType'
    BY <1>1 DEF MainType, AtomicPlaces, TwoStepPlaces, Renaming
<1>2. ASSUME NEW a \in Attempt,
             \/ LockSession(a) \/ LockBeginFails(a) \/ LockFails(a)
             \/ SentryCheck(a) \/ SentryClear(a) \/ SentryCreate(a) \/ LockTables(a)
             \/ LockTold(a) \/ LockDropSentry(a) \/ LockUnlock(a) \/ LockDies(a)
             \/ RenameSession(a) \/ RenameIssue(a) \/ RenameReturns(a)
             \/ RenameBeginFails(a) \/ RenameFails(a) \/ RenameReturnsError(a)
             \/ ServerRenames(a) \/ ServerTimesOut(a)
      PROVE  MainType'
    <2>1. UNCHANGED <<attempt, main, outcome, tries>>
        BY <1>2
        DEF LockSession, LockStep, mainVars, LockBeginFails, LockFails, SentryCheck,
            SentryClear, SentryCreate, LockTables, LockTold, LockDropSentry, LockUnlock,
            Unlocks, LockDies, RenameSession, RenameStep, RenameIssue, RenameReturns,
            RenameBeginFails, RenameGivesUp, RenameFails, RenameReturnsError,
            ServerRenames, ServerTimesOut
    <2> QED
        BY <2>1, <1>1
<1>3. ASSUME \/ ApplicationWrites \/ StreamEvent \/ EnqueueChallenge \/ ExecuteEvent
             \/ ProcessExits \/ ConnectionLost
      PROVE  MainType'
    <2>1. UNCHANGED <<attempt, main, outcome, tries>>
        BY <1>3
        DEF ApplicationWrites, mainVars, StreamEvent, EnqueueChallenge, ExecuteEvent,
            ProcessExits, TwoStep, ConnectionLost
    <2> QED
        BY <2>1, <1>1
<1>4. ASSUME StartAttempt
      PROVE  MainType'
    BY <1>4, CutOverAssumption
    DEF MainType, AtomicPlaces, TwoStepPlaces, Renaming, StartAttempt, mainVars
<1>5. ASSUME AwaitTableLocked
      PROVE  MainType'
    BY <1>5, CutOverAssumption
    DEF MainType, AtomicPlaces, TwoStepPlaces, Renaming, AwaitTableLocked, Await, Goto,
        Leaving, mainVars
<1>6. ASSUME WriteChallenge
      PROVE  MainType'
    BY <1>6, CutOverAssumption
    DEF MainType, AtomicPlaces, TwoStepPlaces, Renaming, WriteChallenge, Goto,
        WaitFails, Leaving, RetryFrom, mainVars
<1>7. ASSUME AwaitChallenge
      PROVE  MainType'
    BY <1>7, CutOverAssumption
    DEF MainType, AtomicPlaces, TwoStepPlaces, Renaming, AwaitChallenge,
        ReceiveChallenge, WaitSucceeds, Goto, NextOperation, mainVars
<1>8. ASSUME ChallengeTimeout
      PROVE  MainType'
    BY <1>8, CutOverAssumption
    DEF MainType, AtomicPlaces, TwoStepPlaces, Renaming, ChallengeTimeout, WaitFails,
        Leaving, RetryFrom, mainVars
<1>9. ASSUME SpawnRename
      PROVE  MainType'
    BY <1>9, CutOverAssumption
    DEF MainType, AtomicPlaces, TwoStepPlaces, Renaming, SpawnRename, Goto, mainVars
<1>10. ASSUME AwaitRenameSessionId
      PROVE  MainType'
    BY <1>10, CutOverAssumption
    DEF MainType, AtomicPlaces, TwoStepPlaces, Renaming, AwaitRenameSessionId, Goto,
        mainVars
<1>11. ASSUME ExpectRename
      PROVE  MainType'
    BY <1>11, CutOverAssumption
    DEF MainType, AtomicPlaces, TwoStepPlaces, Renaming, ExpectRename, Goto, mainVars
<1>12. ASSUME ExpectRenameGivesUp
      PROVE  MainType'
    BY <1>12, CutOverAssumption
    DEF MainType, AtomicPlaces, TwoStepPlaces, Renaming, ExpectRenameGivesUp, Leaving,
        mainVars
<1>13. ASSUME ExpectLock
      PROVE  MainType'
    BY <1>13, CutOverAssumption
    DEF MainType, AtomicPlaces, TwoStepPlaces, Renaming, ExpectLock, Goto, Leaving,
        mainVars
<1>14. ASSUME Release
      PROVE  MainType'
    BY <1>14, CutOverAssumption
    DEF MainType, AtomicPlaces, TwoStepPlaces, Renaming, Release, Goto, mainVars
<1>15. ASSUME AwaitUnlocked
      PROVE  MainType'
    BY <1>15, CutOverAssumption
    DEF MainType, AtomicPlaces, TwoStepPlaces, Renaming, AwaitUnlocked, Await, Goto,
        Leaving, mainVars
<1>16. ASSUME AwaitRenamed
      PROVE  MainType'
    BY <1>16, CutOverAssumption
    DEF MainType, AtomicPlaces, TwoStepPlaces, Renaming, AwaitRenamed, Await, Leaving,
        mainVars
<1>17. ASSUME Leave
      PROVE  MainType'
    BY <1>17, CutOverAssumption
    DEF MainType, AtomicPlaces, TwoStepPlaces, Renaming, Leave, Goto, mainVars
<1>18. ASSUME CheckSentry
      PROVE  MainType'
    BY <1>18, CutOverAssumption
    DEF MainType, AtomicPlaces, TwoStepPlaces, Renaming, CheckSentry, Goto, Return,
        mainVars
<1>19. ASSUME DropSentry
      PROVE  MainType'
    BY <1>19, CutOverAssumption
    DEF MainType, AtomicPlaces, TwoStepPlaces, Renaming, DropSentry, Return, Goto,
        mainVars
<1>20. ASSUME StartTwoStep
      PROVE  MainType'
    BY <1>20, CutOverAssumption
    DEF MainType, AtomicPlaces, TwoStepPlaces, Renaming, StartTwoStep, mainVars
<1>21. ASSUME LockOriginalTable
      PROVE  MainType'
    BY <1>21, CutOverAssumption
    DEF MainType, AtomicPlaces, TwoStepPlaces, Renaming, LockOriginalTable, TwoStep,
        NextOperation, RetryFrom, mainVars
<1>22. ASSUME RenameOriginal
      PROVE  MainType'
    BY <1>22, CutOverAssumption
    DEF MainType, AtomicPlaces, TwoStepPlaces, Renaming, RenameOriginal, TwoStep, Goto,
        RetryFrom, mainVars
<1>23. ASSUME RenameGhost
      PROVE  MainType'
    BY <1>23, CutOverAssumption
    DEF MainType, AtomicPlaces, TwoStepPlaces, Renaming, RenameGhost, TwoStep,
        NextOperation, RetryFrom, mainVars
<1>24. ASSUME UnlockTables
      PROVE  MainType'
    BY <1>24, CutOverAssumption
    DEF MainType, AtomicPlaces, TwoStepPlaces, Renaming, UnlockTables, TwoStep,
        NextOperation, RetryFrom, mainVars
<1> QED
    BY <1>1, <1>2, <1>3, <1>4, <1>5, <1>6, <1>7, <1>8, <1>9, <1>10, <1>11, <1>12, <1>13,
       <1>14, <1>15, <1>16, <1>17, <1>18, <1>19, <1>20, <1>21, <1>22, <1>23, <1>24
    DEF Step, Migrator, Locker, Renamer, Server

(* Every step keeps the types of where the goroutines are.                 *)
LEMMA GoTypeKept ==
    ASSUME GoType, MainType, ControlInv,
           Step
    PROVE  GoType'
<1>1. ASSUME UNCHANGED <<locker, renamer, renameKnownToHaveFailed>>
      PROVE  GoType'
    BY <1>1 DEF GoType, Locking, Holding
<1>2. ASSUME NEW a \in Attempt,
             \/ ServerRenames(a) \/ ServerTimesOut(a)
      PROVE  GoType'
    <2>1. UNCHANGED <<locker, renamer, renameKnownToHaveFailed>>
        BY <1>2 DEF ServerRenames, goVars, ServerTimesOut
    <2> QED
        BY <2>1, <1>1
<1>3. ASSUME \/ ApplicationWrites \/ StreamEvent \/ EnqueueChallenge \/ ExecuteEvent
             \/ AwaitTableLocked \/ WriteChallenge \/ AwaitChallenge
             \/ ChallengeTimeout \/ AwaitRenameSessionId \/ ExpectRename
             \/ ExpectRenameGivesUp \/ ExpectLock \/ Release \/ AwaitUnlocked
             \/ AwaitRenamed \/ Leave \/ CheckSentry \/ DropSentry \/ StartTwoStep
             \/ LockOriginalTable \/ RenameOriginal \/ RenameGhost \/ UnlockTables
             \/ ProcessExits \/ ConnectionLost
      PROVE  GoType'
    <2>1. UNCHANGED <<locker, renamer, renameKnownToHaveFailed>>
        BY <1>3
        DEF ApplicationWrites, goVars, StreamEvent, EnqueueChallenge, ExecuteEvent,
            AwaitTableLocked, Await, Goto, Leaving, WriteChallenge, WaitFails,
            RetryFrom, AwaitChallenge, ReceiveChallenge, WaitSucceeds, NextOperation,
            ChallengeTimeout, AwaitRenameSessionId, ExpectRename, ExpectRenameGivesUp,
            ExpectLock, Release, AwaitUnlocked, AwaitRenamed, Leave, CheckSentry,
            Return, DropSentry, StartTwoStep, LockOriginalTable, TwoStep,
            RenameOriginal, RenameGhost, UnlockTables, ProcessExits, ConnectionLost
    <2> QED
        BY <2>1, <1>1
<1>4. ASSUME NEW a \in Attempt, LockSession(a)
      PROVE  GoType'
    BY <1>4, Moving DEF GoType, Locking, Holding, LockSession, LockStep, goVars
<1>5. ASSUME NEW a \in Attempt, LockBeginFails(a)
      PROVE  GoType'
    BY <1>5, Moving DEF GoType, Locking, Holding, LockBeginFails, LockStep, goVars
<1>6. ASSUME NEW a \in Attempt, LockFails(a)
      PROVE  GoType'
    BY <1>6, Moving DEF GoType, Locking, Holding, LockFails, LockStep, goVars
<1>7. ASSUME NEW a \in Attempt, SentryCheck(a)
      PROVE  GoType'
    BY <1>7, Moving DEF GoType, Locking, Holding, SentryCheck, LockStep, goVars
<1>8. ASSUME NEW a \in Attempt, SentryClear(a)
      PROVE  GoType'
    BY <1>8, Moving DEF GoType, Locking, Holding, SentryClear, LockStep, goVars
<1>9. ASSUME NEW a \in Attempt, SentryCreate(a)
      PROVE  GoType'
    BY <1>9, Moving DEF GoType, Locking, Holding, SentryCreate, LockStep, goVars
<1>10. ASSUME NEW a \in Attempt, LockTables(a)
      PROVE  GoType'
    BY <1>10, Moving DEF GoType, Locking, Holding, LockTables, LockStep, goVars
<1>11. ASSUME NEW a \in Attempt, LockTold(a)
      PROVE  GoType'
    BY <1>11, Moving DEF GoType, Locking, Holding, LockTold, LockStep, goVars
<1>12. ASSUME NEW a \in Attempt, LockDropSentry(a)
      PROVE  GoType'
    BY <1>12, Moving DEF GoType, Locking, Holding, LockDropSentry, LockStep, goVars
<1>13. ASSUME NEW a \in Attempt, LockUnlock(a)
      PROVE  GoType'
    BY <1>13, Moving DEF GoType, Locking, Holding, LockUnlock, Unlocks, LockStep, goVars
<1>14. ASSUME NEW a \in Attempt, LockDies(a)
      PROVE  GoType'
    BY <1>14, Moving DEF GoType, Locking, Holding, LockDies, LockStep, goVars
<1>15. ASSUME NEW a \in Attempt, RenameSession(a)
      PROVE  GoType'
    BY <1>15, Moving DEF GoType, Locking, Holding, RenameSession, RenameStep, goVars
<1>16. ASSUME NEW a \in Attempt, RenameIssue(a)
      PROVE  GoType'
    BY <1>16, Moving DEF GoType, Locking, Holding, RenameIssue, RenameStep, goVars
<1>17. ASSUME NEW a \in Attempt, RenameReturns(a)
      PROVE  GoType'
    BY <1>17, Moving DEF GoType, Locking, Holding, RenameReturns, RenameStep, goVars
<1>18. ASSUME NEW a \in Attempt, RenameBeginFails(a)
      PROVE  GoType'
    BY <1>18, Moving
    DEF GoType, Locking, Holding, RenameBeginFails, RenameGivesUp, RenameStep, goVars
<1>19. ASSUME NEW a \in Attempt, RenameFails(a)
      PROVE  GoType'
    BY <1>19, Moving
    DEF GoType, Locking, Holding, RenameFails, RenameGivesUp, RenameStep, goVars
<1>20. ASSUME NEW a \in Attempt, RenameReturnsError(a)
      PROVE  GoType'
    BY <1>20, Moving
    DEF GoType, Locking, Holding, RenameReturnsError, RenameGivesUp, RenameStep, goVars
<1>21. ASSUME StartAttempt
      PROVE  GoType'
    BY <1>21, Moving DEF GoType, Locking, Holding, StartAttempt, goVars
<1>22. ASSUME SpawnRename
      PROVE  GoType'
    BY <1>22, Moving DEF GoType, Locking, Holding, SpawnRename, Goto, goVars
<1> QED
    BY <1>1, <1>2, <1>3, <1>4, <1>5, <1>6, <1>7, <1>8, <1>9, <1>10, <1>11, <1>12, <1>13,
       <1>14, <1>15, <1>16, <1>17, <1>18, <1>19, <1>20, <1>21, <1>22
    DEF Step, Migrator, Locker, Renamer, Server

(* Every step keeps the types of the channels.                             *)
LEMMA ChanTypeKept ==
    ASSUME ChanType, MainType, ControlInv,
           Step
    PROVE  ChanType'
<1>1. ASSUME UNCHANGED <<chan>>
      PROVE  ChanType'
    BY <1>1 DEF ChanType
<1>2. ASSUME NEW a \in Attempt,
             \/ LockSession(a) \/ SentryCheck(a) \/ SentryClear(a)
             \/ SentryCreate(a) \/ LockDropSentry(a) \/ LockDies(a)
             \/ RenameIssue(a) \/ ServerRenames(a) \/ ServerTimesOut(a)
      PROVE  ChanType'
    <2>1. UNCHANGED <<chan>>
        BY <1>2
        DEF LockSession, LockStep, SentryCheck, SentryClear, SentryCreate,
            LockDropSentry, LockDies, RenameIssue, RenameStep, ServerRenames,
            ServerTimesOut
    <2> QED
        BY <2>1, <1>1
<1>3. ASSUME \/ ApplicationWrites \/ StreamEvent \/ EnqueueChallenge \/ ExecuteEvent
             \/ StartAttempt \/ WriteChallenge \/ AwaitChallenge \/ ChallengeTimeout
             \/ SpawnRename \/ ExpectRename \/ ExpectLock \/ CheckSentry
             \/ DropSentry \/ StartTwoStep \/ LockOriginalTable \/ RenameOriginal
             \/ RenameGhost \/ UnlockTables \/ ProcessExits \/ ConnectionLost
      PROVE  ChanType'
    <2>1. UNCHANGED <<chan>>
        BY <1>3
        DEF ApplicationWrites, StreamEvent, EnqueueChallenge, ExecuteEvent,
            StartAttempt, WriteChallenge, Goto, WaitFails, Leaving, RetryFrom,
            AwaitChallenge, ReceiveChallenge, WaitSucceeds, NextOperation,
            ChallengeTimeout, SpawnRename, ExpectRename, ExpectLock, CheckSentry,
            Return, DropSentry, StartTwoStep, LockOriginalTable, TwoStep,
            RenameOriginal, RenameGhost, UnlockTables, ProcessExits, ConnectionLost
    <2> QED
        BY <2>1, <1>1
<1>4. ASSUME NEW a \in Attempt, LockBeginFails(a)
      PROVE  ChanType'
    BY <1>4, LockBeginFailsSends, Moving DEF ChanType, LockBeginFails, LockStep
<1>5. ASSUME NEW a \in Attempt, LockFails(a)
      PROVE  ChanType'
    BY <1>5, LockFailsSends, Moving DEF ChanType, LockFails, LockStep
<1>6. ASSUME NEW a \in Attempt, LockTables(a)
      PROVE  ChanType'
    BY <1>6, LockTablesSends, Moving DEF ChanType, LockTables, LockStep
<1>7. ASSUME NEW a \in Attempt, LockTold(a)
      PROVE  ChanType'
    BY <1>7, LockToldReceives, Moving DEF ChanType, LockTold, LockStep
<1>8. ASSUME NEW a \in Attempt, LockUnlock(a)
      PROVE  ChanType'
    BY <1>8, LockUnlockSends, Moving DEF ChanType, LockUnlock, Unlocks, LockStep
<1>9. ASSUME NEW a \in Attempt, RenameSession(a)
      PROVE  ChanType'
    BY <1>9, RenameSessionSends, Moving DEF ChanType, RenameSession, RenameStep
<1>10. ASSUME NEW a \in Attempt, RenameReturns(a)
      PROVE  ChanType'
    BY <1>10, RenameReturnsSends, Moving DEF ChanType, RenameReturns, RenameStep
<1>11. ASSUME NEW a \in Attempt, RenameBeginFails(a)
      PROVE  ChanType'
    BY <1>11, RenameBeginFailsSends, Moving
    DEF ChanType, RenameBeginFails, RenameGivesUp, RenameStep
<1>12. ASSUME NEW a \in Attempt, RenameFails(a)
      PROVE  ChanType'
    BY <1>12, RenameFailsSends, Moving
    DEF ChanType, RenameFails, RenameGivesUp, RenameStep
<1>13. ASSUME NEW a \in Attempt, RenameReturnsError(a)
      PROVE  ChanType'
    BY <1>13, RenameReturnsErrorSends, Moving
    DEF ChanType, RenameReturnsError, RenameGivesUp, RenameStep
<1>14. ASSUME AwaitTableLocked
      PROVE  ChanType'
    BY <1>14, MigratorReceives, Moving
    DEF ChanType, AwaitTableLocked, Await, Goto, Leaving
<1>15. ASSUME AwaitRenameSessionId
      PROVE  ChanType'
    BY <1>15, MigratorReceives, Moving DEF ChanType, AwaitRenameSessionId, Goto
<1>16. ASSUME ExpectRenameGivesUp
      PROVE  ChanType'
    BY <1>16, MigratorSends, Moving DEF ChanType, ExpectRenameGivesUp, Leaving
<1>17. ASSUME Release
      PROVE  ChanType'
    BY <1>17, MigratorSends, Moving DEF ChanType, Release, Goto
<1>18. ASSUME AwaitUnlocked
      PROVE  ChanType'
    BY <1>18, MigratorReceives, Moving DEF ChanType, AwaitUnlocked, Await, Goto, Leaving
<1>19. ASSUME AwaitRenamed
      PROVE  ChanType'
    BY <1>19, MigratorReceives, Moving DEF ChanType, AwaitRenamed, Await, Leaving
<1>20. ASSUME Leave
      PROVE  ChanType'
    BY <1>20, MigratorSends, Moving DEF ChanType, Leave, Goto
<1> QED
    BY <1>1, <1>2, <1>3, <1>4, <1>5, <1>6, <1>7, <1>8, <1>9, <1>10, <1>11, <1>12, <1>13,
       <1>14, <1>15, <1>16, <1>17, <1>18, <1>19, <1>20
    DEF Step, Migrator, Locker, Renamer, Server

(* The kind of cut-over, and what may fail, are given.                     *)
LEMMA Kinds == ASSUME GivenType PROVE Atomic <=> ~TwoStepKind
BY CutOverAssumption DEF GivenType, Atomic, TwoStepKind

(* No attempt has the number of nobody, or of a write.                     *)
LEMMA NotAttempts == NoOne \notin Attempt /\ AppWrite \notin Attempt
BY DEF NoOne, AppWrite, Attempt

(* The log says which writes there are.                                    *)
LEMMA WritesKept == ASSUME log' = log PROVE Writes' = Writes
BY DEF Writes

(* Kind of cut-over and faults are given once for all.                     *)
LEMMA GivenKept ==
    ASSUME UNCHANGED given
    PROVE  /\ (GivenType' <=> GivenType) /\ (Atomic' <=> Atomic) /\ (TwoStepKind' <=> TwoStepKind)
           /\ (Sound' <=> Sound) /\ (Calm' <=> Calm) /\ faults' = faults
BY DEF given, GivenType, Atomic, TwoStepKind, Sound, Calm

(* The length of a channel, and when it is empty.                          *)
LEMMA Lengths ==
    ASSUME ChanType, NEW a \in Attempt, NEW c \in Channels
    PROVE  Len(chan[a][c]) \in Nat /\ (chan[a][c] = <<>> <=> Len(chan[a][c]) = 0)
<1>1. chan[a][c] \in Seq(Message)
    BY DEF ChanType
<1> QED
    BY <1>1

(* Only the attempts of an atomic cut-over have goroutines.                *)
LEMMA Busy ==
    ASSUME GivenType, MainType, ControlInv, NEW a \in Attempt,
           locker[a] # "off" \/ renamer[a] # "off" \/ server[a] # "none"
    PROVE  Atomic /\ ~TwoStepKind /\ a <= attempt /\ attempt \in Attempt
<1>1. Atomic /\ ~TwoStepKind /\ ~(a > attempt)
    BY Kinds DEF ControlInv, Untouched
<1> QED
    BY <1>1, CutOverAssumption DEF MainType, Attempt

(* One kind of cut-over does not get to the steps of the other.            *)
LEMMA Proceeding ==
    ASSUME GivenType, MainType, ControlInv
    PROVE  /\ main \in AtomicPlaces => Atomic /\ ~TwoStepKind /\ attempt \in Attempt
           /\ main \in TwoStepPlaces => TwoStepKind /\ ~Atomic /\ attempt \in Attempt
           /\ main # "retry" => attempt \in Attempt
BY Kinds, Moving DEF ControlInv, AtomicPlaces, TwoStepPlaces, Renaming

-----------------------------------------------------------------------------
(* What every action does, attempt by attempt.                             *)

WellFormed == GivenType /\ TableType /\ PipeType /\ MainType /\ GoType /\ ChanType /\ ControlInv

Others(old, new, a) == \A b \in Attempt : b # a => new[b] = old[b]

(* Whose step it is, and what it leaves alone.                             *)
AttemptsTurn(a) == Atomic /\ a <= attempt /\ attempt \in Attempt /\ UNCHANGED <<pipeVars, mainVars>>

LockersTurn(a) ==
    /\ AttemptsTurn(a) /\ UNCHANGED <<swapped, server, renamer, renameKnownToHaveFailed>>
    /\ Others(locker, locker', a) /\ Others(alive, alive', a)

RenamersTurn(a) ==
    /\ AttemptsTurn(a) /\ UNCHANGED <<swapped, del, lockHolder, alive, locker>>
    /\ Others(renamer, renamer', a) /\ Others(server, server', a)
    /\ Others(renameKnownToHaveFailed, renameKnownToHaveFailed', a)

ServersTurn(a) ==
    /\ AttemptsTurn(a) /\ UNCHANGED <<lockHolder, alive, goVars, chan>>
    /\ server[a] = "waiting" /\ Others(server, server', a)

MigratorsTurn ==
    /\ Atomic /\ attempt \in Attempt
    /\ UNCHANGED <<attempt, swapped, lockHolder, alive, server, locker, renameKnownToHaveFailed>>

TwoStepsTurn ==
    /\ TwoStepKind /\ attempt' \in Attempt
    /\ UNCHANGED <<server, pipeVars, goVars, chan>>

(* AtomicCutOverMagicLock.                                                 *)
LEMMA LockSessionEffect ==
    ASSUME WellFormed, NEW a \in Attempt, LockSession(a)
    PROVE  /\ LockersTurn(a)
           /\ locker[a] = "begin" /\ locker'[a] = "check" /\ alive'[a]
           /\ UNCHANGED <<del, lockHolder, chan>>
BY Busy
DEF WellFormed, LockersTurn, AttemptsTurn, Others, TableType, GoType, Locking, Holding,
    LockSession, LockStep, tableVars, pipeVars, mainVars, goVars

LEMMA LockBeginFailsEffect ==
    ASSUME WellFormed, NEW a \in Attempt, LockBeginFails(a)
    PROVE  /\ LockersTurn(a)
           /\ locker[a] = "begin" /\ locker'[a] = "exited"
           /\ UNCHANGED <<del, lockHolder, alive>>
           /\ OnlyThese(a, {"tableLocked"})
           /\ Sends(a, "tableLocked", <<"error">>)
<1>1. WellFormed => ChanType
    BY DEF WellFormed
<1>2. /\ OnlyThese(a, {"tableLocked"})
      /\ Sends(a, "tableLocked", <<"error">>)
    BY <1>1, LockBeginFailsSends
<1> QED
    BY <1>2, Busy
    DEF WellFormed, LockersTurn, AttemptsTurn, Others, TableType, GoType, Locking,
        Holding, LockBeginFails, LockStep, tableVars, pipeVars, mainVars, goVars

LEMMA LockFailsEffect ==
    ASSUME WellFormed, NEW a \in Attempt, LockFails(a)
    PROVE  /\ LockersTurn(a)
           /\ locker[a] \in Locking /\ locker'[a] = "exited" /\ ~alive'[a]
           /\ UNCHANGED <<del, lockHolder>>
           /\ OnlyThese(a, {"tableLocked", "tableUnlocked"})
           /\ Sends(a, "tableLocked", <<"error", "error">>)
           /\ Sends(a, "tableUnlocked", <<"error">>)
<1>1. WellFormed => ChanType
    BY DEF WellFormed
<1>2. /\ OnlyThese(a, {"tableLocked", "tableUnlocked"})
      /\ Sends(a, "tableLocked", <<"error", "error">>)
      /\ Sends(a, "tableUnlocked", <<"error">>)
    BY <1>1, LockFailsSends
<1> QED
    BY <1>2, Busy
    DEF WellFormed, LockersTurn, AttemptsTurn, Others, TableType, GoType, Locking,
        Holding, LockFails, LockStep, tableVars, pipeVars, mainVars, goVars

LEMMA SentryCheckEffect ==
    ASSUME WellFormed, NEW a \in Attempt, SentryCheck(a)
    PROVE  /\ LockersTurn(a)
           /\ locker[a] = "check" /\ locker'[a] \in {"clear", "create"}
           /\ UNCHANGED <<del, lockHolder, alive, chan>>
BY Busy
DEF WellFormed, LockersTurn, AttemptsTurn, Others, TableType, GoType, Locking, Holding,
    SentryCheck, LockStep, tableVars, pipeVars, mainVars, goVars

LEMMA SentryClearEffect ==
    ASSUME WellFormed, NEW a \in Attempt, SentryClear(a)
    PROVE  /\ LockersTurn(a)
           /\ locker[a] = "clear" /\ locker'[a] = "create" /\ Unlocked /\ del' = "none"
           /\ UNCHANGED <<lockHolder, alive, chan>>
BY Busy
DEF WellFormed, LockersTurn, AttemptsTurn, Others, TableType, GoType, Locking, Holding,
    SentryClear, LockStep, tableVars, pipeVars, mainVars, goVars

LEMMA SentryCreateEffect ==
    ASSUME WellFormed, NEW a \in Attempt, SentryCreate(a)
    PROVE  /\ LockersTurn(a)
           /\ locker[a] = "create" /\ locker'[a] = "lock" /\ del = "none"
           /\ ~RenameWaits /\ del' = "sentry"
           /\ UNCHANGED <<lockHolder, alive, chan>>
BY Busy
DEF WellFormed, LockersTurn, AttemptsTurn, Others, TableType, GoType, Locking, Holding,
    SentryCreate, LockStep, tableVars, pipeVars, mainVars, goVars

LEMMA LockTablesEffect ==
    ASSUME WellFormed, NEW a \in Attempt, LockTables(a)
    PROVE  /\ LockersTurn(a)
           /\ locker[a] = "lock" /\ locker'[a] = "locked" /\ Unlocked
           /\ del # "none" /\ lockHolder' = a
           /\ UNCHANGED <<del, alive>>
           /\ OnlyThese(a, {"tableLocked"})
           /\ Sends(a, "tableLocked", <<"ok">>)
<1>1. WellFormed => ChanType
    BY DEF WellFormed
<1>2. /\ OnlyThese(a, {"tableLocked"})
      /\ Sends(a, "tableLocked", <<"ok">>)
    BY <1>1, LockTablesSends
<1> QED
    BY <1>2, Busy
    DEF WellFormed, LockersTurn, AttemptsTurn, Others, TableType, GoType, Locking,
        Holding, LockTables, LockStep, tableVars, pipeVars, mainVars, goVars

LEMMA LockToldEffect ==
    ASSUME WellFormed, NEW a \in Attempt, LockTold(a)
    PROVE  /\ LockersTurn(a)
           /\ locker[a] = "locked" /\ locker'[a] = "drop"
           /\ UNCHANGED <<del, lockHolder, alive>>
           /\ Receives(a, "okToUnlockTable")
<1>1. WellFormed => ChanType
    BY DEF WellFormed
<1>2. /\ Receives(a, "okToUnlockTable")
    BY <1>1, LockToldReceives
<1> QED
    BY <1>2, Busy
    DEF WellFormed, LockersTurn, AttemptsTurn, Others, TableType, GoType, Locking,
        Holding, LockTold, LockStep, tableVars, pipeVars, mainVars, goVars

LEMMA LockDropSentryEffect ==
    ASSUME WellFormed, NEW a \in Attempt, LockDropSentry(a)
    PROVE  /\ LockersTurn(a)
           /\ locker[a] = "drop" /\ locker'[a] = "unlock" /\ ((alive[a] /\ del' = "none") \/ del' = del)
           /\ UNCHANGED <<lockHolder, alive, chan>>
BY Busy
DEF WellFormed, LockersTurn, AttemptsTurn, Others, TableType, GoType, Locking, Holding,
    LockDropSentry, LockStep, tableVars, pipeVars, mainVars, goVars

LEMMA LockUnlockEffect ==
    ASSUME WellFormed, NEW a \in Attempt, LockUnlock(a)
    PROVE  /\ LockersTurn(a)
           /\ locker[a] = "unlock" /\ locker'[a] = "exited" /\ lockHolder' = IF lockHolder = a THEN NoOne ELSE lockHolder
           /\ UNCHANGED <<del, alive>>
           /\ OnlyThese(a, {"tableUnlocked", "tableLocked"})
           /\ Sends(a, "tableUnlocked", IF alive[a] THEN <<"ok", "error">> ELSE <<"error", "error">>)
           /\ Sends(a, "tableLocked", <<"error">>)
<1>1. WellFormed => ChanType
    BY DEF WellFormed
<1>2. /\ OnlyThese(a, {"tableUnlocked", "tableLocked"})
      /\ Sends(a, "tableUnlocked", IF alive[a] THEN <<"ok", "error">> ELSE <<"error", "error">>)
      /\ Sends(a, "tableLocked", <<"error">>)
    BY <1>1, LockUnlockSends
<1> QED
    BY <1>2, Busy
    DEF WellFormed, LockersTurn, AttemptsTurn, Others, TableType, GoType, Locking,
        Holding, LockUnlock, Unlocks, LockStep, tableVars, pipeVars, mainVars, goVars

LEMMA LockDiesEffect ==
    ASSUME WellFormed, NEW a \in Attempt, LockDies(a)
    PROVE  /\ LockersTurn(a)
           /\ "lockDies" \in faults /\ alive[a] /\ ~alive'[a]
           /\ locker[a] \in Holding /\ locker'[a] = locker[a]
           /\ lockHolder' = IF lockHolder = a THEN NoOne ELSE lockHolder
           /\ UNCHANGED <<del, chan>>
BY Busy
DEF WellFormed, LockersTurn, AttemptsTurn, Others, TableType, GoType, Locking, Holding,
    LockDies, LockStep, tableVars, pipeVars, mainVars, goVars

(* AtomicCutoverRename, and the server.                                    *)
LEMMA RenameSessionEffect ==
    ASSUME WellFormed, NEW a \in Attempt, RenameSession(a)
    PROVE  /\ RenamersTurn(a)
           /\ renamer[a] = "begin" /\ renamer'[a] = "issue"
           /\ UNCHANGED <<server, renameKnownToHaveFailed>>
           /\ OnlyThese(a, {"renameSessionId"})
           /\ Sends(a, "renameSessionId", <<"id">>)
<1>1. WellFormed => ChanType
    BY DEF WellFormed
<1>2. /\ OnlyThese(a, {"renameSessionId"})
      /\ Sends(a, "renameSessionId", <<"id">>)
    BY <1>1, RenameSessionSends
<1> QED
    BY <1>2, Busy
    DEF WellFormed, RenamersTurn, AttemptsTurn, Others, TableType, GoType, Locking,
        Holding, RenameSession, RenameStep, tableVars, pipeVars, mainVars, goVars

LEMMA RenameIssueEffect ==
    ASSUME WellFormed, NEW a \in Attempt, RenameIssue(a)
    PROVE  /\ RenamersTurn(a)
           /\ renamer[a] = "issue" /\ renamer'[a] = "issued" /\ server'[a] = "waiting"
           /\ UNCHANGED <<renameKnownToHaveFailed, chan>>
BY Busy
DEF WellFormed, RenamersTurn, AttemptsTurn, Others, TableType, GoType, Locking, Holding,
    RenameIssue, RenameStep, tableVars, pipeVars, mainVars, goVars

LEMMA RenameReturnsEffect ==
    ASSUME WellFormed, NEW a \in Attempt, RenameReturns(a)
    PROVE  /\ RenamersTurn(a)
           /\ renamer[a] = "issued" /\ renamer'[a] = "exited" /\ server[a] = "ok"
           /\ UNCHANGED server
           /\ OnlyThese(a, {"tablesRenamed", "renameSessionId"})
           /\ Sends(a, "tablesRenamed", <<"ok", "error">>)
           /\ Sends(a, "renameSessionId", <<"none">>)
<1>1. WellFormed => ChanType
    BY DEF WellFormed
<1>2. /\ OnlyThese(a, {"tablesRenamed", "renameSessionId"})
      /\ Sends(a, "tablesRenamed", <<"ok", "error">>)
      /\ Sends(a, "renameSessionId", <<"none">>)
    BY <1>1, RenameReturnsSends
<1> QED
    BY <1>2, Busy
    DEF WellFormed, RenamersTurn, AttemptsTurn, Others, TableType, GoType, Locking,
        Holding, RenameReturns, RenameStep, tableVars, pipeVars, mainVars, goVars

LEMMA RenameBeginFailsEffect ==
    ASSUME WellFormed, NEW a \in Attempt, RenameBeginFails(a)
    PROVE  /\ RenamersTurn(a)
           /\ renamer[a] = "begin" /\ renamer'[a] = "exited"
           /\ UNCHANGED server
           /\ OnlyThese(a, {"okToUnlockTable"})
           /\ Sends(a, "okToUnlockTable", <<"ok">>)
<1>1. WellFormed => ChanType
    BY DEF WellFormed
<1>2. /\ OnlyThese(a, {"okToUnlockTable"})
      /\ Sends(a, "okToUnlockTable", <<"ok">>)
    BY <1>1, RenameBeginFailsSends
<1> QED
    BY <1>2, Busy
    DEF WellFormed, RenamersTurn, AttemptsTurn, Others, TableType, GoType, Locking,
        Holding, RenameBeginFails, RenameGivesUp, RenameStep, tableVars, pipeVars,
        mainVars, goVars

LEMMA RenameFailsEffect ==
    ASSUME WellFormed, NEW a \in Attempt, RenameFails(a)
    PROVE  /\ RenamersTurn(a)
           /\ "query" \in faults /\ renamer[a] \in {"begin", "issue"}
           /\ renamer'[a] = "exited"
           /\ UNCHANGED server
           /\ OnlyThese(a, {"okToUnlockTable", "renameSessionId", "tablesRenamed"})
           /\ Sends(a, "okToUnlockTable", <<"ok">>)
           /\ Sends(a, "renameSessionId", <<"none">>)
           /\ Sends(a, "tablesRenamed", <<"error">>)
<1>1. WellFormed => ChanType
    BY DEF WellFormed
<1>2. /\ OnlyThese(a, {"okToUnlockTable", "renameSessionId", "tablesRenamed"})
      /\ Sends(a, "okToUnlockTable", <<"ok">>)
      /\ Sends(a, "renameSessionId", <<"none">>)
      /\ Sends(a, "tablesRenamed", <<"error">>)
    BY <1>1, RenameFailsSends
<1> QED
    BY <1>2, Busy
    DEF WellFormed, RenamersTurn, AttemptsTurn, Others, TableType, GoType, Locking,
        Holding, RenameFails, RenameGivesUp, RenameStep, tableVars, pipeVars, mainVars,
        goVars

LEMMA RenameReturnsErrorEffect ==
    ASSUME WellFormed, NEW a \in Attempt, RenameReturnsError(a)
    PROVE  /\ RenamersTurn(a)
           /\ renamer[a] = "issued" /\ renamer'[a] = "exited" /\ (server[a] = "error" \/ "renameLost" \in faults)
           /\ UNCHANGED server
           /\ OnlyThese(a, {"okToUnlockTable", "renameSessionId", "tablesRenamed"})
           /\ Sends(a, "okToUnlockTable", <<"ok">>)
           /\ Sends(a, "renameSessionId", <<"none">>)
           /\ Sends(a, "tablesRenamed", <<"error", "error">>)
<1>1. WellFormed => ChanType
    BY DEF WellFormed
<1>2. /\ OnlyThese(a, {"okToUnlockTable", "renameSessionId", "tablesRenamed"})
      /\ Sends(a, "okToUnlockTable", <<"ok">>)
      /\ Sends(a, "renameSessionId", <<"none">>)
      /\ Sends(a, "tablesRenamed", <<"error", "error">>)
    BY <1>1, RenameReturnsErrorSends
<1> QED
    BY <1>2, Busy
    DEF WellFormed, RenamersTurn, AttemptsTurn, Others, TableType, GoType, Locking,
        Holding, RenameReturnsError, RenameGivesUp, RenameStep, tableVars, pipeVars,
        mainVars, goVars

LEMMA ServerRenamesEffect ==
    ASSUME WellFormed, NEW a \in Attempt, ServerRenames(a)
    PROVE  /\ ServersTurn(a)
           /\ lockHolder = NoOne
           /\ \/ del = "none" /\ ~swapped /\ swapped' /\ del' = "old" /\ server'[a] = "ok"
              \/ (del # "none" \/ swapped) /\ server'[a] = "error" /\ swapped' = swapped /\ del' = del
BY Busy
DEF WellFormed, ServersTurn, AttemptsTurn, Others, TableType, GoType, Locking, Holding,
    ServerRenames, tableVars, pipeVars, mainVars, goVars

LEMMA ServerTimesOutEffect ==
    ASSUME WellFormed, NEW a \in Attempt, ServerTimesOut(a)
    PROVE  /\ ServersTurn(a)
           /\ lockHolder # NoOne /\ server'[a] = "error"
           /\ UNCHANGED <<swapped, del>>
BY Busy
DEF WellFormed, ServersTurn, AttemptsTurn, Others, TableType, GoType, Locking, Holding,
    ServerTimesOut, tableVars, pipeVars, mainVars, goVars

PipesTurn == UNCHANGED <<tableVars, mainVars, goVars, chan>>

Returned ==
    main' = IF outcome = "ok" THEN "done" ELSE IF attempt < MaxAttempts THEN "retry" ELSE "gaveUp"

(* The migrator in atomicCutOver.                                          *)
LEMMA StartAttemptEffect ==
    ASSUME WellFormed, StartAttempt
    PROVE  /\ Atomic /\ main = "retry" /\ attempt' = attempt + 1 /\ attempt' \in Attempt
           /\ main' = "locking" /\ outcome' = "none"
           /\ locker'[attempt'] = "begin" /\ Others(locker, locker', attempt')
           /\ UNCHANGED <<tableVars, pipeVars, renamer, renameKnownToHaveFailed, chan>>
BY Proceeding, Kinds, CutOverAssumption
DEF WellFormed, AtomicPlaces, TwoStepPlaces, Renaming, Others, MainType, Attempt,
    GoType, Atomic, StartAttempt, tableVars, pipeVars, mainVars, goVars

LEMMA AwaitTableLockedEffect ==
    ASSUME WellFormed, AwaitTableLocked
    PROVE  /\ MigratorsTurn /\ main = "locking"
           /\ IF Head(chan[attempt].tableLocked) = "ok"
              THEN main' = "challenge" /\ outcome' = outcome
              ELSE main' = "leave" /\ outcome' = "error"
           /\ UNCHANGED <<del, pipeVars, renamer>>
           /\ Receives(attempt, "tableLocked")
<1>1. WellFormed => ChanType /\ GivenType /\ MainType /\ ControlInv
    BY DEF WellFormed
<1>2. main # "retry"
    BY DEF AwaitTableLocked, Await, Goto, Leaving
<1>3. /\ Receives(attempt, "tableLocked")
    BY <1>1, <1>2, Proceeding, MigratorReceives
<1> QED
    BY <1>3, Proceeding, Kinds
    DEF WellFormed, AtomicPlaces, TwoStepPlaces, Renaming, MigratorsTurn,
        AwaitTableLocked, Await, Goto, Leaving, tableVars, pipeVars, mainVars, goVars

LEMMA WriteChallengeEffect ==
    ASSUME WellFormed, WriteChallenge
    PROVE  /\ main = "challenge" /\ attempt \in Attempt
           /\ log' = log \/ log' = Append(log, Challenge)
           /\ main' # "waiting" => "query" \in faults
           /\ Atomic => \/ main' = "waiting" /\ outcome' = outcome
                        \/ main' = "leave" /\ outcome' = "error"
           /\ TwoStepKind => main' \in {"waiting", "challenge", "aborted"} /\ outcome' = outcome
           /\ UNCHANGED <<attempt, tableVars, read, async, queue, sending, applied, goVars, chan>>
BY Proceeding, Kinds, WrittenChallenge
DEF WellFormed, AtomicPlaces, TwoStepPlaces, Renaming, Atomic, TwoStepKind, TableType,
    WriteChallenge, Goto, WaitFails, Leaving, RetryFrom, tableVars, pipeVars, mainVars,
    goVars

LEMMA AwaitChallengeEffect ==
    ASSUME WellFormed, AwaitChallenge
    PROVE  /\ main = "waiting" /\ attempt \in Attempt /\ sending # 0 /\ sending' = 0
           /\ \/ main' = "waiting"
              \/ /\ log[sending] = Challenge
                 /\ (Atomic /\ main' = "rename") \/ (TwoStepKind /\ main' = "renameOriginal")
           /\ UNCHANGED <<attempt, outcome, tableVars, log, read, async, queue, applied, goVars, chan>>
BY Proceeding, Kinds
DEF WellFormed, AtomicPlaces, TwoStepPlaces, Renaming, Atomic, TwoStepKind, TableType,
    AwaitChallenge, ReceiveChallenge, WaitSucceeds, Goto, NextOperation, tableVars,
    pipeVars, mainVars, goVars

LEMMA ChallengeTimeoutEffect ==
    ASSUME WellFormed, ChallengeTimeout
    PROVE  /\ main = "waiting" /\ attempt \in Attempt
           /\ Atomic => main' = "leave" /\ outcome' = "error"
           /\ TwoStepKind => main' \in {"challenge", "aborted"} /\ outcome' = outcome
           /\ UNCHANGED <<attempt, tableVars, pipeVars, goVars, chan>>
BY Proceeding, Kinds
DEF WellFormed, AtomicPlaces, TwoStepPlaces, Renaming, Atomic, TwoStepKind, TableType,
    ChallengeTimeout, WaitFails, Leaving, RetryFrom, tableVars, pipeVars, mainVars,
    goVars

LEMMA SpawnRenameEffect ==
    ASSUME WellFormed, SpawnRename
    PROVE  /\ MigratorsTurn /\ main = "rename" /\ main' = "renameId"
           /\ renamer'[attempt] = "begin" /\ Others(renamer, renamer', attempt)
           /\ UNCHANGED <<outcome, del, pipeVars, chan>>
BY Proceeding, Kinds
DEF WellFormed, AtomicPlaces, TwoStepPlaces, Renaming, MigratorsTurn, Others, MainType,
    GoType, SpawnRename, Goto, tableVars, pipeVars, mainVars, goVars

LEMMA AwaitRenameSessionIdEffect ==
    ASSUME WellFormed, AwaitRenameSessionId
    PROVE  /\ MigratorsTurn /\ main = "renameId" /\ main' = "expect"
           /\ UNCHANGED <<outcome, del, pipeVars, renamer>>
           /\ Receives(attempt, "renameSessionId")
<1>1. WellFormed => ChanType /\ GivenType /\ MainType /\ ControlInv
    BY DEF WellFormed
<1>2. main # "retry"
    BY DEF AwaitRenameSessionId, Goto
<1>3. /\ Receives(attempt, "renameSessionId")
    BY <1>1, <1>2, Proceeding, MigratorReceives
<1> QED
    BY <1>3, Proceeding, Kinds
    DEF WellFormed, AtomicPlaces, TwoStepPlaces, Renaming, MigratorsTurn,
        AwaitRenameSessionId, Goto, tableVars, pipeVars, mainVars, goVars

LEMMA ExpectRenameEffect ==
    ASSUME WellFormed, ExpectRename
    PROVE  /\ MigratorsTurn /\ main = "expect" /\ main' = "expectLock"
           /\ server[attempt] = "waiting" \/ renameKnownToHaveFailed[attempt]
           /\ UNCHANGED <<outcome, del, pipeVars, renamer, chan>>
BY Proceeding, Kinds
DEF WellFormed, AtomicPlaces, TwoStepPlaces, Renaming, MigratorsTurn, ExpectRename,
    Goto, tableVars, pipeVars, mainVars, goVars

LEMMA ExpectRenameGivesUpEffect ==
    ASSUME WellFormed, ExpectRenameGivesUp
    PROVE  /\ MigratorsTurn /\ main = "expect" /\ main' = "leave" /\ outcome' = "error"
           /\ server[attempt] \in {"ok", "error"} \/ "slowRename" \in faults
              \/ ("query" \in faults /\ server[attempt] # "none")
           /\ UNCHANGED <<del, pipeVars, renamer>>
           /\ OnlyThese(attempt, {"okToUnlockTable"})
           /\ Sends(attempt, "okToUnlockTable", <<"ok">>)
<1>1. WellFormed => ChanType /\ GivenType /\ MainType /\ ControlInv
    BY DEF WellFormed
<1>2. main # "retry"
    BY DEF ExpectRenameGivesUp, Leaving
<1>3. /\ OnlyThese(attempt, {"okToUnlockTable"})
      /\ Sends(attempt, "okToUnlockTable", <<"ok">>)
    BY <1>1, <1>2, Proceeding, MigratorSends
<1> QED
    BY <1>3, Proceeding, Kinds
    DEF WellFormed, AtomicPlaces, TwoStepPlaces, Renaming, MigratorsTurn,
        ExpectRenameGivesUp, Leaving, tableVars, pipeVars, mainVars, goVars

LEMMA ExpectLockEffect ==
    ASSUME WellFormed, ExpectLock
    PROVE  /\ MigratorsTurn /\ main = "expectLock"
           /\ \/ alive[attempt] /\ main' = "release" /\ outcome' = outcome
              \/ (~alive[attempt] \/ "query" \in faults) /\ main' = "leave" /\ outcome' = "error"
           /\ UNCHANGED <<del, pipeVars, renamer, chan>>
BY Proceeding, Kinds
DEF WellFormed, AtomicPlaces, TwoStepPlaces, Renaming, MigratorsTurn, ExpectLock, Goto,
    Leaving, tableVars, pipeVars, mainVars, goVars

LEMMA ReleaseEffect ==
    ASSUME WellFormed, Release
    PROVE  /\ MigratorsTurn /\ main = "release" /\ main' = "unlocked"
           /\ UNCHANGED <<outcome, del, pipeVars, renamer>>
           /\ OnlyThese(attempt, {"okToUnlockTable"})
           /\ Sends(attempt, "okToUnlockTable", <<"ok">>)
<1>1. WellFormed => ChanType /\ GivenType /\ MainType /\ ControlInv
    BY DEF WellFormed
<1>2. main # "retry"
    BY DEF Release, Goto
<1>3. /\ OnlyThese(attempt, {"okToUnlockTable"})
      /\ Sends(attempt, "okToUnlockTable", <<"ok">>)
    BY <1>1, <1>2, Proceeding, MigratorSends
<1> QED
    BY <1>3, Proceeding, Kinds
    DEF WellFormed, AtomicPlaces, TwoStepPlaces, Renaming, MigratorsTurn, Release, Goto,
        tableVars, pipeVars, mainVars, goVars

LEMMA AwaitUnlockedEffect ==
    ASSUME WellFormed, AwaitUnlocked
    PROVE  /\ MigratorsTurn /\ main = "unlocked"
           /\ IF Head(chan[attempt].tableUnlocked) = "ok"
              THEN main' = "renamed" /\ outcome' = outcome
              ELSE main' = "leave" /\ outcome' = "error"
           /\ UNCHANGED <<del, pipeVars, renamer>>
           /\ Receives(attempt, "tableUnlocked")
<1>1. WellFormed => ChanType /\ GivenType /\ MainType /\ ControlInv
    BY DEF WellFormed
<1>2. main # "retry"
    BY DEF AwaitUnlocked, Await, Goto, Leaving
<1>3. /\ Receives(attempt, "tableUnlocked")
    BY <1>1, <1>2, Proceeding, MigratorReceives
<1> QED
    BY <1>3, Proceeding, Kinds
    DEF WellFormed, AtomicPlaces, TwoStepPlaces, Renaming, MigratorsTurn, AwaitUnlocked,
        Await, Goto, Leaving, tableVars, pipeVars, mainVars, goVars

LEMMA AwaitRenamedEffect ==
    ASSUME WellFormed, AwaitRenamed
    PROVE  /\ MigratorsTurn /\ main = "renamed" /\ main' = "leave"
           /\ outcome' = IF Head(chan[attempt].tablesRenamed) = "ok" THEN "ok" ELSE "error"
           /\ UNCHANGED <<del, pipeVars, renamer>>
           /\ Receives(attempt, "tablesRenamed")
<1>1. WellFormed => ChanType /\ GivenType /\ MainType /\ ControlInv
    BY DEF WellFormed
<1>2. main # "retry"
    BY DEF AwaitRenamed, Await, Leaving
<1>3. /\ Receives(attempt, "tablesRenamed")
    BY <1>1, <1>2, Proceeding, MigratorReceives
<1> QED
    BY <1>3, Proceeding, Kinds
    DEF WellFormed, AtomicPlaces, TwoStepPlaces, Renaming, MigratorsTurn, AwaitRenamed,
        Await, Leaving, tableVars, pipeVars, mainVars, goVars

LEMMA LeaveEffect ==
    ASSUME WellFormed, Leave
    PROVE  /\ MigratorsTurn /\ main = "leave" /\ main' = "checkSentry"
           /\ UNCHANGED <<outcome, del, pipeVars, renamer>>
           /\ OnlyThese(attempt, {"okToUnlockTable"})
           /\ Sends(attempt, "okToUnlockTable", <<"ok">>)
<1>1. WellFormed => ChanType /\ GivenType /\ MainType /\ ControlInv
    BY DEF WellFormed
<1>2. main # "retry"
    BY DEF Leave, Goto
<1>3. /\ OnlyThese(attempt, {"okToUnlockTable"})
      /\ Sends(attempt, "okToUnlockTable", <<"ok">>)
    BY <1>1, <1>2, Proceeding, MigratorSends
<1> QED
    BY <1>3, Proceeding, Kinds
    DEF WellFormed, AtomicPlaces, TwoStepPlaces, Renaming, MigratorsTurn, Leave, Goto,
        tableVars, pipeVars, mainVars, goVars

LEMMA CheckSentryEffect ==
    ASSUME WellFormed, CheckSentry
    PROVE  /\ MigratorsTurn /\ main = "checkSentry" /\ ((main' = "dropSentry" /\ del = "sentry") \/ Returned)
           /\ UNCHANGED <<outcome, del, pipeVars, renamer, chan>>
BY Proceeding, Kinds
DEF WellFormed, AtomicPlaces, TwoStepPlaces, Renaming, MigratorsTurn, Returned,
    CheckSentry, Goto, Return, tableVars, pipeVars, mainVars, goVars

LEMMA DropSentryEffect ==
    ASSUME WellFormed, DropSentry
    PROVE  /\ MigratorsTurn /\ main = "dropSentry" /\ Returned /\ ((Unlocked /\ del' = "none") \/ del' = del)
           /\ UNCHANGED <<outcome, pipeVars, renamer, chan>>
BY Proceeding, Kinds
DEF WellFormed, AtomicPlaces, TwoStepPlaces, Renaming, MigratorsTurn, Returned,
    DropSentry, Return, Goto, tableVars, pipeVars, mainVars, goVars

(* The migrator in cutOverTwoStep.                                         *)
LEMMA StartTwoStepEffect ==
    ASSUME WellFormed, StartTwoStep
    PROVE  /\ TwoStepsTurn /\ main = "retry" /\ attempt = 0 /\ attempt' = 1
           /\ main' = "lockTable" /\ outcome' = "none"
           /\ UNCHANGED tableVars
BY Proceeding, Kinds, CutOverAssumption
DEF WellFormed, AtomicPlaces, TwoStepPlaces, Renaming, TwoStepsTurn, MainType, Attempt,
    TableType, TwoStepKind, ControlInv, StartTwoStep, tableVars, pipeVars, mainVars,
    goVars

LEMMA LockOriginalTableEffect ==
    ASSUME WellFormed, LockOriginalTable
    PROVE  /\ TwoStepsTurn /\ main = "lockTable"
           /\ \/ Unlocked /\ lockHolder' = attempt /\ main' = "challenge"
              \/ lockHolder' = lockHolder /\ main' \in {"lockTable", "aborted"}
           /\ UNCHANGED <<attempt, outcome, swapped, del>>
BY Proceeding, Kinds
DEF WellFormed, AtomicPlaces, TwoStepPlaces, Renaming, TwoStepsTurn, TableType,
    LockOriginalTable, TwoStep, NextOperation, RetryFrom, tableVars, pipeVars, mainVars,
    goVars

LEMMA RenameOriginalEffect ==
    ASSUME WellFormed, RenameOriginal
    PROVE  /\ TwoStepsTurn /\ main = "renameOriginal"
           /\ \/ /\ OriginalThere /\ del = "none" /\ lockHolder \in {attempt, NoOne}
                 /\ del' = "old" /\ lockHolder' = NoOne
                 /\ main' \in {"renameGhost", "renameOriginal", "aborted"}
                 /\ main' # "renameGhost" => "query" \in faults
              \/ /\ del # "none" \/ "query" \in faults
                 /\ main' \in {"renameOriginal", "aborted"} /\ UNCHANGED <<del, lockHolder>>
           /\ UNCHANGED <<attempt, outcome, swapped>>
BY Proceeding, Kinds
DEF WellFormed, AtomicPlaces, TwoStepPlaces, Renaming, TwoStepsTurn, TableType,
    RenameOriginal, TwoStep, Goto, RetryFrom, tableVars, pipeVars, mainVars, goVars

LEMMA RenameGhostEffect ==
    ASSUME WellFormed, RenameGhost
    PROVE  /\ TwoStepsTurn /\ main = "renameGhost"
           /\ \/ swapped' /\ main' = "unlockTables"
              \/ "query" \in faults /\ swapped' \in BOOLEAN /\ main' \in {"renameOriginal", "aborted"}
           /\ UNCHANGED <<attempt, outcome, del, lockHolder>>
BY Proceeding, Kinds
DEF WellFormed, AtomicPlaces, TwoStepPlaces, Renaming, TwoStepsTurn, TableType,
    RenameGhost, TwoStep, NextOperation, RetryFrom, tableVars, pipeVars, mainVars,
    goVars

LEMMA UnlockTablesEffect ==
    ASSUME WellFormed, UnlockTables
    PROVE  /\ TwoStepsTurn /\ main = "unlockTables"
           /\ main' \in {"done", "unlockTables", "aborted"}
           /\ main' = "aborted" => "query" \in faults
           /\ UNCHANGED <<attempt, outcome, tableVars>>
BY Proceeding, Kinds
DEF WellFormed, AtomicPlaces, TwoStepPlaces, Renaming, TwoStepsTurn, TableType,
    UnlockTables, TwoStep, NextOperation, RetryFrom, tableVars, pipeVars, mainVars,
    goVars

LEMMA ProcessExitsEffect ==
    ASSUME WellFormed, ProcessExits
    PROVE  /\ TwoStepsTurn /\ main = "aborted" /\ lockHolder' = NoOne
           /\ UNCHANGED <<attempt, main, outcome, swapped, del>>
BY Proceeding, Kinds
DEF WellFormed, AtomicPlaces, TwoStepPlaces, Renaming, TwoStepsTurn, TableType,
    ProcessExits, TwoStep, tableVars, pipeVars, mainVars, goVars

LEMMA ConnectionLostEffect ==
    ASSUME WellFormed, ConnectionLost
    PROVE  /\ TwoStepsTurn /\ main \in {"challenge", "waiting", "renameOriginal"}
           /\ "reconnect" \in faults
           /\ lockHolder = attempt /\ lockHolder' = NoOne
           /\ UNCHANGED <<attempt, main, outcome, swapped, del>>
BY Proceeding, Kinds
DEF WellFormed, AtomicPlaces, TwoStepPlaces, Renaming, TwoStepsTurn, TableType,
    TwoStepKind, ControlInv, ConnectionLost, TwoStep, tableVars, pipeVars, mainVars,
    goVars

(* The application, and the way of its writes.                             *)
LEMMA ApplicationWritesEffect ==
    ASSUME WellFormed, ApplicationWrites
    PROVE  /\ PipesTurn /\ ~swapped /\ OriginalThere /\ Unlocked /\ log' = Append(log, AppWrite)
           /\ UNCHANGED <<read, async, queue, sending, applied>>
BY DEF WellFormed, AtomicPlaces, TwoStepPlaces, Renaming, PipesTurn, TableType,
       PipeType, ApplicationWrites, tableVars, pipeVars, mainVars, goVars

LEMMA StreamEventEffect ==
    ASSUME WellFormed, StreamEvent
    PROVE  /\ PipesTurn /\ read + 1 \in DOMAIN log /\ read' = read + 1
           /\ \/ log[read + 1] = AppWrite /\ queue' = Append(queue, read + 1) /\ async' = async
              \/ log[read + 1] # AppWrite /\ async' = async \cup {read + 1} /\ queue' = queue
           /\ UNCHANGED <<log, sending, applied>>
BY DEF WellFormed, AtomicPlaces, TwoStepPlaces, Renaming, PipesTurn, TableType,
       PipeType, StreamEvent, tableVars, pipeVars, mainVars, goVars

LEMMA EnqueueChallengeEffect ==
    ASSUME WellFormed, EnqueueChallenge
    PROVE  /\ PipesTurn /\ \E i \in async : i \in DOMAIN log /\ queue' = Append(queue, i) /\ async' = async \ {i}
           /\ UNCHANGED <<log, read, sending, applied>>
BY DEF WellFormed, AtomicPlaces, TwoStepPlaces, Renaming, PipesTurn, TableType,
       PipeType, EnqueueChallenge, tableVars, pipeVars, mainVars, goVars

LEMMA ExecuteEventEffect ==
    ASSUME WellFormed, ExecuteEvent
    PROVE  /\ PipesTurn /\ sending = 0 /\ queue # <<>> /\ queue' = Tail(queue)
           /\ \/ log[queue[1]] = AppWrite /\ ~swapped /\ applied' = applied \cup {queue[1]} /\ sending' = 0
              \/ log[queue[1]] # AppWrite /\ sending' = queue[1] /\ applied' = applied
           /\ UNCHANGED <<log, read, async>>
BY QueueShrinks
DEF WellFormed, AtomicPlaces, TwoStepPlaces, Renaming, PipesTurn, TableType, PipeType,
    ExecuteEvent, tableVars, pipeVars, mainVars, goVars

(* Every step keeps each kind of cut-over to its steps.                    *)
LEMMA ControlKept ==
    ASSUME WellFormed, Step, UNCHANGED given
    PROVE  ControlInv'
<1>1. ASSUME UNCHANGED <<attempt, main, locker, renamer, server, chan>>
      PROVE  ControlInv'
    BY <1>1, GivenKept
    DEF ControlInv, Untouched, AtomicPlaces, TwoStepPlaces, Renaming, WellFormed
<1>2. ASSUME \/ ApplicationWrites \/ StreamEvent \/ EnqueueChallenge \/ ExecuteEvent
      PROVE  ControlInv'
    BY <1>2, <1>1, ApplicationWritesEffect, StreamEventEffect, EnqueueChallengeEffect,
       ExecuteEventEffect
    DEF PipesTurn, goVars, mainVars, pipeVars, tableVars
<1>3. ASSUME NEW a \in Attempt, LockSession(a) PROVE ControlInv'
    BY <1>3, LockSessionEffect, GivenKept, Kinds, CutOverAssumption
    DEF ControlInv, Untouched, AtomicPlaces, TwoStepPlaces, Renaming, WellFormed,
        LockersTurn, AttemptsTurn, Others, goVars, mainVars, pipeVars, tableVars
<1>4. ASSUME NEW a \in Attempt, LockBeginFails(a) PROVE ControlInv'
    BY <1>4, LockBeginFailsEffect, GivenKept, Kinds, CutOverAssumption
    DEF ControlInv, Untouched, AtomicPlaces, TwoStepPlaces, Renaming, WellFormed,
        LockersTurn, AttemptsTurn, Others, goVars, mainVars, pipeVars, tableVars,
        OnlyThese, Receives
<1>5. ASSUME NEW a \in Attempt, LockFails(a) PROVE ControlInv'
    BY <1>5, LockFailsEffect, GivenKept, Kinds, CutOverAssumption
    DEF ControlInv, Untouched, AtomicPlaces, TwoStepPlaces, Renaming, WellFormed,
        Attempt, MainType, LockersTurn, AttemptsTurn, Others, goVars, mainVars,
        pipeVars, tableVars, OnlyThese, Receives
<1>6. ASSUME NEW a \in Attempt, SentryCheck(a) PROVE ControlInv'
    BY <1>6, SentryCheckEffect, GivenKept, Kinds, CutOverAssumption
    DEF ControlInv, Untouched, AtomicPlaces, TwoStepPlaces, Renaming, WellFormed,
        LockersTurn, AttemptsTurn, Others, goVars, mainVars, pipeVars, tableVars
<1>7. ASSUME NEW a \in Attempt, SentryClear(a) PROVE ControlInv'
    BY <1>7, SentryClearEffect, GivenKept, Kinds, CutOverAssumption
    DEF ControlInv, Untouched, AtomicPlaces, TwoStepPlaces, Renaming, WellFormed,
        LockersTurn, AttemptsTurn, Others, goVars, mainVars, pipeVars, tableVars
<1>8. ASSUME NEW a \in Attempt, SentryCreate(a) PROVE ControlInv'
    BY <1>8, SentryCreateEffect, GivenKept, Kinds, CutOverAssumption
    DEF ControlInv, Untouched, AtomicPlaces, TwoStepPlaces, Renaming, WellFormed,
        LockersTurn, AttemptsTurn, Others, goVars, mainVars, pipeVars, tableVars
<1>9. ASSUME NEW a \in Attempt, LockTables(a) PROVE ControlInv'
    BY <1>9, LockTablesEffect, GivenKept, Kinds, CutOverAssumption
    DEF ControlInv, Untouched, AtomicPlaces, TwoStepPlaces, Renaming, WellFormed,
        LockersTurn, AttemptsTurn, Others, goVars, mainVars, pipeVars, tableVars,
        OnlyThese, Receives
<1>10. ASSUME NEW a \in Attempt, LockTold(a) PROVE ControlInv'
    BY <1>10, LockToldEffect, GivenKept, Kinds, CutOverAssumption
    DEF ControlInv, Untouched, AtomicPlaces, TwoStepPlaces, Renaming, WellFormed,
        LockersTurn, AttemptsTurn, Others, goVars, mainVars, pipeVars, tableVars,
        OnlyThese, Receives
<1>11. ASSUME NEW a \in Attempt, LockDropSentry(a) PROVE ControlInv'
    BY <1>11, LockDropSentryEffect, GivenKept, Kinds, CutOverAssumption
    DEF ControlInv, Untouched, AtomicPlaces, TwoStepPlaces, Renaming, WellFormed,
        LockersTurn, AttemptsTurn, Others, goVars, mainVars, pipeVars, tableVars
<1>12. ASSUME NEW a \in Attempt, LockUnlock(a) PROVE ControlInv'
    BY <1>12, LockUnlockEffect, GivenKept, Kinds, CutOverAssumption
    DEF ControlInv, Untouched, AtomicPlaces, TwoStepPlaces, Renaming, WellFormed,
        LockersTurn, AttemptsTurn, Others, goVars, mainVars, pipeVars, tableVars,
        OnlyThese, Receives
<1>13. ASSUME NEW a \in Attempt, LockDies(a) PROVE ControlInv'
    BY <1>13, LockDiesEffect, GivenKept, Kinds, CutOverAssumption
    DEF ControlInv, Untouched, AtomicPlaces, TwoStepPlaces, Renaming, WellFormed,
        LockersTurn, AttemptsTurn, Others, goVars, mainVars, pipeVars, tableVars
<1>14. ASSUME NEW a \in Attempt, RenameSession(a) PROVE ControlInv'
    BY <1>14, RenameSessionEffect, GivenKept, Kinds, CutOverAssumption
    DEF ControlInv, Untouched, AtomicPlaces, TwoStepPlaces, Renaming, WellFormed,
        RenamersTurn, AttemptsTurn, Others, goVars, mainVars, pipeVars, tableVars,
        OnlyThese, Receives
<1>15. ASSUME NEW a \in Attempt, RenameIssue(a) PROVE ControlInv'
    BY <1>15, RenameIssueEffect, GivenKept, Kinds, CutOverAssumption
    DEF ControlInv, Untouched, AtomicPlaces, TwoStepPlaces, Renaming, WellFormed,
        RenamersTurn, AttemptsTurn, Others, goVars, mainVars, pipeVars, tableVars
<1>16. ASSUME NEW a \in Attempt, RenameReturns(a) PROVE ControlInv'
    BY <1>16, RenameReturnsEffect, GivenKept, Kinds, CutOverAssumption
    DEF ControlInv, Untouched, AtomicPlaces, TwoStepPlaces, Renaming, WellFormed,
        RenamersTurn, AttemptsTurn, Others, goVars, mainVars, pipeVars, tableVars,
        OnlyThese, Receives
<1>17. ASSUME NEW a \in Attempt, RenameBeginFails(a) PROVE ControlInv'
    BY <1>17, RenameBeginFailsEffect, GivenKept, Kinds, CutOverAssumption
    DEF ControlInv, Untouched, AtomicPlaces, TwoStepPlaces, Renaming, WellFormed,
        RenamersTurn, AttemptsTurn, Others, goVars, mainVars, pipeVars, tableVars,
        OnlyThese, Receives
<1>18. ASSUME NEW a \in Attempt, RenameFails(a) PROVE ControlInv'
    BY <1>18, RenameFailsEffect, GivenKept, Kinds, CutOverAssumption
    DEF ControlInv, Untouched, AtomicPlaces, TwoStepPlaces, Renaming, WellFormed,
        RenamersTurn, AttemptsTurn, Others, goVars, mainVars, pipeVars, tableVars,
        OnlyThese, Receives
<1>19. ASSUME NEW a \in Attempt, RenameReturnsError(a) PROVE ControlInv'
    BY <1>19, RenameReturnsErrorEffect, GivenKept, Kinds, CutOverAssumption
    DEF ControlInv, Untouched, AtomicPlaces, TwoStepPlaces, Renaming, WellFormed,
        RenamersTurn, AttemptsTurn, Others, goVars, mainVars, pipeVars, tableVars,
        OnlyThese, Receives
<1>20. ASSUME NEW a \in Attempt, ServerRenames(a) PROVE ControlInv'
    BY <1>20, ServerRenamesEffect, GivenKept, Kinds, CutOverAssumption
    DEF ControlInv, Untouched, AtomicPlaces, TwoStepPlaces, Renaming, WellFormed,
        ServersTurn, AttemptsTurn, Others, goVars, mainVars, pipeVars, tableVars
<1>21. ASSUME NEW a \in Attempt, ServerTimesOut(a) PROVE ControlInv'
    BY <1>21, ServerTimesOutEffect, GivenKept, Kinds, CutOverAssumption
    DEF ControlInv, Untouched, AtomicPlaces, TwoStepPlaces, Renaming, WellFormed,
        ServersTurn, AttemptsTurn, Others, goVars, mainVars, pipeVars, tableVars
<1>22. ASSUME StartAttempt PROVE ControlInv'
    BY <1>22, StartAttemptEffect, GivenKept, Kinds, CutOverAssumption
    DEF ControlInv, Untouched, AtomicPlaces, TwoStepPlaces, Renaming, WellFormed,
        Attempt, MainType, Others, goVars, mainVars, pipeVars, tableVars
<1>23. ASSUME AwaitTableLocked PROVE ControlInv'
    BY <1>23, AwaitTableLockedEffect, GivenKept, Kinds, CutOverAssumption
    DEF ControlInv, Untouched, AtomicPlaces, TwoStepPlaces, Renaming, WellFormed,
        MigratorsTurn, goVars, mainVars, pipeVars, tableVars, OnlyThese, Receives
<1>24. ASSUME WriteChallenge PROVE ControlInv'
    BY <1>24, WriteChallengeEffect, GivenKept, Kinds, CutOverAssumption
    DEF ControlInv, Untouched, AtomicPlaces, TwoStepPlaces, Renaming, WellFormed,
        goVars, mainVars, pipeVars, tableVars
<1>25. ASSUME AwaitChallenge PROVE ControlInv'
    BY <1>25, AwaitChallengeEffect, GivenKept, Kinds, CutOverAssumption
    DEF ControlInv, Untouched, AtomicPlaces, TwoStepPlaces, Renaming, WellFormed,
        goVars, mainVars, pipeVars, tableVars
<1>26. ASSUME ChallengeTimeout PROVE ControlInv'
    BY <1>26, ChallengeTimeoutEffect, GivenKept, Kinds, CutOverAssumption
    DEF ControlInv, Untouched, AtomicPlaces, TwoStepPlaces, Renaming, WellFormed,
        goVars, mainVars, pipeVars, tableVars
<1>27. ASSUME SpawnRename PROVE ControlInv'
    BY <1>27, SpawnRenameEffect, GivenKept, Kinds, CutOverAssumption
    DEF ControlInv, Untouched, AtomicPlaces, TwoStepPlaces, Renaming, WellFormed,
        Attempt, MainType, MigratorsTurn, Others, goVars, mainVars, pipeVars, tableVars
<1>28. ASSUME AwaitRenameSessionId PROVE ControlInv'
    BY <1>28, AwaitRenameSessionIdEffect, GivenKept, Kinds, CutOverAssumption
    DEF ControlInv, Untouched, AtomicPlaces, TwoStepPlaces, Renaming, WellFormed,
        MigratorsTurn, goVars, mainVars, pipeVars, tableVars, OnlyThese, Receives
<1>29. ASSUME ExpectRename PROVE ControlInv'
    BY <1>29, ExpectRenameEffect, GivenKept, Kinds, CutOverAssumption
    DEF ControlInv, Untouched, AtomicPlaces, TwoStepPlaces, Renaming, WellFormed,
        MigratorsTurn, goVars, mainVars, pipeVars, tableVars
<1>30. ASSUME ExpectRenameGivesUp PROVE ControlInv'
    BY <1>30, ExpectRenameGivesUpEffect, GivenKept, Kinds, CutOverAssumption
    DEF ControlInv, Untouched, AtomicPlaces, TwoStepPlaces, Renaming, WellFormed,
        Attempt, MainType, MigratorsTurn, goVars, mainVars, pipeVars, tableVars,
        OnlyThese, Receives
<1>31. ASSUME ExpectLock PROVE ControlInv'
    BY <1>31, ExpectLockEffect, GivenKept, Kinds, CutOverAssumption
    DEF ControlInv, Untouched, AtomicPlaces, TwoStepPlaces, Renaming, WellFormed,
        MigratorsTurn, goVars, mainVars, pipeVars, tableVars
<1>32. ASSUME Release PROVE ControlInv'
    BY <1>32, ReleaseEffect, GivenKept, Kinds, CutOverAssumption
    DEF ControlInv, Untouched, AtomicPlaces, TwoStepPlaces, Renaming, WellFormed,
        Attempt, MainType, MigratorsTurn, goVars, mainVars, pipeVars, tableVars,
        OnlyThese, Receives
<1>33. ASSUME AwaitUnlocked PROVE ControlInv'
    BY <1>33, AwaitUnlockedEffect, GivenKept, Kinds, CutOverAssumption
    DEF ControlInv, Untouched, AtomicPlaces, TwoStepPlaces, Renaming, WellFormed,
        MigratorsTurn, goVars, mainVars, pipeVars, tableVars, OnlyThese, Receives
<1>34. ASSUME AwaitRenamed PROVE ControlInv'
    BY <1>34, AwaitRenamedEffect, GivenKept, Kinds, CutOverAssumption
    DEF ControlInv, Untouched, AtomicPlaces, TwoStepPlaces, Renaming, WellFormed,
        MigratorsTurn, goVars, mainVars, pipeVars, tableVars, OnlyThese, Receives
<1>35. ASSUME Leave PROVE ControlInv'
    BY <1>35, LeaveEffect, GivenKept, Kinds, CutOverAssumption
    DEF ControlInv, Untouched, AtomicPlaces, TwoStepPlaces, Renaming, WellFormed,
        Attempt, MainType, MigratorsTurn, goVars, mainVars, pipeVars, tableVars,
        OnlyThese, Receives
<1>36. ASSUME CheckSentry PROVE ControlInv'
    BY <1>36, CheckSentryEffect, GivenKept, Kinds, CutOverAssumption
    DEF ControlInv, Untouched, AtomicPlaces, TwoStepPlaces, Renaming, WellFormed,
        MigratorsTurn, Returned, goVars, mainVars, pipeVars, tableVars
<1>37. ASSUME DropSentry PROVE ControlInv'
    BY <1>37, DropSentryEffect, GivenKept, Kinds, CutOverAssumption
    DEF ControlInv, Untouched, AtomicPlaces, TwoStepPlaces, Renaming, WellFormed,
        MigratorsTurn, Returned, goVars, mainVars, pipeVars, tableVars
<1>38. ASSUME \/ ProcessExits \/ ConnectionLost PROVE ControlInv'
    BY <1>38, <1>1, ProcessExitsEffect, ConnectionLostEffect
    DEF TwoStepsTurn, goVars, mainVars, pipeVars, tableVars
<1>39. ASSUME StartTwoStep PROVE ControlInv'
    BY <1>39, StartTwoStepEffect, GivenKept, Kinds, CutOverAssumption
    DEF ControlInv, Untouched, AtomicPlaces, TwoStepPlaces, Renaming, WellFormed,
        TwoStepsTurn, goVars, mainVars, pipeVars, tableVars
<1>40. ASSUME LockOriginalTable PROVE ControlInv'
    BY <1>40, LockOriginalTableEffect, GivenKept, Kinds, CutOverAssumption
    DEF ControlInv, Untouched, AtomicPlaces, TwoStepPlaces, Renaming, WellFormed,
        TwoStepsTurn, goVars, mainVars, pipeVars, tableVars
<1>41. ASSUME RenameOriginal PROVE ControlInv'
    BY <1>41, RenameOriginalEffect, GivenKept, Kinds, CutOverAssumption
    DEF ControlInv, Untouched, AtomicPlaces, TwoStepPlaces, Renaming, WellFormed,
        TwoStepsTurn, goVars, mainVars, pipeVars, tableVars
<1>42. ASSUME RenameGhost PROVE ControlInv'
    BY <1>42, RenameGhostEffect, GivenKept, Kinds, CutOverAssumption
    DEF ControlInv, Untouched, AtomicPlaces, TwoStepPlaces, Renaming, WellFormed,
        TwoStepsTurn, goVars, mainVars, pipeVars, tableVars
<1>43. ASSUME UnlockTables PROVE ControlInv'
    BY <1>43, UnlockTablesEffect, GivenKept, Kinds, CutOverAssumption
    DEF ControlInv, Untouched, AtomicPlaces, TwoStepPlaces, Renaming, WellFormed,
        TwoStepsTurn, goVars, mainVars, pipeVars, tableVars
<1> QED
    BY <1>1, <1>2, <1>3, <1>4, <1>5, <1>6, <1>7, <1>8, <1>9, <1>10, <1>11, <1>12, <1>13,
       <1>14, <1>15, <1>16, <1>17, <1>18, <1>19, <1>20, <1>21, <1>22, <1>23, <1>24,
       <1>25, <1>26, <1>27, <1>28, <1>29, <1>30, <1>31, <1>32, <1>33, <1>34, <1>35,
       <1>36, <1>37, <1>38, <1>39, <1>40, <1>41, <1>42, <1>43
    DEF Step, Migrator, Locker, Renamer, Server

(* New entries of the log are behind all that is on its way.               *)
LEMMA PipelineGrows ==
    ASSUME PipeType, PipelineInv, NEW e \in Attempt \cup {AppWrite}, log' = Append(log, e),
           UNCHANGED <<read, async, queue, sending, applied>>
    PROVE  PipelineInv'
<1>1. /\ \A i \in Writes' : i <= Len(log) => i \in Writes
      /\ \A j \in DOMAIN log : log'[j] = log[j]
      /\ DOMAIN log = 1..Len(log) /\ Len(log) \in Nat
    BY LogGrows DEF Writes
<1>2. /\ read \in 0..Len(log) /\ sending \in 0..Len(log) /\ async \subseteq DOMAIN log
      /\ \A p \in DOMAIN queue : queue[p] \in DOMAIN log
      /\ Writes' \subseteq Nat
    BY LogGrows DEF PipeType, Writes
<1>3. \A i, p : Arrives(i, p)' <=> Arrives(i, p)
    BY DEF Arrives, InQueue
<1>4. \A i \in Writes' : i <= read => Arrives(i, Len(queue) + 1)
    BY <1>1, <1>2 DEF PipelineInv
<1>5. ASSUME NEW p \in DOMAIN queue, log[queue[p]] # AppWrite, NEW i \in Writes', i < queue[p]
      PROVE  Arrives(i, p)
    <2>1. queue[p] <= Len(log) /\ queue[p] \in Nat /\ i \in Nat
        BY <1>1, <1>2
    <2> QED
        BY <1>1, <1>5, <2>1 DEF PipelineInv
<1>6. sending # 0 => sending \in DOMAIN log /\ \A i \in Writes' : i < sending => i \in applied
    BY <1>1, <1>2 DEF PipelineInv
<1> QED
    BY <1>1, <1>2, <1>3, <1>4, <1>5, <1>6 DEF PipelineInv

(* The streamer queues a write behind all earlier ones.                    *)
LEMMA StreamEventKeepsPipeline ==
    ASSUME WellFormed, PipelineInv, StreamEvent
    PROVE  PipelineInv'
<1>r. PICK r : r = read + 1
    OBVIOUS
<1>n. PICK n : n = Len(queue)
    OBVIOUS
<1>1. /\ r \in DOMAIN log /\ read' = r /\ UNCHANGED <<log, sending, applied>>
      /\ Writes' = Writes
      /\ PipeType /\ read \in Nat /\ Len(queue) \in Nat /\ DOMAIN queue = 1..Len(queue)
      /\ \A i \in Writes : i \in Nat
    BY <1>r, StreamEventEffect DEF WellFormed, PipeType, Writes
<1>2. CASE log[r] = AppWrite /\ queue' = Append(queue, r) /\ async' = async
    <2>1. /\ Len(queue') = Len(queue) + 1 /\ DOMAIN queue' = 1..(Len(queue) + 1)
          /\ queue'[Len(queue) + 1] = r /\ \A p \in DOMAIN queue : queue'[p] = queue[p]
        BY <1>1, <1>2, QueueGrows
    <2>2. \A i, p : p \in 1..(Len(queue) + 1) /\ Arrives(i, p) => Arrives(i, p)'
        BY <1>1, <2>1 DEF Arrives, InQueue
    <2>3. Arrives(r, n + 2)'
        BY <1>1, <1>n, <2>1 DEF Arrives, InQueue
    <2>4. \A i : Arrives(i, n + 1)' => Arrives(i, n + 2)'
        BY <1>1, <1>n DEF Arrives, InQueue
    <2>5. \A i \in Writes : i <= r => Arrives(i, n + 2)'
        <3>1. \A i \in Writes : i <= read => Arrives(i, Len(queue) + 1)
            BY DEF PipelineInv
        <3>2. \A i \in Writes : i <= r => i <= read \/ i = r
            BY <1>1, <1>r
        <3> QED
            BY <1>1, <1>n, <2>2, <2>3, <2>4, <3>1, <3>2
    <2>6. ASSUME NEW p \in DOMAIN queue', log[queue'[p]] # AppWrite, NEW i \in Writes, i < queue'[p]
          PROVE  Arrives(i, p)'
        <3>1. p \in DOMAIN queue /\ queue'[p] = queue[p]
            BY <1>1, <1>2, <2>1, <2>6
        <3>2. Arrives(i, p)
            BY <2>6, <3>1 DEF PipelineInv
        <3> QED
            BY <1>1, <2>2, <3>1, <3>2
    <2>7. Len(queue') + 1 = Len(queue) + 2
        BY <1>1, <2>1
    <2>8. \A j \in async : log[j] # AppWrite /\ j <= r
        BY <1>1, <1>r DEF PipelineInv, PipeType
    <2> QED
        BY <1>1, <1>2, <1>n, <2>5, <2>6, <2>7, <2>8 DEF PipelineInv
<1>3. CASE log[r] # AppWrite /\ queue' = queue /\ async' = async \cup {r}
    <2>1. \A i, p : Arrives(i, p)' <=> Arrives(i, p)
        BY <1>1, <1>3 DEF Arrives, InQueue
    <2>2. \A i \in Writes : i <= r => i <= read
        BY <1>1, <1>3, <1>r DEF Writes
    <2>3. \A j \in async' : log[j] # AppWrite /\ j <= r
        BY <1>1, <1>3, <1>r DEF PipelineInv, PipeType
    <2> QED
        BY <1>1, <1>3, <2>1, <2>2, <2>3 DEF PipelineInv
<1> QED
    BY <1>2, <1>3, <1>r, StreamEventEffect

(* A challenge is queued behind every write the streamer has read.         *)
LEMMA EnqueueChallengeKeepsPipeline ==
    ASSUME WellFormed, PipelineInv, EnqueueChallenge
    PROVE  PipelineInv'
<1>n. PICK n : n = Len(queue)
    OBVIOUS
<1>1. PICK c \in async : c \in DOMAIN log /\ queue' = Append(queue, c) /\ async' = async \ {c}
    BY EnqueueChallengeEffect
<1>2. /\ UNCHANGED <<log, read, sending, applied>> /\ Writes' = Writes
      /\ PipeType /\ Len(queue) \in Nat /\ DOMAIN queue = 1..Len(queue) /\ read \in Nat
      /\ c \in Nat /\ \A i \in Writes : i \in Nat
    BY <1>1, EnqueueChallengeEffect DEF WellFormed, PipeType, Writes
<1>3. /\ Len(queue') = Len(queue) + 1 /\ DOMAIN queue' = 1..(Len(queue) + 1)
      /\ queue'[Len(queue) + 1] = c /\ \A p \in DOMAIN queue : queue'[p] = queue[p]
    BY <1>1, <1>2, QueueGrows
<1>4. \A i, p : p \in 1..(Len(queue) + 1) /\ Arrives(i, p) => Arrives(i, p)'
    BY <1>2, <1>3 DEF Arrives, InQueue
<1>5. \A i : Arrives(i, n + 1)' => Arrives(i, n + 2)'
    BY <1>2, <1>3, <1>n DEF Arrives, InQueue
<1>6. \A i \in Writes : i <= read => Arrives(i, n + 1)'
    BY <1>2, <1>4, <1>n DEF PipelineInv
<1>7. ASSUME NEW p \in DOMAIN queue', log[queue'[p]] # AppWrite, NEW i \in Writes, i < queue'[p]
      PROVE  Arrives(i, p)'
    <2>1. CASE p \in DOMAIN queue
        <3>1. Arrives(i, p)
            BY <1>3, <1>7, <2>1 DEF PipelineInv
        <3> QED
            BY <1>2, <1>4, <2>1, <3>1
    <2>2. CASE p = Len(queue) + 1
        <3>1. i < c /\ c <= read
            BY <1>1, <1>3, <1>7, <2>2 DEF PipelineInv
        <3> QED
            BY <1>2, <1>6, <1>n, <2>2, <3>1
    <2> QED
        BY <1>2, <1>3, <1>7, <2>1, <2>2
<1>8. Len(queue') + 1 = n + 2
    BY <1>2, <1>3, <1>n
<1> QED
    BY <1>1, <1>2, <1>5, <1>6, <1>7, <1>8 DEF PipelineInv

(* The executor applies the writes before a challenge first.               *)
LEMMA ExecuteEventKeepsPipeline ==
    ASSUME WellFormed, PipelineInv, ExecuteEvent
    PROVE  PipelineInv'
<1>n. PICK n : n = Len(queue)
    OBVIOUS
<1>1. /\ queue # <<>> /\ queue' = Tail(queue) /\ UNCHANGED <<log, read, async>> /\ Writes' = Writes
      /\ PipeType /\ \A i \in Writes : i \in Nat
    BY ExecuteEventEffect DEF WellFormed, PipeType, Writes
<1>2. /\ Len(queue) \in Nat \ {0} /\ Len(queue') = Len(queue) - 1
      /\ queue[1] \in DOMAIN log /\ 1 \in DOMAIN queue
      /\ DOMAIN queue = 1..Len(queue) /\ DOMAIN queue' = 1..(Len(queue) - 1)
      /\ \A p \in DOMAIN queue' : queue'[p] = queue[p + 1]
    BY <1>1, QueueShrinks
<1>3. ASSUME NEW i, NEW p \in 1..(Len(queue) + 1), InQueue(i, p), i # queue[1]
      PROVE  InQueue(i, p - 1)'
    <2>1. PICK q \in 1..(p - 1) : queue[q] = i
        BY <1>3 DEF InQueue
    <2>2. q - 1 \in 1..(p - 2) /\ q - 1 \in DOMAIN queue' /\ queue'[q - 1] = i
        BY <1>2, <1>3, <2>1
    <2> QED
        BY <2>2 DEF InQueue
<1>4. \A i : ~InQueue(i, 1)
    BY DEF InQueue
<1>5. /\ \/ log[queue[1]] = AppWrite /\ applied' = applied \cup {queue[1]} /\ sending' = 0
         \/ log[queue[1]] # AppWrite /\ sending' = queue[1] /\ applied' = applied
      /\ applied \subseteq applied'
    BY ExecuteEventEffect
<1>6. \A i \in Writes : \A p \in 1..(Len(queue) + 1) : Arrives(i, p) => Arrives(i, p - 1)'
    BY <1>3, <1>5 DEF Arrives, Writes
<1>7. \A i \in Writes : i <= read => Arrives(i, n)'
    <2>1. Len(queue) + 1 \in 1..(Len(queue) + 1) /\ (Len(queue) + 1) - 1 = Len(queue)
        BY <1>2
    <2> QED
        BY <1>6, <1>n, <2>1 DEF PipelineInv
<1>8. ASSUME NEW p \in DOMAIN queue', log[queue'[p]] # AppWrite, NEW i \in Writes, i < queue'[p]
      PROVE  Arrives(i, p)'
    <2>1. p + 1 \in DOMAIN queue /\ queue[p + 1] = queue'[p] /\ p + 1 \in 1..(Len(queue) + 1)
          /\ (p + 1) - 1 = p
        BY <1>2
    <2>2. Arrives(i, p + 1)
        BY <1>8, <2>1 DEF PipelineInv
    <2> QED
        BY <1>6, <2>1, <2>2
<1>9. sending' # 0 => log[sending'] # AppWrite /\ \A i \in Writes : i < sending' => i \in applied'
    BY <1>2, <1>4, <1>5 DEF PipelineInv, Arrives
<1>10. Len(queue') + 1 = Len(queue)
    BY <1>2
<1> QED
    BY <1>1, <1>7, <1>8, <1>9, <1>10, <1>n DEF PipelineInv

(* Every step keeps writes and challenges in order.                        *)
LEMMA PipelineKept ==
    ASSUME WellFormed, PipelineInv, Step, UNCHANGED given
    PROVE  PipelineInv'
<1>1. ASSUME UNCHANGED <<log, read, queue, async, applied, sending>> PROVE PipelineInv'
    BY <1>1 DEF PipelineInv, Arrives, InQueue, Writes
<1>2. ASSUME ApplicationWrites PROVE PipelineInv'
    BY <1>2, ApplicationWritesEffect, PipelineGrows DEF WellFormed
<1>3. ASSUME StreamEvent PROVE PipelineInv'
    BY <1>3, StreamEventKeepsPipeline
<1>4. ASSUME EnqueueChallenge PROVE PipelineInv'
    BY <1>4, EnqueueChallengeKeepsPipeline
<1>5. ASSUME ExecuteEvent PROVE PipelineInv'
    BY <1>5, ExecuteEventKeepsPipeline
<1>6. ASSUME NEW a \in Attempt, \/ LockSession(a) \/ LockBeginFails(a) \/ LockFails(a)
             \/ SentryCheck(a) \/ SentryClear(a) \/ SentryCreate(a) \/ LockTables(a)
             \/ LockTold(a) \/ LockDropSentry(a) \/ LockUnlock(a) \/ LockDies(a)
      PROVE  PipelineInv'
    BY <1>6, <1>1, LockSessionEffect, LockBeginFailsEffect, LockFailsEffect,
       SentryCheckEffect, SentryClearEffect, SentryCreateEffect, LockTablesEffect,
       LockToldEffect, LockDropSentryEffect, LockUnlockEffect, LockDiesEffect
    DEF LockersTurn, AttemptsTurn, Others, goVars, pipeVars, tableVars, mainVars
<1>7. ASSUME NEW a \in Attempt, \/ RenameSession(a) \/ RenameIssue(a) \/ RenameReturns(a)
             \/ RenameBeginFails(a) \/ RenameFails(a) \/ RenameReturnsError(a)
             \/ ServerRenames(a) \/ ServerTimesOut(a)
      PROVE  PipelineInv'
    BY <1>7, <1>1, RenameSessionEffect, RenameIssueEffect, RenameReturnsEffect,
       RenameBeginFailsEffect, RenameFailsEffect, RenameReturnsErrorEffect,
       ServerRenamesEffect, ServerTimesOutEffect
    DEF RenamersTurn, AttemptsTurn, Others, ServersTurn, goVars, pipeVars, tableVars,
        mainVars
<1>8. ASSUME \/ StartAttempt \/ AwaitTableLocked \/ ChallengeTimeout \/ SpawnRename
             \/ AwaitRenameSessionId \/ ExpectRename \/ ExpectRenameGivesUp
             \/ ExpectLock \/ Release \/ AwaitUnlocked \/ AwaitRenamed \/ Leave
             \/ CheckSentry \/ DropSentry PROVE PipelineInv'
    BY <1>8, <1>1, StartAttemptEffect, AwaitTableLockedEffect, ChallengeTimeoutEffect,
       SpawnRenameEffect, AwaitRenameSessionIdEffect, ExpectRenameEffect,
       ExpectRenameGivesUpEffect, ExpectLockEffect, ReleaseEffect, AwaitUnlockedEffect,
       AwaitRenamedEffect, LeaveEffect, CheckSentryEffect, DropSentryEffect
    DEF Others, MigratorsTurn, Returned, goVars, pipeVars, tableVars
<1>9. ASSUME WriteChallenge PROVE PipelineInv'
    <2>1. UNCHANGED <<read, async, queue, sending, applied>> /\ attempt \in Attempt
          /\ (log' = log \/ log' = Append(log, Challenge))
        BY <1>9, WriteChallengeEffect
    <2>2. CASE log' = log
        BY <1>1, <2>1, <2>2
    <2> QED
        BY <2>1, <2>2, PipelineGrows, ChallengeIsAttempt DEF WellFormed
<1>10. ASSUME AwaitChallenge PROVE PipelineInv'
    <2>1. UNCHANGED <<log, read, async, queue, applied>> /\ sending' = 0
        BY <1>10, AwaitChallengeEffect
    <2> QED
        BY <2>1 DEF PipelineInv, Arrives, InQueue, Writes
<1>11. ASSUME \/ StartTwoStep \/ LockOriginalTable \/ RenameOriginal \/ RenameGhost
             \/ UnlockTables \/ ProcessExits \/ ConnectionLost PROVE PipelineInv'
    BY <1>11, <1>1, StartTwoStepEffect, LockOriginalTableEffect, RenameOriginalEffect,
       RenameGhostEffect, UnlockTablesEffect, ProcessExitsEffect, ConnectionLostEffect
    DEF TwoStepsTurn, goVars, pipeVars, tableVars
<1> QED
    BY <1>1, <1>2, <1>3, <1>4, <1>5, <1>6, <1>7, <1>8, <1>9, <1>10, <1>11
    DEF Step, Migrator, Locker, Renamer, Server

(* The log grows behind what the streamer has read.                        *)
LEMMA OrderGrows ==
    ASSUME PipeType, OrderInv, NEW e \in Attempt \cup {AppWrite}, log' = Append(log, e),
           UNCHANGED <<read, queue, applied>>
    PROVE  OrderInv'
<1>1. \A i \in Writes' : i \in DOMAIN log => i \in Writes
    BY LogGrows DEF Writes
<1>2. \A p \in DOMAIN queue : queue[p] \in DOMAIN log
    BY DEF PipeType
<1>3. DOMAIN queue = 1..Len(queue) /\ Len(queue) \in Nat
    BY DEF PipeType
<1>4. \A p \in DOMAIN queue : queue[p] \in Writes' => queue[p] \in Writes
    BY <1>1, <1>2
<1>5. \A p \in DOMAIN queue : \A q \in 1 .. p - 1 : q \in DOMAIN queue
    BY <1>3
<1> QED
    BY <1>4, <1>5 DEF OrderInv

(* What is queued was read later than any write before it.                 *)
LEMMA StreamEventKeepsOrder ==
    ASSUME WellFormed, OrderInv, StreamEvent
    PROVE  OrderInv'
<1>r. PICK r : r = read + 1
    OBVIOUS
<1>1. /\ r \in DOMAIN log /\ read' = r /\ UNCHANGED <<log, applied>> /\ Writes' = Writes
      /\ PipeType /\ read \in Nat /\ Len(queue) \in Nat /\ DOMAIN queue = 1..Len(queue)
      /\ DOMAIN log \subseteq Nat /\ applied \subseteq Nat /\ \A p \in DOMAIN queue : queue[p] \in Nat
    BY <1>r, StreamEventEffect DEF WellFormed, PipeType, Writes
<1>2. /\ \A p \in DOMAIN queue : queue[p] < r
      /\ \A i \in applied : i < r
    BY <1>1, <1>r DEF OrderInv
<1>3. CASE queue' = queue
    BY <1>1, <1>2, <1>3 DEF OrderInv
<1>4. CASE queue' = Append(queue, r)
    <2>1. /\ DOMAIN queue' = 1..(Len(queue) + 1)
          /\ queue'[Len(queue) + 1] = r /\ \A p \in DOMAIN queue : queue'[p] = queue[p]
        BY <1>1, <1>4, QueueGrows
    <2>2. \A p \in DOMAIN queue' : queue'[p] <= r
        BY <1>1, <1>2, <2>1
    <2>3. ASSUME NEW p \in DOMAIN queue', queue'[p] \in Writes
          PROVE  /\ \A q \in 1 .. p - 1 : queue'[q] \in Writes => queue'[q] < queue'[p]
                 /\ \A i \in applied : i < queue'[p]
        <3>1. \A q \in 1 .. p - 1 : q \in DOMAIN queue /\ queue'[q] = queue[q]
            BY <1>1, <2>1
        <3>2. CASE p = Len(queue) + 1
            BY <1>2, <2>1, <3>1, <3>2
        <3>3. CASE p \in DOMAIN queue
            BY <2>1, <2>3, <3>1, <3>3 DEF OrderInv
        <3> QED
            BY <1>1, <2>1, <3>2, <3>3
    <2>4. \A i \in applied : i <= r
        BY <1>1, <1>2
    <2> QED
        BY <1>1, <2>2, <2>3, <2>4 DEF OrderInv
<1> QED
    BY <1>3, <1>4, <1>r, StreamEventEffect

(* A challenge does not come between writes.                               *)
LEMMA EnqueueChallengeKeepsOrder ==
    ASSUME WellFormed, PipelineInv, OrderInv, EnqueueChallenge
    PROVE  OrderInv'
<1>1. PICK c \in async : c \in DOMAIN log /\ queue' = Append(queue, c)
    BY EnqueueChallengeEffect
<1>2. /\ UNCHANGED <<log, read, applied>> /\ Writes' = Writes
      /\ PipeType /\ Len(queue) \in Nat /\ DOMAIN queue = 1..Len(queue)
    BY EnqueueChallengeEffect DEF WellFormed, PipeType, Writes
<1>3. c \notin Writes /\ c <= read
    BY <1>1 DEF PipelineInv, Writes
<1>4. /\ DOMAIN queue' = 1..(Len(queue) + 1)
      /\ queue'[Len(queue) + 1] = c /\ \A p \in DOMAIN queue : queue'[p] = queue[p]
    BY <1>1, <1>2, QueueGrows
<1>5. \A p \in DOMAIN queue' : queue'[p] <= read
    BY <1>2, <1>3, <1>4 DEF OrderInv
<1>6. ASSUME NEW p \in DOMAIN queue', queue'[p] \in Writes
      PROVE  /\ \A q \in 1 .. p - 1 : queue'[q] \in Writes => queue'[q] < queue'[p]
             /\ \A i \in applied : i < queue'[p]
    <2>1. p \in DOMAIN queue
        BY <1>2, <1>3, <1>4, <1>6
    <2>2. \A q \in 1 .. p - 1 : q \in DOMAIN queue /\ queue'[q] = queue[q]
        BY <1>2, <1>4, <2>1
    <2> QED
        BY <1>4, <1>6, <2>1, <2>2 DEF OrderInv
<1> QED
    BY <1>2, <1>5, <1>6 DEF OrderInv

(* The executor takes the least of the writes that are left.               *)
LEMMA ExecuteEventKeepsOrder ==
    ASSUME WellFormed, OrderInv, ExecuteEvent
    PROVE  OrderInv'
<1>1. /\ queue # <<>> /\ queue' = Tail(queue) /\ UNCHANGED <<log, read>> /\ Writes' = Writes
      /\ PipeType
    BY ExecuteEventEffect DEF WellFormed, Writes
<1>2. /\ Len(queue) \in Nat \ {0} /\ queue[1] \in DOMAIN log /\ 1 \in DOMAIN queue
      /\ DOMAIN queue = 1..Len(queue) /\ DOMAIN queue' = 1..(Len(queue) - 1)
      /\ \A p \in DOMAIN queue' : queue'[p] = queue[p + 1]
    BY <1>1, QueueShrinks
<1>3. applied' = applied \/ (applied' = applied \cup {queue[1]} /\ queue[1] \in Writes)
    BY <1>2, ExecuteEventEffect DEF Writes
<1>4. \A p \in DOMAIN queue' : p + 1 \in DOMAIN queue /\ 1 \in 1 .. (p + 1) - 1
    BY <1>2
<1>5. \A p \in DOMAIN queue' : queue'[p] <= read
    BY <1>2, <1>4 DEF OrderInv
<1>6. \A i \in applied' : i <= read
    BY <1>2, <1>3 DEF OrderInv
<1>7. ASSUME NEW p \in DOMAIN queue', queue'[p] \in Writes
      PROVE  /\ \A q \in 1 .. p - 1 : queue'[q] \in Writes => queue'[q] < queue'[p]
             /\ \A i \in applied' : i < queue'[p]
    <2>1. p + 1 \in DOMAIN queue /\ queue[p + 1] \in Writes /\ queue'[p] = queue[p + 1]
        BY <1>2, <1>4, <1>7
    <2>2. /\ \A q \in 1 .. (p + 1) - 1 : queue[q] \in Writes => queue[q] < queue[p + 1]
          /\ \A i \in applied : i < queue[p + 1]
        BY <2>1 DEF OrderInv
    <2>3. \A q \in 1 .. p - 1 : q \in DOMAIN queue' /\ q + 1 \in 1 .. (p + 1) - 1
        BY <1>2
    <2>4. \A q \in 1 .. p - 1 : queue'[q] = queue[q + 1]
        BY <1>2, <2>3
    <2>5. \A q \in 1 .. p - 1 : queue'[q] \in Writes => queue'[q] < queue'[p]
        BY <2>1, <2>2, <2>3, <2>4
    <2>6. \A i \in applied' : i < queue'[p]
        BY <1>3, <1>4, <2>1, <2>2
    <2> QED
        BY <2>5, <2>6
<1> QED
    BY <1>1, <1>5, <1>6, <1>7 DEF OrderInv

(* Every step keeps the writes in order.                                   *)
LEMMA OrderKept ==
    ASSUME WellFormed, PipelineInv, OrderInv, Step, UNCHANGED given
    PROVE  OrderInv'
<1>1. ASSUME UNCHANGED <<log, read, queue, applied>> PROVE OrderInv'
    BY <1>1 DEF OrderInv, Writes
<1>2. ASSUME ApplicationWrites PROVE OrderInv'
    BY <1>2, ApplicationWritesEffect, OrderGrows DEF WellFormed
<1>3. ASSUME StreamEvent PROVE OrderInv'
    BY <1>3, StreamEventKeepsOrder
<1>4. ASSUME EnqueueChallenge PROVE OrderInv'
    BY <1>4, EnqueueChallengeKeepsOrder
<1>5. ASSUME ExecuteEvent PROVE OrderInv'
    BY <1>5, ExecuteEventKeepsOrder
<1>6. ASSUME NEW a \in Attempt, \/ LockSession(a) \/ LockBeginFails(a) \/ LockFails(a)
             \/ SentryCheck(a) \/ SentryClear(a) \/ SentryCreate(a) \/ LockTables(a)
             \/ LockTold(a) \/ LockDropSentry(a) \/ LockUnlock(a) \/ LockDies(a)
      PROVE  OrderInv'
    BY <1>6, <1>1, LockSessionEffect, LockBeginFailsEffect, LockFailsEffect,
       SentryCheckEffect, SentryClearEffect, SentryCreateEffect, LockTablesEffect,
       LockToldEffect, LockDropSentryEffect, LockUnlockEffect, LockDiesEffect
    DEF LockersTurn, AttemptsTurn, pipeVars
<1>7. ASSUME NEW a \in Attempt, \/ RenameSession(a) \/ RenameIssue(a) \/ RenameReturns(a)
             \/ RenameBeginFails(a) \/ RenameFails(a) \/ RenameReturnsError(a)
             \/ ServerRenames(a) \/ ServerTimesOut(a)
      PROVE  OrderInv'
    BY <1>7, <1>1, RenameSessionEffect, RenameIssueEffect, RenameReturnsEffect,
       RenameBeginFailsEffect, RenameFailsEffect, RenameReturnsErrorEffect,
       ServerRenamesEffect, ServerTimesOutEffect
    DEF RenamersTurn, AttemptsTurn, ServersTurn, pipeVars
<1>8. ASSUME \/ StartAttempt \/ AwaitTableLocked \/ ChallengeTimeout \/ SpawnRename
             \/ AwaitRenameSessionId \/ ExpectRename \/ ExpectRenameGivesUp
             \/ ExpectLock \/ Release \/ AwaitUnlocked \/ AwaitRenamed \/ Leave
             \/ CheckSentry \/ DropSentry PROVE OrderInv'
    BY <1>8, <1>1, StartAttemptEffect, AwaitTableLockedEffect, ChallengeTimeoutEffect,
       SpawnRenameEffect, AwaitRenameSessionIdEffect, ExpectRenameEffect,
       ExpectRenameGivesUpEffect, ExpectLockEffect, ReleaseEffect, AwaitUnlockedEffect,
       AwaitRenamedEffect, LeaveEffect, CheckSentryEffect, DropSentryEffect
    DEF MigratorsTurn, pipeVars
<1>9. ASSUME WriteChallenge PROVE OrderInv'
    <2>1. UNCHANGED <<read, queue, applied>> /\ attempt \in Attempt
          /\ (log' = log \/ log' = Append(log, Challenge))
        BY <1>9, WriteChallengeEffect
    <2>2. CASE log' = log
        BY <1>1, <2>1, <2>2
    <2> QED
        BY <2>1, <2>2, OrderGrows, ChallengeIsAttempt DEF WellFormed
<1>10. ASSUME AwaitChallenge PROVE OrderInv'
    BY <1>10, <1>1, AwaitChallengeEffect
<1>11. ASSUME \/ StartTwoStep \/ LockOriginalTable \/ RenameOriginal \/ RenameGhost
             \/ UnlockTables \/ ProcessExits \/ ConnectionLost PROVE OrderInv'
    BY <1>11, <1>1, StartTwoStepEffect, LockOriginalTableEffect, RenameOriginalEffect,
       RenameGhostEffect, UnlockTablesEffect, ProcessExitsEffect, ConnectionLostEffect
    DEF TwoStepsTurn, pipeVars
<1> QED
    BY <1>1, <1>2, <1>3, <1>4, <1>5, <1>6, <1>7, <1>8, <1>9, <1>10, <1>11
    DEF Step, Migrator, Locker, Renamer, Server

(* The lengths of the channels of AtomicCutOverMagicLock.                  *)
LEMMA LockLengths ==
    ASSUME WellFormed, NEW a \in Attempt
    PROVE  Len(chan[a].tableLocked) \in Nat /\ Len(chan[a].tableUnlocked) \in Nat
BY Lengths, Typed DEF WellFormed

(* Every step keeps the discipline of AtomicCutOverMagicLock.              *)
LEMMA LockerKept ==
    ASSUME WellFormed, LockerInv, Step, UNCHANGED given
    PROVE  LockerInv'
<1>1. ASSUME UNCHANGED <<attempt, main, locker, alive, lockHolder, chan, log>>
      PROVE  LockerInv'
    BY <1>1, GivenKept DEF LockerInv, LockerOf, Locking, Holding, BeforeRename
<1>2. ASSUME \/ StreamEvent \/ EnqueueChallenge \/ ExecuteEvent PROVE LockerInv'
    BY <1>2, <1>1, StreamEventEffect, EnqueueChallengeEffect, ExecuteEventEffect
    DEF PipesTurn, goVars, mainVars, pipeVars, tableVars
<1>3. ASSUME ApplicationWrites PROVE LockerInv'
    BY <1>3, ApplicationWritesEffect, GivenKept, Kinds, LogGrows, NotAttempts
    DEF LockerInv, LockerOf, Locking, Holding, BeforeRename, WellFormed, PipesTurn,
        goVars, mainVars, pipeVars, tableVars
<1>4. ASSUME NEW a \in Attempt, LockSession(a) PROVE LockerInv'
    BY <1>4, LockSessionEffect, GivenKept, Kinds
    DEF LockerInv, LockerOf, Locking, Holding, BeforeRename, LockersTurn, AttemptsTurn,
        Others, goVars, mainVars, pipeVars, tableVars
<1>5. ASSUME NEW a \in Attempt, LockBeginFails(a) PROVE LockerInv'
    BY <1>5, LockBeginFailsEffect, GivenKept, Kinds, Typed
    DEF LockerInv, LockerOf, Locking, Holding, BeforeRename, LockersTurn, AttemptsTurn,
        Others, goVars, mainVars, pipeVars, tableVars, OnlyThese, Sends, Appended,
        Receives
<1>6. ASSUME NEW a \in Attempt, LockFails(a) PROVE LockerInv'
    BY <1>6, LockFailsEffect, GivenKept, Kinds, Typed
    DEF LockerInv, LockerOf, Locking, Holding, BeforeRename, LockersTurn, AttemptsTurn,
        Others, goVars, mainVars, pipeVars, tableVars, OnlyThese, Sends, Appended,
        Receives
<1>7. ASSUME NEW a \in Attempt, SentryCheck(a) PROVE LockerInv'
    BY <1>7, SentryCheckEffect, GivenKept, Kinds
    DEF LockerInv, LockerOf, Locking, Holding, BeforeRename, LockersTurn, AttemptsTurn,
        Others, goVars, mainVars, pipeVars, tableVars
<1>8. ASSUME NEW a \in Attempt, SentryClear(a) PROVE LockerInv'
    BY <1>8, SentryClearEffect, GivenKept, Kinds
    DEF LockerInv, LockerOf, Locking, Holding, BeforeRename, LockersTurn, AttemptsTurn,
        Others, goVars, mainVars, pipeVars, tableVars
<1>9. ASSUME NEW a \in Attempt, SentryCreate(a) PROVE LockerInv'
    BY <1>9, SentryCreateEffect, GivenKept, Kinds
    DEF LockerInv, LockerOf, Locking, Holding, BeforeRename, LockersTurn, AttemptsTurn,
        Others, goVars, mainVars, pipeVars, tableVars
<1>10. ASSUME NEW a \in Attempt, LockTables(a) PROVE LockerInv'
    BY <1>10, LockTablesEffect, GivenKept, Kinds, NotAttempts, Typed
    DEF LockerInv, LockerOf, Locking, Holding, BeforeRename, Unlocked, LockersTurn,
        AttemptsTurn, Others, goVars, mainVars, pipeVars, tableVars, OnlyThese, Sends,
        Appended, Receives
<1>11. ASSUME NEW a \in Attempt, LockTold(a) PROVE LockerInv'
    BY <1>11, LockToldEffect, GivenKept, Kinds, Typed
    DEF LockerInv, LockerOf, Locking, Holding, BeforeRename, LockersTurn, AttemptsTurn,
        Others, goVars, mainVars, pipeVars, tableVars, OnlyThese, Sends, Appended,
        Receives
<1>12. ASSUME NEW a \in Attempt, LockDropSentry(a) PROVE LockerInv'
    BY <1>12, LockDropSentryEffect, GivenKept, Kinds
    DEF LockerInv, LockerOf, Locking, Holding, BeforeRename, LockersTurn, AttemptsTurn,
        Others, goVars, mainVars, pipeVars, tableVars
<1>13. ASSUME NEW a \in Attempt, LockUnlock(a) PROVE LockerInv'
    <2>1. \A b \in Attempt : b # a => /\ locker'[b] = locker[b] /\ alive'[b] = alive[b]
                                        /\ chan'[b].tableLocked = chan[b].tableLocked
                                        /\ chan'[b].tableUnlocked = chan[b].tableUnlocked
        BY <1>13, LockUnlockEffect, Typed DEF LockersTurn, Others, OnlyThese
    <2>2. /\ locker[a] = "unlock" /\ locker'[a] = "exited"
          /\ UNCHANGED <<attempt, main, log, alive>>
          /\ lockHolder' = IF lockHolder = a THEN NoOne ELSE lockHolder
        BY <1>13, LockUnlockEffect DEF LockersTurn, AttemptsTurn, pipeVars, mainVars
    <2>3. /\ Len(chan'[a].tableLocked) = Len(chan[a].tableLocked) + 1
          /\ chan[a].tableUnlocked = <<>> => Len(chan'[a].tableUnlocked) = 2
        BY <1>13, LockUnlockEffect DEF Sends, Appended
    <2>4. Atomic' => Atomic
        BY GivenKept
    <2>5. ASSUME Atomic, NEW b \in Attempt, b # a PROVE LockerOf(b)'
        BY <2>1, <2>2, <2>5, NotAttempts
        DEF LockerInv, LockerOf, Locking, Holding, BeforeRename
    <2>6. ASSUME Atomic PROVE LockerOf(a)'
        <3>1. Len(chan[a].tableLocked) <= 1 /\ chan[a].tableUnlocked = <<>>
            BY <2>2, <2>6 DEF LockerInv, LockerOf, Holding
        <3>2. Len(chan'[a].tableUnlocked) = 2
            BY <2>3, <3>1, Zenon
        <3>3. Len(chan[a].tableLocked) \in Nat
            BY LockLengths
        <3>4. Len(chan'[a].tableLocked) <= 2
            BY <2>3, <3>1, <3>3
        <3> QED
            BY <2>2, <2>6, <3>2, <3>4, NotAttempts
            DEF LockerInv, LockerOf, Locking, Holding, BeforeRename
    <2> QED
        BY <2>4, <2>5, <2>6 DEF LockerInv
<1>14. ASSUME NEW a \in Attempt, LockDies(a) PROVE LockerInv'
    BY <1>14, LockDiesEffect, GivenKept, Kinds, NotAttempts
    DEF LockerInv, LockerOf, Locking, Holding, BeforeRename, LockersTurn, AttemptsTurn,
        Others, goVars, mainVars, pipeVars, tableVars
<1>15. ASSUME NEW a \in Attempt, \/ RenameIssue(a) \/ ServerRenames(a) \/ ServerTimesOut(a)
      PROVE  LockerInv'
    BY <1>15, <1>1, RenameIssueEffect, ServerRenamesEffect, ServerTimesOutEffect
    DEF RenamersTurn, AttemptsTurn, Others, ServersTurn, goVars, mainVars, pipeVars,
        tableVars
<1>16. ASSUME NEW a \in Attempt, RenameSession(a) PROVE LockerInv'
    <2>1. UNCHANGED <<attempt, main, locker, alive, lockHolder, log>>
        BY <1>16, RenameSessionEffect DEF RenamersTurn, AttemptsTurn, pipeVars, mainVars
    <2>2. \A b \in Attempt : /\ chan'[b].tableLocked = chan[b].tableLocked
                            /\ chan'[b].tableUnlocked = chan[b].tableUnlocked
        BY <1>16, RenameSessionEffect, Typed DEF OnlyThese
    <2> QED
        BY <2>1, <2>2, GivenKept DEF LockerInv, LockerOf
<1>17. ASSUME NEW a \in Attempt, RenameReturns(a) PROVE LockerInv'
    <2>1. UNCHANGED <<attempt, main, locker, alive, lockHolder, log>>
        BY <1>17, RenameReturnsEffect DEF RenamersTurn, AttemptsTurn, pipeVars, mainVars
    <2>2. \A b \in Attempt : /\ chan'[b].tableLocked = chan[b].tableLocked
                            /\ chan'[b].tableUnlocked = chan[b].tableUnlocked
        BY <1>17, RenameReturnsEffect, Typed DEF OnlyThese
    <2> QED
        BY <2>1, <2>2, GivenKept DEF LockerInv, LockerOf
<1>18. ASSUME NEW a \in Attempt, RenameBeginFails(a) PROVE LockerInv'
    <2>1. UNCHANGED <<attempt, main, locker, alive, lockHolder, log>>
        BY <1>18, RenameBeginFailsEffect
        DEF RenamersTurn, AttemptsTurn, pipeVars, mainVars
    <2>2. \A b \in Attempt : /\ chan'[b].tableLocked = chan[b].tableLocked
                            /\ chan'[b].tableUnlocked = chan[b].tableUnlocked
        BY <1>18, RenameBeginFailsEffect, Typed DEF OnlyThese
    <2> QED
        BY <2>1, <2>2, GivenKept DEF LockerInv, LockerOf
<1>19. ASSUME NEW a \in Attempt, RenameFails(a) PROVE LockerInv'
    <2>1. UNCHANGED <<attempt, main, locker, alive, lockHolder, log>>
        BY <1>19, RenameFailsEffect DEF RenamersTurn, AttemptsTurn, pipeVars, mainVars
    <2>2. \A b \in Attempt : /\ chan'[b].tableLocked = chan[b].tableLocked
                            /\ chan'[b].tableUnlocked = chan[b].tableUnlocked
        BY <1>19, RenameFailsEffect, Typed DEF OnlyThese
    <2> QED
        BY <2>1, <2>2, GivenKept DEF LockerInv, LockerOf
<1>20. ASSUME NEW a \in Attempt, RenameReturnsError(a) PROVE LockerInv'
    <2>1. UNCHANGED <<attempt, main, locker, alive, lockHolder, log>>
        BY <1>20, RenameReturnsErrorEffect
        DEF RenamersTurn, AttemptsTurn, pipeVars, mainVars
    <2>2. \A b \in Attempt : /\ chan'[b].tableLocked = chan[b].tableLocked
                            /\ chan'[b].tableUnlocked = chan[b].tableUnlocked
        BY <1>20, RenameReturnsErrorEffect, Typed DEF OnlyThese
    <2> QED
        BY <2>1, <2>2, GivenKept DEF LockerInv, LockerOf
<1>21. ASSUME StartAttempt PROVE LockerInv'
    BY <1>21, StartAttemptEffect, GivenKept, Kinds, Typed
    DEF LockerInv, LockerOf, Locking, Holding, BeforeRename, WellFormed, ControlInv,
        Untouched, MainType, Others, goVars, mainVars, pipeVars, tableVars
<1>22. ASSUME AwaitTableLocked PROVE LockerInv'
    BY <1>22, AwaitTableLockedEffect, GivenKept, Kinds, Typed
    DEF LockerInv, LockerOf, Locking, Holding, BeforeRename, MigratorsTurn, goVars,
        mainVars, pipeVars, tableVars, OnlyThese, Sends, Appended, Receives
<1>23. ASSUME WriteChallenge PROVE LockerInv'
    BY <1>23, WriteChallengeEffect, GivenKept, Kinds, LogGrows, ChallengeIsAttempt
    DEF LockerInv, LockerOf, Locking, Holding, BeforeRename, WellFormed, Challenge,
        Atomic, goVars, mainVars, pipeVars, tableVars
<1>24. ASSUME AwaitChallenge PROVE LockerInv'
    BY <1>24, AwaitChallengeEffect, GivenKept, Kinds
    DEF LockerInv, LockerOf, Locking, Holding, BeforeRename, goVars, mainVars, pipeVars,
        tableVars
<1>25. ASSUME ChallengeTimeout PROVE LockerInv'
    BY <1>25, ChallengeTimeoutEffect, GivenKept, Kinds
    DEF LockerInv, LockerOf, Locking, Holding, BeforeRename, goVars, mainVars, pipeVars,
        tableVars
<1>26. ASSUME SpawnRename PROVE LockerInv'
    BY <1>26, SpawnRenameEffect, GivenKept, Kinds
    DEF LockerInv, LockerOf, Locking, Holding, BeforeRename, MigratorsTurn, Others,
        goVars, mainVars, pipeVars, tableVars
<1>27. ASSUME AwaitRenameSessionId PROVE LockerInv'
    BY <1>27, AwaitRenameSessionIdEffect, GivenKept, Kinds, Typed
    DEF LockerInv, LockerOf, Locking, Holding, BeforeRename, MigratorsTurn, goVars,
        mainVars, pipeVars, tableVars, OnlyThese, Sends, Appended, Receives
<1>28. ASSUME ExpectRename PROVE LockerInv'
    BY <1>28, ExpectRenameEffect, GivenKept, Kinds
    DEF LockerInv, LockerOf, Locking, Holding, BeforeRename, MigratorsTurn, goVars,
        mainVars, pipeVars, tableVars
<1>29. ASSUME ExpectRenameGivesUp PROVE LockerInv'
    BY <1>29, ExpectRenameGivesUpEffect, GivenKept, Kinds, Typed
    DEF LockerInv, LockerOf, Locking, Holding, BeforeRename, MigratorsTurn, goVars,
        mainVars, pipeVars, tableVars, OnlyThese, Sends, Appended, Receives
<1>30. ASSUME ExpectLock PROVE LockerInv'
    BY <1>30, ExpectLockEffect, GivenKept, Kinds
    DEF LockerInv, LockerOf, Locking, Holding, BeforeRename, MigratorsTurn, goVars,
        mainVars, pipeVars, tableVars
<1>31. ASSUME Release PROVE LockerInv'
    BY <1>31, ReleaseEffect, GivenKept, Kinds, Typed
    DEF LockerInv, LockerOf, Locking, Holding, BeforeRename, MigratorsTurn, goVars,
        mainVars, pipeVars, tableVars, OnlyThese, Sends, Appended, Receives
<1>32. ASSUME AwaitUnlocked PROVE LockerInv'
    BY <1>32, AwaitUnlockedEffect, GivenKept, Kinds, Typed
    DEF LockerInv, LockerOf, Locking, Holding, BeforeRename, MigratorsTurn, goVars,
        mainVars, pipeVars, tableVars, OnlyThese, Sends, Appended, Receives
<1>33. ASSUME AwaitRenamed PROVE LockerInv'
    BY <1>33, AwaitRenamedEffect, GivenKept, Kinds, Typed
    DEF LockerInv, LockerOf, Locking, Holding, BeforeRename, MigratorsTurn, goVars,
        mainVars, pipeVars, tableVars, OnlyThese, Sends, Appended, Receives
<1>34. ASSUME Leave PROVE LockerInv'
    BY <1>34, LeaveEffect, GivenKept, Kinds, Typed
    DEF LockerInv, LockerOf, Locking, Holding, BeforeRename, MigratorsTurn, goVars,
        mainVars, pipeVars, tableVars, OnlyThese, Sends, Appended, Receives
<1>35. ASSUME CheckSentry PROVE LockerInv'
    BY <1>35, CheckSentryEffect, GivenKept, Kinds
    DEF LockerInv, LockerOf, Locking, Holding, BeforeRename, MigratorsTurn, Returned,
        goVars, mainVars, pipeVars, tableVars
<1>36. ASSUME DropSentry PROVE LockerInv'
    BY <1>36, DropSentryEffect, GivenKept, Kinds
    DEF LockerInv, LockerOf, Locking, Holding, BeforeRename, MigratorsTurn, Returned,
        goVars, mainVars, pipeVars, tableVars
<1>37. ASSUME \/ StartTwoStep \/ LockOriginalTable \/ RenameOriginal \/ RenameGhost
             \/ UnlockTables \/ ProcessExits \/ ConnectionLost PROVE LockerInv'
    <2>1. TwoStepKind
        BY <1>37, StartTwoStepEffect, LockOriginalTableEffect, RenameOriginalEffect,
           RenameGhostEffect, UnlockTablesEffect, ProcessExitsEffect,
           ConnectionLostEffect
        DEF TwoStepsTurn
    <2> QED
        BY <2>1, Kinds, GivenKept DEF WellFormed, LockerInv
<1> QED
    BY <1>1, <1>2, <1>3, <1>4, <1>5, <1>6, <1>7, <1>8, <1>9, <1>10, <1>11, <1>12, <1>13,
       <1>14, <1>15, <1>16, <1>17, <1>18, <1>19, <1>20, <1>21, <1>22, <1>23, <1>24,
       <1>25, <1>26, <1>27, <1>28, <1>29, <1>30, <1>31, <1>32, <1>33, <1>34, <1>35,
       <1>36, <1>37
    DEF Step, Migrator, Locker, Renamer, Server

(* Every step keeps the discipline of AtomicCutoverRename.                 *)
LEMMA RenamerKept ==
    ASSUME WellFormed, RenamerInv, Step, UNCHANGED given
    PROVE  RenamerInv'
<1>1. ASSUME UNCHANGED <<attempt, main, renamer, renameKnownToHaveFailed, server, swapped, chan>>
      PROVE  RenamerInv'
    BY <1>1, GivenKept DEF RenamerInv, RenamerOf, BeforeRename
<1>2. ASSUME \/ ApplicationWrites \/ StreamEvent \/ EnqueueChallenge \/ ExecuteEvent
      PROVE  RenamerInv'
    BY <1>2, <1>1, ApplicationWritesEffect, StreamEventEffect, EnqueueChallengeEffect,
       ExecuteEventEffect
    DEF PipesTurn, goVars, mainVars, pipeVars, tableVars
<1>3. ASSUME NEW a \in Attempt, \/ LockSession(a) \/ SentryCheck(a) \/ SentryClear(a)
             \/ SentryCreate(a) \/ LockDropSentry(a) \/ LockDies(a)
      PROVE  RenamerInv'
    BY <1>3, <1>1, LockSessionEffect, SentryCheckEffect, SentryClearEffect,
       SentryCreateEffect, LockDropSentryEffect, LockDiesEffect
    DEF LockersTurn, AttemptsTurn, Others, goVars, mainVars, pipeVars, tableVars
<1>4. ASSUME NEW a \in Attempt, LockBeginFails(a) PROVE RenamerInv'
    BY <1>4, LockBeginFailsEffect, GivenKept, Kinds, Typed, ErrorsAreNoOk
    DEF RenamerInv, RenamerOf, BeforeRename, LockersTurn, AttemptsTurn, Others, goVars,
        mainVars, pipeVars, tableVars, OnlyThese, Sends, Appended, Receives
<1>5. ASSUME NEW a \in Attempt, LockFails(a) PROVE RenamerInv'
    BY <1>5, LockFailsEffect, GivenKept, Kinds, Typed, ErrorsAreNoOk
    DEF RenamerInv, RenamerOf, BeforeRename, LockersTurn, AttemptsTurn, Others, goVars,
        mainVars, pipeVars, tableVars, OnlyThese, Sends, Appended, Receives
<1>6. ASSUME NEW a \in Attempt, LockTables(a) PROVE RenamerInv'
    BY <1>6, LockTablesEffect, GivenKept, Kinds, Typed, ErrorsAreNoOk
    DEF RenamerInv, RenamerOf, BeforeRename, LockersTurn, AttemptsTurn, Others, goVars,
        mainVars, pipeVars, tableVars, OnlyThese, Sends, Appended, Receives
<1>7. ASSUME NEW a \in Attempt, LockTold(a) PROVE RenamerInv'
    BY <1>7, LockToldEffect, GivenKept, Kinds, Typed, ErrorsAreNoOk
    DEF RenamerInv, RenamerOf, BeforeRename, LockersTurn, AttemptsTurn, Others, goVars,
        mainVars, pipeVars, tableVars, OnlyThese, Sends, Appended, Receives
<1>8. ASSUME NEW a \in Attempt, LockUnlock(a) PROVE RenamerInv'
    BY <1>8, LockUnlockEffect, GivenKept, Kinds, Typed, ErrorsAreNoOk
    DEF RenamerInv, RenamerOf, BeforeRename, LockersTurn, AttemptsTurn, Others, goVars,
        mainVars, pipeVars, tableVars, OnlyThese, Sends, Appended, Receives
<1>9. ASSUME NEW a \in Attempt, RenameSession(a) PROVE RenamerInv'
    BY <1>9, RenameSessionEffect, GivenKept, Kinds, Typed, ErrorsAreNoOk
    DEF RenamerInv, RenamerOf, BeforeRename, RenamersTurn, AttemptsTurn, Others, goVars,
        mainVars, pipeVars, tableVars, OnlyThese, Sends, Appended, Receives
<1>10. ASSUME NEW a \in Attempt, RenameIssue(a) PROVE RenamerInv'
    BY <1>10, RenameIssueEffect, GivenKept, Kinds
    DEF RenamerInv, RenamerOf, BeforeRename, RenamersTurn, AttemptsTurn, Others, goVars,
        mainVars, pipeVars, tableVars
<1>11. ASSUME NEW a \in Attempt, RenameReturns(a) PROVE RenamerInv'
    BY <1>11, RenameReturnsEffect, GivenKept, Kinds, Typed, ErrorsAreNoOk
    DEF RenamerInv, RenamerOf, BeforeRename, RenamersTurn, AttemptsTurn, Others, goVars,
        mainVars, pipeVars, tableVars, OnlyThese, Sends, Appended, Receives
<1>12. ASSUME NEW a \in Attempt, RenameBeginFails(a) PROVE RenamerInv'
    BY <1>12, RenameBeginFailsEffect, GivenKept, Kinds, Typed, ErrorsAreNoOk
    DEF RenamerInv, RenamerOf, BeforeRename, RenamersTurn, AttemptsTurn, Others, goVars,
        mainVars, pipeVars, tableVars, OnlyThese, Sends, Appended, Receives
<1>13. ASSUME NEW a \in Attempt, RenameFails(a) PROVE RenamerInv'
    <2>1. \A b \in Attempt : b # a =>
            /\ renamer'[b] = renamer[b] /\ server'[b] = server[b]
            /\ renameKnownToHaveFailed'[b] = renameKnownToHaveFailed[b]
            /\ chan'[b].renameSessionId = chan[b].renameSessionId
            /\ chan'[b].tablesRenamed = chan[b].tablesRenamed
        BY <1>13, RenameFailsEffect, Typed DEF RenamersTurn, Others, OnlyThese
    <2>2. /\ renamer[a] \in {"begin", "issue"} /\ renamer'[a] = "exited"
          /\ UNCHANGED <<attempt, main, server, swapped>>
        BY <1>13, RenameFailsEffect DEF RenamersTurn, AttemptsTurn, mainVars
    <2>3. Len(<<"none">>) = 1 /\ Len(<<"error">>) = 1
        OBVIOUS
    <2>4. /\ Len(chan'[a].renameSessionId) = Len(chan[a].renameSessionId) + 1
          /\ chan[a].tablesRenamed = <<>> => chan'[a].tablesRenamed = <<"error">>
        BY <1>13, <2>3, RenameFailsEffect DEF Sends, Appended
    <2>5. Atomic' => Atomic
        BY GivenKept
    <2>6. ASSUME Atomic, NEW b \in Attempt, b # a PROVE RenamerOf(b)'
        BY <2>1, <2>2, <2>6 DEF RenamerInv, RenamerOf, BeforeRename
    <2>7. ASSUME Atomic PROVE RenamerOf(a)'
        <3>1. Len(chan[a].renameSessionId) <= 1 /\ Len(chan[a].renameSessionId) \in Nat
            <4>1. /\ Len(chan[a].renameSessionId) \in Nat
                  /\ chan[a].renameSessionId = <<>> => Len(chan[a].renameSessionId) = 0
                BY Lengths, Typed DEF WellFormed
            <4>2. \/ chan[a].renameSessionId = <<>>
                  \/ Len(chan[a].renameSessionId) <= 1
                BY <2>2, <2>7 DEF RenamerInv, RenamerOf
            <4> QED
                BY <4>1, <4>2
        <3>2. Len(chan'[a].renameSessionId) <= 2
            BY <2>4, <3>1
        <3>3. chan[a].tablesRenamed = <<>>
            BY <2>2, <2>7 DEF RenamerInv, RenamerOf
        <3>4. chan'[a].tablesRenamed = <<"error">>
            BY <2>4, <3>3
        <3>5. Len(chan'[a].tablesRenamed) <= 2
            BY <2>3, <3>4
        <3>6. ~HasOk(chan'[a].tablesRenamed)
            BY <3>4, ErrorsAreNoOk
        <3> QED
            BY <2>2, <2>7, <3>2, <3>5, <3>6 DEF RenamerInv, RenamerOf, BeforeRename
    <2> QED
        BY <2>5, <2>6, <2>7 DEF RenamerInv
<1>14. ASSUME NEW a \in Attempt, RenameReturnsError(a) PROVE RenamerInv'
    <2>1. \A b \in Attempt : b # a =>
            /\ renamer'[b] = renamer[b] /\ server'[b] = server[b]
            /\ renameKnownToHaveFailed'[b] = renameKnownToHaveFailed[b]
            /\ chan'[b].renameSessionId = chan[b].renameSessionId
            /\ chan'[b].tablesRenamed = chan[b].tablesRenamed
        BY <1>14, RenameReturnsErrorEffect, Typed DEF RenamersTurn, Others, OnlyThese
    <2>2. /\ renamer[a] \in {"issued"} /\ renamer'[a] = "exited"
          /\ UNCHANGED <<attempt, main, server, swapped>>
        BY <1>14, RenameReturnsErrorEffect DEF RenamersTurn, AttemptsTurn, mainVars
    <2>3. Len(<<"none">>) = 1 /\ Len(<<"error", "error">>) = 2
        OBVIOUS
    <2>4. /\ Len(chan'[a].renameSessionId) = Len(chan[a].renameSessionId) + 1
          /\ chan[a].tablesRenamed = <<>> => chan'[a].tablesRenamed = <<"error", "error">>
        BY <1>14, <2>3, RenameReturnsErrorEffect DEF Sends, Appended
    <2>5. Atomic' => Atomic
        BY GivenKept
    <2>6. ASSUME Atomic, NEW b \in Attempt, b # a PROVE RenamerOf(b)'
        BY <2>1, <2>2, <2>6 DEF RenamerInv, RenamerOf, BeforeRename
    <2>7. ASSUME Atomic PROVE RenamerOf(a)'
        <3>1. Len(chan[a].renameSessionId) <= 1 /\ Len(chan[a].renameSessionId) \in Nat
            <4>1. /\ Len(chan[a].renameSessionId) \in Nat
                  /\ chan[a].renameSessionId = <<>> => Len(chan[a].renameSessionId) = 0
                BY Lengths, Typed DEF WellFormed
            <4>2. \/ chan[a].renameSessionId = <<>>
                  \/ Len(chan[a].renameSessionId) <= 1
                BY <2>2, <2>7 DEF RenamerInv, RenamerOf
            <4> QED
                BY <4>1, <4>2
        <3>2. Len(chan'[a].renameSessionId) <= 2
            BY <2>4, <3>1
        <3>3. chan[a].tablesRenamed = <<>>
            BY <2>2, <2>7 DEF RenamerInv, RenamerOf
        <3>4. chan'[a].tablesRenamed = <<"error", "error">>
            BY <2>4, <3>3
        <3>5. Len(chan'[a].tablesRenamed) <= 2
            BY <2>3, <3>4
        <3>6. ~HasOk(chan'[a].tablesRenamed)
            BY <3>4, ErrorsAreNoOk
        <3> QED
            BY <2>2, <2>7, <3>2, <3>5, <3>6 DEF RenamerInv, RenamerOf, BeforeRename
    <2> QED
        BY <2>5, <2>6, <2>7 DEF RenamerInv
<1>15. ASSUME NEW a \in Attempt, ServerRenames(a) PROVE RenamerInv'
    BY <1>15, ServerRenamesEffect, GivenKept, Kinds
    DEF RenamerInv, RenamerOf, BeforeRename, ServersTurn, AttemptsTurn, Others, goVars,
        mainVars, pipeVars, tableVars
<1>16. ASSUME NEW a \in Attempt, ServerTimesOut(a) PROVE RenamerInv'
    BY <1>16, ServerTimesOutEffect, GivenKept, Kinds
    DEF RenamerInv, RenamerOf, BeforeRename, ServersTurn, AttemptsTurn, Others, goVars,
        mainVars, pipeVars, tableVars
<1>17. ASSUME StartAttempt PROVE RenamerInv'
    BY <1>17, StartAttemptEffect, GivenKept, Kinds, Typed
    DEF RenamerInv, RenamerOf, BeforeRename, WellFormed, ControlInv, Untouched,
        MainType, Others, goVars, mainVars, pipeVars, tableVars
<1>18. ASSUME AwaitTableLocked PROVE RenamerInv'
    BY <1>18, AwaitTableLockedEffect, GivenKept, Kinds, Typed, ErrorsAreNoOk
    DEF RenamerInv, RenamerOf, BeforeRename, MigratorsTurn, goVars, mainVars, pipeVars,
        tableVars, OnlyThese, Sends, Appended, Receives
<1>19. ASSUME WriteChallenge PROVE RenamerInv'
    BY <1>19, WriteChallengeEffect, GivenKept, Kinds
    DEF RenamerInv, RenamerOf, BeforeRename, goVars, mainVars, pipeVars, tableVars
<1>20. ASSUME AwaitChallenge PROVE RenamerInv'
    BY <1>20, AwaitChallengeEffect, GivenKept, Kinds
    DEF RenamerInv, RenamerOf, BeforeRename, goVars, mainVars, pipeVars, tableVars
<1>21. ASSUME ChallengeTimeout PROVE RenamerInv'
    BY <1>21, ChallengeTimeoutEffect, GivenKept, Kinds
    DEF RenamerInv, RenamerOf, BeforeRename, goVars, mainVars, pipeVars, tableVars
<1>22. ASSUME SpawnRename PROVE RenamerInv'
    BY <1>22, SpawnRenameEffect, GivenKept, Kinds
    DEF RenamerInv, RenamerOf, BeforeRename, MigratorsTurn, Others, goVars, mainVars,
        pipeVars, tableVars
<1>23. ASSUME AwaitRenameSessionId PROVE RenamerInv'
    BY <1>23, AwaitRenameSessionIdEffect, GivenKept, Kinds, Typed, ErrorsAreNoOk
    DEF RenamerInv, RenamerOf, BeforeRename, MigratorsTurn, goVars, mainVars, pipeVars,
        tableVars, OnlyThese, Sends, Appended, Receives
<1>24. ASSUME ExpectRename PROVE RenamerInv'
    BY <1>24, ExpectRenameEffect, GivenKept, Kinds
    DEF RenamerInv, RenamerOf, BeforeRename, MigratorsTurn, goVars, mainVars, pipeVars,
        tableVars
<1>25. ASSUME ExpectRenameGivesUp PROVE RenamerInv'
    BY <1>25, ExpectRenameGivesUpEffect, GivenKept, Kinds, Typed, ErrorsAreNoOk
    DEF RenamerInv, RenamerOf, BeforeRename, MigratorsTurn, goVars, mainVars, pipeVars,
        tableVars, OnlyThese, Sends, Appended, Receives
<1>26. ASSUME ExpectLock PROVE RenamerInv'
    BY <1>26, ExpectLockEffect, GivenKept, Kinds
    DEF RenamerInv, RenamerOf, BeforeRename, MigratorsTurn, goVars, mainVars, pipeVars,
        tableVars
<1>27. ASSUME Release PROVE RenamerInv'
    BY <1>27, ReleaseEffect, GivenKept, Kinds, Typed, ErrorsAreNoOk
    DEF RenamerInv, RenamerOf, BeforeRename, MigratorsTurn, goVars, mainVars, pipeVars,
        tableVars, OnlyThese, Sends, Appended, Receives
<1>28. ASSUME AwaitUnlocked PROVE RenamerInv'
    BY <1>28, AwaitUnlockedEffect, GivenKept, Kinds, Typed, ErrorsAreNoOk
    DEF RenamerInv, RenamerOf, BeforeRename, MigratorsTurn, goVars, mainVars, pipeVars,
        tableVars, OnlyThese, Sends, Appended, Receives
<1>29. ASSUME AwaitRenamed PROVE RenamerInv'
    BY <1>29, AwaitRenamedEffect, GivenKept, Kinds, Typed, ErrorsAreNoOk
    DEF RenamerInv, RenamerOf, BeforeRename, MigratorsTurn, goVars, mainVars, pipeVars,
        tableVars, OnlyThese, Sends, Appended, Receives
<1>30. ASSUME Leave PROVE RenamerInv'
    BY <1>30, LeaveEffect, GivenKept, Kinds, Typed, ErrorsAreNoOk
    DEF RenamerInv, RenamerOf, BeforeRename, MigratorsTurn, goVars, mainVars, pipeVars,
        tableVars, OnlyThese, Sends, Appended, Receives
<1>31. ASSUME CheckSentry PROVE RenamerInv'
    BY <1>31, CheckSentryEffect, GivenKept, Kinds
    DEF RenamerInv, RenamerOf, BeforeRename, MigratorsTurn, Returned, goVars, mainVars,
        pipeVars, tableVars
<1>32. ASSUME DropSentry PROVE RenamerInv'
    BY <1>32, DropSentryEffect, GivenKept, Kinds
    DEF RenamerInv, RenamerOf, BeforeRename, MigratorsTurn, Returned, goVars, mainVars,
        pipeVars, tableVars
<1>33. ASSUME \/ StartTwoStep \/ LockOriginalTable \/ RenameOriginal \/ RenameGhost
             \/ UnlockTables \/ ProcessExits \/ ConnectionLost PROVE RenamerInv'
    <2>1. TwoStepKind
        BY <1>33, StartTwoStepEffect, LockOriginalTableEffect, RenameOriginalEffect,
           RenameGhostEffect, UnlockTablesEffect, ProcessExitsEffect,
           ConnectionLostEffect
        DEF TwoStepsTurn
    <2> QED
        BY <2>1, Kinds, GivenKept DEF WellFormed, RenamerInv
<1> QED
    BY <1>1, <1>2, <1>3, <1>4, <1>5, <1>6, <1>7, <1>8, <1>9, <1>10, <1>11, <1>12, <1>13,
       <1>14, <1>15, <1>16, <1>17, <1>18, <1>19, <1>20, <1>21, <1>22, <1>23, <1>24,
       <1>25, <1>26, <1>27, <1>28, <1>29, <1>30, <1>31, <1>32, <1>33
    DEF Step, Migrator, Locker, Renamer, Server

(* The length of okToUnlockTable.                                          *)
LEMMA TellLengths ==
    ASSUME WellFormed
    PROVE  \A a \in Attempt : /\ Len(chan[a].okToUnlockTable) \in Nat
                              /\ chan[a].okToUnlockTable = <<>> => Len(chan[a].okToUnlockTable) = 0
BY Lengths, Typed DEF WellFormed

(* The bound on it is a number.                                            *)
LEMMA AllowedIsNatural == \A a \in Attempt : Allowed(a) \in Nat /\ Allowed(a)' \in Nat
BY DEF Allowed, Told

(* Nothing is sent, and no less is allowed.                                *)
LEMMA NobodyTells ==
    ASSUME WellFormed, TellInv, UNCHANGED given,
           \A b \in Attempt : chan'[b].okToUnlockTable = chan[b].okToUnlockTable
                              \/ Len(chan'[b].okToUnlockTable) = Len(chan[b].okToUnlockTable) - 1,
           \A b \in Attempt : Allowed(b)' >= Allowed(b)
    PROVE  TellInv'
<1> SUFFICES ASSUME Atomic, NEW b \in Attempt
             PROVE  Len(chan'[b].okToUnlockTable) <= Allowed(b)'
    BY GivenKept DEF TellInv
<1>1. Len(chan[b].okToUnlockTable) <= Allowed(b) /\ Allowed(b)' >= Allowed(b)
    BY DEF TellInv
<1>2. Len(chan[b].okToUnlockTable) \in Nat
    BY TellLengths
<1>3. \/ Len(chan'[b].okToUnlockTable) = Len(chan[b].okToUnlockTable)
      \/ Len(chan'[b].okToUnlockTable) = Len(chan[b].okToUnlockTable) - 1
    OBVIOUS
<1>4. Allowed(b) \in Nat /\ Allowed(b)' \in Nat
    BY AllowedIsNatural
<1> QED
    BY <1>1, <1>2, <1>3, <1>4

(* One message is sent to attempt a, and one more is allowed.              *)
LEMMA SomebodyTells ==
    ASSUME WellFormed, TellInv, UNCHANGED given, NEW a \in Attempt,
           Sends(a, "okToUnlockTable", <<"ok">>),
           \A b \in Attempt : b # a => chan'[b].okToUnlockTable = chan[b].okToUnlockTable,
           Allowed(a)' = Allowed(a) + 1,
           \A b \in Attempt : Allowed(b)' >= Allowed(b)
    PROVE  TellInv'
<1> SUFFICES ASSUME Atomic, NEW b \in Attempt
             PROVE  Len(chan'[b].okToUnlockTable) <= Allowed(b)'
    BY GivenKept DEF TellInv
<1>1. Len(chan[b].okToUnlockTable) <= Allowed(b) /\ Allowed(b)' >= Allowed(b)
    BY DEF TellInv
<1>2. Len(chan[b].okToUnlockTable) \in Nat
    BY TellLengths
<1>3. Len(<<"ok">>) = 1
    OBVIOUS
<1>4. b = a => Len(chan'[b].okToUnlockTable) = Len(chan[b].okToUnlockTable) + 1
    BY <1>3 DEF Sends, Appended
<1>5. Allowed(b) \in Nat /\ Allowed(b)' \in Nat
    BY AllowedIsNatural
<1>6. CASE b = a
    BY <1>1, <1>2, <1>4, <1>5, <1>6
<1>7. CASE b # a
    BY <1>1, <1>2, <1>5, <1>7
<1> QED
    BY <1>6, <1>7

(* Every step keeps the number of messages in okToUnlockTable.             *)
LEMMA TellKept ==
    ASSUME WellFormed, RenamerInv, TellInv, Step, UNCHANGED given
    PROVE  TellInv'
<1>1. ASSUME UNCHANGED <<attempt, main, renamer, chan>> PROVE TellInv'
    BY <1>1, GivenKept DEF TellInv, Allowed, Told
<1>2. ASSUME ApplicationWrites \/ StreamEvent \/ EnqueueChallenge \/ ExecuteEvent
      PROVE  TellInv'
    BY <1>2, <1>1, ApplicationWritesEffect, StreamEventEffect, EnqueueChallengeEffect,
       ExecuteEventEffect
    DEF PipesTurn, goVars, mainVars
<1>3. ASSUME NEW a \in Attempt, ServerRenames(a) \/ ServerTimesOut(a) PROVE TellInv'
    BY <1>3, <1>1, ServerRenamesEffect, ServerTimesOutEffect
    DEF ServersTurn, AttemptsTurn, goVars, mainVars
<1>4. ASSUME NEW a \in Attempt, LockSession(a) PROVE TellInv'
    <2>1. \A b \in Attempt : chan'[b].okToUnlockTable = chan[b].okToUnlockTable
                             \/ Len(chan'[b].okToUnlockTable) = Len(chan[b].okToUnlockTable) - 1
        BY <1>4, LockSessionEffect, Typed
        DEF LockersTurn, AttemptsTurn, OnlyThese, Receives
    <2>2. \A b \in Attempt : Allowed(b)' >= Allowed(b)
        BY <1>4, LockSessionEffect
        DEF LockersTurn, AttemptsTurn, Allowed, Told, Attempt, Others, goVars, mainVars
    <2> QED
        BY <2>1, <2>2, NobodyTells
<1>5. ASSUME NEW a \in Attempt, LockBeginFails(a) PROVE TellInv'
    <2>1. \A b \in Attempt : chan'[b].okToUnlockTable = chan[b].okToUnlockTable
                             \/ Len(chan'[b].okToUnlockTable) = Len(chan[b].okToUnlockTable) - 1
        BY <1>5, LockBeginFailsEffect, Typed
        DEF LockersTurn, AttemptsTurn, OnlyThese, Receives
    <2>2. \A b \in Attempt : Allowed(b)' >= Allowed(b)
        BY <1>5, LockBeginFailsEffect
        DEF LockersTurn, AttemptsTurn, Allowed, Told, Attempt, Others, goVars, mainVars
    <2> QED
        BY <2>1, <2>2, NobodyTells
<1>6. ASSUME NEW a \in Attempt, LockFails(a) PROVE TellInv'
    <2>1. \A b \in Attempt : chan'[b].okToUnlockTable = chan[b].okToUnlockTable
                             \/ Len(chan'[b].okToUnlockTable) = Len(chan[b].okToUnlockTable) - 1
        BY <1>6, LockFailsEffect, Typed
        DEF LockersTurn, AttemptsTurn, OnlyThese, Receives
    <2>2. \A b \in Attempt : Allowed(b)' >= Allowed(b)
        BY <1>6, LockFailsEffect
        DEF LockersTurn, AttemptsTurn, Allowed, Told, Attempt, Others, goVars, mainVars
    <2> QED
        BY <2>1, <2>2, NobodyTells
<1>7. ASSUME NEW a \in Attempt, SentryCheck(a) PROVE TellInv'
    <2>1. \A b \in Attempt : chan'[b].okToUnlockTable = chan[b].okToUnlockTable
                             \/ Len(chan'[b].okToUnlockTable) = Len(chan[b].okToUnlockTable) - 1
        BY <1>7, SentryCheckEffect, Typed
        DEF LockersTurn, AttemptsTurn, OnlyThese, Receives
    <2>2. \A b \in Attempt : Allowed(b)' >= Allowed(b)
        BY <1>7, SentryCheckEffect
        DEF LockersTurn, AttemptsTurn, Allowed, Told, Attempt, Others, goVars, mainVars
    <2> QED
        BY <2>1, <2>2, NobodyTells
<1>8. ASSUME NEW a \in Attempt, SentryClear(a) PROVE TellInv'
    <2>1. \A b \in Attempt : chan'[b].okToUnlockTable = chan[b].okToUnlockTable
                             \/ Len(chan'[b].okToUnlockTable) = Len(chan[b].okToUnlockTable) - 1
        BY <1>8, SentryClearEffect, Typed
        DEF LockersTurn, AttemptsTurn, OnlyThese, Receives
    <2>2. \A b \in Attempt : Allowed(b)' >= Allowed(b)
        BY <1>8, SentryClearEffect
        DEF LockersTurn, AttemptsTurn, Allowed, Told, Attempt, Others, goVars, mainVars
    <2> QED
        BY <2>1, <2>2, NobodyTells
<1>9. ASSUME NEW a \in Attempt, SentryCreate(a) PROVE TellInv'
    <2>1. \A b \in Attempt : chan'[b].okToUnlockTable = chan[b].okToUnlockTable
                             \/ Len(chan'[b].okToUnlockTable) = Len(chan[b].okToUnlockTable) - 1
        BY <1>9, SentryCreateEffect, Typed
        DEF LockersTurn, AttemptsTurn, OnlyThese, Receives
    <2>2. \A b \in Attempt : Allowed(b)' >= Allowed(b)
        BY <1>9, SentryCreateEffect
        DEF LockersTurn, AttemptsTurn, Allowed, Told, Attempt, Others, goVars, mainVars
    <2> QED
        BY <2>1, <2>2, NobodyTells
<1>10. ASSUME NEW a \in Attempt, LockTables(a) PROVE TellInv'
    <2>1. \A b \in Attempt : chan'[b].okToUnlockTable = chan[b].okToUnlockTable
                             \/ Len(chan'[b].okToUnlockTable) = Len(chan[b].okToUnlockTable) - 1
        BY <1>10, LockTablesEffect, Typed
        DEF LockersTurn, AttemptsTurn, OnlyThese, Receives
    <2>2. \A b \in Attempt : Allowed(b)' >= Allowed(b)
        BY <1>10, LockTablesEffect
        DEF LockersTurn, AttemptsTurn, Allowed, Told, Attempt, Others, goVars, mainVars
    <2> QED
        BY <2>1, <2>2, NobodyTells
<1>11. ASSUME NEW a \in Attempt, LockTold(a) PROVE TellInv'
    <2>1. \A b \in Attempt : chan'[b].okToUnlockTable = chan[b].okToUnlockTable
                             \/ Len(chan'[b].okToUnlockTable) = Len(chan[b].okToUnlockTable) - 1
        BY <1>11, LockToldEffect, Typed
        DEF LockersTurn, AttemptsTurn, OnlyThese, Receives
    <2>2. \A b \in Attempt : Allowed(b)' >= Allowed(b)
        BY <1>11, LockToldEffect
        DEF LockersTurn, AttemptsTurn, Allowed, Told, Attempt, Others, goVars, mainVars
    <2> QED
        BY <2>1, <2>2, NobodyTells
<1>12. ASSUME NEW a \in Attempt, LockDropSentry(a) PROVE TellInv'
    <2>1. \A b \in Attempt : chan'[b].okToUnlockTable = chan[b].okToUnlockTable
                             \/ Len(chan'[b].okToUnlockTable) = Len(chan[b].okToUnlockTable) - 1
        BY <1>12, LockDropSentryEffect, Typed
        DEF LockersTurn, AttemptsTurn, OnlyThese, Receives
    <2>2. \A b \in Attempt : Allowed(b)' >= Allowed(b)
        BY <1>12, LockDropSentryEffect
        DEF LockersTurn, AttemptsTurn, Allowed, Told, Attempt, Others, goVars, mainVars
    <2> QED
        BY <2>1, <2>2, NobodyTells
<1>13. ASSUME NEW a \in Attempt, LockUnlock(a) PROVE TellInv'
    <2>1. \A b \in Attempt : chan'[b].okToUnlockTable = chan[b].okToUnlockTable
                             \/ Len(chan'[b].okToUnlockTable) = Len(chan[b].okToUnlockTable) - 1
        BY <1>13, LockUnlockEffect, Typed
        DEF LockersTurn, AttemptsTurn, OnlyThese, Receives
    <2>2. \A b \in Attempt : Allowed(b)' >= Allowed(b)
        BY <1>13, LockUnlockEffect
        DEF LockersTurn, AttemptsTurn, Allowed, Told, Attempt, Others, goVars, mainVars
    <2> QED
        BY <2>1, <2>2, NobodyTells
<1>14. ASSUME NEW a \in Attempt, LockDies(a) PROVE TellInv'
    <2>1. \A b \in Attempt : chan'[b].okToUnlockTable = chan[b].okToUnlockTable
                             \/ Len(chan'[b].okToUnlockTable) = Len(chan[b].okToUnlockTable) - 1
        BY <1>14, LockDiesEffect, Typed
        DEF LockersTurn, AttemptsTurn, OnlyThese, Receives
    <2>2. \A b \in Attempt : Allowed(b)' >= Allowed(b)
        BY <1>14, LockDiesEffect
        DEF LockersTurn, AttemptsTurn, Allowed, Told, Attempt, Others, goVars, mainVars
    <2> QED
        BY <2>1, <2>2, NobodyTells
<1>15. ASSUME NEW a \in Attempt, RenameSession(a) PROVE TellInv'
    <2>1. \A b \in Attempt : chan'[b].okToUnlockTable = chan[b].okToUnlockTable
                             \/ Len(chan'[b].okToUnlockTable) = Len(chan[b].okToUnlockTable) - 1
        BY <1>15, RenameSessionEffect, Typed
        DEF RenamersTurn, AttemptsTurn, OnlyThese, Receives
    <2>2. \A b \in Attempt : Allowed(b)' >= Allowed(b)
        BY <1>15, RenameSessionEffect
        DEF RenamersTurn, AttemptsTurn, Allowed, Told, Attempt, Others, goVars, mainVars
    <2> QED
        BY <2>1, <2>2, NobodyTells
<1>16. ASSUME NEW a \in Attempt, RenameIssue(a) PROVE TellInv'
    <2>1. \A b \in Attempt : chan'[b].okToUnlockTable = chan[b].okToUnlockTable
                             \/ Len(chan'[b].okToUnlockTable) = Len(chan[b].okToUnlockTable) - 1
        BY <1>16, RenameIssueEffect, Typed
        DEF RenamersTurn, AttemptsTurn, OnlyThese, Receives
    <2>2. \A b \in Attempt : Allowed(b)' >= Allowed(b)
        BY <1>16, RenameIssueEffect
        DEF RenamersTurn, AttemptsTurn, Allowed, Told, Attempt, Others, goVars, mainVars
    <2> QED
        BY <2>1, <2>2, NobodyTells
<1>17. ASSUME NEW a \in Attempt, RenameReturns(a) PROVE TellInv'
    <2>1. \A b \in Attempt : chan'[b].okToUnlockTable = chan[b].okToUnlockTable
                             \/ Len(chan'[b].okToUnlockTable) = Len(chan[b].okToUnlockTable) - 1
        BY <1>17, RenameReturnsEffect, Typed
        DEF RenamersTurn, AttemptsTurn, OnlyThese, Receives
    <2>2. \A b \in Attempt : Allowed(b)' >= Allowed(b)
        BY <1>17, RenameReturnsEffect
        DEF RenamersTurn, AttemptsTurn, Allowed, Told, Attempt, Others, goVars, mainVars
    <2> QED
        BY <2>1, <2>2, NobodyTells
<1>18. ASSUME NEW a \in Attempt, RenameBeginFails(a) PROVE TellInv'
    <2>1. /\ a \in Attempt /\ Sends(a, "okToUnlockTable", <<"ok">>)
          /\ \A b \in Attempt : b # a => chan'[b].okToUnlockTable = chan[b].okToUnlockTable
        BY <1>18, RenameBeginFailsEffect, Typed
        DEF RenamersTurn, AttemptsTurn, OnlyThese
    <2>2. PICK b \in Attempt : b = a
        BY <2>1
    <2>3. Allowed(b)' = Allowed(b) + 1 /\ \A c \in Attempt : Allowed(c)' >= Allowed(c)
        BY <1>18, <2>2, RenameBeginFailsEffect
        DEF RenamersTurn, AttemptsTurn, Allowed, Told, Attempt, Others, goVars, mainVars
    <2> QED
        BY <2>1, <2>2, <2>3, SomebodyTells
<1>19. ASSUME NEW a \in Attempt, RenameFails(a) PROVE TellInv'
    <2>1. /\ a \in Attempt /\ Sends(a, "okToUnlockTable", <<"ok">>)
          /\ \A b \in Attempt : b # a => chan'[b].okToUnlockTable = chan[b].okToUnlockTable
        BY <1>19, RenameFailsEffect, Typed DEF RenamersTurn, AttemptsTurn, OnlyThese
    <2>2. PICK b \in Attempt : b = a
        BY <2>1
    <2>3. Allowed(b)' = Allowed(b) + 1 /\ \A c \in Attempt : Allowed(c)' >= Allowed(c)
        BY <1>19, <2>2, RenameFailsEffect
        DEF RenamersTurn, AttemptsTurn, Allowed, Told, Attempt, Others, goVars, mainVars
    <2> QED
        BY <2>1, <2>2, <2>3, SomebodyTells
<1>20. ASSUME NEW a \in Attempt, RenameReturnsError(a) PROVE TellInv'
    <2>1. /\ a \in Attempt /\ Sends(a, "okToUnlockTable", <<"ok">>)
          /\ \A b \in Attempt : b # a => chan'[b].okToUnlockTable = chan[b].okToUnlockTable
        BY <1>20, RenameReturnsErrorEffect, Typed
        DEF RenamersTurn, AttemptsTurn, OnlyThese
    <2>2. PICK b \in Attempt : b = a
        BY <2>1
    <2>3. Allowed(b)' = Allowed(b) + 1 /\ \A c \in Attempt : Allowed(c)' >= Allowed(c)
        BY <1>20, <2>2, RenameReturnsErrorEffect
        DEF RenamersTurn, AttemptsTurn, Allowed, Told, Attempt, Others, goVars, mainVars
    <2> QED
        BY <2>1, <2>2, <2>3, SomebodyTells
<1>21. ASSUME StartAttempt PROVE TellInv'
    <2>1. \A b \in Attempt : b > attempt => chan[b].okToUnlockTable = <<>> /\ renamer[b] = "off"
        BY Typed DEF WellFormed, ControlInv, Untouched
    <2>2. attempt \in Nat
        BY DEF WellFormed, MainType
    <2> QED
        BY <1>21, <2>1, <2>2, StartAttemptEffect, TellLengths, GivenKept
        DEF TellInv, Allowed, Told, Attempt
<1>22. ASSUME AwaitTableLocked PROVE TellInv'
    <2>1. \A b \in Attempt : chan'[b].okToUnlockTable = chan[b].okToUnlockTable
                             \/ Len(chan'[b].okToUnlockTable) = Len(chan[b].okToUnlockTable) - 1
        BY <1>22, AwaitTableLockedEffect, Typed DEF MigratorsTurn, OnlyThese, Receives
    <2>2. \A b \in Attempt : Allowed(b)' >= Allowed(b)
        BY <1>22, AwaitTableLockedEffect
        DEF MigratorsTurn, Allowed, Told, Attempt, Others, goVars, mainVars
    <2> QED
        BY <2>1, <2>2, NobodyTells
<1>23. ASSUME WriteChallenge PROVE TellInv'
    <2>1. \A b \in Attempt : chan'[b].okToUnlockTable = chan[b].okToUnlockTable
                             \/ Len(chan'[b].okToUnlockTable) = Len(chan[b].okToUnlockTable) - 1
        BY <1>23, WriteChallengeEffect, Typed DEF OnlyThese, Receives
    <2>2. \A b \in Attempt : Allowed(b)' >= Allowed(b)
        BY <1>23, WriteChallengeEffect
        DEF Allowed, Told, Attempt, Others, goVars, mainVars
    <2> QED
        BY <2>1, <2>2, NobodyTells
<1>24. ASSUME AwaitChallenge PROVE TellInv'
    <2>1. \A b \in Attempt : chan'[b].okToUnlockTable = chan[b].okToUnlockTable
                             \/ Len(chan'[b].okToUnlockTable) = Len(chan[b].okToUnlockTable) - 1
        BY <1>24, AwaitChallengeEffect, Typed DEF OnlyThese, Receives
    <2>2. \A b \in Attempt : Allowed(b)' >= Allowed(b)
        BY <1>24, AwaitChallengeEffect
        DEF Allowed, Told, Attempt, Others, goVars, mainVars
    <2> QED
        BY <2>1, <2>2, NobodyTells
<1>25. ASSUME ChallengeTimeout PROVE TellInv'
    <2>1. \A b \in Attempt : chan'[b].okToUnlockTable = chan[b].okToUnlockTable
                             \/ Len(chan'[b].okToUnlockTable) = Len(chan[b].okToUnlockTable) - 1
        BY <1>25, ChallengeTimeoutEffect, Typed DEF OnlyThese, Receives
    <2>2. \A b \in Attempt : Allowed(b)' >= Allowed(b)
        BY <1>25, ChallengeTimeoutEffect
        DEF Allowed, Told, Attempt, Others, goVars, mainVars
    <2> QED
        BY <2>1, <2>2, NobodyTells
<1>26. ASSUME SpawnRename PROVE TellInv'
    <2>1. \A b \in Attempt : chan'[b].okToUnlockTable = chan[b].okToUnlockTable
                             \/ Len(chan'[b].okToUnlockTable) = Len(chan[b].okToUnlockTable) - 1
        BY <1>26, SpawnRenameEffect, Typed DEF MigratorsTurn, OnlyThese, Receives
    <2>2. \A b \in Attempt : Allowed(b)' >= Allowed(b)
        BY <1>26, SpawnRenameEffect
        DEF MigratorsTurn, Allowed, Told, Attempt, Others, goVars, mainVars, RenamerInv,
            RenamerOf, BeforeRename
    <2> QED
        BY <2>1, <2>2, NobodyTells
<1>27. ASSUME AwaitRenameSessionId PROVE TellInv'
    <2>1. \A b \in Attempt : chan'[b].okToUnlockTable = chan[b].okToUnlockTable
                             \/ Len(chan'[b].okToUnlockTable) = Len(chan[b].okToUnlockTable) - 1
        BY <1>27, AwaitRenameSessionIdEffect, Typed
        DEF MigratorsTurn, OnlyThese, Receives
    <2>2. \A b \in Attempt : Allowed(b)' >= Allowed(b)
        BY <1>27, AwaitRenameSessionIdEffect
        DEF MigratorsTurn, Allowed, Told, Attempt, Others, goVars, mainVars
    <2> QED
        BY <2>1, <2>2, NobodyTells
<1>28. ASSUME ExpectRename PROVE TellInv'
    <2>1. \A b \in Attempt : chan'[b].okToUnlockTable = chan[b].okToUnlockTable
                             \/ Len(chan'[b].okToUnlockTable) = Len(chan[b].okToUnlockTable) - 1
        BY <1>28, ExpectRenameEffect, Typed DEF MigratorsTurn, OnlyThese, Receives
    <2>2. \A b \in Attempt : Allowed(b)' >= Allowed(b)
        BY <1>28, ExpectRenameEffect
        DEF MigratorsTurn, Allowed, Told, Attempt, Others, goVars, mainVars
    <2> QED
        BY <2>1, <2>2, NobodyTells
<1>29. ASSUME ExpectRenameGivesUp PROVE TellInv'
    <2>1. /\ attempt \in Attempt /\ Sends(attempt, "okToUnlockTable", <<"ok">>)
          /\ \A b \in Attempt : b # attempt => chan'[b].okToUnlockTable = chan[b].okToUnlockTable
        BY <1>29, ExpectRenameGivesUpEffect, Typed DEF MigratorsTurn, OnlyThese
    <2>2. PICK b \in Attempt : b = attempt
        BY <2>1
    <2>3. Allowed(b)' = Allowed(b) + 1 /\ \A c \in Attempt : Allowed(c)' >= Allowed(c)
        BY <1>29, <2>2, ExpectRenameGivesUpEffect, Proceeding
        DEF MigratorsTurn, Allowed, Told, Attempt, Others, goVars, mainVars
    <2> QED
        BY <2>1, <2>2, <2>3, SomebodyTells
<1>30. ASSUME ExpectLock PROVE TellInv'
    <2>1. \A b \in Attempt : chan'[b].okToUnlockTable = chan[b].okToUnlockTable
                             \/ Len(chan'[b].okToUnlockTable) = Len(chan[b].okToUnlockTable) - 1
        BY <1>30, ExpectLockEffect, Typed DEF MigratorsTurn, OnlyThese, Receives
    <2>2. \A b \in Attempt : Allowed(b)' >= Allowed(b)
        BY <1>30, ExpectLockEffect
        DEF MigratorsTurn, Allowed, Told, Attempt, Others, goVars, mainVars
    <2> QED
        BY <2>1, <2>2, NobodyTells
<1>31. ASSUME Release PROVE TellInv'
    <2>1. /\ attempt \in Attempt /\ Sends(attempt, "okToUnlockTable", <<"ok">>)
          /\ \A b \in Attempt : b # attempt => chan'[b].okToUnlockTable = chan[b].okToUnlockTable
        BY <1>31, ReleaseEffect, Typed DEF MigratorsTurn, OnlyThese
    <2>2. PICK b \in Attempt : b = attempt
        BY <2>1
    <2>3. Allowed(b)' = Allowed(b) + 1 /\ \A c \in Attempt : Allowed(c)' >= Allowed(c)
        BY <1>31, <2>2, ReleaseEffect, Proceeding
        DEF MigratorsTurn, Allowed, Told, Attempt, Others, goVars, mainVars
    <2> QED
        BY <2>1, <2>2, <2>3, SomebodyTells
<1>32. ASSUME AwaitUnlocked PROVE TellInv'
    <2>1. \A b \in Attempt : chan'[b].okToUnlockTable = chan[b].okToUnlockTable
                             \/ Len(chan'[b].okToUnlockTable) = Len(chan[b].okToUnlockTable) - 1
        BY <1>32, AwaitUnlockedEffect, Typed DEF MigratorsTurn, OnlyThese, Receives
    <2>2. \A b \in Attempt : Allowed(b)' >= Allowed(b)
        BY <1>32, AwaitUnlockedEffect
        DEF MigratorsTurn, Allowed, Told, Attempt, Others, goVars, mainVars
    <2> QED
        BY <2>1, <2>2, NobodyTells
<1>33. ASSUME AwaitRenamed PROVE TellInv'
    <2>1. \A b \in Attempt : chan'[b].okToUnlockTable = chan[b].okToUnlockTable
                             \/ Len(chan'[b].okToUnlockTable) = Len(chan[b].okToUnlockTable) - 1
        BY <1>33, AwaitRenamedEffect, Typed DEF MigratorsTurn, OnlyThese, Receives
    <2>2. \A b \in Attempt : Allowed(b)' >= Allowed(b)
        BY <1>33, AwaitRenamedEffect
        DEF MigratorsTurn, Allowed, Told, Attempt, Others, goVars, mainVars
    <2> QED
        BY <2>1, <2>2, NobodyTells
<1>34. ASSUME Leave PROVE TellInv'
    <2>1. /\ attempt \in Attempt /\ Sends(attempt, "okToUnlockTable", <<"ok">>)
          /\ \A b \in Attempt : b # attempt => chan'[b].okToUnlockTable = chan[b].okToUnlockTable
        BY <1>34, LeaveEffect, Typed DEF MigratorsTurn, OnlyThese
    <2>2. PICK b \in Attempt : b = attempt
        BY <2>1
    <2>3. Allowed(b)' = Allowed(b) + 1 /\ \A c \in Attempt : Allowed(c)' >= Allowed(c)
        BY <1>34, <2>2, LeaveEffect, Proceeding
        DEF MigratorsTurn, Allowed, Told, Attempt, Others, goVars, mainVars
    <2> QED
        BY <2>1, <2>2, <2>3, SomebodyTells
<1>35. ASSUME CheckSentry PROVE TellInv'
    <2>1. \A b \in Attempt : chan'[b].okToUnlockTable = chan[b].okToUnlockTable
                             \/ Len(chan'[b].okToUnlockTable) = Len(chan[b].okToUnlockTable) - 1
        BY <1>35, CheckSentryEffect, Typed
        DEF MigratorsTurn, Returned, OnlyThese, Receives
    <2>2. \A b \in Attempt : Allowed(b)' >= Allowed(b)
        BY <1>35, CheckSentryEffect
        DEF MigratorsTurn, Returned, Allowed, Told, Attempt, Others, goVars, mainVars
    <2> QED
        BY <2>1, <2>2, NobodyTells
<1>36. ASSUME DropSentry PROVE TellInv'
    <2>1. \A b \in Attempt : chan'[b].okToUnlockTable = chan[b].okToUnlockTable
                             \/ Len(chan'[b].okToUnlockTable) = Len(chan[b].okToUnlockTable) - 1
        BY <1>36, DropSentryEffect, Typed
        DEF MigratorsTurn, Returned, OnlyThese, Receives
    <2>2. \A b \in Attempt : Allowed(b)' >= Allowed(b)
        BY <1>36, DropSentryEffect
        DEF MigratorsTurn, Returned, Allowed, Told, Attempt, Others, goVars, mainVars
    <2> QED
        BY <2>1, <2>2, NobodyTells
<1>37. ASSUME \/ StartTwoStep \/ LockOriginalTable \/ RenameOriginal \/ RenameGhost
             \/ UnlockTables \/ ProcessExits \/ ConnectionLost PROVE TellInv'
    <2>1. TwoStepKind
        BY <1>37, StartTwoStepEffect, LockOriginalTableEffect, RenameOriginalEffect,
           RenameGhostEffect, UnlockTablesEffect, ProcessExitsEffect,
           ConnectionLostEffect
        DEF TwoStepsTurn
    <2> QED
        BY <2>1, Kinds, GivenKept DEF WellFormed, TellInv
<1> QED
    BY <1>1, <1>2, <1>3, <1>4, <1>5, <1>6, <1>7, <1>8, <1>9, <1>10, <1>11, <1>12, <1>13,
       <1>14, <1>15, <1>16, <1>17, <1>18, <1>19, <1>20, <1>21, <1>22, <1>23, <1>24,
       <1>25, <1>26, <1>27, <1>28, <1>29, <1>30, <1>31, <1>32, <1>33, <1>34, <1>35,
       <1>36, <1>37
    DEF Step, Migrator, Locker, Renamer, Server

(* Every step keeps what is reported true to the tables.                   *)
LEMMA OutcomeKept ==
    ASSUME WellFormed, RenamerInv, OutcomeInv, Step, UNCHANGED given
    PROVE  OutcomeInv'
<1>1. ASSUME UNCHANGED <<outcome, main, swapped, del>> PROVE OutcomeInv'
    BY <1>1, GivenKept DEF OutcomeInv, WellFormed
<1>2. ASSUME \/ ApplicationWrites \/ StreamEvent \/ EnqueueChallenge \/ ExecuteEvent
      PROVE  OutcomeInv'
    BY <1>2, <1>1, ApplicationWritesEffect, StreamEventEffect, EnqueueChallengeEffect,
       ExecuteEventEffect
    DEF PipesTurn, goVars, mainVars, pipeVars, tableVars
<1>3. ASSUME NEW a \in Attempt, \/ LockSession(a) \/ LockBeginFails(a) \/ LockFails(a)
             \/ SentryCheck(a) \/ LockTables(a) \/ LockTold(a) \/ LockUnlock(a)
             \/ LockDies(a)
      PROVE  OutcomeInv'
    BY <1>3, <1>1, LockSessionEffect, LockBeginFailsEffect, LockFailsEffect,
       SentryCheckEffect, LockTablesEffect, LockToldEffect, LockUnlockEffect,
       LockDiesEffect
    DEF LockersTurn, AttemptsTurn, Others, goVars, mainVars, pipeVars, tableVars
<1>4. ASSUME NEW a \in Attempt, SentryClear(a) PROVE OutcomeInv'
    BY <1>4, SentryClearEffect, GivenKept, Kinds
    DEF OutcomeInv, WellFormed, LockersTurn, AttemptsTurn, Others, goVars, mainVars,
        pipeVars, tableVars
<1>5. ASSUME NEW a \in Attempt, SentryCreate(a) PROVE OutcomeInv'
    BY <1>5, SentryCreateEffect, GivenKept, Kinds
    DEF OutcomeInv, WellFormed, LockersTurn, AttemptsTurn, Others, goVars, mainVars,
        pipeVars, tableVars
<1>6. ASSUME NEW a \in Attempt, LockDropSentry(a) PROVE OutcomeInv'
    BY <1>6, LockDropSentryEffect, GivenKept, Kinds
    DEF OutcomeInv, WellFormed, LockersTurn, AttemptsTurn, Others, goVars, mainVars,
        pipeVars, tableVars
<1>7. ASSUME NEW a \in Attempt, \/ RenameSession(a) \/ RenameIssue(a) \/ RenameReturns(a)
             \/ RenameBeginFails(a) \/ RenameFails(a) \/ RenameReturnsError(a)
             \/ ServerTimesOut(a)
      PROVE  OutcomeInv'
    BY <1>7, <1>1, RenameSessionEffect, RenameIssueEffect, RenameReturnsEffect,
       RenameBeginFailsEffect, RenameFailsEffect, RenameReturnsErrorEffect,
       ServerTimesOutEffect
    DEF RenamersTurn, AttemptsTurn, Others, ServersTurn, goVars, mainVars, pipeVars,
        tableVars
<1>8. ASSUME NEW a \in Attempt, ServerRenames(a) PROVE OutcomeInv'
    BY <1>8, ServerRenamesEffect, GivenKept, Kinds
    DEF OutcomeInv, WellFormed, ServersTurn, AttemptsTurn, Others, goVars, mainVars,
        pipeVars, tableVars
<1>9. ASSUME StartAttempt PROVE OutcomeInv'
    BY <1>9, StartAttemptEffect, GivenKept, Kinds
    DEF OutcomeInv, WellFormed, Others, goVars, mainVars, pipeVars, tableVars
<1>10. ASSUME AwaitTableLocked PROVE OutcomeInv'
    BY <1>10, AwaitTableLockedEffect, GivenKept, Kinds
    DEF OutcomeInv, WellFormed, MigratorsTurn, goVars, mainVars, pipeVars, tableVars
<1>11. ASSUME WriteChallenge PROVE OutcomeInv'
    BY <1>11, WriteChallengeEffect, GivenKept, Kinds
    DEF OutcomeInv, WellFormed, goVars, mainVars, pipeVars, tableVars
<1>12. ASSUME AwaitChallenge PROVE OutcomeInv'
    BY <1>12, AwaitChallengeEffect, GivenKept, Kinds
    DEF OutcomeInv, WellFormed, goVars, mainVars, pipeVars, tableVars
<1>13. ASSUME ChallengeTimeout PROVE OutcomeInv'
    BY <1>13, ChallengeTimeoutEffect, GivenKept, Kinds
    DEF OutcomeInv, WellFormed, goVars, mainVars, pipeVars, tableVars
<1>14. ASSUME SpawnRename PROVE OutcomeInv'
    BY <1>14, SpawnRenameEffect, GivenKept, Kinds
    DEF OutcomeInv, WellFormed, MigratorsTurn, Others, goVars, mainVars, pipeVars,
        tableVars
<1>15. ASSUME AwaitRenameSessionId PROVE OutcomeInv'
    BY <1>15, AwaitRenameSessionIdEffect, GivenKept, Kinds
    DEF OutcomeInv, WellFormed, MigratorsTurn, goVars, mainVars, pipeVars, tableVars
<1>16. ASSUME ExpectRename PROVE OutcomeInv'
    BY <1>16, ExpectRenameEffect, GivenKept, Kinds
    DEF OutcomeInv, WellFormed, MigratorsTurn, goVars, mainVars, pipeVars, tableVars
<1>17. ASSUME ExpectRenameGivesUp PROVE OutcomeInv'
    BY <1>17, ExpectRenameGivesUpEffect, GivenKept, Kinds
    DEF OutcomeInv, WellFormed, MigratorsTurn, goVars, mainVars, pipeVars, tableVars
<1>18. ASSUME ExpectLock PROVE OutcomeInv'
    BY <1>18, ExpectLockEffect, GivenKept, Kinds
    DEF OutcomeInv, WellFormed, MigratorsTurn, goVars, mainVars, pipeVars, tableVars
<1>19. ASSUME Release PROVE OutcomeInv'
    BY <1>19, ReleaseEffect, GivenKept, Kinds
    DEF OutcomeInv, WellFormed, MigratorsTurn, goVars, mainVars, pipeVars, tableVars
<1>20. ASSUME AwaitUnlocked PROVE OutcomeInv'
    BY <1>20, AwaitUnlockedEffect, GivenKept, Kinds
    DEF OutcomeInv, WellFormed, MigratorsTurn, goVars, mainVars, pipeVars, tableVars
<1>21. ASSUME AwaitRenamed PROVE OutcomeInv'
    BY <1>21, AwaitRenamedEffect, GivenKept, Kinds
    DEF OutcomeInv, WellFormed, RenamerInv, RenamerOf, Receives, MigratorsTurn, goVars,
        mainVars, pipeVars, tableVars
<1>22. ASSUME Leave PROVE OutcomeInv'
    BY <1>22, LeaveEffect, GivenKept, Kinds
    DEF OutcomeInv, WellFormed, MigratorsTurn, goVars, mainVars, pipeVars, tableVars
<1>23. ASSUME CheckSentry PROVE OutcomeInv'
    BY <1>23, CheckSentryEffect, GivenKept, Kinds
    DEF OutcomeInv, WellFormed, MigratorsTurn, Returned, goVars, mainVars, pipeVars,
        tableVars
<1>24. ASSUME DropSentry PROVE OutcomeInv'
    BY <1>24, DropSentryEffect, GivenKept, Kinds
    DEF OutcomeInv, WellFormed, MigratorsTurn, Returned, goVars, mainVars, pipeVars,
        tableVars
<1>25. ASSUME \/ ProcessExits \/ ConnectionLost PROVE OutcomeInv'
    BY <1>25, <1>1, ProcessExitsEffect, ConnectionLostEffect
    DEF TwoStepsTurn, goVars, mainVars, pipeVars, tableVars
<1>26. ASSUME StartTwoStep PROVE OutcomeInv'
    BY <1>26, StartTwoStepEffect, GivenKept, Kinds
    DEF OutcomeInv, WellFormed, TwoStepsTurn, goVars, mainVars, pipeVars, tableVars
<1>27. ASSUME LockOriginalTable PROVE OutcomeInv'
    BY <1>27, LockOriginalTableEffect, GivenKept, Kinds
    DEF OutcomeInv, WellFormed, TwoStepsTurn, goVars, mainVars, pipeVars, tableVars
<1>28. ASSUME RenameOriginal PROVE OutcomeInv'
    BY <1>28, RenameOriginalEffect, GivenKept, Kinds
    DEF OutcomeInv, WellFormed, TwoStepsTurn, goVars, mainVars, pipeVars, tableVars
<1>29. ASSUME RenameGhost PROVE OutcomeInv'
    BY <1>29, RenameGhostEffect, GivenKept, Kinds
    DEF OutcomeInv, WellFormed, TwoStepsTurn, goVars, mainVars, pipeVars, tableVars
<1>30. ASSUME UnlockTables PROVE OutcomeInv'
    BY <1>30, UnlockTablesEffect, GivenKept, Kinds
    DEF OutcomeInv, WellFormed, TwoStepsTurn, goVars, mainVars, pipeVars, tableVars
<1> QED
    BY <1>1, <1>2, <1>3, <1>4, <1>5, <1>6, <1>7, <1>8, <1>9, <1>10, <1>11, <1>12, <1>13,
       <1>14, <1>15, <1>16, <1>17, <1>18, <1>19, <1>20, <1>21, <1>22, <1>23, <1>24,
       <1>25, <1>26, <1>27, <1>28, <1>29, <1>30
    DEF Step, Migrator, Locker, Renamer, Server

(* Every step keeps challenges behind the writes made before the lock.     *)
LEMMA ChallengeKept ==
    ASSUME WellFormed, PipelineInv, LockerInv, ChallengeInv, Step, UNCHANGED given
    PROVE  ChallengeInv'
<1>1. ASSUME UNCHANGED <<main, log, lockHolder, attempt, applied>> PROVE ChallengeInv'
    BY <1>1, GivenKept DEF ChallengeInv, EventsUpToLockProcessed, Writes, WellFormed
<1>2. ASSUME \/ StreamEvent \/ EnqueueChallenge PROVE ChallengeInv'
    BY <1>2, <1>1, StreamEventEffect, EnqueueChallengeEffect
    DEF PipesTurn, goVars, mainVars, pipeVars, tableVars
<1>3. ASSUME ApplicationWrites PROVE ChallengeInv'
    BY <1>3, ApplicationWritesEffect, GivenKept, Kinds, NotAttempts, LogGrows,
       Proceeding
    DEF ChallengeInv, EventsUpToLockProcessed, Writes, WellFormed, Unlocked, PipesTurn,
        goVars, mainVars, pipeVars, tableVars
<1>4. ASSUME ExecuteEvent PROVE ChallengeInv'
    BY <1>4, ExecuteEventEffect, GivenKept, Kinds, NotAttempts, QueueShrinks
    DEF ChallengeInv, EventsUpToLockProcessed, Writes, WellFormed, PipeType, PipesTurn,
        goVars, mainVars, pipeVars, tableVars
<1>5. ASSUME NEW a \in Attempt, \/ LockSession(a) \/ LockBeginFails(a) \/ LockFails(a)
             \/ SentryCheck(a) \/ SentryClear(a) \/ SentryCreate(a) \/ LockTold(a)
             \/ LockDropSentry(a)
      PROVE  ChallengeInv'
    BY <1>5, <1>1, LockSessionEffect, LockBeginFailsEffect, LockFailsEffect,
       SentryCheckEffect, SentryClearEffect, SentryCreateEffect, LockToldEffect,
       LockDropSentryEffect
    DEF LockersTurn, AttemptsTurn, Others, goVars, mainVars, pipeVars, tableVars
<1>6. ASSUME NEW a \in Attempt, LockTables(a) PROVE ChallengeInv'
    BY <1>6, LockTablesEffect, GivenKept, Kinds, NotAttempts
    DEF ChallengeInv, EventsUpToLockProcessed, Writes, WellFormed, LockerInv, LockerOf,
        Locking, LockersTurn, AttemptsTurn, Others, goVars, mainVars, pipeVars,
        tableVars
<1>7. ASSUME NEW a \in Attempt, LockUnlock(a) PROVE ChallengeInv'
    BY <1>7, LockUnlockEffect, GivenKept, Kinds, NotAttempts
    DEF ChallengeInv, EventsUpToLockProcessed, Writes, WellFormed, LockersTurn,
        AttemptsTurn, Others, goVars, mainVars, pipeVars, tableVars
<1>8. ASSUME NEW a \in Attempt, LockDies(a) PROVE ChallengeInv'
    BY <1>8, LockDiesEffect, GivenKept, Kinds, NotAttempts
    DEF ChallengeInv, EventsUpToLockProcessed, Writes, WellFormed, LockersTurn,
        AttemptsTurn, Others, goVars, mainVars, pipeVars, tableVars
<1>9. ASSUME NEW a \in Attempt, \/ RenameSession(a) \/ RenameIssue(a) \/ RenameReturns(a)
             \/ RenameBeginFails(a) \/ RenameFails(a) \/ RenameReturnsError(a)
             \/ ServerRenames(a) \/ ServerTimesOut(a)
      PROVE  ChallengeInv'
    BY <1>9, <1>1, RenameSessionEffect, RenameIssueEffect, RenameReturnsEffect,
       RenameBeginFailsEffect, RenameFailsEffect, RenameReturnsErrorEffect,
       ServerRenamesEffect, ServerTimesOutEffect
    DEF RenamersTurn, AttemptsTurn, Others, ServersTurn, goVars, mainVars, pipeVars,
        tableVars
<1>10. ASSUME StartAttempt PROVE ChallengeInv'
    BY <1>10, StartAttemptEffect, GivenKept, Kinds, NotAttempts
    DEF ChallengeInv, EventsUpToLockProcessed, Writes, WellFormed, Others, goVars,
        mainVars, pipeVars, tableVars
<1>11. ASSUME AwaitTableLocked PROVE ChallengeInv'
    BY <1>11, AwaitTableLockedEffect, GivenKept, Kinds, NotAttempts
    DEF ChallengeInv, EventsUpToLockProcessed, Writes, WellFormed, MigratorsTurn,
        goVars, mainVars, pipeVars, tableVars
<1>12. ASSUME WriteChallenge PROVE ChallengeInv'
    BY <1>12, WriteChallengeEffect, GivenKept, Kinds, NotAttempts, LogGrows,
       ChallengeIsAttempt
    DEF ChallengeInv, EventsUpToLockProcessed, Writes, WellFormed, ControlInv,
        Untouched, MainType, goVars, mainVars, pipeVars, tableVars
<1>13. ASSUME AwaitChallenge PROVE ChallengeInv'
    BY <1>13, AwaitChallengeEffect, GivenKept, Kinds, NotAttempts
    DEF ChallengeInv, EventsUpToLockProcessed, Writes, WellFormed, PipelineInv,
        Challenge, Atomic, TwoStepKind, PipeType, goVars, mainVars, pipeVars, tableVars
<1>14. ASSUME ChallengeTimeout PROVE ChallengeInv'
    BY <1>14, ChallengeTimeoutEffect, GivenKept, Kinds, NotAttempts
    DEF ChallengeInv, EventsUpToLockProcessed, Writes, WellFormed, goVars, mainVars,
        pipeVars, tableVars
<1>15. ASSUME SpawnRename PROVE ChallengeInv'
    BY <1>15, SpawnRenameEffect, GivenKept, Kinds, NotAttempts
    DEF ChallengeInv, EventsUpToLockProcessed, Writes, WellFormed, MigratorsTurn,
        Others, goVars, mainVars, pipeVars, tableVars
<1>16. ASSUME AwaitRenameSessionId PROVE ChallengeInv'
    BY <1>16, AwaitRenameSessionIdEffect, GivenKept, Kinds, NotAttempts
    DEF ChallengeInv, EventsUpToLockProcessed, Writes, WellFormed, MigratorsTurn,
        goVars, mainVars, pipeVars, tableVars
<1>17. ASSUME ExpectRename PROVE ChallengeInv'
    BY <1>17, ExpectRenameEffect, GivenKept, Kinds, NotAttempts
    DEF ChallengeInv, EventsUpToLockProcessed, Writes, WellFormed, MigratorsTurn,
        goVars, mainVars, pipeVars, tableVars
<1>18. ASSUME ExpectRenameGivesUp PROVE ChallengeInv'
    BY <1>18, ExpectRenameGivesUpEffect, GivenKept, Kinds, NotAttempts
    DEF ChallengeInv, EventsUpToLockProcessed, Writes, WellFormed, MigratorsTurn,
        goVars, mainVars, pipeVars, tableVars
<1>19. ASSUME ExpectLock PROVE ChallengeInv'
    BY <1>19, ExpectLockEffect, GivenKept, Kinds, NotAttempts
    DEF ChallengeInv, EventsUpToLockProcessed, Writes, WellFormed, MigratorsTurn,
        goVars, mainVars, pipeVars, tableVars
<1>20. ASSUME Release PROVE ChallengeInv'
    BY <1>20, ReleaseEffect, GivenKept, Kinds, NotAttempts
    DEF ChallengeInv, EventsUpToLockProcessed, Writes, WellFormed, MigratorsTurn,
        goVars, mainVars, pipeVars, tableVars
<1>21. ASSUME AwaitUnlocked PROVE ChallengeInv'
    BY <1>21, AwaitUnlockedEffect, GivenKept, Kinds, NotAttempts
    DEF ChallengeInv, EventsUpToLockProcessed, Writes, WellFormed, MigratorsTurn,
        goVars, mainVars, pipeVars, tableVars
<1>22. ASSUME AwaitRenamed PROVE ChallengeInv'
    BY <1>22, AwaitRenamedEffect, GivenKept, Kinds, NotAttempts
    DEF ChallengeInv, EventsUpToLockProcessed, Writes, WellFormed, MigratorsTurn,
        goVars, mainVars, pipeVars, tableVars
<1>23. ASSUME Leave PROVE ChallengeInv'
    BY <1>23, LeaveEffect, GivenKept, Kinds, NotAttempts
    DEF ChallengeInv, EventsUpToLockProcessed, Writes, WellFormed, MigratorsTurn,
        goVars, mainVars, pipeVars, tableVars
<1>24. ASSUME CheckSentry PROVE ChallengeInv'
    BY <1>24, CheckSentryEffect, GivenKept, Kinds, NotAttempts
    DEF ChallengeInv, EventsUpToLockProcessed, Writes, WellFormed, MigratorsTurn,
        Returned, goVars, mainVars, pipeVars, tableVars
<1>25. ASSUME DropSentry PROVE ChallengeInv'
    BY <1>25, DropSentryEffect, GivenKept, Kinds, NotAttempts
    DEF ChallengeInv, EventsUpToLockProcessed, Writes, WellFormed, MigratorsTurn,
        Returned, goVars, mainVars, pipeVars, tableVars
<1>26. ASSUME StartTwoStep PROVE ChallengeInv'
    BY <1>26, StartTwoStepEffect, GivenKept, Kinds, NotAttempts
    DEF ChallengeInv, EventsUpToLockProcessed, Writes, WellFormed, TwoStepsTurn, goVars,
        mainVars, pipeVars, tableVars
<1>27. ASSUME LockOriginalTable PROVE ChallengeInv'
    BY <1>27, LockOriginalTableEffect, GivenKept, Kinds, NotAttempts
    DEF ChallengeInv, EventsUpToLockProcessed, Writes, WellFormed, TwoStepsTurn, goVars,
        mainVars, pipeVars, tableVars
<1>28. ASSUME RenameOriginal PROVE ChallengeInv'
    BY <1>28, RenameOriginalEffect, GivenKept, Kinds, NotAttempts
    DEF ChallengeInv, EventsUpToLockProcessed, Writes, WellFormed, TwoStepsTurn, goVars,
        mainVars, pipeVars, tableVars
<1>29. ASSUME RenameGhost PROVE ChallengeInv'
    BY <1>29, RenameGhostEffect, GivenKept, Kinds, NotAttempts
    DEF ChallengeInv, EventsUpToLockProcessed, Writes, WellFormed, TwoStepsTurn, goVars,
        mainVars, pipeVars, tableVars
<1>30. ASSUME UnlockTables PROVE ChallengeInv'
    BY <1>30, UnlockTablesEffect, GivenKept, Kinds, NotAttempts
    DEF ChallengeInv, EventsUpToLockProcessed, Writes, WellFormed, TwoStepsTurn, goVars,
        mainVars, pipeVars, tableVars
<1>31. ASSUME ProcessExits PROVE ChallengeInv'
    BY <1>31, ProcessExitsEffect, GivenKept, Kinds, NotAttempts
    DEF ChallengeInv, EventsUpToLockProcessed, Writes, WellFormed, TwoStepsTurn, goVars,
        mainVars, pipeVars, tableVars
<1>32. ASSUME ConnectionLost PROVE ChallengeInv'
    BY <1>32, ConnectionLostEffect, GivenKept, Kinds, NotAttempts
    DEF ChallengeInv, EventsUpToLockProcessed, Writes, WellFormed, TwoStepsTurn, goVars,
        mainVars, pipeVars, tableVars
<1> QED
    BY <1>1, <1>2, <1>3, <1>4, <1>5, <1>6, <1>7, <1>8, <1>9, <1>10, <1>11, <1>12, <1>13,
       <1>14, <1>15, <1>16, <1>17, <1>18, <1>19, <1>20, <1>21, <1>22, <1>23, <1>24,
       <1>25, <1>26, <1>27, <1>28, <1>29, <1>30, <1>31, <1>32
    DEF Step, Migrator, Locker, Renamer, Server

(* The two faults that Sound excludes.                                     *)
LEMMA NothingSlow ==
    ASSUME Sound
    PROVE  "slowRename" \notin faults /\ "reconnect" \notin faults
BY DEF Sound

(* The server knows of a RENAME when it has been issued.                   *)
LEMMA WaitingIsIssued ==
    ASSUME RenamerInv, Atomic, NEW a \in Attempt, server[a] # "none"
    PROVE  renamer[a] \notin {"off", "begin", "issue"}
BY DEF RenamerInv, RenamerOf

(* Every step keeps the sentry table in its place while it is needed.      *)
LEMMA SentryKept ==
    ASSUME WellFormed, LockerInv, RenamerInv, WaitInv, SentryInv, Step, UNCHANGED given
    PROVE  SentryInv'
<1>1. ASSUME UNCHANGED <<locker, del, lockHolder, main, attempt, server>>
      PROVE  SentryInv'
    BY <1>1, GivenKept DEF SentryInv, SentryOf, RenameWaits, BeforeRename
<1>2. ASSUME \/ ApplicationWrites \/ StreamEvent \/ EnqueueChallenge \/ ExecuteEvent
      PROVE  SentryInv'
    BY <1>2, <1>1, ApplicationWritesEffect, StreamEventEffect, EnqueueChallengeEffect,
       ExecuteEventEffect
    DEF PipesTurn, goVars, mainVars, pipeVars, tableVars
<1>3. ASSUME NEW a \in Attempt, LockSession(a) PROVE SentryInv'
    BY <1>3, LockSessionEffect, GivenKept, Kinds, NotAttempts
    DEF SentryInv, SentryOf, RenameWaits, BeforeRename, LockersTurn, AttemptsTurn,
        Others, goVars, mainVars, pipeVars, tableVars
<1>4. ASSUME NEW a \in Attempt, LockBeginFails(a) PROVE SentryInv'
    BY <1>4, LockBeginFailsEffect, GivenKept, Kinds, NotAttempts
    DEF SentryInv, SentryOf, RenameWaits, BeforeRename, LockersTurn, AttemptsTurn,
        Others, goVars, mainVars, pipeVars, tableVars
<1>5. ASSUME NEW a \in Attempt, LockFails(a) PROVE SentryInv'
    BY <1>5, LockFailsEffect, GivenKept, Kinds, NotAttempts
    DEF SentryInv, SentryOf, RenameWaits, BeforeRename, LockerInv, LockerOf, Locking,
        Holding, Unlocked, LockersTurn, AttemptsTurn, Others, goVars, mainVars,
        pipeVars, tableVars
<1>6. ASSUME NEW a \in Attempt, SentryCheck(a) PROVE SentryInv'
    BY <1>6, SentryCheckEffect, GivenKept, Kinds, NotAttempts
    DEF SentryInv, SentryOf, RenameWaits, BeforeRename, LockersTurn, AttemptsTurn,
        Others, goVars, mainVars, pipeVars, tableVars
<1>7. ASSUME NEW a \in Attempt, SentryClear(a) PROVE SentryInv'
    BY <1>7, SentryClearEffect, GivenKept, Kinds, NotAttempts
    DEF SentryInv, SentryOf, RenameWaits, BeforeRename, LockerInv, LockerOf, Locking,
        Holding, Unlocked, LockersTurn, AttemptsTurn, Others, goVars, mainVars,
        pipeVars, tableVars
<1>8. ASSUME NEW a \in Attempt, SentryCreate(a) PROVE SentryInv'
    BY <1>8, SentryCreateEffect, GivenKept, Kinds, NotAttempts
    DEF SentryInv, SentryOf, RenameWaits, BeforeRename, LockerInv, LockerOf, Locking,
        Holding, Unlocked, LockersTurn, AttemptsTurn, Others, goVars, mainVars,
        pipeVars, tableVars
<1>9. ASSUME NEW a \in Attempt, LockTables(a) PROVE SentryInv'
    BY <1>9, LockTablesEffect, GivenKept, Kinds, NotAttempts
    DEF SentryInv, SentryOf, RenameWaits, BeforeRename, LockerInv, LockerOf, Locking,
        Holding, Unlocked, LockersTurn, AttemptsTurn, Others, goVars, mainVars,
        pipeVars, tableVars
<1>10. ASSUME NEW a \in Attempt, LockTold(a) PROVE SentryInv'
    BY <1>10, LockToldEffect, GivenKept, Kinds, NotAttempts
    DEF SentryInv, SentryOf, RenameWaits, BeforeRename, LockersTurn, AttemptsTurn,
        Others, goVars, mainVars, pipeVars, tableVars
<1>11. ASSUME NEW a \in Attempt, LockDropSentry(a) PROVE SentryInv'
    BY <1>11, LockDropSentryEffect, GivenKept, Kinds, NotAttempts
    DEF SentryInv, SentryOf, RenameWaits, BeforeRename, LockerInv, LockerOf, Locking,
        Holding, Unlocked, LockersTurn, AttemptsTurn, Others, goVars, mainVars,
        pipeVars, tableVars
<1>12. ASSUME NEW a \in Attempt, LockUnlock(a) PROVE SentryInv'
    BY <1>12, LockUnlockEffect, GivenKept, Kinds, NotAttempts
    DEF SentryInv, SentryOf, RenameWaits, BeforeRename, LockerInv, LockerOf, Locking,
        Holding, Unlocked, LockersTurn, AttemptsTurn, Others, goVars, mainVars,
        pipeVars, tableVars
<1>13. ASSUME NEW a \in Attempt, LockDies(a) PROVE SentryInv'
    BY <1>13, LockDiesEffect, GivenKept, Kinds, NotAttempts
    DEF SentryInv, SentryOf, RenameWaits, BeforeRename, LockerInv, LockerOf, Locking,
        Holding, Unlocked, LockersTurn, AttemptsTurn, Others, goVars, mainVars,
        pipeVars, tableVars
<1>14. ASSUME NEW a \in Attempt, \/ RenameSession(a) \/ RenameReturns(a) \/ RenameBeginFails(a)
             \/ RenameFails(a) \/ RenameReturnsError(a)
      PROVE  SentryInv'
    BY <1>14, <1>1, RenameSessionEffect, RenameReturnsEffect, RenameBeginFailsEffect,
       RenameFailsEffect, RenameReturnsErrorEffect
    DEF RenamersTurn, AttemptsTurn, Others, goVars, mainVars, pipeVars, tableVars
<1>15. ASSUME NEW a \in Attempt, RenameIssue(a) PROVE SentryInv'
    BY <1>15, RenameIssueEffect, GivenKept, Kinds, NotAttempts
    DEF SentryInv, SentryOf, RenameWaits, BeforeRename, WaitInv, WaitOf, LockerInv,
        LockerOf, Locking, RenamersTurn, AttemptsTurn, Others, goVars, mainVars,
        pipeVars, tableVars
<1>16. ASSUME NEW a \in Attempt, ServerRenames(a) PROVE SentryInv'
    BY <1>16, ServerRenamesEffect, GivenKept, Kinds, NotAttempts
    DEF SentryInv, SentryOf, RenameWaits, BeforeRename, ServersTurn, AttemptsTurn,
        Others, goVars, mainVars, pipeVars, tableVars
<1>17. ASSUME NEW a \in Attempt, ServerTimesOut(a) PROVE SentryInv'
    BY <1>17, ServerTimesOutEffect, GivenKept, Kinds, NotAttempts
    DEF SentryInv, SentryOf, RenameWaits, BeforeRename, ServersTurn, AttemptsTurn,
        Others, goVars, mainVars, pipeVars, tableVars
<1>18. ASSUME StartAttempt PROVE SentryInv'
    BY <1>18, StartAttemptEffect, GivenKept, Kinds, NotAttempts
    DEF SentryInv, SentryOf, RenameWaits, BeforeRename, LockerInv, LockerOf, Locking,
        Others, goVars, mainVars, pipeVars, tableVars
<1>19. ASSUME AwaitTableLocked PROVE SentryInv'
    BY <1>19, AwaitTableLockedEffect, GivenKept, Kinds, NotAttempts
    DEF SentryInv, SentryOf, RenameWaits, BeforeRename, MigratorsTurn, goVars, mainVars,
        pipeVars, tableVars
<1>20. ASSUME WriteChallenge PROVE SentryInv'
    BY <1>20, WriteChallengeEffect, GivenKept, Kinds, NotAttempts
    DEF SentryInv, SentryOf, RenameWaits, BeforeRename, goVars, mainVars, pipeVars,
        tableVars
<1>21. ASSUME AwaitChallenge PROVE SentryInv'
    BY <1>21, AwaitChallengeEffect, GivenKept, Kinds, NotAttempts
    DEF SentryInv, SentryOf, RenameWaits, BeforeRename, goVars, mainVars, pipeVars,
        tableVars
<1>22. ASSUME ChallengeTimeout PROVE SentryInv'
    BY <1>22, ChallengeTimeoutEffect, GivenKept, Kinds, NotAttempts
    DEF SentryInv, SentryOf, RenameWaits, BeforeRename, goVars, mainVars, pipeVars,
        tableVars
<1>23. ASSUME SpawnRename PROVE SentryInv'
    BY <1>23, SpawnRenameEffect, GivenKept, Kinds, NotAttempts
    DEF SentryInv, SentryOf, RenameWaits, BeforeRename, MigratorsTurn, Others, goVars,
        mainVars, pipeVars, tableVars
<1>24. ASSUME AwaitRenameSessionId PROVE SentryInv'
    BY <1>24, AwaitRenameSessionIdEffect, GivenKept, Kinds, NotAttempts
    DEF SentryInv, SentryOf, RenameWaits, BeforeRename, MigratorsTurn, goVars, mainVars,
        pipeVars, tableVars
<1>25. ASSUME ExpectRename PROVE SentryInv'
    BY <1>25, ExpectRenameEffect, GivenKept, Kinds, NotAttempts
    DEF SentryInv, SentryOf, RenameWaits, BeforeRename, MigratorsTurn, goVars, mainVars,
        pipeVars, tableVars
<1>26. ASSUME ExpectRenameGivesUp PROVE SentryInv'
    BY <1>26, ExpectRenameGivesUpEffect, GivenKept, Kinds, NotAttempts
    DEF SentryInv, SentryOf, RenameWaits, BeforeRename, MigratorsTurn, goVars, mainVars,
        pipeVars, tableVars
<1>27. ASSUME ExpectLock PROVE SentryInv'
    BY <1>27, ExpectLockEffect, GivenKept, Kinds, NotAttempts
    DEF SentryInv, SentryOf, RenameWaits, BeforeRename, MigratorsTurn, goVars, mainVars,
        pipeVars, tableVars
<1>28. ASSUME Release PROVE SentryInv'
    BY <1>28, ReleaseEffect, GivenKept, Kinds, NotAttempts
    DEF SentryInv, SentryOf, RenameWaits, BeforeRename, MigratorsTurn, goVars, mainVars,
        pipeVars, tableVars
<1>29. ASSUME AwaitUnlocked PROVE SentryInv'
    BY <1>29, AwaitUnlockedEffect, GivenKept, Kinds, NotAttempts
    DEF SentryInv, SentryOf, RenameWaits, BeforeRename, MigratorsTurn, goVars, mainVars,
        pipeVars, tableVars
<1>30. ASSUME AwaitRenamed PROVE SentryInv'
    BY <1>30, AwaitRenamedEffect, GivenKept, Kinds, NotAttempts
    DEF SentryInv, SentryOf, RenameWaits, BeforeRename, MigratorsTurn, goVars, mainVars,
        pipeVars, tableVars
<1>31. ASSUME Leave PROVE SentryInv'
    BY <1>31, LeaveEffect, GivenKept, Kinds, NotAttempts
    DEF SentryInv, SentryOf, RenameWaits, BeforeRename, MigratorsTurn, goVars, mainVars,
        pipeVars, tableVars
<1>32. ASSUME CheckSentry PROVE SentryInv'
    BY <1>32, CheckSentryEffect, GivenKept, Kinds, NotAttempts
    DEF SentryInv, SentryOf, RenameWaits, BeforeRename, MigratorsTurn, Returned, goVars,
        mainVars, pipeVars, tableVars
<1>33. ASSUME DropSentry PROVE SentryInv'
    BY <1>33, DropSentryEffect, GivenKept, Kinds, NotAttempts
    DEF SentryInv, SentryOf, RenameWaits, BeforeRename, LockerInv, LockerOf, Locking,
        Unlocked, MigratorsTurn, Returned, goVars, mainVars, pipeVars, tableVars
<1>34. ASSUME \/ StartTwoStep \/ LockOriginalTable \/ RenameOriginal \/ RenameGhost
             \/ UnlockTables \/ ProcessExits \/ ConnectionLost PROVE SentryInv'
    <2>1. TwoStepKind
        BY <1>34, StartTwoStepEffect, LockOriginalTableEffect, RenameOriginalEffect,
           RenameGhostEffect, UnlockTablesEffect, ProcessExitsEffect,
           ConnectionLostEffect
        DEF TwoStepsTurn
    <2> QED
        BY <2>1, Kinds, GivenKept DEF WellFormed, SentryInv
<1> QED
    BY <1>1, <1>2, <1>3, <1>4, <1>5, <1>6, <1>7, <1>8, <1>9, <1>10, <1>11, <1>12, <1>13,
       <1>14, <1>15, <1>16, <1>17, <1>18, <1>19, <1>20, <1>21, <1>22, <1>23, <1>24,
       <1>25, <1>26, <1>27, <1>28, <1>29, <1>30, <1>31, <1>32, <1>33, <1>34
    DEF Step, Migrator, Locker, Renamer, Server

(* Every step keeps the lock until RENAME is issued.                       *)
LEMMA WaitKept ==
    ASSUME WellFormed, LockerInv, RenamerInv, WaitInv, Step, UNCHANGED given
    PROVE  WaitInv'
<1>1. ASSUME UNCHANGED <<renamer, attempt, main, locker, chan>> PROVE WaitInv'
    BY <1>1, GivenKept DEF WaitInv, WaitOf, BeforeRename
<1>2. ASSUME \/ ApplicationWrites \/ StreamEvent \/ EnqueueChallenge \/ ExecuteEvent
      PROVE  WaitInv'
    BY <1>2, <1>1, ApplicationWritesEffect, StreamEventEffect, EnqueueChallengeEffect,
       ExecuteEventEffect
    DEF PipesTurn, goVars, mainVars, pipeVars, tableVars
<1>3. ASSUME NEW a \in Attempt, LockSession(a) PROVE WaitInv'
    BY <1>3, LockSessionEffect, GivenKept, Kinds
    DEF WaitInv, WaitOf, BeforeRename, LockerInv, LockerOf, Locking, Holding,
        LockersTurn, AttemptsTurn, Others, goVars, mainVars, pipeVars, tableVars
<1>4. ASSUME NEW a \in Attempt, LockBeginFails(a) PROVE WaitInv'
    BY <1>4, LockBeginFailsEffect, GivenKept, Kinds, Typed
    DEF WaitInv, WaitOf, BeforeRename, LockerInv, LockerOf, Locking, Holding,
        LockersTurn, AttemptsTurn, Others, goVars, mainVars, pipeVars, tableVars,
        OnlyThese, Sends, Appended, Receives
<1>5. ASSUME NEW a \in Attempt, LockFails(a) PROVE WaitInv'
    BY <1>5, LockFailsEffect, GivenKept, Kinds, Typed
    DEF WaitInv, WaitOf, BeforeRename, LockerInv, LockerOf, Locking, Holding,
        LockersTurn, AttemptsTurn, Others, goVars, mainVars, pipeVars, tableVars,
        OnlyThese, Sends, Appended, Receives
<1>6. ASSUME NEW a \in Attempt, SentryCheck(a) PROVE WaitInv'
    BY <1>6, SentryCheckEffect, GivenKept, Kinds
    DEF WaitInv, WaitOf, BeforeRename, LockerInv, LockerOf, Locking, Holding,
        LockersTurn, AttemptsTurn, Others, goVars, mainVars, pipeVars, tableVars
<1>7. ASSUME NEW a \in Attempt, SentryClear(a) PROVE WaitInv'
    BY <1>7, SentryClearEffect, GivenKept, Kinds
    DEF WaitInv, WaitOf, BeforeRename, LockerInv, LockerOf, Locking, Holding,
        LockersTurn, AttemptsTurn, Others, goVars, mainVars, pipeVars, tableVars
<1>8. ASSUME NEW a \in Attempt, SentryCreate(a) PROVE WaitInv'
    BY <1>8, SentryCreateEffect, GivenKept, Kinds
    DEF WaitInv, WaitOf, BeforeRename, LockerInv, LockerOf, Locking, Holding,
        LockersTurn, AttemptsTurn, Others, goVars, mainVars, pipeVars, tableVars
<1>9. ASSUME NEW a \in Attempt, LockTables(a) PROVE WaitInv'
    BY <1>9, LockTablesEffect, GivenKept, Kinds, Typed
    DEF WaitInv, WaitOf, BeforeRename, LockerInv, LockerOf, Locking, Holding,
        LockersTurn, AttemptsTurn, Others, goVars, mainVars, pipeVars, tableVars,
        OnlyThese, Sends, Appended, Receives
<1>10. ASSUME NEW a \in Attempt, LockTold(a) PROVE WaitInv'
    BY <1>10, LockToldEffect, GivenKept, Kinds, Typed
    DEF WaitInv, WaitOf, BeforeRename, LockerInv, LockerOf, Locking, Holding,
        LockersTurn, AttemptsTurn, Others, goVars, mainVars, pipeVars, tableVars,
        OnlyThese, Sends, Appended, Receives
<1>11. ASSUME NEW a \in Attempt, LockDropSentry(a) PROVE WaitInv'
    BY <1>11, LockDropSentryEffect, GivenKept, Kinds
    DEF WaitInv, WaitOf, BeforeRename, LockerInv, LockerOf, Locking, Holding,
        LockersTurn, AttemptsTurn, Others, goVars, mainVars, pipeVars, tableVars
<1>12. ASSUME NEW a \in Attempt, LockUnlock(a) PROVE WaitInv'
    BY <1>12, LockUnlockEffect, GivenKept, Kinds, Typed
    DEF WaitInv, WaitOf, BeforeRename, LockerInv, LockerOf, Locking, Holding,
        LockersTurn, AttemptsTurn, Others, goVars, mainVars, pipeVars, tableVars,
        OnlyThese, Sends, Appended, Receives
<1>13. ASSUME NEW a \in Attempt, LockDies(a) PROVE WaitInv'
    BY <1>13, LockDiesEffect, GivenKept, Kinds
    DEF WaitInv, WaitOf, BeforeRename, LockersTurn, AttemptsTurn, Others, goVars,
        mainVars, pipeVars, tableVars
<1>14. ASSUME NEW a \in Attempt, \/ ServerRenames(a) \/ ServerTimesOut(a)
      PROVE  WaitInv'
    BY <1>14, <1>1, ServerRenamesEffect, ServerTimesOutEffect
    DEF ServersTurn, AttemptsTurn, Others, goVars, mainVars, pipeVars, tableVars
<1>15. ASSUME NEW a \in Attempt, RenameSession(a) PROVE WaitInv'
    BY <1>15, RenameSessionEffect, GivenKept, Kinds, Typed
    DEF WaitInv, WaitOf, BeforeRename, RenamersTurn, AttemptsTurn, Others, goVars,
        mainVars, pipeVars, tableVars, OnlyThese, Sends, Appended, Receives
<1>16. ASSUME NEW a \in Attempt, RenameIssue(a) PROVE WaitInv'
    BY <1>16, RenameIssueEffect, GivenKept, Kinds
    DEF WaitInv, WaitOf, BeforeRename, RenamersTurn, AttemptsTurn, Others, goVars,
        mainVars, pipeVars, tableVars
<1>17. ASSUME NEW a \in Attempt, RenameReturns(a) PROVE WaitInv'
    BY <1>17, RenameReturnsEffect, GivenKept, Kinds, Typed
    DEF WaitInv, WaitOf, BeforeRename, RenamerInv, RenamerOf, RenamersTurn,
        AttemptsTurn, Others, goVars, mainVars, pipeVars, tableVars, OnlyThese, Sends,
        Appended, Receives
<1>18. ASSUME NEW a \in Attempt, RenameBeginFails(a) PROVE WaitInv'
    BY <1>18, RenameBeginFailsEffect, GivenKept, Kinds, Typed
    DEF WaitInv, WaitOf, BeforeRename, RenamerInv, RenamerOf, RenamersTurn,
        AttemptsTurn, Others, goVars, mainVars, pipeVars, tableVars, OnlyThese, Sends,
        Appended, Receives
<1>19. ASSUME NEW a \in Attempt, RenameFails(a) PROVE WaitInv'
    BY <1>19, RenameFailsEffect, GivenKept, Kinds, Typed
    DEF WaitInv, WaitOf, BeforeRename, RenamerInv, RenamerOf, RenamersTurn,
        AttemptsTurn, Others, goVars, mainVars, pipeVars, tableVars, OnlyThese, Sends,
        Appended, Receives
<1>20. ASSUME NEW a \in Attempt, RenameReturnsError(a) PROVE WaitInv'
    BY <1>20, RenameReturnsErrorEffect, GivenKept, Kinds, Typed
    DEF WaitInv, WaitOf, BeforeRename, RenamerInv, RenamerOf, RenamersTurn,
        AttemptsTurn, Others, goVars, mainVars, pipeVars, tableVars, OnlyThese, Sends,
        Appended, Receives
<1>21. ASSUME StartAttempt PROVE WaitInv'
    BY <1>21, StartAttemptEffect, GivenKept, Kinds, Typed
    DEF WaitInv, WaitOf, BeforeRename, WellFormed, ControlInv, Untouched, MainType,
        Others, goVars, mainVars, pipeVars, tableVars
<1>22. ASSUME AwaitTableLocked PROVE WaitInv'
    BY <1>22, AwaitTableLockedEffect, GivenKept, Kinds, Typed
    DEF WaitInv, WaitOf, BeforeRename, MigratorsTurn, goVars, mainVars, pipeVars,
        tableVars, OnlyThese, Sends, Appended, Receives
<1>23. ASSUME WriteChallenge PROVE WaitInv'
    BY <1>23, WriteChallengeEffect, GivenKept, Kinds
    DEF WaitInv, WaitOf, BeforeRename, goVars, mainVars, pipeVars, tableVars
<1>24. ASSUME AwaitChallenge PROVE WaitInv'
    BY <1>24, AwaitChallengeEffect, GivenKept, Kinds
    DEF WaitInv, WaitOf, BeforeRename, goVars, mainVars, pipeVars, tableVars
<1>25. ASSUME ChallengeTimeout PROVE WaitInv'
    BY <1>25, ChallengeTimeoutEffect, GivenKept, Kinds
    DEF WaitInv, WaitOf, BeforeRename, goVars, mainVars, pipeVars, tableVars
<1>26. ASSUME SpawnRename PROVE WaitInv'
    BY <1>26, SpawnRenameEffect, GivenKept, Kinds
    DEF WaitInv, WaitOf, BeforeRename, RenamerInv, RenamerOf, MigratorsTurn, Others,
        goVars, mainVars, pipeVars, tableVars
<1>27. ASSUME AwaitRenameSessionId PROVE WaitInv'
    BY <1>27, AwaitRenameSessionIdEffect, GivenKept, Kinds, Typed
    DEF WaitInv, WaitOf, BeforeRename, MigratorsTurn, goVars, mainVars, pipeVars,
        tableVars, OnlyThese, Sends, Appended, Receives
<1>28. ASSUME ExpectRename PROVE WaitInv'
    BY <1>28, ExpectRenameEffect, GivenKept, Kinds
    DEF WaitInv, WaitOf, BeforeRename, RenamerInv, RenamerOf, MigratorsTurn, goVars,
        mainVars, pipeVars, tableVars
<1>29. ASSUME ExpectRenameGivesUp PROVE WaitInv'
    BY <1>29, ExpectRenameGivesUpEffect, GivenKept, Kinds, NothingSlow, Typed
    DEF WaitInv, WaitOf, BeforeRename, RenamerInv, RenamerOf, MigratorsTurn, goVars,
        mainVars, pipeVars, tableVars, OnlyThese, Sends, Appended, Receives
<1>30. ASSUME ExpectLock PROVE WaitInv'
    BY <1>30, ExpectLockEffect, GivenKept, Kinds
    DEF WaitInv, WaitOf, BeforeRename, MigratorsTurn, goVars, mainVars, pipeVars,
        tableVars
<1>31. ASSUME Release PROVE WaitInv'
    BY <1>31, ReleaseEffect, GivenKept, Kinds, Typed
    DEF WaitInv, WaitOf, BeforeRename, MigratorsTurn, goVars, mainVars, pipeVars,
        tableVars, OnlyThese, Sends, Appended, Receives
<1>32. ASSUME AwaitUnlocked PROVE WaitInv'
    BY <1>32, AwaitUnlockedEffect, GivenKept, Kinds, Typed
    DEF WaitInv, WaitOf, BeforeRename, MigratorsTurn, goVars, mainVars, pipeVars,
        tableVars, OnlyThese, Sends, Appended, Receives
<1>33. ASSUME AwaitRenamed PROVE WaitInv'
    BY <1>33, AwaitRenamedEffect, GivenKept, Kinds, Typed
    DEF WaitInv, WaitOf, BeforeRename, MigratorsTurn, goVars, mainVars, pipeVars,
        tableVars, OnlyThese, Sends, Appended, Receives
<1>34. ASSUME Leave PROVE WaitInv'
    BY <1>34, LeaveEffect, GivenKept, Kinds, Typed
    DEF WaitInv, WaitOf, BeforeRename, MigratorsTurn, goVars, mainVars, pipeVars,
        tableVars, OnlyThese, Sends, Appended, Receives
<1>35. ASSUME CheckSentry PROVE WaitInv'
    BY <1>35, CheckSentryEffect, GivenKept, Kinds
    DEF WaitInv, WaitOf, BeforeRename, MigratorsTurn, Returned, goVars, mainVars,
        pipeVars, tableVars
<1>36. ASSUME DropSentry PROVE WaitInv'
    BY <1>36, DropSentryEffect, GivenKept, Kinds
    DEF WaitInv, WaitOf, BeforeRename, MigratorsTurn, Returned, goVars, mainVars,
        pipeVars, tableVars
<1>37. ASSUME \/ StartTwoStep \/ LockOriginalTable \/ RenameOriginal \/ RenameGhost
             \/ UnlockTables \/ ProcessExits \/ ConnectionLost PROVE WaitInv'
    <2>1. TwoStepKind
        BY <1>37, StartTwoStepEffect, LockOriginalTableEffect, RenameOriginalEffect,
           RenameGhostEffect, UnlockTablesEffect, ProcessExitsEffect,
           ConnectionLostEffect
        DEF TwoStepsTurn
    <2> QED
        BY <2>1, Kinds, GivenKept DEF WellFormed, WaitInv
<1> QED
    BY <1>1, <1>2, <1>3, <1>4, <1>5, <1>6, <1>7, <1>8, <1>9, <1>10, <1>11, <1>12, <1>13,
       <1>14, <1>15, <1>16, <1>17, <1>18, <1>19, <1>20, <1>21, <1>22, <1>23, <1>24,
       <1>25, <1>26, <1>27, <1>28, <1>29, <1>30, <1>31, <1>32, <1>33, <1>34, <1>35,
       <1>36, <1>37
    DEF Step, Migrator, Locker, Renamer, Server

(* Every step keeps the RENAME that may be executed to the lock, the       *)
(* sentry or the application kept out.                                     *)
LEMMA PendingKept ==
    ASSUME WellFormed, PipeType, LockerInv, RenamerInv, ChallengeInv, SentryInv, WaitInv,
           PendingInv, Step, UNCHANGED given
    PROVE  PendingInv'
<1>1. ASSUME UNCHANGED <<renamer, server, lockHolder, applied, log, del>>
      PROVE  PendingInv'
    BY <1>1, GivenKept, WritesKept DEF PendingInv, PendingOf, Pending
<1>2. ASSUME \/ StreamEvent \/ EnqueueChallenge PROVE PendingInv'
    BY <1>2, <1>1, StreamEventEffect, EnqueueChallengeEffect
    DEF PipesTurn, goVars, pipeVars, tableVars, mainVars
<1>3. ASSUME ApplicationWrites PROVE PendingInv'
    BY <1>3, ApplicationWritesEffect, GivenKept, Kinds, NotAttempts, WritesKept,
       LogGrows
    DEF PendingInv, PendingOf, Pending, Unlocked, RenameWaits, WellFormed, RenamerInv,
        RenamerOf, PipesTurn, goVars, pipeVars, tableVars, mainVars
<1>4. ASSUME ExecuteEvent PROVE PendingInv'
    BY <1>4, ExecuteEventEffect, GivenKept, Kinds, NotAttempts, WritesKept,
       PipeTypeKept, QueueShrinks
    DEF PendingInv, PendingOf, Pending, PipeType, Writes, WellFormed, PipesTurn, goVars,
        pipeVars, tableVars, mainVars
<1>5. ASSUME NEW a \in Attempt, \/ LockSession(a) \/ LockBeginFails(a) \/ LockFails(a)
             \/ SentryCheck(a) \/ LockTold(a)
      PROVE  PendingInv'
    BY <1>5, <1>1, LockSessionEffect, LockBeginFailsEffect, LockFailsEffect,
       SentryCheckEffect, LockToldEffect
    DEF LockersTurn, AttemptsTurn, Others, goVars, pipeVars, tableVars, mainVars
<1>6. ASSUME NEW a \in Attempt, SentryClear(a) PROVE PendingInv'
    BY <1>6, SentryClearEffect, GivenKept, Kinds, NotAttempts, WritesKept
    DEF PendingInv, PendingOf, Pending, WaitInv, WaitOf, LockerInv, LockerOf, Locking,
        Unlocked, RenameWaits, LockersTurn, AttemptsTurn, Others, goVars, pipeVars,
        tableVars, mainVars
<1>7. ASSUME NEW a \in Attempt, SentryCreate(a) PROVE PendingInv'
    BY <1>7, SentryCreateEffect, GivenKept, Kinds, NotAttempts, WritesKept
    DEF PendingInv, PendingOf, Pending, LockersTurn, AttemptsTurn, Others, goVars,
        pipeVars, tableVars, mainVars
<1>8. ASSUME NEW a \in Attempt, LockTables(a) PROVE PendingInv'
    BY <1>8, LockTablesEffect, GivenKept, Kinds, NotAttempts, WritesKept
    DEF PendingInv, PendingOf, Pending, WaitInv, WaitOf, LockerInv, LockerOf, Locking,
        Unlocked, RenameWaits, LockersTurn, AttemptsTurn, Others, goVars, pipeVars,
        tableVars, mainVars
<1>9. ASSUME NEW a \in Attempt, LockDropSentry(a) PROVE PendingInv'
    BY <1>9, LockDropSentryEffect, GivenKept, Kinds, NotAttempts, WritesKept
    DEF PendingInv, PendingOf, Pending, WaitInv, WaitOf, LockerInv, LockerOf, SentryInv,
        SentryOf, Holding, LockersTurn, AttemptsTurn, Others, goVars, pipeVars,
        tableVars, mainVars
<1>10. ASSUME NEW a \in Attempt, LockUnlock(a) PROVE PendingInv'
    BY <1>10, LockUnlockEffect, GivenKept, Kinds, NotAttempts, WritesKept
    DEF PendingInv, PendingOf, Pending, WaitInv, WaitOf, LockerInv, LockerOf, SentryInv,
        SentryOf, Holding, LockersTurn, AttemptsTurn, Others, goVars, pipeVars,
        tableVars, mainVars
<1>11. ASSUME NEW a \in Attempt, LockDies(a) PROVE PendingInv'
    BY <1>11, LockDiesEffect, GivenKept, Kinds, NotAttempts, WritesKept
    DEF PendingInv, PendingOf, Pending, WaitInv, WaitOf, LockerInv, LockerOf, SentryInv,
        SentryOf, Holding, LockersTurn, AttemptsTurn, Others, goVars, pipeVars,
        tableVars, mainVars
<1>12. ASSUME NEW a \in Attempt, RenameSession(a) PROVE PendingInv'
    BY <1>12, RenameSessionEffect, GivenKept, Kinds, NotAttempts, WritesKept
    DEF PendingInv, PendingOf, Pending, RenamersTurn, AttemptsTurn, Others, goVars,
        pipeVars, tableVars, mainVars
<1>13. ASSUME NEW a \in Attempt, RenameIssue(a) PROVE PendingInv'
    BY <1>13, RenameIssueEffect, GivenKept, Kinds, NotAttempts, WritesKept
    DEF PendingInv, PendingOf, Pending, RenamerInv, RenamerOf, RenamersTurn,
        AttemptsTurn, Others, goVars, pipeVars, tableVars, mainVars
<1>14. ASSUME NEW a \in Attempt, RenameReturns(a) PROVE PendingInv'
    BY <1>14, RenameReturnsEffect, GivenKept, Kinds, NotAttempts, WritesKept
    DEF PendingInv, PendingOf, Pending, RenamerInv, RenamerOf, RenamersTurn,
        AttemptsTurn, Others, goVars, pipeVars, tableVars, mainVars
<1>15. ASSUME NEW a \in Attempt, RenameBeginFails(a) PROVE PendingInv'
    BY <1>15, RenameBeginFailsEffect, GivenKept, Kinds, NotAttempts, WritesKept
    DEF PendingInv, PendingOf, Pending, RenamerInv, RenamerOf, RenamersTurn,
        AttemptsTurn, Others, goVars, pipeVars, tableVars, mainVars
<1>16. ASSUME NEW a \in Attempt, RenameFails(a) PROVE PendingInv'
    BY <1>16, RenameFailsEffect, GivenKept, Kinds, NotAttempts, WritesKept
    DEF PendingInv, PendingOf, Pending, RenamerInv, RenamerOf, RenamersTurn,
        AttemptsTurn, Others, goVars, pipeVars, tableVars, mainVars
<1>17. ASSUME NEW a \in Attempt, RenameReturnsError(a) PROVE PendingInv'
    BY <1>17, RenameReturnsErrorEffect, GivenKept, Kinds, NotAttempts, WritesKept
    DEF PendingInv, PendingOf, Pending, RenamerInv, RenamerOf, RenamersTurn,
        AttemptsTurn, Others, goVars, pipeVars, tableVars, mainVars
<1>18. ASSUME NEW a \in Attempt, ServerRenames(a) PROVE PendingInv'
    BY <1>18, ServerRenamesEffect, GivenKept, Kinds, NotAttempts, WritesKept
    DEF PendingInv, PendingOf, Pending, RenamerInv, RenamerOf, ServersTurn,
        AttemptsTurn, Others, goVars, pipeVars, tableVars, mainVars
<1>19. ASSUME NEW a \in Attempt, ServerTimesOut(a) PROVE PendingInv'
    BY <1>19, ServerTimesOutEffect, GivenKept, Kinds, NotAttempts, WritesKept
    DEF PendingInv, PendingOf, Pending, RenamerInv, RenamerOf, ServersTurn,
        AttemptsTurn, Others, goVars, pipeVars, tableVars, mainVars
<1>20. ASSUME \/ StartAttempt \/ AwaitTableLocked \/ AwaitChallenge
             \/ ChallengeTimeout \/ AwaitRenameSessionId \/ ExpectRename
             \/ ExpectRenameGivesUp \/ ExpectLock \/ Release \/ AwaitUnlocked
             \/ AwaitRenamed \/ Leave \/ CheckSentry PROVE PendingInv'
    BY <1>20, <1>1, StartAttemptEffect, AwaitTableLockedEffect, AwaitChallengeEffect,
       ChallengeTimeoutEffect, AwaitRenameSessionIdEffect, ExpectRenameEffect,
       ExpectRenameGivesUpEffect, ExpectLockEffect, ReleaseEffect, AwaitUnlockedEffect,
       AwaitRenamedEffect, LeaveEffect, CheckSentryEffect
    DEF Others, MigratorsTurn, Returned, goVars, pipeVars, tableVars
<1>21. ASSUME WriteChallenge PROVE PendingInv'
    BY <1>21, WriteChallengeEffect, GivenKept, Kinds, NotAttempts, WritesKept, LogGrows,
       ChallengeIsAttempt
    DEF PendingInv, PendingOf, Pending, WellFormed, goVars, pipeVars, tableVars
<1>22. ASSUME SpawnRename PROVE PendingInv'
    BY <1>22, SpawnRenameEffect, GivenKept, Kinds, NotAttempts, WritesKept
    DEF PendingInv, PendingOf, Pending, WaitInv, WaitOf, SentryInv, SentryOf,
        RenameWaits, ChallengeInv, EventsUpToLockProcessed, BeforeRename, RenamerInv,
        RenamerOf, MigratorsTurn, Others, goVars, pipeVars, tableVars
<1>23. ASSUME DropSentry PROVE PendingInv'
    BY <1>23, DropSentryEffect, GivenKept, Kinds, NotAttempts, WritesKept
    DEF PendingInv, PendingOf, Pending, WaitInv, WaitOf, LockerInv, LockerOf, Locking,
        Unlocked, RenameWaits, MigratorsTurn, Returned, goVars, pipeVars, tableVars
<1>24. ASSUME \/ StartTwoStep \/ LockOriginalTable \/ RenameOriginal \/ RenameGhost
             \/ UnlockTables \/ ProcessExits \/ ConnectionLost PROVE PendingInv'
    <2>1. TwoStepKind
        BY <1>24, StartTwoStepEffect, LockOriginalTableEffect, RenameOriginalEffect,
           RenameGhostEffect, UnlockTablesEffect, ProcessExitsEffect,
           ConnectionLostEffect
        DEF TwoStepsTurn
    <2> QED
        BY <2>1, Kinds, GivenKept DEF WellFormed, PendingInv
<1> QED
    BY <1>1, <1>2, <1>3, <1>4, <1>5, <1>6, <1>7, <1>8, <1>9, <1>10, <1>11, <1>12, <1>13,
       <1>14, <1>15, <1>16, <1>17, <1>18, <1>19, <1>20, <1>21, <1>22, <1>23, <1>24
    DEF Step, Migrator, Locker, Renamer, Server

(* Every step of the two-step cut-over renames under the lock, or after    *)
(* it.                                                                     *)
LEMMA TwoStepKept ==
    ASSUME WellFormed, OutcomeInv, ChallengeInv, TwoStepInv, Step, UNCHANGED given
    PROVE  TwoStepInv'
<1>1. ASSUME UNCHANGED <<main, lockHolder, attempt, del, applied, log>>
      PROVE  TwoStepInv'
    BY <1>1, GivenKept, WritesKept DEF TwoStepInv, WellFormed
<1>2. ASSUME \/ StreamEvent \/ EnqueueChallenge PROVE TwoStepInv'
    BY <1>2, <1>1, StreamEventEffect, EnqueueChallengeEffect
    DEF PipesTurn, goVars, mainVars, pipeVars, tableVars
<1>3. ASSUME ApplicationWrites PROVE TwoStepInv'
    BY <1>3, ApplicationWritesEffect, GivenKept, Kinds, WritesKept, LogGrows
    DEF TwoStepInv, WellFormed, OutcomeInv, OriginalThere, PipesTurn, goVars, mainVars,
        pipeVars, tableVars
<1>4. ASSUME ExecuteEvent PROVE TwoStepInv'
    BY <1>4, ExecuteEventEffect, GivenKept, Kinds, WritesKept, QueueShrinks
    DEF TwoStepInv, WellFormed, PipeType, Writes, PipesTurn, goVars, mainVars, pipeVars,
        tableVars
<1>5. ASSUME NEW a \in Attempt, \/ LockSession(a) \/ LockBeginFails(a) \/ LockFails(a)
             \/ SentryCheck(a) \/ SentryClear(a) \/ SentryCreate(a) \/ LockTables(a)
             \/ LockTold(a) \/ LockDropSentry(a) \/ LockUnlock(a) \/ LockDies(a)
      PROVE  TwoStepInv'
    <2>1. Atomic
        BY <1>5, LockSessionEffect, LockBeginFailsEffect, LockFailsEffect,
           SentryCheckEffect, SentryClearEffect, SentryCreateEffect, LockTablesEffect,
           LockToldEffect, LockDropSentryEffect, LockUnlockEffect, LockDiesEffect
        DEF LockersTurn, AttemptsTurn
    <2> QED
        BY <2>1, Kinds, GivenKept DEF WellFormed, TwoStepInv
<1>6. ASSUME NEW a \in Attempt, \/ RenameSession(a) \/ RenameIssue(a) \/ RenameReturns(a)
             \/ RenameBeginFails(a) \/ RenameFails(a) \/ RenameReturnsError(a)
             \/ ServerRenames(a) \/ ServerTimesOut(a)
      PROVE  TwoStepInv'
    <2>1. Atomic
        BY <1>6, RenameSessionEffect, RenameIssueEffect, RenameReturnsEffect,
           RenameBeginFailsEffect, RenameFailsEffect, RenameReturnsErrorEffect,
           ServerRenamesEffect, ServerTimesOutEffect
        DEF RenamersTurn, AttemptsTurn, ServersTurn
    <2> QED
        BY <2>1, Kinds, GivenKept DEF WellFormed, TwoStepInv
<1>7. ASSUME StartAttempt PROVE TwoStepInv'
    BY <1>7, StartAttemptEffect, GivenKept, Kinds, WritesKept
    DEF TwoStepInv, WellFormed, Others, goVars, mainVars, pipeVars, tableVars
<1>8. ASSUME AwaitTableLocked PROVE TwoStepInv'
    BY <1>8, AwaitTableLockedEffect, GivenKept, Kinds, WritesKept
    DEF TwoStepInv, WellFormed, MigratorsTurn, goVars, mainVars, pipeVars, tableVars
<1>9. ASSUME WriteChallenge PROVE TwoStepInv'
    BY <1>9, WriteChallengeEffect, GivenKept, Kinds, WritesKept, LogGrows,
       ChallengeIsAttempt
    DEF TwoStepInv, WellFormed, goVars, mainVars, pipeVars, tableVars
<1>10. ASSUME AwaitChallenge PROVE TwoStepInv'
    BY <1>10, AwaitChallengeEffect, GivenKept, Kinds, WritesKept
    DEF TwoStepInv, WellFormed, goVars, mainVars, pipeVars, tableVars
<1>11. ASSUME ChallengeTimeout PROVE TwoStepInv'
    BY <1>11, ChallengeTimeoutEffect, GivenKept, Kinds, WritesKept
    DEF TwoStepInv, WellFormed, goVars, mainVars, pipeVars, tableVars
<1>12. ASSUME SpawnRename PROVE TwoStepInv'
    BY <1>12, SpawnRenameEffect, GivenKept, Kinds, WritesKept
    DEF TwoStepInv, WellFormed, MigratorsTurn, Others, goVars, mainVars, pipeVars,
        tableVars
<1>13. ASSUME AwaitRenameSessionId PROVE TwoStepInv'
    BY <1>13, AwaitRenameSessionIdEffect, GivenKept, Kinds, WritesKept
    DEF TwoStepInv, WellFormed, MigratorsTurn, goVars, mainVars, pipeVars, tableVars
<1>14. ASSUME ExpectRename PROVE TwoStepInv'
    BY <1>14, ExpectRenameEffect, GivenKept, Kinds, WritesKept
    DEF TwoStepInv, WellFormed, MigratorsTurn, goVars, mainVars, pipeVars, tableVars
<1>15. ASSUME ExpectRenameGivesUp PROVE TwoStepInv'
    BY <1>15, ExpectRenameGivesUpEffect, GivenKept, Kinds, WritesKept
    DEF TwoStepInv, WellFormed, MigratorsTurn, goVars, mainVars, pipeVars, tableVars
<1>16. ASSUME ExpectLock PROVE TwoStepInv'
    BY <1>16, ExpectLockEffect, GivenKept, Kinds, WritesKept
    DEF TwoStepInv, WellFormed, MigratorsTurn, goVars, mainVars, pipeVars, tableVars
<1>17. ASSUME Release PROVE TwoStepInv'
    BY <1>17, ReleaseEffect, GivenKept, Kinds, WritesKept
    DEF TwoStepInv, WellFormed, MigratorsTurn, goVars, mainVars, pipeVars, tableVars
<1>18. ASSUME AwaitUnlocked PROVE TwoStepInv'
    BY <1>18, AwaitUnlockedEffect, GivenKept, Kinds, WritesKept
    DEF TwoStepInv, WellFormed, MigratorsTurn, goVars, mainVars, pipeVars, tableVars
<1>19. ASSUME AwaitRenamed PROVE TwoStepInv'
    BY <1>19, AwaitRenamedEffect, GivenKept, Kinds, WritesKept
    DEF TwoStepInv, WellFormed, MigratorsTurn, goVars, mainVars, pipeVars, tableVars
<1>20. ASSUME Leave PROVE TwoStepInv'
    BY <1>20, LeaveEffect, GivenKept, Kinds, WritesKept
    DEF TwoStepInv, WellFormed, MigratorsTurn, goVars, mainVars, pipeVars, tableVars
<1>21. ASSUME CheckSentry PROVE TwoStepInv'
    BY <1>21, CheckSentryEffect, GivenKept, Kinds, WritesKept
    DEF TwoStepInv, WellFormed, MigratorsTurn, Returned, goVars, mainVars, pipeVars,
        tableVars
<1>22. ASSUME DropSentry PROVE TwoStepInv'
    BY <1>22, DropSentryEffect, GivenKept, Kinds, WritesKept
    DEF TwoStepInv, WellFormed, MigratorsTurn, Returned, goVars, mainVars, pipeVars,
        tableVars
<1>23. ASSUME StartTwoStep PROVE TwoStepInv'
    BY <1>23, StartTwoStepEffect, GivenKept, Kinds, WritesKept
    DEF TwoStepInv, WellFormed, OutcomeInv, TwoStepsTurn, goVars, mainVars, pipeVars,
        tableVars
<1>24. ASSUME LockOriginalTable PROVE TwoStepInv'
    BY <1>24, LockOriginalTableEffect, GivenKept, Kinds, WritesKept
    DEF TwoStepInv, WellFormed, OutcomeInv, TwoStepsTurn, goVars, mainVars, pipeVars,
        tableVars
<1>25. ASSUME RenameOriginal PROVE TwoStepInv'
    BY <1>25, RenameOriginalEffect, GivenKept, Kinds, WritesKept
    DEF TwoStepInv, WellFormed, ChallengeInv, EventsUpToLockProcessed, OutcomeInv,
        TwoStepsTurn, goVars, mainVars, pipeVars, tableVars
<1>26. ASSUME RenameGhost PROVE TwoStepInv'
    BY <1>26, RenameGhostEffect, GivenKept, Kinds, WritesKept
    DEF TwoStepInv, WellFormed, OutcomeInv, TwoStepsTurn, goVars, mainVars, pipeVars,
        tableVars
<1>27. ASSUME UnlockTables PROVE TwoStepInv'
    BY <1>27, UnlockTablesEffect, GivenKept, Kinds, WritesKept
    DEF TwoStepInv, WellFormed, TwoStepsTurn, goVars, mainVars, pipeVars, tableVars
<1>28. ASSUME ProcessExits PROVE TwoStepInv'
    BY <1>28, ProcessExitsEffect, GivenKept, Kinds, WritesKept
    DEF TwoStepInv, WellFormed, TwoStepsTurn, goVars, mainVars, pipeVars, tableVars
<1>29. ASSUME ConnectionLost PROVE TwoStepInv'
    BY <1>29, ConnectionLostEffect, GivenKept, Kinds, WritesKept, NothingSlow
    DEF TwoStepInv, WellFormed, TwoStepsTurn, goVars, mainVars, pipeVars, tableVars
<1> QED
    BY <1>1, <1>2, <1>3, <1>4, <1>5, <1>6, <1>7, <1>8, <1>9, <1>10, <1>11, <1>12, <1>13,
       <1>14, <1>15, <1>16, <1>17, <1>18, <1>19, <1>20, <1>21, <1>22, <1>23, <1>24,
       <1>25, <1>26, <1>27, <1>28, <1>29
    DEF Step, Migrator, Locker, Renamer, Server

(* The faults that Calm excludes.                                          *)
LEMMA OnlyBegin ==
    ASSUME Calm
    PROVE  /\ Sound /\ "lockDies" \notin faults /\ "query" \notin faults
           /\ "renameLost" \notin faults /\ "slowRename" \notin faults
BY DEF Calm, Sound

(* Every step leaves the swap to a RENAME.                                 *)
LEMMA SwapperKept ==
    ASSUME WellFormed, RenamerInv, SwapperInv, Step, UNCHANGED given
    PROVE  SwapperInv'
<1>1. ASSUME UNCHANGED <<swapped, server>> PROVE SwapperInv'
    BY <1>1, GivenKept DEF SwapperInv
<1>2. ASSUME \/ ApplicationWrites \/ StreamEvent \/ EnqueueChallenge \/ ExecuteEvent
      PROVE  SwapperInv'
    BY <1>2, <1>1, ApplicationWritesEffect, StreamEventEffect, EnqueueChallengeEffect,
       ExecuteEventEffect
    DEF PipesTurn, goVars, pipeVars, tableVars, mainVars
<1>3. ASSUME NEW a \in Attempt, \/ LockSession(a) \/ LockBeginFails(a) \/ LockFails(a)
             \/ SentryCheck(a) \/ SentryClear(a) \/ SentryCreate(a) \/ LockTables(a)
             \/ LockTold(a) \/ LockDropSentry(a) \/ LockUnlock(a) \/ LockDies(a)
      PROVE  SwapperInv'
    BY <1>3, <1>1, LockSessionEffect, LockBeginFailsEffect, LockFailsEffect,
       SentryCheckEffect, SentryClearEffect, SentryCreateEffect, LockTablesEffect,
       LockToldEffect, LockDropSentryEffect, LockUnlockEffect, LockDiesEffect
    DEF LockersTurn, AttemptsTurn, Others, goVars, pipeVars, tableVars, mainVars
<1>4. ASSUME NEW a \in Attempt, \/ RenameSession(a) \/ RenameReturns(a) \/ RenameBeginFails(a)
             \/ RenameFails(a) \/ RenameReturnsError(a)
      PROVE  SwapperInv'
    BY <1>4, <1>1, RenameSessionEffect, RenameReturnsEffect, RenameBeginFailsEffect,
       RenameFailsEffect, RenameReturnsErrorEffect
    DEF RenamersTurn, AttemptsTurn, Others, goVars, pipeVars, tableVars, mainVars
<1>5. ASSUME NEW a \in Attempt, RenameIssue(a) PROVE SwapperInv'
    BY <1>5, RenameIssueEffect, GivenKept, Kinds
    DEF SwapperInv, RenamerInv, RenamerOf, RenamersTurn, AttemptsTurn, Others, goVars,
        pipeVars, tableVars, mainVars
<1>6. ASSUME NEW a \in Attempt, ServerRenames(a) PROVE SwapperInv'
    BY <1>6, ServerRenamesEffect, GivenKept, Kinds
    DEF SwapperInv, RenamerInv, RenamerOf, ServersTurn, AttemptsTurn, Others, goVars,
        pipeVars, tableVars, mainVars
<1>7. ASSUME NEW a \in Attempt, ServerTimesOut(a) PROVE SwapperInv'
    BY <1>7, ServerTimesOutEffect, GivenKept, Kinds
    DEF SwapperInv, RenamerInv, RenamerOf, ServersTurn, AttemptsTurn, Others, goVars,
        pipeVars, tableVars, mainVars
<1>8. ASSUME \/ StartAttempt \/ AwaitTableLocked \/ WriteChallenge \/ AwaitChallenge
             \/ ChallengeTimeout \/ SpawnRename \/ AwaitRenameSessionId
             \/ ExpectRename \/ ExpectRenameGivesUp \/ ExpectLock \/ Release
             \/ AwaitUnlocked \/ AwaitRenamed \/ Leave \/ CheckSentry \/ DropSentry PROVE SwapperInv'
    BY <1>8, <1>1, StartAttemptEffect, AwaitTableLockedEffect, WriteChallengeEffect,
       AwaitChallengeEffect, ChallengeTimeoutEffect, SpawnRenameEffect,
       AwaitRenameSessionIdEffect, ExpectRenameEffect, ExpectRenameGivesUpEffect,
       ExpectLockEffect, ReleaseEffect, AwaitUnlockedEffect, AwaitRenamedEffect,
       LeaveEffect, CheckSentryEffect, DropSentryEffect
    DEF Others, MigratorsTurn, Returned, goVars, pipeVars, tableVars
<1>9. ASSUME \/ StartTwoStep \/ LockOriginalTable \/ RenameOriginal \/ RenameGhost
             \/ UnlockTables \/ ProcessExits \/ ConnectionLost PROVE SwapperInv'
    <2>1. TwoStepKind
        BY <1>9, StartTwoStepEffect, LockOriginalTableEffect, RenameOriginalEffect,
           RenameGhostEffect, UnlockTablesEffect, ProcessExitsEffect,
           ConnectionLostEffect
        DEF TwoStepsTurn
    <2> QED
        BY <2>1, Kinds, GivenKept DEF WellFormed, SwapperInv
<1> QED
    BY <1>1, <1>2, <1>3, <1>4, <1>5, <1>6, <1>7, <1>8, <1>9
    DEF Step, Migrator, Locker, Renamer, Server

(* Every step that aborts the two-step cut-over leaves the original        *)
(* table.                                                                  *)
LEMMA AbortKept ==
    ASSUME WellFormed, OutcomeInv, AbortInv, Step, UNCHANGED given
    PROVE  AbortInv'
<1>1. ASSUME UNCHANGED <<main, del>> PROVE AbortInv'
    BY <1>1, GivenKept DEF AbortInv, WellFormed
<1>2. ASSUME \/ ApplicationWrites \/ StreamEvent \/ EnqueueChallenge \/ ExecuteEvent
      PROVE  AbortInv'
    BY <1>2, <1>1, ApplicationWritesEffect, StreamEventEffect, EnqueueChallengeEffect,
       ExecuteEventEffect
    DEF PipesTurn, goVars, mainVars, pipeVars, tableVars
<1>3. ASSUME NEW a \in Attempt, \/ LockSession(a) \/ LockBeginFails(a) \/ LockFails(a)
             \/ SentryCheck(a) \/ SentryClear(a) \/ SentryCreate(a) \/ LockTables(a)
             \/ LockTold(a) \/ LockDropSentry(a) \/ LockUnlock(a) \/ LockDies(a)
      PROVE  AbortInv'
    <2>1. Atomic
        BY <1>3, LockSessionEffect, LockBeginFailsEffect, LockFailsEffect,
           SentryCheckEffect, SentryClearEffect, SentryCreateEffect, LockTablesEffect,
           LockToldEffect, LockDropSentryEffect, LockUnlockEffect, LockDiesEffect
        DEF LockersTurn, AttemptsTurn
    <2> QED
        BY <2>1, Kinds, GivenKept DEF WellFormed, AbortInv
<1>4. ASSUME NEW a \in Attempt, \/ RenameSession(a) \/ RenameIssue(a) \/ RenameReturns(a)
             \/ RenameBeginFails(a) \/ RenameFails(a) \/ RenameReturnsError(a)
             \/ ServerRenames(a) \/ ServerTimesOut(a)
      PROVE  AbortInv'
    <2>1. Atomic
        BY <1>4, RenameSessionEffect, RenameIssueEffect, RenameReturnsEffect,
           RenameBeginFailsEffect, RenameFailsEffect, RenameReturnsErrorEffect,
           ServerRenamesEffect, ServerTimesOutEffect
        DEF RenamersTurn, AttemptsTurn, ServersTurn
    <2> QED
        BY <2>1, Kinds, GivenKept DEF WellFormed, AbortInv
<1>5. ASSUME StartAttempt PROVE AbortInv'
    BY <1>5, StartAttemptEffect, GivenKept, Kinds, OnlyBegin
    DEF AbortInv, WellFormed, OutcomeInv, Others, goVars, mainVars, pipeVars, tableVars
<1>6. ASSUME AwaitTableLocked PROVE AbortInv'
    BY <1>6, AwaitTableLockedEffect, GivenKept, Kinds, OnlyBegin
    DEF AbortInv, WellFormed, OutcomeInv, MigratorsTurn, goVars, mainVars, pipeVars,
        tableVars
<1>7. ASSUME WriteChallenge PROVE AbortInv'
    BY <1>7, WriteChallengeEffect, GivenKept, Kinds, OnlyBegin
    DEF AbortInv, WellFormed, OutcomeInv, goVars, mainVars, pipeVars, tableVars
<1>8. ASSUME AwaitChallenge PROVE AbortInv'
    BY <1>8, AwaitChallengeEffect, GivenKept, Kinds, OnlyBegin
    DEF AbortInv, WellFormed, OutcomeInv, goVars, mainVars, pipeVars, tableVars
<1>9. ASSUME ChallengeTimeout PROVE AbortInv'
    BY <1>9, ChallengeTimeoutEffect, GivenKept, Kinds, OnlyBegin
    DEF AbortInv, WellFormed, OutcomeInv, goVars, mainVars, pipeVars, tableVars
<1>10. ASSUME SpawnRename PROVE AbortInv'
    BY <1>10, SpawnRenameEffect, GivenKept, Kinds, OnlyBegin
    DEF AbortInv, WellFormed, OutcomeInv, MigratorsTurn, Others, goVars, mainVars,
        pipeVars, tableVars
<1>11. ASSUME AwaitRenameSessionId PROVE AbortInv'
    BY <1>11, AwaitRenameSessionIdEffect, GivenKept, Kinds, OnlyBegin
    DEF AbortInv, WellFormed, OutcomeInv, MigratorsTurn, goVars, mainVars, pipeVars,
        tableVars
<1>12. ASSUME ExpectRename PROVE AbortInv'
    BY <1>12, ExpectRenameEffect, GivenKept, Kinds, OnlyBegin
    DEF AbortInv, WellFormed, OutcomeInv, MigratorsTurn, goVars, mainVars, pipeVars,
        tableVars
<1>13. ASSUME ExpectRenameGivesUp PROVE AbortInv'
    BY <1>13, ExpectRenameGivesUpEffect, GivenKept, Kinds, OnlyBegin
    DEF AbortInv, WellFormed, OutcomeInv, MigratorsTurn, goVars, mainVars, pipeVars,
        tableVars
<1>14. ASSUME ExpectLock PROVE AbortInv'
    BY <1>14, ExpectLockEffect, GivenKept, Kinds, OnlyBegin
    DEF AbortInv, WellFormed, OutcomeInv, MigratorsTurn, goVars, mainVars, pipeVars,
        tableVars
<1>15. ASSUME Release PROVE AbortInv'
    BY <1>15, ReleaseEffect, GivenKept, Kinds, OnlyBegin
    DEF AbortInv, WellFormed, OutcomeInv, MigratorsTurn, goVars, mainVars, pipeVars,
        tableVars
<1>16. ASSUME AwaitUnlocked PROVE AbortInv'
    BY <1>16, AwaitUnlockedEffect, GivenKept, Kinds, OnlyBegin
    DEF AbortInv, WellFormed, OutcomeInv, MigratorsTurn, goVars, mainVars, pipeVars,
        tableVars
<1>17. ASSUME AwaitRenamed PROVE AbortInv'
    BY <1>17, AwaitRenamedEffect, GivenKept, Kinds, OnlyBegin
    DEF AbortInv, WellFormed, OutcomeInv, MigratorsTurn, goVars, mainVars, pipeVars,
        tableVars
<1>18. ASSUME Leave PROVE AbortInv'
    BY <1>18, LeaveEffect, GivenKept, Kinds, OnlyBegin
    DEF AbortInv, WellFormed, OutcomeInv, MigratorsTurn, goVars, mainVars, pipeVars,
        tableVars
<1>19. ASSUME CheckSentry PROVE AbortInv'
    BY <1>19, CheckSentryEffect, GivenKept, Kinds, OnlyBegin
    DEF AbortInv, WellFormed, OutcomeInv, MigratorsTurn, Returned, goVars, mainVars,
        pipeVars, tableVars
<1>20. ASSUME DropSentry PROVE AbortInv'
    BY <1>20, DropSentryEffect, GivenKept, Kinds, OnlyBegin
    DEF AbortInv, WellFormed, OutcomeInv, MigratorsTurn, Returned, goVars, mainVars,
        pipeVars, tableVars
<1>21. ASSUME \/ ProcessExits \/ ConnectionLost PROVE AbortInv'
    BY <1>21, <1>1, ProcessExitsEffect, ConnectionLostEffect
    DEF TwoStepsTurn, goVars, mainVars, pipeVars, tableVars
<1>22. ASSUME StartTwoStep PROVE AbortInv'
    BY <1>22, StartTwoStepEffect, GivenKept, Kinds, OnlyBegin
    DEF AbortInv, WellFormed, OutcomeInv, TwoStepsTurn, goVars, mainVars, pipeVars,
        tableVars
<1>23. ASSUME LockOriginalTable PROVE AbortInv'
    BY <1>23, LockOriginalTableEffect, GivenKept, Kinds, OnlyBegin
    DEF AbortInv, WellFormed, OutcomeInv, TwoStepsTurn, goVars, mainVars, pipeVars,
        tableVars
<1>24. ASSUME RenameOriginal PROVE AbortInv'
    BY <1>24, RenameOriginalEffect, GivenKept, Kinds, OnlyBegin
    DEF AbortInv, WellFormed, OutcomeInv, TwoStepsTurn, goVars, mainVars, pipeVars,
        tableVars
<1>25. ASSUME RenameGhost PROVE AbortInv'
    BY <1>25, RenameGhostEffect, GivenKept, Kinds, OnlyBegin
    DEF AbortInv, WellFormed, OutcomeInv, TwoStepsTurn, goVars, mainVars, pipeVars,
        tableVars
<1>26. ASSUME UnlockTables PROVE AbortInv'
    BY <1>26, UnlockTablesEffect, GivenKept, Kinds, OnlyBegin
    DEF AbortInv, WellFormed, OutcomeInv, TwoStepsTurn, goVars, mainVars, pipeVars,
        tableVars
<1> QED
    BY <1>1, <1>2, <1>3, <1>4, <1>5, <1>6, <1>7, <1>8, <1>9, <1>10, <1>11, <1>12, <1>13,
       <1>14, <1>15, <1>16, <1>17, <1>18, <1>19, <1>20, <1>21, <1>22, <1>23, <1>24,
       <1>25, <1>26
    DEF Step, Migrator, Locker, Renamer, Server

(* Every step keeps the connection with the lock.                          *)
LEMMA AliveKept ==
    ASSUME WellFormed, LockerInv, WaitInv, AliveInv, Step, UNCHANGED given
    PROVE  AliveInv'
<1>1. ASSUME UNCHANGED <<locker, alive, attempt, main, chan>> PROVE AliveInv'
    BY <1>1, GivenKept DEF AliveInv, AliveOf, BeforeRename, Renaming, Holding
<1>2. ASSUME \/ ApplicationWrites \/ StreamEvent \/ EnqueueChallenge \/ ExecuteEvent
      PROVE  AliveInv'
    BY <1>2, <1>1, ApplicationWritesEffect, StreamEventEffect, EnqueueChallengeEffect,
       ExecuteEventEffect
    DEF PipesTurn, goVars, mainVars, pipeVars, tableVars
<1>3. ASSUME NEW a \in Attempt, LockSession(a) PROVE AliveInv'
    BY <1>3, LockSessionEffect, GivenKept, OnlyBegin
    DEF AliveInv, AliveOf, BeforeRename, Renaming, Holding, LockerInv, LockerOf,
        Locking, LockersTurn, AttemptsTurn, Others, goVars, mainVars, pipeVars,
        tableVars
<1>4. ASSUME NEW a \in Attempt, LockBeginFails(a) PROVE AliveInv'
    BY <1>4, LockBeginFailsEffect, GivenKept, OnlyBegin, Typed
    DEF AliveInv, AliveOf, BeforeRename, Renaming, Holding, LockerInv, LockerOf,
        Locking, LockersTurn, AttemptsTurn, Others, goVars, mainVars, pipeVars,
        tableVars, OnlyThese, Sends, Appended, Receives
<1>5. ASSUME NEW a \in Attempt, LockFails(a) PROVE AliveInv'
    BY <1>5, LockFailsEffect, GivenKept, OnlyBegin, Typed
    DEF AliveInv, AliveOf, BeforeRename, Renaming, Holding, LockerInv, LockerOf,
        Locking, LockersTurn, AttemptsTurn, Others, goVars, mainVars, pipeVars,
        tableVars, OnlyThese, Sends, Appended, Receives
<1>6. ASSUME NEW a \in Attempt, SentryCheck(a) PROVE AliveInv'
    BY <1>6, SentryCheckEffect, GivenKept, OnlyBegin
    DEF AliveInv, AliveOf, BeforeRename, Renaming, Holding, LockerInv, LockerOf,
        Locking, LockersTurn, AttemptsTurn, Others, goVars, mainVars, pipeVars,
        tableVars
<1>7. ASSUME NEW a \in Attempt, SentryClear(a) PROVE AliveInv'
    BY <1>7, SentryClearEffect, GivenKept, OnlyBegin
    DEF AliveInv, AliveOf, BeforeRename, Renaming, Holding, LockerInv, LockerOf,
        Locking, LockersTurn, AttemptsTurn, Others, goVars, mainVars, pipeVars,
        tableVars
<1>8. ASSUME NEW a \in Attempt, SentryCreate(a) PROVE AliveInv'
    BY <1>8, SentryCreateEffect, GivenKept, OnlyBegin
    DEF AliveInv, AliveOf, BeforeRename, Renaming, Holding, LockerInv, LockerOf,
        Locking, LockersTurn, AttemptsTurn, Others, goVars, mainVars, pipeVars,
        tableVars
<1>9. ASSUME NEW a \in Attempt, LockTables(a) PROVE AliveInv'
    BY <1>9, LockTablesEffect, GivenKept, OnlyBegin, Typed
    DEF AliveInv, AliveOf, BeforeRename, Renaming, Holding, LockerInv, LockerOf,
        Locking, LockersTurn, AttemptsTurn, Others, goVars, mainVars, pipeVars,
        tableVars, OnlyThese, Sends, Appended, Receives
<1>10. ASSUME NEW a \in Attempt, LockTold(a) PROVE AliveInv'
    BY <1>10, LockToldEffect, GivenKept, OnlyBegin, Typed
    DEF AliveInv, AliveOf, BeforeRename, Renaming, Holding, LockerInv, LockerOf,
        Locking, LockersTurn, AttemptsTurn, Others, goVars, mainVars, pipeVars,
        tableVars, OnlyThese, Sends, Appended, Receives
<1>11. ASSUME NEW a \in Attempt, LockDropSentry(a) PROVE AliveInv'
    BY <1>11, LockDropSentryEffect, GivenKept, OnlyBegin
    DEF AliveInv, AliveOf, BeforeRename, Renaming, Holding, LockerInv, LockerOf,
        Locking, LockersTurn, AttemptsTurn, Others, goVars, mainVars, pipeVars,
        tableVars
<1>12. ASSUME NEW a \in Attempt, LockUnlock(a) PROVE AliveInv'
    <2>1. \A b \in Attempt : b # a =>
            locker'[b] = locker[b] /\ chan'[b].tableUnlocked = chan[b].tableUnlocked
        BY <1>12, LockUnlockEffect, Typed DEF LockersTurn, Others, OnlyThese
    <2>2. locker[a] = "unlock" /\ locker'[a] = "exited" /\ UNCHANGED <<alive, attempt, main>>
        BY <1>12, LockUnlockEffect DEF LockersTurn, AttemptsTurn, mainVars
    <2>3. /\ chan[a].tableUnlocked = <<>> /\ alive[a] =>
                chan'[a].tableUnlocked = <<"ok", "error">>
          /\ Head(<<"ok", "error">>) = "ok"
        BY <1>12, LockUnlockEffect DEF Sends, Appended
    <2>4. ASSUME Calm, Atomic PROVE AliveInv'
        <3>1. chan[a].tableUnlocked = <<>> /\ alive[a]
            BY <2>2, <2>4 DEF LockerInv, LockerOf, AliveInv, AliveOf, Holding
        <3>2. Head(chan'[a].tableUnlocked) = "ok"
            BY <2>3, <3>1
        <3> QED
            BY <2>1, <2>2, <2>4, <3>1, <3>2 DEF AliveInv, AliveOf, Holding
    <2> QED
        BY <2>4, GivenKept DEF AliveInv
<1>13. ASSUME NEW a \in Attempt, LockDies(a) PROVE AliveInv'
    BY <1>13, LockDiesEffect, GivenKept, OnlyBegin
    DEF AliveInv, AliveOf, BeforeRename, Renaming, Holding, LockerInv, LockerOf,
        Locking, LockersTurn, AttemptsTurn, Others, goVars, mainVars, pipeVars,
        tableVars
<1>14. ASSUME NEW a \in Attempt, \/ RenameIssue(a) \/ ServerRenames(a) \/ ServerTimesOut(a)
      PROVE  AliveInv'
    BY <1>14, <1>1, RenameIssueEffect, ServerRenamesEffect, ServerTimesOutEffect
    DEF RenamersTurn, AttemptsTurn, Others, ServersTurn, goVars, mainVars, pipeVars,
        tableVars
<1>15. ASSUME NEW a \in Attempt, RenameSession(a) PROVE AliveInv'
    BY <1>15, RenameSessionEffect, GivenKept, OnlyBegin, Typed
    DEF AliveInv, AliveOf, BeforeRename, Renaming, Holding, RenamersTurn, AttemptsTurn,
        Others, goVars, mainVars, pipeVars, tableVars, OnlyThese, Sends, Appended,
        Receives
<1>16. ASSUME NEW a \in Attempt, RenameReturns(a) PROVE AliveInv'
    BY <1>16, RenameReturnsEffect, GivenKept, OnlyBegin, Typed
    DEF AliveInv, AliveOf, BeforeRename, Renaming, Holding, RenamersTurn, AttemptsTurn,
        Others, goVars, mainVars, pipeVars, tableVars, OnlyThese, Sends, Appended,
        Receives
<1>17. ASSUME NEW a \in Attempt, RenameBeginFails(a) PROVE AliveInv'
    BY <1>17, RenameBeginFailsEffect, GivenKept, OnlyBegin, Typed
    DEF AliveInv, AliveOf, BeforeRename, Renaming, Holding, RenamersTurn, AttemptsTurn,
        Others, goVars, mainVars, pipeVars, tableVars, OnlyThese, Sends, Appended,
        Receives
<1>18. ASSUME NEW a \in Attempt, RenameFails(a) PROVE AliveInv'
    BY <1>18, RenameFailsEffect, GivenKept, OnlyBegin, Typed
    DEF AliveInv, AliveOf, BeforeRename, Renaming, Holding, RenamersTurn, AttemptsTurn,
        Others, goVars, mainVars, pipeVars, tableVars, OnlyThese, Sends, Appended,
        Receives
<1>19. ASSUME NEW a \in Attempt, RenameReturnsError(a) PROVE AliveInv'
    BY <1>19, RenameReturnsErrorEffect, GivenKept, OnlyBegin, Typed
    DEF AliveInv, AliveOf, BeforeRename, Renaming, Holding, RenamersTurn, AttemptsTurn,
        Others, goVars, mainVars, pipeVars, tableVars, OnlyThese, Sends, Appended,
        Receives
<1>20. ASSUME StartAttempt PROVE AliveInv'
    BY <1>20, StartAttemptEffect, GivenKept, OnlyBegin
    DEF AliveInv, AliveOf, BeforeRename, Renaming, Holding, Others, goVars, mainVars,
        pipeVars, tableVars
<1>21. ASSUME AwaitTableLocked PROVE AliveInv'
    BY <1>21, AwaitTableLockedEffect, GivenKept, OnlyBegin, Typed
    DEF AliveInv, AliveOf, BeforeRename, Renaming, Holding, WaitInv, WaitOf, LockerInv,
        LockerOf, MigratorsTurn, goVars, mainVars, pipeVars, tableVars, OnlyThese,
        Sends, Appended, Receives
<1>22. ASSUME WriteChallenge PROVE AliveInv'
    BY <1>22, WriteChallengeEffect, GivenKept, OnlyBegin
    DEF AliveInv, AliveOf, BeforeRename, Renaming, Holding, goVars, mainVars, pipeVars,
        tableVars
<1>23. ASSUME AwaitChallenge PROVE AliveInv'
    BY <1>23, AwaitChallengeEffect, GivenKept, OnlyBegin
    DEF AliveInv, AliveOf, BeforeRename, Renaming, Holding, goVars, mainVars, pipeVars,
        tableVars
<1>24. ASSUME ChallengeTimeout PROVE AliveInv'
    BY <1>24, ChallengeTimeoutEffect, GivenKept, OnlyBegin
    DEF AliveInv, AliveOf, BeforeRename, Renaming, Holding, goVars, mainVars, pipeVars,
        tableVars
<1>25. ASSUME SpawnRename PROVE AliveInv'
    BY <1>25, SpawnRenameEffect, GivenKept, OnlyBegin
    DEF AliveInv, AliveOf, BeforeRename, Renaming, Holding, MigratorsTurn, Others,
        goVars, mainVars, pipeVars, tableVars
<1>26. ASSUME AwaitRenameSessionId PROVE AliveInv'
    BY <1>26, AwaitRenameSessionIdEffect, GivenKept, OnlyBegin, Typed
    DEF AliveInv, AliveOf, BeforeRename, Renaming, Holding, MigratorsTurn, goVars,
        mainVars, pipeVars, tableVars, OnlyThese, Sends, Appended, Receives
<1>27. ASSUME ExpectRename PROVE AliveInv'
    BY <1>27, ExpectRenameEffect, GivenKept, OnlyBegin
    DEF AliveInv, AliveOf, BeforeRename, Renaming, Holding, MigratorsTurn, goVars,
        mainVars, pipeVars, tableVars
<1>28. ASSUME ExpectRenameGivesUp PROVE AliveInv'
    BY <1>28, ExpectRenameGivesUpEffect, GivenKept, OnlyBegin, Typed
    DEF AliveInv, AliveOf, BeforeRename, Renaming, Holding, MigratorsTurn, goVars,
        mainVars, pipeVars, tableVars, OnlyThese, Sends, Appended, Receives
<1>29. ASSUME ExpectLock PROVE AliveInv'
    BY <1>29, ExpectLockEffect, GivenKept, OnlyBegin
    DEF AliveInv, AliveOf, BeforeRename, Renaming, Holding, MigratorsTurn, goVars,
        mainVars, pipeVars, tableVars
<1>30. ASSUME Release PROVE AliveInv'
    BY <1>30, ReleaseEffect, GivenKept, OnlyBegin, Typed
    DEF AliveInv, AliveOf, BeforeRename, Renaming, Holding, MigratorsTurn, goVars,
        mainVars, pipeVars, tableVars, OnlyThese, Sends, Appended, Receives
<1>31. ASSUME AwaitUnlocked PROVE AliveInv'
    BY <1>31, AwaitUnlockedEffect, GivenKept, OnlyBegin, Typed
    DEF AliveInv, AliveOf, BeforeRename, Renaming, Holding, MigratorsTurn, goVars,
        mainVars, pipeVars, tableVars, OnlyThese, Sends, Appended, Receives
<1>32. ASSUME AwaitRenamed PROVE AliveInv'
    BY <1>32, AwaitRenamedEffect, GivenKept, OnlyBegin, Typed
    DEF AliveInv, AliveOf, BeforeRename, Renaming, Holding, MigratorsTurn, goVars,
        mainVars, pipeVars, tableVars, OnlyThese, Sends, Appended, Receives
<1>33. ASSUME Leave PROVE AliveInv'
    BY <1>33, LeaveEffect, GivenKept, OnlyBegin, Typed
    DEF AliveInv, AliveOf, BeforeRename, Renaming, Holding, MigratorsTurn, goVars,
        mainVars, pipeVars, tableVars, OnlyThese, Sends, Appended, Receives
<1>34. ASSUME CheckSentry PROVE AliveInv'
    BY <1>34, CheckSentryEffect, GivenKept, OnlyBegin
    DEF AliveInv, AliveOf, BeforeRename, Renaming, Holding, MigratorsTurn, Returned,
        goVars, mainVars, pipeVars, tableVars
<1>35. ASSUME DropSentry PROVE AliveInv'
    BY <1>35, DropSentryEffect, GivenKept, OnlyBegin
    DEF AliveInv, AliveOf, BeforeRename, Renaming, Holding, MigratorsTurn, Returned,
        goVars, mainVars, pipeVars, tableVars
<1>36. ASSUME \/ StartTwoStep \/ LockOriginalTable \/ RenameOriginal \/ RenameGhost
             \/ UnlockTables \/ ProcessExits \/ ConnectionLost PROVE AliveInv'
    <2>1. TwoStepKind
        BY <1>36, StartTwoStepEffect, LockOriginalTableEffect, RenameOriginalEffect,
           RenameGhostEffect, UnlockTablesEffect, ProcessExitsEffect,
           ConnectionLostEffect
        DEF TwoStepsTurn
    <2> QED
        BY <2>1, Kinds, GivenKept DEF WellFormed, AliveInv
<1> QED
    BY <1>1, <1>2, <1>3, <1>4, <1>5, <1>6, <1>7, <1>8, <1>9, <1>10, <1>11, <1>12, <1>13,
       <1>14, <1>15, <1>16, <1>17, <1>18, <1>19, <1>20, <1>21, <1>22, <1>23, <1>24,
       <1>25, <1>26, <1>27, <1>28, <1>29, <1>30, <1>31, <1>32, <1>33, <1>34, <1>35,
       <1>36
    DEF Step, Migrator, Locker, Renamer, Server

(* Every step keeps RENAMEs within their attempts.                         *)
LEMMA FailureKept ==
    ASSUME WellFormed, LockerInv, RenamerInv, OutcomeInv, WaitInv, AliveInv, FailureInv,
           Step, UNCHANGED given
    PROVE  FailureInv'
<1>1. ASSUME UNCHANGED <<server, locker, attempt, renamer, main, lockHolder, chan, outcome>>
      PROVE  FailureInv'
    BY <1>1, GivenKept DEF FailureInv, FailureOf, Renaming
<1>2. ASSUME \/ ApplicationWrites \/ StreamEvent \/ EnqueueChallenge \/ ExecuteEvent
      PROVE  FailureInv'
    BY <1>2, <1>1, ApplicationWritesEffect, StreamEventEffect, EnqueueChallengeEffect,
       ExecuteEventEffect
    DEF PipesTurn, goVars, mainVars, pipeVars, tableVars
<1>3. ASSUME NEW a \in Attempt, LockSession(a) PROVE FailureInv'
    BY <1>3, LockSessionEffect, GivenKept, OnlyBegin
    DEF FailureInv, FailureOf, Renaming, LockerInv, LockerOf, Locking, Holding,
        LockersTurn, AttemptsTurn, Others, goVars, mainVars, pipeVars, tableVars
<1>4. ASSUME NEW a \in Attempt, LockBeginFails(a) PROVE FailureInv'
    BY <1>4, LockBeginFailsEffect, GivenKept, OnlyBegin, Typed
    DEF FailureInv, FailureOf, Renaming, LockerInv, LockerOf, Locking, Holding,
        LockersTurn, AttemptsTurn, Others, goVars, mainVars, pipeVars, tableVars,
        OnlyThese, Sends, Appended, Receives
<1>5. ASSUME NEW a \in Attempt, LockFails(a) PROVE FailureInv'
    BY <1>5, LockFailsEffect, GivenKept, OnlyBegin, Typed
    DEF FailureInv, FailureOf, Renaming, LockerInv, LockerOf, Locking, Holding,
        LockersTurn, AttemptsTurn, Others, goVars, mainVars, pipeVars, tableVars,
        OnlyThese, Sends, Appended, Receives
<1>6. ASSUME NEW a \in Attempt, SentryCheck(a) PROVE FailureInv'
    BY <1>6, SentryCheckEffect, GivenKept, OnlyBegin
    DEF FailureInv, FailureOf, Renaming, LockerInv, LockerOf, Locking, Holding,
        LockersTurn, AttemptsTurn, Others, goVars, mainVars, pipeVars, tableVars
<1>7. ASSUME NEW a \in Attempt, SentryClear(a) PROVE FailureInv'
    BY <1>7, SentryClearEffect, GivenKept, OnlyBegin
    DEF FailureInv, FailureOf, Renaming, LockerInv, LockerOf, Locking, Holding,
        LockersTurn, AttemptsTurn, Others, goVars, mainVars, pipeVars, tableVars
<1>8. ASSUME NEW a \in Attempt, SentryCreate(a) PROVE FailureInv'
    BY <1>8, SentryCreateEffect, GivenKept, OnlyBegin
    DEF FailureInv, FailureOf, Renaming, LockerInv, LockerOf, Locking, Holding,
        LockersTurn, AttemptsTurn, Others, goVars, mainVars, pipeVars, tableVars
<1>9. ASSUME NEW a \in Attempt, LockTables(a) PROVE FailureInv'
    BY <1>9, LockTablesEffect, GivenKept, OnlyBegin, Typed
    DEF FailureInv, FailureOf, Renaming, LockerInv, LockerOf, Locking, Holding,
        LockersTurn, AttemptsTurn, Others, goVars, mainVars, pipeVars, tableVars,
        OnlyThese, Sends, Appended, Receives
<1>10. ASSUME NEW a \in Attempt, LockTold(a) PROVE FailureInv'
    BY <1>10, LockToldEffect, GivenKept, OnlyBegin, Typed
    DEF FailureInv, FailureOf, Renaming, LockerInv, LockerOf, Locking, Holding,
        LockersTurn, AttemptsTurn, Others, goVars, mainVars, pipeVars, tableVars,
        OnlyThese, Sends, Appended, Receives
<1>11. ASSUME NEW a \in Attempt, LockDropSentry(a) PROVE FailureInv'
    BY <1>11, LockDropSentryEffect, GivenKept, OnlyBegin
    DEF FailureInv, FailureOf, Renaming, LockerInv, LockerOf, Locking, Holding,
        LockersTurn, AttemptsTurn, Others, goVars, mainVars, pipeVars, tableVars
<1>12. ASSUME NEW a \in Attempt, LockUnlock(a) PROVE FailureInv'
    BY <1>12, LockUnlockEffect, GivenKept, OnlyBegin, Typed
    DEF FailureInv, FailureOf, Renaming, LockerInv, LockerOf, Locking, Holding,
        LockersTurn, AttemptsTurn, Others, goVars, mainVars, pipeVars, tableVars,
        OnlyThese, Sends, Appended, Receives
<1>13. ASSUME NEW a \in Attempt, LockDies(a) PROVE FailureInv'
    BY <1>13, LockDiesEffect, GivenKept, OnlyBegin
    DEF FailureInv, FailureOf, Renaming, LockerInv, LockerOf, Locking, Holding,
        LockersTurn, AttemptsTurn, Others, goVars, mainVars, pipeVars, tableVars
<1>14. ASSUME NEW a \in Attempt, RenameSession(a) PROVE FailureInv'
    BY <1>14, RenameSessionEffect, GivenKept, OnlyBegin, Typed
    DEF FailureInv, FailureOf, Renaming, RenamerInv, RenamerOf, RenamersTurn,
        AttemptsTurn, Others, goVars, mainVars, pipeVars, tableVars, OnlyThese, Sends,
        Appended, Receives
<1>15. ASSUME NEW a \in Attempt, RenameIssue(a) PROVE FailureInv'
    BY <1>15, RenameIssueEffect, GivenKept, OnlyBegin
    DEF FailureInv, FailureOf, Renaming, RenamerInv, RenamerOf, WaitInv, WaitOf,
        LockerInv, LockerOf, Holding, AliveInv, AliveOf, RenamersTurn, AttemptsTurn,
        Others, goVars, mainVars, pipeVars, tableVars
<1>16. ASSUME NEW a \in Attempt, RenameReturns(a) PROVE FailureInv'
    BY <1>16, RenameReturnsEffect, GivenKept, OnlyBegin, Typed
    DEF FailureInv, FailureOf, Renaming, RenamerInv, RenamerOf, RenamersTurn,
        AttemptsTurn, Others, goVars, mainVars, pipeVars, tableVars, OnlyThese, Sends,
        Appended, Receives
<1>17. ASSUME NEW a \in Attempt, RenameBeginFails(a) PROVE FailureInv'
    BY <1>17, RenameBeginFailsEffect, GivenKept, OnlyBegin, Typed
    DEF FailureInv, FailureOf, Renaming, RenamerInv, RenamerOf, RenamersTurn,
        AttemptsTurn, Others, goVars, mainVars, pipeVars, tableVars, OnlyThese, Sends,
        Appended, Receives
<1>18. ASSUME NEW a \in Attempt, RenameFails(a) PROVE FailureInv'
    BY <1>18, RenameFailsEffect, GivenKept, OnlyBegin, Typed
    DEF FailureInv, FailureOf, Renaming, RenamerInv, RenamerOf, RenamersTurn,
        AttemptsTurn, Others, goVars, mainVars, pipeVars, tableVars, OnlyThese, Sends,
        Appended, Receives
<1>19. ASSUME NEW a \in Attempt, RenameReturnsError(a) PROVE FailureInv'
    BY <1>19, RenameReturnsErrorEffect, GivenKept, OnlyBegin, Typed
    DEF FailureInv, FailureOf, Renaming, RenamerInv, RenamerOf, RenamersTurn,
        AttemptsTurn, Others, goVars, mainVars, pipeVars, tableVars, OnlyThese, Sends,
        Appended, Receives
<1>20. ASSUME NEW a \in Attempt, ServerRenames(a) PROVE FailureInv'
    <2>1. /\ server[a] = "waiting" /\ server'[a] \in {"ok", "error"} /\ lockHolder = NoOne
          /\ \A b \in Attempt : b # a => server'[b] = server[b]
          /\ UNCHANGED <<attempt, main, outcome, locker, renamer, lockHolder, chan>>
        BY <1>20, ServerRenamesEffect
        DEF ServersTurn, AttemptsTurn, Others, goVars, mainVars
    <2>2. lockHolder # a
        BY <2>1, NotAttempts
    <2> QED
        BY <2>1, <2>2, GivenKept DEF FailureInv, FailureOf, Renaming
<1>21. ASSUME NEW a \in Attempt, ServerTimesOut(a) PROVE FailureInv'
    BY <1>21, ServerTimesOutEffect, GivenKept, OnlyBegin
    DEF FailureInv, FailureOf, Renaming, RenamerInv, RenamerOf, ServersTurn,
        AttemptsTurn, Others, goVars, mainVars, pipeVars, tableVars
<1>22. ASSUME StartAttempt PROVE FailureInv'
    BY <1>22, StartAttemptEffect, GivenKept, OnlyBegin
    DEF FailureInv, FailureOf, Renaming, OutcomeInv, ControlInv, Untouched, Others,
        goVars, mainVars, pipeVars, tableVars
<1>23. ASSUME AwaitTableLocked PROVE FailureInv'
    BY <1>23, AwaitTableLockedEffect, GivenKept, OnlyBegin, Typed
    DEF FailureInv, FailureOf, Renaming, OutcomeInv, MigratorsTurn, goVars, mainVars,
        pipeVars, tableVars, OnlyThese, Sends, Appended, Receives
<1>24. ASSUME WriteChallenge PROVE FailureInv'
    BY <1>24, WriteChallengeEffect, GivenKept, OnlyBegin
    DEF FailureInv, FailureOf, Renaming, OutcomeInv, goVars, mainVars, pipeVars,
        tableVars
<1>25. ASSUME AwaitChallenge PROVE FailureInv'
    BY <1>25, AwaitChallengeEffect, GivenKept, OnlyBegin
    DEF FailureInv, FailureOf, Renaming, OutcomeInv, goVars, mainVars, pipeVars,
        tableVars
<1>26. ASSUME ChallengeTimeout PROVE FailureInv'
    BY <1>26, ChallengeTimeoutEffect, GivenKept, OnlyBegin
    DEF FailureInv, FailureOf, Renaming, OutcomeInv, goVars, mainVars, pipeVars,
        tableVars
<1>27. ASSUME SpawnRename PROVE FailureInv'
    BY <1>27, SpawnRenameEffect, GivenKept, OnlyBegin
    DEF FailureInv, FailureOf, Renaming, OutcomeInv, RenamerInv, RenamerOf,
        BeforeRename, MigratorsTurn, Others, goVars, mainVars, pipeVars, tableVars
<1>28. ASSUME AwaitRenameSessionId PROVE FailureInv'
    BY <1>28, AwaitRenameSessionIdEffect, GivenKept, OnlyBegin, Typed
    DEF FailureInv, FailureOf, Renaming, OutcomeInv, MigratorsTurn, goVars, mainVars,
        pipeVars, tableVars, OnlyThese, Sends, Appended, Receives
<1>29. ASSUME ExpectRename PROVE FailureInv'
    BY <1>29, ExpectRenameEffect, GivenKept, OnlyBegin
    DEF FailureInv, FailureOf, Renaming, OutcomeInv, MigratorsTurn, goVars, mainVars,
        pipeVars, tableVars
<1>30. ASSUME ExpectRenameGivesUp PROVE FailureInv'
    BY <1>30, ExpectRenameGivesUpEffect, GivenKept, OnlyBegin, Typed
    DEF FailureInv, FailureOf, Renaming, OutcomeInv, MigratorsTurn, goVars, mainVars,
        pipeVars, tableVars, OnlyThese, Sends, Appended, Receives
<1>31. ASSUME ExpectLock PROVE FailureInv'
    BY <1>31, ExpectLockEffect, GivenKept, OnlyBegin
    DEF FailureInv, FailureOf, Renaming, OutcomeInv, AliveInv, AliveOf, BeforeRename,
        MigratorsTurn, goVars, mainVars, pipeVars, tableVars
<1>32. ASSUME Release PROVE FailureInv'
    BY <1>32, ReleaseEffect, GivenKept, OnlyBegin, Typed
    DEF FailureInv, FailureOf, Renaming, OutcomeInv, MigratorsTurn, goVars, mainVars,
        pipeVars, tableVars, OnlyThese, Sends, Appended, Receives
<1>33. ASSUME AwaitUnlocked PROVE FailureInv'
    BY <1>33, AwaitUnlockedEffect, GivenKept, OnlyBegin, Typed
    DEF FailureInv, FailureOf, Renaming, OutcomeInv, AliveInv, AliveOf, BeforeRename,
        MigratorsTurn, goVars, mainVars, pipeVars, tableVars, OnlyThese, Sends,
        Appended, Receives
<1>34. ASSUME AwaitRenamed PROVE FailureInv'
    BY <1>34, AwaitRenamedEffect, GivenKept, OnlyBegin, Typed
    DEF FailureInv, FailureOf, Renaming, OutcomeInv, RenamerInv, RenamerOf,
        MigratorsTurn, goVars, mainVars, pipeVars, tableVars, OnlyThese, Sends,
        Appended, Receives
<1>35. ASSUME Leave PROVE FailureInv'
    BY <1>35, LeaveEffect, GivenKept, OnlyBegin, Typed
    DEF FailureInv, FailureOf, Renaming, OutcomeInv, MigratorsTurn, goVars, mainVars,
        pipeVars, tableVars, OnlyThese, Sends, Appended, Receives
<1>36. ASSUME CheckSentry PROVE FailureInv'
    BY <1>36, CheckSentryEffect, GivenKept, OnlyBegin
    DEF FailureInv, FailureOf, Renaming, OutcomeInv, MigratorsTurn, Returned, goVars,
        mainVars, pipeVars, tableVars
<1>37. ASSUME DropSentry PROVE FailureInv'
    BY <1>37, DropSentryEffect, GivenKept, OnlyBegin
    DEF FailureInv, FailureOf, Renaming, OutcomeInv, MigratorsTurn, Returned, goVars,
        mainVars, pipeVars, tableVars
<1>38. ASSUME \/ StartTwoStep \/ LockOriginalTable \/ RenameOriginal \/ RenameGhost
             \/ UnlockTables \/ ProcessExits \/ ConnectionLost PROVE FailureInv'
    <2>1. TwoStepKind
        BY <1>38, StartTwoStepEffect, LockOriginalTableEffect, RenameOriginalEffect,
           RenameGhostEffect, UnlockTablesEffect, ProcessExitsEffect,
           ConnectionLostEffect
        DEF TwoStepsTurn
    <2> QED
        BY <2>1, Kinds, GivenKept DEF WellFormed, FailureInv
<1> QED
    BY <1>1, <1>2, <1>3, <1>4, <1>5, <1>6, <1>7, <1>8, <1>9, <1>10, <1>11, <1>12, <1>13,
       <1>14, <1>15, <1>16, <1>17, <1>18, <1>19, <1>20, <1>21, <1>22, <1>23, <1>24,
       <1>25, <1>26, <1>27, <1>28, <1>29, <1>30, <1>31, <1>32, <1>33, <1>34, <1>35,
       <1>36, <1>37, <1>38
    DEF Step, Migrator, Locker, Renamer, Server

(* Every step that swaps finds all writes applied.                         *)
LEMMA NothingIsLost ==
    ASSUME WellFormed, OutcomeInv, ChallengeInv, PendingInv, TwoStepInv, Sound, Step,
           UNCHANGED given
    PROVE  (Swaps => applied = Writes)
<1>1. ASSUME UNCHANGED <<swapped, del>> PROVE (Swaps => applied = Writes)
    BY <1>1, GivenKept DEF Swaps, WellFormed
<1>2. ASSUME \/ ApplicationWrites \/ StreamEvent \/ EnqueueChallenge \/ ExecuteEvent
      PROVE  (Swaps => applied = Writes)
    BY <1>2, <1>1, ApplicationWritesEffect, StreamEventEffect, EnqueueChallengeEffect,
       ExecuteEventEffect
    DEF PipesTurn, goVars, pipeVars, tableVars, mainVars
<1>3. ASSUME NEW a \in Attempt, \/ LockSession(a) \/ LockBeginFails(a) \/ LockFails(a)
             \/ SentryCheck(a) \/ LockTables(a) \/ LockTold(a) \/ LockUnlock(a)
             \/ LockDies(a)
      PROVE  (Swaps => applied = Writes)
    BY <1>3, <1>1, LockSessionEffect, LockBeginFailsEffect, LockFailsEffect,
       SentryCheckEffect, LockTablesEffect, LockToldEffect, LockUnlockEffect,
       LockDiesEffect
    DEF LockersTurn, AttemptsTurn, Others, goVars, pipeVars, tableVars, mainVars
<1>4. ASSUME NEW a \in Attempt, SentryClear(a) PROVE (Swaps => applied = Writes)
    BY <1>4, SentryClearEffect, GivenKept, Kinds
    DEF Swaps, WellFormed, LockersTurn, AttemptsTurn, Others, goVars, pipeVars,
        tableVars, mainVars
<1>5. ASSUME NEW a \in Attempt, SentryCreate(a) PROVE (Swaps => applied = Writes)
    BY <1>5, SentryCreateEffect, GivenKept, Kinds
    DEF Swaps, WellFormed, LockersTurn, AttemptsTurn, Others, goVars, pipeVars,
        tableVars, mainVars
<1>6. ASSUME NEW a \in Attempt, LockDropSentry(a) PROVE (Swaps => applied = Writes)
    BY <1>6, LockDropSentryEffect, GivenKept, Kinds
    DEF Swaps, WellFormed, LockersTurn, AttemptsTurn, Others, goVars, pipeVars,
        tableVars, mainVars
<1>7. ASSUME NEW a \in Attempt, \/ RenameSession(a) \/ RenameIssue(a) \/ RenameReturns(a)
             \/ RenameBeginFails(a) \/ RenameFails(a) \/ RenameReturnsError(a)
             \/ ServerTimesOut(a)
      PROVE  (Swaps => applied = Writes)
    BY <1>7, <1>1, RenameSessionEffect, RenameIssueEffect, RenameReturnsEffect,
       RenameBeginFailsEffect, RenameFailsEffect, RenameReturnsErrorEffect,
       ServerTimesOutEffect
    DEF RenamersTurn, AttemptsTurn, Others, ServersTurn, goVars, pipeVars, tableVars,
        mainVars
<1>8. ASSUME NEW a \in Attempt, ServerRenames(a) PROVE (Swaps => applied = Writes)
    BY <1>8, ServerRenamesEffect, GivenKept, Kinds
    DEF Swaps, WellFormed, PendingInv, PendingOf, Pending, ServersTurn, AttemptsTurn,
        Others, goVars, pipeVars, tableVars, mainVars
<1>9. ASSUME \/ StartAttempt \/ AwaitTableLocked \/ WriteChallenge \/ AwaitChallenge
             \/ ChallengeTimeout \/ SpawnRename \/ AwaitRenameSessionId
             \/ ExpectRename \/ ExpectRenameGivesUp \/ ExpectLock \/ Release
             \/ AwaitUnlocked \/ AwaitRenamed \/ Leave \/ CheckSentry PROVE (Swaps => applied = Writes)
    BY <1>9, <1>1, StartAttemptEffect, AwaitTableLockedEffect, WriteChallengeEffect,
       AwaitChallengeEffect, ChallengeTimeoutEffect, SpawnRenameEffect,
       AwaitRenameSessionIdEffect, ExpectRenameEffect, ExpectRenameGivesUpEffect,
       ExpectLockEffect, ReleaseEffect, AwaitUnlockedEffect, AwaitRenamedEffect,
       LeaveEffect, CheckSentryEffect
    DEF Others, MigratorsTurn, Returned, goVars, pipeVars, tableVars
<1>10. ASSUME DropSentry PROVE (Swaps => applied = Writes)
    BY <1>10, DropSentryEffect, GivenKept, Kinds
    DEF Swaps, WellFormed, MigratorsTurn, Returned, goVars, pipeVars, tableVars
<1>11. ASSUME \/ StartTwoStep \/ LockOriginalTable \/ UnlockTables \/ ProcessExits
             \/ ConnectionLost PROVE (Swaps => applied = Writes)
    BY <1>11, <1>1, StartTwoStepEffect, LockOriginalTableEffect, UnlockTablesEffect,
       ProcessExitsEffect, ConnectionLostEffect
    DEF TwoStepsTurn, goVars, pipeVars, tableVars
<1>12. ASSUME RenameOriginal PROVE (Swaps => applied = Writes)
    BY <1>12, RenameOriginalEffect, GivenKept, Kinds
    DEF Swaps, WellFormed, ChallengeInv, EventsUpToLockProcessed, OutcomeInv,
        TwoStepInv, TwoStepsTurn, goVars, pipeVars, tableVars
<1>13. ASSUME RenameGhost PROVE (Swaps => applied = Writes)
    BY <1>13, RenameGhostEffect, GivenKept, Kinds
    DEF Swaps, WellFormed, OutcomeInv, TwoStepInv, TwoStepsTurn, goVars, pipeVars,
        tableVars
<1> QED
    BY <1>1, <1>2, <1>3, <1>4, <1>5, <1>6, <1>7, <1>8, <1>9, <1>10, <1>11, <1>12, <1>13
    DEF Step, Migrator, Locker, Renamer, Server

(* Every step keeps the old table known as such.                           *)
LEMMA OldKept ==
    ASSUME WellFormed, LockerInv, RenamerInv, OutcomeInv, SentryInv, FailureInv,
           SwapperInv, OldInv, Step, UNCHANGED given
    PROVE  OldInv'
<1>1. ASSUME UNCHANGED <<swapped, del, main>> PROVE OldInv'
    BY <1>1, GivenKept DEF OldInv, WellFormed
<1>2. ASSUME \/ ApplicationWrites \/ StreamEvent \/ EnqueueChallenge \/ ExecuteEvent
      PROVE  OldInv'
    BY <1>2, <1>1, ApplicationWritesEffect, StreamEventEffect, EnqueueChallengeEffect,
       ExecuteEventEffect
    DEF PipesTurn, goVars, mainVars, pipeVars, tableVars
<1>3. ASSUME NEW a \in Attempt, \/ LockSession(a) \/ LockBeginFails(a) \/ LockFails(a)
             \/ SentryCheck(a) \/ LockTables(a) \/ LockTold(a) \/ LockUnlock(a)
             \/ LockDies(a)
      PROVE  OldInv'
    BY <1>3, <1>1, LockSessionEffect, LockBeginFailsEffect, LockFailsEffect,
       SentryCheckEffect, LockTablesEffect, LockToldEffect, LockUnlockEffect,
       LockDiesEffect
    DEF LockersTurn, AttemptsTurn, Others, goVars, mainVars, pipeVars, tableVars
<1>4. ASSUME NEW a \in Attempt, SentryClear(a) PROVE OldInv'
    BY <1>4, SentryClearEffect, GivenKept, Kinds, OnlyBegin
    DEF OldInv, WellFormed, LockerInv, LockerOf, Locking, SwapperInv, FailureInv,
        FailureOf, OutcomeInv, LockersTurn, AttemptsTurn, Others, goVars, mainVars,
        pipeVars, tableVars
<1>5. ASSUME NEW a \in Attempt, SentryCreate(a) PROVE OldInv'
    BY <1>5, SentryCreateEffect, GivenKept, Kinds, OnlyBegin
    DEF OldInv, WellFormed, LockerInv, LockerOf, Locking, SwapperInv, FailureInv,
        FailureOf, OutcomeInv, LockersTurn, AttemptsTurn, Others, goVars, mainVars,
        pipeVars, tableVars
<1>6. ASSUME NEW a \in Attempt, LockDropSentry(a) PROVE OldInv'
    BY <1>6, LockDropSentryEffect, GivenKept, Kinds, OnlyBegin
    DEF OldInv, WellFormed, LockerInv, LockerOf, Holding, SentryInv, SentryOf,
        LockersTurn, AttemptsTurn, Others, goVars, mainVars, pipeVars, tableVars
<1>7. ASSUME NEW a \in Attempt, \/ RenameSession(a) \/ RenameIssue(a) \/ RenameReturns(a)
             \/ RenameBeginFails(a) \/ RenameFails(a) \/ RenameReturnsError(a)
             \/ ServerTimesOut(a)
      PROVE  OldInv'
    BY <1>7, <1>1, RenameSessionEffect, RenameIssueEffect, RenameReturnsEffect,
       RenameBeginFailsEffect, RenameFailsEffect, RenameReturnsErrorEffect,
       ServerTimesOutEffect
    DEF RenamersTurn, AttemptsTurn, Others, ServersTurn, goVars, mainVars, pipeVars,
        tableVars
<1>8. ASSUME NEW a \in Attempt, ServerRenames(a) PROVE OldInv'
    BY <1>8, ServerRenamesEffect, GivenKept, Kinds, OnlyBegin
    DEF OldInv, WellFormed, FailureInv, FailureOf, Renaming, ServersTurn, AttemptsTurn,
        Others, goVars, mainVars, pipeVars, tableVars
<1>9. ASSUME StartAttempt PROVE OldInv'
    BY <1>9, StartAttemptEffect, GivenKept, Kinds, OnlyBegin
    DEF OldInv, WellFormed, Others, goVars, mainVars, pipeVars, tableVars
<1>10. ASSUME AwaitTableLocked PROVE OldInv'
    BY <1>10, AwaitTableLockedEffect, GivenKept, Kinds, OnlyBegin
    DEF OldInv, WellFormed, MigratorsTurn, goVars, mainVars, pipeVars, tableVars
<1>11. ASSUME WriteChallenge PROVE OldInv'
    BY <1>11, WriteChallengeEffect, GivenKept, Kinds, OnlyBegin
    DEF OldInv, WellFormed, goVars, mainVars, pipeVars, tableVars
<1>12. ASSUME AwaitChallenge PROVE OldInv'
    BY <1>12, AwaitChallengeEffect, GivenKept, Kinds, OnlyBegin
    DEF OldInv, WellFormed, goVars, mainVars, pipeVars, tableVars
<1>13. ASSUME ChallengeTimeout PROVE OldInv'
    BY <1>13, ChallengeTimeoutEffect, GivenKept, Kinds, OnlyBegin
    DEF OldInv, WellFormed, goVars, mainVars, pipeVars, tableVars
<1>14. ASSUME SpawnRename PROVE OldInv'
    BY <1>14, SpawnRenameEffect, GivenKept, Kinds, OnlyBegin
    DEF OldInv, WellFormed, MigratorsTurn, Others, goVars, mainVars, pipeVars, tableVars
<1>15. ASSUME AwaitRenameSessionId PROVE OldInv'
    BY <1>15, AwaitRenameSessionIdEffect, GivenKept, Kinds, OnlyBegin
    DEF OldInv, WellFormed, MigratorsTurn, goVars, mainVars, pipeVars, tableVars
<1>16. ASSUME ExpectRename PROVE OldInv'
    BY <1>16, ExpectRenameEffect, GivenKept, Kinds, OnlyBegin
    DEF OldInv, WellFormed, MigratorsTurn, goVars, mainVars, pipeVars, tableVars
<1>17. ASSUME ExpectRenameGivesUp PROVE OldInv'
    BY <1>17, ExpectRenameGivesUpEffect, GivenKept, Kinds, OnlyBegin
    DEF OldInv, WellFormed, MigratorsTurn, goVars, mainVars, pipeVars, tableVars
<1>18. ASSUME ExpectLock PROVE OldInv'
    BY <1>18, ExpectLockEffect, GivenKept, Kinds, OnlyBegin
    DEF OldInv, WellFormed, MigratorsTurn, goVars, mainVars, pipeVars, tableVars
<1>19. ASSUME Release PROVE OldInv'
    BY <1>19, ReleaseEffect, GivenKept, Kinds, OnlyBegin
    DEF OldInv, WellFormed, MigratorsTurn, goVars, mainVars, pipeVars, tableVars
<1>20. ASSUME AwaitUnlocked PROVE OldInv'
    BY <1>20, AwaitUnlockedEffect, GivenKept, Kinds, OnlyBegin
    DEF OldInv, WellFormed, MigratorsTurn, goVars, mainVars, pipeVars, tableVars
<1>21. ASSUME AwaitRenamed PROVE OldInv'
    BY <1>21, AwaitRenamedEffect, GivenKept, Kinds, OnlyBegin
    DEF OldInv, WellFormed, MigratorsTurn, goVars, mainVars, pipeVars, tableVars
<1>22. ASSUME Leave PROVE OldInv'
    BY <1>22, LeaveEffect, GivenKept, Kinds, OnlyBegin
    DEF OldInv, WellFormed, MigratorsTurn, goVars, mainVars, pipeVars, tableVars
<1>23. ASSUME CheckSentry PROVE OldInv'
    BY <1>23, CheckSentryEffect, GivenKept, Kinds, OnlyBegin
    DEF OldInv, WellFormed, MigratorsTurn, Returned, goVars, mainVars, pipeVars,
        tableVars
<1>24. ASSUME DropSentry PROVE OldInv'
    BY <1>24, DropSentryEffect, GivenKept, Kinds, OnlyBegin
    DEF OldInv, WellFormed, MigratorsTurn, Returned, goVars, mainVars, pipeVars,
        tableVars
<1>25. ASSUME \/ StartTwoStep \/ LockOriginalTable \/ RenameOriginal \/ RenameGhost
             \/ UnlockTables \/ ProcessExits \/ ConnectionLost PROVE OldInv'
    <2>1. TwoStepKind
        BY <1>25, StartTwoStepEffect, LockOriginalTableEffect, RenameOriginalEffect,
           RenameGhostEffect, UnlockTablesEffect, ProcessExitsEffect,
           ConnectionLostEffect
        DEF TwoStepsTurn
    <2> QED
        BY <2>1, Kinds, GivenKept DEF WellFormed, OldInv
<1> QED
    BY <1>1, <1>2, <1>3, <1>4, <1>5, <1>6, <1>7, <1>8, <1>9, <1>10, <1>11, <1>12, <1>13,
       <1>14, <1>15, <1>16, <1>17, <1>18, <1>19, <1>20, <1>21, <1>22, <1>23, <1>24,
       <1>25
    DEF Step, Migrator, Locker, Renamer, Server

(* No step drops the old table.                                            *)
LEMMA OldStays ==
    ASSUME WellFormed, LockerInv, RenamerInv, OutcomeInv, SentryInv, FailureInv,
           SwapperInv, OldInv, Calm \/ TwoStepKind, Step, UNCHANGED given
    PROVE  (del = "old" => del' = "old")
<1>1. ASSUME UNCHANGED <<del>> PROVE (del = "old" => del' = "old")
    BY <1>1, GivenKept DEF OldInv, WellFormed
<1>2. ASSUME \/ ApplicationWrites \/ StreamEvent \/ EnqueueChallenge \/ ExecuteEvent
      PROVE  (del = "old" => del' = "old")
    BY <1>2, <1>1, ApplicationWritesEffect, StreamEventEffect, EnqueueChallengeEffect,
       ExecuteEventEffect
    DEF PipesTurn, goVars, pipeVars, tableVars, mainVars
<1>3. ASSUME NEW a \in Attempt, \/ LockSession(a) \/ LockBeginFails(a) \/ LockFails(a)
             \/ SentryCheck(a) \/ LockTables(a) \/ LockTold(a) \/ LockUnlock(a)
             \/ LockDies(a)
      PROVE  (del = "old" => del' = "old")
    BY <1>3, <1>1, LockSessionEffect, LockBeginFailsEffect, LockFailsEffect,
       SentryCheckEffect, LockTablesEffect, LockToldEffect, LockUnlockEffect,
       LockDiesEffect
    DEF LockersTurn, AttemptsTurn, Others, goVars, pipeVars, tableVars, mainVars
<1>4. ASSUME NEW a \in Attempt, SentryClear(a) PROVE (del = "old" => del' = "old")
    BY <1>4, SentryClearEffect, GivenKept, Kinds, OnlyBegin
    DEF OldInv, WellFormed, LockerInv, LockerOf, Locking, SwapperInv, FailureInv,
        FailureOf, OutcomeInv, LockersTurn, AttemptsTurn, Others, goVars, pipeVars,
        tableVars, mainVars
<1>5. ASSUME NEW a \in Attempt, SentryCreate(a) PROVE (del = "old" => del' = "old")
    BY <1>5, SentryCreateEffect, GivenKept, Kinds, OnlyBegin
    DEF OldInv, WellFormed, LockerInv, LockerOf, Locking, SwapperInv, FailureInv,
        FailureOf, OutcomeInv, LockersTurn, AttemptsTurn, Others, goVars, pipeVars,
        tableVars, mainVars
<1>6. ASSUME NEW a \in Attempt, LockDropSentry(a) PROVE (del = "old" => del' = "old")
    BY <1>6, LockDropSentryEffect, GivenKept, Kinds, OnlyBegin
    DEF OldInv, WellFormed, LockerInv, LockerOf, Holding, SentryInv, SentryOf,
        LockersTurn, AttemptsTurn, Others, goVars, pipeVars, tableVars, mainVars
<1>7. ASSUME NEW a \in Attempt, \/ RenameSession(a) \/ RenameIssue(a) \/ RenameReturns(a)
             \/ RenameBeginFails(a) \/ RenameFails(a) \/ RenameReturnsError(a)
             \/ ServerTimesOut(a)
      PROVE  (del = "old" => del' = "old")
    BY <1>7, <1>1, RenameSessionEffect, RenameIssueEffect, RenameReturnsEffect,
       RenameBeginFailsEffect, RenameFailsEffect, RenameReturnsErrorEffect,
       ServerTimesOutEffect
    DEF RenamersTurn, AttemptsTurn, Others, ServersTurn, goVars, pipeVars, tableVars,
        mainVars
<1>8. ASSUME NEW a \in Attempt, ServerRenames(a) PROVE (del = "old" => del' = "old")
    BY <1>8, ServerRenamesEffect, GivenKept, Kinds, OnlyBegin
    DEF OldInv, WellFormed, ServersTurn, AttemptsTurn, Others, goVars, pipeVars,
        tableVars, mainVars
<1>9. ASSUME \/ StartAttempt \/ AwaitTableLocked \/ WriteChallenge \/ AwaitChallenge
             \/ ChallengeTimeout \/ SpawnRename \/ AwaitRenameSessionId
             \/ ExpectRename \/ ExpectRenameGivesUp \/ ExpectLock \/ Release
             \/ AwaitUnlocked \/ AwaitRenamed \/ Leave \/ CheckSentry PROVE (del = "old" => del' = "old")
    BY <1>9, <1>1, StartAttemptEffect, AwaitTableLockedEffect, WriteChallengeEffect,
       AwaitChallengeEffect, ChallengeTimeoutEffect, SpawnRenameEffect,
       AwaitRenameSessionIdEffect, ExpectRenameEffect, ExpectRenameGivesUpEffect,
       ExpectLockEffect, ReleaseEffect, AwaitUnlockedEffect, AwaitRenamedEffect,
       LeaveEffect, CheckSentryEffect
    DEF Others, MigratorsTurn, Returned, goVars, pipeVars, tableVars
<1>10. ASSUME DropSentry PROVE (del = "old" => del' = "old")
    BY <1>10, DropSentryEffect, GivenKept, Kinds, OnlyBegin
    DEF OldInv, WellFormed, OutcomeInv, MigratorsTurn, Returned, goVars, pipeVars,
        tableVars
<1>11. ASSUME \/ StartTwoStep \/ LockOriginalTable \/ RenameGhost \/ UnlockTables
             \/ ProcessExits \/ ConnectionLost PROVE (del = "old" => del' = "old")
    BY <1>11, <1>1, StartTwoStepEffect, LockOriginalTableEffect, RenameGhostEffect,
       UnlockTablesEffect, ProcessExitsEffect, ConnectionLostEffect
    DEF TwoStepsTurn, goVars, pipeVars, tableVars
<1>12. ASSUME RenameOriginal PROVE (del = "old" => del' = "old")
    BY <1>12, RenameOriginalEffect, GivenKept, Kinds, OnlyBegin
    DEF OldInv, WellFormed, OutcomeInv, TwoStepsTurn, goVars, pipeVars, tableVars
<1> QED
    BY <1>1, <1>2, <1>3, <1>4, <1>5, <1>6, <1>7, <1>8, <1>9, <1>10, <1>11, <1>12
    DEF Step, Migrator, Locker, Renamer, Server

-----------------------------------------------------------------------------
(* The steps of Swap among those of the cut-over.                          *)

(* What the application finds, and what has come of its writes, stays as   *)
(* it is.                                                                  *)
LEMMA SwapStutters ==
    ASSUME WellFormed, OutcomeInv, OutcomeInv', UNCHANGED given,
           UNCHANGED <<swapped, log, applied>>, Atomic \/ del' = del
    PROVE  UNCHANGED Promise!vars
<1>1. Writes' = Writes
    BY WritesKept
<1>2. (cutOverType = "two-step")' = (cutOverType = "two-step")
    BY DEF given
<1>3. Table' = Table
    <2>1. CASE del' = del
        BY <2>1 DEF Table, OriginalThere
    <2>2. CASE Atomic
        BY <2>2, GivenKept DEF OutcomeInv, Table, OriginalThere
    <2> QED
        BY <2>1, <2>2
<1> QED
    BY <1>1, <1>2, <1>3 DEF Promise!vars

(* A write of the application is the last one.                             *)
LEMMA WriteIsWrite ==
    ASSUME WellFormed, ApplicationWrites, UNCHANGED given
    PROVE  Promise!Write
<1>1. PICK n : n = Len(log) + 1
    OBVIOUS
<1>2. /\ ~swapped /\ OriginalThere /\ UNCHANGED <<swapped, del, applied>>
      /\ log' = Append(log, AppWrite) /\ PipeType
    BY ApplicationWritesEffect DEF WellFormed, PipesTurn, tableVars
<1>3. /\ DOMAIN log = 1..Len(log) /\ Len(log) \in Nat
      /\ Writes' = Writes \cup {n}
    BY <1>1, <1>2, LogGrows
<1>4. /\ n \notin Writes
      /\ \A w \in Writes : w < n
    BY <1>1, <1>3 DEF Writes
<1>5. Table = "original" /\ Table' = Table
    BY <1>2 DEF Table, OriginalThere
<1>6. (cutOverType = "two-step")' = (cutOverType = "two-step")
    BY DEF given
<1>7. n \in Writes' \ Writes
    BY <1>3, <1>4
<1> QED
    BY <1>2, <1>3, <1>4, <1>5, <1>6, <1>7 DEF Promise!Write

(* The executor applies the first of the writes that are left, and it does *)
(* so while the original table has its name.                               *)
LEMMA ApplyIsApply ==
    ASSUME WellFormed, PipelineInv, OrderInv, OutcomeInv, TwoStepInv, Sound,
           ExecuteEvent, log[queue[1]] = AppWrite, UNCHANGED given
    PROVE  Promise!Apply
<1>1. PICK first : first = queue[1]
    OBVIOUS
<1>2. /\ queue # <<>> /\ queue' = Tail(queue) /\ ~swapped /\ UNCHANGED <<swapped, del, log>>
      /\ applied' = applied \cup {first} /\ PipeType /\ GivenType
    BY <1>1, ExecuteEventEffect, QueueShrinks DEF WellFormed, PipesTurn, tableVars
<1>3. /\ 1 \in DOMAIN queue /\ DOMAIN queue = 1..Len(queue) /\ Len(queue) \in Nat \ {0}
      /\ first \in Writes /\ Writes \subseteq Nat
    <2>1. DOMAIN log \subseteq Nat
        BY <1>2 DEF PipeType
    <2> QED
        BY <1>1, <1>2, <2>1, QueueShrinks DEF Writes
<1>4. first \notin applied
    BY <1>1, <1>3 DEF OrderInv
<1>5. ASSUME NEW earlier \in Writes, earlier < first
      PROVE  earlier \in applied
    <2>1. earlier <= read
        <3>1. first <= read /\ read \in Nat
            BY <1>1, <1>2, <1>3 DEF OrderInv, PipeType
        <3> QED
            BY <1>3, <1>5, <3>1
    <2>2. ASSUME NEW q \in 1 .. (Len(queue) + 1) - 1, queue[q] = earlier
          PROVE  FALSE
        <3>1. q \in DOMAIN queue /\ q # 1 /\ 1 \in 1 .. q - 1
            BY <1>1, <1>3, <1>5, <2>2
        <3>2. queue[1] < queue[q]
            BY <1>1, <1>3, <1>5, <2>2, <3>1 DEF OrderInv
        <3> QED
            BY <1>1, <1>3, <1>5, <2>2, <3>2
    <2> QED
        BY <2>1, <2>2 DEF PipelineInv, Arrives, InQueue
<1>6. del # "old"
    <2>1. CASE Atomic
        BY <1>2, <2>1 DEF OutcomeInv
    <2>2. CASE TwoStepKind
        BY <1>3, <1>4, <2>2 DEF TwoStepInv
    <2> QED
        BY <1>2, <2>1, <2>2, Kinds
<1>7. Table = "original" /\ Table' = Table
    BY <1>2, <1>6 DEF Table, OriginalThere
<1>8. Writes' = Writes /\ (cutOverType = "two-step")' = (cutOverType = "two-step")
    BY <1>2, WritesKept DEF given
<1>9. first \in Writes \ applied
    BY <1>3, <1>4
<1> QED
    BY <1>2, <1>5, <1>7, <1>8, <1>9 DEF Promise!Apply

(* The name changes hands.                                                 *)
LEMMA ReplaceIsReplace ==
    ASSUME UNCHANGED given, UNCHANGED <<log, applied>>, applied = Writes,
           NEW from, NEW to, Table = from, Table' = to
    PROVE  Promise!Replace(from, to)
<1>1. Writes' = Writes /\ (cutOverType = "two-step")' = (cutOverType = "two-step")
    BY WritesKept DEF given
<1> QED
    BY <1>1 DEF Promise!Replace

(* Every step is one of Swap's, or none.                                   *)
LEMMA StepSwaps ==
    ASSUME WellFormed, PipelineInv, OrderInv, OutcomeInv, OutcomeInv', ChallengeInv,
           PendingInv, TwoStepInv, Sound, Step, UNCHANGED given
    PROVE  [Promise!Next]_(Promise!vars)
<1> DEFINE Goal == [Promise!Next]_(Promise!vars)
<1>k. Atomic <=> ~TwoStepKind
    BY Kinds DEF WellFormed
<1>s. ASSUME UNCHANGED <<swapped, log, applied>>, Atomic \/ del' = del PROVE Goal
    BY <1>s, SwapStutters
<1>n. Swaps => applied = Writes
    BY NothingIsLost
<1>w. ASSUME Promise!Write \/ Promise!Apply PROVE Goal
    BY <1>w DEF Promise!Next
<1>r. ASSUME \/ Atomic /\ Promise!Replace("original", "ghost")
             \/ TwoStepKind /\ (Promise!Replace("original", "none") \/ Promise!Replace("none", "ghost"))
      PROVE Goal
    BY <1>r, <1>k DEF Promise!Next, TwoStepKind
<1> HIDE DEF Goal
<1>1. ASSUME ApplicationWrites PROVE Goal
    BY <1>1, <1>w, WriteIsWrite
<1>2. ASSUME StreamEvent \/ EnqueueChallenge PROVE Goal
    BY <1>2, <1>s, StreamEventEffect, EnqueueChallengeEffect DEF PipesTurn, tableVars
<1>3. ASSUME ExecuteEvent PROVE Goal
    <2>1. CASE log[queue[1]] = AppWrite
        BY <1>3, <2>1, <1>w, ApplyIsApply
    <2>2. CASE log[queue[1]] # AppWrite
        BY <1>3, <2>2, <1>s, ExecuteEventEffect DEF PipesTurn, tableVars
    <2> QED
        BY <2>1, <2>2
<1>4. ASSUME NEW a \in Attempt, \/ LockSession(a) \/ LockBeginFails(a) \/ LockFails(a)
             \/ SentryCheck(a) \/ SentryClear(a) \/ SentryCreate(a) \/ LockTables(a)
             \/ LockTold(a) \/ LockDropSentry(a) \/ LockUnlock(a) \/ LockDies(a)
      PROVE  Goal
    BY <1>4, <1>s, LockSessionEffect, LockBeginFailsEffect, LockFailsEffect,
       SentryCheckEffect, SentryClearEffect, SentryCreateEffect, LockTablesEffect,
       LockToldEffect, LockDropSentryEffect, LockUnlockEffect, LockDiesEffect
    DEF LockersTurn, AttemptsTurn, pipeVars
<1>5. ASSUME NEW a \in Attempt, \/ RenameSession(a) \/ RenameIssue(a) \/ RenameReturns(a)
             \/ RenameBeginFails(a) \/ RenameFails(a) \/ RenameReturnsError(a)
             \/ ServerTimesOut(a)
      PROVE  Goal
    BY <1>5, <1>s, RenameSessionEffect, RenameIssueEffect, RenameReturnsEffect,
       RenameBeginFailsEffect, RenameFailsEffect, RenameReturnsErrorEffect,
       ServerTimesOutEffect
    DEF RenamersTurn, AttemptsTurn, ServersTurn, pipeVars
<1>6. ASSUME NEW a \in Attempt, ServerRenames(a) PROVE Goal
    <2>1. Atomic /\ UNCHANGED <<log, applied>>
        BY <1>6, ServerRenamesEffect DEF ServersTurn, AttemptsTurn, pipeVars
    <2>2. CASE del = "none" /\ ~swapped /\ swapped' /\ del' = "old"
        <3>1. Swaps /\ Table = "original" /\ Table' = "ghost"
            BY <2>2 DEF Swaps, Table, OriginalThere
        <3> QED
            BY <2>1, <3>1, <1>n, <1>r, ReplaceIsReplace
    <2>3. CASE swapped' = swapped /\ del' = del
        BY <2>1, <2>3, <1>s
    <2> QED
        BY <1>6, <2>2, <2>3, ServerRenamesEffect
<1>7. ASSUME \/ StartAttempt \/ AwaitTableLocked \/ ChallengeTimeout \/ SpawnRename
             \/ AwaitRenameSessionId \/ ExpectRename \/ ExpectRenameGivesUp
             \/ ExpectLock \/ Release \/ AwaitUnlocked \/ AwaitRenamed \/ Leave
             \/ CheckSentry \/ AwaitChallenge PROVE Goal
    BY <1>7, <1>s, StartAttemptEffect, AwaitTableLockedEffect, ChallengeTimeoutEffect,
       SpawnRenameEffect, AwaitRenameSessionIdEffect, ExpectRenameEffect,
       ExpectRenameGivesUpEffect, ExpectLockEffect, ReleaseEffect, AwaitUnlockedEffect,
       AwaitRenamedEffect, LeaveEffect, CheckSentryEffect, AwaitChallengeEffect
    DEF MigratorsTurn, pipeVars, tableVars
<1>8. ASSUME DropSentry PROVE Goal
    BY <1>8, <1>s, DropSentryEffect DEF MigratorsTurn, pipeVars
<1>9. ASSUME WriteChallenge PROVE Goal
    <2>1. /\ UNCHANGED <<swapped, del, applied>> /\ attempt \in Attempt
          /\ (log' = log \/ log' = Append(log, Challenge))
        BY <1>9, WriteChallengeEffect DEF tableVars
    <2>2. CASE log' = log
        BY <1>s, <2>1, <2>2
    <2>3. CASE log' = Append(log, Challenge)
        <3>1. Writes' = Writes
            BY <2>1, <2>3, LogGrows, ChallengeIsAttempt DEF WellFormed
        <3>2. Table' = Table
            BY <2>1 DEF Table, OriginalThere
        <3>3. (cutOverType = "two-step")' = (cutOverType = "two-step")
            BY DEF given
        <3> QED
            BY <2>1, <3>1, <3>2, <3>3 DEF Goal, Promise!vars
    <2> QED
        BY <2>1, <2>2, <2>3
<1>10. ASSUME \/ StartTwoStep \/ LockOriginalTable \/ UnlockTables \/ ProcessExits
              \/ ConnectionLost PROVE Goal
    BY <1>10, <1>s, StartTwoStepEffect, LockOriginalTableEffect, UnlockTablesEffect,
       ProcessExitsEffect, ConnectionLostEffect
    DEF TwoStepsTurn, tableVars, pipeVars
<1>11. ASSUME RenameOriginal PROVE Goal
    <2>1. TwoStepKind /\ UNCHANGED <<log, applied, swapped>>
        BY <1>11, RenameOriginalEffect DEF TwoStepsTurn, pipeVars
    <2>2. CASE del = "none" /\ del' = "old"
        <3>1. Swaps
            BY <2>2 DEF Swaps
        <3>2. ~swapped
            BY <2>1, <2>2 DEF OutcomeInv
        <3>3. Table = "original" /\ Table' = "none"
            BY <2>1, <2>2, <3>2 DEF Table, OriginalThere
        <3> QED
            BY <2>1, <3>1, <3>3, <1>n, <1>r, ReplaceIsReplace
    <2>3. CASE del' = del
        BY <2>1, <2>3, <1>s
    <2> QED
        BY <1>11, <2>2, <2>3, RenameOriginalEffect
<1>12. ASSUME RenameGhost PROVE Goal
    <2>1. TwoStepKind /\ UNCHANGED <<log, applied, del>> /\ swapped' \in BOOLEAN
          /\ ~swapped /\ swapped \in BOOLEAN /\ del = "old"
        BY <1>12, RenameGhostEffect DEF WellFormed, TableType, TwoStepsTurn, pipeVars, OutcomeInv
    <2>2. CASE swapped'
        <3>1. Swaps
            BY <2>1, <2>2 DEF Swaps
        <3>2. Table = "none" /\ Table' = "ghost"
            BY <2>1, <2>2 DEF Table, OriginalThere
        <3> QED
            BY <2>1, <3>1, <3>2, <1>n, <1>r, ReplaceIsReplace
    <2>3. CASE ~swapped'
        <3>1. swapped' = swapped
            BY <2>1, <2>3
        <3> QED
            BY <2>1, <3>1, <1>s
    <2> QED
        BY <2>2, <2>3
<1> QED
    BY <1>1, <1>2, <1>3, <1>4, <1>5, <1>6, <1>7, <1>8, <1>9, <1>10, <1>11, <1>12
    DEF Goal, Step, Migrator, Locker, Renamer, Server

-----------------------------------------------------------------------------
(* The invariant holds to begin with, and every step keeps it.             *)

(* The invariant includes what the lemmas about steps assume.              *)
LEMMA WellFormedParts == IInv => WellFormed
BY TypeParts DEF IInv, WellFormed

(* Initially nothing has happened.                                         *)
LEMMA InitIInv == Init => IInv
<1> SUFFICES ASSUME Init PROVE IInv
    OBVIOUS
<1> USE DEF Init
<1>1. TypeOK
    <2>1. GivenType
        BY DEF GivenType
    <2>2. TableType
        BY DEF TableType, NoOne
    <2>3. PipeType
        BY CutOverAssumption DEF PipeType, Writes
    <2>4. MainType
        BY CutOverAssumption DEF MainType
    <2>5. GoType
        BY DEF GoType
    <2>6. ChanType
        BY DEF ChanType, Message
    <2> QED
        BY <2>1, <2>2, <2>3, <2>4, <2>5, <2>6, TypeParts
<1>2. ControlInv
    <2>1. \A a \in Attempt : Untouched(a)
        BY DEF Untouched
    <2> QED
        BY <2>1 DEF ControlInv, AtomicPlaces, TwoStepPlaces, Renaming
<1>3. Writes = {} /\ DOMAIN log = {} /\ DOMAIN queue = {}
    BY DEF Writes
<1>4. PipelineInv /\ OrderInv
    BY <1>3 DEF PipelineInv, OrderInv
<1>5. LockerInv
    <2>1. \A a \in Attempt : LockerOf(a)
        BY <1>3, NotAttempts DEF LockerOf, Locking, Holding, BeforeRename, Channels
    <2> QED
        BY <2>1 DEF LockerInv
<1>6. RenamerInv
    <2>1. \A a \in Attempt : RenamerOf(a)
        BY DEF RenamerOf, HasOk, BeforeRename, Channels
    <2> QED
        BY <2>1 DEF RenamerInv
<1>7. TellInv
    <2>1. \A a \in Attempt : chan[a].okToUnlockTable = <<>> /\ renamer[a] = "off" /\ Told(a) \in Nat
        BY DEF Told, Channels
    <2> QED
        BY <2>1 DEF TellInv, Allowed
<1>8. OutcomeInv
    BY DEF OutcomeInv
<1>9. ChallengeInv
    BY <1>3, NotAttempts DEF ChallengeInv, EventsUpToLockProcessed
<1>10. SentryInv
    BY NotAttempts DEF SentryInv, SentryOf, BeforeRename
<1>11. WaitInv
    BY DEF WaitInv, WaitOf, BeforeRename
<1>12. PendingInv
    BY DEF PendingInv, Pending
<1>13. TwoStepInv
    BY DEF TwoStepInv
<1>14. AliveInv
    BY DEF AliveInv, AliveOf, BeforeRename, Renaming, Holding
<1>15. FailureInv
    BY DEF FailureInv, FailureOf, Renaming
<1>16. SwapperInv /\ AbortInv /\ OldInv
    BY DEF SwapperInv, AbortInv, OldInv
<1> QED
    BY <1>1, <1>2, <1>4, <1>5, <1>6, <1>7, <1>8, <1>9, <1>10, <1>11, <1>12, <1>13,
       <1>14, <1>15, <1>16
    DEF IInv

(* A type invariant of the next state, from its parts.                     *)
LEMMA TypePartsThen ==
    (GivenType /\ TableType /\ PipeType /\ MainType /\ GoType /\ ChanType)' => TypeOK'
BY TypeParts, PTL

(* Every step keeps the types.                                             *)
LEMMA TypeOKKept == ASSUME IInv, Step, UNCHANGED given PROVE TypeOK'
<1>1. GivenType /\ TableType /\ PipeType /\ MainType /\ GoType /\ ChanType /\ ControlInv
    BY WellFormedParts DEF WellFormed
<1>2. GivenType'
    BY <1>1, GivenKept
<1>3. TableType' /\ PipeType' /\ MainType' /\ GoType' /\ ChanType'
    BY <1>1, TableTypeKept, PipeTypeKept, MainTypeKept, GoTypeKept, ChanTypeKept
<1> QED
    BY <1>2, <1>3, TypePartsThen

(* Every step keeps the invariant.                                         *)
LEMMA StepIInv == IInv /\ [Next]_vars => IInv'
<1>1. ASSUME IInv, Step, UNCHANGED given PROVE IInv'
    <2>1. WellFormed
        BY <1>1, WellFormedParts
    <2>2. TypeOK'
        BY <1>1, TypeOKKept
    <2>3. PipeType
        BY <2>1 DEF WellFormed
    <2>4. /\ ControlInv' /\ PipelineInv' /\ OrderInv' /\ LockerInv' /\ RenamerInv'
          /\ TellInv' /\ OutcomeInv' /\ ChallengeInv'
        BY <1>1, <2>1, ControlKept, PipelineKept, OrderKept, LockerKept, RenamerKept, TellKept,
           OutcomeKept, ChallengeKept
        DEF IInv
    <2>5. SentryInv' /\ WaitInv' /\ PendingInv' /\ TwoStepInv'
        BY <1>1, <2>1, <2>3, SentryKept, WaitKept, PendingKept, TwoStepKept DEF IInv
    <2>6. AliveInv' /\ FailureInv' /\ SwapperInv' /\ AbortInv' /\ OldInv'
        BY <1>1, <2>1, AliveKept, FailureKept, SwapperKept, AbortKept, OldKept DEF IInv
    <2> QED
        BY <2>2, <2>4, <2>5, <2>6 DEF IInv
<1>2. ASSUME IInv, UNCHANGED vars PROVE IInv'
    <2>1. UNCHANGED given /\ UNCHANGED tableVars /\ UNCHANGED pipeVars
          /\ UNCHANGED mainVars /\ UNCHANGED goVars /\ UNCHANGED chan
        BY <1>2 DEF vars, stepVars
    <2> USE <2>1 DEF given, tableVars, pipeVars, mainVars, goVars
    <2>2. Writes' = Writes /\ Atomic' = Atomic /\ TwoStepKind' = TwoStepKind
        BY DEF Writes, Atomic, TwoStepKind
    <2>3. Sound' = Sound /\ Calm' = Calm
        BY DEF Sound, Calm
    <2> USE <1>2 DEF IInv
    <2>4. TypeOK' /\ ControlInv' /\ OutcomeInv'
        BY <2>2 DEF TypeOK, ControlInv, Untouched, OutcomeInv
    <2>5. PipelineInv' /\ OrderInv' /\ LockerInv' /\ RenamerInv'
        BY <2>2
        DEF PipelineInv, OrderInv, Arrives, InQueue, LockerInv, LockerOf, RenamerInv, RenamerOf,
            HasOk
    <2>6. TellInv' /\ ChallengeInv'
        BY <2>2 DEF TellInv, Allowed, Told, ChallengeInv, EventsUpToLockProcessed
    <2>7. SentryInv' /\ WaitInv'
        BY <2>2, <2>3 DEF SentryInv, SentryOf, RenameWaits, WaitInv, WaitOf
    <2>8. PendingInv' /\ TwoStepInv'
        BY <2>2, <2>3 DEF PendingInv, PendingOf, Pending, TwoStepInv
    <2>9. AliveInv' /\ FailureInv'
        BY <2>2, <2>3 DEF AliveInv, AliveOf, FailureInv, FailureOf
    <2>10. SwapperInv' /\ AbortInv' /\ OldInv'
        BY <2>2, <2>3 DEF SwapperInv, AbortInv, OldInv
    <2> QED
        BY <2>4, <2>5, <2>6, <2>7, <2>8, <2>9, <2>10
<1> QED
    BY <1>1, <1>2 DEF Next

(* The invariant holds of every run.                                       *)
THEOREM InvariantHolds == Spec => []IInv
BY InitIInv, StepIInv, PTL DEF Spec

-----------------------------------------------------------------------------
(* What follows from it.                                                   *)

(* The variables have their types: no statement, goroutine or answer, and  *)
(* no fault, takes one of them anywhere else.                              *)
THEOREM TypeCorrect == Spec => []TypeOK
<1>1. IInv => TypeOK
    BY DEF IInv
<1> QED
    BY <1>1, InvariantHolds, PTL

(* waitForEventsUpToLock keeps its promise: when its challenge is back and *)
(* as long as the lock holds, every write of the application is in the     *)
(* ghost table.                                                            *)
THEOREM EventsUpToLockAreProcessed == Spec => []EventsUpToLockProcessed
<1>1. IInv => EventsUpToLockProcessed
    BY DEF IInv, ChallengeInv
<1> QED
    BY <1>1, InvariantHolds, PTL

(* No goroutine of an attempt blocks on sending to its channels: they have *)
(* room for whatever is sent, also when nobody reads any more.             *)
THEOREM NoSendEverBlocks == Spec => []NoSendBlocks
<1>1. ASSUME IInv PROVE NoSendBlocks
    <2> SUFFICES ASSUME NEW a \in Attempt, NEW c \in Channels
                 PROVE  Len(chan[a][c]) <= IF c = "okToUnlockTable" THEN 4 ELSE 2
        BY DEF NoSendBlocks
    <2>1. WellFormed /\ GivenType /\ ChanType
        BY <1>1, WellFormedParts DEF WellFormed
    <2>2. Len(chan[a][c]) \in Nat
        BY <2>1, Lengths
    <2>3. CASE Atomic
        <3>1. LockerOf(a) /\ RenamerOf(a)
            BY <1>1, <2>3 DEF IInv, LockerInv, RenamerInv
        <3>2. Len(chan[a].okToUnlockTable) <= 3
            <4>1. Told(a) \in 0..2
                BY DEF Told
            <4>2. Len(chan[a].okToUnlockTable) \in Nat
                BY <2>1, Lengths DEF Channels
            <4> QED
                BY <1>1, <2>3, <4>1, <4>2 DEF IInv, TellInv, Allowed
        <3> QED
            BY <2>2, <3>1, <3>2 DEF LockerOf, RenamerOf, Channels
    <2>4. CASE ~Atomic
        BY <1>1, <2>1, <2>2, <2>4, Kinds DEF IInv, ControlInv, Untouched
    <2> QED
        BY <2>3, <2>4
<1> QED
    BY <1>1, InvariantHolds, PTL

(* A cut-over that reports success has swapped the tables.                 *)
THEOREM SuccessIsSwap == Spec => []SuccessMeansSwap
<1>1. IInv => SuccessMeansSwap
    BY DEF IInv, OutcomeInv, SuccessMeansSwap
<1> QED
    BY <1>1, InvariantHolds, PTL

(* A cut-over that fails by timeouts, or because a transaction could not   *)
(* begin, leaves the original table in its place.                          *)
THEOREM FailureIsNoSwap == Spec => []FailureMeansNoSwap
<1>1. ASSUME IInv PROVE FailureMeansNoSwap
    <2> SUFFICES ASSUME Calm, main \in {"gaveUp", "aborted"} \/ (main = "retry" /\ attempt > 0)
                 PROVE  ~swapped /\ OriginalThere
        BY DEF FailureMeansNoSwap, Calm
    <2>1. GivenType /\ MainType /\ ControlInv
        BY <1>1, WellFormedParts DEF WellFormed
    <2>2. CASE Atomic
        <3>1. main # "aborted" /\ attempt \in Attempt
            BY <2>1, <2>2, Kinds, Proceeding, Moving DEF TwoStepPlaces, MainType
        <3>2. \A a \in Attempt : server[a] # "ok"
            BY <1>1, <2>2, <3>1 DEF IInv, FailureInv, FailureOf, OutcomeInv
        <3> QED
            BY <1>1, <2>2, <3>2 DEF IInv, SwapperInv, OutcomeInv, OriginalThere
    <2>3. CASE TwoStepKind
        <3>1. main = "aborted"
            BY <2>1, <2>3, Kinds DEF ControlInv, AtomicPlaces
        <3> QED
            BY <1>1, <2>3, <3>1 DEF IInv, AbortInv, OutcomeInv, OriginalThere
    <2> QED
        BY <2>1, <2>2, <2>3, Kinds
<1> QED
    BY <1>1, InvariantHolds, PTL

(* If RENAME is issued in time and no connection replaced unnoticed, the   *)
(* original table only gives way to a ghost table that has every write.    *)
THEOREM NoWriteIsLost ==
    ASSUME \A f \in FaultChoices : f \cap {"slowRename", "reconnect"} = {}
    PROVE  Spec => NoWriteLost
<1>1. IInv => Sound
    BY WellFormedParts DEF WellFormed, GivenType, Sound
<1>2. ASSUME IInv, [Next]_vars PROVE [Swaps => applied = Writes]_vars
    BY <1>1, <1>2, WellFormedParts, NothingIsLost DEF Next, IInv
<1>3. IInv /\ [Next]_vars =>
        [(swapped' # swapped \/ (del' = "old" /\ del # "old")) => applied = Writes]_vars
    BY <1>2 DEF Swaps
<1> QED
    BY <1>3, InvariantHolds, PTL DEF NoWriteLost, Spec

(* If RENAME is issued in time and no connection replaced unnoticed, a     *)
(* cut-over of either kind is a Swap: for any number of attempts, writes   *)
(* and faults, the application's writes reach the ghost table one by one   *)
(* and in order, and the ghost table takes the name once it has them all.  *)
THEOREM CutOverImplementsSwap ==
    ASSUME \A f \in FaultChoices : f \cap {"slowRename", "reconnect"} = {}
    PROVE  Spec => SwapsTables
<1>1. Init => Promise!Init
    <2> SUFFICES ASSUME Init PROVE Promise!Init
        OBVIOUS
    <2>1. log = <<>> /\ applied = {} /\ swapped = FALSE /\ del = "none"
        BY Zenon DEF Init
    <2>2. Writes = {} /\ Table = "original"
        BY <2>1 DEF Writes, Table, OriginalThere
    <2> QED
        BY <2>1, <2>2 DEF Promise!Init
<1>2. IInv => Sound
    BY WellFormedParts DEF WellFormed, GivenType, Sound
<1>3. ASSUME IInv, IInv', [Next]_vars PROVE [Promise!Next]_(Promise!vars)
    <2>1. CASE Next
        BY <1>2, <1>3, <2>1, WellFormedParts, StepSwaps DEF Next, IInv
    <2>2. CASE UNCHANGED vars
        <3>1. UNCHANGED <<given, swapped, log, applied, del>>
            BY <2>2 DEF vars, stepVars, tableVars, pipeVars
        <3> QED
            BY <1>3, <3>1, WellFormedParts, SwapStutters DEF IInv
    <2> QED
        BY <1>3, <2>1, <2>2
<1>4. IInv /\ IInv' /\ [Next]_vars => [Promise!Next]_(Promise!vars)
    BY <1>3
<1> QED
    BY <1>1, <1>4, InvariantHolds, PTL DEF Spec, SwapsTables, Promise!Spec

(* If nothing goes wrong in an atomic cut-over but timeouts and the        *)
(* beginning of a transaction, nobody drops the old table, which has the   *)
(* original data.  A two-step cut-over never does, whatever goes wrong.    *)
THEOREM OldTableIsKept ==
    ASSUME "atomic" \in CutOverTypes => \A f \in FaultChoices : f \subseteq {"begin"}
    PROVE  Spec => OldTableKept
<1>1. IInv => Calm \/ TwoStepKind
    BY WellFormedParts, Kinds DEF WellFormed, GivenType, Calm, Atomic
<1>2. ASSUME IInv, [Next]_vars PROVE [del = "old" => del' = "old"]_vars
    BY <1>1, <1>2, WellFormedParts, OldStays DEF Next, IInv
<1>3. IInv /\ [Next]_vars => [del = "old" => del' = "old"]_vars
    BY <1>2
<1> QED
    BY <1>3, InvariantHolds, PTL DEF OldTableKept, Spec
=============================================================================

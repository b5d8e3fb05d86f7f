------------------------------- MODULE Throttle -------------------------------
(***************************************************************************)
(* The throttler: goroutines that collect what may call for throttling,    *)
(* each at its own pace, one that combines it into IsThrottled, which      *)
(* executeWriteFuncs waits for, and the heartbeat the lag is measured by.  *)
(* The heartbeat itself looks at IsThrottled, so that throttling, lag and  *)
(* heartbeat depend on each other in a circle.                             *)
(*                                                                         *)
(* Time is abstracted: a heartbeat row is young or old, old meaning that   *)
(* its age exceeds max-lag-millis.  The migration runs on the master (with *)
(* --test-on-replica or --migrate-on-replica lag is read elsewhere) and is *)
(* neither in the critical section of the cut-over nor finishing.  A       *)
(* collector's round is one step: each only stores what a next round will  *)
(* replace, and only the general one starts hibernation.                   *)
(***************************************************************************)
EXTENDS Naturals, SequencesExt

CONSTANTS
    Replicas,          \* --throttle-control-replicas
    Inspected,         \* the server whose changelog the inspector reads, which
                       \* may be a control replica, too
    Policies,          \* how critical load may be configured
    Answers,           \* what the server of throttle-http may answer
    IgnoreHTTPErrors,  \* --ignore-http-errors
    ClearsURL,         \* may the operator unset throttle-http?
    MaxRetries,        \* --default-retries
    MaxChanges,        \* bound: changes around gh-ost
    MaxRechecks        \* bound: timers that run for critical load

Servers == Replicas \cup {Inspected}

ASSUME ThrottleAssumption ==
    /\ IsFiniteSet(Replicas)
    /\ Policies \subseteq {"panic", "recheck", "hibernate"} /\ Policies # {}
    /\ Answers \subseteq {"200", "429", "-1"} /\ "200" \in Answers
    /\ IgnoreHTTPErrors \in BOOLEAN /\ ClearsURL \in BOOLEAN
    /\ MaxRetries \in Nat /\ MaxChanges \in Nat
    /\ MaxRechecks \in Nat \ {0}

VARIABLES
    commanded,   \* ThrottleCommandedByUser
    flag,        \* which flag file exists; "throttle" stands for max-load
                 \* and the throttle query too
    load,        \* the status variables: is there critical load?
    url,         \* is throttle-http set?
    answer,      \* what its server answers
    link,        \* is each server up, lagging behind, or failing to answer?
    beat,        \* the age of the heartbeat row on the master
    row,         \* its age on each server
    changes,     \* how often any of these has changed
    policy,      \* --critical-load-hibernate-seconds, -interval-millis
    hibernating, \* HibernateUntil > 0
    waking,      \* the goroutine that ends the hibernation
    rechecks,    \* timers that run to look at critical load again
    generalCheck,\* throttleGeneralCheckResult
    httpStatus,  \* ThrottleHTTPStatusCode
    currentLag,  \* CurrentLag, as an age
    control,     \* the goroutine that polls the control replicas
    lagResult,   \* controlReplicasLagResult
    collected,   \* who has reported to firstThrottlingCollected
    checking,    \* how far the check is, and what it says
    throttled,   \* isThrottled and throttleReasonHint
    heartbeat,   \* does InitiateHeartbeat go on, and numSuccessiveFailures
    aborted      \* an error has reached PanicAbort: the process ends

around == <<commanded, flag, load, url, answer, link, row>>
critical == <<policy, hibernating, waking, rechecks>>
metrics == <<httpStatus, currentLag, control, lagResult, collected>>
decision == <<checking, throttled>>
beating == <<beat, heartbeat>>
vars == <<around, changes, critical, generalCheck, metrics, decision, beating, aborted>>

(* ThrottleCheckResult: whether to throttle, and the hint at the reason.   *)
Result(throttle, hint) == [throttle |-> throttle, hint |-> hint]
NoThrottle == Result(FALSE, "none")
OtherReason == Result(TRUE, "none")
LeavingHibernation == Result(TRUE, "leaving")

Collectors == {"lag", "http", "general"}
NoLag == [lag |-> 0, err |-> FALSE]

(* SetThrottleHTTP before the first round stands for --throttle-http.     *)
Init ==
    /\ commanded = FALSE /\ flag = "none" /\ load = "low" /\ url = FALSE /\ answer = "200"
    /\ link = [s \in Servers |-> "up"] /\ row = [s \in Servers |-> "young"]
    /\ changes = 0
    /\ beat = "young" /\ heartbeat = [alive |-> TRUE, failures |-> 0]
    /\ policy \in Policies /\ hibernating = FALSE /\ waking = "no" /\ rechecks = 0
    /\ generalCheck = NoThrottle
    /\ httpStatus = "0" /\ currentLag = "young"
    /\ control = "new" /\ lagResult = NoLag /\ collected = {}
    /\ checking = [stage |-> 1, result |-> NoThrottle, slept |-> FALSE]
    /\ throttled = NoThrottle
    /\ aborted = FALSE

-----------------------------------------------------------------------------
(* The operator, the application and the servers.                          *)

OthersRun ==
    ~aborted /\ UNCHANGED <<critical, generalCheck, metrics, decision, heartbeat, aborted>>

Changes == OthersRun /\ changes < MaxChanges /\ changes' = changes + 1

Command(on) ==
    /\ Changes /\ commanded # on /\ commanded' = on
    /\ UNCHANGED <<flag, load, url, answer, link, beat, row>>

SetThrottleHTTP(on) ==
    /\ Changes /\ url # on /\ (on \/ ClearsURL) /\ url' = on
    /\ UNCHANGED <<commanded, flag, load, answer, link, beat, row>>

FlagFileChanges(to) ==
    /\ Changes /\ flag # to /\ flag' = to
    /\ UNCHANGED <<commanded, load, url, answer, link, beat, row>>

LoadChanges(to) ==
    /\ Changes /\ load # to /\ load' = to
    /\ UNCHANGED <<commanded, flag, url, answer, link, beat, row>>

AnswerChanges(to) ==
    /\ Changes /\ url /\ answer # to /\ answer' = to
    /\ UNCHANGED <<commanded, flag, load, url, link, beat, row>>

LinkChanges(s, to) ==
    /\ Changes /\ link[s] # to /\ link' = [link EXCEPT ![s] = to]
    /\ UNCHANGED <<commanded, flag, load, url, answer, beat, row>>

(* No heartbeat while the user commands throttling.                        *)
TimeForHeartbeat == ~(throttled.throttle /\ throttled.hint = "user")

(* Time passes, with no heartbeat to come, and every copy of the row ages. *)
BeatAges ==
    /\ ~heartbeat.alive \/ hibernating \/ ~TimeForHeartbeat
    /\ OthersRun /\ beat = "young" /\ beat' = "old" /\ row' = [s \in Servers |-> "old"]
    /\ UNCHANGED <<commanded, flag, load, url, answer, link, changes>>

(* Time passes on a server that lags behind.                               *)
RowAges(s) ==
    /\ OthersRun /\ link[s] = "lagging" /\ row[s] = "young" /\ row' = [row EXCEPT ![s] = "old"]
    /\ UNCHANGED <<commanded, flag, load, url, answer, link, beat, changes>>

Replicate(s) ==
    /\ OthersRun /\ link[s] # "lagging" /\ beat = "young" /\ row[s] = "old"
    /\ row' = [row EXCEPT ![s] = "young"]
    /\ UNCHANGED <<commanded, flag, load, url, answer, link, beat, changes>>

-----------------------------------------------------------------------------
(* Applier.InitiateHeartbeat.                                              *)

Writes ==
    /\ ~aborted /\ heartbeat.alive /\ ~hibernating
    /\ UNCHANGED <<around, changes, critical, generalCheck, metrics, decision, aborted>>

injectHeartbeat ==
    /\ Writes /\ TimeForHeartbeat
    /\ beat' = "young" /\ heartbeat' = [heartbeat EXCEPT !.failures = 0]

(* Mutant: failures are counted, and the loop goes on.                     *)
FailAndGoOn ==
    /\ Writes /\ TimeForHeartbeat
    /\ heartbeat' = [heartbeat EXCEPT !.failures = @ + 1]
    /\ UNCHANGED beat

(* One failure too many in a row ends the heartbeat for good.              *)
injectHeartbeatFails ==
    /\ Writes /\ TimeForHeartbeat
    /\ heartbeat' = [alive |-> heartbeat.failures < MaxRetries,
                     failures |-> heartbeat.failures + 1]
    /\ UNCHANGED beat

-----------------------------------------------------------------------------
(* The collectors.                                                         *)

Collects == ~aborted /\ UNCHANGED <<around, changes, policy, beating, throttled>>

collectReplicationLag ==
    /\ Collects
    /\ IF hibernating \/ link[Inspected] = "failing" THEN UNCHANGED currentLag
       ELSE currentLag' = row[Inspected]
    /\ collected' = collected \cup {"lag"}
    /\ UNCHANGED <<hibernating, waking, rechecks, generalCheck, httpStatus, control, lagResult,
                   checking, aborted>>

(* readReplicaLag: a young row has a lag too, if a small one.              *)
ReplicaLag(r) ==
    IF link[r] = "failing" THEN [lag |-> 0, err |-> TRUE]
    ELSE [lag |-> IF row[r] = "old" THEN 2 ELSE 1, err |-> FALSE]

MaxLag == 1

(* Mutant: the last answer counts.                                         *)
LastAnswer(result, next) == next

(* A later answer replaces the result if it is an error, or a larger lag   *)
(* than that of the result, which is 0 for an error.  So an error replaces *)
(* any lag, and any answer replaces an error.                              *)
Merge(result, next) == IF next.err \/ next.lag > result.lag THEN next ELSE result

(* The goroutines that ask the replicas answer in any order.               *)
Orders == SetToSeqs(Replicas)

readControlReplicasLag(order) ==
    IF order = << >> THEN NoLag
    ELSE FoldLeft(LAMBDA result, r : Merge(result, ReplicaLag(r)),
                  ReplicaLag(Head(order)), Tail(order))

(* The goroutine ends when it finds gh-ost hibernating as it starts.       *)
startControlReplicasLag ==
    /\ Collects /\ control = "new"
    /\ control' = IF hibernating THEN "ended" ELSE "polling"
    /\ UNCHANGED <<hibernating, waking, rechecks, generalCheck, httpStatus, currentLag, lagResult,
                   collected, checking, aborted>>

collectControlReplicasLag ==
    /\ Collects /\ control = "polling"
    /\ \E order \in Orders : lagResult' = readControlReplicasLag(order)
    /\ UNCHANGED <<hibernating, waking, rechecks, generalCheck, httpStatus, currentLag, control,
                   collected, checking, aborted>>

collectThrottleHTTPStatus ==
    /\ Collects
    /\ IF hibernating \/ ~url \/ (answer = "-1" /\ IgnoreHTTPErrors) THEN UNCHANGED httpStatus
       ELSE httpStatus' = answer
    /\ collected' = collected \cup {"http"}
    /\ UNCHANGED <<hibernating, waking, rechecks, generalCheck, currentLag, control, lagResult,
                   checking, aborted>>

criticalLoadIsMet == load = "critical"

(* The considerations after critical load, in their order.                 *)
GeneralResult ==
    CASE load = "unreadable" -> OtherReason
      [] load # "unreadable" /\ commanded -> Result(TRUE, "user")
      [] load # "unreadable" /\ ~commanded /\ flag = "throttle" -> OtherReason
      [] OTHER -> NoThrottle

(* Critical load with --critical-load-hibernate-seconds: the round ends    *)
(* here, and the general check stays as it was.                            *)
Hibernate ==
    /\ Collects /\ ~hibernating
    /\ criticalLoadIsMet /\ policy = "hibernate" /\ flag # "panic"
    /\ hibernating' = TRUE /\ waking' = "sleeping"
    /\ collected' = collected \cup {"general"}
    /\ UNCHANGED <<rechecks, generalCheck, httpStatus, currentLag, control, lagResult, checking,
                   aborted>>

collectGeneralThrottleMetrics ==
    /\ Collects /\ ~hibernating
    /\ ~(criticalLoadIsMet /\ policy = "hibernate") \/ flag = "panic"
    /\ aborted' = (flag = "panic" \/ (criticalLoadIsMet /\ policy = "panic"))
    /\ rechecks' = IF criticalLoadIsMet /\ policy = "recheck" /\ rechecks < MaxRechecks
                   THEN rechecks + 1 ELSE rechecks
    /\ generalCheck' = GeneralResult
    /\ checking' = [checking EXCEPT !.slept = FALSE]
    /\ collected' = collected \cup {"general"}
    /\ UNCHANGED <<hibernating, waking, httpStatus, currentLag, control, lagResult>>

(* Mutant: the hibernation ends before the general check says so.          *)
WakeAndTell ==
    /\ Collects /\ waking # "no"
    /\ IF waking = "sleeping"
       THEN waking' = "leaving" /\ hibernating' = FALSE /\ UNCHANGED generalCheck
       ELSE waking' = "no" /\ generalCheck' = LeavingHibernation /\ UNCHANGED hibernating
    /\ UNCHANGED <<rechecks, metrics, checking, aborted>>

(* The goroutine that sleeps for as long as gh-ost hibernates: first the   *)
(* general check, then HibernateUntil.                                     *)
Wake ==
    /\ Collects /\ waking # "no"
    /\ IF waking = "sleeping"
       THEN waking' = "leaving" /\ generalCheck' = LeavingHibernation /\ UNCHANGED hibernating
       ELSE waking' = "no" /\ hibernating' = FALSE /\ UNCHANGED generalCheck
    /\ UNCHANGED <<rechecks, metrics, checking, aborted>>

(* A timer of --critical-load-interval-millis goes off.                    *)
Recheck ==
    /\ Collects /\ rechecks > 0
    /\ rechecks' = rechecks - 1
    /\ aborted' = criticalLoadIsMet
    /\ UNCHANGED <<hibernating, waking, generalCheck, metrics, checking>>

-----------------------------------------------------------------------------
(* The check: initiateThrottlerChecks calls shouldThrottle, which looks at *)
(* the five sources in this order, each at its own moment.                 *)

Sources == <<
    IF hibernating THEN OtherReason ELSE NoThrottle,
    generalCheck,
    IF httpStatus \notin {"0", "200"} THEN OtherReason ELSE NoThrottle,
    IF currentLag = "old" THEN OtherReason ELSE NoThrottle,
    IF lagResult.err \/ lagResult.lag > MaxLag THEN OtherReason ELSE NoThrottle >>

(* Since the hibernation began no general check has been made.             *)
Asleep == waking # "no" \/ generalCheck = LeavingHibernation

Checks ==
    /\ ~aborted /\ collected = Collectors
    /\ UNCHANGED <<around, changes, critical, generalCheck, metrics, beating, aborted>>

shouldThrottle ==
    /\ Checks /\ checking.stage \in DOMAIN Sources
    /\ LET source == Sources[checking.stage]
       IN checking' = [stage |-> IF source.throttle THEN 6 ELSE checking.stage + 1,
                       result |-> source,
                       slept |-> ~source.throttle
                                 /\ IF checking.stage = 1 THEN Asleep ELSE checking.slept]
    /\ UNCHANGED throttled

(* Two rows of the changelog come before it, whose errors are ignored.     *)
SetThrottled ==
    /\ Checks /\ checking.stage = 6
    /\ throttled' = checking.result
    /\ checking' = [stage |-> 1, result |-> NoThrottle, slept |-> FALSE]

-----------------------------------------------------------------------------
Flags == {"none", "throttle", "panic"}
Loads == {"low", "critical", "unreadable"}
Links == {"up", "lagging", "failing"}
Ages == {"young", "old"}

Environment ==
    \/ \E on \in BOOLEAN : Command(on)
    \/ \E on \in BOOLEAN : SetThrottleHTTP(on)
    \/ \E to \in Flags : FlagFileChanges(to)
    \/ \E to \in Loads : LoadChanges(to)
    \/ \E to \in Answers : AnswerChanges(to)
    \/ \E s \in Servers, to \in Links : LinkChanges(s, to)
    \/ BeatAges
    \/ \E s \in Servers : RowAges(s)

(* The process has ended.                                                  *)
Ended == aborted /\ UNCHANGED vars

Next ==
    \/ Environment
    \/ \E s \in Servers : Replicate(s)
    \/ injectHeartbeat \/ injectHeartbeatFails
    \/ collectReplicationLag \/ startControlReplicasLag \/ collectControlReplicasLag
    \/ collectThrottleHTTPStatus \/ Hibernate \/ collectGeneralThrottleMetrics
    \/ Wake \/ Recheck
    \/ shouldThrottle \/ SetThrottled
    \/ Ended

(* Every goroutine has its ticker, and replication that works goes on.     *)
Fairness ==
    /\ \A s \in Servers : WF_vars(Replicate(s))
    /\ WF_vars(injectHeartbeat)
    /\ WF_vars(collectReplicationLag)
    /\ WF_vars(startControlReplicasLag \/ collectControlReplicasLag)
    /\ WF_vars(collectThrottleHTTPStatus)
    /\ WF_vars(Hibernate \/ collectGeneralThrottleMetrics)
    /\ WF_vars(Wake) /\ WF_vars(Recheck)
    /\ WF_vars(shouldThrottle \/ SetThrottled)

Spec == Init /\ [][Next]_vars
FairSpec == Spec /\ Fairness

-----------------------------------------------------------------------------
Results == [throttle : BOOLEAN, hint : {"none", "user", "leaving"}]

(* The types; numSuccessiveFailures does not outgrow default-retries by    *)
(* more than the failure that ends InitiateHeartbeat.                      *)
TypeOK ==
    /\ commanded \in BOOLEAN /\ flag \in Flags /\ load \in Loads
    /\ url \in BOOLEAN /\ answer \in Answers
    /\ link \in [Servers -> Links] /\ beat \in Ages /\ row \in [Servers -> Ages]
    /\ changes \in 0 .. MaxChanges
    /\ policy \in Policies /\ hibernating \in BOOLEAN
    /\ waking \in {"no", "sleeping", "leaving"} /\ rechecks \in 0 .. MaxRechecks
    /\ generalCheck \in Results /\ httpStatus \in Answers \cup {"0"}
    /\ currentLag \in Ages /\ control \in {"new", "polling", "ended"}
    /\ lagResult \in [lag : 0 .. 2, err : BOOLEAN] /\ collected \subseteq Collectors
    /\ checking \in [stage : 1 .. 6, result : Results, slept : BOOLEAN]
    /\ throttled \in Results
    /\ heartbeat \in [alive : BOOLEAN, failures : 0 .. MaxRetries + 1]
    /\ aborted \in BOOLEAN

(* There is no gap at the end of a hibernation: a check that began in one  *)
(* throttles without a look at the metrics from before it, unless the      *)
(* general ones have been collected again since (shouldThrottle, Wake).    *)
NoGapAfterHibernation ==
    checking.slept => checking.stage <= 2

(* Why: gh-ost hibernates as long as there is a goroutine to wake it, the  *)
(* general check says so before HibernateUntil is cleared, and a check     *)
(* that slept has found that cleared.                                      *)
HibernationInv ==
    /\ hibernating <=> waking # "no"
    /\ waking = "leaving" => generalCheck = LeavingHibernation
    /\ checking.slept => checking.stage = 2 /\ generalCheck = LeavingHibernation
    /\ DOMAIN checking = {"stage", "result", "slept"}

Failing == {r \in Replicas : link[r] = "failing"}
Lagging == {r \in Replicas \ Failing : row[r] = "old"}

(* Control replicas that throttle in whatever order they answer: one that  *)
(* lags while none fails, or all of them, each for either reason.  With    *)
(* one that lags, one that fails and one that does neither, answering in   *)
(* this order, the lag is lost: the documentation promises more.           *)
ControlThrottles ==
    /\ control = "polling" /\ Lagging \cup Failing # {}
    /\ Failing = {} \/ Lagging \cup Failing = Replicas

(* What has to throttle the migration, as far as the servers, the operator *)
(* and the application are concerned.                                      *)
Must ==
    \/ commanded \/ flag = "throttle" \/ load = "unreadable"
    \/ load = "critical" /\ policy = "hibernate"
    \/ url /\ (answer = "429" \/ (answer = "-1" /\ ~IgnoreHTTPErrors))
    \/ link[Inspected] # "failing" /\ row[Inspected] = "old"
    \/ ControlThrottles

(* What may throttle it; old rows only if no heartbeat can make them young.*)
May ==
    \/ commanded \/ flag = "throttle" \/ load # "low"
    \/ url /\ answer # "200"
    \/ \E s \in Servers : link[s] # "up"
    \/ ~heartbeat.alive

(* Throttling follows its reasons: when they no longer change, the         *)
(* migration ends up throttled if one of them holds and goes on if none    *)
(* does.  It does not keep itself throttled, through lag that no heartbeat *)
(* ends; and a critical load that stays makes gh-ost hibernate or ends it, *)
(* throttled or not (Applier.InitiateHeartbeat, initiateThrottlerChecks,   *)
(* collectGeneralThrottleMetrics, readControlReplicasLag).                 *)
ThrottlingSettles ==
    <>[](aborted \/ /\ Must => throttled.throttle
                    /\ throttled.throttle => May
                    /\ load = "critical" => policy = "hibernate")

=============================================================================

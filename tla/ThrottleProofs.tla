---------------------------- MODULE ThrottleProofs ----------------------------
(***************************************************************************)
(* There is no gap between the end of a hibernation and the general check  *)
(* that follows it, for every set of replicas, every policy and however    *)
(* often the load becomes critical; and the types hold, for which what the *)
(* fold over the answers of the control replicas computes is shown first.  *)
(***************************************************************************)
EXTENDS Throttle, Foundations, TLAPS

(* Initially gh-ost is awake and no check has begun.                       *)
LEMMA InitHibernationInv == Init => HibernationInv
BY DEF Init, HibernationInv

(* Each step keeps the invariant.  Those of the environment, the heartbeat *)
(* and the other collectors leave all of it alone.                         *)
LEMMA NextHibernationInv == HibernationInv /\ [Next]_vars => HibernationInv'
<1> SUFFICES ASSUME HibernationInv, [Next]_vars
             PROVE  HibernationInv'
    OBVIOUS
<1> USE DEF HibernationInv
<1> DEFINE Kept == UNCHANGED <<hibernating, waking, generalCheck, checking>>
<1>0. Kept => HibernationInv'
    OBVIOUS
<1>1. CASE Environment
    <2>1. Changes => Kept
        BY DEF Changes, OthersRun, critical, decision
    <2>2. OthersRun => Kept
        BY DEF OthersRun, critical, decision
    <2> QED
        BY <1>0, <1>1, <2>1, <2>2 DEF Environment, Command, SetThrottleHTTP, FlagFileChanges,
           LoadChanges, AnswerChanges, LinkChanges, BeatAges, RowAges
<1>2. CASE \E s \in Servers : Replicate(s)
    BY <1>0, <1>2 DEF Replicate, OthersRun, critical, decision
<1>3. CASE injectHeartbeat \/ injectHeartbeatFails
    BY <1>0, <1>3 DEF injectHeartbeat, injectHeartbeatFails, Writes, critical, decision
<1>4. CASE collectReplicationLag \/ startControlReplicasLag
    BY <1>0, <1>4 DEF collectReplicationLag, startControlReplicasLag
<1>5. CASE collectControlReplicasLag \/ collectThrottleHTTPStatus
    BY <1>0, <1>5 DEF collectControlReplicasLag, collectThrottleHTTPStatus
<1>6. CASE Hibernate
    BY <1>6 DEF Hibernate
<1>7. CASE collectGeneralThrottleMetrics
    <2>1. ~hibernating /\ UNCHANGED <<hibernating, waking>>
        BY <1>7 DEF collectGeneralThrottleMetrics
    <2>2. ~checking'.slept /\ DOMAIN checking' = DOMAIN checking
        BY <1>7 DEF collectGeneralThrottleMetrics
    <2> QED
        BY <2>1, <2>2
<1>8. CASE Wake
    <2>1. UNCHANGED checking /\ waking # "no"
        BY <1>8 DEF Wake
    <2>2. CASE waking = "sleeping"
        <3>1. /\ waking' = "leaving" /\ generalCheck' = LeavingHibernation
              /\ UNCHANGED hibernating
            BY <1>8, <2>2 DEF Wake
        <3>2. LeavingHibernation' = LeavingHibernation
            BY DEF LeavingHibernation, Result
        <3> QED
            BY <2>1, <3>1, <3>2
    <2>3. CASE waking # "sleeping"
        <3>1. waking' = "no" /\ ~hibernating' /\ UNCHANGED generalCheck
            BY <1>8, <2>3 DEF Wake
        <3> QED
            BY <2>1, <3>1
    <2> QED
        BY <2>2, <2>3
<1>9. CASE Recheck
    BY <1>0, <1>9 DEF Recheck
<1>10. CASE shouldThrottle
    <2>1. UNCHANGED <<hibernating, waking, generalCheck>>
        BY <1>10 DEF shouldThrottle, Checks, critical
    <2> DEFINE source == Sources[checking.stage]
    <2>2. checking' = [stage |-> IF source.throttle THEN 6 ELSE checking.stage + 1,
                       result |-> source,
                       slept |-> ~source.throttle
                                 /\ IF checking.stage = 1 THEN Asleep ELSE checking.slept]
        BY <1>10 DEF shouldThrottle
    <2>3. checking.stage \in 1 .. 5
        BY <1>10 DEF shouldThrottle, Sources
    <2>4. ASSUME checking'.slept
          PROVE  checking'.stage = 2 /\ generalCheck = LeavingHibernation
        <3>1. ~source.throttle
            BY <2>2, <2>4
        <3>2. CASE checking.stage = 1
            <4>1. Asleep
                BY <2>2, <2>4, <3>2
            <4>2. ~hibernating
                BY <3>1, <3>2 DEF Sources, OtherReason, Result
            <4>3. generalCheck = LeavingHibernation
                BY <4>1, <4>2 DEF Asleep
            <4> QED
                BY <2>2, <3>1, <3>2, <4>3
        <3>3. CASE checking.stage # 1
            <4>1. checking.slept
                BY <2>2, <2>4, <3>3
            <4>2. checking.stage = 2 /\ generalCheck = LeavingHibernation
                BY <4>1
            <4>3. source = LeavingHibernation
                BY <4>2 DEF Sources
            <4> QED
                BY <3>1, <4>3 DEF LeavingHibernation, Result
        <3> QED
            BY <3>2, <3>3
    <2>5. DOMAIN checking' = {"stage", "result", "slept"}
        BY <2>2
    <2> QED
        BY <2>1, <2>4, <2>5 DEF LeavingHibernation, Result
<1>11. CASE SetThrottled
    BY <1>11 DEF SetThrottled, Checks, critical
<1>12. CASE Ended \/ UNCHANGED vars
    BY <1>0, <1>12 DEF Ended, vars, critical, decision
<1> QED
    BY <1>1, <1>2, <1>3, <1>4, <1>5, <1>6, <1>7, <1>8, <1>9, <1>10, <1>11, <1>12 DEF Next

(* The inductive invariant holds throughout: gh-ost never hibernates with  *)
(* nobody to wake it, and leaves hibernation throttled (Wake, Hibernate).  *)
THEOREM HibernationInvariant == Spec => []HibernationInv
<1> QED
    BY InitHibernationInv, NextHibernationInv, PTL DEF Spec

(* A check that began in hibernation throttles or follows a new general    *)
(* check: metrics from before the hibernation are not looked at in between *)
(* (shouldThrottle and the waking goroutine).                              *)
THEOREM NoGapHolds == Spec => []NoGapAfterHibernation
<1>1. HibernationInv => NoGapAfterHibernation
    BY DEF HibernationInv, NoGapAfterHibernation
<1> QED
    BY <1>1, HibernationInvariant, PTL

-----------------------------------------------------------------------------
(* What the fold over the answers of the control replicas computes.        *)

Lags == [lag : 0 .. 2, err : BOOLEAN]

(* The answers at some places of the order, merged from the least on.      *)
Merging(g, order, base, n) ==
    g = [s \in SUBSET (1..n) |->
            IF s = {} THEN base
            ELSE Merge(g[s \ {Max(s)}], ReplicaLag(order[Max(s)]))]

LEMMA LargestOf ==
    ASSUME NEW k \in Nat, NEW s \in SUBSET (1..(k + 1)), k + 1 \in s
    PROVE  Max(s) = k + 1
<1>1. \A y \in s : k + 1 >= y
    OBVIOUS
<1>2. \A x \in s : (\A y \in s : x >= y) => x = k + 1
    OBVIOUS
<1> QED
    BY <1>1, <1>2 DEF Max

LEMMA MergingExists ==
    ASSUME NEW order, NEW base, NEW n \in Nat
    PROVE  \E g : Merging(g, order, base, n)
<1> DEFINE T == {k \in 1..(n + 1) : \E g : Merging(g, order, base, k - 1)}
<1>1. 1 \in T
    <2>1. 1..(1 - 1) = {}
        OBVIOUS
    <2> DEFINE g == [s \in SUBSET {} |-> base]
    <2>2. g = [s \in SUBSET {} |->
                  IF s = {} THEN base
                  ELSE Merge(g[s \ {Max(s)}], ReplicaLag(order[Max(s)]))]
        OBVIOUS
    <2>3. Merging(g, order, base, 1 - 1)
        BY <2>1, <2>2 DEF Merging
    <2> QED
        BY <2>3
<1>2. ASSUME NEW i \in 1..(n + 1), i \in T, i + 1 <= n + 1
      PROVE  i + 1 \in T
    <2> DEFINE k == i - 1
    <2>1. k \in Nat /\ k + 1 = i /\ (i + 1) - 1 = k + 1
        BY <1>2
    <2> HIDE DEF k
    <2>2. PICK g : Merging(g, order, base, k)
        BY <1>2 DEF k
    <2> DEFINE h == [s \in SUBSET (1..(k + 1)) |->
                        IF k + 1 \in s
                        THEN Merge(g[s \ {k + 1}], ReplicaLag(order[k + 1]))
                        ELSE g[s]]
    <2>3. ASSUME NEW s \in SUBSET (1..(k + 1))
          PROVE  h[s] = IF s = {} THEN base
                        ELSE Merge(h[s \ {Max(s)}], ReplicaLag(order[Max(s)]))
        <3>1. CASE k + 1 \in s
            <4>1. Max(s) = k + 1 /\ s # {}
                BY <3>1, <2>1, LargestOf
            <4>2. s \ {k + 1} \in SUBSET (1..(k + 1)) /\ k + 1 \notin s \ {k + 1}
                OBVIOUS
            <4>3. h[s \ {k + 1}] = g[s \ {k + 1}]
                BY <4>2
            <4>4. h[s] = Merge(g[s \ {k + 1}], ReplicaLag(order[k + 1]))
                BY <3>1
            <4> HIDE DEF h
            <4> QED
                BY <4>1, <4>3, <4>4
        <3>2. CASE k + 1 \notin s
            <4>0. \A e \in 1..(k + 1) : e = k + 1 \/ e \in 1..k
                BY <2>1
            <4>1. s \in SUBSET (1..k) /\ s \ {Max(s)} \in SUBSET (1..(k + 1))
                BY <3>2, <4>0, Zenon
            <4>2. h[s] = g[s] /\ h[s \ {Max(s)}] = g[s \ {Max(s)}]
                BY <3>2, <4>1
            <4>3. g[s] = IF s = {} THEN base
                         ELSE Merge(g[s \ {Max(s)}], ReplicaLag(order[Max(s)]))
                BY <2>2, <4>1, Zenon DEF Merging
            <4> HIDE DEF h
            <4> QED
                BY <4>2, <4>3
        <3> QED
            BY <3>1, <3>2
    <2>4. h = [s \in SUBSET (1..(k + 1)) |-> h[s]]
        OBVIOUS
    <2> HIDE DEF h
    <2>5. Merging(h, order, base, k + 1)
        BY <2>3, <2>4, Zenon DEF Merging
    <2> QED
        BY <1>2, <2>1, <2>5
<1>3. 1..(n + 1) \subseteq T
    <2> HIDE DEF T
    <2> QED
        BY <1>1, <1>2, InductionUpTo
<1>4. n + 1 \in T /\ (n + 1) - 1 = n
    BY <1>3
<1> QED
    BY <1>4

LEMMA MergingType ==
    ASSUME NEW order, NEW base \in Lags, NEW n \in Nat,
           NEW g, Merging(g, order, base, n)
    PROVE  g[1..n] \in Lags
<1> DEFINE T == {k \in 1..(n + 1) : g[1..(k - 1)] \in Lags}
<1>0. ASSUME NEW s \in SUBSET (1..n)
      PROVE  g[s] = IF s = {} THEN base
                    ELSE Merge(g[s \ {Max(s)}], ReplicaLag(order[Max(s)]))
    BY Zenon DEF Merging
<1>1. 1 \in T
    <2>1. 1..(1 - 1) = {} /\ 1 \in 1..(n + 1)
        OBVIOUS
    <2>2. g[{}] = base
        BY <1>0
    <2> QED
        BY <2>1, <2>2
<1>2. ASSUME NEW i \in 1..(n + 1), i \in T, i + 1 <= n + 1
      PROVE  i + 1 \in T
    <2>1. i \in 1..n /\ (i - 1) + 1 = i /\ (i + 1) - 1 = i /\ i - 1 \in Nat /\ i + 1 \in 1..(n + 1)
        BY <1>2
    <2>2. 1..i \in SUBSET (1..n) /\ i \in 1..i /\ (1..i) \ {i} = 1..(i - 1)
        BY <2>1
    <2>3. Max(1..i) = i
        BY <2>1, <2>2, LargestOf
    <2>4. g[1..i] = Merge(g[1..(i - 1)], ReplicaLag(order[i]))
        BY <1>0, <2>2, <2>3
    <2>5. g[1..(i - 1)] \in Lags
        BY <1>2
    <2>6. ReplicaLag(order[i]) \in Lags
        BY DEF ReplicaLag, Lags
    <2>7. g[1..i] \in Lags
        BY <2>4, <2>5, <2>6 DEF Merge
    <2> QED
        BY <2>1, <2>7
<1>3. 1..(n + 1) \subseteq T
    <2> HIDE DEF T
    <2> QED
        BY <1>1, <1>2, InductionUpTo
<1>4. n + 1 \in T /\ (n + 1) - 1 = n
    BY <1>3
<1> QED
    BY <1>4

(* The merged answer is one of those given, or none.                       *)
LEMMA ControlLagType ==
    ASSUME ThrottleAssumption, NEW order \in Orders
    PROVE  readControlReplicasLag(order) \in Lags
<1>1. CASE order = <<>>
    BY <1>1 DEF readControlReplicasLag, NoLag, Lags
<1>2. CASE order # <<>>
    <2>1. order \in Seq(Replicas)
        <3>1. Cardinality(Replicas) \in Nat
            BY FS_CardinalityType DEF ThrottleAssumption
        <3> QED
            BY <3>1 DEF Orders, SetToSeqs
    <2> DEFINE rest == Tail(order)
               base == ReplicaLag(Head(order))
    <2>2. PICK n \in Nat : DOMAIN rest = 1..n
        BY <1>2, <2>1
    <2>3. base \in Lags
        BY DEF ReplicaLag, Lags
    <2> DEFINE iter == CHOOSE g : Merging(g, rest, base, n)
    <2>4. Merging(iter, rest, base, n)
        BY MergingExists
    <2>5. readControlReplicasLag(order) = iter[1..n]
        BY <1>2, <2>2 DEF readControlReplicasLag, FoldLeft, MapThenFoldSet, Merging
    <2> HIDE DEF iter, base, rest
    <2>6. iter[1..n] \in Lags
        BY <2>3, <2>4, MergingType
    <2> QED
        BY <2>5, <2>6
<1> QED
    BY <1>1, <1>2

-----------------------------------------------------------------------------
(* The parts of TypeOK: what is around gh-ost, and what is its own.        *)
AroundOK ==
    /\ commanded \in BOOLEAN /\ flag \in Flags /\ load \in Loads
    /\ url \in BOOLEAN /\ answer \in Answers
    /\ link \in [Servers -> Links] /\ beat \in Ages /\ row \in [Servers -> Ages]
    /\ changes \in 0 .. MaxChanges

CollectedOK ==
    /\ policy \in Policies /\ hibernating \in BOOLEAN
    /\ waking \in {"no", "sleeping", "leaving"} /\ rechecks \in 0 .. MaxRechecks
    /\ generalCheck \in Results /\ httpStatus \in Answers \cup {"0"}
    /\ currentLag \in Ages /\ control \in {"new", "polling", "ended"}
    /\ lagResult \in Lags /\ collected \subseteq Collectors

DecisionOK ==
    /\ checking \in [stage : 1 .. 6, result : Results, slept : BOOLEAN]
    /\ throttled \in Results
    /\ heartbeat \in [alive : BOOLEAN, failures : 0 .. MaxRetries + 1]
    /\ aborted \in BOOLEAN

LEMMA TypeParts == TypeOK <=> AroundOK /\ CollectedOK /\ DecisionOK
BY DEF TypeOK, AroundOK, CollectedOK, DecisionOK, Lags

(* TypeOK is not inductive: failures are counted up to the one that ends   *)
(* the heartbeat, so while it is alive there is room for another.          *)
HeartbeatInv == heartbeat.alive => heartbeat.failures <= MaxRetries

LEMMA InitTypeOK == ThrottleAssumption /\ Init => TypeOK /\ HeartbeatInv
<1> SUFFICES ASSUME ThrottleAssumption, Init
             PROVE  TypeOK /\ HeartbeatInv
    OBVIOUS
<1>0. MaxChanges \in Nat /\ MaxRetries \in Nat /\ MaxRechecks \in Nat /\ "200" \in Answers
    BY DEF ThrottleAssumption
<1>1. AroundOK
    <2>1. /\ commanded \in BOOLEAN /\ flag \in Flags /\ load \in Loads
          /\ url \in BOOLEAN /\ answer \in Answers /\ beat \in Ages
        BY <1>0, Zenon DEF Init, Flags, Loads, Ages
    <2>2. link \in [Servers -> Links] /\ row \in [Servers -> Ages]
        <3>1. link = [s \in Servers |-> "up"] /\ row = [s \in Servers |-> "young"]
            BY Zenon DEF Init
        <3> QED
            BY <3>1 DEF Links, Ages
    <2>3. changes = 0
        BY Zenon DEF Init
    <2> QED
        BY <1>0, <2>1, <2>2, <2>3 DEF AroundOK
<1>2. CollectedOK
    <2>1. /\ policy \in Policies /\ hibernating \in BOOLEAN
          /\ waking \in {"no", "sleeping", "leaving"}
          /\ httpStatus \in Answers \cup {"0"} /\ currentLag \in Ages
          /\ control \in {"new", "polling", "ended"} /\ collected \subseteq Collectors
        BY Zenon DEF Init, Ages
    <2>2. rechecks = 0 /\ generalCheck = NoThrottle /\ lagResult = NoLag
        BY Zenon DEF Init
    <2>3. NoThrottle \in Results /\ NoLag \in Lags
        BY DEF NoThrottle, Result, Results, NoLag, Lags
    <2> QED
        BY <1>0, <2>1, <2>2, <2>3 DEF CollectedOK
<1>3. DecisionOK /\ HeartbeatInv
    <2>1. /\ heartbeat = [alive |-> TRUE, failures |-> 0]
          /\ checking = [stage |-> 1, result |-> NoThrottle, slept |-> FALSE]
          /\ throttled = NoThrottle /\ aborted \in BOOLEAN
        BY Zenon DEF Init
    <2>2. NoThrottle \in Results
        BY DEF NoThrottle, Result, Results
    <2> QED
        BY <1>0, <2>1, <2>2 DEF DecisionOK, HeartbeatInv
<1> QED
    BY <1>1, <1>2, <1>3, TypeParts

LEMMA NextAroundOK == ThrottleAssumption /\ TypeOK /\ [Next]_vars => AroundOK'
<1> SUFFICES ASSUME ThrottleAssumption, TypeOK, [Next]_vars
             PROVE  AroundOK'
    OBVIOUS
<1>0. AroundOK
    BY TypeParts
<1> DEFINE Kept == UNCHANGED <<around, changes, beat>>
<1>1. Kept => AroundOK'
    BY <1>0 DEF AroundOK, around
<1>2. CASE Environment
    <2>1. ASSUME Changes
          PROVE  changes' \in 0 .. MaxChanges
        BY <1>0, <2>1 DEF Changes, AroundOK, ThrottleAssumption
    <2>2. CASE \E on \in BOOLEAN : Command(on) \/ SetThrottleHTTP(on)
        BY <1>0, <2>1, <2>2 DEF Command, SetThrottleHTTP, AroundOK
    <2>3. CASE \E to \in Flags : FlagFileChanges(to)
        BY <1>0, <2>1, <2>3 DEF FlagFileChanges, AroundOK
    <2>4. CASE \E to \in Loads : LoadChanges(to)
        BY <1>0, <2>1, <2>4 DEF LoadChanges, AroundOK
    <2>5. CASE \E to \in Answers : AnswerChanges(to)
        BY <1>0, <2>1, <2>5 DEF AnswerChanges, AroundOK
    <2>6. CASE \E s \in Servers, to \in Links : LinkChanges(s, to)
        BY <1>0, <2>1, <2>6 DEF LinkChanges, AroundOK
    <2>7. CASE BeatAges
        BY <1>0, <2>7 DEF BeatAges, AroundOK, Ages
    <2>8. CASE \E s \in Servers : RowAges(s)
        BY <1>0, <2>8 DEF RowAges, AroundOK, Ages
    <2> QED
        BY <1>2, <2>2, <2>3, <2>4, <2>5, <2>6, <2>7, <2>8 DEF Environment
<1>3. CASE \E s \in Servers : Replicate(s)
    BY <1>0, <1>3 DEF Replicate, AroundOK, Ages
<1>4. CASE injectHeartbeat \/ injectHeartbeatFails
    <2>1. beat' \in {beat, "young"} /\ UNCHANGED <<around, changes>>
        BY <1>4 DEF injectHeartbeat, injectHeartbeatFails, Writes
    <2> QED
        BY <1>0, <2>1 DEF AroundOK, around, Ages
<1>5. CASE \/ collectReplicationLag \/ startControlReplicasLag \/ collectControlReplicasLag
           \/ collectThrottleHTTPStatus \/ Hibernate \/ collectGeneralThrottleMetrics
           \/ Wake \/ Recheck
    <2>1. Collects
        BY <1>5 DEF collectReplicationLag, startControlReplicasLag, collectControlReplicasLag,
           collectThrottleHTTPStatus, Hibernate, collectGeneralThrottleMetrics, Wake, Recheck
    <2> QED
        BY <1>1, <2>1 DEF Collects, beating
<1>6. CASE shouldThrottle \/ SetThrottled
    BY <1>1, <1>6 DEF shouldThrottle, SetThrottled, Checks, beating
<1>7. CASE Ended \/ UNCHANGED vars
    BY <1>1, <1>7 DEF Ended, vars, beating
<1> QED
    BY <1>2, <1>3, <1>4, <1>5, <1>6, <1>7 DEF Next

LEMMA NextCollectedOK == ThrottleAssumption /\ TypeOK /\ [Next]_vars => CollectedOK'
<1> SUFFICES ASSUME ThrottleAssumption, TypeOK, [Next]_vars
             PROVE  CollectedOK'
    OBVIOUS
<1>0. AroundOK /\ CollectedOK
    BY TypeParts
<1> DEFINE Kept == UNCHANGED <<critical, generalCheck, metrics>>
<1>1. Kept => CollectedOK'
    BY <1>0 DEF CollectedOK, critical, metrics
<1>2. CASE Environment \/ \E s \in Servers : Replicate(s)
    <2>1. OthersRun
        BY <1>2 DEF Environment, Command, SetThrottleHTTP, FlagFileChanges, LoadChanges,
           AnswerChanges, LinkChanges, BeatAges, RowAges, Replicate, Changes
    <2> QED
        BY <1>1, <2>1 DEF OthersRun
<1>3. CASE injectHeartbeat \/ injectHeartbeatFails
    BY <1>1, <1>3 DEF injectHeartbeat, injectHeartbeatFails, Writes
<1>4. CASE collectReplicationLag
    <2>1. Inspected \in Servers
        BY DEF Servers
    <2>2. currentLag' \in Ages
        BY <1>0, <1>4, <2>1 DEF collectReplicationLag, AroundOK, CollectedOK
    <2> QED
        BY <1>0, <1>4, <2>2 DEF collectReplicationLag, Collects, CollectedOK, Collectors
<1>5. CASE startControlReplicasLag
    BY <1>0, <1>5 DEF startControlReplicasLag, Collects, CollectedOK
<1>6. CASE collectControlReplicasLag
    <2>1. lagResult' \in Lags
        BY <1>6, ControlLagType DEF collectControlReplicasLag
    <2> QED
        BY <1>0, <1>6, <2>1 DEF collectControlReplicasLag, Collects, CollectedOK
<1>7. CASE collectThrottleHTTPStatus
    BY <1>0, <1>7 DEF collectThrottleHTTPStatus, Collects, AroundOK, CollectedOK, Collectors
<1>8. CASE Hibernate
    BY <1>0, <1>8 DEF Hibernate, Collects, CollectedOK, Collectors
<1>9. CASE collectGeneralThrottleMetrics
    <2>1. GeneralResult \in Results
        BY DEF GeneralResult, OtherReason, NoThrottle, Result, Results
    <2>2. rechecks' \in 0 .. MaxRechecks
        BY <1>0, <1>9 DEF collectGeneralThrottleMetrics, CollectedOK, ThrottleAssumption
    <2> QED
        BY <1>0, <1>9, <2>1, <2>2 DEF collectGeneralThrottleMetrics, Collects, CollectedOK, Collectors
<1>10. CASE Wake
    <2>1. LeavingHibernation \in Results
        BY DEF LeavingHibernation, Result, Results
    <2> QED
        BY <1>0, <1>10, <2>1 DEF Wake, Collects, metrics, CollectedOK
<1>11. CASE Recheck
    <2>1. rechecks' \in 0 .. MaxRechecks
        BY <1>0, <1>11 DEF Recheck, CollectedOK, ThrottleAssumption
    <2> QED
        BY <1>0, <1>11, <2>1 DEF Recheck, Collects, metrics, CollectedOK
<1>12. CASE shouldThrottle \/ SetThrottled
    BY <1>1, <1>12 DEF shouldThrottle, SetThrottled, Checks
<1>13. CASE Ended \/ UNCHANGED vars
    BY <1>1, <1>13 DEF Ended, vars
<1> QED
    BY <1>2, <1>3, <1>4, <1>5, <1>6, <1>7, <1>8, <1>9, <1>10, <1>11, <1>12, <1>13 DEF Next

LEMMA SourcesType ==
    ASSUME TypeOK, NEW stage \in 1 .. 5
    PROVE  Sources[stage] \in Results
<1>1. OtherReason \in Results /\ NoThrottle \in Results /\ generalCheck \in Results
    BY DEF OtherReason, NoThrottle, Result, Results, TypeOK
<1> QED
    BY <1>1 DEF Sources

LEMMA NextHeartbeatInv ==
    ThrottleAssumption /\ TypeOK /\ HeartbeatInv /\ [Next]_vars =>
        HeartbeatInv' /\ heartbeat' \in [alive : BOOLEAN, failures : 0 .. MaxRetries + 1]
<1> SUFFICES ASSUME ThrottleAssumption, TypeOK, HeartbeatInv, [Next]_vars
             PROVE  HeartbeatInv' /\ heartbeat' \in [alive : BOOLEAN, failures : 0 .. MaxRetries + 1]
    OBVIOUS
<1>0. heartbeat \in [alive : BOOLEAN, failures : 0 .. MaxRetries + 1] /\ MaxRetries \in Nat
    BY DEF TypeOK, ThrottleAssumption
<1>1. CASE injectHeartbeat
    <2>1. heartbeat' = [heartbeat EXCEPT !.failures = 0]
        BY <1>1 DEF injectHeartbeat
    <2> QED
        BY <1>0, <2>1 DEF HeartbeatInv
<1>2. CASE injectHeartbeatFails
    <2>1. heartbeat' = [alive |-> heartbeat.failures < MaxRetries,
                        failures |-> heartbeat.failures + 1]
        BY <1>2 DEF injectHeartbeatFails
    <2>2. heartbeat.failures \in 0 .. MaxRetries
        BY <1>0, <1>2 DEF injectHeartbeatFails, Writes, HeartbeatInv
    <2>3. /\ (heartbeat.failures < MaxRetries) \in BOOLEAN
          /\ heartbeat.failures + 1 \in 0 .. MaxRetries + 1
          /\ heartbeat.failures < MaxRetries => heartbeat.failures + 1 <= MaxRetries
        BY <1>0, <2>2
    <2> QED
        BY <2>1, <2>3 DEF HeartbeatInv
<1>3. UNCHANGED heartbeat =>
          HeartbeatInv' /\ heartbeat' \in [alive : BOOLEAN, failures : 0 .. MaxRetries + 1]
    BY <1>0 DEF HeartbeatInv
<1>4. CASE Environment \/ \E s \in Servers : Replicate(s)
    BY <1>3, <1>4 DEF Environment, Command, SetThrottleHTTP, FlagFileChanges, LoadChanges,
       AnswerChanges, LinkChanges, BeatAges, RowAges, Replicate, Changes, OthersRun
<1>5. CASE \/ collectReplicationLag \/ startControlReplicasLag \/ collectControlReplicasLag
           \/ collectThrottleHTTPStatus \/ Hibernate \/ collectGeneralThrottleMetrics
           \/ Wake \/ Recheck
    <2>1. Collects
        BY <1>5 DEF collectReplicationLag, startControlReplicasLag, collectControlReplicasLag,
           collectThrottleHTTPStatus, Hibernate, collectGeneralThrottleMetrics, Wake, Recheck
    <2> QED
        BY <1>3, <2>1 DEF Collects, beating
<1>6. CASE shouldThrottle \/ SetThrottled
    BY <1>3, <1>6 DEF shouldThrottle, SetThrottled, Checks, beating
<1>7. CASE Ended \/ UNCHANGED vars
    BY <1>3, <1>7 DEF Ended, vars, beating
<1> QED
    BY <1>1, <1>2, <1>4, <1>5, <1>6, <1>7 DEF Next

LEMMA NextDecisionOK ==
    ThrottleAssumption /\ TypeOK /\ HeartbeatInv /\ [Next]_vars => DecisionOK'
<1> SUFFICES ASSUME ThrottleAssumption, TypeOK, HeartbeatInv, [Next]_vars
             PROVE  DecisionOK'
    OBVIOUS
<1>0. AroundOK /\ CollectedOK /\ DecisionOK
    BY TypeParts
<1>1. UNCHANGED <<decision, heartbeat, aborted>> => DecisionOK'
    BY <1>0 DEF DecisionOK, decision
<1>2. CASE Environment \/ \E s \in Servers : Replicate(s)
    <2>1. OthersRun
        BY <1>2 DEF Environment, Command, SetThrottleHTTP, FlagFileChanges, LoadChanges,
           AnswerChanges, LinkChanges, BeatAges, RowAges, Replicate, Changes
    <2> QED
        BY <1>1, <2>1 DEF OthersRun
<1>3. CASE injectHeartbeat \/ injectHeartbeatFails
    <2>1. Writes
        BY <1>3 DEF injectHeartbeat, injectHeartbeatFails
    <2>2. heartbeat' \in [alive : BOOLEAN, failures : 0 .. MaxRetries + 1]
        BY NextHeartbeatInv
    <2> QED
        BY <1>0, <2>1, <2>2 DEF Writes, DecisionOK, decision
<1>4. CASE \/ collectReplicationLag \/ startControlReplicasLag \/ collectControlReplicasLag
           \/ collectThrottleHTTPStatus \/ Hibernate \/ Wake
    <2>1. Collects /\ UNCHANGED <<checking, aborted>>
        BY <1>4 DEF collectReplicationLag, startControlReplicasLag, collectControlReplicasLag,
           collectThrottleHTTPStatus, Hibernate, Wake
    <2> QED
        BY <1>0, <2>1 DEF Collects, DecisionOK, beating
<1>5. CASE collectGeneralThrottleMetrics
    BY <1>0, <1>5 DEF collectGeneralThrottleMetrics, Collects, DecisionOK, beating
<1>6. CASE Recheck
    BY <1>0, <1>6 DEF Recheck, Collects, DecisionOK, beating, criticalLoadIsMet
<1>7. CASE shouldThrottle
    <2>1. checking.stage \in 1 .. 5
        BY <1>7 DEF shouldThrottle, Sources
    <2> DEFINE source == Sources[checking.stage]
    <2>2. source \in Results
        BY <2>1, SourcesType
    <2>3. checking' = [stage |-> IF source.throttle THEN 6 ELSE checking.stage + 1,
                       result |-> source,
                       slept |-> ~source.throttle
                                 /\ IF checking.stage = 1 THEN Asleep ELSE checking.slept]
        BY <1>7 DEF shouldThrottle
    <2> HIDE DEF source
    <2>4. checking.slept \in BOOLEAN /\ Asleep \in BOOLEAN /\ source.throttle \in BOOLEAN
        BY <1>0, <2>2 DEF DecisionOK, Asleep, Results
    <2>5. checking' \in [stage : 1 .. 6, result : Results, slept : BOOLEAN]
        BY <2>1, <2>2, <2>3, <2>4
    <2> QED
        BY <1>0, <1>7, <2>5 DEF shouldThrottle, Checks, DecisionOK, beating
<1>8. CASE SetThrottled
    <2>1. NoThrottle \in Results
        BY DEF NoThrottle, Result, Results
    <2> QED
        BY <1>0, <1>8, <2>1 DEF SetThrottled, Checks, DecisionOK, beating
<1>9. CASE Ended \/ UNCHANGED vars
    BY <1>1, <1>9 DEF Ended, vars, beating
<1> QED
    BY <1>2, <1>3, <1>4, <1>5, <1>6, <1>7, <1>8, <1>9 DEF Next

(* The types hold for any number of replicas, retries and changes; in      *)
(* particular the heartbeat's failures in a row do not outgrow the one     *)
(* that ends it, and the merged lag of the control replicas is an answer   *)
(* (InitiateHeartbeat, readControlReplicasLag).                            *)
THEOREM TypeCorrect == Spec => []TypeOK
<1>1. TypeOK /\ HeartbeatInv /\ [Next]_vars => (TypeOK /\ HeartbeatInv)'
    <2>1. TypeOK' <=> AroundOK' /\ CollectedOK' /\ DecisionOK'
        BY DEF TypeOK, AroundOK, CollectedOK, DecisionOK, Lags
    <2> QED
        BY <2>1, ThrottleAssumption, NextAroundOK, NextCollectedOK, NextDecisionOK, NextHeartbeatInv
<1>2. Init => TypeOK /\ HeartbeatInv
    BY ThrottleAssumption, InitTypeOK
<1> QED
    BY <1>1, <1>2, PTL DEF Spec

=============================================================================

-------------------------- MODULE InspectionProofs ---------------------------
(***************************************************************************)
(* Proofs about Inspection for any number of servers, in any topology, and *)
(* any words for the columns.                                              *)
(***************************************************************************)
EXTENDS Inspection, FiniteSetTheorems, SequenceTheorems, TLAPS

(* Migrate's places, from the one where a check was passed.                *)
BeforeWalk == {"statement", "grants", "binlogs", "format", "restart", "startSlave", "table"}
FromGhost  == {"compare", "accepted"}
FromLog    == {"createGhost"} \cup FromGhost
FromRoles  == {"logSlaveUpdates"} \cup FromLog
FromMaster == {"master", "roles"} \cup FromRoles
FromTable  == {"table"} \cup FromMaster
FromFormat == {"restart", "startSlave"} \cup FromTable

-----------------------------------------------------------------------------
(* The servers.                                                            *)

(* What is given about them, and what is true of every address.            *)
GivenInv ==
    /\ options.host \in {Inspected, Alias} /\ options.assumeMaster \in Server \cup {Nowhere}
    /\ master \in [Server -> Server \cup {Nowhere}]

PlaceType == pc \in FromFormat \cup {"statement", "grants", "binlogs", "format"} \cup Ended

BinlogType ==
    /\ binlog \in [logBin : BOOLEAN, format : {"ROW", "STATEMENT"}, thread : {"ROW", "STATEMENT"},
                   fullImage : BOOLEAN, logSlaveUpdates : BOOLEAN]
    /\ replicates \in {"both", "sql", "none"}

(* An address and the server it implies are of the same server.            *)
Sane(c) == c \in Config /\ c.ImpliedKey = ServerAt(c.Key)

WalkType == Sane(config) /\ Sane(applier) /\ visited \subseteq Server

(* The binary log, as the steps leave it.                                  *)
BinlogInv ==
    /\ pc \in {"format"} \cup FromFormat => binlog.logBin /\ binlog.fullImage
    /\ pc \in FromFormat => binlog.format = "ROW"
    /\ pc = "startSlave" => replicates = "none"
    /\ pc \in FromTable /\ replicates = "both" /\ ~options.assumeRBR => binlog.thread = "ROW"
    /\ pc \in FromLog =>
          binlog.logSlaveUpdates \/ options.tungsten \/ (~OnReplica /\ InspectorIsAlsoApplier)

(* The walk from server to master: all the servers visited are upstream of *)
(* where it began, and where it is, is upstream of them.                   *)
Here == ServerAt(config.Key)

WalkInv ==
    /\ pc \in BeforeWalk => config = InspectorConfig /\ visited = {}
    /\ Here \in {Inspected} \cup Upstream(Inspected)
    /\ \A v \in visited : Here = v \/ Here \in Upstream(v)

(* Where it ended.                                                         *)
IsTop(s) == master[s] = Nowhere \/ (options.allowMasterMaster /\ s \in Upstream(s))

RolesInv == options.assumeMaster = Nowhere =>
    /\ pc = "roles" => applier = config /\ IsTop(Here)
    /\ pc \in FromRoles =>
          LET s == ServerAt(applier.Key)
          IN  IF OnReplica THEN s = Inspected /\ master[s] # Nowhere
              ELSE /\ s \in {Inspected} \cup Upstream(Inspected)
                   /\ IsTop(s)
                   /\ s = Inspected => options.allowOnMaster

-----------------------------------------------------------------------------
(* Every step keeps it.                                                    *)

(* What is given stays.                                                    *)
LEMMA GivenKept ==
    ASSUME GivenInv, Next
    PROVE  GivenInv'
<1>1. ASSUME UNCHANGED <<options, master>> PROVE GivenInv'
    BY <1>1 DEF GivenInv
<1>2. ASSUME \/ validateStatement \/ validateGrants \/ validateBinlogs
             \/ applyBinlogFormat \/ SkipRestart \/ StopSlave
      PROVE  GivenInv'
    BY <1>2, <1>1
    DEF validateStatement, given, serverVars, walkVars, tableVars, validateGrants,
        validateBinlogs, applyBinlogFormat, SkipRestart, StopSlave
<1>3. ASSUME \/ StartSlave \/ StartSlaveFails \/ ValidateOriginalTable
             \/ AssumeMasterHostname \/ GetMasterConnectionConfigSafe
             \/ ValidateRoles
      PROVE  GivenInv'
    BY <1>3, <1>1
    DEF StartSlave, given, walkVars, tableVars, StartSlaveFails, serverVars,
        ValidateOriginalTable, AssumeMasterHostname, GetMasterConnectionConfigSafe,
        ValidateRoles
<1>4. ASSUME \/ validateLogSlaveUpdates \/ GhostTableMigrated \/ NoSharedUniqueKey
             \/ inspectOriginalAndGhostTables
      PROVE  GivenInv'
    BY <1>4, <1>1
    DEF validateLogSlaveUpdates, given, serverVars, walkVars, tableVars,
        GhostTableMigrated, NoSharedUniqueKey, inspectOriginalAndGhostTables
<1> QED
    BY <1>1, <1>2, <1>3, <1>4 DEF Next

(* Migrate goes to places of its own.                                      *)
LEMMA PlaceTypeKept ==
    ASSUME PlaceType, Next
    PROVE  PlaceType'
<1>1. ASSUME UNCHANGED <<pc>> PROVE PlaceType'
    BY <1>1 DEF PlaceType
<1>2. ASSUME validateStatement PROVE PlaceType'
    BY <1>2
    DEF PlaceType, FromFormat, FromTable, FromMaster, FromRoles, FromLog, FromGhost,
        Ended, validateStatement, GoOn, given, serverVars, walkVars, tableVars
<1>3. ASSUME validateGrants PROVE PlaceType'
    BY <1>3
    DEF PlaceType, FromFormat, FromTable, FromMaster, FromRoles, FromLog, FromGhost,
        Ended, validateGrants, GoOn, given, serverVars, walkVars, tableVars
<1>4. ASSUME validateBinlogs PROVE PlaceType'
    BY <1>4
    DEF PlaceType, FromFormat, FromTable, FromMaster, FromRoles, FromLog, FromGhost,
        Ended, validateBinlogs, GoOn, RequiresBinlogFormatChange, given, serverVars,
        walkVars, tableVars
<1>5. ASSUME applyBinlogFormat PROVE PlaceType'
    BY <1>5
    DEF PlaceType, FromFormat, FromTable, FromMaster, FromRoles, FromLog, FromGhost,
        Ended, applyBinlogFormat, GoOn, RequiresBinlogFormatChange, given, walkVars,
        tableVars
<1>6. ASSUME SkipRestart PROVE PlaceType'
    BY <1>6
    DEF PlaceType, FromFormat, FromTable, FromMaster, FromRoles, FromLog, FromGhost,
        Ended, SkipRestart, given, serverVars, walkVars, tableVars
<1>7. ASSUME StopSlave PROVE PlaceType'
    BY <1>7
    DEF PlaceType, FromFormat, FromTable, FromMaster, FromRoles, FromLog, FromGhost,
        Ended, StopSlave, GoOn, given, walkVars, tableVars
<1>8. ASSUME StartSlave PROVE PlaceType'
    BY <1>8
    DEF PlaceType, FromFormat, FromTable, FromMaster, FromRoles, FromLog, FromGhost,
        Ended, StartSlave, given, walkVars, tableVars
<1>9. ASSUME StartSlaveFails PROVE PlaceType'
    BY <1>9
    DEF PlaceType, FromFormat, FromTable, FromMaster, FromRoles, FromLog, FromGhost,
        Ended, StartSlaveFails, given, serverVars, walkVars, tableVars
<1>10. ASSUME ValidateOriginalTable PROVE PlaceType'
    BY <1>10
    DEF PlaceType, FromFormat, FromTable, FromMaster, FromRoles, FromLog, FromGhost,
        Ended, ValidateOriginalTable, GoOn, given, serverVars, walkVars, tableVars
<1>11. ASSUME AssumeMasterHostname PROVE PlaceType'
    BY <1>11
    DEF PlaceType, FromFormat, FromTable, FromMaster, FromRoles, FromLog, FromGhost,
        Ended, AssumeMasterHostname, given, serverVars, tableVars
<1>12. ASSUME GetMasterConnectionConfigSafe PROVE PlaceType'
    BY <1>12
    DEF PlaceType, FromFormat, FromTable, FromMaster, FromRoles, FromLog, FromGhost,
        Ended, GetMasterConnectionConfigSafe, given, serverVars, tableVars, walkVars
<1>13. ASSUME ValidateRoles PROVE PlaceType'
    BY <1>13
    DEF PlaceType, FromFormat, FromTable, FromMaster, FromRoles, FromLog, FromGhost,
        Ended, ValidateRoles, GoOn, given, serverVars, tableVars
<1>14. ASSUME validateLogSlaveUpdates PROVE PlaceType'
    BY <1>14
    DEF PlaceType, FromFormat, FromTable, FromMaster, FromRoles, FromLog, FromGhost,
        Ended, validateLogSlaveUpdates, GoOn, given, serverVars, walkVars, tableVars
<1>15. ASSUME GhostTableMigrated PROVE PlaceType'
    BY <1>15
    DEF PlaceType, FromFormat, FromTable, FromMaster, FromRoles, FromLog, FromGhost,
        Ended, GhostTableMigrated, given, serverVars, walkVars
<1>16. ASSUME NoSharedUniqueKey PROVE PlaceType'
    BY <1>16
    DEF PlaceType, FromFormat, FromTable, FromMaster, FromRoles, FromLog, FromGhost,
        Ended, NoSharedUniqueKey, given, serverVars, walkVars, tableVars
<1>17. ASSUME inspectOriginalAndGhostTables PROVE PlaceType'
    BY <1>17
    DEF PlaceType, FromFormat, FromTable, FromMaster, FromRoles, FromLog, FromGhost,
        Ended, CheckConversions, inspectOriginalAndGhostTables, given, serverVars,
        walkVars
<1> QED
    BY <1>1, <1>2, <1>3, <1>4, <1>5, <1>6, <1>7, <1>8, <1>9, <1>10, <1>11, <1>12, <1>13,
       <1>14, <1>15, <1>16, <1>17
    DEF Next

(* The settings and the replication.                                       *)
LEMMA BinlogTypeKept ==
    ASSUME BinlogType, Next
    PROVE  BinlogType'
<1>1. ASSUME UNCHANGED <<binlog, replicates>> PROVE BinlogType'
    BY <1>1 DEF BinlogType
<1>2. ASSUME \/ validateStatement \/ validateGrants \/ validateBinlogs
             \/ SkipRestart \/ StartSlaveFails \/ ValidateOriginalTable
      PROVE  BinlogType'
    BY <1>2, <1>1
    DEF validateStatement, given, serverVars, walkVars, tableVars, validateGrants,
        validateBinlogs, SkipRestart, StartSlaveFails, ValidateOriginalTable
<1>3. ASSUME \/ AssumeMasterHostname \/ GetMasterConnectionConfigSafe
             \/ ValidateRoles \/ validateLogSlaveUpdates \/ GhostTableMigrated
             \/ NoSharedUniqueKey
      PROVE  BinlogType'
    BY <1>3, <1>1
    DEF AssumeMasterHostname, given, serverVars, tableVars,
        GetMasterConnectionConfigSafe, walkVars, ValidateRoles, validateLogSlaveUpdates,
        GhostTableMigrated, NoSharedUniqueKey
<1>4. ASSUME inspectOriginalAndGhostTables
      PROVE  BinlogType'
    BY <1>4, <1>1 DEF inspectOriginalAndGhostTables, given, serverVars, walkVars
<1>5. ASSUME applyBinlogFormat PROVE BinlogType'
    BY <1>5
    DEF BinlogType, applyBinlogFormat, GoOn, RequiresBinlogFormatChange, given,
        walkVars, tableVars
<1>6. ASSUME StopSlave PROVE BinlogType'
    BY <1>6 DEF BinlogType, StopSlave, GoOn, given, walkVars, tableVars
<1>7. ASSUME StartSlave PROVE BinlogType'
    BY <1>7 DEF BinlogType, StartSlave, given, walkVars, tableVars
<1> QED
    BY <1>1, <1>2, <1>3, <1>4, <1>5, <1>6, <1>7 DEF Next

(* A server's address and its server.                                      *)
LEMMA AtServer ==
    ASSUME NEW s \in Server
    PROVE  Sane(At(s)) /\ ServerAt(At(s).Key) = s
BY ServerAssumption DEF Sane, At, Config, Address, ServerAt

LEMMA AtInspector ==
    ASSUME GivenInv
    PROVE  Sane(InspectorConfig) /\ ServerAt(InspectorConfig.Key) = Inspected
BY ServerAssumption DEF GivenInv, Sane, InspectorConfig, Config, Address, ServerAt

(* The address of a server that is not the inspected one is another.       *)
LEMMA SameServer ==
    ASSUME GivenInv, NEW c, Sane(c)
    PROVE  Equals(InspectorConfig, c) <=> ServerAt(c.Key) = Inspected
BY ServerAssumption DEF GivenInv, Sane, InspectorConfig, Config, Address, ServerAt, Equals

(* Upstream of a server is its master, the master of what is upstream, and *)
(* what is upstream of its master; nothing is upstream of one without.     *)
LEMMA MasterIsUpstream ==
    ASSUME GivenInv, NEW s \in Server, master[s] # Nowhere
    PROVE  master[s] \in Upstream(s)
BY DEF GivenInv, Upstream

LEMMA UpstreamGoesOn ==
    ASSUME GivenInv, NEW s \in Server, NEW t \in Upstream(s), master[t] # Nowhere
    PROVE  master[t] \in Upstream(s)
<1> SUFFICES ASSUME NEW C \in SUBSET Server, \A u \in C \cup {s} : master[u] \in C \cup {Nowhere}
             PROVE  master[t] \in C
    BY DEF GivenInv, Upstream
<1>1. t \in C
    BY DEF Upstream
<1> QED
    BY <1>1

LEMMA UpstreamOfMaster ==
    ASSUME GivenInv, NEW s \in Server, master[s] # Nowhere, NEW t \in Upstream(master[s])
    PROVE  t \in Upstream(s)
<1> SUFFICES ASSUME NEW C \in SUBSET Server, \A u \in C \cup {s} : master[u] \in C \cup {Nowhere}
             PROVE  t \in C
    BY DEF Upstream
<1>1. \A u \in C \cup {master[s]} : master[u] \in C \cup {Nowhere}
    OBVIOUS
<1> QED
    BY <1>1 DEF Upstream

LEMMA NothingIsUpstream ==
    ASSUME GivenInv, NEW s \in Server, master[s] = Nowhere
    PROVE  Upstream(s) = {}
<1>1. {} \in SUBSET Server /\ \A u \in {} \cup {s} : master[u] \in {} \cup {Nowhere}
    OBVIOUS
<1> QED
    BY <1>1 DEF Upstream

(* Upstream is of the topology, which stays.                               *)
LEMMA UpstreamStays ==
    ASSUME UNCHANGED master, NEW s
    PROVE  Upstream(s)' = Upstream(s)
BY DEF Upstream

(* Every check leaves the settings that it lets pass.                      *)
LEMMA BinlogKept ==
    ASSUME GivenInv, BinlogType, WalkType, BinlogInv, Next
    PROVE  BinlogInv'
<1>1. ASSUME UNCHANGED <<pc, binlog, replicates, options, applier>> PROVE BinlogInv'
    BY <1>1 DEF BinlogInv, OnReplica, InspectorIsAlsoApplier, InspectorConfig
<1>2. ASSUME validateStatement PROVE BinlogInv'
    BY <1>2
    DEF BinlogInv, OnReplica, InspectorIsAlsoApplier, InspectorConfig, FromFormat,
        FromTable, FromMaster, FromRoles, FromLog, FromGhost, BinlogType,
        validateStatement, GoOn, given, serverVars, walkVars, tableVars
<1>3. ASSUME validateGrants PROVE BinlogInv'
    BY <1>3
    DEF BinlogInv, OnReplica, InspectorIsAlsoApplier, InspectorConfig, FromFormat,
        FromTable, FromMaster, FromRoles, FromLog, FromGhost, BinlogType,
        validateGrants, GoOn, given, serverVars, walkVars, tableVars
<1>4. ASSUME validateBinlogs PROVE BinlogInv'
    BY <1>4
    DEF BinlogInv, OnReplica, InspectorIsAlsoApplier, InspectorConfig, FromFormat,
        FromTable, FromMaster, FromRoles, FromLog, FromGhost, BinlogType,
        validateBinlogs, GoOn, RequiresBinlogFormatChange, given, serverVars, walkVars,
        tableVars
<1>5. ASSUME applyBinlogFormat PROVE BinlogInv'
    BY <1>5
    DEF BinlogInv, OnReplica, InspectorIsAlsoApplier, InspectorConfig, FromFormat,
        FromTable, FromMaster, FromRoles, FromLog, FromGhost, BinlogType,
        applyBinlogFormat, GoOn, RequiresBinlogFormatChange, given, walkVars, tableVars
<1>6. ASSUME SkipRestart PROVE BinlogInv'
    BY <1>6
    DEF BinlogInv, OnReplica, InspectorIsAlsoApplier, InspectorConfig, FromFormat,
        FromTable, FromMaster, FromRoles, FromLog, FromGhost, BinlogType, SkipRestart,
        given, serverVars, walkVars, tableVars
<1>7. ASSUME StopSlave PROVE BinlogInv'
    BY <1>7
    DEF BinlogInv, OnReplica, InspectorIsAlsoApplier, InspectorConfig, FromFormat,
        FromTable, FromMaster, FromRoles, FromLog, FromGhost, BinlogType, StopSlave,
        GoOn, given, walkVars, tableVars
<1>8. ASSUME StartSlave PROVE BinlogInv'
    BY <1>8
    DEF BinlogInv, OnReplica, InspectorIsAlsoApplier, InspectorConfig, FromFormat,
        FromTable, FromMaster, FromRoles, FromLog, FromGhost, BinlogType, StartSlave,
        given, walkVars, tableVars
<1>9. ASSUME StartSlaveFails PROVE BinlogInv'
    BY <1>9
    DEF BinlogInv, OnReplica, InspectorIsAlsoApplier, InspectorConfig, FromFormat,
        FromTable, FromMaster, FromRoles, FromLog, FromGhost, BinlogType,
        StartSlaveFails, given, serverVars, walkVars, tableVars
<1>10. ASSUME ValidateOriginalTable PROVE BinlogInv'
    BY <1>10
    DEF BinlogInv, OnReplica, InspectorIsAlsoApplier, InspectorConfig, FromFormat,
        FromTable, FromMaster, FromRoles, FromLog, FromGhost, BinlogType,
        ValidateOriginalTable, GoOn, given, serverVars, walkVars, tableVars
<1>11. ASSUME AssumeMasterHostname PROVE BinlogInv'
    BY <1>11
    DEF BinlogInv, OnReplica, InspectorIsAlsoApplier, InspectorConfig, FromFormat,
        FromTable, FromMaster, FromRoles, FromLog, FromGhost, BinlogType,
        AssumeMasterHostname, given, serverVars, tableVars
<1>12. ASSUME GetMasterConnectionConfigSafe PROVE BinlogInv'
    BY <1>12
    DEF BinlogInv, OnReplica, InspectorIsAlsoApplier, InspectorConfig, FromFormat,
        FromTable, FromMaster, FromRoles, FromLog, FromGhost, BinlogType,
        GetMasterConnectionConfigSafe, given, serverVars, tableVars, walkVars
<1>13. ASSUME ValidateRoles PROVE BinlogInv'
    BY <1>13
    DEF BinlogInv, OnReplica, InspectorIsAlsoApplier, InspectorConfig, FromFormat,
        FromTable, FromMaster, FromRoles, FromLog, FromGhost, BinlogType, ValidateRoles,
        GoOn, given, serverVars, tableVars
<1>14. ASSUME validateLogSlaveUpdates PROVE BinlogInv'
    BY <1>14
    DEF BinlogInv, OnReplica, InspectorIsAlsoApplier, InspectorConfig, FromFormat,
        FromTable, FromMaster, FromRoles, FromLog, FromGhost, BinlogType,
        validateLogSlaveUpdates, GoOn, given, serverVars, walkVars, tableVars
<1>15. ASSUME GhostTableMigrated PROVE BinlogInv'
    BY <1>15
    DEF BinlogInv, OnReplica, InspectorIsAlsoApplier, InspectorConfig, FromFormat,
        FromTable, FromMaster, FromRoles, FromLog, FromGhost, BinlogType,
        GhostTableMigrated, given, serverVars, walkVars
<1>16. ASSUME NoSharedUniqueKey PROVE BinlogInv'
    BY <1>16
    DEF BinlogInv, OnReplica, InspectorIsAlsoApplier, InspectorConfig, FromFormat,
        FromTable, FromMaster, FromRoles, FromLog, FromGhost, BinlogType,
        NoSharedUniqueKey, given, serverVars, walkVars, tableVars
<1>17. ASSUME inspectOriginalAndGhostTables PROVE BinlogInv'
    BY <1>17
    DEF BinlogInv, OnReplica, InspectorIsAlsoApplier, InspectorConfig, FromFormat,
        FromTable, FromMaster, FromRoles, FromLog, FromGhost, BinlogType,
        CheckConversions, inspectOriginalAndGhostTables, given, serverVars, walkVars
<1> QED
    BY <1>1, <1>2, <1>3, <1>4, <1>5, <1>6, <1>7, <1>8, <1>9, <1>10, <1>11, <1>12, <1>13,
       <1>14, <1>15, <1>16, <1>17
    DEF Next

LEMMA HereIsServer ==
    ASSUME WalkType
    PROVE  Here \in Server
BY ServerAssumption DEF WalkType, Sane, Config, Here

(* The walk goes from server to server.                                    *)
LEMMA WalkTypeKept ==
    ASSUME GivenInv, WalkType, Next
    PROVE  WalkType'
<1>1. ASSUME UNCHANGED <<config, applier, visited>> PROVE WalkType'
    BY <1>1 DEF WalkType
<1>2. ASSUME \/ validateStatement \/ validateGrants \/ validateBinlogs
             \/ applyBinlogFormat \/ SkipRestart \/ StopSlave
      PROVE  WalkType'
    BY <1>2, <1>1
    DEF validateStatement, given, serverVars, walkVars, tableVars, validateGrants,
        validateBinlogs, applyBinlogFormat, SkipRestart, StopSlave
<1>3. ASSUME \/ StartSlave \/ StartSlaveFails \/ ValidateOriginalTable
             \/ validateLogSlaveUpdates \/ GhostTableMigrated \/ NoSharedUniqueKey
      PROVE  WalkType'
    BY <1>3, <1>1
    DEF StartSlave, given, walkVars, tableVars, StartSlaveFails, serverVars,
        ValidateOriginalTable, validateLogSlaveUpdates, GhostTableMigrated,
        NoSharedUniqueKey
<1>4. ASSUME inspectOriginalAndGhostTables
      PROVE  WalkType'
    BY <1>4, <1>1 DEF inspectOriginalAndGhostTables, given, serverVars, walkVars
<1>5. ASSUME AssumeMasterHostname PROVE WalkType'
  <2>1. options.assumeMaster \in Server /\ applier' = At(options.assumeMaster)
        /\ UNCHANGED <<config, visited>>
    BY <1>5 DEF AssumeMasterHostname, GivenInv
  <2>2. Sane(At(options.assumeMaster))
    BY <2>1, AtServer
  <2> QED
    BY <2>1, <2>2 DEF WalkType
<1>6. ASSUME GetMasterConnectionConfigSafe PROVE WalkType'
  <2>1. CASE UNCHANGED walkVars
    BY <2>1 DEF WalkType, walkVars
  <2>2. CASE applier' = config /\ UNCHANGED <<config, visited>>
    BY <2>2 DEF WalkType
  <2>3. CASE /\ MasterKey # Nowhere /\ config' = At(MasterKey)
             /\ visited' = visited \cup {MasterKey} /\ UNCHANGED applier
    <3>1. MasterKey \in Server
      BY <2>3, HereIsServer DEF GivenInv, MasterKey, Here
    <3>2. Sane(At(MasterKey))
      BY <3>1, AtServer
    <3> QED
      BY <2>3, <3>1, <3>2 DEF WalkType
  <2> QED
    BY <1>6, <2>1, <2>2, <2>3 DEF GetMasterConnectionConfigSafe
<1>7. ASSUME ValidateRoles PROVE WalkType'
    BY <1>7, AtInspector DEF WalkType, ValidateRoles, GoOn, given, serverVars, tableVars
<1> QED
    BY <1>1, <1>2, <1>3, <1>4, <1>5, <1>6, <1>7 DEF Next

(* Wherever the walk goes, it stays upstream of where it was.              *)
LEMMA WalkKept ==
    ASSUME GivenInv, WalkType, WalkInv, Next
    PROVE  WalkInv'
<1>1. ASSUME UNCHANGED <<pc, config, visited, options, master>> PROVE WalkInv'
    BY <1>1, UpstreamStays DEF WalkInv, Here, InspectorConfig
<1>2. ASSUME validateStatement PROVE WalkInv'
  <2>1. UNCHANGED <<options, master, config, visited>> /\ (pc' \in BeforeWalk => pc \in BeforeWalk)
    BY <1>2
    DEF validateStatement, GoOn, given, serverVars, walkVars, tableVars, BeforeWalk,
        Ended
  <2> QED
    BY <2>1, UpstreamStays DEF WalkInv, Here, InspectorConfig
<1>3. ASSUME validateGrants PROVE WalkInv'
  <2>1. UNCHANGED <<options, master, config, visited>> /\ (pc' \in BeforeWalk => pc \in BeforeWalk)
    BY <1>3
    DEF validateGrants, GoOn, given, serverVars, walkVars, tableVars, BeforeWalk, Ended
  <2> QED
    BY <2>1, UpstreamStays DEF WalkInv, Here, InspectorConfig
<1>4. ASSUME validateBinlogs PROVE WalkInv'
  <2>1. UNCHANGED <<options, master, config, visited>> /\ (pc' \in BeforeWalk => pc \in BeforeWalk)
    BY <1>4
    DEF validateBinlogs, GoOn, RequiresBinlogFormatChange, given, serverVars, walkVars,
        tableVars, BeforeWalk, Ended
  <2> QED
    BY <2>1, UpstreamStays DEF WalkInv, Here, InspectorConfig
<1>5. ASSUME applyBinlogFormat PROVE WalkInv'
  <2>1. UNCHANGED <<options, master, config, visited>> /\ (pc' \in BeforeWalk => pc \in BeforeWalk)
    BY <1>5
    DEF applyBinlogFormat, GoOn, RequiresBinlogFormatChange, given, walkVars, tableVars,
        BeforeWalk, Ended
  <2> QED
    BY <2>1, UpstreamStays DEF WalkInv, Here, InspectorConfig
<1>6. ASSUME SkipRestart PROVE WalkInv'
  <2>1. UNCHANGED <<options, master, config, visited>> /\ (pc' \in BeforeWalk => pc \in BeforeWalk)
    BY <1>6 DEF SkipRestart, given, serverVars, walkVars, tableVars, BeforeWalk, Ended
  <2> QED
    BY <2>1, UpstreamStays DEF WalkInv, Here, InspectorConfig
<1>7. ASSUME StopSlave PROVE WalkInv'
  <2>1. UNCHANGED <<options, master, config, visited>> /\ (pc' \in BeforeWalk => pc \in BeforeWalk)
    BY <1>7 DEF StopSlave, GoOn, given, walkVars, tableVars, BeforeWalk, Ended
  <2> QED
    BY <2>1, UpstreamStays DEF WalkInv, Here, InspectorConfig
<1>8. ASSUME StartSlave PROVE WalkInv'
  <2>1. UNCHANGED <<options, master, config, visited>> /\ (pc' \in BeforeWalk => pc \in BeforeWalk)
    BY <1>8 DEF StartSlave, given, walkVars, tableVars, BeforeWalk, Ended
  <2> QED
    BY <2>1, UpstreamStays DEF WalkInv, Here, InspectorConfig
<1>9. ASSUME StartSlaveFails PROVE WalkInv'
  <2>1. UNCHANGED <<options, master, config, visited>> /\ (pc' \in BeforeWalk => pc \in BeforeWalk)
    BY <1>9
    DEF StartSlaveFails, given, serverVars, walkVars, tableVars, BeforeWalk, Ended
  <2> QED
    BY <2>1, UpstreamStays DEF WalkInv, Here, InspectorConfig
<1>10. ASSUME ValidateOriginalTable PROVE WalkInv'
  <2>1. UNCHANGED <<options, master, config, visited>> /\ (pc' \in BeforeWalk => pc \in BeforeWalk)
    BY <1>10
    DEF ValidateOriginalTable, GoOn, given, serverVars, walkVars, tableVars, BeforeWalk,
        Ended
  <2> QED
    BY <2>1, UpstreamStays DEF WalkInv, Here, InspectorConfig
<1>11. ASSUME AssumeMasterHostname PROVE WalkInv'
  <2>1. UNCHANGED <<options, master, config, visited>> /\ (pc' \in BeforeWalk => pc \in BeforeWalk)
    BY <1>11
    DEF AssumeMasterHostname, given, serverVars, tableVars, walkVars, BeforeWalk, Ended
  <2> QED
    BY <2>1, UpstreamStays DEF WalkInv, Here, InspectorConfig
<1>12. ASSUME GetMasterConnectionConfigSafe PROVE WalkInv'
  <2>1. MasterKey = master[Here] /\ Here \in Server
    BY HereIsServer DEF MasterKey, Here
  <2>2. pc \notin BeforeWalk /\ pc' \notin BeforeWalk /\ UNCHANGED <<options, master>>
    BY <1>12 DEF GetMasterConnectionConfigSafe, BeforeWalk, given
  <2>3. CASE UNCHANGED <<config, visited>>
    BY <2>2, <2>3, UpstreamStays DEF WalkInv, Here
  <2>4. CASE /\ MasterKey # Nowhere /\ config' = At(MasterKey)
             /\ visited' = visited \cup {MasterKey}
    <3>1. MasterKey \in Server /\ Here' = MasterKey
      <4>1. MasterKey \in Server
        BY <2>1, <2>4 DEF GivenInv
      <4>2. ServerAt(At(MasterKey).Key) = MasterKey
        BY <4>1, AtServer
      <4> QED
        BY <2>4, <4>1, <4>2 DEF Here, ServerAt
    <3>2. MasterKey \in Upstream(Inspected)
      <4>1. CASE Here = Inspected
        BY <2>1, <2>4, <4>1, MasterIsUpstream
      <4>2. CASE Here \in Upstream(Inspected)
        BY <2>1, <2>4, <4>2, UpstreamGoesOn, ServerAssumption
      <4> QED
        BY <4>1, <4>2 DEF WalkInv
    <3>3. ASSUME NEW v \in visited PROVE MasterKey = v \/ MasterKey \in Upstream(v)
      <4>1. v \in Server /\ (Here = v \/ Here \in Upstream(v))
        BY DEF WalkInv, WalkType
      <4>2. CASE Here = v
        BY <2>1, <2>4, <4>1, <4>2, MasterIsUpstream
      <4>3. CASE Here \in Upstream(v)
        BY <2>1, <2>4, <4>1, <4>3, UpstreamGoesOn
      <4> QED
        BY <4>1, <4>2, <4>3
    <3>4. \A s \in Server : Upstream(s)' = Upstream(s)
      BY <2>2, UpstreamStays
    <3>5. \A v \in visited' : v \in Server /\ (MasterKey = v \/ MasterKey \in Upstream(v))
      BY <2>4, <3>1, <3>3 DEF WalkType
    <3>6. \A v \in visited' : Here' = v \/ Here' \in Upstream(v)'
      BY <3>1, <3>4, <3>5
    <3>7. Here' \in {Inspected} \cup Upstream(Inspected)'
      BY <3>1, <3>2, <3>4, ServerAssumption
    <3> QED
      BY <2>2, <3>6, <3>7 DEF WalkInv
  <2> QED
    BY <1>12, <2>3, <2>4 DEF GetMasterConnectionConfigSafe, walkVars
<1>13. ASSUME ValidateRoles PROVE WalkInv'
  <2>1. UNCHANGED <<options, master, config, visited>> /\ (pc' \in BeforeWalk => pc \in BeforeWalk)
    BY <1>13
    DEF ValidateRoles, GoOn, given, serverVars, tableVars, walkVars, BeforeWalk, Ended
  <2> QED
    BY <2>1, UpstreamStays DEF WalkInv, Here, InspectorConfig
<1>14. ASSUME validateLogSlaveUpdates PROVE WalkInv'
  <2>1. UNCHANGED <<options, master, config, visited>> /\ (pc' \in BeforeWalk => pc \in BeforeWalk)
    BY <1>14
    DEF validateLogSlaveUpdates, GoOn, given, serverVars, walkVars, tableVars,
        BeforeWalk, Ended
  <2> QED
    BY <2>1, UpstreamStays DEF WalkInv, Here, InspectorConfig
<1>15. ASSUME GhostTableMigrated PROVE WalkInv'
  <2>1. UNCHANGED <<options, master, config, visited>> /\ (pc' \in BeforeWalk => pc \in BeforeWalk)
    BY <1>15 DEF GhostTableMigrated, given, serverVars, walkVars, BeforeWalk, Ended
  <2> QED
    BY <2>1, UpstreamStays DEF WalkInv, Here, InspectorConfig
<1>16. ASSUME NoSharedUniqueKey PROVE WalkInv'
  <2>1. UNCHANGED <<options, master, config, visited>> /\ (pc' \in BeforeWalk => pc \in BeforeWalk)
    BY <1>16
    DEF NoSharedUniqueKey, given, serverVars, walkVars, tableVars, BeforeWalk, Ended
  <2> QED
    BY <2>1, UpstreamStays DEF WalkInv, Here, InspectorConfig
<1>17. ASSUME inspectOriginalAndGhostTables PROVE WalkInv'
  <2>1. UNCHANGED <<options, master, config, visited>> /\ (pc' \in BeforeWalk => pc \in BeforeWalk)
    BY <1>17
    DEF inspectOriginalAndGhostTables, given, serverVars, walkVars, BeforeWalk, Ended,
        CheckConversions
  <2> QED
    BY <2>1, UpstreamStays DEF WalkInv, Here, InspectorConfig
<1> QED
    BY <1>1, <1>2, <1>3, <1>4, <1>5, <1>6, <1>7, <1>8, <1>9, <1>10, <1>11, <1>12, <1>13,
       <1>14, <1>15, <1>16, <1>17
    DEF Next

(* The walk ends at a top of the topology, and roles are given accordingly.*)
LEMMA RolesKept ==
    ASSUME GivenInv, WalkType, WalkInv, RolesInv, Next
    PROVE  RolesInv'
<1>1. ASSUME UNCHANGED <<pc, config, applier, options, master>> PROVE RolesInv'
    BY <1>1, UpstreamStays DEF RolesInv, IsTop, Here, OnReplica
<1>2. ASSUME validateStatement PROVE RolesInv'
  <2>1. UNCHANGED <<options, master, config, applier>>
        /\ (pc' = "roles" => pc = "roles") /\ (pc' \in FromRoles => pc \in FromRoles)
    BY <1>2
    DEF validateStatement, GoOn, given, serverVars, walkVars, tableVars, Ended,
        FromFormat, FromTable, FromMaster, FromRoles, FromLog, FromGhost
  <2> QED
    BY <2>1, UpstreamStays DEF RolesInv, IsTop, Here, OnReplica
<1>3. ASSUME validateGrants PROVE RolesInv'
  <2>1. UNCHANGED <<options, master, config, applier>>
        /\ (pc' = "roles" => pc = "roles") /\ (pc' \in FromRoles => pc \in FromRoles)
    BY <1>3
    DEF validateGrants, GoOn, given, serverVars, walkVars, tableVars, Ended, FromFormat,
        FromTable, FromMaster, FromRoles, FromLog, FromGhost
  <2> QED
    BY <2>1, UpstreamStays DEF RolesInv, IsTop, Here, OnReplica
<1>4. ASSUME validateBinlogs PROVE RolesInv'
  <2>1. UNCHANGED <<options, master, config, applier>>
        /\ (pc' = "roles" => pc = "roles") /\ (pc' \in FromRoles => pc \in FromRoles)
    BY <1>4
    DEF validateBinlogs, GoOn, RequiresBinlogFormatChange, given, serverVars, walkVars,
        tableVars, Ended, FromFormat, FromTable, FromMaster, FromRoles, FromLog,
        FromGhost
  <2> QED
    BY <2>1, UpstreamStays DEF RolesInv, IsTop, Here, OnReplica
<1>5. ASSUME applyBinlogFormat PROVE RolesInv'
  <2>1. UNCHANGED <<options, master, config, applier>>
        /\ (pc' = "roles" => pc = "roles") /\ (pc' \in FromRoles => pc \in FromRoles)
    BY <1>5
    DEF applyBinlogFormat, GoOn, RequiresBinlogFormatChange, given, walkVars, tableVars,
        Ended, FromFormat, FromTable, FromMaster, FromRoles, FromLog, FromGhost
  <2> QED
    BY <2>1, UpstreamStays DEF RolesInv, IsTop, Here, OnReplica
<1>6. ASSUME SkipRestart PROVE RolesInv'
  <2>1. UNCHANGED <<options, master, config, applier>>
        /\ (pc' = "roles" => pc = "roles") /\ (pc' \in FromRoles => pc \in FromRoles)
    BY <1>6
    DEF SkipRestart, given, serverVars, walkVars, tableVars, Ended, FromFormat,
        FromTable, FromMaster, FromRoles, FromLog, FromGhost
  <2> QED
    BY <2>1, UpstreamStays DEF RolesInv, IsTop, Here, OnReplica
<1>7. ASSUME StopSlave PROVE RolesInv'
  <2>1. UNCHANGED <<options, master, config, applier>>
        /\ (pc' = "roles" => pc = "roles") /\ (pc' \in FromRoles => pc \in FromRoles)
    BY <1>7
    DEF StopSlave, GoOn, given, walkVars, tableVars, Ended, FromFormat, FromTable,
        FromMaster, FromRoles, FromLog, FromGhost
  <2> QED
    BY <2>1, UpstreamStays DEF RolesInv, IsTop, Here, OnReplica
<1>8. ASSUME StartSlave PROVE RolesInv'
  <2>1. UNCHANGED <<options, master, config, applier>>
        /\ (pc' = "roles" => pc = "roles") /\ (pc' \in FromRoles => pc \in FromRoles)
    BY <1>8
    DEF StartSlave, given, walkVars, tableVars, Ended, FromFormat, FromTable,
        FromMaster, FromRoles, FromLog, FromGhost
  <2> QED
    BY <2>1, UpstreamStays DEF RolesInv, IsTop, Here, OnReplica
<1>9. ASSUME StartSlaveFails PROVE RolesInv'
  <2>1. UNCHANGED <<options, master, config, applier>>
        /\ (pc' = "roles" => pc = "roles") /\ (pc' \in FromRoles => pc \in FromRoles)
    BY <1>9
    DEF StartSlaveFails, given, serverVars, walkVars, tableVars, Ended, FromFormat,
        FromTable, FromMaster, FromRoles, FromLog, FromGhost
  <2> QED
    BY <2>1, UpstreamStays DEF RolesInv, IsTop, Here, OnReplica
<1>10. ASSUME ValidateOriginalTable PROVE RolesInv'
  <2>1. UNCHANGED <<options, master, config, applier>>
        /\ (pc' = "roles" => pc = "roles") /\ (pc' \in FromRoles => pc \in FromRoles)
    BY <1>10
    DEF ValidateOriginalTable, GoOn, given, serverVars, walkVars, tableVars, Ended,
        FromFormat, FromTable, FromMaster, FromRoles, FromLog, FromGhost
  <2> QED
    BY <2>1, UpstreamStays DEF RolesInv, IsTop, Here, OnReplica
<1>11. ASSUME AssumeMasterHostname PROVE RolesInv'
  <2>1. options'.assumeMaster # Nowhere
    BY <1>11 DEF AssumeMasterHostname, given
  <2> QED
    BY <2>1 DEF RolesInv
<1>12. ASSUME GetMasterConnectionConfigSafe PROVE RolesInv'
  <2>1. /\ UNCHANGED <<options, master>> /\ pc = "master"
        /\ \/ pc' \in {"master", "refused"}
           \/ /\ pc' = "roles" /\ applier' = config /\ UNCHANGED config
              /\ MasterKey = Nowhere \/ (MasterKey \in visited /\ options.allowMasterMaster)
    BY <1>12 DEF GetMasterConnectionConfigSafe, given, walkVars
  <2>2. CASE pc' \in {"master", "refused"}
    BY <2>2 DEF RolesInv, FromRoles, FromLog, FromGhost
  <2>3. CASE pc' = "roles" /\ applier' = config /\ UNCHANGED config
    <3>1. MasterKey = master[Here] /\ Here \in Server /\ Here' = Here
      BY <2>3, HereIsServer DEF MasterKey, Here, ServerAt
    <3>2. ASSUME MasterKey # Nowhere PROVE options.allowMasterMaster /\ Here \in Upstream(Here)
      <4>1. MasterKey \in visited /\ MasterKey \in Server /\ options.allowMasterMaster
        BY <2>1, <2>3, <3>2 DEF WalkType
      <4>2. CASE Here = MasterKey
        BY <3>1, <3>2, <4>1, <4>2, MasterIsUpstream
      <4>3. CASE Here \in Upstream(MasterKey)
        BY <3>1, <3>2, <4>1, <4>3, UpstreamOfMaster
      <4> QED
        BY <4>1, <4>2, <4>3 DEF WalkInv
    <3>3. IsTop(Here)
      BY <3>1, <3>2 DEF IsTop
    <3>4. (\A s \in Server : Upstream(s)' = Upstream(s)) /\ UNCHANGED <<options, master>>
      BY <2>1, UpstreamStays
    <3>5. IsTop(Here)'
      BY <3>1, <3>3, <3>4 DEF IsTop
    <3> QED
      BY <2>3, <3>5 DEF RolesInv, FromRoles, FromLog, FromGhost
  <2> QED
    BY <2>1, <2>2, <2>3
<1>13. ASSUME ValidateRoles PROVE RolesInv'
  <2>1. /\ UNCHANGED <<options, master>> /\ pc = "roles" /\ pc' \in {"logSlaveUpdates", "refused"}
        /\ applier' = IF OnReplica /\ ~InspectorIsAlsoApplier THEN InspectorConfig ELSE applier
        /\ pc' = "logSlaveUpdates" =>
              IF OnReplica THEN ~InspectorIsAlsoApplier
              ELSE InspectorIsAlsoApplier => options.allowOnMaster
    BY <1>13 DEF ValidateRoles, GoOn, given
  <2>2. CASE pc' = "refused"
    BY <2>2 DEF RolesInv, FromRoles, FromLog, FromGhost
  <2>3. CASE pc' = "logSlaveUpdates"
    <3> SUFFICES ASSUME options.assumeMaster = Nowhere PROVE RolesInv'
      BY <2>1 DEF RolesInv
    <3>1. applier = config /\ IsTop(Here) /\ Here \in Server
      BY <2>1, HereIsServer DEF RolesInv
    <3>2. InspectorIsAlsoApplier <=> Here = Inspected
      BY <3>1, SameServer DEF InspectorIsAlsoApplier, WalkType, Here
    <3>3. \A s \in Server : Upstream(s)' = Upstream(s)
      BY <2>1, UpstreamStays
    <3>4. CASE OnReplica
      <4>1. Here # Inspected /\ applier' = InspectorConfig
        BY <2>1, <2>3, <3>2, <3>4
      <4>2. master[Inspected] # Nowhere
        BY <4>1, NothingIsUpstream, ServerAssumption DEF WalkInv
      <4>3. ServerAt(applier'.Key) = Inspected
        BY <4>1, AtInspector
      <4> QED
        BY <2>1, <2>3, <3>4, <4>2, <4>3 DEF RolesInv, OnReplica, ServerAt
    <3>5. CASE ~OnReplica
      <4>1. PICK s \in Server : s = Here
        BY <3>1
      <4>2. /\ ServerAt(applier'.Key) = s /\ (s = Inspected => options'.allowOnMaster)
            /\ options.allowOnMaster = options'.allowOnMaster /\ master'[s] = master[s]
        BY <2>1, <2>3, <3>1, <3>2, <3>5, <4>1 DEF Here
      <4>3. s \in {Inspected} \cup Upstream(Inspected)'
        BY <3>3, <4>1, ServerAssumption DEF WalkInv
      <4>4. master'[s] = Nowhere \/ (options'.allowMasterMaster /\ s \in Upstream(s)')
        BY <2>1, <3>1, <3>3, <4>1 DEF IsTop
      <4>5. ~OnReplica' /\ pc' # "roles" /\ ServerAt(applier.Key)' = s
        BY <2>1, <2>3, <3>5, <4>2 DEF OnReplica, ServerAt
      <4> QED
        BY <4>2, <4>3, <4>4, <4>5 DEF RolesInv, IsTop
    <3> QED
      BY <3>4, <3>5
  <2> QED
    BY <2>1, <2>2, <2>3
<1>14. ASSUME validateLogSlaveUpdates PROVE RolesInv'
  <2>1. UNCHANGED <<options, master, config, applier>>
        /\ (pc' = "roles" => pc = "roles") /\ (pc' \in FromRoles => pc \in FromRoles)
    BY <1>14
    DEF validateLogSlaveUpdates, GoOn, given, serverVars, walkVars, tableVars, Ended,
        FromFormat, FromTable, FromMaster, FromRoles, FromLog, FromGhost
  <2> QED
    BY <2>1, UpstreamStays DEF RolesInv, IsTop, Here, OnReplica
<1>15. ASSUME GhostTableMigrated PROVE RolesInv'
  <2>1. UNCHANGED <<options, master, config, applier>>
        /\ (pc' = "roles" => pc = "roles") /\ (pc' \in FromRoles => pc \in FromRoles)
    BY <1>15
    DEF GhostTableMigrated, given, serverVars, walkVars, Ended, FromFormat, FromTable,
        FromMaster, FromRoles, FromLog, FromGhost
  <2> QED
    BY <2>1, UpstreamStays DEF RolesInv, IsTop, Here, OnReplica
<1>16. ASSUME NoSharedUniqueKey PROVE RolesInv'
  <2>1. UNCHANGED <<options, master, config, applier>>
        /\ (pc' = "roles" => pc = "roles") /\ (pc' \in FromRoles => pc \in FromRoles)
    BY <1>16
    DEF NoSharedUniqueKey, given, serverVars, walkVars, tableVars, Ended, FromFormat,
        FromTable, FromMaster, FromRoles, FromLog, FromGhost
  <2> QED
    BY <2>1, UpstreamStays DEF RolesInv, IsTop, Here, OnReplica
<1>17. ASSUME inspectOriginalAndGhostTables PROVE RolesInv'
  <2>1. UNCHANGED <<options, master, config, applier>>
        /\ (pc' = "roles" => pc = "roles") /\ (pc' \in FromRoles => pc \in FromRoles)
    BY <1>17
    DEF inspectOriginalAndGhostTables, given, serverVars, walkVars, Ended, FromFormat,
        FromTable, FromMaster, FromRoles, FromLog, FromGhost, CheckConversions
  <2> QED
    BY <2>1, UpstreamStays DEF RolesInv, IsTop, Here, OnReplica
<1> QED
    BY <1>1, <1>2, <1>3, <1>4, <1>5, <1>6, <1>7, <1>8, <1>9, <1>10, <1>11, <1>12, <1>13,
       <1>14, <1>15, <1>16, <1>17
    DEF Next

-----------------------------------------------------------------------------
(* The tables and statements of Init.                                      *)

(* A table whose columns have lower-case names of their own.               *)
Original(table) ==
    /\ table.columns \subseteq Column
    /\ \A c \in table.columns : c.name = Lower(c.name.word) /\ c.holds = c.name.word
    /\ \A c, d \in table.columns : c.name = d.name => c = d
    /\ \A k \in table.keys : k.columns \in {K1, K2, K12} /\ InKey(k) \subseteq {c.name : c \in table.columns}

(* A clause, as far as a statement about table may have it.                *)
Clause(table, x) ==
    /\ x.verb \in {"drop", "modify", "change", "add", "addKey", "dropKey", "renameTable"}
    /\ x.verb = "drop" => x.old \in Name
    /\ x.verb \in {"modify", "add"} => x.new \in Name
    /\ x.verb = "change" => x.old \in Name /\ x.new \in Name
    /\ x.verb = "modify" /\ x.converts => Named(table, Lower(x.new.word)).type = "datetime"
    /\ x.verb = "change" /\ x.converts => Named(table, Lower(x.old.word)).type = "datetime"

(* A statement with at most one clause about each column, whose keys stay  *)
(* keys over columns.                                                      *)
Statement(table, statement0) ==
    /\ \A x \in statement0 : Clause(table, x)
    /\ \A w \in Word : \A x, y \in ClauseOn(statement0, w) : x = y
    /\ LET ghost0 == Altered(table, statement0)
       IN  \A k \in table.keys, l \in ghost0.keys :
              k.columns = l.columns => InKey(k) \subseteq {g.name : g \in ghost0.columns}

LEMMA Words == W1 \in Word /\ W2 \in Word /\ W3 \in Word /\ W1 # W2 /\ NoColumn \notin Word
<1>1. (\E w \in Word : TRUE) /\ (\E w \in Word : w # W1) /\ (\E w \in Word : w \notin {W1, W2})
    BY WordAssumption
<1> QED
    BY <1>1, WordAssumption DEF W1, W2, W3

LEMMA Names == \A w \in Word : Lower(w) \in Name /\ Upper(w) \in Name
BY DEF Name, Lower, Upper

LEMMA Joined ==
    ASSUME NEW S, NEW a \in Seq(S), NEW b \in Seq(S), Len(a) = 1, Len(b) = 1
    PROVE  Len(a \o b) = 2 /\ (a \o b)[1] = a[1] /\ (a \o b)[2] = b[1] /\ a \o b \in Seq(S)
<1>1. /\ a \o b \in Seq(S) /\ Len(a \o b) = Len(a) + Len(b)
      /\ \A i \in 1 .. Len(a) + Len(b) :
            (a \o b)[i] = IF i <= Len(a) THEN a[i] ELSE b[i - Len(a)]
    BY ConcatProperties, Zenon
<1>2. Len(a \o b) = 2 /\ a \o b \in Seq(S)
    BY <1>1
<1>3. \A i \in 1..2 : (a \o b)[i] = IF i <= 1 THEN a[i] ELSE b[i - 1]
    BY <1>1
<1> QED
    BY <1>2, <1>3

(* The columns of a key.                                                   *)
LEMMA KeyShape ==
    ASSUME NEW k, k.columns \in {K1, K2, K12}
    PROVE  /\ DOMAIN k.columns \in {{1}, {1, 2}}
           /\ InKey(k) # {} /\ InKey(k) \subseteq {Lower(W1), Lower(W2)}
<1>1. /\ DOMAIN K1 = {1} /\ K1[1] = Lower(W1)
      /\ DOMAIN K2 = {1} /\ K2[1] = Lower(W2)
    BY DEF K1, K2
<1>2. DOMAIN K12 = {1, 2} /\ K12[1] = Lower(W1) /\ K12[2] = Lower(W2)
    <2>1. K1 \in Seq(Name) /\ K2 \in Seq(Name)
        BY Words, Names DEF K1, K2
    <2>2. Len(K1) = 1 /\ Len(K2) = 1
        BY DEF K1, K2
    <2>3. Len(K12) = 2 /\ K12[1] = K1[1] /\ K12[2] = K2[1] /\ K12 \in Seq(Name)
        BY <2>1, <2>2, Joined DEF K12
    <2>4. DOMAIN K12 = 1..2
        BY <2>3
    <2> QED
        BY <1>1, <2>3, <2>4
<1> QED
    BY <1>1, <1>2 DEF InKey

(* A column of an original table.                                          *)
IsPlain(c, w) == c \in Column /\ c.name = Lower(w) /\ c.holds = w

LEMMA PlainIs ==
    ASSUME NEW w \in Word, NEW t \in Type, NEW n \in BOOLEAN, NEW g \in BOOLEAN
    PROVE  IsPlain(Plain(w, t, n, g), w)
BY DEF IsPlain, Plain, Column, Name, Lower

LEMMA TwoColumns ==
    ASSUME NEW table, NEW c1, NEW c2, IsPlain(c1, W1), IsPlain(c2, W2), table.columns = {c1, c2},
           \A k \in table.keys : k.columns \in {K1, K2, K12}
    PROVE  Original(table)
<1>1. Lower(W1) # Lower(W2) /\ Lower(W1).word = W1 /\ Lower(W2).word = W2
    BY Words DEF Lower
<1>2. {c.name : c \in table.columns} = {Lower(W1), Lower(W2)}
    BY DEF IsPlain
<1>3. \A k \in table.keys : InKey(k) \subseteq {Lower(W1), Lower(W2)}
    BY KeyShape
<1>4. /\ table.columns \subseteq Column
      /\ \A c \in table.columns : c.name = Lower(c.name.word) /\ c.holds = c.name.word
      /\ \A c, d \in table.columns : c.name = d.name => c = d
    BY <1>1 DEF IsPlain
<1> QED
    BY <1>2, <1>3, <1>4 DEF Original

LEMMA PlainTableOriginal == Original(PlainTable)
<1>1. \A k \in PlainTable.keys : k.columns \in {K1, K2, K12}
    BY DEF PlainTable, Key
<1>2. PlainTable.columns = {Plain(W1, "int", FALSE, FALSE), Plain(W2, "text", FALSE, FALSE)}
    BY DEF PlainTable
<1>3. IsPlain(Plain(W1, "int", FALSE, FALSE), W1) /\ IsPlain(Plain(W2, "text", FALSE, FALSE), W2)
    BY PlainIs, Words DEF Type
<1> QED
    BY <1>1, <1>2, <1>3, TwoColumns

LEMMA TablesOriginal == \A table \in Tables : Original(table)
<1> SUFFICES ASSUME NEW table \in Tables PROVE Original(table)
    OBVIOUS
<1>1. \A k \in table.keys : k.columns \in {K1, K2, K12}
    BY DEF Tables, Key
<1>2. PICK t \in Type, n \in BOOLEAN, g \in BOOLEAN :
          table.columns = {Plain(W1, "int", FALSE, FALSE), Plain(W2, t, n, g)}
    BY DEF Tables, Type
<1>3. IsPlain(Plain(W1, "int", FALSE, FALSE), W1) /\ IsPlain(Plain(W2, t, n, g), W2)
    BY PlainIs, Words DEF Type
<1> QED
    BY <1>1, <1>2, <1>3, TwoColumns

(* No two clauses of a legal statement are about the same column.          *)
LEMMA AtMostOne ==
    ASSUME NEW S, IsFiniteSet(S), Cardinality(S) <= 1
    PROVE  \A x, y \in S : x = y
<1> SUFFICES ASSUME NEW x \in S, NEW y \in S, x # y PROVE FALSE
    OBVIOUS
<1>1. Cardinality({x, y}) = 2 /\ IsFiniteSet({x, y})
    <2>1. IsFiniteSet({x}) /\ Cardinality({x}) = 1
        BY FS_Singleton
    <2>2. /\ IsFiniteSet({x} \cup {y})
          /\ Cardinality({x} \cup {y}) =
                IF y \in {x} THEN Cardinality({x}) ELSE Cardinality({x}) + 1
        BY <2>1, FS_AddElement
    <2>3. {x, y} = {x} \cup {y} /\ y \notin {x}
        OBVIOUS
    <2> QED
        BY <2>1, <2>2, <2>3
<1>2. Cardinality({x, y}) <= Cardinality(S)
    BY <1>1, FS_Subset
<1> QED
    BY <1>1, <1>2, FS_CardinalityType

LEMMA SingletonIsFinite == \A S : (S = {} \/ \E x : S = {x}) => IsFiniteSet(S)
<1>1. IsFiniteSet({})
    BY FS_EmptySet
<1>2. \A x : IsFiniteSet({x})
    BY FS_Singleton
<1> QED
    BY <1>1, <1>2

(* Every clause that Statements offers is one.                             *)
LEMMA OfferedClauses ==
    ASSUME NEW table, NEW w \in {W1, W2}, NEW x \in ClausesFor(table, w)
    PROVE  Clause(table, x)
<1>1. CASE x = [verb |-> "drop", old |-> Upper(w)]
    BY <1>1, Words, Names DEF Clause
<1>2. CASE x \in [verb : {"modify"}, new : {Lower(w), Upper(w)},
                  converts : {FALSE} \cup {Named(table, Lower(w)).type = "datetime"}]
    <2>0. /\ x.verb = "modify" /\ x.new \in {Lower(w), Upper(w)}
          /\ x.converts \in {FALSE} \cup {Named(table, Lower(w)).type = "datetime"}
        BY <1>2
    <2>1. x.new \in Name
        BY <2>0, Words, Names
    <2>2. x.converts => Named(table, Lower(w)).type = "datetime"
        BY <2>0, Zenon
    <2>3. x.new.word = w /\ x.new \in Name
        BY <2>0, <2>1, Words, Names DEF Lower, Upper
    <2> QED
        BY <2>0, <2>1, <2>2, <2>3 DEF Clause
<1>3. CASE x \in [verb : {"change"}, old : {Lower(w), Upper(w)}, new : {Lower(v) : v \in Word},
                  converts : {FALSE} \cup {Named(table, Lower(w)).type = "datetime"}]
    <2>1. /\ x.verb = "change" /\ x.old \in {Lower(w), Upper(w)} /\ x.new \in Name
          /\ x.converts \in {FALSE} \cup {Named(table, Lower(w)).type = "datetime"}
        BY <1>3, Words, Names
    <2>2. x.converts => Named(table, Lower(w)).type = "datetime"
        BY <2>1, Zenon
    <2>3. x.old.word = w /\ x.old \in Name
        <3>1. x.old \in {Lower(w), Upper(w)} /\ w \in Word
            BY <2>1, Words
        <3>2. Lower(w).word = w /\ Upper(w).word = w
            BY DEF Lower, Upper
        <3> QED
            BY <3>1, <3>2, Names
    <2> QED
        BY <2>1, <2>2, <2>3 DEF Clause
<1> QED
    BY <1>1, <1>2, <1>3 DEF ClausesFor

LEMMA StatementsAre ==
    ASSUME NEW table, NEW s \in Statements(table)
    PROVE  Statement(table, s)
<1>1. PICK a \in Optional(ClausesFor(table, W1)), b \in Optional(ClausesFor(table, W2)),
           c \in Optional({[verb |-> "add", new |-> Lower(w)] : w \in {W1, W3}}),
           d \in Optional([verb : {"addKey", "dropKey"}, columns : {K1}]) :
           s = a \cup b \cup c \cup d
    <2>1. PICK o \in Offered(table) : s = o[1] \cup o[2] \cup o[3] \cup o[4]
        BY DEF Statements
    <2> QED
        BY <2>1 DEF Offered
<1>2. Legal(table, s)
    BY DEF Statements
<1>3. \A x \in s : Clause(table, x)
    <2>1. \A x \in a \cup b : Clause(table, x)
        BY OfferedClauses DEF Optional
    <2>2. \A x \in c : Clause(table, x)
        BY Words, Names DEF Clause, Optional
    <2>3. \A x \in d : Clause(table, x)
        BY DEF Clause, Optional
    <2> QED
        BY <1>1, <2>1, <2>2, <2>3
<1>4. ASSUME NEW w \in Word PROVE \A x, y \in ClauseOn(s, w) : x = y
    <2>0. \A S \in {a, b, c, d} : S = {} \/ \E x : S = {x}
        BY DEF Optional
    <2>1. IsFiniteSet(a) /\ IsFiniteSet(b) /\ IsFiniteSet(c) /\ IsFiniteSet(d)
        BY <2>0, SingletonIsFinite
    <2>2. IsFiniteSet(a \cup b)
        BY <2>1, FS_Union
    <2>3. IsFiniteSet(a \cup b \cup c)
        BY <2>1, <2>2, FS_Union
    <2>4. IsFiniteSet(s)
        BY <1>1, <2>1, <2>3, FS_Union
    <2>5. ClauseOn(s, w) \subseteq s
        BY DEF ClauseOn
    <2>6. IsFiniteSet(ClauseOn(s, w))
        BY <2>4, <2>5, FS_Subset
    <2>7. Cardinality(ClauseOn(s, w)) <= 1
        BY <1>2 DEF Legal
    <2> QED
        BY <2>6, <2>7, AtMostOne
<1>5. \A k \in table.keys, l \in Altered(table, s).keys :
          k.columns = l.columns => InKey(k) \subseteq {g.name : g \in Altered(table, s).columns}
    <2>1. \A l \in Altered(table, s).keys : InKey(l) \subseteq {g.name : g \in Altered(table, s).columns}
        BY <1>2 DEF Legal
    <2> QED
        BY <2>1 DEF InKey
<1> QED
    BY <1>3, <1>4, <1>5 DEF Statement

(* A statement that leaves the columns alone.                              *)
LEMMA QuietStatements ==
    ASSUME NEW s \in {{}, {[verb |-> "renameTable"]}}
    PROVE  Statement(PlainTable, s)
<1>1. \A x \in s : Clause(PlainTable, x)
    BY DEF Clause
<1>2. \A w : ClauseOn(s, w) = {}
    BY DEF ClauseOn
<1>3. \A c \in PlainTable.columns : Became(c, s) = {c}
    BY <1>2 DEF Became
<1>4. PlainTable.columns \subseteq Altered(PlainTable, s).columns
    BY <1>3 DEF Altered
<1>5. \A k \in PlainTable.keys : InKey(k) \subseteq {c.name : c \in PlainTable.columns}
    BY PlainTableOriginal DEF Original
<1> QED
    BY <1>1, <1>2, <1>4, <1>5 DEF Statement

-----------------------------------------------------------------------------
(* What the statement makes of the table.                                  *)

StatementInv == Original(original) /\ Statement(original, statement)

(* A column that MySQL makes of one of the original table.                 *)
Becomes(c, x, g) ==
    /\ g.name = x.new /\ g.holds = c.holds /\ g.generated = c.generated
    /\ g.type = IF x.converts THEN "timestamp" ELSE c.type

LEMMA Becoming ==
    ASSUME StatementInv, NEW c \in original.columns, NEW g \in Became(c, statement)
    PROVE  /\ g \in Column
           /\ \/ ClauseOn(statement, c.name.word) = {} /\ g = c
              \/ \E x \in ClauseOn(statement, c.name.word) :
                    x.verb \in {"change", "modify"} /\ Becomes(c, x, g)
<1>1. c \in Column
    BY DEF StatementInv, Original
<1>2. CASE ClauseOn(statement, c.name.word) = {}
    BY <1>1, <1>2 DEF Became
<1>3. CASE ClauseOn(statement, c.name.word) # {}
    <2>1. PICK x \in ClauseOn(statement, c.name.word) :
              /\ x.verb # "drop"
              /\ g = [c EXCEPT !.name = x.new,
                               !.type = IF x.converts THEN "timestamp" ELSE @]
        BY <1>3 DEF Became
    <2>2. x \in statement /\ x.verb \in {"change", "modify"}
        BY <2>1 DEF ClauseOn
    <2>3. x.new \in Name
        BY <2>2 DEF StatementInv, Statement, Clause
    <2>4. Becomes(c, x, g)
        BY <1>1, <2>1 DEF Becomes, Column
    <2>5. g \in Column
        BY <1>1, <2>1, <2>3 DEF Column, Type
    <2> QED
        BY <2>2, <2>4, <2>5
<1> QED
    BY <1>2, <1>3

(* ... of which the ghost table has nothing else but columns that hold no  *)
(* data of it.                                                             *)
LEMMA GhostColumns ==
    ASSUME StatementInv, NEW g \in Altered(original, statement).columns
    PROVE  /\ g \in Column
           /\ \/ \E c \in original.columns : g \in Became(c, statement)
              \/ g.holds = NoColumn
<1>1. CASE \E c \in original.columns : g \in Became(c, statement)
    BY <1>1, Becoming
<1>2. CASE \E x \in ClausesOf(statement, "add") :
               g = [name |-> x.new, type |-> "int", nullable |-> FALSE, generated |-> FALSE,
                    holds |-> NoColumn]
    <2>1. PICK x \in ClausesOf(statement, "add") :
               g = [name |-> x.new, type |-> "int", nullable |-> FALSE, generated |-> FALSE,
                    holds |-> NoColumn]
        BY <1>2
    <2>2. x.new \in Name
        BY DEF StatementInv, Statement, Clause, ClausesOf
    <2> QED
        BY <2>1, <2>2 DEF Column, Type
<1> QED
    BY <1>1, <1>2 DEF Altered

(* The shared columns have names, and so do those they are mapped to.      *)
LEMMA SharedColumns ==
    ASSUME StatementInv, NEW ghost0, NEW dropped,
           NEW renames0, renames0 \subseteq columnRenameMap(statement)
    PROVE  getSharedColumns(original, ghost0, renames0, dropped) \subseteq Name \X Name
<1>1. \A n \in GetTableColumns(original)[1] : n \in Name
    BY DEF StatementInv, Original, GetTableColumns, Column
<1>2. \A n : Lookup(renames0, n) \subseteq Name
    BY DEF StatementInv, Statement, Clause, ClausesOf, columnRenameMap, Lookup
<1> QED
    BY <1>1, <1>2 DEF getSharedColumns

(* A migration is accepted only if all columns of the key are copied and   *)
(* none of them is converted.                                              *)
LEMMA Accepted ==
    ASSUME NEW key, key.columns \in {K1, K2, K12}, NEW mapped, NEW conversions,
           CheckConversions(key, mapped, conversions) = "accepted"
    PROVE  InKey(key) \subseteq mapped \ conversions
<1> DEFINE known(i) == key.columns[i] \in mapped
<1> DEFINE bad(i) == ~known(i) \/ key.columns[i] \in conversions
<1> DEFINE first == {i \in DOMAIN key.columns : bad(i) /\ \A j \in 1..(i - 1) : ~bad(j)}
<1>1. first = {}
    BY DEF CheckConversions
<1>2. DOMAIN key.columns \in {{1}, {1, 2}}
    BY KeyShape
<1>3. ~bad(1)
    BY <1>1, <1>2
<1>4. 2 \in DOMAIN key.columns => ~bad(2)
    BY <1>1, <1>2, <1>3
<1>5. \A i \in DOMAIN key.columns : key.columns[i] \in mapped \ conversions
    BY <1>2, <1>3, <1>4
<1> QED
    BY <1>5 DEF InKey

LEMMA Verdicts ==
    ASSUME NEW key, NEW mapped, NEW conversions
    PROVE  CheckConversions(key, mapped, conversions) \in Ended
BY DEF CheckConversions, Ended

-----------------------------------------------------------------------------
(* What the parser found, the ghost table, and what they lead to.          *)

RenamesInv ==
    /\ renames \subseteq GetNonTrivialRenames(statement)
    /\ pc \notin {"statement", "refused"} /\ ~options.skip =>
          renames = GetNonTrivialRenames(statement)

Paired ==
    /\ pairs = getSharedColumns(original, ghost, renames, DroppedColumnsMap(statement))
    /\ converted = ConvertedColumns(original, ghost, pairs)

TableInv ==
    /\ ghost \in {[columns |-> {}, keys |-> {}], Altered(original, statement)}
    /\ pc \in FromGhost => ghost = Altered(original, statement)
    /\ pc \notin Ended => uniqueKey = NoKey
    /\ uniqueKey # NoKey =>
          ghost = Altered(original, statement) /\ uniqueKey \in UsableSharedKeys(original, ghost)
    /\ (pc \in Ended /\ Paired) \/ (pairs = {} /\ converted = {})
    /\ pc = "accepted" =>
          /\ Paired /\ uniqueKey \in UsableSharedKeys(original, ghost)
          /\ InKey(uniqueKey) \subseteq {p[2] : p \in pairs} \ converted

(* Every step keeps that, too.                                             *)

LEMMA StatementKept ==
    ASSUME StatementInv, Next
    PROVE  StatementInv'
<1>1. ASSUME UNCHANGED <<original, statement>> PROVE StatementInv'
    BY <1>1 DEF StatementInv
<1>2. ASSUME \/ validateStatement \/ validateGrants \/ validateBinlogs
             \/ applyBinlogFormat \/ SkipRestart \/ StopSlave
      PROVE  StatementInv'
    BY <1>2, <1>1
    DEF validateStatement, given, serverVars, walkVars, tableVars, validateGrants,
        validateBinlogs, applyBinlogFormat, SkipRestart, StopSlave
<1>3. ASSUME \/ StartSlave \/ StartSlaveFails \/ ValidateOriginalTable
             \/ AssumeMasterHostname \/ GetMasterConnectionConfigSafe
             \/ ValidateRoles
      PROVE  StatementInv'
    BY <1>3, <1>1
    DEF StartSlave, given, walkVars, tableVars, StartSlaveFails, serverVars,
        ValidateOriginalTable, AssumeMasterHostname, GetMasterConnectionConfigSafe,
        ValidateRoles
<1>4. ASSUME \/ validateLogSlaveUpdates \/ GhostTableMigrated \/ NoSharedUniqueKey
             \/ inspectOriginalAndGhostTables
      PROVE  StatementInv'
    BY <1>4, <1>1
    DEF validateLogSlaveUpdates, given, serverVars, walkVars, tableVars,
        GhostTableMigrated, NoSharedUniqueKey, inspectOriginalAndGhostTables
<1> QED
    BY <1>1, <1>2, <1>3, <1>4 DEF Next

(* Renames are those found, unless the operator has them skipped.          *)
LEMMA RenamesKept ==
    ASSUME RenamesInv, Next
    PROVE  RenamesInv'
<1>1. ASSUME UNCHANGED <<statement, options, renames, pc>> PROVE RenamesInv'
    BY <1>1 DEF RenamesInv
<1>2. ASSUME validateStatement PROVE RenamesInv'
  <2>1. UNCHANGED <<statement, options>> /\ pc = "statement"
    BY <1>2 DEF validateStatement, given
  <2>2. \/ pc' = "refused" /\ renames' \in {{}, GetNonTrivialRenames(statement)}
        \/ /\ pc' = "grants"
           /\ \/ renames' = GetNonTrivialRenames(statement)
              \/ options.skip /\ renames' = {}
    BY <1>2 DEF validateStatement, GoOn
  <2> QED
    BY <2>1, <2>2 DEF RenamesInv
<1>3. ASSUME validateGrants PROVE RenamesInv'
    BY <1>3 DEF RenamesInv, validateGrants, GoOn, given, serverVars, walkVars, tableVars
<1>4. ASSUME validateBinlogs PROVE RenamesInv'
    BY <1>4
    DEF RenamesInv, validateBinlogs, GoOn, RequiresBinlogFormatChange, given,
        serverVars, walkVars, tableVars
<1>5. ASSUME applyBinlogFormat PROVE RenamesInv'
    BY <1>5
    DEF RenamesInv, applyBinlogFormat, GoOn, RequiresBinlogFormatChange, given,
        walkVars, tableVars
<1>6. ASSUME SkipRestart PROVE RenamesInv'
    BY <1>6 DEF RenamesInv, SkipRestart, given, serverVars, walkVars, tableVars
<1>7. ASSUME StopSlave PROVE RenamesInv'
    BY <1>7 DEF RenamesInv, StopSlave, GoOn, given, walkVars, tableVars
<1>8. ASSUME StartSlave PROVE RenamesInv'
    BY <1>8 DEF RenamesInv, StartSlave, given, walkVars, tableVars
<1>9. ASSUME StartSlaveFails PROVE RenamesInv'
    BY <1>9 DEF RenamesInv, StartSlaveFails, given, serverVars, walkVars, tableVars
<1>10. ASSUME ValidateOriginalTable PROVE RenamesInv'
    BY <1>10
    DEF RenamesInv, ValidateOriginalTable, GoOn, given, serverVars, walkVars, tableVars
<1>11. ASSUME AssumeMasterHostname PROVE RenamesInv'
    BY <1>11 DEF RenamesInv, AssumeMasterHostname, given, serverVars, tableVars
<1>12. ASSUME GetMasterConnectionConfigSafe PROVE RenamesInv'
    BY <1>12
    DEF RenamesInv, GetMasterConnectionConfigSafe, given, serverVars, tableVars,
        walkVars
<1>13. ASSUME ValidateRoles PROVE RenamesInv'
    BY <1>13 DEF RenamesInv, ValidateRoles, GoOn, given, serverVars, tableVars
<1>14. ASSUME validateLogSlaveUpdates PROVE RenamesInv'
    BY <1>14
    DEF RenamesInv, validateLogSlaveUpdates, GoOn, given, serverVars, walkVars,
        tableVars
<1>15. ASSUME GhostTableMigrated PROVE RenamesInv'
    BY <1>15 DEF RenamesInv, GhostTableMigrated, given, serverVars, walkVars
<1>16. ASSUME NoSharedUniqueKey PROVE RenamesInv'
    BY <1>16 DEF RenamesInv, NoSharedUniqueKey, given, serverVars, walkVars, tableVars
<1>17. ASSUME inspectOriginalAndGhostTables PROVE RenamesInv'
    BY <1>17 DEF RenamesInv, inspectOriginalAndGhostTables, given, serverVars, walkVars
<1> QED
    BY <1>1, <1>2, <1>3, <1>4, <1>5, <1>6, <1>7, <1>8, <1>9, <1>10, <1>11, <1>12, <1>13,
       <1>14, <1>15, <1>16, <1>17
    DEF Next

LEMMA TableKept ==
    ASSUME StatementInv, TableInv, PlaceType, Next
    PROVE  TableInv'
<1>1. ASSUME UNCHANGED <<original, statement, renames, ghost, uniqueKey, pairs, converted, pc>> PROVE TableInv'
    BY <1>1 DEF TableInv, Paired
<1>2. ASSUME validateStatement PROVE TableInv'
    BY <1>2
    DEF TableInv, Paired, FromGhost, Ended, NoKey, validateStatement, GoOn, given,
        serverVars, walkVars, tableVars
<1>3. ASSUME validateGrants PROVE TableInv'
    BY <1>3
    DEF TableInv, Paired, FromGhost, Ended, NoKey, validateGrants, GoOn, given,
        serverVars, walkVars, tableVars
<1>4. ASSUME validateBinlogs PROVE TableInv'
    BY <1>4
    DEF TableInv, Paired, FromGhost, Ended, NoKey, validateBinlogs, GoOn,
        RequiresBinlogFormatChange, given, serverVars, walkVars, tableVars
<1>5. ASSUME applyBinlogFormat PROVE TableInv'
    BY <1>5
    DEF TableInv, Paired, FromGhost, Ended, NoKey, applyBinlogFormat, GoOn,
        RequiresBinlogFormatChange, given, walkVars, tableVars
<1>6. ASSUME SkipRestart PROVE TableInv'
    BY <1>6
    DEF TableInv, Paired, FromGhost, Ended, NoKey, SkipRestart, given, serverVars,
        walkVars, tableVars
<1>7. ASSUME StopSlave PROVE TableInv'
    BY <1>7
    DEF TableInv, Paired, FromGhost, Ended, NoKey, StopSlave, GoOn, given, walkVars,
        tableVars
<1>8. ASSUME StartSlave PROVE TableInv'
    BY <1>8
    DEF TableInv, Paired, FromGhost, Ended, NoKey, StartSlave, given, walkVars,
        tableVars
<1>9. ASSUME StartSlaveFails PROVE TableInv'
    BY <1>9
    DEF TableInv, Paired, FromGhost, Ended, NoKey, StartSlaveFails, given, serverVars,
        walkVars, tableVars
<1>10. ASSUME ValidateOriginalTable PROVE TableInv'
    BY <1>10
    DEF TableInv, Paired, FromGhost, Ended, NoKey, ValidateOriginalTable, GoOn, given,
        serverVars, walkVars, tableVars
<1>11. ASSUME AssumeMasterHostname PROVE TableInv'
    BY <1>11
    DEF TableInv, Paired, FromGhost, Ended, NoKey, AssumeMasterHostname, given,
        serverVars, tableVars
<1>12. ASSUME GetMasterConnectionConfigSafe PROVE TableInv'
    BY <1>12
    DEF TableInv, Paired, FromGhost, Ended, NoKey, GetMasterConnectionConfigSafe, given,
        serverVars, tableVars, walkVars
<1>13. ASSUME ValidateRoles PROVE TableInv'
    BY <1>13
    DEF TableInv, Paired, FromGhost, Ended, NoKey, ValidateRoles, GoOn, given,
        serverVars, tableVars
<1>14. ASSUME validateLogSlaveUpdates PROVE TableInv'
    BY <1>14
    DEF TableInv, Paired, FromGhost, Ended, NoKey, validateLogSlaveUpdates, GoOn, given,
        serverVars, walkVars, tableVars
<1>15. ASSUME GhostTableMigrated PROVE TableInv'
    BY <1>15
    DEF TableInv, Paired, FromGhost, Ended, NoKey, GhostTableMigrated, given,
        serverVars, walkVars
<1>16. ASSUME NoSharedUniqueKey PROVE TableInv'
    BY <1>16
    DEF TableInv, Paired, FromGhost, Ended, NoKey, NoSharedUniqueKey, given, serverVars,
        walkVars, tableVars
<1>17. ASSUME inspectOriginalAndGhostTables PROVE TableInv'
  <2>1. pc = "compare" /\ UNCHANGED <<original, statement, ghost, renames>>
    BY <1>17 DEF inspectOriginalAndGhostTables, given
  <2>2. PICK k \in UsableSharedKeys(original, ghost) :
            /\ uniqueKey' = k
            /\ \/ pc' = "refused" /\ UNCHANGED <<pairs, converted>>
               \/ /\ pairs' = getSharedColumns(original, ghost, renames, DroppedColumnsMap(statement))
                  /\ converted' = ConvertedColumns(original, ghost, pairs')
                  /\ pc' = CheckConversions(k, {p[2] : p \in pairs'}, converted')
    BY <1>17 DEF inspectOriginalAndGhostTables, FirstCandidates
  <2>3. ghost = Altered(original, statement) /\ pairs = {} /\ converted = {}
    BY <2>1 DEF TableInv, FromGhost, Ended
  <2>4. CASE pc' = "refused" /\ UNCHANGED <<pairs, converted>>
    BY <2>1, <2>2, <2>3, <2>4 DEF TableInv, FromGhost, Ended
  <2>5. CASE /\ pairs' = getSharedColumns(original, ghost, renames, DroppedColumnsMap(statement))
             /\ converted' = ConvertedColumns(original, ghost, pairs')
             /\ pc' = CheckConversions(k, {p[2] : p \in pairs'}, converted')
    <3>1. k.columns \in {K1, K2, K12}
      BY DEF UsableSharedKeys, getSharedUniqueKeys, StatementInv, Original
    <3>2. pc' = "accepted" => InKey(k) \subseteq {p[2] : p \in pairs'} \ converted'
      <4>1. PICK mapped, conversions : mapped = {p[2] : p \in pairs'} /\ conversions = converted'
        OBVIOUS
      <4>2. pc' = CheckConversions(k, mapped, conversions)
        BY <2>5, <4>1
      <4>3. CheckConversions(k, mapped, conversions) = "accepted"
            => InKey(k) \subseteq mapped \ conversions
        BY <3>1, Accepted
      <4> QED
        BY <4>1, <4>2, <4>3
    <3>3. pc' \in Ended
      BY <2>5, Verdicts
    <3>4. Paired'
      BY <2>1, <2>5 DEF Paired
    <3> QED
      BY <2>1, <2>2, <2>3, <3>2, <3>3, <3>4 DEF TableInv
  <2> QED
    BY <2>2, <2>4, <2>5
<1> QED
    BY <1>1, <1>2, <1>3, <1>4, <1>5, <1>6, <1>7, <1>8, <1>9, <1>10, <1>11, <1>12, <1>13,
       <1>14, <1>15, <1>16, <1>17
    DEF Next

-----------------------------------------------------------------------------
(* The inductive invariant.                                                *)
IInv ==
    /\ GivenInv /\ PlaceType /\ BinlogType /\ WalkType
    /\ BinlogInv /\ WalkInv /\ RolesInv
    /\ StatementInv /\ RenamesInv /\ TableInv

(* It holds wherever an inspection begins.                                 *)
LEMMA InitGiven == Init => GivenInv
<1> SUFFICES ASSUME Init PROVE GivenInv
    OBVIOUS
<1>0. Inspected \in Server
    BY ServerAssumption
<1>1. CASE AnyStatement
    BY <1>0, <1>1 DEF AnyStatement, PlainOptions, InitServers, GivenInv
<1>2. CASE AnyObstacle
    BY <1>0, <1>2 DEF AnyObstacle, PlainOptions, InitServers, GivenInv
<1>3. CASE AnyTopology
    <2>1. PICK o \in [mode : {"master", "replica"}, allowOnMaster : BOOLEAN,
                 allowMasterMaster : BOOLEAN, tungsten : BOOLEAN,
                 assumeMaster : {Nowhere} \cup Server, host : {Inspected, Alias}] :
              options = [n \in DOMAIN PlainOptions |->
                           IF n \in DOMAIN o THEN o[n] ELSE PlainOptions[n]]
        BY <1>3 DEF AnyTopology
    <2>2. {"host", "assumeMaster"} \subseteq DOMAIN PlainOptions \cap DOMAIN o
        BY DEF PlainOptions
    <2>3. options.host = o.host /\ options.assumeMaster = o.assumeMaster
        BY <2>1, <2>2
    <2>4. master \in [Server -> Server \cup {Nowhere}]
        BY <1>3 DEF AnyTopology
    <2> QED
        BY <2>3, <2>4 DEF GivenInv
<1>4. CASE AnyBinlog
    <2>1. master \in [Server -> Server \cup {Nowhere}]
        BY <1>0, <1>4 DEF AnyBinlog
    <2>2. options.host = Inspected /\ options.assumeMaster \in {Nowhere, master[Inspected]}
        BY <1>4 DEF AnyBinlog, PlainOptions
    <2> QED
        BY <1>0, <2>1, <2>2 DEF GivenInv
<1> QED
    BY <1>1, <1>2, <1>3, <1>4 DEF Init

LEMMA InitBinlog == Init => BinlogType
<1> SUFFICES ASSUME Init PROVE BinlogType
    OBVIOUS
<1>1. CASE AnyStatement \/ AnyObstacle
    <2>1. binlog = PlainBinlog /\ replicates = "none"
        BY <1>1 DEF AnyStatement, AnyObstacle, InitServers
    <2> QED
        BY <2>1 DEF PlainBinlog, BinlogType
<1>2. CASE AnyTopology
    BY <1>2 DEF AnyTopology, PlainBinlog, BinlogType
<1>3. CASE AnyBinlog
    BY <1>3 DEF AnyBinlog, BinlogType
<1> QED
    BY <1>1, <1>2, <1>3 DEF Init

LEMMA InitStatement == Init => StatementInv
<1> SUFFICES ASSUME Init PROVE StatementInv
    OBVIOUS
<1>1. \/ original \in Tables /\ statement \in Statements(original)
      \/ original = PlainTable /\ statement \in {{}, {[verb |-> "renameTable"]}}
    BY DEF Init, AnyStatement, AnyObstacle, AnyTopology, AnyBinlog, InitTable
<1>2. CASE original \in Tables /\ statement \in Statements(original)
    BY <1>2, TablesOriginal, StatementsAre DEF StatementInv
<1>3. CASE original = PlainTable /\ statement \in {{}, {[verb |-> "renameTable"]}}
    BY <1>3, PlainTableOriginal, QuietStatements DEF StatementInv
<1> QED
    BY <1>1, <1>2, <1>3

LEMMA InitIInv == Init => IInv
<1> SUFFICES ASSUME Init PROVE IInv
    OBVIOUS
<1>1. GivenInv /\ BinlogType /\ StatementInv
    BY InitGiven, InitBinlog, InitStatement
<1>2. /\ pc = "statement" /\ renames = {} /\ visited = {}
      /\ config = InspectorConfig /\ applier = At(Inspected)
      /\ ghost = [columns |-> {}, keys |-> {}] /\ uniqueKey = NoKey
      /\ pairs = {} /\ converted = {}
    BY DEF Init
<1>3. PlaceType
    BY <1>2 DEF PlaceType
<1>4. Sane(config) /\ Sane(applier) /\ Here = Inspected
    BY <1>1, <1>2, AtInspector, AtServer, ServerAssumption DEF Here
<1>5. WalkType /\ WalkInv
    BY <1>2, <1>4 DEF WalkType, WalkInv
<1>6. pc \notin {"format", "roles"} \cup FromFormat
    BY <1>2 DEF FromFormat, FromTable, FromMaster, FromRoles, FromLog, FromGhost
<1>7. BinlogInv /\ RolesInv
    BY <1>6 DEF BinlogInv, RolesInv, FromFormat, FromTable, FromMaster, FromRoles
<1>8. RenamesInv /\ TableInv
    BY <1>2 DEF RenamesInv, TableInv, FromGhost, Ended
<1> QED
    BY <1>1, <1>3, <1>5, <1>7, <1>8 DEF IInv

LEMMA StepIInv == IInv /\ [Next]_vars => IInv'
<1> SUFFICES ASSUME IInv, [Next]_vars PROVE IInv'
    OBVIOUS
<1>1. CASE Next
    <2>1. /\ GivenInv /\ PlaceType /\ BinlogType /\ WalkType
          /\ BinlogInv /\ WalkInv /\ RolesInv
          /\ StatementInv /\ RenamesInv /\ TableInv
        BY DEF IInv
    <2>2. GivenInv' /\ PlaceType' /\ BinlogType' /\ WalkType'
        BY <1>1, <2>1, GivenKept, PlaceTypeKept, BinlogTypeKept, WalkTypeKept
    <2>3. BinlogInv' /\ WalkInv' /\ RolesInv'
        BY <1>1, <2>1, BinlogKept, WalkKept, RolesKept
    <2>4. StatementInv' /\ RenamesInv' /\ TableInv'
        BY <1>1, <2>1, StatementKept, RenamesKept, TableKept
    <2> QED
        BY <2>2, <2>3, <2>4 DEF IInv
<1>2. CASE UNCHANGED vars
    <2>1. /\ UNCHANGED <<options, statement, original, obstacles, grants, master, broken>>
          /\ UNCHANGED <<binlog, replicates, pc, renames, config, visited, applier>>
          /\ UNCHANGED <<ghost, uniqueKey, pairs, converted>>
        BY <1>2 DEF vars, given, serverVars, walkVars, tableVars
    <2>2. GivenInv' /\ PlaceType' /\ BinlogType' /\ WalkType'
        BY <2>1 DEF IInv, GivenInv, PlaceType, BinlogType, WalkType
    <2>3. BinlogInv'
        BY <2>1 DEF IInv, BinlogInv, OnReplica, InspectorIsAlsoApplier, InspectorConfig
    <2>4. WalkInv' /\ RolesInv'
        BY <2>1, UpstreamStays DEF IInv, WalkInv, RolesInv, IsTop, Here, OnReplica, InspectorConfig
    <2>5. StatementInv' /\ RenamesInv' /\ TableInv'
        BY <2>1 DEF IInv, StatementInv, RenamesInv, TableInv, Paired
    <2> QED
        BY <2>2, <2>3, <2>4, <2>5 DEF IInv
<1> QED
    BY <1>1, <1>2

(* The inductive invariant, for every table, statement and topology.       *)
THEOREM InvariantHolds == Spec => []IInv
BY InitIInv, StepIInv, PTL DEF Spec

-----------------------------------------------------------------------------
(* What follows from it.                                                   *)

(* The variables have their types, and what is decided is decided in       *)
(* order: no key before there is a ghost table to share it with, and       *)
(* nothing accepted without key and columns.                               *)
THEOREM TypeCorrect == Spec => []TypeOK
<1>1. ASSUME IInv PROVE TypeOK
    <2>1. /\ PlaceType /\ BinlogInv /\ WalkType /\ StatementInv /\ RenamesInv /\ TableInv
        BY <1>1 DEF IInv
    <2>2. pc \in Ended \cup {"statement", "grants", "binlogs", "format", "restart", "startSlave",
                             "table", "master", "roles", "logSlaveUpdates", "createGhost",
                             "compare"}
        BY <2>1
        DEF PlaceType, FromFormat, FromTable, FromMaster, FromRoles, FromLog, FromGhost, Ended
    <2>3. renames \subseteq columnRenameMap(statement)
        BY <2>1 DEF RenamesInv, GetNonTrivialRenames
    <2>4. {config, applier} \subseteq [Key : Address, ImpliedKey : Server] /\ visited \subseteq Server
        BY <2>1 DEF WalkType, Sane, Config
    <2>5. ghost.columns \subseteq Column
        BY <2>1, GhostColumns DEF TableInv
    <2>6. pairs \subseteq Name \X Name /\ converted \subseteq {p[2] : p \in pairs}
        <3>1. CASE pairs = {} /\ converted = {}
            BY <3>1
        <3>2. CASE Paired
            BY <2>1, <2>3, <3>2, SharedColumns DEF Paired, ConvertedColumns
        <3> QED
            BY <2>1, <3>1, <3>2 DEF TableInv
    <2>7. ASSUME uniqueKey # NoKey
          PROVE  /\ uniqueKey \in original.keys /\ ghost.columns # {}
                 /\ InKey(uniqueKey) # {}
        <3>1. uniqueKey \in UsableSharedKeys(original, ghost) /\ ghost = Altered(original, statement)
            BY <2>1, <2>7 DEF TableInv
        <3>2. PICK l \in ghost.keys : uniqueKey \in original.keys /\ uniqueKey.columns = l.columns
            BY <3>1 DEF UsableSharedKeys, getSharedUniqueKeys, EqualsByNames
        <3>3. InKey(uniqueKey) \subseteq {g.name : g \in ghost.columns}
            BY <2>1, <3>1, <3>2 DEF StatementInv, Statement
        <3>4. InKey(uniqueKey) # {}
            BY <2>1, <3>2, KeyShape DEF StatementInv, Original
        <3> QED
            BY <3>2, <3>3, <3>4
    <2>8. pc = "accepted" => uniqueKey # NoKey /\ pairs # {}
        <3>1. SUFFICES ASSUME pc = "accepted" PROVE uniqueKey # NoKey /\ pairs # {}
            OBVIOUS
        <3>2. uniqueKey \in original.keys /\ InKey(uniqueKey) \subseteq {p[2] : p \in pairs}
            BY <2>1, <3>1 DEF TableInv, UsableSharedKeys, getSharedUniqueKeys
        <3>3. InKey(uniqueKey) # {}
            BY <2>1, <3>2, KeyShape DEF StatementInv, Original
        <3>4. InKey(NoKey) = {}
            BY DEF InKey, NoKey
        <3> QED
            BY <3>2, <3>3, <3>4
    <2>9. pc = "startSlave" => replicates = "none"
        BY <2>1 DEF BinlogInv
    <2> QED
        BY <2>2, <2>3, <2>4, <2>5, <2>6, <2>7, <2>8, <2>9 DEF TypeOK
<1> QED
    BY <1>1, InvariantHolds, PTL

(* The walk to the master ends at one, in any topology, also if servers    *)
(* replicate in a circle or the inspected server is given by an alias.     *)
THEOREM MasterFound == Spec => []MasterIsMaster
<1>1. ASSUME IInv PROVE MasterIsMaster
    BY <1>1 DEF IInv, RolesInv, IsTop, FromRoles, FromLog, FromGhost, MasterIsMaster
<1> QED
    BY <1>1, InvariantHolds, PTL

(* Every write to the migrated table gets to the binary log of the         *)
(* inspected server, as full rows.                                         *)
THEOREM ChangesArrive == Spec => []ChangesReachInspector
<1>1. ASSUME IInv PROVE ChangesReachInspector
    <2> SUFFICES ASSUME pc = "accepted", ~options.tungsten
                 PROVE  /\ binlog.logBin /\ binlog.fullImage
                        /\ IF ~OnReplica /\ ServerAt(applier.Key) = Inspected
                           THEN binlog.format = "ROW"
                           ELSE /\ binlog.logSlaveUpdates
                                /\ replicates = "both" /\ ~options.assumeRBR => binlog.thread = "ROW"
        BY DEF ChangesReachInspector
    <2>1. pc \in FromFormat /\ pc \in FromTable /\ pc \in FromLog
        BY DEF FromFormat, FromTable, FromMaster, FromRoles, FromLog, FromGhost
    <2>2. InspectorIsAlsoApplier <=> ServerAt(applier.Key) = Inspected
        BY <1>1, SameServer DEF IInv, WalkType, InspectorIsAlsoApplier
    <2> QED
        BY <1>1, <2>1, <2>2 DEF IInv, BinlogInv
<1> QED
    BY <1>1, InvariantHolds, PTL

-----------------------------------------------------------------------------
(* The columns.                                                            *)

LEMMA SameWord ==
    ASSUME StatementInv, NEW c \in original.columns, NEW d \in original.columns,
           EqualFold(c.name, d.name)
    PROVE  c = d
BY DEF StatementInv, Original, EqualFold

LEMMA NameIsLower ==
    ASSUME StatementInv, NEW c \in original.columns
    PROVE  /\ c.name \in Name /\ c.name = Lower(c.name.word) /\ c.name.word \in Word
           /\ c.holds = c.name.word /\ Named(original, c.name) = c
<1>1. c \in Column
    BY DEF StatementInv, Original
<1>2. /\ c.name = Lower(c.name.word) /\ c.holds = c.name.word
      /\ \A d \in original.columns : d.name = c.name => d = c
    BY DEF StatementInv, Original
<1>3. Named(original, c.name) = c
    BY <1>2 DEF Named
<1> QED
    BY <1>1, <1>2, <1>3 DEF Column, Name

(* Two clauses about a column are one.                                     *)
LEMMA OneClause ==
    ASSUME StatementInv, NEW w \in Word, NEW x \in ClauseOn(statement, w),
           NEW y \in ClauseOn(statement, w)
    PROVE  x = y
BY DEF StatementInv, Statement

(* A column is there as long as it is not dropped.                         *)
LEMMA StaysUnlessDropped ==
    ASSUME StatementInv, NEW c \in original.columns
    PROVE  Became(c, statement) = {} <=>
               \E d \in DroppedColumnsMap(statement) : EqualFold(c.name, d)
<1>1. (\E d \in DroppedColumnsMap(statement) : EqualFold(c.name, d)) <=>
          \E x \in ClauseOn(statement, c.name.word) : x.verb = "drop"
    BY DEF DroppedColumnsMap, ClausesOf, ClauseOn, EqualFold
<1>2. \A x, y \in ClauseOn(statement, c.name.word) : x = y
    BY OneClause, NameIsLower
<1> QED
    BY <1>1, <1>2 DEF Became

(* Where gh-ost, which knows the renames, looks for a column, MySQL has    *)
(* put it, in some spelling.                                               *)
Renames == GetNonTrivialRenames(statement)
MappedTo(n) == IF Lookup(Renames, n) = {} THEN {n} ELSE Lookup(Renames, n)

LEMMA RenamesOf ==
    ASSUME NEW n, NEW m
    PROVE  m \in Lookup(Renames, n) <=>
               \E x \in statement : x.verb = "change" /\ x.old = n /\ x.new = m /\ m # n
<1>1. m \in Lookup(Renames, n) <=> \E r \in Renames : r[1] = n /\ r[2] = m
    BY DEF Lookup
<1>2. \A r : r \in Renames <=>
          \E x \in statement : x.verb = "change" /\ r = <<x.old, x.new>> /\ x.old # x.new
    BY DEF Renames, GetNonTrivialRenames, columnRenameMap, ClausesOf
<1>3. ASSUME NEW x \in statement, x.verb = "change", x.old = n, x.new = m, m # n
      PROVE  \E r \in Renames : r[1] = n /\ r[2] = m
    <2>1. <<n, m>> \in Renames
        BY <1>2, <1>3
    <2> QED
        BY <2>1
<1>4. ASSUME NEW r \in Renames, r[1] = n, r[2] = m
      PROVE  \E x \in statement : x.verb = "change" /\ x.old = n /\ x.new = m /\ m # n
    BY <1>2, <1>4
<1> QED
    BY <1>1, <1>3, <1>4

LEMMA FoundWhereItIs ==
    ASSUME StatementInv, SpelledAlike, NEW c \in original.columns,
           NEW g \in Became(c, statement), NEW m \in MappedTo(c.name)
    PROVE  m.word = g.name.word
<1> DEFINE n == c.name
<1>1. n = Lower(n.word) /\ n.word \in Word
    BY NameIsLower
<1>2. CASE ClauseOn(statement, n.word) = {} /\ g = c
    <2>1. Lookup(Renames, n) = {}
        BY <1>2, RenamesOf DEF ClauseOn
    <2> QED
        BY <1>2, <2>1 DEF MappedTo
<1>3. CASE \E x \in ClauseOn(statement, n.word) : x.verb \in {"change", "modify"} /\ Becomes(c, x, g)
    <2>1. PICK x \in ClauseOn(statement, n.word) : x.verb \in {"change", "modify"} /\ g.name = x.new
        BY <1>3 DEF Becomes
    <2>2. ASSUME NEW k \in Lookup(Renames, n) PROVE x.verb = "change" /\ k = x.new
        <3>1. PICK y \in statement : y.verb = "change" /\ y.old = n /\ y.new = k
            BY RenamesOf
        <3>2. y = x
            BY <1>1, <3>1, OneClause DEF ClauseOn
        <3> QED
            BY <3>1, <3>2
    <2>3. CASE Lookup(Renames, n) # {}
        BY <2>1, <2>2, <2>3 DEF MappedTo
    <2>4. CASE Lookup(Renames, n) = {}
        <3>1. m = n
            BY <2>4 DEF MappedTo
        <3>2. CASE x.verb = "modify"
            BY <2>1, <3>1, <3>2 DEF ClauseOn
        <3>3. CASE x.verb = "change"
            <4>1. x \in statement /\ x.old.word = n.word
                BY <3>3 DEF ClauseOn
            <4>2. x.old = n
                BY <1>1, <3>3, <4>1 DEF SpelledAlike, ClausesOf
            <4>3. x.new = n
                BY <2>4, <3>3, <4>1, <4>2, RenamesOf
            <4> QED
                BY <2>1, <3>1, <4>3
        <3> QED
            BY <2>1, <3>2, <3>3
    <2> QED
        BY <2>3, <2>4
<1> QED
    BY <1>2, <1>3, Becoming

LEMMA MappedSomewhere == \A n : MappedTo(n) # {}
BY DEF MappedTo

(* The columns of the ghost table that hold data are those that the        *)
(* columns of the original table became.                                   *)
LEMMA HoldsData ==
    ASSUME StatementInv, NEW g \in Altered(original, statement).columns, g.holds # NoColumn
    PROVE  \E c \in original.columns :
               g \in Became(c, statement) /\ g.holds = c.name.word /\ g.generated = c.generated
<1>1. PICK c \in original.columns : g \in Became(c, statement)
    BY GhostColumns
<1>2. g.holds = c.holds /\ g.generated = c.generated
    BY <1>1, Becoming DEF Becomes
<1> QED
    BY <1>1, <1>2, NameIsLower

LEMMA BecomesGhost ==
    ASSUME StatementInv, NEW c \in original.columns, NEW g \in Became(c, statement)
    PROVE  /\ g \in Altered(original, statement).columns
           /\ g.holds = c.name.word /\ g.holds # NoColumn /\ g.generated = c.generated
<1>1. g.holds = c.holds /\ g.generated = c.generated
    BY Becoming DEF Becomes
<1>2. g \in Altered(original, statement).columns
    BY DEF Altered
<1> QED
    BY <1>1, <1>2, NameIsLower, Words

(* The columns that are there, and not generated, are those gh-ost shares. *)
LEMMA SharedIsKept ==
    ASSUME StatementInv, SpelledAlike, ghost = Altered(original, statement), ~TakesGeneratedName,
           NEW c \in original.columns
    PROVE  IsSharedColumn(c.name, original, ghost, Renames, DroppedColumnsMap(statement))
               <=> ~c.generated /\ Became(c, statement) # {}
<1> DEFINE n == c.name
<1> DEFINE virtual == GetTableColumns(original)[2] \cup GetTableColumns(ghost)[2]
<1>1. (\A v \in virtual : ~EqualFold(n, v)) => ~c.generated
    BY DEF GetTableColumns, EqualFold
<1>2. ~c.generated => \A v \in virtual : ~EqualFold(n, v)
    <2> SUFFICES ASSUME ~c.generated, NEW v \in virtual, EqualFold(n, v) PROVE FALSE
        OBVIOUS
    <2>1. CASE \E d \in original.columns : d.generated /\ v = d.name
        BY <2>1, SameWord
    <2>2. CASE \E g \in ghost.columns : g.generated /\ v = g.name
        BY <2>2 DEF TakesGeneratedName
    <2> QED
        BY <2>1, <2>2 DEF GetTableColumns
<1>3. (\A d \in DroppedColumnsMap(statement) : ~EqualFold(n, d)) <=> Became(c, statement) # {}
    BY StaysUnlessDropped
<1>4. ASSUME NEW g \in Became(c, statement)
      PROVE  \E h \in GetTableColumns(ghost)[1] :
                 EqualFold(n, h) \/ \E m \in Lookup(Renames, n) : EqualFold(m, h)
    <2>1. g.name \in GetTableColumns(ghost)[1]
        BY BecomesGhost DEF GetTableColumns
    <2>2. CASE Lookup(Renames, n) = {}
        <3>1. n.word = g.name.word
            BY <2>2, FoundWhereItIs DEF MappedTo
        <3> QED
            BY <2>1, <3>1 DEF EqualFold
    <2>3. CASE Lookup(Renames, n) # {}
        <3>1. PICK m \in Lookup(Renames, n) : m.word = g.name.word
            BY <2>3, FoundWhereItIs DEF MappedTo
        <3> QED
            BY <2>1, <3>1 DEF EqualFold
    <2> QED
        BY <2>2, <2>3
<1> QED
    BY <1>1, <1>2, <1>3, <1>4 DEF IsSharedColumn

(* The pairs of gh-ost are the columns that the ghost table takes over,    *)
(* under the names it has them.                                            *)
LEMMA PairsAreKept ==
    ASSUME StatementInv, SpelledAlike, ghost = Altered(original, statement), ~TakesGeneratedName,
           pairs = getSharedColumns(original, ghost, Renames, DroppedColumnsMap(statement))
    PROVE  {<<p[1].word, p[2].word>> : p \in pairs} =
               {<<g.holds, g.name.word>> :
                    g \in {c \in ghost.columns : c.holds # NoColumn /\ ~c.generated}}
<1> DEFINE taken == {c \in ghost.columns : c.holds # NoColumn /\ ~c.generated}
<1>1. \A p : p \in pairs <=>
          \E c \in original.columns :
              /\ ~c.generated /\ Became(c, statement) # {}
              /\ \E m \in MappedTo(c.name) : p = <<c.name, m>>
    <2>1. \A p : p \in pairs <=>
              \E n \in {k \in GetTableColumns(original)[1] :
                           IsSharedColumn(k, original, ghost, Renames, DroppedColumnsMap(statement))} :
                  \E m \in MappedTo(n) : p = <<n, m>>
        BY DEF getSharedColumns, MappedTo
    <2>2. GetTableColumns(original)[1] = {c.name : c \in original.columns}
        BY DEF GetTableColumns
    <2> QED
        BY <2>1, <2>2, SharedIsKept
<1>2. ASSUME NEW p \in pairs
      PROVE  \E g \in taken : <<p[1].word, p[2].word>> = <<g.holds, g.name.word>>
    <2>1. PICK c \in original.columns :
              /\ ~c.generated /\ Became(c, statement) # {}
              /\ \E m \in MappedTo(c.name) : p = <<c.name, m>>
        BY <1>1
    <2>2. PICK m \in MappedTo(c.name) : p = <<c.name, m>>
        BY <2>1
    <2>3. PICK g \in Became(c, statement) : TRUE
        BY <2>1
    <2>4. m.word = g.name.word
        BY FoundWhereItIs
    <2>5. g \in taken /\ g.holds = c.name.word
        BY <2>1, BecomesGhost
    <2> QED
        BY <2>2, <2>4, <2>5
<1>3. ASSUME NEW g \in taken
      PROVE  \E p \in pairs : <<g.holds, g.name.word>> = <<p[1].word, p[2].word>>
    <2>1. PICK c \in original.columns :
              g \in Became(c, statement) /\ g.holds = c.name.word /\ g.generated = c.generated
        BY HoldsData
    <2>2. PICK m \in MappedTo(c.name) : TRUE
        BY MappedSomewhere
    <2>3. m.word = g.name.word
        BY <2>1, FoundWhereItIs
    <2>4. <<c.name, m>> \in pairs
        BY <1>1, <2>1, <2>2
    <2> QED
        BY <2>1, <2>3, <2>4
<1> QED
    BY <1>2, <1>3

(* No data is left out, and none is copied to another column: the pairs    *)
(* are the columns the ghost table takes over, if renames are approved and *)
(* spelled as in the table, and no column takes the name of a generated    *)
(* one.                                                                    *)
THEOREM ColumnsArePaired == Spec => []ColumnsPaired
<1>1. ASSUME IInv PROVE ColumnsPaired
    <2> SUFFICES ASSUME pc = "accepted", ~options.skip, SpelledAlike, ~TakesGeneratedName
                 PROVE  {<<p[1].word, p[2].word>> : p \in pairs} =
                            {<<g.holds, g.name.word>> :
                                g \in {c \in ghost.columns : c.holds # NoColumn /\ ~c.generated}}
        BY DEF ColumnsPaired
    <2>1. StatementInv /\ renames = Renames /\ ghost = Altered(original, statement) /\ Paired
        BY <1>1 DEF IInv, RenamesInv, TableInv, FromGhost, Renames
    <2> QED
        BY <2>1, PairsAreKept DEF Paired
<1> QED
    BY <1>1, InvariantHolds, PTL

-----------------------------------------------------------------------------
(* The unique key.                                                         *)

(* A column of a key that no other column took over is where it was.       *)
LEMMA KeyColumn ==
    ASSUME StatementInv, ghost = Altered(original, statement), ~NameTakenOver,
           uniqueKey \in UsableSharedKeys(original, ghost), NEW n \in InKey(uniqueKey)
    PROVE  \E c \in original.columns : \E h \in Became(c, statement) :
               /\ c.name = n /\ h.name = n /\ Named(ghost, n).holds = n.word
<1>1. PICK c \in original.columns : c.name = n
    BY DEF UsableSharedKeys, getSharedUniqueKeys, StatementInv, Original
<1>2. PICK h \in ghost.columns : h.name = n
    BY DEF UsableSharedKeys, getSharedUniqueKeys, EqualsByNames, StatementInv, Statement
<1>3. \A g \in ghost.columns : g.name = n => g.holds = n.word
    BY DEF NameTakenOver, EqualFold
<1>4. Named(ghost, n) \in ghost.columns /\ Named(ghost, n).name = n
    BY <1>2 DEF Named
<1>5. h.holds = n.word /\ n.word # NoColumn
    BY <1>1, <1>2, <1>3, NameIsLower, Words
<1>6. PICK d \in original.columns : h \in Became(d, statement) /\ h.holds = d.name.word
    BY <1>2, <1>5, HoldsData
<1>7. d = c
    BY <1>1, <1>5, <1>6, SameWord DEF EqualFold
<1> QED
    BY <1>1, <1>2, <1>3, <1>4, <1>6, <1>7

(* It is paired with itself.                                               *)
LEMMA KeyColumnPaired ==
    ASSUME StatementInv, RenamesInv, ghost = Altered(original, statement), ~NameTakenOver,
           uniqueKey \in UsableSharedKeys(original, ghost), Paired,
           NEW n \in InKey(uniqueKey), n \in {p[2] : p \in pairs}
    PROVE  <<n, n>> \in pairs
<1>1. PICK c \in original.columns : c.name = n
    BY KeyColumn
<1>2. PICK m \in GetTableColumns(original)[1] :
          <<m, n>> \in pairs /\ (n = m \/ n \in Lookup(renames, m))
    BY DEF Paired, getSharedColumns
<1>3. PICK d \in original.columns : d.name = m
    BY DEF GetTableColumns
<1>4. ASSUME n # m PROVE FALSE
    <2>1. n \in Lookup(Renames, m)
        BY <1>2, <1>4 DEF RenamesInv, Lookup, Renames
    <2>2. PICK x \in statement : x.verb = "change" /\ x.old = m /\ x.new = n
        BY <2>1, RenamesOf
    <2>3. x \in ClauseOn(statement, d.name.word)
        BY <1>3, <2>2 DEF ClauseOn
    <2>4. PICK g \in Became(d, statement) : g.name = n
        <3>1. [d EXCEPT !.name = x.new, !.type = IF x.converts THEN "timestamp" ELSE @]
                  \in Became(d, statement)
            BY <2>2, <2>3 DEF Became
        <3>2. d \in Column
            BY DEF StatementInv, Original
        <3> QED
            BY <2>2, <3>1, <3>2 DEF Column
    <2>5. g \in ghost.columns /\ g.holds = d.name.word
        BY BecomesGhost
    <2>6. d.name.word = n.word
        BY <2>4, <2>5 DEF NameTakenOver, EqualFold
    <2>7. d = c
        BY <1>1, <2>6, SameWord DEF EqualFold
    <2> QED
        BY <1>1, <1>3, <1>4, <2>7
<1> QED
    BY <1>2, <1>4

(* A row that the key identifies in the original table it identifies in    *)
(* the ghost table: the columns are there under the same names, are        *)
(* copied, and keep their values.                                          *)
THEOREM KeyIdentifies == Spec => []KeyIdentifiesRows
<1>1. ASSUME IInv, pc = "accepted", ~NameTakenOver
      PROVE  /\ \E l \in ghost.keys :
                    /\ Len(l.columns) = Len(uniqueKey.columns)
                    /\ \A i \in DOMAIN l.columns :
                          Named(ghost, l.columns[i]).holds = uniqueKey.columns[i].word
             /\ InKey(uniqueKey) \subseteq {p[1] : p \in pairs}
             /\ \A g \in ghost.columns :
                    Lower(g.holds) \in InKey(uniqueKey) =>
                        g.type = Named(original, Lower(g.holds)).type
    <2>1. /\ StatementInv /\ RenamesInv /\ Paired /\ ghost = Altered(original, statement)
          /\ uniqueKey \in UsableSharedKeys(original, ghost)
          /\ InKey(uniqueKey) \subseteq {p[2] : p \in pairs} \ converted
        BY <1>1 DEF IInv, TableInv, FromGhost
    <2>2. \A n \in InKey(uniqueKey) : <<n, n>> \in pairs
        BY <1>1, <2>1, KeyColumnPaired
    <2>3. ASSUME NEW n \in InKey(uniqueKey) PROVE n \in {p[1] : p \in pairs}
        <3>1. <<n, n>> \in pairs /\ <<n, n>>[1] = n
            BY <2>2
        <3> QED
            BY <3>1
    <2>4. \E l \in ghost.keys :
              /\ Len(l.columns) = Len(uniqueKey.columns)
              /\ \A i \in DOMAIN l.columns :
                    Named(ghost, l.columns[i]).holds = uniqueKey.columns[i].word
        <3>1. PICK l \in ghost.keys : l.columns = uniqueKey.columns
            BY <2>1 DEF UsableSharedKeys, getSharedUniqueKeys, EqualsByNames
        <3>2. \A n \in InKey(uniqueKey) : Named(ghost, n).holds = n.word
            BY <1>1, <2>1, KeyColumn
        <3> QED
            BY <3>1, <3>2 DEF InKey
    <2>5. ASSUME NEW g \in ghost.columns, Lower(g.holds) \in InKey(uniqueKey)
          PROVE  g.type = Named(original, Lower(g.holds)).type
        <3> DEFINE n == Lower(g.holds)
        <3>0. PICK c \in original.columns : \E h \in Became(c, statement) : c.name = n /\ h.name = n
            BY <1>1, <2>1, <2>5, KeyColumn
        <3>1. PICK h \in Became(c, statement) : c.name = n /\ h.name = n
            BY <3>0
        <3>2. n.word = g.holds /\ g.holds = c.name.word /\ g.holds # NoColumn
            BY <2>1, <3>1, NameIsLower, Words DEF Lower
        <3>3. g \in Became(c, statement)
            <4>1. PICK d \in original.columns : g \in Became(d, statement) /\ g.holds = d.name.word
                BY <2>1, <3>2, HoldsData
            <4>2. d = c
                BY <2>1, <3>2, <4>1, SameWord DEF EqualFold
            <4> QED
                BY <4>1, <4>2
        <3>4. Named(original, n) = c
            BY <2>1, <3>1, NameIsLower
        <3>5. CASE ClauseOn(statement, c.name.word) = {}
            <4>1. g = c
                BY <2>1, <3>3, <3>5, Becoming
            <4> QED
                BY <3>4, <4>1
        <3>6. CASE ClauseOn(statement, c.name.word) # {}
            <4>1. PICK x \in ClauseOn(statement, c.name.word) :
                      x.verb \in {"change", "modify"} /\ Becomes(c, x, g)
                BY <2>1, <3>3, <3>6, Becoming
            <4>2. Becomes(c, x, h)
                BY <2>1, <3>6, <4>1, Becoming, OneClause, NameIsLower
            <4>3. g.name = n
                BY <3>1, <4>1, <4>2 DEF Becomes
            <4>4. ASSUME x.converts PROVE FALSE
                <5>1. c.type = "datetime"
                    <6>1. x \in statement /\ Named(original, Lower(c.name.word)) = c
                        BY <2>1, NameIsLower DEF ClauseOn
                    <6>2. Clause(original, x)
                        BY <2>1, <6>1 DEF StatementInv, Statement
                    <6>3. (x.verb = "modify" => x.new.word = c.name.word)
                          /\ (x.verb = "change" => x.old.word = c.name.word)
                        BY DEF ClauseOn
                    <6> QED
                        BY <4>1, <4>4, <6>1, <6>2, <6>3 DEF Clause
                <5>2. "datetime" \in applyColumnTypes(original, n)
                    BY <3>1, <5>1 DEF applyColumnTypes
                <5>3. "timestamp" \in applyColumnTypes(ghost, n)
                    BY <4>1, <4>3, <4>4 DEF applyColumnTypes, Becomes
                <5>4. <<n, n>> \in pairs
                    BY <2>2, <2>5
                <5>5. n \in converted
                    BY <2>1, <5>2, <5>3, <5>4 DEF Paired, ConvertedColumns
                <5> QED
                    BY <2>1, <2>5, <5>5
            <4> QED
                BY <3>4, <4>1, <4>4 DEF Becomes
        <3> QED
            BY <3>5, <3>6
    <2> QED
        BY <2>3, <2>4, <2>5
<1>2. IInv => KeyIdentifiesRows
    BY <1>1 DEF KeyIdentifiesRows
<1> QED
    BY <1>2, InvariantHolds, PTL

=============================================================================

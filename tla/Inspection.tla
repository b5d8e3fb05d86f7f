----------------------------- MODULE Inspection ------------------------------
(***************************************************************************)
(* What gh-ost finds out before it copies a row, and whether it goes on:   *)
(* the statement (validateStatement), the server it is pointed at and the  *)
(* master it will write to (initiateInspector), and, once the ghost table  *)
(* exists, the columns and the unique key of the migration                 *)
(* (inspectOriginalAndGhostTables).                                        *)
(***************************************************************************)
EXTENDS Columns

CONSTANTS
    Server,      \* MySQL servers
    Inspected,   \* the one gh-ost is pointed at
    Alias,       \* another address of it, as 127.0.0.1 is
    Nowhere      \* no server

ASSUME ServerAssumption ==
    /\ Inspected \in Server
    /\ Alias \notin Server /\ Nowhere \notin Server \cup {Alias}

ASSUME WordAssumption ==
    /\ NoColumn \notin Word
    /\ \E u, v, w \in Word : u # v /\ v # w /\ w # u

Address == Server \cup {Alias}
ServerAt(address) == IF address = Alias THEN Inspected ELSE address

(* A ConnectionConfig, as far as Equals tells two apart.                   *)
Config == [Key : Address, ImpliedKey : Server]
At(s) == [Key |-> s, ImpliedKey |-> s]

(* Mutant: by the addresses in use only.                                   *)
EqualsByKey(c, d) == c.Key = d.Key

Equals(c, d) == c.Key = d.Key \/ c.ImpliedKey = d.ImpliedKey

Grants == {"all", "super", "replicationClient", "replicationSlave", "dbAll"}

(* What validateTable and its companions look for, and a master whose      *)
(* table has other columns.                                                *)
Obstacles == {"missing", "view", "parentKey", "childKey", "trigger", "differs"}

NoKey == [primary |-> FALSE, columns |-> <<>>]

VARIABLES
    options,    \* the command line
    statement,  \* --alter
    original,   \* the table
    obstacles,  \* what else there is about it
    grants,     \* of gh-ost's user
    master,     \* of each server, or Nowhere
    broken,     \* servers whose replication does not run
    binlog,     \* settings of the inspected server
    replicates, \* its replication: "both" threads, only the "sql" thread, or "none"
    pc,         \* where Migrate is; "accepted", "refused" or "panicked" in the end
    renames,    \* ColumnRenameMap
    config,     \* connectionConfig of the walk to the master
    visited,    \* visitedKeys
    applier,    \* ApplierConnectionConfig
    ghost,      \* the ghost table
    uniqueKey,  \* UniqueKey
    pairs,      \* SharedColumns and MappedSharedColumns
    converted   \* the mapped columns with a time zone conversion

given      == <<options, statement, original, obstacles, grants, master, broken>>
serverVars == <<binlog, replicates>>
walkVars   == <<config, visited, applier>>
tableVars  == <<ghost, uniqueKey, pairs, converted>>
vars       == <<given, serverVars, pc, renames, walkVars, tableVars>>

Ended == {"accepted", "refused", "panicked"}

OnReplica == options.mode = "replica"  \* --test-on-replica, --migrate-on-replica

InspectorConfig == [Key |-> options.host, ImpliedKey |-> Inspected]
InspectorIsAlsoApplier == Equals(InspectorConfig, applier)

HasReplicas == \E s \in Server : master[s] = Inspected

-----------------------------------------------------------------------------
(* Where it starts: one thing at a time is out of the ordinary.            *)

PlainOptions == [
    approve |-> TRUE, skip |-> FALSE, nullable |-> FALSE, discardKeys |-> FALSE,
    skipKeyChecks |-> FALSE, assumeRBR |-> FALSE, switchToRBR |-> FALSE,
    mode |-> "master", allowOnMaster |-> FALSE, allowMasterMaster |-> FALSE,
    tungsten |-> FALSE, assumeMaster |-> Nowhere, host |-> Inspected]

PlainBinlog == [logBin |-> TRUE, format |-> "ROW", thread |-> "ROW",
                fullImage |-> TRUE, logSlaveUpdates |-> TRUE]

(* The columns are called after two of the words.                          *)
W1 == CHOOSE w \in Word : TRUE
W2 == CHOOSE w \in Word : w # W1
W3 == CHOOSE w \in Word : w \notin {W1, W2}
K1 == <<Lower(W1)>>
K2 == <<Lower(W2)>>
K12 == K1 \o K2
Key(primary, columns) == [primary |-> primary, columns |-> columns]

PlainTable == [columns |-> {Plain(W1, "int", FALSE, FALSE), Plain(W2, "text", FALSE, FALSE)},
               keys |-> {Key(TRUE, K1)}]

Tables ==
    [columns : {{Plain(W1, "int", FALSE, FALSE), c} :
                   c \in {Plain(W2, "int", FALSE, FALSE), Plain(W2, "int", TRUE, FALSE),
                          Plain(W2, "int", FALSE, TRUE), Plain(W2, "float", FALSE, FALSE),
                          Plain(W2, "datetime", FALSE, FALSE),
                          Plain(W2, "datetime", TRUE, FALSE)}},
     keys : {{}, {Key(TRUE, K1)}, {Key(FALSE, K1)}, {Key(FALSE, K2)}, {Key(FALSE, K12)},
             {Key(TRUE, K1), Key(FALSE, K2)}, {Key(FALSE, K1), Key(FALSE, K2)},
             {Key(FALSE, K1), Key(FALSE, K12)}}]

(* The clauses a statement may have about a column.                        *)
ClausesFor(table, w) ==
    LET types == {FALSE} \cup {Named(table, Lower(w)).type = "datetime"}
    IN  {[verb |-> "drop", old |-> Upper(w)]} \cup
        [verb : {"modify"}, new : {Lower(w), Upper(w)}, converts : types] \cup
        [verb : {"change"}, old : {Lower(w), Upper(w)}, new : {Lower(v) : v \in Word},
         converts : types]

Optional(S) == {{}} \cup {{x} : x \in S}

Offered(table) ==
    Optional(ClausesFor(table, W1)) \X Optional(ClausesFor(table, W2))
    \X Optional({[verb |-> "add", new |-> Lower(w)] : w \in {W1, W3}})
    \X Optional([verb : {"addKey", "dropKey"}, columns : {K1}])

Statements(table) ==
    {s \in {o[1] \cup o[2] \cup o[3] \cup o[4] : o \in Offered(table)} : Legal(table, s)}

InitServers ==
    /\ binlog = PlainBinlog /\ replicates = "none"
    /\ grants = {"all"} /\ broken = {}
    /\ master = [s \in Server |-> Nowhere]

InitTable ==
    /\ original = PlainTable /\ obstacles = {} /\ statement = {}

(* Any table and statement, on a server without a master.                  *)
AnyStatement ==
    /\ original \in Tables /\ statement \in Statements(original)
    /\ obstacles = {}
    /\ \E r \in {<<TRUE, FALSE>>, <<FALSE, TRUE>>, <<FALSE, FALSE>>}, n \in BOOLEAN :
          /\ ClausesOf(statement, "change") = {} => r[1]
          /\ n => \E c \in original.columns : c.nullable
          /\ options = [PlainOptions EXCEPT !.approve = r[1], !.skip = r[2], !.nullable = n,
                                            !.allowOnMaster = TRUE]
    /\ InitServers

(* A table that cannot be migrated.                                        *)
AnyObstacle ==
    /\ original = PlainTable
    /\ statement \in {{}, {[verb |-> "renameTable"]}}
    /\ obstacles \in SUBSET Obstacles
    /\ \E d, k \in BOOLEAN :
          options = [PlainOptions EXCEPT !.discardKeys = d, !.skipKeyChecks = k,
                                         !.allowOnMaster = TRUE]
    /\ InitServers

(* Any topology, any option about it.                                      *)
AnyTopology ==
    /\ InitTable /\ grants = {"all"}
    /\ master \in [Server -> Server \cup {Nowhere}] /\ \A s \in Server : master[s] # s
    /\ broken \in {{}} \cup {{s} : s \in Server}
    /\ replicates = IF master[Inspected] = Nowhere \/ Inspected \in broken THEN "none" ELSE "both"
    /\ \E b \in BOOLEAN : binlog = [PlainBinlog EXCEPT !.logSlaveUpdates = b]
    /\ \E o \in [mode : {"master", "replica"}, allowOnMaster : BOOLEAN,
                 allowMasterMaster : BOOLEAN, tungsten : BOOLEAN,
                 assumeMaster : {Nowhere} \cup Server, host : {Inspected, Alias}] :
          /\ o.allowOnMaster => o.mode = "master"
          /\ options = [n \in DOMAIN PlainOptions |->
                           IF n \in DOMAIN o THEN o[n] ELSE PlainOptions[n]]

(* Any binary log, grants and state of replication.                        *)
AnyBinlog ==
    /\ InitTable /\ broken = {}
    /\ \E s \in Server \ {Inspected} :
          master \in {[t \in Server |-> Nowhere],
                      [t \in Server |-> IF t = Inspected THEN s ELSE Nowhere],
                      [t \in Server |-> IF t = s THEN Inspected ELSE Nowhere]}
    /\ replicates \in IF master[Inspected] = Nowhere THEN {"none"} ELSE {"both", "sql", "none"}
    /\ binlog \in [logBin : BOOLEAN, format : {"ROW", "STATEMENT"},
                   thread : {"ROW", "STATEMENT"}, fullImage : BOOLEAN,
                   logSlaveUpdates : BOOLEAN]
    /\ grants \in {{"all"}, {}, {"super", "replicationSlave", "dbAll"}, {"super", "dbAll"},
                   {"replicationClient", "replicationSlave", "dbAll"}}
    /\ \E f \in {<<FALSE, FALSE>>, <<TRUE, FALSE>>, <<FALSE, TRUE>>}, a \in BOOLEAN,
          m \in {Nowhere, master[Inspected]} :
          options = [PlainOptions EXCEPT !.assumeRBR = f[1], !.switchToRBR = f[2],
                                         !.allowOnMaster = a, !.assumeMaster = m]

Init ==
    /\ AnyStatement \/ AnyObstacle \/ AnyTopology \/ AnyBinlog
    /\ pc = "statement" /\ renames = {}
    /\ config = InspectorConfig /\ visited = {} /\ applier = At(Inspected)
    /\ ghost = [columns |-> {}, keys |-> {}] /\ uniqueKey = NoKey
    /\ pairs = {} /\ converted = {}

-----------------------------------------------------------------------------
GoOn(ok, next) == pc' = IF ok THEN next ELSE "refused"

validateStatement ==
    LET found == GetNonTrivialRenames(statement)
        heeded == found # {} /\ ~options.skip
    IN  /\ pc = "statement"
        /\ renames' = IF ~IsRenameTable(statement) /\ heeded THEN found ELSE {}
        /\ GoOn(~IsRenameTable(statement) /\ (heeded => options.approve), "grants")
        /\ UNCHANGED <<given, serverVars, walkVars, tableVars>>

validateGrants ==
    /\ pc = "grants"
    /\ GoOn(\/ "all" \in grants
            \/ /\ grants \cap {"super", "replicationClient"} # {}
               /\ {"replicationSlave", "dbAll"} \subseteq grants, "binlogs")
    /\ UNCHANGED <<given, serverVars, renames, walkVars, tableVars>>

RequiresBinlogFormatChange == binlog.format # "ROW"

validateBinlogs ==
    /\ pc = "binlogs"
    /\ GoOn(/\ binlog.logBin /\ binlog.fullImage
            /\ RequiresBinlogFormatChange => options.switchToRBR /\ ~HasReplicas, "format")
    /\ UNCHANGED <<given, serverVars, renames, walkVars, tableVars>>

(* MySQL lets this user stop replication and set global variables.         *)
MayAdminister == grants \cap {"all", "super"} # {}

(* Mutant: replication is restarted only when the format was changed.      *)
applyBinlogFormatWhenNeeded ==
    /\ pc = "format"
    /\ IF RequiresBinlogFormatChange
       THEN /\ GoOn(MayAdminister, "restart")
            /\ binlog' = [binlog EXCEPT !.format = IF MayAdminister THEN "ROW" ELSE @]
       ELSE pc' = "table" /\ UNCHANGED binlog
    /\ UNCHANGED <<given, replicates, renames, walkVars, tableVars>>

applyBinlogFormat ==
    /\ pc = "format"
    /\ IF RequiresBinlogFormatChange
       THEN /\ GoOn(MayAdminister, "restart")
            /\ binlog' = [binlog EXCEPT !.format = IF MayAdminister THEN "ROW" ELSE @]
       ELSE /\ pc' = IF options.assumeRBR THEN "table" ELSE "restart"
            /\ UNCHANGED binlog
    /\ UNCHANGED <<given, replicates, renames, walkVars, tableVars>>

(* restartReplication.  The error of GetMasterKeyFromSlaveStatus is        *)
(* ignored: a replica of which one thread does not run is "not a replica". *)
SkipRestart ==
    /\ pc = "restart" /\ replicates # "both"
    /\ pc' = "table"
    /\ UNCHANGED <<given, serverVars, renames, walkVars, tableVars>>

(* Mutant: that STOP SLAVE failed goes unnoticed.                          *)
StopSlaveAnyway ==
    /\ pc = "restart" /\ replicates = "both"
    /\ replicates' = IF MayAdminister THEN "none" ELSE "both"
    /\ pc' = "startSlave"
    /\ UNCHANGED <<given, binlog, renames, walkVars, tableVars>>

StopSlave ==
    /\ pc = "restart" /\ replicates = "both"
    /\ replicates' = IF MayAdminister THEN "none" ELSE "both"
    /\ GoOn(MayAdminister, "startSlave")
    /\ UNCHANGED <<given, binlog, renames, walkVars, tableVars>>

StartSlave ==
    /\ pc = "startSlave"
    /\ replicates' = "both" /\ binlog' = [binlog EXCEPT !.thread = binlog.format]
    /\ pc' = "table"
    /\ UNCHANGED <<given, renames, walkVars, tableVars>>

StartSlaveFails ==
    /\ pc = "startSlave"
    /\ pc' = "refused"
    /\ UNCHANGED <<given, serverVars, renames, walkVars, tableVars>>

(* ValidateOriginalTable and InspectOriginalTable.                         *)
ValidateOriginalTable ==
    /\ pc = "table"
    /\ GoOn(/\ obstacles \cap {"missing", "view", "trigger"} = {}
            /\ \/ options.skipKeyChecks
               \/ "parentKey" \notin obstacles
                  /\ ("childKey" \in obstacles => options.discardKeys)
            /\ original.keys # {}, "master")
    /\ UNCHANGED <<given, serverVars, renames, walkVars, tableVars>>

AssumeMasterHostname ==
    /\ pc = "master" /\ options.assumeMaster # Nowhere
    /\ applier' = At(options.assumeMaster)
    /\ pc' = "roles"
    /\ UNCHANGED <<given, serverVars, renames, config, visited, tableVars>>

(* SHOW SLAVE STATUS on the server of config.                              *)
MasterKey == master[ServerAt(config.Key)]
ReplicationBroken ==
    /\ MasterKey # Nowhere
    /\ \/ ServerAt(config.Key) \in broken
       \/ ServerAt(config.Key) = Inspected /\ replicates # "both"

(* Mutant: a server is remembered only when it is asked again.             *)
ForgetfulConnectionConfig ==
    /\ pc = "master" /\ options.assumeMaster = Nowhere
    /\ IF ReplicationBroken THEN pc' = "refused" /\ UNCHANGED walkVars
       ELSE IF MasterKey = Nowhere THEN pc' = "roles" /\ applier' = config
                                        /\ UNCHANGED <<config, visited>>
       ELSE config' = At(MasterKey) /\ UNCHANGED <<pc, visited, applier>>
    /\ UNCHANGED <<given, serverVars, renames, tableVars>>

(* GetMasterConnectionConfigSafe, one call of the recursion.               *)
GetMasterConnectionConfigSafe ==
    /\ pc = "master" /\ options.assumeMaster = Nowhere
    /\ IF ReplicationBroken THEN pc' = "refused" /\ UNCHANGED walkVars
       ELSE IF MasterKey = Nowhere \/ (MasterKey \in visited /\ options.allowMasterMaster)
       THEN pc' = "roles" /\ applier' = config /\ UNCHANGED <<config, visited>>
       ELSE IF MasterKey \in visited THEN pc' = "refused" /\ UNCHANGED walkVars
       ELSE /\ config' = At(MasterKey) /\ visited' = visited \cup {MasterKey}
            /\ UNCHANGED <<pc, applier>>
    /\ UNCHANGED <<given, serverVars, renames, tableVars>>

(* The rest of initiateInspector: on which server the migration is run.    *)
ValidateRoles ==
    /\ pc = "roles"
    /\ applier' = IF OnReplica /\ ~InspectorIsAlsoApplier THEN InspectorConfig ELSE applier
    /\ GoOn(IF OnReplica THEN ~InspectorIsAlsoApplier
            ELSE InspectorIsAlsoApplier => options.allowOnMaster, "logSlaveUpdates")
    /\ UNCHANGED <<given, serverVars, renames, config, visited, tableVars>>

validateLogSlaveUpdates ==
    /\ pc = "logSlaveUpdates"
    /\ GoOn(\/ binlog.logSlaveUpdates \/ options.tungsten
            \/ ~OnReplica /\ InspectorIsAlsoApplier, "createGhost")
    /\ UNCHANGED <<given, serverVars, renames, walkVars, tableVars>>

(* The applier creates and alters the ghost table.                         *)
GhostTableMigrated ==
    /\ pc = "createGhost"
    /\ ghost' = Altered(original, statement)
    /\ pc' = "compare"
    /\ UNCHANGED <<given, serverVars, renames, walkVars, uniqueKey, pairs, converted>>

NoSharedUniqueKey ==
    /\ pc = "compare"
    /\ "differs" \in obstacles \/ UsableSharedKeys(original, ghost) = {}
    /\ pc' = "refused"
    /\ UNCHANGED <<given, serverVars, renames, walkVars, tableVars>>

(* HasTimezoneConversion of each column of the key, in turn: the process   *)
(* ends in a panic at one that is not among the mapped columns.            *)
CheckConversions(key, mapped, conversions) ==
    LET known(i) == key.columns[i] \in mapped
        bad(i) == ~known(i) \/ key.columns[i] \in conversions
        first == {i \in DOMAIN key.columns : bad(i) /\ \A j \in 1..(i - 1) : ~bad(j)}
    IN  IF first = {} THEN "accepted"
        ELSE IF \A i \in first : known(i) THEN "refused" ELSE "panicked"

inspectOriginalAndGhostTables ==
    /\ pc = "compare" /\ "differs" \notin obstacles
    /\ \E k \in FirstCandidates(original, UsableSharedKeys(original, ghost)) :
          /\ uniqueKey' = k
          /\ IF HasNullable(original, k) /\ ~options.nullable
             THEN pc' = "refused" /\ UNCHANGED <<pairs, converted>>
             ELSE /\ pairs' = getSharedColumns(original, ghost, renames,
                                               DroppedColumnsMap(statement))
                  /\ converted' = ConvertedColumns(original, ghost, pairs')
                  /\ pc' = CheckConversions(k, {p[2] : p \in pairs'}, converted')
    /\ UNCHANGED <<given, serverVars, renames, walkVars, ghost>>

Next ==
    \/ validateStatement \/ validateGrants \/ validateBinlogs \/ applyBinlogFormat
    \/ SkipRestart \/ StopSlave \/ StartSlave \/ StartSlaveFails
    \/ ValidateOriginalTable \/ AssumeMasterHostname \/ GetMasterConnectionConfigSafe
    \/ ValidateRoles \/ validateLogSlaveUpdates \/ GhostTableMigrated
    \/ NoSharedUniqueKey \/ inspectOriginalAndGhostTables

Spec == Init /\ [][Next]_vars

(* Nothing is waited for: the next statement is always sent.               *)
FairSpec == Spec /\ WF_vars(Next)

-----------------------------------------------------------------------------
(* The variables have their types; what is decided stays decided: renames  *)
(* are of columns the statement changes, columns are paired and a key is   *)
(* chosen only once the ghost table is there to compare with, and nothing  *)
(* is accepted without both.                                               *)
TypeOK ==
    /\ pc \in Ended \cup {"statement", "grants", "binlogs", "format", "restart", "startSlave",
                          "table", "master", "roles", "logSlaveUpdates", "createGhost",
                          "compare"}
    /\ renames \subseteq columnRenameMap(statement)
    /\ {config, applier} \subseteq [Key : Address, ImpliedKey : Server]
    /\ visited \subseteq Server
    /\ ghost.columns \subseteq Column
    /\ pairs \subseteq Name \X Name /\ converted \subseteq {p[2] : p \in pairs}
    /\ uniqueKey = NoKey \/ uniqueKey \in original.keys
    /\ pc = "accepted" => uniqueKey # NoKey /\ pairs # {}
    /\ ghost.columns = {} => uniqueKey = NoKey
    /\ pc = "startSlave" => replicates = "none"

(* The ghost column of every name with which gh-ost pairs a column of the  *)
(* original table holds the data of that column, and no data is left out:  *)
(* both tables' columns, as far as they are not generated, are paired.     *)
(* That takes approved renames, spelled as in the table (columnRenameMap   *)
(* is looked up by exact names), and that no column takes over the name of *)
(* a generated one.                                                        *)
SpelledAlike == \A c \in ClausesOf(statement, "change") : c.old = Lower(c.old.word)
TakesGeneratedName ==
    \E c \in original.columns, g \in ghost.columns :
        g.generated # c.generated /\ EqualFold(c.name, g.name)
ColumnsPaired ==
    pc = "accepted" /\ ~options.skip /\ SpelledAlike /\ ~TakesGeneratedName =>
        {<<p[1].word, p[2].word>> : p \in pairs} =
            {<<g.holds, g.name.word>> :
                 g \in {c \in ghost.columns : c.holds # NoColumn /\ ~c.generated}}

(* The chosen key tells rows apart in both tables: the ghost table has a   *)
(* unique key whose columns hold, one by one, the data of its columns,     *)
(* they are all copied, and none changes its value on the way.  It takes   *)
(* that no other column takes over the name of one in the key, as by       *)
(* CHANGE a b, CHANGE b a: keys are compared by names only.                *)
NameTakenOver ==
    \E g \in ghost.columns, n \in InKey(uniqueKey) : EqualFold(g.name, n) /\ g.holds # n.word
KeyIdentifiesRows ==
    pc = "accepted" /\ ~NameTakenOver =>
        /\ \E l \in ghost.keys :
              /\ Len(l.columns) = Len(uniqueKey.columns)
              /\ \A i \in DOMAIN l.columns :
                    Named(ghost, l.columns[i]).holds = uniqueKey.columns[i].word
        /\ InKey(uniqueKey) \subseteq {p[1] : p \in pairs}
        /\ \A g \in ghost.columns :
              Lower(g.holds) \in InKey(uniqueKey) => g.type = Named(original, Lower(g.holds)).type

(* The servers whose changes get to s.                                     *)
Upstream(s) ==
    {t \in Server : \A C \in SUBSET Server :
        (\A u \in C \cup {s} : master[u] \in C \cup {Nowhere}) => t \in C}

(* The master that is found is one: no server is above it, or, if that was *)
(* allowed, only servers that are also below it; what it does gets to the  *)
(* inspected server; and it is the inspected server itself only if that    *)
(* was allowed.  On a replica, gh-ost writes to the replica, which is one. *)
MasterIsMaster ==
    pc = "accepted" /\ options.assumeMaster = Nowhere =>
        LET s == ServerAt(applier.Key)
        IN  IF OnReplica THEN s = Inspected /\ master[s] # Nowhere
            ELSE /\ s \in {Inspected} \cup Upstream(Inspected)
                 /\ master[s] = Nowhere \/ (options.allowMasterMaster /\ s \in Upstream(s))
                 /\ s = Inspected => options.allowOnMaster

(* Whatever is written to the migrated table is in the inspected server's  *)
(* binary log, as full rows: writes of its own are logged in its format,   *)
(* writes it replicates in that of its replication thread, which takes it  *)
(* when it starts.                                                         *)
ChangesReachInspector ==
    pc = "accepted" /\ ~options.tungsten =>
        /\ binlog.logBin /\ binlog.fullImage
        /\ IF ~OnReplica /\ ServerAt(applier.Key) = Inspected
           THEN binlog.format = "ROW"
           ELSE /\ binlog.logSlaveUpdates
                /\ replicates = "both" /\ ~options.assumeRBR => binlog.thread = "ROW"

(* The inspection ends, whatever the topology.                             *)
InspectionEnds == <>(pc \in Ended)
=============================================================================

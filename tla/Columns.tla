------------------------------- MODULE Columns -------------------------------
(***************************************************************************)
(* What gh-ost makes of a table and of an ALTER statement: the renames and *)
(* drops its parser sees, the columns it pairs and the unique key by which *)
(* it identifies rows.  Beside it, what MySQL makes of the same statement. *)
(*                                                                         *)
(* MySQL compares column names regardless of case, gh-ost here and there.  *)
(* A name is a word in some spelling.  The original table spells its       *)
(* columns in lower case.  A table is its columns and its unique keys; the *)
(* columns of the ghost table also say whose data they are to hold.        *)
(***************************************************************************)
EXTENDS Integers, Sequences, FiniteSets

CONSTANTS Word, NoColumn

Name == [word : Word, spelling : {"lower", "upper"}]
Lower(w) == [word |-> w, spelling |-> "lower"]
Upper(w) == [word |-> w, spelling |-> "upper"]

EqualFold(m, n) == m.word = n.word

Type == {"int", "text", "float", "datetime", "timestamp"}

Column == [name : Name, type : Type, nullable : BOOLEAN, generated : BOOLEAN,
           holds : Word \cup {NoColumn}]

(* A column of the original table, which holds its own data.               *)
Plain(w, type, nullable, generated) ==
    [name |-> Lower(w), type |-> type, nullable |-> nullable,
     generated |-> generated, holds |-> w]

InKey(key) == {key.columns[i] : i \in DOMAIN key.columns}
Named(table, n) == CHOOSE c \in table.columns : c.name = n

(* GetTableColumns: the names, and those among them that are generated.    *)
GetTableColumns(table) ==
    <<{c.name : c \in table.columns}, {c.name : c \in {d \in table.columns : d.generated}}>>

-----------------------------------------------------------------------------
(* A statement is a set of clauses:                                        *)
(*   change [old, new, converts], modify [new, converts], drop [old],      *)
(*   add [new], addKey [columns], dropKey [columns], renameTable.          *)
(* converts: the new type is TIMESTAMP.                                    *)

ClausesOf(statement, verb) == {c \in statement : c.verb = verb}

(* The parser: columnRenameMap as pairs, droppedColumns, isRenameTable.    *)
columnRenameMap(statement) == {<<c.old, c.new>> : c \in ClausesOf(statement, "change")}
DroppedColumnsMap(statement) == {c.old : c \in ClausesOf(statement, "drop")}
IsRenameTable(statement) == ClausesOf(statement, "renameTable") # {}

GetNonTrivialRenames(statement) == {r \in columnRenameMap(statement) : r[1] # r[2]}

-----------------------------------------------------------------------------
(* MySQL: the statement applied to the (still empty) ghost table.          *)

ClauseOn(statement, w) ==
    {c \in statement : \/ c.verb \in {"change", "drop"} /\ c.old.word = w
                       \/ c.verb = "modify" /\ c.new.word = w}

(* What becomes of a column, if anything: at most one clause is about it.  *)
Became(column, statement) ==
    LET clauses == ClauseOn(statement, column.name.word)
    IN  IF clauses = {} THEN {column}
        ELSE {[column EXCEPT !.name = c.new,
                             !.type = IF c.converts THEN "timestamp" ELSE @] :
                  c \in {d \in clauses : d.verb # "drop"}}

(* Keys follow their columns; one that loses a column goes on without it.  *)
KeyBecame(key, table, statement) ==
    LET new(n) == Became(Named(table, n), statement)
        left == SelectSeq(key.columns, LAMBDA n : new(n) # {})
    IN  [key EXCEPT !.columns = [i \in DOMAIN left |-> (CHOOSE c \in new(left[i]) : TRUE).name]]

Altered(table, statement) ==
    LET columns == UNION {Became(c, statement) : c \in table.columns}
        added == {[name |-> c.new, type |-> "int", nullable |-> FALSE, generated |-> FALSE,
                   holds |-> NoColumn] : c \in ClausesOf(statement, "add")}
        kept == {k \in table.keys : \A c \in ClausesOf(statement, "dropKey") :
                                        c.columns # k.columns}
        keys == {KeyBecame(k, table, statement) : k \in kept}
    IN  [columns |-> columns \cup added,
         keys |-> {k \in keys : k.columns # <<>>} \cup
                  {[primary |-> FALSE, columns |-> c.columns] :
                       c \in ClausesOf(statement, "addKey")}]

(* MySQL accepts it: names are distinct, keys are over columns.            *)
Legal(table, statement) ==
    LET ghost == Altered(table, statement)
    IN  /\ \A w \in Word : Cardinality(ClauseOn(statement, w)) <= 1
        /\ \A c \in ClausesOf(statement, "dropKey") : \E k \in table.keys : k.columns = c.columns
        /\ \A c, d \in ghost.columns : EqualFold(c.name, d.name) => c = d
        /\ \A k \in ghost.keys : InKey(k) \subseteq {c.name : c \in ghost.columns}

-----------------------------------------------------------------------------
(* Unique keys.                                                            *)

HasNullable(table, key) == \E n \in InKey(key) : Named(table, n).nullable

(* ORDER BY of getCandidateUniqueKeys: PRIMARY, no nullable column, a      *)
(* first column without a character set, an integer, fewer columns.        *)
Rank(table, key) ==
    LET first == Named(table, key.columns[1])
        score(test) == IF test THEN 0 ELSE 1
    IN  <<score(key.primary), score(~HasNullable(table, key)),
          score(first.type # "text"), score(first.type = "int"), Len(key.columns)>>

Before(r, s) == \E i \in DOMAIN r : r[i] < s[i] /\ \A j \in 1..(i - 1) : r[j] = s[j]

(* getCandidateUniqueKeys, in that order; of equals either may come first. *)
FirstCandidates(table, keys) ==
    {k \in keys : \A l \in keys : ~Before(Rank(table, l), Rank(table, k))}

(* Mutant: the same column is enough to start with.                        *)
EqualsInFirst(columns, others) == columns[1] = others[1]

EqualsByNames(columns, others) == columns = others

getSharedUniqueKeys(original, ghost) ==
    {k \in original.keys : \E l \in ghost.keys : EqualsByNames(k.columns, l.columns)}

(* The loop of inspectOriginalAndGhostTables over them.                    *)
Usable(original, key) == \A n \in InKey(key) : Named(original, n).type # "float"

UsableSharedKeys(original, ghost) ==
    {k \in getSharedUniqueKeys(original, ghost) : Usable(original, k)}

-----------------------------------------------------------------------------
(* Columns.                                                                *)

Lookup(renames, n) == {r[2] : r \in {s \in renames : s[1] = n}}

(* Mutant: a dropped column that is added again is taken for the same.     *)
IsSharedEvenIfDropped(n, original, ghost, renames, dropped) ==
    LET ghostNames == GetTableColumns(ghost)[1]
        virtual == GetTableColumns(original)[2] \cup GetTableColumns(ghost)[2]
    IN  /\ \E g \in ghostNames :
              EqualFold(n, g) \/ \E m \in Lookup(renames, n) : EqualFold(m, g)
        /\ \A v \in virtual : ~EqualFold(n, v)

IsSharedColumn(n, original, ghost, renames, dropped) ==
    LET ghostNames == GetTableColumns(ghost)[1]
        virtual == GetTableColumns(original)[2] \cup GetTableColumns(ghost)[2]
    IN  /\ \E g \in ghostNames :
              EqualFold(n, g) \/ \E m \in Lookup(renames, n) : EqualFold(m, g)
        /\ \A d \in dropped : ~EqualFold(n, d)
        /\ \A v \in virtual : ~EqualFold(n, v)

(* The pairs <<shared, mapped>>, in the spelling gh-ost will use.          *)
getSharedColumns(original, ghost, renames, dropped) ==
    LET shared == {n \in GetTableColumns(original)[1] :
                       IsSharedColumn(n, original, ghost, renames, dropped)}
    IN  UNION {{<<n, m>> : m \in IF Lookup(renames, n) = {} THEN {n} ELSE Lookup(renames, n)} :
                   n \in shared}

(* The type applyColumnTypes gives to a listed column: columns are looked  *)
(* up by their exact names, one that is not found stays UnknownColumnType. *)
applyColumnTypes(table, n) == {c.type : c \in {d \in table.columns : d.name = n}}

(* The mapped columns that get SetConvertDatetimeToTimestamp.              *)
ConvertedColumns(original, ghost, pairs) ==
    {p[2] : p \in {q \in pairs : /\ q[1] = q[2]
                                 /\ "datetime" \in applyColumnTypes(original, q[1])
                                 /\ "timestamp" \in applyColumnTypes(ghost, q[2])}}
=============================================================================

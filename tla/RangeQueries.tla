---------------------------- MODULE RangeQueries ----------------------------
(***************************************************************************)
(* The queries of the row copy for a unique key of several columns: the    *)
(* first and last key, the end of the next chunk, and the INSERT of a      *)
(* chunk, as the builder composes them out of comparisons of one column,   *)
(* with the arguments of their placeholders in a list.  GhostSync takes    *)
(* keys for points of a linear order; here is what that rests on.          *)
(*                                                                         *)
(* The columns of the key are 1..n and a row is its key.  The server sorts *)
(* ENUM values by their place in the declaration, and compares them with   *)
(* a string by their labels, whose order is another one: here the reverse. *)
(***************************************************************************)
EXTENDS Naturals, FiniteSets, SequencesExt

CONSTANTS
    KeyLength,   \* columns of the unique key, at most
    Value,       \* values of a column
    ChunkSizes   \* what --chunk-size and the command of that name may be

ASSUME RangesAssumption ==
    /\ KeyLength \in Nat \ {0} /\ Value \subseteq Nat
    /\ ChunkSizes \subseteq Nat \ {0}

VARIABLES
    isEnum,     \* of each column of the key
    table,      \* the rows of the original table
    rangeMin,   \* MigrationRangeMinValues, a set of at most one key
    rangeMax,   \* MigrationRangeMaxValues
    iterMin,    \* MigrationIterationRangeMinValues
    iterMax,    \* MigrationIterationRangeMaxValues
    firstIteration,  \* GetIteration() == 0
    size,       \* the chunk size the end of the chunk was found with
    copied,     \* the rows that have been copied
    pc

rangeVars == <<rangeMin, rangeMax, iterMin, iterMax>>
vars      == <<isEnum, table, rangeVars, firstIteration, size, copied, pc>>

KeyColumns == DOMAIN isEnum

Init ==
    /\ \E n \in 1..KeyLength :
          /\ isEnum \in [1..n -> BOOLEAN]
          /\ table \in {rows \in SUBSET [1..n -> Value] : IsFiniteSet(rows)}
    /\ rangeMin = {} /\ rangeMax = {} /\ iterMin = {} /\ iterMax = {}
    /\ firstIteration = TRUE /\ size = 0 /\ copied = {} /\ pc = "readRange"

-----------------------------------------------------------------------------
(* What the builder composes.  A comparison has a placeholder for its      *)
(* right side; a range is a disjunction of conjunctions of comparisons.    *)

BuildValueComparison(column, sign) == [column |-> column, sign |-> sign]

BuildEqualsComparison(columns) ==
    [i \in DOMAIN columns |-> BuildValueComparison(columns[i], "=")]

BuildRangeComparison(columns, args, sign) ==
    LET strict        == IF sign \in {"<", "<="} THEN "<" ELSE ">"
        includeEquals == sign \in {"<=", ">="}
        comparison(i) == Append(BuildEqualsComparison(SubSeq(columns, 1, i - 1)),
                                BuildValueComparison(columns[i], strict))
    IN  [comparisons |-> [i \in DOMAIN columns |-> comparison(i)]
             \o (IF includeEquals THEN <<BuildEqualsComparison(columns)>> ELSE <<>>),
         explodedArgs |-> FlattenSeq([i \in DOMAIN columns |-> SubSeq(args, 1, i)])
             \o (IF includeEquals THEN args ELSE <<>>)]

Columns == [i \in KeyColumns |-> i]

(* The WHERE clause of all three queries: one range and the other.         *)
Between(startArgs, endArgs, includeStart) ==
    {BuildRangeComparison(Columns, startArgs, IF includeStart THEN ">=" ELSE ">"),
     BuildRangeComparison(Columns, endArgs, "<=")}

(* Mutant: an ENUM column is sorted like any other.                        *)
OrderByColumns(descending) == [i \in KeyColumns |-> [concat |-> FALSE, desc |-> descending]]

(* ORDER BY: an ENUM column through concat, as a string.                   *)
UniqueKeyColumnOrder(descending) ==
    [i \in KeyColumns |-> [concat |-> isEnum[i], desc |-> descending]]

-----------------------------------------------------------------------------
(* What the server makes of it.                                            *)

LabelLess(column, v, w) == IF isEnum[column] THEN w < v ELSE v < w

Satisfies(row, comparison, arg) ==
    LET v == row[comparison.column]
    IN  CASE comparison.sign = "=" -> v = arg
          [] comparison.sign = "<" -> LabelLess(comparison.column, v, arg)
          [] comparison.sign = ">" -> LabelLess(comparison.column, arg, v)

(* The k-th placeholder of the text gets the k-th argument.                *)
InRange(row, range) ==
    \E c \in DOMAIN range.comparisons :
        LET before == Len(FlattenSeq(SubSeq(range.comparisons, 1, c - 1)))
        IN  \A t \in DOMAIN range.comparisons[c] :
                Satisfies(row, range.comparisons[c][t], range.explodedArgs[before + t])

Selected(where) == {row \in table : \A range \in where : InRange(row, range)}

ComesBefore(order, a, b) ==
    \E i \in DOMAIN order :
        /\ \A j \in 1 .. i - 1 : a[j] = b[j]
        /\ LET less(v, w) == IF order[i].concat THEN LabelLess(i, v, w) ELSE v < w
           IN  IF order[i].desc THEN less(b[i], a[i]) ELSE less(a[i], b[i])

Offset(rows, order, row) == Cardinality({r \in rows : ComesBefore(order, r, row)})

(* Mutant: one row more.                                                   *)
LimitAndOne(rows, order, count) == {row \in rows : Offset(rows, order, row) <= count}

Limit(rows, order, count) == {row \in rows : Offset(rows, order, row) < count}

-----------------------------------------------------------------------------
(* The queries.                                                            *)

MinMaxValues(order) == Limit(table, order, 1)

RangeEndViaOffset(rows, chunkSize) ==
    {row \in rows : Offset(rows, UniqueKeyColumnOrder(FALSE), row) = chunkSize - 1}

RangeEndViaTemptable(rows, chunkSize) ==
    Limit(Limit(rows, UniqueKeyColumnOrder(FALSE), chunkSize), UniqueKeyColumnOrder(TRUE), 1)

(* Mutant: every chunk includes its start.                                 *)
AlwaysIncludeStart == TRUE

IncludeStart == firstIteration

The(set) == CHOOSE x \in set : TRUE

ReadMigrationRangeValues ==
    /\ pc = "readRange"
    /\ rangeMin' = MinMaxValues(UniqueKeyColumnOrder(FALSE))
    /\ rangeMax' = MinMaxValues(UniqueKeyColumnOrder(TRUE))
    /\ pc' = IF rangeMin' = {} THEN "done" ELSE "rangeEnd"
    /\ UNCHANGED <<isEnum, table, iterMin, iterMax, firstIteration, size, copied>>

(* The chunk size may change between the two queries.                      *)
CalculateNextIterationRangeEndValues ==
    /\ pc = "rangeEnd"
    /\ iterMin' = IF iterMax = {} THEN rangeMin ELSE iterMax
    /\ \E rows \in {Selected(Between(The(iterMin'), The(rangeMax), IncludeStart))},
          first, second \in ChunkSizes :
          LET offset    == RangeEndViaOffset(rows, first)
              temptable == RangeEndViaTemptable(rows, second)
          IN  \/ /\ offset # {}
                 /\ iterMax' = offset /\ size' = first /\ pc' = "insert"
              \/ /\ offset = {} /\ temptable # {}
                 /\ iterMax' = temptable /\ size' = second /\ pc' = "insert"
              \/ /\ offset = {} /\ temptable = {}
                 /\ UNCHANGED <<iterMax, size>> /\ pc' = "done"
    /\ UNCHANGED <<isEnum, table, rangeMin, rangeMax, firstIteration, copied>>

ApplyIterationInsertQuery ==
    /\ pc = "insert"
    /\ copied' = copied \cup Selected(Between(The(iterMin), The(iterMax), IncludeStart))
    /\ firstIteration' = FALSE /\ pc' = "rangeEnd"
    /\ UNCHANGED <<isEnum, table, rangeVars, size>>

Next ==
    \/ ReadMigrationRangeValues \/ CalculateNextIterationRangeEndValues
    \/ ApplyIterationInsertQuery

Spec == Init /\ [][Next]_vars

-----------------------------------------------------------------------------
(* The types of the variables; at most one key at a time.                  *)
TypeOK ==
    /\ table \subseteq [KeyColumns -> Value]
    /\ \A keys \in {rangeMin, rangeMax, iterMin, iterMax} :
          keys \subseteq table /\ Cardinality(keys) <= 1
    /\ firstIteration \in BOOLEAN /\ size \in ChunkSizes \cup {0}
    /\ copied \subseteq table
    /\ pc \in {"readRange", "rangeEnd", "insert", "done"}

(* The order of keys, column by column.                                    *)
KeyLess(a, b) ==
    \E i \in KeyColumns : LabelLess(i, a[i], b[i]) /\ \A j \in 1 .. i - 1 : a[j] = b[j]

(* What has been copied are the first rows in the order of the keys,       *)
(* whatever mix of columns a key has, and in the end all of them.          *)
CopiedInKeyOrder ==
    /\ \A a \in copied, b \in table \ copied : KeyLess(a, b)
    /\ pc = "done" => copied = table

(* A chunk has new rows, and as many as asked for, if there are so many:   *)
(* the rows one query counts are those another one inserts.  Hence the     *)
(* iteration comes to an end.                                              *)
ChunkHasItsSize ==
    [][pc = "insert" =>
        LET left == Cardinality(table \ copied)
        IN  /\ left > 0
            /\ Cardinality(copied' \ copied) = IF left < size THEN left ELSE size]_vars
=============================================================================

------------------------- MODULE RangeQueriesProofs --------------------------
(***************************************************************************)
(* Proofs about RangeQueries for keys of any number of columns, ENUM or    *)
(* not, any table and chunks of any sizes.                                 *)
(***************************************************************************)
EXTENDS RangeQueries, Foundations

(* The table, which stays as it is.                                        *)
GivenInv ==
    /\ \E n \in 1..KeyLength : isEnum \in [1..n -> BOOLEAN]
    /\ table \subseteq [KeyColumns -> Value] /\ IsFiniteSet(table)

(* The rows up to some row.                                                *)
UpTo(rows, row) == {r \in rows : r = row \/ KeyLess(r, row)}

(* The rows that were to be copied, and those that will be in one step.    *)
Left == table \ copied

EnoughOf(rows, count) == IF Cardinality(rows) < count THEN Cardinality(rows) ELSE count

OneKey(keys) == keys = {} \/ \E row \in table : keys = {row}

KeysInv ==
    /\ OneKey(rangeMin) /\ OneKey(rangeMax) /\ OneKey(iterMin) /\ OneKey(iterMax)
    /\ copied \subseteq table /\ firstIteration \in BOOLEAN /\ size \in ChunkSizes \cup {0}
    /\ pc \in {"readRange", "rangeEnd", "insert", "done"}

(* The range is the whole table.                                           *)
RangeInv ==
    /\ pc = "readRange" => copied = {} /\ iterMax = {} /\ firstIteration
    /\ pc \in {"rangeEnd", "insert"} =>
          \E least, greatest \in table :
              /\ rangeMin = {least} /\ rangeMax = {greatest}
              /\ \A r \in table : r = least \/ KeyLess(least, r)
              /\ \A r \in table : r = greatest \/ KeyLess(r, greatest)

(* The rows copied are those up to the end of the last chunk.              *)
CopiedInv ==
    /\ pc = "rangeEnd" =>
          IF firstIteration THEN copied = {} /\ iterMax = {}
          ELSE \E row \in table : iterMax = {row} /\ copied = UpTo(table, row)
    /\ pc = "insert" =>
          \E start \in table :
              /\ iterMin = {start}
              /\ IF firstIteration THEN copied = {} /\ rangeMin = {start}
                 ELSE copied = UpTo(table, start)
    /\ pc = "done" => copied = table

(* The next chunk begins after the last one and has its size.              *)
ChunkInv ==
    pc = "insert" =>
        /\ size \in ChunkSizes
        /\ \E row \in Left :
              iterMax = {row} /\ Cardinality(UpTo(Left, row)) = EnoughOf(Left, size)

IInv == GivenInv /\ KeysInv /\ RangeInv /\ CopiedInv /\ ChunkInv

-----------------------------------------------------------------------------
(* The order of the keys.                                                  *)

LEMMA Shape ==
    ASSUME GivenInv
    PROVE  /\ \E n \in Nat \ {0} : KeyColumns = 1..n
           /\ isEnum \in [KeyColumns -> BOOLEAN]
           /\ \A r \in table, i \in KeyColumns : r[i] \in Nat
           /\ \A r \in table : r \in [KeyColumns -> Value]
<1>1. PICK n \in 1..KeyLength : isEnum \in [1..n -> BOOLEAN]
    BY DEF GivenInv
<1>2. n \in Nat \ {0} /\ Value \subseteq Nat
    BY RangesAssumption
<1> QED
    BY <1>1, <1>2 DEF GivenInv, KeyColumns

LEMMA LabelOrder ==
    ASSUME NEW i, NEW v \in Nat, NEW w \in Nat, NEW x \in Nat
    PROVE  /\ ~LabelLess(i, v, v)
           /\ LabelLess(i, v, w) /\ LabelLess(i, w, x) => LabelLess(i, v, x)
           /\ v = w \/ LabelLess(i, v, w) \/ LabelLess(i, w, v)
BY DEF LabelLess

LEMMA KeyIrreflexive ==
    ASSUME GivenInv, NEW a \in table
    PROVE  ~KeyLess(a, a)
BY Shape, LabelOrder DEF KeyLess

LEMMA KeyTransitive ==
    ASSUME GivenInv, NEW a \in table, NEW b \in table, NEW c \in table,
           KeyLess(a, b), KeyLess(b, c)
    PROVE  KeyLess(a, c)
<1>0. PICK n \in Nat \ {0} : KeyColumns = 1..n
    BY Shape
<1>1. PICK i \in 1..n : LabelLess(i, a[i], b[i]) /\ \A j \in 1 .. i - 1 : a[j] = b[j]
    BY <1>0 DEF KeyLess
<1>2. PICK k \in 1..n : LabelLess(k, b[k], c[k]) /\ \A j \in 1 .. k - 1 : b[j] = c[j]
    BY <1>0 DEF KeyLess
<1>3. \A j \in 1..n : a[j] \in Nat /\ b[j] \in Nat /\ c[j] \in Nat
    BY <1>0, Shape
<1>4. CASE i < k
    <2>1. i \in 1 .. k - 1 /\ \A j \in 1 .. i - 1 : j \in 1 .. k - 1
        BY <1>4
    <2>2. LabelLess(i, a[i], c[i]) /\ \A j \in 1 .. i - 1 : a[j] = c[j]
        BY <1>1, <1>2, <2>1
    <2> QED
        BY <1>0, <2>2 DEF KeyLess
<1>5. CASE k < i
    <2>1. k \in 1 .. i - 1 /\ \A j \in 1 .. k - 1 : j \in 1 .. i - 1
        BY <1>5
    <2>2. LabelLess(k, a[k], c[k]) /\ \A j \in 1 .. k - 1 : a[j] = c[j]
        BY <1>1, <1>2, <2>1
    <2> QED
        BY <1>0, <2>2 DEF KeyLess
<1>6. CASE i = k
    <2>1. LabelLess(i, a[i], c[i]) /\ \A j \in 1 .. i - 1 : a[j] = c[j]
        BY <1>1, <1>2, <1>3, <1>6, LabelOrder
    <2> QED
        BY <1>0, <2>1 DEF KeyLess
<1> QED
    BY <1>4, <1>5, <1>6

(* Two keys differ in a first column.                                      *)
LEMMA KeyTotal ==
    ASSUME GivenInv, NEW a \in table, NEW b \in table, a # b
    PROVE  KeyLess(a, b) \/ KeyLess(b, a)
<1>0. PICK n \in Nat \ {0} : KeyColumns = 1..n
    BY Shape
<1> DEFINE Differ == {i \in 1..n : a[i] # b[i]}
<1>1. Differ # {}
    <2>1. a \in [1..n -> Value] /\ b \in [1..n -> Value]
        BY <1>0, Shape
    <2> QED
        BY <2>1
<1>2. PICK i \in Differ : \A j \in Differ : i <= j
    <2>1. Differ \in SUBSET Nat
        OBVIOUS
    <2> HIDE DEF Differ
    <2> QED
        BY <1>1, <2>1, LeastNatural
<1>3. \A j \in 1 .. i - 1 : j \in 1..n /\ ~(i <= j)
    OBVIOUS
<1>4. \A j \in 1 .. i - 1 : a[j] = b[j]
    BY <1>2, <1>3
<1>5. a[i] \in Nat /\ b[i] \in Nat /\ a[i] # b[i] /\ i \in KeyColumns
    BY <1>0, Shape
<1>6. LabelLess(i, a[i], b[i]) \/ LabelLess(i, b[i], a[i])
    BY <1>5, LabelOrder
<1> QED
    BY <1>4, <1>5, <1>6 DEF KeyLess

(* ORDER BY means that order, or the reverse.                              *)
LEMMA OrderIs ==
    ASSUME GivenInv, NEW a, NEW b
    PROVE  /\ ComesBefore(UniqueKeyColumnOrder(FALSE), a, b) <=> KeyLess(a, b)
           /\ ComesBefore(UniqueKeyColumnOrder(TRUE), a, b) <=> KeyLess(b, a)
<1>1. ASSUME NEW desc \in BOOLEAN, NEW i \in KeyColumns
      PROVE  /\ UniqueKeyColumnOrder(desc)[i].concat = isEnum[i]
             /\ UniqueKeyColumnOrder(desc)[i].desc = desc
    BY DEF UniqueKeyColumnOrder
<1>2. \A desc \in BOOLEAN : DOMAIN UniqueKeyColumnOrder(desc) = KeyColumns
    BY DEF UniqueKeyColumnOrder
<1>3. ASSUME NEW i \in KeyColumns, NEW v, NEW w
      PROVE  (IF isEnum[i] THEN LabelLess(i, v, w) ELSE v < w) <=> LabelLess(i, v, w)
    BY DEF LabelLess
<1>4. ComesBefore(UniqueKeyColumnOrder(FALSE), a, b) <=>
          \E i \in KeyColumns : (\A j \in 1 .. i - 1 : a[j] = b[j]) /\ LabelLess(i, a[i], b[i])
    BY <1>1, <1>2, <1>3, Zenon DEF ComesBefore
<1>5. ComesBefore(UniqueKeyColumnOrder(TRUE), a, b) <=>
          \E i \in KeyColumns : (\A j \in 1 .. i - 1 : a[j] = b[j]) /\ LabelLess(i, b[i], a[i])
    BY <1>1, <1>2, <1>3, Zenon DEF ComesBefore
<1> QED
    BY <1>4, <1>5, Zenon DEF KeyLess

(* So that each is a total order of the rows.                              *)
LEMMA Ordered ==
    ASSUME GivenInv, NEW desc \in BOOLEAN, NEW a \in table, NEW b \in table, NEW c \in table
    PROVE  LET Before(x, y) == ComesBefore(UniqueKeyColumnOrder(desc), x, y)
           IN  /\ ~Before(a, a)
               /\ Before(a, b) /\ Before(b, c) => Before(a, c)
               /\ a = b \/ Before(a, b) \/ Before(b, a)
<1>1. CASE desc = FALSE
    BY <1>1, OrderIs, KeyIrreflexive, KeyTransitive, KeyTotal
<1>2. CASE desc = TRUE
    BY <1>2, OrderIs, KeyIrreflexive, KeyTransitive, KeyTotal
<1> QED
    BY <1>1, <1>2

-----------------------------------------------------------------------------
(* Rows by their offset in a result.                                       *)

LEMMA OffsetGrows ==
    ASSUME GivenInv, NEW desc \in BOOLEAN, NEW rows \in SUBSET table,
           NEW r \in rows, NEW s \in rows
    PROVE  LET order == UniqueKeyColumnOrder(desc)
           IN  /\ Offset(rows, order, r) \in Nat
               /\ ComesBefore(order, r, s) => Offset(rows, order, r) < Offset(rows, order, s)
<1> DEFINE order == UniqueKeyColumnOrder(desc)
           Before(x) == {y \in rows : ComesBefore(order, y, x)}
<1>1. IsFiniteSet(rows)
    BY FS_Subset DEF GivenInv
<1>2. \A x : IsFiniteSet(Before(x)) /\ Cardinality(Before(x)) \in Nat
    BY <1>1, FS_Subset, FS_CardinalityType
<1>3. \A x : Offset(rows, order, x) = Cardinality(Before(x))
    BY DEF Offset
<1>4. ASSUME ComesBefore(order, r, s)
      PROVE  Cardinality(Before(r)) < Cardinality(Before(s))
    <2>1. Before(r) \subseteq Before(s)
        BY <1>4, Ordered
    <2>2. r \in Before(s) /\ r \notin Before(r)
        BY <1>4, Ordered
    <2> HIDE DEF Before
    <2> QED
        BY <2>1, <2>2, <1>2, FS_Subset
<1> QED
    BY <1>2, <1>3, <1>4

LEMMA OffsetUnique ==
    ASSUME GivenInv, NEW desc \in BOOLEAN, NEW rows \in SUBSET table,
           NEW r \in rows, NEW s \in rows,
           Offset(rows, UniqueKeyColumnOrder(desc), r) = Offset(rows, UniqueKeyColumnOrder(desc), s)
    PROVE  r = s
<1> DEFINE order == UniqueKeyColumnOrder(desc)
<1>1. r \in table /\ s \in table
    OBVIOUS
<1>2. r = s \/ ComesBefore(order, r, s) \/ ComesBefore(order, s, r)
    BY <1>1, Ordered
<1>3. /\ Offset(rows, order, r) \in Nat /\ Offset(rows, order, s) \in Nat
      /\ ComesBefore(order, r, s) => Offset(rows, order, r) < Offset(rows, order, s)
      /\ ComesBefore(order, s, r) => Offset(rows, order, s) < Offset(rows, order, r)
    BY OffsetGrows
<1> HIDE DEF order
<1>4. Offset(rows, order, r) = Offset(rows, order, s)
    BY DEF order
<1> QED
    BY <1>2, <1>3, <1>4

(* LIMIT 1 yields the first row, if there are rows.                        *)
LEMMA LimitOne ==
    ASSUME GivenInv, NEW desc \in BOOLEAN, NEW rows \in SUBSET table, rows # {}
    PROVE  \E first \in rows :
               /\ Limit(rows, UniqueKeyColumnOrder(desc), 1) = {first}
               /\ \A r \in rows : r = first \/ ComesBefore(UniqueKeyColumnOrder(desc), first, r)
<1> DEFINE order == UniqueKeyColumnOrder(desc)
           At(r) == Offset(rows, order, r)
           Offsets == {At(r) : r \in rows}
<1>1. \A r \in rows : At(r) \in Nat
    BY OffsetGrows
<1>2. \A r, s \in rows : ComesBefore(order, r, s) => At(r) < At(s)
    BY OffsetGrows
<1>3. \A r, s \in rows : r = s \/ ComesBefore(order, r, s) \/ ComesBefore(order, s, r)
    BY Ordered
<1>4. \A r : At(r) = Cardinality({s \in rows : ComesBefore(order, s, r)})
    BY DEF Offset
<1>5. Limit(rows, order, 1) = {r \in rows : At(r) < 1}
    BY DEF Limit
<1> HIDE DEF At, order
<1>6. PICK m \in Offsets : \A k \in Offsets : m <= k
    <2>1. Offsets \in SUBSET Nat /\ Offsets # {}
        BY <1>1
    <2> HIDE DEF Offsets
    <2> QED
        BY <2>1, LeastNatural
<1>7. PICK first \in rows : \A r \in rows : At(first) <= At(r)
    BY <1>6
<1>8. \A r \in rows : ~ComesBefore(order, r, first)
    BY <1>1, <1>2, <1>7
<1>9. At(first) = 0
    <2>1. {s \in rows : ComesBefore(order, s, first)} = {}
        BY <1>8
    <2> QED
        BY <2>1, <1>4, FS_EmptySet
<1>10. \A r \in rows : r = first \/ ComesBefore(order, first, r)
    BY <1>3, <1>8
<1>11. \A r \in rows : At(r) < 1 <=> r = first
    BY <1>1, <1>2, <1>9, <1>10
<1> QED
    BY <1>5, <1>10, <1>11 DEF order

(* The end of a chunk by its offset: so many rows up to it.                *)
LEMMA OffsetEnd ==
    ASSUME GivenInv, NEW rows \in SUBSET table, NEW count \in Nat \ {0},
           RangeEndViaOffset(rows, count) # {}
    PROVE  \E end \in rows :
               /\ RangeEndViaOffset(rows, count) = {end}
               /\ Cardinality(UpTo(rows, end)) = EnoughOf(rows, count)
<1> DEFINE order == UniqueKeyColumnOrder(FALSE)
<1>1. PICK end \in rows : Offset(rows, order, end) = count - 1
    BY DEF RangeEndViaOffset
<1>2. RangeEndViaOffset(rows, count) = {end}
    <2>1. \A r \in rows : Offset(rows, order, r) = count - 1 => r = end
        BY <1>1, OffsetUnique
    <2>2. RangeEndViaOffset(rows, count) = {r \in rows : Offset(rows, order, r) = count - 1}
        BY DEF RangeEndViaOffset
    <2> HIDE DEF order
    <2> QED
        BY <2>1, <2>2, <1>1
<1>3. IsFiniteSet(rows)
    BY FS_Subset DEF GivenInv
<1> DEFINE Before == {r \in rows : KeyLess(r, end)}
<1>4. UpTo(rows, end) = Before \cup {end} /\ end \notin Before /\ Before \subseteq rows
    BY KeyIrreflexive DEF UpTo
<1>5. Cardinality(Before) = count - 1
    <2>1. {r \in rows : ComesBefore(order, r, end)} = Before
        BY OrderIs
    <2> QED
        BY <2>1, <1>1 DEF Offset
<1> HIDE DEF Before
<1>6. Cardinality(UpTo(rows, end)) = count
    <2>1. IsFiniteSet(Before)
        BY <1>3, <1>4, FS_Subset
    <2>2. Cardinality(Before \cup {end}) = Cardinality(Before) + 1
        BY <2>1, <1>4, FS_AddElement
    <2> QED
        BY <2>2, <1>4, <1>5
<1>7. Cardinality(rows) \in Nat /\ count <= Cardinality(rows)
    <2>1. UpTo(rows, end) \subseteq rows
        BY DEF UpTo
    <2>2. Cardinality(UpTo(rows, end)) <= Cardinality(rows)
        BY <2>1, <1>3, FS_Subset
    <2> QED
        BY <2>2, <1>3, <1>6, FS_CardinalityType
<1>8. EnoughOf(rows, count) = count
    BY <1>7 DEF EnoughOf
<1> QED
    BY <1>2, <1>6, <1>8

(* And by the last row of a temporary table.                               *)
LEMMA TemptableEnd ==
    ASSUME GivenInv, NEW rows \in SUBSET table, NEW count \in Nat \ {0}, rows # {}
    PROVE  \E end \in rows :
               /\ RangeEndViaTemptable(rows, count) = {end}
               /\ Cardinality(UpTo(rows, end)) = EnoughOf(rows, count)
<1> DEFINE order == UniqueKeyColumnOrder(FALSE)
           At(r) == Offset(rows, order, r)
           some == Limit(rows, order, count)
<1>1. \A r \in rows : At(r) \in Nat
    BY OffsetGrows
<1>2. \A r, s \in rows : KeyLess(r, s) => At(r) < At(s)
    BY OffsetGrows, OrderIs
<1>3. \A r : At(r) = Cardinality({s \in rows : KeyLess(s, r)})
    <2> SUFFICES ASSUME NEW r PROVE At(r) = Cardinality({s \in rows : KeyLess(s, r)})
        OBVIOUS
    <2>1. {s \in rows : ComesBefore(order, s, r)} = {s \in rows : KeyLess(s, r)}
        BY OrderIs
    <2> QED
        BY <2>1 DEF Offset
<1>4. some = {r \in rows : At(r) < count} /\ some \subseteq rows
    BY DEF Limit
<1>5. RangeEndViaTemptable(rows, count) = Limit(some, UniqueKeyColumnOrder(TRUE), 1)
    BY DEF RangeEndViaTemptable
<1> HIDE DEF At, order, some
<1>6. some # {}
    <2>1. PICK first \in rows : Limit(rows, order, 1) = {first}
        BY LimitOne DEF order
    <2>2. At(first) < 1
        BY <2>1 DEF Limit, At
    <2> QED
        BY <2>2, <1>1, <1>4
<1>7. PICK end \in some :
          /\ Limit(some, UniqueKeyColumnOrder(TRUE), 1) = {end}
          /\ \A r \in some : r = end \/ ComesBefore(UniqueKeyColumnOrder(TRUE), end, r)
    <2>1. some \in SUBSET table
        BY <1>4
    <2> QED
        BY <2>1, <1>6, LimitOne
<1>8. \A r \in some : r = end \/ KeyLess(r, end)
    BY <1>7, OrderIs
<1>9. UpTo(rows, end) = some
    <2>1. \A r \in rows : KeyLess(r, end) => At(r) < count
        BY <1>1, <1>2, <1>4
    <2> QED
        BY <2>1, <1>4, <1>8 DEF UpTo
<1>10. IsFiniteSet(rows) /\ IsFiniteSet(some)
    BY <1>4, FS_Subset DEF GivenInv
<1>11. Cardinality(rows) \in Nat /\ Cardinality(some) \in Nat
    BY <1>10, FS_CardinalityType
<1>12. Cardinality(some) = At(end) + 1
    <2> DEFINE Before == {s \in rows : KeyLess(s, end)}
    <2>1. some = Before \cup {end} /\ end \notin Before /\ Before \subseteq rows
        BY <1>4, <1>9, KeyIrreflexive DEF UpTo
    <2>2. At(end) = Cardinality(Before)
        BY <1>3
    <2> HIDE DEF Before
    <2>3. IsFiniteSet(Before)
        BY <2>1, <1>10, FS_Subset
    <2>4. Cardinality(Before \cup {end}) = Cardinality(Before) + 1
        BY <2>1, <2>3, FS_AddElement
    <2> QED
        BY <2>1, <2>2, <2>4
<1>13. Cardinality(some) <= count
    BY <1>1, <1>4, <1>12
<1>14. CASE some = rows
    <2>1. Cardinality(some) = EnoughOf(rows, count)
        BY <1>11, <1>13, <1>14 DEF EnoughOf
    <2> QED
        BY <2>1, <1>4, <1>5, <1>7, <1>9
<1>15. CASE some # rows
    <2> DEFINE Rest == rows \ some
    <2>1. Rest # {} /\ Rest \in SUBSET table
        BY <1>4, <1>15
    <2> HIDE DEF Rest
    <2>2. PICK next \in Rest : \A r \in Rest : r = next \/ ComesBefore(order, next, r)
        BY <2>1, LimitOne DEF order
    <2>3. next \in rows /\ ~(At(next) < count)
        BY <1>4 DEF Rest
    <2>4. \A r \in Rest : ~KeyLess(r, next)
        <3> SUFFICES ASSUME NEW r \in Rest, KeyLess(r, next) PROVE FALSE
            OBVIOUS
        <3>1. r = next \/ KeyLess(next, r)
            BY <2>2, OrderIs DEF order
        <3>2. KeyLess(next, next)
            BY <3>1, <2>1, KeyTransitive
        <3> QED
            BY <3>2, <2>1, KeyIrreflexive
    <2>5. {s \in rows : KeyLess(s, next)} \subseteq some
        BY <2>4 DEF Rest
    <2>6. At(next) <= Cardinality(some)
        BY <2>5, <1>3, <1>10, FS_Subset
    <2>7. count <= Cardinality(some)
        BY <2>3, <2>6, <1>1, <1>11
    <2>8. Cardinality(some) <= Cardinality(rows)
        BY <1>4, <1>10, FS_Subset
    <2>9. Cardinality(some) = EnoughOf(rows, count)
        BY <2>7, <2>8, <1>11, <1>13 DEF EnoughOf
    <2> QED
        BY <1>4, <1>5, <1>7, <1>9, <2>9
<1> QED
    BY <1>14, <1>15

-----------------------------------------------------------------------------
(* What a range selects.                                                   *)

Strict(sign)        == IF sign \in {"<", "<="} THEN "<" ELSE ">"
IncludesEquals(sign) == sign \in {"<=", ">="}
Sign                == {"<", "<=", ">", ">="}
Comparison          == [column : Nat, sign : {"=", "<", ">"}]

(* The conjunctions of a range: the c-th one compares c columns, or all.   *)
Parts(n, sign) == IF IncludesEquals(sign) THEN n + 1 ELSE n
PartLength(n, c) == IF c <= n THEN c ELSE n

LEMMA EqualsComparison ==
    ASSUME NEW columns \in Seq(Nat)
    PROVE  LET cmp == BuildEqualsComparison(columns)
           IN  /\ cmp \in Seq(Comparison) /\ Len(cmp) = Len(columns)
               /\ \A j \in 1..Len(columns) : cmp[j] = [column |-> columns[j], sign |-> "="]
<1>1. DOMAIN columns = 1..Len(columns) /\ Len(columns) \in Nat
    BY LenProperties
<1> DEFINE cmp == [i \in 1..Len(columns) |-> [column |-> columns[i], sign |-> "="]]
<1>2. BuildEqualsComparison(columns) = cmp
    BY <1>1 DEF BuildEqualsComparison, BuildValueComparison
<1>3. \A i \in 1..Len(columns) : cmp[i] \in Comparison
    BY <1>1, ElementOfSeq DEF Comparison
<1>4. cmp \in [1..Len(columns) -> Comparison]
    BY <1>3
<1>5. cmp \in Seq(Comparison) /\ Len(cmp) = Len(columns)
    BY <1>1, <1>4
<1> QED
    BY <1>2, <1>5

LEMMA Comparisons ==
    ASSUME NEW n \in Nat \ {0}, KeyColumns = 1..n, NEW args, NEW sign \in Sign
    PROVE  LET parts == BuildRangeComparison(Columns, args, sign).comparisons
           IN  /\ parts \in Seq(Seq(Comparison)) /\ Len(parts) = Parts(n, sign)
               /\ \A c \in 1..Parts(n, sign) :
                     /\ Len(parts[c]) = PartLength(n, c)
                     /\ \A t \in 1..PartLength(n, c) :
                           parts[c][t] = [column |-> t, sign |-> IF t < c THEN "=" ELSE Strict(sign)]
<1> DEFINE comparison(i) == Append(BuildEqualsComparison(SubSeq(Columns, 1, i - 1)),
                                   BuildValueComparison(Columns[i], Strict(sign)))
           firsts == [i \in 1..n |-> comparison(i)]
           equals == IF IncludesEquals(sign) THEN <<BuildEqualsComparison(Columns)>> ELSE <<>>
<1>1. Columns \in Seq(Nat) /\ Len(Columns) = n /\ DOMAIN Columns = 1..n /\ \A i \in 1..n : Columns[i] = i
    <2>1. Columns = [i \in 1..n |-> i]
        BY DEF Columns
    <2> QED
        BY <2>1
<1>2. BuildRangeComparison(Columns, args, sign).comparisons = firsts \o equals
    BY <1>1 DEF BuildRangeComparison, Strict, IncludesEquals
<1>3. ASSUME NEW i \in 1..n
      PROVE  /\ comparison(i) \in Seq(Comparison) /\ Len(comparison(i)) = i
             /\ \A t \in 1..i : comparison(i)[t] =
                   [column |-> t, sign |-> IF t < i THEN "=" ELSE Strict(sign)]
    <2> DEFINE some == SubSeq(Columns, 1, i - 1)
               cmp  == BuildEqualsComparison(some)
               last == BuildValueComparison(Columns[i], Strict(sign))
    <2>1. some \in Seq(Nat) /\ Len(some) = i - 1 /\ \A j \in 1..(i - 1) : some[j] = j
        <3>1. \A j \in 1..(i - 1) : Columns[j] \in Nat /\ Columns[j] = j
            BY <1>1
        <3>2. i - 1 \in Int /\ 1 \in Int
            OBVIOUS
        <3>3. /\ some \in Seq(Nat)
              /\ Len(some) = IF 1 <= i - 1 THEN (i - 1) - 1 + 1 ELSE 0
              /\ \A j \in 1 .. (i - 1) - 1 + 1 : some[j] = Columns[1 + j - 1]
            BY <3>1, <3>2, SubSeqProperties
        <3>4. \A j \in 1..(i - 1) : j \in 1 .. (i - 1) - 1 + 1 /\ 1 + j - 1 = j
            OBVIOUS
        <3> QED
            BY <3>1, <3>3, <3>4
    <2> HIDE DEF some
    <2>2. /\ cmp \in Seq(Comparison) /\ Len(cmp) = i - 1
          /\ \A j \in 1..(i - 1) : cmp[j] = [column |-> j, sign |-> "="]
        BY <2>1, EqualsComparison
    <2>3. last = [column |-> i, sign |-> Strict(sign)] /\ last \in Comparison
        BY <1>1 DEF BuildValueComparison, Strict, Comparison
    <2> HIDE DEF cmp, last
    <2>4. /\ Append(cmp, last) \in Seq(Comparison) /\ Len(Append(cmp, last)) = i
          /\ \A t \in 1..i : Append(cmp, last)[t] = IF t < i THEN cmp[t] ELSE last
        BY <2>2, <2>3
    <2>5. \A t \in 1..i : t < i => t \in 1..(i - 1)
        OBVIOUS
    <2>6. comparison(i) = Append(cmp, last)
        BY DEF cmp, last, some
    <2> HIDE DEF comparison
    <2>7. ASSUME NEW t \in 1..i
          PROVE  Append(cmp, last)[t] = [column |-> t, sign |-> IF t < i THEN "=" ELSE Strict(sign)]
        BY <2>2, <2>3, <2>4, <2>5
    <2> QED
        BY <2>4, <2>6, <2>7
<1> HIDE DEF comparison
<1>4. firsts \in Seq(Seq(Comparison)) /\ Len(firsts) = n /\ \A i \in 1..n : firsts[i] = comparison(i)
    <2>1. firsts \in [1..n -> Seq(Comparison)]
        BY <1>3
    <2> QED
        BY <2>1
<1> HIDE DEF firsts
<1>5. /\ BuildEqualsComparison(Columns) \in Seq(Comparison)
      /\ Len(BuildEqualsComparison(Columns)) = n
      /\ \A t \in 1..n : BuildEqualsComparison(Columns)[t] = [column |-> t, sign |-> "="]
    BY <1>1, EqualsComparison
<1>6. CASE IncludesEquals(sign)
    <2>1. equals = <<BuildEqualsComparison(Columns)>>
        BY <1>6
    <2> HIDE DEF equals
    <2>2. /\ firsts \o equals \in Seq(Seq(Comparison)) /\ Len(firsts \o equals) = n + 1
          /\ \A c \in 1..(n + 1) :
                (firsts \o equals)[c] = IF c <= n THEN firsts[c] ELSE BuildEqualsComparison(Columns)
        BY <2>1, <1>4, <1>5
    <2>3. ASSUME NEW c \in 1..(n + 1)
          PROVE  /\ Len((firsts \o equals)[c]) = PartLength(n, c)
                 /\ \A t \in 1..PartLength(n, c) : (firsts \o equals)[c][t] =
                       [column |-> t, sign |-> IF t < c THEN "=" ELSE Strict(sign)]
        <3>1. CASE c <= n
            BY <3>1, <2>2, <1>3, <1>4 DEF PartLength
        <3>2. CASE ~(c <= n)
            <4>1. \A t \in 1..n : t < c
                BY <3>2
            <4> QED
                BY <3>2, <4>1, <2>2, <1>5 DEF PartLength
        <3> QED
            BY <3>1, <3>2
    <2> QED
        BY <1>2, <1>6, <2>2, <2>3 DEF Parts
<1>7. CASE ~IncludesEquals(sign)
    <2>1. equals = <<>>
        BY <1>7
    <2>2. firsts \o equals = firsts
        BY <2>1, <1>4, ConcatEmptySeq
    <2> HIDE DEF equals
    <2>3. \A c \in 1..n : PartLength(n, c) = c
        BY DEF PartLength
    <2> QED
        BY <1>2, <1>3, <1>4, <1>7, <2>2, <2>3 DEF Parts
<1> QED
    BY <1>6, <1>7

(* The arguments, in parts of the same lengths.                            *)
LEMMA Arguments ==
    ASSUME NEW n \in Nat \ {0}, KeyColumns = 1..n, NEW sign \in Sign,
           NEW args \in [1..n -> Value]
    PROVE  \E parts \in Seq(Seq(Value)) : \E h :
               /\ Len(parts) = Parts(n, sign) /\ Flattening(h, parts, Len(parts))
               /\ \A c \in 1..Parts(n, sign) :
                     /\ Len(parts[c]) = PartLength(n, c)
                     /\ \A t \in 1..PartLength(n, c) : parts[c][t] = args[t]
               /\ BuildRangeComparison(Columns, args, sign).explodedArgs = h[Len(parts)]
<1> DEFINE firsts == [i \in 1..n |-> SubSeq(args, 1, i)]
           parts  == firsts \o (IF IncludesEquals(sign) THEN <<args>> ELSE <<>>)
<1>1. args \in Seq(Value) /\ Len(args) = n
    OBVIOUS
<1>2. ASSUME NEW i \in 1..n
      PROVE  /\ SubSeq(args, 1, i) \in Seq(Value) /\ Len(SubSeq(args, 1, i)) = i
             /\ \A t \in 1..i : SubSeq(args, 1, i)[t] = args[t]
    <2>1. \A j \in 1..i : args[j] \in Value
        OBVIOUS
    <2>2. /\ SubSeq(args, 1, i) \in Seq(Value)
          /\ Len(SubSeq(args, 1, i)) = IF 1 <= i THEN i - 1 + 1 ELSE 0
          /\ \A j \in 1 .. i - 1 + 1 : SubSeq(args, 1, i)[j] = args[1 + j - 1]
        BY <2>1, SubSeqProperties
    <2>3. \A j \in 1..i : j \in 1 .. i - 1 + 1 /\ 1 + j - 1 = j
        OBVIOUS
    <2> QED
        BY <2>2, <2>3
<1>3. firsts \in Seq(Seq(Value)) /\ Len(firsts) = n /\ \A i \in 1..n : firsts[i] = SubSeq(args, 1, i)
    <2>1. firsts \in [1..n -> Seq(Value)]
        BY <1>2
    <2> QED
        BY <2>1
<1>4. BuildRangeComparison(Columns, args, sign).explodedArgs =
          FlattenSeq(firsts) \o (IF IncludesEquals(sign) THEN args ELSE <<>>)
    <2>1. DOMAIN Columns = 1..n
        BY DEF Columns
    <2> QED
        BY <2>1 DEF BuildRangeComparison, IncludesEquals
<1> HIDE DEF firsts
<1>5. /\ parts \in Seq(Seq(Value)) /\ Len(parts) = Parts(n, sign)
      /\ \A c \in 1..n : parts[c] = firsts[c]
      /\ IncludesEquals(sign) => parts[n + 1] = args
    BY <1>1, <1>3 DEF Parts
<1>6. SubSeq(parts, 1, n) = firsts
    <2>1. n <= Len(parts) /\ Len(parts) \in Nat
        BY <1>5 DEF Parts
    <2> HIDE DEF parts
    <2>2. SubSeq(parts, 1, n) \in Seq(Seq(Value)) /\ Len(SubSeq(parts, 1, n)) = n
        BY <1>5, <2>1
    <2>3. \A c \in 1..n : SubSeq(parts, 1, n)[c] = firsts[c]
        BY <1>5, <2>1
    <2> QED
        BY <2>2, <2>3, <1>3, SeqEqual
<1> HIDE DEF parts
<1>7. Len(parts) \in Nat /\ n \in 0..Len(parts)
    BY <1>5 DEF Parts
<1>8. PICK h : Flattening(h, parts, Len(parts))
    BY <1>7, FlatteningExists
<1>9. FlattenSeq(firsts) = h[n]
    BY <1>5, <1>6, <1>7, <1>8, FlattenSeqIs
<1>10. h[n] \o (IF IncludesEquals(sign) THEN args ELSE <<>>) = h[Len(parts)]
    <2>1. CASE IncludesEquals(sign)
        <3>1. Len(parts) = n + 1 /\ n \in 1..Len(parts)
            BY <2>1, <1>5 DEF Parts
        <3>2. n \in 1..Len(parts) /\ n + 1 <= Len(parts)
            BY <3>1
        <3>3. Flattens(h, parts, n)
            BY <1>7, <1>8, <3>2, FlatteningStep
        <3> QED
            BY <3>1, <3>3, <2>1, <1>5 DEF Flattens
    <2>2. CASE ~IncludesEquals(sign)
        <3>1. Len(parts) = n /\ n \in 1..Len(parts)
            BY <2>2, <1>5 DEF Parts
        <3>2. h[n] \in Seq(Value)
            BY <3>1, <1>5, <1>8, FlatteningType
        <3> QED
            BY <3>1, <3>2, <2>2, ConcatEmptySeq
    <2> QED
        BY <2>1, <2>2
<1>11. ASSUME NEW c \in 1..Parts(n, sign)
       PROVE  /\ Len(parts[c]) = PartLength(n, c)
              /\ \A t \in 1..PartLength(n, c) : parts[c][t] = args[t]
    <2>1. CASE c <= n
        BY <2>1, <1>2, <1>3, <1>5 DEF PartLength
    <2>2. CASE ~(c <= n)
        <3>1. IncludesEquals(sign) /\ c = n + 1
            BY <2>2 DEF Parts
        <3> QED
            BY <3>1, <1>1, <1>5 DEF PartLength
    <2> QED
        BY <2>1, <2>2
<1> QED
    BY <1>4, <1>5, <1>8, <1>9, <1>10, <1>11

(* The placeholders get the values of the columns they are compared with.  *)
LEMMA ArgumentsMatch ==
    ASSUME NEW n \in Nat \ {0}, KeyColumns = 1..n, NEW sign \in Sign,
           NEW args \in [1..n -> Value],
           NEW c \in 1..Parts(n, sign), NEW t \in 1..PartLength(n, c)
    PROVE  LET range  == BuildRangeComparison(Columns, args, sign)
               before == Len(FlattenSeq(SubSeq(range.comparisons, 1, c - 1)))
           IN  range.explodedArgs[before + t] = args[t]
<1> DEFINE range == BuildRangeComparison(Columns, args, sign)
           N     == Parts(n, sign)
<1> HIDE DEF range, N
<1>1. /\ range.comparisons \in Seq(Seq(Comparison)) /\ Len(range.comparisons) = N
      /\ \A i \in 1..N : Len(range.comparisons[i]) = PartLength(n, i)
    <2> USE DEF range, N
    <2>1. /\ range.comparisons \in Seq(Seq(Comparison)) /\ Len(range.comparisons) = N
          /\ \A i \in 1..N :
                /\ Len(range.comparisons[i]) = PartLength(n, i)
                /\ \A j \in 1..PartLength(n, i) : range.comparisons[i][j] =
                      [column |-> j, sign |-> IF j < i THEN "=" ELSE Strict(sign)]
        BY Comparisons
    <2> HIDE DEF range, N
    <2> QED
        BY <2>1
<1>2. PICK parts \in Seq(Seq(Value)) : \E h :
          /\ Len(parts) = N /\ Flattening(h, parts, Len(parts))
          /\ \A i \in 1..N : /\ Len(parts[i]) = PartLength(n, i)
                             /\ \A j \in 1..PartLength(n, i) : parts[i][j] = args[j]
          /\ range.explodedArgs = h[Len(parts)]
    BY Arguments DEF range, N
<1>3. PICK h :
          /\ Len(parts) = N /\ Flattening(h, parts, Len(parts))
          /\ \A i \in 1..N : /\ Len(parts[i]) = PartLength(n, i)
                             /\ \A j \in 1..PartLength(n, i) : parts[i][j] = args[j]
          /\ range.explodedArgs = h[Len(parts)]
    BY <1>2
<1>4. N \in Nat /\ c \in 1..N /\ N >= 1 /\ N \in 1..N
    BY DEF N, Parts
<1>4a. Flattening(h, parts, N)
    BY <1>3
<1> DEFINE cs == range.comparisons
<1> HIDE DEF cs
<1>5. cs \in Seq(Seq(Comparison)) /\ Len(cs) = N /\ \A i \in 1..N : Len(cs[i]) = Len(parts[i])
    BY <1>1, <1>3 DEF cs
<1>6. PICK g : Flattening(g, cs, N)
    BY <1>4, FlatteningExists
<1>7. FlattenSeq(SubSeq(cs, 1, c - 1)) = IF c - 1 = 0 THEN <<>> ELSE g[c - 1]
    BY <1>4, <1>5, <1>6, FlattenSeqIs
<1>8. \A i \in 1..N : h[i] \in Seq(Value)
    BY <1>3, FlatteningType
<1>9. \A i \in 1..N : Len(g[i]) = Len(h[i])
    <2>1. SameLengths(cs, parts, N)
        BY <1>3, <1>5 DEF SameLengths
    <2>2. Flattening(g, cs, N) /\ Flattening(h, parts, N) /\ cs \in Seq(Seq(Comparison)) /\ N \in Nat
        BY <1>3, <1>4, <1>5, <1>6
    <2> QED
        BY <2>1, <2>2, FlatteningLength
<1> DEFINE before == Len(FlattenSeq(SubSeq(cs, 1, c - 1)))
<1>10. before + t \in 1..Len(h[c]) /\ h[c][before + t] = args[t]
    <2>1. parts[c] \in Seq(Value) /\ Len(parts[c]) = PartLength(n, c) /\ parts[c][t] = args[t]
        BY <1>3, <1>4
    <2>2. CASE c = 1
        <3>1. h[1] = parts[1]
            BY <1>4, <1>4a, FlatteningBegins
        <3>2. before = 0
            BY <1>7, <2>2, EmptySeq
        <3>3. t \in 1..Len(parts[c])
            BY <2>1
        <3> HIDE DEF before
        <3> QED
            BY <2>1, <2>2, <3>1, <3>2, <3>3
    <2>3. CASE c # 1
        <3>1. c - 1 \in 1..N /\ (c - 1) + 1 = c /\ c <= N /\ c - 1 # 0
            BY <1>4, <2>3
        <3>2. h[c] = h[c - 1] \o parts[c]
            <4>1. Flattens(h, parts, c - 1)
                BY <3>1, <1>4, <1>4a, FlatteningStep
            <4> QED
                BY <3>1, <4>1 DEF Flattens
        <3>3. before = Len(h[c - 1])
            BY <1>7, <1>9, <3>1
        <3>4. h[c - 1] \in Seq(Value)
            BY <1>8, <3>1
        <3> HIDE DEF before
        <3> DEFINE u == h[c - 1]
                   v == parts[c]
        <3>5. u \in Seq(Value) /\ v \in Seq(Value) /\ before = Len(u) /\ t \in 1..Len(v)
            BY <2>1, <3>3, <3>4
        <3>6. h[c] = u \o v /\ v[t] = args[t]
            BY <2>1, <3>2
        <3> HIDE DEF u, v
        <3>7. before + t \in 1..Len(u \o v) /\ (u \o v)[before + t] = v[t]
            BY <3>5
        <3> QED
            BY <3>6, <3>7
    <2> QED
        BY <2>2, <2>3
<1> HIDE DEF before
<1>11. h[N][before + t] = h[c][before + t]
    <2>1. Flattening(h, parts, Len(parts)) /\ Len(parts) = N /\ c \in 1..Len(parts)
        BY <1>3, <1>4
    <2>2. h[Len(parts)][before + t] = h[c][before + t]
        BY <2>1, <1>10, FlatteningKeeps
    <2> QED
        BY <2>1, <2>2
<1> QED
    BY <1>3, <1>10, <1>11 DEF before, cs, range

(* A range selects the keys beyond its argument in the order of the keys.  *)
LEMMA RangeSelects ==
    ASSUME GivenInv, NEW args \in table, NEW row \in table, NEW sign \in Sign
    PROVE  InRange(row, BuildRangeComparison(Columns, args, sign)) <=>
               \/ IncludesEquals(sign) /\ row = args
               \/ IF Strict(sign) = "<" THEN KeyLess(row, args) ELSE KeyLess(args, row)
<1>1. PICK n \in Nat \ {0} : KeyColumns = 1..n
    BY Shape
<1>2. args \in [1..n -> Value] /\ row \in [1..n -> Value]
    BY <1>1, Shape
<1> DEFINE range   == BuildRangeComparison(Columns, args, sign)
           N       == Parts(n, sign)
           Beats(t) == IF Strict(sign) = "<" THEN LabelLess(t, row[t], args[t])
                       ELSE LabelLess(t, args[t], row[t])
           Before(c) == Len(FlattenSeq(SubSeq(range.comparisons, 1, c - 1)))
<1>3. /\ DOMAIN range.comparisons = 1..N
      /\ \A c \in 1..N :
            /\ DOMAIN range.comparisons[c] = 1..PartLength(n, c)
            /\ \A t \in 1..PartLength(n, c) : range.comparisons[c][t] =
                  [column |-> t, sign |-> IF t < c THEN "=" ELSE Strict(sign)]
    <2>1. /\ range.comparisons \in Seq(Seq(Comparison)) /\ Len(range.comparisons) = N
          /\ \A c \in 1..N :
                /\ Len(range.comparisons[c]) = PartLength(n, c)
                /\ \A t \in 1..PartLength(n, c) : range.comparisons[c][t] =
                      [column |-> t, sign |-> IF t < c THEN "=" ELSE Strict(sign)]
        BY <1>1, Comparisons
    <2> HIDE DEF range, N
    <2>2. \A c \in 1..N : range.comparisons[c] \in Seq(Comparison)
        BY <2>1
    <2> QED
        BY <2>1, <2>2, LenProperties
<1>4. ASSUME NEW c \in 1..N, NEW t \in 1..PartLength(n, c)
      PROVE  range.explodedArgs[Before(c) + t] = args[t]
    BY <1>1, <1>2, ArgumentsMatch
<1>5. ASSUME NEW c \in 1..N, NEW t \in 1..PartLength(n, c)
      PROVE  Satisfies(row, range.comparisons[c][t], args[t]) <=>
                 IF t < c THEN row[t] = args[t] ELSE Beats(t)
    <2>1. /\ range.comparisons[c][t].column = t
          /\ range.comparisons[c][t].sign = IF t < c THEN "=" ELSE Strict(sign)
        <3>1. range.comparisons[c][t] = [column |-> t, sign |-> IF t < c THEN "=" ELSE Strict(sign)]
            BY <1>3, Zenon
        <3> HIDE DEF range
        <3> QED
            BY <3>1
    <2>2. Strict(sign) \in {"<", ">"}
        BY DEF Strict
    <2> HIDE DEF range
    <2>3. CASE t < c
        BY <2>1, <2>3 DEF Satisfies
    <2>4. CASE ~(t < c)
        BY <2>1, <2>2, <2>4 DEF Satisfies
    <2> QED
        BY <2>3, <2>4
<1>6. InRange(row, range) <=>
          \E c \in 1..N : \A t \in 1..PartLength(n, c) :
              IF t < c THEN row[t] = args[t] ELSE Beats(t)
    <2>1. InRange(row, range) <=>
              \E c \in 1..N : \A t \in 1..PartLength(n, c) :
                  Satisfies(row, range.comparisons[c][t], range.explodedArgs[Before(c) + t])
        BY <1>3, Zenon DEF InRange
    <2> HIDE DEF range, N, Beats, Before
    <2> QED
        BY <2>1, <1>4, <1>5
<1> HIDE DEF range
<1>7. ASSUME NEW c \in 1..n
      PROVE  (\A t \in 1..PartLength(n, c) : IF t < c THEN row[t] = args[t] ELSE Beats(t))
                 <=> Beats(c) /\ \A j \in 1 .. c - 1 : row[j] = args[j]
    <2>1. PartLength(n, c) = c /\ c \in 1..c /\ ~(c < c)
        BY DEF PartLength
    <2>2. \A t \in 1..c : t < c <=> t \in 1 .. c - 1
        OBVIOUS
    <2>3. \A t \in 1 .. c - 1 : t \in 1..c
        OBVIOUS
    <2>4. \A t \in 1..c : t = c \/ t \in 1 .. c - 1
        OBVIOUS
    <2> HIDE DEF Beats
    <2> QED
        BY <2>1, <2>2, <2>3, <2>4
<1>8. (\A t \in 1..PartLength(n, n + 1) : IF t < n + 1 THEN row[t] = args[t] ELSE Beats(t))
          <=> row = args
    <2>1. PartLength(n, n + 1) = n /\ \A t \in 1..n : t < n + 1
        BY DEF PartLength
    <2> HIDE DEF Beats
    <2> QED
        BY <2>1, <1>2
<1>9. (\E c \in 1..n : Beats(c) /\ \A j \in 1 .. c - 1 : row[j] = args[j]) <=>
          IF Strict(sign) = "<" THEN KeyLess(row, args) ELSE KeyLess(args, row)
    <2>1. CASE Strict(sign) = "<"
        BY <1>1, <2>1, Zenon DEF KeyLess
    <2>2. CASE Strict(sign) # "<"
        BY <1>1, <2>2, Zenon DEF KeyLess
    <2> QED
        BY <2>1, <2>2
<1> HIDE DEF Beats
<1>10. CASE IncludesEquals(sign)
    <2>1. N = n + 1 /\ \A c \in 1..N : c \in 1..n \/ c = n + 1
        BY <1>10 DEF Parts
    <2>2. \A c \in 1..n : c \in 1..N
        BY <2>1
    <2>3. n + 1 \in 1..N
        BY <2>1
    <2> HIDE DEF N
    <2>4. InRange(row, range) <=>
              \/ \E c \in 1..n : Beats(c) /\ \A j \in 1 .. c - 1 : row[j] = args[j]
              \/ row = args
        BY <2>1, <2>2, <2>3, <1>6, <1>7, <1>8
    <2> QED
        BY <2>4, <1>9, <1>10 DEF range
<1>11. CASE ~IncludesEquals(sign)
    <2>1. N = n
        BY <1>11 DEF Parts
    <2> QED
        BY <2>1, <1>6, <1>7, <1>9, <1>11 DEF range
<1> QED
    BY <1>10, <1>11

-----------------------------------------------------------------------------
(* The queries together select the rows between two keys.                  *)
LEMMA SelectedIs ==
    ASSUME GivenInv, NEW start \in table, NEW end \in table, NEW includeStart \in BOOLEAN
    PROVE  Selected(Between(start, end, includeStart)) =
               {r \in table : /\ KeyLess(start, r) \/ (includeStart /\ r = start)
                              /\ r = end \/ KeyLess(r, end)}
<1> DEFINE sign == IF includeStart THEN ">=" ELSE ">"
           from == BuildRangeComparison(Columns, start, sign)
           to   == BuildRangeComparison(Columns, end, "<=")
<1>1. Between(start, end, includeStart) = {from, to}
    BY DEF Between
<1>2. Selected(Between(start, end, includeStart)) = {r \in table : InRange(r, from) /\ InRange(r, to)}
    BY <1>1 DEF Selected
<1> HIDE DEF from, to
<1>3. ASSUME NEW r \in table
      PROVE  /\ InRange(r, from) <=> KeyLess(start, r) \/ (includeStart /\ r = start)
             /\ InRange(r, to) <=> r = end \/ KeyLess(r, end)
    <2>1. sign \in Sign /\ Strict(sign) = ">" /\ (IncludesEquals(sign) <=> includeStart)
        BY DEF Sign, Strict, IncludesEquals
    <2>2. "<=" \in Sign /\ Strict("<=") = "<" /\ IncludesEquals("<=")
        BY DEF Sign, Strict, IncludesEquals
    <2> HIDE DEF sign
    <2>3. InRange(r, from) <=> KeyLess(start, r) \/ (includeStart /\ r = start)
        BY <2>1, RangeSelects DEF from
    <2>4. InRange(r, to) <=> r = end \/ KeyLess(r, end)
        BY <2>2, RangeSelects DEF to
    <2> QED
        BY <2>3, <2>4
<1> QED
    BY <1>2, <1>3

LEMMA TheOnly == \A x : The({x}) = x
BY DEF The

(* What lies between two ends of chunks, in terms of what is copied.       *)
LEMMA FirstChunk ==
    ASSUME GivenInv, NEW least \in table, \A r \in table : r = least \/ KeyLess(least, r),
           NEW end \in table
    PROVE  Selected(Between(least, end, TRUE)) = UpTo(table, end)
<1>1. Selected(Between(least, end, TRUE)) =
          {r \in table : /\ KeyLess(least, r) \/ (TRUE /\ r = least)
                         /\ r = end \/ KeyLess(r, end)}
    BY SelectedIs, Zenon
<1> QED
    BY <1>1 DEF UpTo

LEMMA NextChunk ==
    ASSUME GivenInv, NEW start \in table, NEW end \in table
    PROVE  Selected(Between(start, end, FALSE)) = UpTo(table \ UpTo(table, start), end)
<1>1. Selected(Between(start, end, FALSE)) =
          {r \in table : /\ KeyLess(start, r) \/ (FALSE /\ r = start)
                         /\ r = end \/ KeyLess(r, end)}
    BY SelectedIs, Zenon
<1>2. ASSUME NEW r \in table
      PROVE  KeyLess(start, r) <=> ~(r = start \/ KeyLess(r, start))
    BY KeyIrreflexive, KeyTransitive, KeyTotal
<1> QED
    BY <1>1, <1>2 DEF UpTo

(* The rows up to a later end are those up to an earlier one and the rest. *)
LEMMA UpToLater ==
    ASSUME GivenInv, NEW start \in table, NEW end \in table \ UpTo(table, start)
    PROVE  UpTo(table, start) \cup UpTo(table \ UpTo(table, start), end) = UpTo(table, end)
<1>1. KeyLess(start, end)
    BY KeyTotal DEF UpTo
<1>2. ASSUME NEW r \in table, r = start \/ KeyLess(r, start)
      PROVE  KeyLess(r, end)
    BY <1>1, <1>2, KeyTransitive
<1> QED
    BY <1>2 DEF UpTo

-----------------------------------------------------------------------------
(* The invariant is inductive.                                             *)

LEMMA InitIInv == Init => IInv
<1> SUFFICES ASSUME Init PROVE IInv
    OBVIOUS
<1>1. GivenInv
    <2>1. PICK n \in 1..KeyLength :
              /\ isEnum \in [1..n -> BOOLEAN]
              /\ table \in {rows \in SUBSET [1..n -> Value] : IsFiniteSet(rows)}
        BY DEF Init
    <2>2. KeyColumns = 1..n
        BY <2>1 DEF KeyColumns
    <2> QED
        BY <2>1, <2>2 DEF GivenInv
<1>2. KeysInv /\ RangeInv /\ CopiedInv /\ ChunkInv
    BY DEF Init, KeysInv, OneKey, RangeInv, CopiedInv, ChunkInv
<1> QED
    BY <1>1, <1>2 DEF IInv

(* Table and key stay, and with them what is said of both.                 *)
LEMMA GivenStays ==
    ASSUME UNCHANGED <<isEnum, table>>
    PROVE  /\ GivenInv' <=> GivenInv
           /\ \A a, b : KeyLess(a, b)' <=> KeyLess(a, b)
           /\ \A rows, row : UpTo(rows, row)' = UpTo(rows, row)
           /\ \A keys : OneKey(keys)' <=> OneKey(keys)
<1>1. GivenInv' <=> GivenInv
    BY DEF GivenInv, KeyColumns
<1>2. \A a, b : KeyLess(a, b)' <=> KeyLess(a, b)
    BY DEF KeyLess, LabelLess, KeyColumns
<1>3. \A rows, row : UpTo(rows, row)' = UpTo(rows, row)
    BY <1>2 DEF UpTo
<1>4. \A keys : OneKey(keys)' <=> OneKey(keys)
    BY DEF OneKey
<1> QED
    BY <1>1, <1>2, <1>3, <1>4

LEMMA StepReadRange ==
    ASSUME IInv, ReadMigrationRangeValues
    PROVE  IInv'
<1> USE DEF ReadMigrationRangeValues
<1>1. GivenInv /\ GivenInv'
    BY GivenStays DEF IInv
<1>2. copied = {} /\ iterMax = {} /\ firstIteration /\ OneKey(iterMin)
    BY DEF IInv, RangeInv, KeysInv
<1>3. CASE table = {}
    <2>1. \A order : Limit(table, order, 1) = {}
        BY <1>3 DEF Limit
    <2>2. rangeMin' = {} /\ rangeMax' = {} /\ pc' = "done"
        BY <2>1 DEF MinMaxValues
    <2> QED
        BY <1>1, <1>2, <1>3, <2>2 DEF IInv, KeysInv, OneKey, RangeInv, CopiedInv, ChunkInv
<1>4. CASE table # {}
    <2>1. PICK least \in table : /\ rangeMin' = {least}
                                 /\ \A r \in table : r = least \/ KeyLess(least, r)
        <3>1. \E first \in table :
                  /\ Limit(table, UniqueKeyColumnOrder(FALSE), 1) = {first}
                  /\ \A r \in table : r = first \/ ComesBefore(UniqueKeyColumnOrder(FALSE), first, r)
            BY <1>1, <1>4, LimitOne
        <3> QED
            BY <3>1, <1>1, OrderIs DEF MinMaxValues
    <2>2. PICK greatest \in table : /\ rangeMax' = {greatest}
                                    /\ \A r \in table : r = greatest \/ KeyLess(r, greatest)
        <3>1. \E first \in table :
                  /\ Limit(table, UniqueKeyColumnOrder(TRUE), 1) = {first}
                  /\ \A r \in table : r = first \/ ComesBefore(UniqueKeyColumnOrder(TRUE), first, r)
            BY <1>1, <1>4, LimitOne
        <3> QED
            BY <3>1, <1>1, OrderIs DEF MinMaxValues
    <2>3. pc' = "rangeEnd"
        BY <2>1
    <2>4. \A a, b : KeyLess(a, b)' <=> KeyLess(a, b)
        BY GivenStays
    <2>5. RangeInv'
        BY <2>1, <2>2, <2>3, <2>4 DEF RangeInv
    <2>6. KeysInv'
        BY <1>2, <2>1, <2>2, <2>3 DEF IInv, KeysInv, OneKey
    <2>7. CopiedInv' /\ ChunkInv'
        BY <1>2, <2>3 DEF CopiedInv, ChunkInv
    <2> QED
        BY <1>1, <2>5, <2>6, <2>7 DEF IInv
<1> QED
    BY <1>3, <1>4

(* The rows the end of a chunk is looked for in are those that are left.   *)
LEMMA LeftIsSelected ==
    ASSUME IInv, pc = "rangeEnd",
           NEW start, start = IF iterMax = {} THEN rangeMin ELSE iterMax
    PROVE  /\ Selected(Between(The(start), The(rangeMax), IncludeStart)) = Left
           /\ \E row \in table :
                 /\ start = {row}
                 /\ IF firstIteration THEN copied = {} /\ rangeMin = {row}
                    ELSE copied = UpTo(table, row)
<1>0. GivenInv
    BY DEF IInv
<1>1. PICK least \in table, greatest \in table :
          /\ rangeMin = {least} /\ rangeMax = {greatest}
          /\ \A r \in table : r = least \/ KeyLess(least, r)
          /\ \A r \in table : r = greatest \/ KeyLess(r, greatest)
    BY DEF IInv, RangeInv
<1>2. The(rangeMax) = greatest /\ IncludeStart = firstIteration /\ firstIteration \in BOOLEAN
    BY <1>1, TheOnly DEF IncludeStart, IInv, KeysInv
<1>3. CASE firstIteration
    <2>1. copied = {} /\ start = {least} /\ The(start) = least
        BY <1>1, <1>3, TheOnly DEF IInv, CopiedInv
    <2>2. Selected(Between(least, greatest, TRUE)) = UpTo(table, greatest)
        BY <1>0, <1>1, FirstChunk
    <2>3. UpTo(table, greatest) = Left
        BY <1>1, <2>1 DEF UpTo, Left
    <2> QED
        BY <1>1, <1>2, <1>3, <2>1, <2>2, <2>3
<1>4. CASE ~firstIteration
    <2>1. PICK row \in table : iterMax = {row} /\ copied = UpTo(table, row)
        BY <1>4 DEF IInv, CopiedInv
    <2>2. start = {row} /\ The(start) = row
        BY <2>1, TheOnly
    <2>3. Selected(Between(row, greatest, FALSE)) = UpTo(table \ UpTo(table, row), greatest)
        BY <1>0, NextChunk
    <2>4. UpTo(table \ UpTo(table, row), greatest) = Left
        BY <1>1, <2>1 DEF UpTo, Left
    <2> QED
        BY <1>2, <1>4, <2>1, <2>2, <2>3, <2>4
<1> QED
    BY <1>3, <1>4

LEMMA StepRangeEnd ==
    ASSUME IInv, CalculateNextIterationRangeEndValues
    PROVE  IInv'
<1> USE DEF CalculateNextIterationRangeEndValues
<1>1. GivenInv /\ GivenInv' /\ pc = "rangeEnd" /\ copied \subseteq table
    BY GivenStays DEF IInv, KeysInv
<1>2. /\ \A a, b : KeyLess(a, b)' <=> KeyLess(a, b)
      /\ \A rows, row : UpTo(rows, row)' = UpTo(rows, row)
    BY GivenStays
<1>3. PICK start : start = iterMin' /\ start = IF iterMax = {} THEN rangeMin ELSE iterMax
    OBVIOUS
<1>4. Selected(Between(The(start), The(rangeMax), IncludeStart)) = Left
    BY <1>1, <1>3, LeftIsSelected
<1>5. PICK from \in table : /\ start = {from}
                            /\ IF firstIteration THEN copied = {} /\ rangeMin = {from}
                               ELSE copied = UpTo(table, from)
    BY <1>1, <1>3, LeftIsSelected
<1>6. PICK first \in ChunkSizes, second \in ChunkSizes :
          LET offset    == RangeEndViaOffset(Left, first)
              temptable == RangeEndViaTemptable(Left, second)
          IN  \/ /\ offset # {}
                 /\ iterMax' = offset /\ size' = first /\ pc' = "insert"
              \/ /\ offset = {} /\ temptable # {}
                 /\ iterMax' = temptable /\ size' = second /\ pc' = "insert"
              \/ /\ offset = {} /\ temptable = {}
                 /\ UNCHANGED <<iterMax, size>> /\ pc' = "done"
    BY <1>3, <1>4
<1>7. first \in Nat \ {0} /\ second \in Nat \ {0} /\ Left \in SUBSET table
    BY RangesAssumption DEF Left
<1>8. RangeInv'
    BY <1>1, <1>2, <1>6 DEF IInv, RangeInv
<1>9. ASSUME NEW end \in Left, NEW count \in ChunkSizes, iterMax' = {end}, size' = count,
             pc' = "insert", Cardinality(UpTo(Left, end)) = EnoughOf(Left, count)
      PROVE  IInv'
    <2>1. Left' = Left
        BY DEF Left
    <2>2. \A row : UpTo(Left, row)' = UpTo(Left, row)
        BY <1>2, <2>1 DEF UpTo
    <2>3. ChunkInv'
        BY <1>9, <2>1, <2>2 DEF ChunkInv, EnoughOf
    <2>4. CopiedInv'
        BY <1>2, <1>3, <1>5, <1>9 DEF CopiedInv
    <2>5. KeysInv'
        BY <1>3, <1>5, <1>7, <1>9 DEF IInv, KeysInv, OneKey
    <2> QED
        BY <1>1, <1>8, <2>3, <2>4, <2>5 DEF IInv
<1>10. CASE RangeEndViaOffset(Left, first) # {}
    <2>1. PICK end \in Left :
              /\ RangeEndViaOffset(Left, first) = {end}
              /\ Cardinality(UpTo(Left, end)) = EnoughOf(Left, first)
        BY <1>1, <1>7, <1>10, OffsetEnd
    <2>2. iterMax' = {end} /\ size' = first /\ pc' = "insert"
        BY <1>6, <1>10, <2>1
    <2> QED
        BY <1>9, <2>1, <2>2
<1>11. CASE RangeEndViaOffset(Left, first) = {} /\ Left # {}
    <2>1. PICK end \in Left :
              /\ RangeEndViaTemptable(Left, second) = {end}
              /\ Cardinality(UpTo(Left, end)) = EnoughOf(Left, second)
        BY <1>1, <1>7, <1>11, TemptableEnd
    <2>2. iterMax' = {end} /\ size' = second /\ pc' = "insert"
        BY <1>6, <1>11, <2>1
    <2> QED
        BY <1>9, <2>1, <2>2
<1>12. CASE RangeEndViaOffset(Left, first) = {} /\ Left = {}
    <2>1. RangeEndViaTemptable(Left, second) = {}
        BY <1>12 DEF RangeEndViaTemptable, Limit
    <2>2. UNCHANGED <<iterMax, size>> /\ pc' = "done"
        BY <1>6, <1>12, <2>1
    <2>3. copied' = table'
        BY <1>1, <1>12 DEF Left
    <2>4. CopiedInv' /\ ChunkInv'
        BY <2>2, <2>3 DEF CopiedInv, ChunkInv
    <2>5. KeysInv'
        BY <1>3, <1>5, <2>2 DEF IInv, KeysInv, OneKey
    <2> QED
        BY <1>1, <1>8, <2>4, <2>5 DEF IInv
<1> QED
    BY <1>10, <1>11, <1>12

(* The INSERT copies the rows that are left up to the end of the chunk.    *)
LEMMA InsertCopies ==
    ASSUME IInv, ApplyIterationInsertQuery
    PROVE  \E row \in Left :
              /\ iterMax = {row}
              /\ copied' = copied \cup UpTo(Left, row)
              /\ copied' = UpTo(table, row)
              /\ Cardinality(UpTo(Left, row)) = EnoughOf(Left, size)
<1> USE DEF ApplyIterationInsertQuery
<1>0. GivenInv
    BY DEF IInv
<1>1. PICK row \in Left :
          iterMax = {row} /\ Cardinality(UpTo(Left, row)) = EnoughOf(Left, size)
    BY DEF IInv, ChunkInv
<1>2. PICK start \in table :
          /\ iterMin = {start}
          /\ IF firstIteration THEN copied = {} /\ rangeMin = {start}
             ELSE copied = UpTo(table, start)
    BY DEF IInv, CopiedInv
<1>3. /\ The(iterMax) = row /\ The(iterMin) = start /\ row \in table
      /\ IncludeStart = firstIteration /\ firstIteration \in BOOLEAN
    BY <1>1, <1>2, TheOnly DEF IncludeStart, IInv, KeysInv, Left
<1>4. copied' = copied \cup Selected(Between(start, row, firstIteration))
    BY <1>3
<1>5. CASE firstIteration
    <2>1. \A r \in table : r = start \/ KeyLess(start, r)
        BY <1>2, <1>5 DEF IInv, RangeInv
    <2>2. Selected(Between(start, row, TRUE)) = UpTo(table, row)
        BY <1>0, <1>3, <2>1, FirstChunk
    <2>3. Left = table /\ copied = {}
        BY <1>2, <1>5 DEF Left
    <2> QED
        BY <1>1, <1>4, <1>5, <2>2, <2>3
<1>6. CASE ~firstIteration
    <2>1. copied = UpTo(table, start) /\ Left = table \ UpTo(table, start)
        BY <1>2, <1>6 DEF Left
    <2>2. Selected(Between(start, row, FALSE)) = UpTo(Left, row)
        BY <1>0, <1>3, <2>1, NextChunk
    <2>3. copied \cup UpTo(Left, row) = UpTo(table, row)
        BY <1>0, <2>1, UpToLater
    <2> QED
        <3>1. copied' = copied \cup Selected(Between(start, row, FALSE))
            <4>1. firstIteration = FALSE
                BY <1>3, <1>6
            <4> QED
                BY <1>4, <4>1
        <3> QED
            BY <1>1, <3>1, <2>2, <2>3
<1> QED
    BY <1>5, <1>6

LEMMA StepInsert ==
    ASSUME IInv, ApplyIterationInsertQuery
    PROVE  IInv'
<1> USE DEF ApplyIterationInsertQuery, rangeVars
<1>1. GivenInv' /\ \A rows, row : UpTo(rows, row)' = UpTo(rows, row)
    BY GivenStays DEF IInv
<1>2. PICK row \in table : iterMax = {row} /\ copied' = UpTo(table, row)
    BY InsertCopies DEF Left
<1>3. \A a, b : KeyLess(a, b)' <=> KeyLess(a, b)
    BY GivenStays
<1>4. pc' = "rangeEnd" /\ pc = "insert" /\ ~firstIteration'
    OBVIOUS
<1>5. RangeInv'
    BY <1>3, <1>4 DEF IInv, RangeInv
<1>6. CopiedInv' /\ ChunkInv'
    BY <1>1, <1>2, <1>4 DEF CopiedInv, ChunkInv
<1>7. KeysInv'
    BY <1>2, <1>4 DEF IInv, KeysInv, OneKey, UpTo
<1> QED
    BY <1>1, <1>5, <1>6, <1>7 DEF IInv

LEMMA StepIInv == IInv /\ [Next]_vars => IInv'
<1> SUFFICES ASSUME IInv, [Next]_vars PROVE IInv'
    OBVIOUS
<1>1. CASE Next
    BY <1>1, StepReadRange, StepRangeEnd, StepInsert DEF Next
<1>2. CASE UNCHANGED vars
    <2>1. /\ \A a, b : KeyLess(a, b)' <=> KeyLess(a, b)
          /\ \A rows, row : UpTo(rows, row)' = UpTo(rows, row)
          /\ GivenInv'
        BY <1>2, GivenStays DEF vars, IInv
    <2>2. KeysInv'
        BY <1>2 DEF IInv, KeysInv, OneKey, vars, rangeVars
    <2>3. RangeInv'
        BY <1>2, <2>1 DEF IInv, RangeInv, vars, rangeVars
    <2>4. CopiedInv'
        BY <1>2, <2>1 DEF IInv, CopiedInv, vars, rangeVars
    <2>5. ChunkInv'
        BY <1>2, <2>1 DEF IInv, ChunkInv, Left, EnoughOf, vars, rangeVars
    <2> QED
        BY <2>1, <2>2, <2>3, <2>4, <2>5 DEF IInv
<1> QED
    BY <1>1, <1>2

(* The inductive invariant, for any key, table and sizes of chunks.        *)
THEOREM InvariantHolds == Spec => []IInv
BY InitIInv, StepIInv, PTL DEF Spec

(* The variables have their types: each range end is at most one key, and  *)
(* one of the table's.                                                     *)
THEOREM TypeCorrect == Spec => []TypeOK
<1>1. ASSUME IInv PROVE TypeOK
    <2>1. \A row : Cardinality({row}) <= 1
        <3>1. \A row : Cardinality({row}) = 1
            BY FS_Singleton
        <3> QED
            BY <3>1
    <2>2. Cardinality({}) <= 1
        BY FS_EmptySet
    <2>3. \A keys : OneKey(keys) => keys \subseteq table /\ Cardinality(keys) <= 1
        BY <2>1, <2>2 DEF OneKey
    <2> QED
        BY <1>1, <2>3 DEF IInv, KeysInv, GivenInv, TypeOK
<1> QED
    BY <1>1, InvariantHolds, PTL

(* Rows are copied in the order of their keys, ENUM columns or not, and in *)
(* the end all of them: no range query loses rows between two chunks.      *)
THEOREM CopiedInOrder == Spec => []CopiedInKeyOrder
<1>1. ASSUME IInv PROVE CopiedInKeyOrder
    <2>1. ASSUME NEW row \in table, copied = UpTo(table, row),
                 NEW a \in copied, NEW b \in table \ copied
          PROVE  KeyLess(a, b)
        <3>1. GivenInv /\ a \in table /\ (a = row \/ KeyLess(a, row))
            BY <1>1, <2>1 DEF IInv, UpTo
        <3>2. KeyLess(row, b)
            BY <2>1, <3>1, KeyTotal DEF UpTo
        <3> QED
            BY <3>1, <3>2, KeyTransitive
    <2>2. \/ copied = {} \/ copied = table
          \/ \E row \in table : copied = UpTo(table, row)
        BY <1>1 DEF IInv, KeysInv, RangeInv, CopiedInv
    <2>3. pc = "done" => copied = table
        BY <1>1 DEF IInv, CopiedInv
    <2>4. \A a \in copied, b \in table \ copied : KeyLess(a, b)
        BY <2>1, <2>2
    <2> QED
        BY <2>3, <2>4 DEF CopiedInKeyOrder, KeyLess
<1> QED
    BY <1>1, InvariantHolds, PTL

(* Every chunk is as large as asked for, or takes all that is left, also   *)
(* if the chunk size changes between the two queries for its end.          *)
THEOREM ChunkSizeHolds == Spec => ChunkHasItsSize
<1>1. ASSUME IInv, [Next]_vars, pc = "insert", UNCHANGED vars => FALSE
      PROVE  LET left == Cardinality(table \ copied)
             IN  /\ left > 0
                 /\ Cardinality(copied' \ copied) = IF left < size THEN left ELSE size
    <2>1. ApplyIterationInsertQuery
        BY <1>1 DEF Next, ReadMigrationRangeValues, CalculateNextIterationRangeEndValues
    <2>2. PICK row \in Left :
              /\ copied' = copied \cup UpTo(Left, row)
              /\ Cardinality(UpTo(Left, row)) = EnoughOf(Left, size)
        BY <1>1, <2>1, InsertCopies
    <2>3. copied' \ copied = UpTo(Left, row)
        BY <2>2 DEF UpTo, Left
    <2>4. IsFiniteSet(Left) /\ Cardinality(Left) \in Nat /\ Cardinality(Left) # 0
        <3>1. IsFiniteSet(table) /\ Left \subseteq table
            BY <1>1 DEF IInv, GivenInv, Left
        <3>2. IsFiniteSet(Left) /\ Left # {}
            BY <3>1, FS_Subset
        <3> QED
            BY <3>2, FS_CardinalityType, FS_EmptySet
    <2> QED
        BY <2>2, <2>3, <2>4 DEF EnoughOf, Left
<1> QED
    BY <1>1, InvariantHolds, PTL DEF Spec, ChunkHasItsSize
==============================================================================

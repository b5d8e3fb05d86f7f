----------------------------- MODULE Foundations -----------------------------
(***************************************************************************)
(* Induction over data, for the proofs that need it: a set of naturals has *)
(* a least element, and what holds at 1 and passes from i to i + 1 holds   *)
(* up to n.  What is to hold is a set here, not an operator.  By such an   *)
(* induction, what the recursive function in FlattenSeq computes.          *)
(***************************************************************************)
EXTENDS Naturals, SequencesExt, FiniteSetTheorems, SequenceTheorems, TLAPS

(* The starts of the naturals up to some element, ordered by inclusion.    *)
LEMMA LeastNatural ==
    ASSUME NEW T \in SUBSET Nat, T # {}
    PROVE  \E m \in T : \A k \in T : m <= k
<1>1. PICK n \in T : TRUE
    OBVIOUS
<1> DEFINE Starts == {0..k : k \in {t \in T : t <= n}}
<1>2. IsFiniteSet(0..n)
    BY FS_Interval
<1>3. Starts \subseteq SUBSET (0..n) /\ 0..n \in Starts
    OBVIOUS
<1>4. Starts \subseteq FiniteSubsetsOf(0..n)
    BY <1>2, <1>3, FS_Subset DEF FiniteSubsetsOf
<1>5. PICK S \in Starts : \A U \in Starts : <<U, S>> \notin StrictSubsetOrdering(0..n)
    <2> HIDE DEF Starts
    <2> QED
        BY <1>3, <1>4, WFMin, FS_StrictSubsetOrderingWellFounded
<1>6. PICK m \in {t \in T : t <= n} : S = 0..m
    OBVIOUS
<1>7. ASSUME NEW k \in T, k < m
      PROVE  FALSE
    <2>1. 0..k \in Starts /\ 0..k \subseteq S /\ 0..k # S
        BY <1>6, <1>7
    <2> QED
        BY <2>1, <1>3, <1>5 DEF StrictSubsetOrdering
<1> QED
    BY <1>6, <1>7

LEMMA InductionUpTo ==
    ASSUME NEW n \in Nat, NEW T, 1 <= n => 1 \in T,
           \A i \in 1..n : i \in T /\ i + 1 <= n => i + 1 \in T
    PROVE  1..n \subseteq T
<1> DEFINE Rest == {i \in 1..n : i \notin T}
<1> SUFFICES ASSUME Rest # {} PROVE FALSE
    OBVIOUS
<1>1. PICK m \in Rest : \A k \in Rest : m <= k
    <2>1. Rest \in SUBSET Nat
        OBVIOUS
    <2> HIDE DEF Rest
    <2> QED
        BY <2>1, LeastNatural
<1>2. m \in 1..n /\ m \notin T
    OBVIOUS
<1>3. m # 1 /\ m - 1 \in 1..n /\ m - 1 \notin Rest
    BY <1>1, <1>2
<1>4. m - 1 \in T /\ (m - 1) + 1 = m
    BY <1>3
<1> QED
    BY <1>2, <1>3, <1>4

-----------------------------------------------------------------------------
(* What FlattenSeq computes, step by step.                                 *)
Flattening(g, seqs, n) ==
    g = [i \in 1..n |-> IF i = 1 THEN seqs[i] ELSE g[i - 1] \o seqs[i]]

Flattens(g, seqs, i) == g[i + 1] = g[i] \o seqs[i + 1]

LEMMA FlatteningBegins ==
    ASSUME NEW g, NEW seqs, NEW n \in Nat, Flattening(g, seqs, n), 1 <= n
    PROVE  g[1] = seqs[1]
<1>1. 1 \in 1..n
    OBVIOUS
<1> QED
    BY <1>1, Zenon DEF Flattening

LEMMA FlatteningStep ==
    ASSUME NEW g, NEW seqs, NEW n \in Nat, Flattening(g, seqs, n),
           NEW i \in 1..n, i + 1 <= n
    PROVE  Flattens(g, seqs, i)
<1>1. i + 1 \in 1..n /\ i + 1 # 1 /\ (i + 1) - 1 = i
    OBVIOUS
<1>2. g[i + 1] = IF i + 1 = 1 THEN seqs[i + 1] ELSE g[(i + 1) - 1] \o seqs[i + 1]
    BY <1>1, Zenon DEF Flattening
<1> QED
    BY <1>1, <1>2 DEF Flattens

LEMMA FlatteningExists ==
    ASSUME NEW seqs, NEW n \in Nat
    PROVE  \E g : Flattening(g, seqs, n)
<1> DEFINE T == {k \in 1..n : \E g : Flattening(g, seqs, k)}
<1>0. CASE n = 0
    <2>1. 1..n = {}
        BY <1>0
    <2>2. Flattening([i \in {} |-> i], seqs, n)
        BY <2>1 DEF Flattening
    <2> QED
        BY <2>2
<1>1. n >= 1 => 1 \in T
    <2>1. Flattening([i \in 1..1 |-> seqs[1]], seqs, 1)
        BY DEF Flattening
    <2> QED
        BY <2>1
<1>2. ASSUME NEW k \in 1..n, k \in T, k + 1 <= n
      PROVE  k + 1 \in T
    <2>1. PICK g : Flattening(g, seqs, k)
        BY <1>2
    <2> DEFINE h == [i \in 1..(k + 1) |-> IF i = k + 1 THEN g[k] \o seqs[k + 1] ELSE g[i]]
    <2>2. ASSUME NEW i \in 1..(k + 1)
          PROVE  h[i] = IF i = 1 THEN seqs[i] ELSE h[i - 1] \o seqs[i]
        <3>1. CASE i = k + 1
            <4>1. k # k + 1 /\ k \in 1..(k + 1) /\ i # 1 /\ i - 1 = k
                BY <3>1
            <4>2. h[k] = g[k] /\ h[i] = g[k] \o seqs[k + 1]
                BY <3>1, <4>1
            <4> QED
                BY <3>1, <4>1, <4>2
        <3>2. CASE i \in 1..k
            <4>1. g[i] = IF i = 1 THEN seqs[i] ELSE g[i - 1] \o seqs[i]
                BY <2>1, <3>2, Zenon DEF Flattening
            <4>2. h[i] = g[i] /\ (i # 1 => h[i - 1] = g[i - 1])
                BY <3>2
            <4> QED
                BY <4>1, <4>2
        <3> QED
            BY <3>1, <3>2
    <2>3. h = [i \in 1..(k + 1) |-> h[i]]
        OBVIOUS
    <2> HIDE DEF h
    <2>4. Flattening(h, seqs, k + 1)
        BY <2>2, <2>3 DEF Flattening
    <2> QED
        BY <2>4, <1>2
<1>3. 1..n \subseteq T
    <2> HIDE DEF T
    <2> QED
        BY <1>1, <1>2, InductionUpTo
<1> QED
    BY <1>0, <1>3

LEMMA FlatteningUnique ==
    ASSUME NEW g, NEW seqs, NEW n \in Nat, Flattening(g, seqs, n),
           NEW h, NEW others, NEW m \in Nat, Flattening(h, others, m),
           NEW k \in 1..n, k <= m, \A i \in 1..k : seqs[i] = others[i]
    PROVE  g[k] = h[k]
<1> DEFINE T == {i \in 1..k : g[i] = h[i]}
<1>1. 1 \in T
    <2>1. n >= 1 /\ m >= 1 /\ 1 \in 1..k
        OBVIOUS
    <2>2. g[1] = seqs[1]
        BY <2>1, FlatteningBegins
    <2>3. h[1] = others[1]
        BY <2>1, FlatteningBegins
    <2> QED
        BY <2>1, <2>2, <2>3
<1>2. ASSUME NEW i \in 1..k, i \in T, i + 1 <= k
      PROVE  i + 1 \in T
    <2>1. i \in 1..n /\ i \in 1..m /\ i + 1 <= n /\ i + 1 <= m
        BY <1>2
    <2>2. g[i + 1] = g[i] \o seqs[i + 1]
        BY <2>1, FlatteningStep DEF Flattens
    <2>3. h[i + 1] = h[i] \o others[i + 1]
        BY <2>1, FlatteningStep DEF Flattens
    <2>4. i + 1 \in 1..k /\ g[i] = h[i]
        BY <1>2
    <2>5. seqs[i + 1] = others[i + 1]
        BY <2>4
    <2> QED
        BY <2>2, <2>3, <2>4, <2>5
<1>3. 1..k \subseteq T
    <2> HIDE DEF T
    <2> QED
        BY <1>1, <1>2, InductionUpTo
<1> QED
    BY <1>3

LEMMA FlattenSeqIs ==
    ASSUME NEW S, NEW seqs \in Seq(Seq(S)), NEW g, Flattening(g, seqs, Len(seqs)),
           NEW k \in 0..Len(seqs)
    PROVE  FlattenSeq(SubSeq(seqs, 1, k)) = IF k = 0 THEN <<>> ELSE g[k]
<1> DEFINE some == SubSeq(seqs, 1, k)
<1>1. some \in Seq(Seq(S)) /\ Len(some) = k /\ \A i \in 1..k : some[i] = seqs[i]
    OBVIOUS
<1> HIDE DEF some
<1>2. CASE k = 0
    <2>1. some = <<>>
        BY <1>1, <1>2, EmptySeq
    <2>2. FlattenSeq(some) = some
        BY <1>1, <1>2, Zenon DEF FlattenSeq
    <2> QED
        BY <2>1, <2>2, <1>2 DEF some
<1>3. CASE k # 0
    <2> DEFINE f == CHOOSE f : f = [i \in 1..Len(some) |->
                                      IF i = 1 THEN some[i] ELSE f[i - 1] \o some[i]]
    <2>1. \E h : Flattening(h, some, Len(some))
        <3>1. Len(some) \in Nat
            BY <1>1
        <3> QED
            BY <3>1, FlatteningExists
    <2>2. Flattening(f, some, Len(some))
        BY <2>1, Zenon DEF Flattening
    <2>3. FlattenSeq(some) = f[Len(some)]
        <3>1. Len(some) # 0
            BY <1>1, <1>3
        <3> QED
            BY <3>1, Zenon DEF FlattenSeq
    <2> HIDE DEF f
    <2>4. f[k] = g[k]
        <3>1. /\ Len(some) \in Nat /\ Len(seqs) \in Nat /\ k \in 1..Len(some) /\ k <= Len(seqs)
              /\ \A i \in 1..k : some[i] = seqs[i]
            BY <1>1, <1>3
        <3> QED
            BY <2>2, <3>1, FlatteningUnique
    <2> QED
        BY <2>3, <2>4, <1>1, <1>3 DEF some
<1> QED
    BY <1>2, <1>3

LEMMA FlatteningType ==
    ASSUME NEW S, NEW seqs \in Seq(Seq(S)), NEW g, Flattening(g, seqs, Len(seqs)),
           NEW k \in 1..Len(seqs)
    PROVE  g[k] \in Seq(S)
<1> DEFINE T == {i \in 1..k : g[i] \in Seq(S)}
<1>0. Len(seqs) \in Nat
    OBVIOUS
<1>1. 1 \in T
    <2>1. Len(seqs) >= 1 /\ seqs[1] \in Seq(S)
        OBVIOUS
    <2>2. g[1] = seqs[1]
        BY <1>0, <2>1, FlatteningBegins
    <2> QED
        BY <2>1, <2>2
<1>2. ASSUME NEW i \in 1..k, i \in T, i + 1 <= k
      PROVE  i + 1 \in T
    <2>1. i \in 1..Len(seqs) /\ i + 1 <= Len(seqs) /\ i + 1 \in 1..Len(seqs)
        BY <1>2
    <2>2. g[i + 1] = g[i] \o seqs[i + 1]
        BY <1>0, <2>1, FlatteningStep DEF Flattens
    <2>3. seqs[i + 1] \in Seq(S) /\ g[i] \in Seq(S)
        BY <2>1, <1>2
    <2>4. g[i + 1] \in Seq(S)
        BY <2>2, <2>3
    <2> QED
        BY <2>4, <1>2
<1>3. 1..k \subseteq T
    <2>1. k \in Nat
        BY <1>0
    <2> HIDE DEF T
    <2> QED
        BY <2>1, <1>1, <1>2, InductionUpTo
<1> QED
    BY <1>3

(* An element of a part is in the whole where the part is.                 *)
LEMMA FlatteningKeeps ==
    ASSUME NEW S, NEW seqs \in Seq(Seq(S)), NEW g, Flattening(g, seqs, Len(seqs)),
           NEW k \in 1..Len(seqs), NEW t \in 1..Len(g[k])
    PROVE  t \in 1..Len(g[Len(seqs)]) /\ g[Len(seqs)][t] = g[k][t]
<1> DEFINE n == Len(seqs)
           Kept(i) == t \in 1..Len(g[i]) /\ g[i][t] = g[k][t]
           T == {i \in 1..n : i < k \/ Kept(i)}
<1>0. n \in Nat
    OBVIOUS
<1>1. 1 \in T
    OBVIOUS
<1>2. ASSUME NEW i \in 1..n, i \in T, i + 1 <= n
      PROVE  i + 1 \in T
    <2>1. CASE i + 1 <= k
        BY <2>1
    <2>2. CASE i >= k
        <3>1. g[i + 1] = g[i] \o seqs[i + 1]
            BY <1>0, <1>2, FlatteningStep DEF Flattens
        <3>2. g[i] \in Seq(S) /\ seqs[i + 1] \in Seq(S)
            BY <1>2, FlatteningType
        <3>3. Kept(i)
            BY <1>2, <2>2
        <3>4. t \in 1..Len(g[i + 1]) /\ g[i + 1][t] = g[i][t]
            <4> DEFINE u == g[i]
                       v == seqs[i + 1]
            <4>1. u \in Seq(S) /\ v \in Seq(S) /\ g[i + 1] = u \o v /\ t \in 1..Len(u)
                BY <3>1, <3>2, <3>3
            <4> HIDE DEF u, v
            <4>2. t \in 1..Len(u \o v) /\ (u \o v)[t] = u[t]
                BY <4>1
            <4> QED
                BY <4>1, <4>2 DEF u
        <3> QED
            BY <3>3, <3>4, <1>2
    <2> QED
        BY <2>1, <2>2, <1>2
<1>3. 1..n \subseteq T
    <2> HIDE DEF T
    <2> QED
        BY <1>0, <1>1, <1>2, InductionUpTo
<1>4. n \in 1..n /\ ~(n < k)
    OBVIOUS
<1>5. n \in T
    BY <1>3, <1>4
<1> QED
    BY <1>4, <1>5

(* Lists of the same lengths are flattened to the same length.             *)
SameLengths(seqs, others, n) ==
    Len(seqs) = n /\ Len(others) = n /\ \A i \in 1..n : Len(seqs[i]) = Len(others[i])

LEMMA FlatteningLength ==
    ASSUME NEW n \in Nat, NEW S, NEW seqs \in Seq(Seq(S)), NEW R, NEW others \in Seq(Seq(R)),
           SameLengths(seqs, others, n),
           NEW g, Flattening(g, seqs, n), NEW h, Flattening(h, others, n)
    PROVE  \A k \in 1..n : Len(g[k]) = Len(h[k])
<1> USE DEF SameLengths
<1> DEFINE T == {i \in 1..n : Len(g[i]) = Len(h[i])}
<1>0. n \in Nat /\ Len(others) = n
    OBVIOUS
<1>1. ASSUME 1 <= n
      PROVE  1 \in T
    <2>1. n >= 1 /\ 1 \in 1..n
        BY <1>1
    <2>2. g[1] = seqs[1]
        BY <2>1, FlatteningBegins
    <2>3. h[1] = others[1]
        BY <2>1, FlatteningBegins
    <2> QED
        BY <2>1, <2>2, <2>3
<1>2. ASSUME NEW i \in 1..n, i \in T, i + 1 <= n
      PROVE  i + 1 \in T
    <2>0. i \in 1..Len(others) /\ i + 1 <= Len(others)
        BY <1>2
    <2>1. g[i + 1] = g[i] \o seqs[i + 1] /\ h[i + 1] = h[i] \o others[i + 1]
        BY <1>0, <1>2, <2>0, FlatteningStep DEF Flattens
    <2>2. /\ g[i] \in Seq(S) /\ seqs[i + 1] \in Seq(S)
          /\ h[i] \in Seq(R) /\ others[i + 1] \in Seq(R)
        BY <1>2, <2>0, FlatteningType
    <2>3. Len(g[i + 1]) = Len(g[i]) + Len(seqs[i + 1])
        BY <2>1, <2>2
    <2>4. Len(h[i + 1]) = Len(h[i]) + Len(others[i + 1])
        BY <2>1, <2>2
    <2>5. Len(seqs[i + 1]) = Len(others[i + 1])
        BY <1>2
    <2> QED
        <3>1. Len(g[i]) = Len(h[i])
            BY <1>2
        <3>2. Len(g[i + 1]) = Len(h[i + 1])
            BY <2>3, <2>4, <2>5, <3>1
        <3> QED
            BY <3>2, <1>2
<1>3. 1..n \subseteq T
    <2> HIDE DEF T
    <2> QED
        BY <1>0, <1>1, <1>2, InductionUpTo
<1> QED
    BY <1>3
==============================================================================

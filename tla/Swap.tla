--------------------------------- MODULE Swap ---------------------------------
(***************************************************************************)
(* What a cut-over promises to the application: what it finds by the name  *)
(* of its table is the original table or, from one moment on, the ghost    *)
(* table, which has got every write by then, each once and in order.       *)
(* With the two-step cut-over there is nothing by that name in between.    *)
(***************************************************************************)
EXTENDS Naturals

VARIABLES
    gap,      \* may there be nothing by that name for a while?
    written,  \* the writes of the application, numbered in their order
    applied,  \* those the ghost table has got
    table     \* what there is by the name

vars == <<gap, written, applied, table>>

Init == gap \in BOOLEAN /\ written = {} /\ applied = {} /\ table = "original"

Write ==
    /\ table = "original"
    /\ \E new \in written' \ written :
        /\ \A w \in written : w < new
        /\ written' = written \cup {new}
    /\ UNCHANGED <<gap, applied, table>>

Apply ==
    /\ table = "original"
    /\ \E w \in written \ applied :
        /\ \A earlier \in written : earlier < w => earlier \in applied
        /\ applied' = applied \cup {w}
    /\ UNCHANGED <<gap, written, table>>

(* Nothing is missing from the ghost table when the name changes hands.    *)
Replace(from, to) ==
    /\ table = from /\ table' = to
    /\ applied = written
    /\ UNCHANGED <<gap, written, applied>>

Next ==
    \/ Write \/ Apply
    \/ ~gap /\ Replace("original", "ghost")
    \/ gap /\ (Replace("original", "none") \/ Replace("none", "ghost"))

Spec == Init /\ [][Next]_vars
===============================================================================

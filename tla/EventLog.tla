------------------------------- MODULE EventLog -------------------------------
(***************************************************************************)
(* What the events streamer promises to the listener on the original       *)
(* table: from some point of the binary log on, which lies before anything *)
(* written after it subscribed, it is given every event of the table, once *)
(* and in the order of the log.                                            *)
(***************************************************************************)
EXTENDS Naturals, Sequences

CONSTANT None   \* no listener yet

VARIABLES
    log,        \* the binary log: is the event one of the table?
    start,      \* the listener is given what comes after this position
    delivered   \* the positions of the events given to it

vars == <<log, start, delivered>>

Init == log \in Seq(BOOLEAN) /\ start = None /\ delivered = <<>>

Last == IF delivered = <<>> THEN start ELSE delivered[Len(delivered)]

Write ==
    /\ \E ofTable \in BOOLEAN : log' = Append(log, ofTable)
    /\ UNCHANGED <<start, delivered>>

Subscribe ==
    /\ start = None
    /\ start' \in 0..Len(log)
    /\ UNCHANGED <<log, delivered>>

Deliver ==
    /\ start # None
    /\ \E i \in DOMAIN log :
        /\ i > Last /\ log[i]
        /\ \A j \in Last + 1 .. i - 1 : ~log[j]
        /\ delivered' = Append(delivered, i)
    /\ UNCHANGED <<log, start>>

Next == Write \/ Subscribe \/ Deliver

Spec == Init /\ [][Next]_vars
=============================================================================

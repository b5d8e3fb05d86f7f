----------------------------- MODULE MCGhostSync -----------------------------
(* GhostSync for TLC: the contents of rows are interchangeable.            *)
EXTENDS GhostSync, TLC

Symmetry == Permutations(Val)
=============================================================================

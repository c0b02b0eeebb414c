---------------------------- MODULE MCWindowDraw ----------------------------
(* A small instance of WindowDraw for TLC: a cached view b in a cached view *)
(* a in the root.                                                           *)
EXTENDS WindowDraw

CONSTANTS r, a, b

Tree == [v \in Views |-> IF v = a THEN r ELSE a]
TreeAncestors == [v \in Views |-> IF v = a THEN {r} ELSE {a, r}]

=============================================================================

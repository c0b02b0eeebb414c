--------------------------- MODULE MCPriorityQueue --------------------------
(* A small instance of PriorityQueue for TLC.                               *)
EXTENDS PriorityQueue

CONSTANTS s1, s2, r1, r2, r3

TwoSenders == {s1, s2}
ThreeReceivers == {r1, r2, r3}

=============================================================================

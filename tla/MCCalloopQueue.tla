--------------------------- MODULE MCCalloopQueue ---------------------------
(* A small instance of CalloopQueue for TLC.                                *)
EXTENDS CalloopQueue

CONSTANTS s1, s2

TwoSenders == {s1, s2}

=============================================================================

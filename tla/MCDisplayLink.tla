---------------------------- MODULE MCDisplayLink ---------------------------
(* A small instance of DisplayLink for TLC: two windows, two displays.      *)
EXTENDS DisplayLink

CONSTANTS w1, w2, d1, d2

TwoWindows == {w1, w2}
TwoDisplays == {d1, d2}

=============================================================================

--------------------------- MODULE MCTestScheduler --------------------------
(* A small instance of TestScheduler for TLC.                              *)
EXTENDS TestScheduler

TwoTasks == 1..2
OneTimer == {11}

=============================================================================

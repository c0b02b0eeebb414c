---------------------------- MODULE MCEntityMap -----------------------------
(* A small instance of EntityMap for TLC.                                   *)
EXTENDS EntityMap

CONSTANTS e1, h1, h2, h3, worker

OneId == {e1}
HandleSet == {h1, h2, h3}
ThreadSet == {Main, worker}

=============================================================================

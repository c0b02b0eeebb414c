----------------------------- MODULE MCAppEffects ---------------------------
(* Instances of AppEffects for TLC. *)
EXTENDS AppEffects, TLC

CONSTANTS e1, e2, g1, w1

OneEntity == {e1}
TwoEntities == {e1, e2}
OneGlobal == {g1}
OneWindow == {w1}
Symmetry == Permutations(Entities)

=============================================================================

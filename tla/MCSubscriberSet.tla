--------------------------- MODULE MCSubscriberSet --------------------------
(* Small instances of SubscriberSet for TLC.                                *)
EXTENDS SubscriberSet, TLC

CONSTANTS k1, k2

TwoKeys == {k1, k2}
OneKey == {k1}
Symmetry == Permutations(TwoKeys)

=============================================================================

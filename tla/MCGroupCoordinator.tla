------------------------- MODULE MCGroupCoordinator -------------------------
(* Instances of GroupCoordinator for TLC.                                  *)
EXTENDS GroupCoordinator, TLC

CONSTANTS g1, g2

GroupSymmetry == Permutations(Group)

=============================================================================

--------------------------- MODULE MCOffsetStore ---------------------------
(* Instances of OffsetStore for TLC.                                       *)
EXTENDS OffsetStore, TLC

CONSTANTS g1, g2, t1, t2

\* Groups are only compared; topics are also put in an order, by Entries.
GroupSymmetry == Permutations(Group)

=============================================================================

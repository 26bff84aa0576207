-------------------------- MODULE MCConsumerGroup --------------------------
(* Instances of ConsumerGroup for TLC.                                     *)
EXTENDS ConsumerGroup, TLC

CONSTANTS c1, c2, g1

=============================================================================

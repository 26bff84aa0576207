--------------------------- MODULE MCPartitionLog ---------------------------
(* Instances of PartitionLog for TLC.                                      *)
EXTENDS PartitionLogInv, TLC

\* A short and a long record; the long one alone fills a segment of 2 bytes.
CONSTANTS short, long

MCRecordBytes == short :> 1 @@ long :> 2

=============================================================================

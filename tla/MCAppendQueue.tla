--------------------------- MODULE MCAppendQueue ---------------------------
(* Instances of AppendQueue for TLC.                                       *)
EXTENDS AppendQueue

CONSTANTS w1, w2

=============================================================================

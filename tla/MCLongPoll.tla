----------------------------- MODULE MCLongPoll -----------------------------
(* Instances of LongPoll for TLC.                                          *)
EXTENDS LongPoll

CONSTANTS s1, s2, s3

=============================================================================

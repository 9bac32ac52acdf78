------------------------- MODULE MCCompactionLease -------------------------
(* Small instances of CompactionLease for TLC. *)
EXTENDS CompactionLease

CONSTANTS s1, s2, s3
=============================================================================

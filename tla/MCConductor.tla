---------------------------- MODULE MCConductor -----------------------------
(* Small instances of Conductor. *)
EXTENDS Conductor, TLC

CONSTANTS s1, s2, s3
=============================================================================

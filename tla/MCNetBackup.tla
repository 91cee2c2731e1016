---------------------------- MODULE MCNetBackup ----------------------------
(* Instances of NetBackup for TLC. *)
EXTENDS NetBackup
=============================================================================

---------------------------- MODULE MCFullBackup ----------------------------
(* A small instance of FullBackup for TLC. *)
EXTENDS FullBackup

CONSTANTS s1, s2
=============================================================================

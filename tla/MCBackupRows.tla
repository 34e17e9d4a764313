---------------------------- MODULE MCBackupRows ----------------------------
(* A small instance of BackupRows for TLC. *)
EXTENDS BackupRows

CONSTANTS c1, c2, r1, r2, b1, x1, d1, d2

\* Two backups of one id, restores under one id and deletions of it.
MCKeyOf    == [c \in Calls |-> IF c \in Backs THEN b1 ELSE x1]
MCSourceOf == [r \in Rests |-> b1]
MCDeleted  == [d \in Deletes |-> b1]
=============================================================================

--------------------------- MODULE MCBackupQueue ---------------------------
(* A small instance of BackupQueue for TLC. *)
EXTENDS BackupQueue

CONSTANTS c1, c2, c3, i1, i2, i3, p1, p2

\* Requests with ids of their own: two of one source, then one of another.
MCIdOf == [c \in Calls |-> IF c = c1 THEN i1 ELSE IF c = c2 THEN i2 ELSE i3]
MCSourceOf == [i \in Ids |-> IF i = i3 THEN p2 ELSE p1]
MCTurn == [c \in Calls |-> IF c = c3 THEN 2 ELSE 1]
\* The third call makes two of them wait where there is one slot.
MCRoom == [n \in Limits |-> IF n = 1 THEN 3 ELSE 2]
=============================================================================

--------------------------- MODULE MCKopiaProvider ---------------------------
(* Two jobs, one of them a backup, for model checking KopiaProvider. *)
EXTENDS KopiaProvider

CONSTANTS b, r

MCJobs == {b, r}
MCBackups == {b}
=============================================================================

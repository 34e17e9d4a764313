--------------------------- MODULE MCTransferJobs ---------------------------
(* Small instances of TransferJobs for TLC. *)
EXTENDS TransferJobs

\* Two jobs and either two deactivations or a stop, or one job and all of them.
MCBudgets == {[jobs |-> 2, deactivations |-> 2, stops |-> 0],
              [jobs |-> 2, deactivations |-> 0, stops |-> 1],
              [jobs |-> 1, deactivations |-> 2, stops |-> 1]}
=============================================================================

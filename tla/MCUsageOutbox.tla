--------------------------- MODULE MCUsageOutbox ---------------------------
(* A small instance of UsageOutbox for TLC: one download and one backup. *)
EXTENDS UsageOutbox

CONSTANTS u1, u2, w1, w2

MCTypeOf == [u \in Usages |-> IF u = u1 THEN "transfer" ELSE "backup"]
=============================================================================

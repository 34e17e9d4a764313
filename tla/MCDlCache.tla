----------------------------- MODULE MCDlCache -----------------------------
(* Small instances of DlCache for TLC. *)
EXTENDS DlCache, TLC

CONSTANTS d1, d2, d3, d4, d5, p1, p2, c1, c2

\* Two downloads of p1 that only together exceed the limit of 2, one of p2 that
\* stays below it and one that exceeds it alone, and an empty one.
MCDownloads == {d1, d2, d3, d4, d5}
MCPathOf == d1 :> p1 @@ d2 :> p1 @@ d3 :> p2 @@ d4 :> p2 @@ d5 :> p1
MCSizeOf == d1 :> 2 @@ d2 :> 1 @@ d3 :> 1 @@ d4 :> 3 @@ d5 :> 0
MCDlLimit == 2
=============================================================================

------------------------------ MODULE MCJobCtx ------------------------------
(* A small instance of JobCtx for TLC. *)
EXTENDS JobCtx, TLC

CONSTANTS c1, c2, k1, s1, s2, id1

\* Two calls with one key, and a canceller of that key.
MCOneKey == c1 :> id1 @@ c2 :> id1
MCTarget == k1 :> id1

\* Either the two calls meet, or one of them meets the canceller and both Stops.
MCTogether == {{c1, c2}, {c1, k1, s1, s2}}
=============================================================================

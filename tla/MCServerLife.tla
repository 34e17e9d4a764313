---------------------------- MODULE MCServerLife ----------------------------
(* A small instance of ServerLife for TLC. *)
EXTENDS ServerLife

\* FullMode, FcceMode, or both.
MCConfigs == {c \in [full : BOOLEAN, fcce : BOOLEAN] : c.full \/ c.fcce}
=============================================================================

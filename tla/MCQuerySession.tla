--------------------------- MODULE MCQuerySession ---------------------------
(* The instance of QuerySession that TLC checks.                             *)
EXTENDS QuerySession
=============================================================================

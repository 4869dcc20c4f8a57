--------------------------- MODULE MCOfficeGuard ---------------------------
(* The instance of OfficeGuard that TLC checks.                              *)
EXTENDS OfficeGuard
=============================================================================

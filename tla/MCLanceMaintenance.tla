------------------------- MODULE MCLanceMaintenance -------------------------
(* The instance of LanceMaintenance that TLC checks.                         *)
EXTENDS LanceMaintenance
=============================================================================

----------------------------- MODULE MCPolicyJob -----------------------------
(* Instances of PolicyJob for TLC.                                          *)
EXTENDS PolicyJob

CONSTANTS doc, mail, f1
=============================================================================

---------------------------- MODULE MCLifecycle ----------------------------
(* Instances of Lifecycle for TLC.                                           *)
EXTENDS Lifecycle
=============================================================================

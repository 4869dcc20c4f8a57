---------------------------- MODULE MCPptSession ----------------------------
(* Instances of PptSession for TLC.                                          *)
EXTENDS PptSession
=============================================================================

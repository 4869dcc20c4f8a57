---------------------------- MODULE MCFolderPurge ----------------------------
(* Instances of FolderPurge for TLC: two folders with a document each.      *)
EXTENDS FolderPurge, TLC

CONSTANTS p1, p2, docs, docs2

OneEach == p1 :> docs @@ p2 :> docs2
=============================================================================

----------------------------- MODULE MCDocIndex -----------------------------
(* Instances of DocIndex for TLC: one watched root, or two whose names share *)
(* a prefix (C:/docs and C:/docs2, cleanup.py compares with startswith).     *)
EXTENDS DocIndex, TLC

CONSTANTS d1, d2, d3, docs, docs2

OneRoot == d1 :> docs @@ d2 :> docs
OneHolds == docs :> {d1, d2}

TwoRoots == d1 :> docs @@ d2 :> docs2
PrefixHolds == docs :> {d1, d2} @@ docs2 :> {d2}

\* A folder and one inside it (or one whose name starts with its name), both watched.
NestedRoots == d1 :> docs @@ d2 :> docs2 @@ d3 :> docs2
NestedHolds == docs :> {d1, d2, d3} @@ docs2 :> {d2, d3}

SoloRoot == d1 :> docs
SoloHolds == docs :> {d1}

\* A root stored as C:/docs, as addWatchFolder stores it, is no prefix of the
\* C:\docs\... paths that scandir reports on Windows.
NoHolds == docs :> {}

Blank == {2}
NoRevs == {}

AllPerms == Permutations(Gens) \cup Permutations(Docs)
=============================================================================

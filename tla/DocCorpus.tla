------------------------------ MODULE DocCorpus ------------------------------
(***************************************************************************)
(* What document indexing promises to a search: each path is found with at *)
(* most one revision as its newest, a found revision is one the file has   *)
(* had, it is only ever replaced by a newer one, and a path disappears     *)
(* only when it was missing, was excluded by the user, or became blank.    *)
(* DocIndex implements this specification.                                 *)
(***************************************************************************)
EXTENDS Naturals

CONSTANTS Docs, BlankRevs

VARIABLES
    rev,        \* the latest revision of each path
    missing,    \* paths found missing, waiting to be hidden
    excluded,   \* paths the user excluded
    shown       \* the newest revision a search finds, 0 for none

vars == <<rev, missing, excluded, shown>>

Init == shown = [d \in Docs |-> 0]

\* The user edits a file, or its standing changes.
Change == /\ \A d \in Docs : rev'[d] >= rev[d]
          /\ UNCHANGED shown

\* A revision the file has, newer than the one found so far.
Publish(d) ==
    \E r \in (shown[d] + 1)..rev[d] :
        /\ shown' = [shown EXCEPT ![d] = IF r \in BlankRevs THEN 0 ELSE r]
        /\ UNCHANGED <<rev, missing, excluded>>

Hide(d) ==
    /\ d \in missing \cup excluded
    /\ shown' = [shown EXCEPT ![d] = 0]
    /\ UNCHANGED <<rev, excluded>>

Next == Change \/ \E d \in Docs : Publish(d) \/ Hide(d)

Spec == Init /\ [][Next]_vars
=============================================================================

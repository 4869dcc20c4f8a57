----------------------------- MODULE MCMailIndex -----------------------------
(* Instances of MailIndex for TLC: two copies of one mail and another mail.   *)
EXTENDS MailIndex

CONSTANTS p1, p2, p3, u1, u2, b1, b2, corrupt

MCUid   == (p1 :> u1) @@ (p2 :> u1) @@ (p3 :> u2)
MCRank  == (p1 :> 1) @@ (p2 :> 2) @@ (p3 :> 3)
MCFirst == (p1 :> [t |-> 1, body |-> b1]) @@ (p2 :> [t |-> 1, body |-> corrupt]) @@ (p3 :> [t |-> 1, body |-> b1])
=============================================================================

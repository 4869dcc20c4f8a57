-------------------------- MODULE MCFailureSession --------------------------
(* Instances of FailureSession for TLC.                                     *)
EXTENDS FailureSession

CONSTANTS p1

\* One cause with a wait that never grows, one whose wait climbs the ladder.
TwoCauses == {<<"OfficeBusyError", None, None>>, <<"other", "read", "read">>}

TwoSteps == <<1, 1>>
=============================================================================

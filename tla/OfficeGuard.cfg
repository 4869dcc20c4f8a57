CONSTANTS
    Pids = {p1, p2}
    Tries = 2
    MaxStarts = 2
    MaxFaults = 1
SPECIFICATION FairSpec
INVARIANTS OursAccounted OnlyOwnTimeout
PROPERTIES UserOfficeSafe GuardTellsApart HungCallEnds GateOpens
CHECK_DEADLOCK FALSE

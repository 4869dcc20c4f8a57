CONSTANTS
    Starts = 2
    MaxCycles = 1
    MaxFaults = 1
SPECIFICATION FairSpec
INVARIANTS PrimaryReachable QuitIsClean
PROPERTIES ExitEnds SecondStartShows
CHECK_DEADLOCK FALSE

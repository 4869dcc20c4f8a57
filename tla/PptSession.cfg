CONSTANTS
    ReaderModes = {"auto"}
    MaxTrips = 1
    MaxHosts = 2
    MaxFaults = 1
SPECIFICATION FairSpec
INVARIANTS OneQuitEach OneHost
PROPERTIES GateReopens StartEnds
CHECK_DEADLOCK FALSE

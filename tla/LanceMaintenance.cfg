CONSTANTS
    Reach = 2
    Finalize = 3
    Hard = 4
    MinInterval = 2
    Cooldown = 2
    MaxSmall = 5
    MaxJump = 1
    MaxFaults = 2
    None = None
SPECIFICATION FairSpec
PROPERTIES KeepsCompact

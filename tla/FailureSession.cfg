CONSTANTS
    p1 = p1
    Paths = {p1}
    Drm = {p1}
    Causes <- TwoCauses
    BusyWait = 1
    Ladder <- TwoSteps
    ActionWait = 2
    RepeatAt = 1
    ActionAt = 2
    IdleSec = 2
    DrmSec = 1
    MaxIdle = 2
    Faults = {"crash", "save", "cancel", "edit", "remove", "postpone", "error"}
    MaxFaults = 1
    None = None
SPECIFICATION FairSpec
INVARIANTS ViewFollowsOwner
PROPERTIES BypassWasAsked RetriedEventually

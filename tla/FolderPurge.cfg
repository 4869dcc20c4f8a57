CONSTANTS
    p1 = p1
    p2 = p2
    docs = docs
    docs2 = docs2
    Paths = {p1, p2}
    Folders = {docs, docs2}
    Root <- OneEach
    MaxRatio = 50
    Builds = 2
    Unsupported = {1}
    Faults = {"crash", "clock", "read", "delete", "sidecar", "save", "skip", "cancel"}
    MaxPurgeFaults = 1
    None = None
SPECIFICATION FairPurgeSpec
INVARIANTS SuccessMeansPurged
PROPERTIES RemovedIsForgotten

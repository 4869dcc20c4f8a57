CONSTANTS
    d1 = d1
    d2 = d2
    d3 = d3
    docs = docs
    docs2 = docs2
    Docs = {d1}
    Folders = {docs}
    Root <- SoloRoot
    Holds <- SoloHolds
    Gens = {g1, g2, g3, g4}
    MaxRev = 3
    BlankRevs <- Blank
    MaxRatio = 100
    DryRun = FALSE
    Faults = {"crash", "recreate", "stateloss", "save", "unlink", "skip", "add", "read", "delete", "softDelete", "exclude", "single"}
    MaxFaults = 2
    AllDocs = AllDocs
    NoEntry = NoEntry
    NoRow = NoRow
    NoTask = NoTask
SPECIFICATION FairSpec
INVARIANTS UnchangedIsSearchable PendingNeverLive
PROPERTIES Converges RemovedIsHidden

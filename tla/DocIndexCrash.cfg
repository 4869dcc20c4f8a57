CONSTANTS
    d1 = d1
    d2 = d2
    d3 = d3
    docs = docs
    docs2 = docs2
    Docs = {d1, d2}
    Folders = {docs}
    Root <- OneRoot
    Holds <- OneHolds
    Gens = {g1, g2, g3, g4, g5}
    MaxRev = 2
    BlankRevs <- NoRevs
    MaxRatio = 50
    DryRun = FALSE
    Faults = {"crash", "stateloss", "save", "unlink", "skip", "add", "read", "softDelete", "cancel", "single", "restore", "exclude", "unexclude", "unmount"}
    MaxFaults = 2
    AllDocs = AllDocs
    NoEntry = NoEntry
    NoRow = NoRow
    NoTask = NoTask
SPECIFICATION Spec
SYMMETRY AllPerms
INVARIANTS NoStrandedRows NoDuplicateRevision
PROPERTIES ImplementsCorpus OutageOnlyHides

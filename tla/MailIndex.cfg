CONSTANTS
    p1 = p1
    p2 = p2
    p3 = p3
    u1 = u1
    u2 = u2
    b1 = b1
    b2 = b2
    corrupt = corrupt
    Paths = {p1, p2, p3}
    Uids = {u1, u2}
    Uid <- MCUid
    Rank <- MCRank
    First <- MCFirst
    LegacyRow = {p1}
    Bodies = {b1, b2}
    Corrupt = corrupt
    MaxTime = 2
    MaxId = 6
    MaxPerScan = 2
    BatchSize = 2
    Faults = {"save", "delete", "lookup", "check", "scan", "parse", "embed", "content", "add", "addLost", "cancel", "crash", "recreate"}
    MaxFaults = 1
    MaxEdits = 1
    None = None
SPECIFICATION FairSpec
INVARIANTS CachedIsSearchable
PROPERTIES FoundStaysFound EveryMailSettles

CONSTANTS
    doc = doc
    mail = mail
    f1 = f1
    Paths = {doc, mail}
    Mails = {mail}
    Folders = {f1}
    Faults = {"save", "read", "delete", "state", "mail", "error", "start", "observe", "crash"}
    MaxFaults = 3
    None = None
SPECIFICATION FairSpec
INVARIANTS RunsUnderLease FoldersKept PublishedIsDurable
PROPERTIES LeaseEnds

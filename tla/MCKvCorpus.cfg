CONSTANTS
    a1 = a1
    a2 = a2
    ZZ = ZZ
    DE = DE
    Address = {a1, a2}
    Label = {ZZ, DE}
    Unlabelled = ZZ
    Client = {c1}
    Cron = cron
    Legacy = {a2}
    Contacts <- MCContacts
    Ruled = {a1, DE}
    ScanLimit = 1
    DeleteLimit = 1
    PageSize = 1
    AdminPage = 2
    MaxIndex = 3
    MaxReads = 1
    EventLimit = 2
SPECIFICATION FairSpec
INVARIANTS
    CorpusInv
    DriftHasACause
    IndexComplete
    DeletionComplete
PROPERTIES
    Settles
CHECK_DEADLOCK FALSE

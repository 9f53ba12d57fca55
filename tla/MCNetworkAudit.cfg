SPECIFICATION Spec
CONSTANTS
    NotString = NotString
    NoRef = NoRef
    UnixEpoch = 9
    Range = 8
    NetworkAuditMaxLabels = 1
    MaxMessages = 2
    MaxStored = 2
    BadNames = {"bad"}
    Overrides = {0, 12}
    Records <- MCRecords
    LegacyDocs <- MCLegacyDocs
INVARIANTS
    TypeOK
    RefsTellWhatArrived
    HonestArriveWhole

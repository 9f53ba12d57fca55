SPECIFICATION StreamSpec
CONSTANTS
    StartTimes = {0, 20, 23}
    Now = 20
    SegmentDrafts <- AllSegments
    ReceiptDrafts <- SomeReceipts
    Nonces = {"n1"}
    Milli = 2
    Half = 16
    reflectWindow = 2
    MaxIndex = 5
    MaxSegments = 3
    MaxReceipts = 3
    MaxMarkers = 2
CONSTRAINT OneScenario
INVARIANTS
    StreamTypeOK
    ContinuityAccounted
    BilledAsMeasured
    ReflectedUnlessOverflow

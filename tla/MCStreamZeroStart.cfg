SPECIFICATION StreamSpec
CONSTANTS
    StartTimes = {0}
    Now = 20
    SegmentDrafts <- MeasuredSegment
    ReceiptDrafts = {}
    Nonces = {"n1"}
    Milli = 2
    Half = 16
    reflectWindow = 1
    MaxIndex = 2
    MaxSegments = 3
    MaxReceipts = 0
    MaxMarkers = 0
INVARIANT ReflectionWithinWindow

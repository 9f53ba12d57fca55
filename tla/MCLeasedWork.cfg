SPECIFICATION Spec
CONSTANTS
    ArtifactNames = {"out", "log"}
    NoHash = NoHash
    NoPolicy = NoPolicy
    NoField = NoField
    Null = Null
    UnknownFields = UnknownFields
    NoLease = NoLease
    NoWork = NoWork
    LeaseTime = 2
    MaxTime = 4
    MaxWire = 1
    Orders <- MCOrders
    Adapters <- MCAdapters
    Results <- MCResults
    Deliveries <- MCDeliveries
INVARIANTS
    TypeOK
    SessionsInWindow
    RunLogsAsGranted
    DeliveredDeclaredOnce
    WorkConfined

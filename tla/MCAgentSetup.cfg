SPECIFICATION Spec
CONSTANTS
    NoKey = "no-key"
    Root = "root"
    Workers = {"w1"}
    Manifests <- SomeManifests
    Sessions <- SomeSessions
    OtherInstants = {2}
    UnixEpoch = 9
    Range = 8
    Nothing = Nothing
    StartTime = 9
    MaxTime = 12
    MaxMessages = 2
INVARIANTS
    TypeOK
    ConfirmedWasInstalled

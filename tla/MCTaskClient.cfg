CONSTANTS
    Callers = {c1}
    Configs <- MCConfigs
    Requests <- MCRequests
    Artifacts <- MCArtifacts
    MaxInt64 = 7
    MaxProofs = 2
    Unsafe = "a b"
SPECIFICATION FairSpec
CONSTRAINT FewChanges
INVARIANTS
    TypeOK
    AcknowledgedIsQueued
    ReadsOneMoment
    FetchesNamedArtifact
PROPERTY
    CallsReturn

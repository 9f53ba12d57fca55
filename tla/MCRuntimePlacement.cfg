CONSTANTS
    ReportLists <- MCReportLists
    DeclaredLists <- MCDeclaredLists
    HardwareSets <- MCHardwareSets
    Requests <- MCRequests
    DeclaredTiers = {"trusted-native", "sandboxed-container", "confidential-cpu"}
    DeclaredTags = {"gpu-free"}
    DeclaredProofs = {"artifact-hash", "attested-receipt"}
    NoBundle = NoBundle
    Nothing = Nothing
    MaxNow = 3
    BundleUntil = 3
    AttestedUntil = 3
SPECIFICATION PlacementSpec
INVARIANTS
    PlacementTypeOK PlacedOnEvidence OneBackendMatches
CHECK_DEADLOCK FALSE

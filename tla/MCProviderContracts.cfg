CONSTANTS
    Drafts <- MCDrafts
    Evidence <- MCEvidence
    Products <- MCProducts
    OtherProfiles = {"mediamtx-service-session-v1"}
    Workers <- MCWorkers
    MaxObserved = 4
    ScopedWallets = {"wallet-a", "wallet-b"}
SPECIFICATION Spec
INVARIANTS
    TypeOK
    ClaimsBacked
    InvalidOnlyByOtherEvidence
    AdmittedConfined
    TreasuryIsOne

SPECIFICATION Spec
CONSTANTS
    Strings <- AllStrings
    Keys = {"k1", "k2"}
    NoKey = "none"
    Drafts <- MCDrafts
    Options <- BothOptions
    Restamps = {"conflicted"}
    MaxWire = 3
CONSTRAINT OneScenario
INVARIANTS
    AttestedProofInsideWindows
    TypeOK
    AcceptedWasSigned
    ReverifyStable

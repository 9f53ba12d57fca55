SPECIFICATION Spec
CONSTANTS
    NoKey = "no-key"
    Host = "host"
    Workers = {"w1", "w2"}
    Drafts <- MCDrafts
    Outcomes <- BothOutcomes
    MaxRefs = 2
    NoRequest = NoRequest
    MaxTime = 3
    MaxMessages = 2
    MaxFetches = 3
CONSTRAINT OneScenario
INVARIANTS
    TypeOK
    AcceptedRanInTime
    HonestMessagesVerify
    FetchedIsOwn
PROPERTY ContractSpec

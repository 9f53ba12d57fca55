CONSTANTS
    Planners = {"A", "B"}
    Ahead = 1
    Behind = 1
    Wanted = 2
    Skew <- MCSkew
    AgentList <- MCAgentList
    TaskList <- MCTaskList
    Trimmed <- MCTrimmed
    Org = "org"
    Pool = "pool"
    Steady = {"w1", "w3"}
    Statuses = {"online", "draining"}
    LeaseTime = 2
    Floor = 2
    NoList = NoList
SPECIFICATION FairSpec
INVARIANTS TypeOK OverlapOnlyUnseenOrSkewed OptedOutNeverLeased
PROPERTY QueuedEventuallyLeased

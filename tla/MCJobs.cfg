SPECIFICATION MCSpec
CONSTANTS
    None = None
    Instances = {i1, i2}
    Jobs = {"reference", "leads"}
    RefJob = "reference"
    ManualJobs = {"reference"}
    PoolSize = 2
    SyncOnStartup = TRUE
    Scheduling = {i1, i2}
    Deals = {d1}
    Pipelines = {"test", "real"}
    AllowedPipelines = {"test"}
    Capacity = 2
    MaxMoves = 2
    LeadCount = 3
    Reps = {r1}
    TriageLimit = 2
    MaxTriageFaults = 1
INVARIANTS
    LockHeldByRun
    OverlapOnlyAfterLoss
    WritesAreBounded
    RateIsBounded
PROPERTIES
    ImplementsLease
    EveryRunEnds
    OnlyAllowedPipelines
    AgentAnswers
    RepDecisionStands
    ContactedIsNoticed
CHECK_DEADLOCK FALSE

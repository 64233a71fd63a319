SPECIFICATION FairSpec
CONSTANTS
    None = None
    Events <- MCEvents
    Posts <- MCPosts
    Forms = {0, 80}
    Days = {5, 34}
    Handlers = {h1, h2}
    MaxPosts = 2
    MaxForms = 1
    MaxPacks = 1
    MaxCrashes = 1
INVARIANTS
    NeverOvercounts
    RollupIsExactUnlessRaced
PROPERTIES
    EventuallyRecorded
CHECK_DEADLOCK FALSE

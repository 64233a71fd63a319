SPECIFICATION Spec
CONSTANTS
    None = None
    Events <- MCEvents
    Posts <- MCPosts
    Forms = {0}
    Days = {5}
    Handlers = {h1, h2}
    MaxPosts = 2
    MaxForms = 0
    MaxPacks = 0
    MaxCrashes = 0
INVARIANTS
    BatchSurvivesBadEvent
CHECK_DEADLOCK FALSE

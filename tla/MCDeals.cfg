SPECIFICATION FairSpec
CONSTANTS
    None = None
    Stages = {"open", "won"}
    Owners = {"ann"}
    OldStages = {"open"}
    OldOwners = {}
    Handlers = {w1, w2}
    MaxEdits = 2
    MaxRepeats = 1
    MaxSyncs = 1
    MaxFaults = 1
INVARIANTS
    HistoryUnlessDisturbed
PROPERTIES
    NeverForgets
    CatchesUp
CHECK_DEADLOCK FALSE

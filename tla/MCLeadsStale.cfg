SPECIFICATION Spec
CONSTANTS
    None = None
    Emails = {v1}
    Infos = {"a", "b"}
    Labels <- MCLabels
    Materials <- MCMaterials
    Payloads <- TwoPayloads
    Campaigns <- LiveCampaign
    SettingsChoices <- AllOn
    Captures = {c1, c2}
    Syncers = {s1}
    Packers = {p1}
    Refused = {}
    BatchLimit = 2
    MaxSubmits = 2
    MaxFaults = 0
    MaxStaff = 0
SYMMETRY MCSymmetry
INVARIANTS
    SyncedIsCurrent
CHECK_DEADLOCK FALSE

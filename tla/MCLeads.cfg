SPECIFICATION Spec
CONSTRAINT Mix
CONSTANTS
    None = None
    Emails = {v1}
    Infos = {"a", "b"}
    Labels <- MCLabels
    Materials <- MCMaterials
    Payloads <- ThreePayloads
    Campaigns <- LiveOrTest
    SettingsChoices <- OnOrOff
    Captures = {c1, c2}
    Syncers = {s1}
    Packers = {p1}
    Refused = {}
    BatchLimit = 2
    MaxSubmits = 2
    MaxFaults = 1
    MaxStaff = 1
SYMMETRY MCSymmetry
INVARIANTS
    StatusIsTrue
    FailsOnlyOnDelete
    SyncedIsCurrentUnlessRaced
CHECK_DEADLOCK FALSE

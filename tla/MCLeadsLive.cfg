SPECIFICATION FairSpec
CONSTANTS
    None = None
    Emails = {v1, v2}
    Infos = {"a", "b"}
    Labels <- MCLabels
    Materials <- MCMaterials
    Payloads <- OnePayload
    Campaigns <- LiveCampaign
    SettingsChoices <- AllOn
    Captures = {c1}
    Syncers = {s1}
    Packers = {p1}
    Refused = {v2}
    BatchLimit = 2
    MaxSubmits = 2
    MaxFaults = 1
    MaxStaff = 0
PROPERTIES
    EventuallySynced
    EventuallyDelivered
CHECK_DEADLOCK FALSE

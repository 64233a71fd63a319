SPECIFICATION OfficeSpec
CONSTANTS
    None = None
    Staff = {s1, s2}
    Roles = {"superadmin", "rep"}
    Owners = {o1}
    UserRequests = {u1, u2}
    MaxUserRequests = 3
    MaxUserCrashes = 1
    DocKeys = {k1, k2}
    Required = {k1, k2}
    Uploaders = {q1, q2}
    MaxUploads = 3
    MaxDocFaults = 1
    Targets = {t1}
    Items = {i1, i2}
    Dated = {i1, i2}
    Calls = {i2}
    Runners = {j1, j2}
    PipelineDeals = {p1, p2}
    Stages = {a, b}
    MaxRuns = 3
    MaxCrmFailures = 1
    Sources = {x1, x2}
    OtherEmails = {y1}
    MaxEvents = 1
    MaxTransferFaults = 1
    Visitors = {v1, v2}
    Corporate = {v1}
    InSheet = {v1}
    MaxForms = 2
    MaxScripts = 3
    MaxScriptFaults = 1
    ReportDeals = {g1, g2}
    RowChoices <- DealChoices
    Lines = {"rental"}
    DealOwners = {"ann", "bob"}
    StaleDays = 30
    MaxWrites = 3
SYMMETRY OfficeSymmetry
INVARIANTS
    SuperadminRemains
    TemporaryPasswords
    RowHasObject
    StatusIsRollup
    MirrorIsExact
    DayAddsUp
    TransferIsWhole
    ReconnectOnce
    AnswersSurvive
    BooksBalance
    OverallIsMean
    WatermarkCoversRows
CHECK_DEADLOCK FALSE

SPECIFICATION FairSpec
CONSTANTS
    None = None
    Requests = {q1, q2}
    Rooms = {"a", "closed"}
    ActiveRooms = {"a"}
    Codes = {1, 2}
    MaxAttempts = 3
    MaxTime = 3
INVARIANTS
    OverlapOnlyByRace
    AnswersAreHonest
PROPERTIES
    EveryRequestEnds
CHECK_DEADLOCK FALSE

\* one login, one request at a time
CONSTANTS
    Bad = Bad
    None = None
    Logins = {u}
    Requests = {r1}
    MaxEdits = 1
    MaxFaults = 3
SPECIFICATION FairSpec
INVARIANTS
    TypeOK
    AnswersFollowFiles
    TerminatedIsClean
PROPERTIES
    RequestsReturn
    ComesBack
CHECK_DEADLOCK FALSE

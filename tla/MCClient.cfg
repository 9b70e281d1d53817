CONSTANTS
    Calls = {c1, c2}
    QueueSize = 1
    None = None
SPECIFICATION FairSpec
INVARIANTS
    TypeOK
    AnswerIsOwn
PROPERTIES
    CallsReturn
    LossIsNoticed
CHECK_DEADLOCK FALSE

CONSTANTS
    Calls = {c1, c2, c3, c4}
    Overlap = TRUE
    Cancel = TRUE
    Duplicate = TRUE
    None = None
SYMMETRY Symmetry
CONSTRAINT Judged
SPECIFICATION Spec
INVARIANTS
    TypeOK
    ResultIsOwn
    NoExtraConfirmations
    ConfirmedIsPublished
CHECK_DEADLOCK FALSE

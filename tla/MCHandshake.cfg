\* every configuration of both ends
CONSTANT Setups <- Setup
SPECIFICATION FairSpec
INVARIANTS
    TypeOK
    ConnectedIsServed
    RefusedForCause
PROPERTIES
    ConnectReturns
    HandlersEnd
CHECK_DEADLOCK FALSE

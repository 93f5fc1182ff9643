CONSTANTS
    Branches = {b1, b2}
    MaxFail = 1
    MaxUnread = 1
SPECIFICATION FairSpec
CHECK_DEADLOCK FALSE
INVARIANTS
    OutcomeIsTrue
    ClientInv
PROPERTIES
    LostFinalIsRecovered
    RegistersInTheEnd

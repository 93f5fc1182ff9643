CONSTANTS
    Legs = {l1, l2}
    NoLeg = NoLeg
    MaxEvents = 1
    SipIds = {s1}
    OutIds = {o1}
    NoCall = NoCall
    EarlyMedia = TRUE
    Credentials = TRUE
    Env = {"stop"}
SPECIFICATION Spec
SYMMETRY Symmetry
INVARIANTS
    NoStrandedLeg
    NoForgottenDialog
    TryingIsPending
    NoResponseAfterFinal
    AnsweredMeansConnected
    CdrTellsTheTruth
    NoAbandonedCallee

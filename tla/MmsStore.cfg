CONSTANTS
    Mms = {m1}
    LastPart = 2
    PushTasks = {p1, p2}
    HttpTasks = {h1}
    Idle = Idle
    Env = {"crash"}
SPECIFICATION FairSpec
CHECK_DEADLOCK FALSE
INVARIANTS
    ReceivedIsComplete
    AcknowledgedIsKept
PROPERTY EventuallyFetched

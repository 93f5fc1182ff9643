CONSTANTS
    None = None
    Hosts = {h1, h2}
    BehindNat = TRUE
    Symmetric = TRUE
    Timeout = 1
    MaxOffers = 2
    MaxEvents = 2
    MaxNet = 1
SPECIFICATION FairSpec
CHECK_DEADLOCK FALSE
INVARIANTS
    DigitsAreTrue
    WatchdogIsFair
    SessionInv
PROPERTIES
    VanishedPeerIsNoticed

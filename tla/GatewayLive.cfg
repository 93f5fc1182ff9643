CONSTANTS
    Legs = {l1}
    NoLeg = NoLeg
    MaxEvents = 1
    SipIds = {s1}
    OutIds = {o1}
    NoCall = NoCall
    EarlyMedia = FALSE
    Credentials = TRUE
    Env = {"reuse", "stop", "crash", "copies"}
SPECIFICATION FairSpec
INVARIANT LegInv
PROPERTIES
    OrphanIsDealtWith
    OfferEnds

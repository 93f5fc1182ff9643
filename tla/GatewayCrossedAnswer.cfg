CONSTANTS
    Legs = {l1}
    NoLeg = NoLeg
    MaxEvents = 1
    SipIds = {}
    OutIds = {o1}
    NoCall = NoCall
    EarlyMedia = TRUE
    Credentials = TRUE
    Env = {}
SPECIFICATION Spec
INVARIANT AnswerIsNotForgotten

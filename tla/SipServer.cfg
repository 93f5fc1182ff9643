CONSTANTS
    LastCSeq = 2
    Messages = {m1}
    MaxSent = 2
SPECIFICATION FairSpec
CHECK_DEADLOCK FALSE
INVARIANTS
    HandledOnce
    AnswerIsRepeated
PROPERTIES
    ImplementsService
    AnswersArrive

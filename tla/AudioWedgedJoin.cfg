CONSTANTS
    NoStream = NoStream
    Streams = {s1}
    Wedges = TRUE
    Jitter = 1
    Tone = 1
    Gap = 0
    MaxTone = 1
    MaxLate = 1
    MaxLost = 0
    MaxDigits = 0
SPECIFICATION FairAudioSpec
CHECK_DEADLOCK FALSE
PROPERTIES
    StartReturns

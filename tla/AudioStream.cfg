CONSTANTS
    NoStream = NoStream
    Streams = {s1, s2}
    Wedges = TRUE
    Jitter = 2
    Tone = 2
    Gap = 1
    MaxTone = 4
    MaxLate = 3
    MaxLost = 1
    MaxDigits = 2
SPECIFICATION FairAudioSpec
CHECK_DEADLOCK FALSE
INVARIANTS
    CardInv
    DepthIsKept
    DigitsAreWhole
PROPERTIES
    StartsAndStopsEnd

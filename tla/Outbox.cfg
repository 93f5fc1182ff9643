CONSTANTS
    Sms = {s1}
    Mms = {m1}
    Http = {s1, m1}
    DeleteFromModem = TRUE
    Attempts = 5
    MaxRefusals = 3
    Env = {"db", "modem", "crash", "slow"}
SPECIFICATION FairSpec
CHECK_DEADLOCK FALSE
INVARIANTS
    ToldTheTruth
PROPERTIES
    KeptForReports
    SentLeavesTheModem

CONSTANTS
    Messages <- TextAndPush
    NoMessage = NoMessage
    Stamps = {"unstamped", "9:00"}
    NoStamp = "unstamped"
    Texts = {"", "hello"}
    NoText = ""
    Datas = {"none", "T1"}
    MaxPath = 4
    MaxQueue = 1
    Attempts = 2
    Env = {"db", "crash", "late"}
SPECIFICATION FairSpec
CHECK_DEADLOCK FALSE
INVARIANTS
    NothingLost
    StoredOnce
PROPERTY EventuallyStored

SPECIFICATION AllSpec
CONSTANTS
    Apps = {a1, a2, a3}
    NKeys = 2
    Variants = {"atomic", "noblock", "noshake"}
    Transfers <- SmallTransfers
    Stalls = TRUE
    Volts = {0, 8, 30}
    Slots = 2
    Ids = {1, 2}
    Callers = {p1, p2}
    MYLOG_BUF_LEN = 3
    MaxPut = 6
    MaxCount = 2
    Firsts <- firsts
    Rests <- rests
    MaxFrames = 4
    MaxFill = 4
INVARIANTS
    OneAppInside
    LockIsGivenBack
    SemaphoreGuardsInterrupts
    NoLostWakeup
    KeyReadOnce
    WireFollowsProtocol
    ResultMatchesWire
    ReadyForTouch
    QuietShowsPanel
    UnloadsCleanly
    SleeperWillBeWoken
    FifoDelivers
PROPERTIES
    HandlerReachesStop
    InputsKeepComing
    LogKeepsOrder
\* The bound on the characters ends the log; the others need no end.
CHECK_DEADLOCK FALSE

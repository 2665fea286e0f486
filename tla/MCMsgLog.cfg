SPECIFICATION LogSpec
CONSTANTS
    MYLOG_BUF_LEN = 3
    MaxPut = 6
    MaxCount = 2
INVARIANTS
    CatGetsTheLog
CHECK_DEADLOCK FALSE

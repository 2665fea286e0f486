CONSTANTS
    LINES = 7
    COLS = 4
    INIT_POS_X = 5
    INIT_POS_Y = 0
    INIT_SNAKE_LENGTH = 3
    speed <- speeds
    levelup_score <- scores
    VOID = VOID
    Right = 8
    Bottom = 4
    StartX = 2
    StartY = 2
    Joints = 3
    FoodSpots <- spots
    H = 3
    L = 3
    Feasts = 4
    Data = {0, 1}
    Size = 4
    W = 16
    MaxLen = 5
    Numbers <- numbers
    MaxSize = 4
    Half = 4
SPECIFICATION AllSpec
INVARIANTS
    AddFollowsSpeed
    GamesGoOn
    KeepsElements
PROPERTIES
    SnakesMoveOn
    ImplementsQueue
\* The games end.
CHECK_DEADLOCK FALSE

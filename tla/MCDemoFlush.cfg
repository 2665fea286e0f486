SPECIFICATION ClientSpec
CONSTANTS
  Hz = 2
  min_odr = 3
  max_odr = 12
  Sensors <- AccGyr
  Dri = {"GYR"}
  LevelIrq = TRUE
  Clients = {c1}
  WishedRates = {40}
  ChipAnswers = {TRUE}
  SuidsInOrder = TRUE
  StaggeredBoot = FALSE
  Faults = {}
CHECK_DEADLOCK FALSE
PROPERTIES
  FlushIsAnswered

SPECIFICATION ClientSpec
CONSTANTS
  Hz = 2
  min_odr = 3
  max_odr = 12
  Sensors <- AccGyr
  Dri = {"GYR"}
  LevelIrq = TRUE
  Clients = {c1, c2}
  WishedRates = {7, 40}
  ChipAnswers = {TRUE}
  SuidsInOrder = TRUE
  StaggeredBoot = FALSE
  Faults = {}
SYMMETRY ClientSymmetry
CHECK_DEADLOCK FALSE
INVARIANTS
  ConfigApplied
  PollingFollowsRequests
  InterruptDrainsFifo

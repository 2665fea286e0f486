SPECIFICATION FairSpec
CONSTANTS
  Hz = 2
  min_odr = 3
  max_odr = 12
  Sensors <- AccGyr
  Dri = {}
  LevelIrq = TRUE
  Clients = {}
  WishedRates = {}
  ChipAnswers = {TRUE}
  SuidsInOrder = TRUE
  StaggeredBoot = FALSE
  Faults = {}
CHECK_DEADLOCK FALSE
PROPERTIES
  ConfiguredSensorDetects

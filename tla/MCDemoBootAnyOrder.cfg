SPECIFICATION TimerSpec
CONSTANTS
  Hz = 2
  min_odr = 3
  max_odr = 12
  Sensors <- AccGyr
  Dri = {}
  LevelIrq = TRUE
  Clients = {c1}
  WishedRates = {}
  ChipAnswers = {TRUE, FALSE}
  SuidsInOrder = FALSE
  StaggeredBoot = TRUE
  Faults = {}
CHECK_DEADLOCK FALSE
PROPERTIES
  DetectionDecides
  PowerLostToLateDetection

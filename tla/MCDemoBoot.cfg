SPECIFICATION Spec
CONSTANTS
  Hz = 2
  min_odr = 3
  max_odr = 12
  Sensors <- AllButTemp
  Dri = {}
  LevelIrq = TRUE
  Clients = {}
  WishedRates = {5}
  ChipAnswers = {TRUE, FALSE}
  SuidsInOrder = TRUE
  StaggeredBoot = FALSE
  Faults = {"decode", "payload", "send"}
CHECK_DEADLOCK FALSE
INVARIANTS
  CountCoversReplies
  DummyByteKnown
  PortClosedAfterDetection
PROPERTIES
  BootKeepsLifecycle

SPECIFICATION Spec
CONSTANTS
  Hz = 2
  min_odr = 25
  max_odr = 400
  Clients = {c1, c2}
  WishedRates = {0, 1, 2, 5, 26, 50, 51, 53, 202, 800, 801, 3203, 12800}
  ReportRates = {0, 1, 5}
INVARIANTS
  OdrIsLeastStep
  ReconfigurationIsStable
  WatermarkIsPositive

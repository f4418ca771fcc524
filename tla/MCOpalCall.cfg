CONSTANTS
  c1 = c1
  c2 = c2
  Calls = {c1, c2}
  MaxQueue = 2
SPECIFICATION MCSpec
INVARIANTS
  SignalsReachClients
  VerdictIsRight
PROPERTIES
  SignalsInOrder
  EndIsReportedOfOne
CHECK_DEADLOCK FALSE

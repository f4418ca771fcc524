CONSTANTS
  c1 = c1
  c2 = c2
  c3 = c3
  Calls = {c1, c2, c3}
  None = None
  HistoryLimit = 2
  MaxEntries = 2
SYMMETRY Symmetry
SPECIFICATION Spec
INVARIANTS
  MainWindowCallIsLive
  MainWindowRests
  ConnectedWindowHasItsCall
  NotificationsAreCurrent
  HistoryIsRight
CHECK_DEADLOCK FALSE

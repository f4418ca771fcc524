CONSTANTS
  a1 = a1
  x1 = x1
  x2 = x2
  Accounts = {a1}
  Aors = {x1, x2}
  AorsOf <- FirstAor
  RegisteredAs <- WithoutPort
  Initial = {a1}
  Limited = {}
  MaxThreads = 1
  MaxQueue = 1
  None = None
  New = New
  Gone = Gone
SPECIFICATION SettingsSpec
INVARIANT RemovedGoesAway

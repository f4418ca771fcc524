CONSTANTS
  a1 = a1
  x1 = x1
  x2 = x2
  Accounts = {a1}
  Aors = {x1, x2}
  AorsOf <- FirstAor
  RegisteredAs <- WithoutPort
  Initial = {a1}
  Limited = {}
  MaxThreads = 2
  MaxQueue = 2
  None = None
  New = New
  Gone = Gone
SPECIFICATION FairMCSpec
INVARIANTS
  OutcomeIsShown
  WatchedAreSubscribed
PROPERTIES
  SettingsAreAnswered
  StoreImplemented

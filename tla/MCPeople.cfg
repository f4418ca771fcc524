CONSTANTS
  u1 = u1  u2 = u2  a1 = a1  a2 = a2  o1 = o1
  Uris = {u1, u2}
  Contacts = {c1, c2}
  Editable = {c1}
  Others = {o1}
  Accounts = {a1, a2}
  Late = {a2}
  UrisOf <- MCUrisOf
  Notifications <- MCNotifications
  MaxQueue = 3
  Jids = {u1}
  MaxInbox = 4
  ListUris = {u1}
  MaxPending = 3
  MaxInterest = 2
  None = None
SPECIFICATION PeopleSpec
INVARIANTS
  CountsAreRight
  InterestIsDeclared
  PresenceIsOfItsUri
  NobodyElseIsWatched
  RosterIsTheServers
  NothingIsMissing

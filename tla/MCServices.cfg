CONSTANTS
  a1 = a1
  a2 = a2
  u1 = u1
  v1 = v1
  w1 = w1
  e1 = e1
  e2 = e2
  Filters = {"first", "both"}
  Entries = {e1, e2, header}
  Matching <- MCMatching
  Header = header
  Patience = 3
  MaxReports = 2
  Audio = {a1, a2, u1}
  Video = {v1, w1}
  all_codecs <- MCCodecs
  Stored <- MCStored
  Sparks <- MCSparks
  Stages <- MCStages
  Cores = {"presence-core", "contact-core"}
  GuiNeeds = {"local-cluster", "presence-core", "contact-core"}
  Gui = "gtk-frontend"
SPECIFICATION ServicesSpec
INVARIANTS
  FoundIsShown
  SettledIsRight
PROPERTIES
  DetectionIsAnswered
  ChoicesAreKept
  StartupImplemented
  WhatIsBegunEnds
CHECK_DEADLOCK FALSE

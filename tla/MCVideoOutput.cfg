CONSTANTS
  Kinds = {"local", "remote"}
  Sizes = {"cif", "hd"}
  Views = {"remote", "pip"}
  None = None
SPECIFICATION MCSpec
INVARIANTS
  OpenAsUsed
  LastFrameIsRight
PROPERTIES
  OperationsReturnOfParts
  PicturesAreShown
CHECK_DEADLOCK FALSE

CONSTANTS
  camera1 = camera1
  camera2 = camera2
  logo = logo
  ptlib = ptlib
  mlogo = mlogo
  small = small
  large = large
  Nobody = Nobody
  Closed = Closed
  Configs = {small, large}
  Devices = {camera1, camera2, logo}
  Fallback = logo
  ManagerOf <- MCManagerOf
SPECIFICATION Spec
INVARIANTS
  CameraMatchesItsUse
  FrameFitsTheCamera
  FrameIsNotFreedInUse
CHECK_DEADLOCK FALSE

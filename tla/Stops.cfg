SPECIFICATION Spec
CONSTANTS
  t1 = t1
  t2 = t2
  d1 = d1
  d2 = d2
  Devices <- TwoDevices
  Tasks <- TwoTasks
  ListLimit = 2
  Persistent = FALSE
  MayFail = FALSE
  Owner = Owner
  Stop = Stop
  Emergency = Emergency
  Stops = {Stop, Emergency}
INVARIANTS
  AnsweredStopIsWhole
SYMMETRY Symmetry
CHECK_DEADLOCK FALSE

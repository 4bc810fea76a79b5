SPECIFICATION FairSpec
CONSTANTS
  t1 = t1
  t2 = t2
  d1 = d1
  d2 = d2
  Devices <- OneDevice
  Tasks <- OneTask
  ListLimit = 1
  Persistent = TRUE
  MayFail = TRUE
  Owner = Owner
  Stop = Stop
  Emergency = Emergency
  Stops = {Stop, Emergency}
INVARIANTS
  CompletedRowWasVerified
  RowAgreesUnlessRaced
PROPERTIES
  StopIsAnswered
CHECK_DEADLOCK FALSE

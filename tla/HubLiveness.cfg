SPECIFICATION FairSpec
CONSTANTS
  s1 = s1
  s2 = s2
  a1 = a1
  None = None
  Sockets <- TwoSockets
  Calls <- OneCall
  MaxKey = 0
  Choices = {"LIMITED"}
PROPERTIES
  CallEnds
  ConnectedIsListed
CHECK_DEADLOCK FALSE

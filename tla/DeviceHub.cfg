SPECIFICATION Spec
CONSTANTS
  s1 = s1
  s2 = s2
  a1 = a1
  None = None
  Sockets <- TwoSockets
  Calls <- OneCall
  MaxKey = 1
  Choices = {"TRUSTED"}
INVARIANTS
  WaitersAreHeldOrCutOff
  OnlyCurrentKeysDrive
  AttachedIsHeld
SYMMETRY Symmetry
CHECK_DEADLOCK FALSE

SPECIFICATION Spec
CONSTANTS
  NSteps = 2
  Deps <- Chain
  StepMaxAttempts = 2
  AttemptSettings = {2}
INVARIANTS
  RunningIsDriven
CHECK_DEADLOCK FALSE

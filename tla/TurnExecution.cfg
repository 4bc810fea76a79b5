SPECIFICATION FairSpec
CONSTANTS
  NSteps = 3
  Deps <- Fork
  StepMaxAttempts = 2
  AttemptSettings = {1, 2}
INVARIANTS
  DependenciesFirst
  DoneWasVerified
  CompletedMeansAllDone
  TurnSettlesTask
PROPERTIES
  CancelStopsTheWalk
  ImplementsLifecycle
  TurnEnds
CHECK_DEADLOCK FALSE

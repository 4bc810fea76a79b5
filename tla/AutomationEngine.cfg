SPECIFICATION FairSpec
CONSTANTS
  Rules <- MCRules
  Drawn <- MCDrawn
  Publishers = {"node"}
  Outside = {"file.changed"}
  Limit = 1
  Levels = {0, 2}
  Hour = 1
  MaxMinute = 1
  MaxEvents = 1
  MaxAsked = 4
  MaxDrawn = 2
CHECK_DEADLOCK FALSE
INVARIANTS
  AttentionIsBounded
  OncePerMinute
  ServedUnlessBroken
  OnlyArmedRulesFire
PROPERTIES
  PublisherReturns
  FailureIsContained

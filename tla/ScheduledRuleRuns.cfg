SPECIFICATION Spec
CONSTANTS
  Rules = {"r"}
  Notes = {"n"}
  Sweepers = {"worker"}
  MaxMinute = 2
  MaxAsked = 5
PROPERTY ScheduledRuleRuns
CHECK_DEADLOCK FALSE

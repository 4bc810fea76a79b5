SPECIFICATION FairSpec
CONSTANTS
  c1 = c1
  c2 = c2
  c3 = c3
  Calls <- Three
  Actions <- MCActions
  Policy <- MCPolicy
  Requests <- Guarded
  Autonomy = {"SUGGEST_ONLY", "HIGH"}
PROPERTIES
  CallEnds

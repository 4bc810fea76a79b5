SPECIFICATION Spec
CONSTANTS
  c1 = c1
  c2 = c2
  c3 = c3
  Calls <- Three
  Actions <- MCActions
  Policy <- MCPolicy
  Requests <- Standing
  Autonomy = {"SUGGEST_ONLY", "HIGH"}
INVARIANTS
  RunsOnlyOnConsent
  
  AnswerMatchesTheTrail

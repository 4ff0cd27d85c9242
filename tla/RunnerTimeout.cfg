CONSTANTS
  a1 = a1
  a2 = a2
  i1 = i1
  Agents <- MCAgents
  Items <- MCItems
  OnNt = TRUE
SPECIFICATION Spec
PROPERTY TimeoutEndsTheWait

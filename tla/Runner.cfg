CONSTANTS
  a1 = a1
  a2 = a2
  i1 = i1
  Agents <- MCAgents
  Items <- MCItems
  OnNt = FALSE
SPECIFICATION Spec
INVARIANTS
  TypeOK
  CoherentVerdict
  LeakHasACause
  ErrorMeansNoAgent
  AlertHasACulprit
PROPERTY ImplementsContract

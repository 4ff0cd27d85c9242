CONSTANTS
  n1 = n1
  n2 = n2
  n3 = n3
  n4 = n4
  Nil = Nil
  NodeList <- Four
  Candidates = {n1, n2, n3, n4}
  MaxTerm = 1
  MaxRequests = 1
SPECIFICATION Spec
INVARIANT CommittedOnMajority
CHECK_DEADLOCK FALSE

CONSTANTS
  n1 = n1
  n2 = n2
  n3 = n3
  n4 = n4
  Nil = Nil
  NodeList <- Three
  Candidates = {n1, n2}
  MaxTerm = 3
  MaxRequests = 2
SPECIFICATION Spec
INVARIANTS
  LeaderWasElected
  LogShape
  ConnectedNodesAgree
  AppliedOnce
CHECK_DEADLOCK FALSE

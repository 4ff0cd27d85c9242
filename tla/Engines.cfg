CONSTANTS
  Codes <- MCCodes
  StackSize = 8
  MaxFrames = 4
  MaxValue = 9
  Programs <- MCPrograms
  Signals = {"s", "t"}
  Values = 3
  Order <- MCOrder
  Formula <- MCFormula
  Coarse = {"m"}
  Fragile = {"d"}
  PluginNames = {"p1", "p2", "p3"}
  Rank <- MCRank
  MaxLoads = 3
  Members = {"n1", "n2", "n3"}
  Virtual = 2
  Hashes = 6
  HashFunctions <- MCHashFunctions
  MaxPoints = 6
SPECIFICATION Bench
INVARIANTS
  CallersKeepTheirStack
  TextIsAccountedFor
  DependenciesHold
  AnswersAreRight
PROPERTY KeysStayHome
CHECK_DEADLOCK FALSE

CONSTANTS
  k1 = k1
  k2 = k2
  Keys = {k1, k2}
  NoKey = nokey
  MaxTxns = 2
  MaxLog = 7
  NKeys = 3
  MemtableSize = 2
  MaxLevels = 3
  LevelRatio = 1
  MaxWrites = 6
  Replicas = {"A", "B", "C"}
  Elements = {"x", "y"}
  MaxCalls = 3
  MaxTime = 2
  Names = {"p", "q"}
  HeapSize = 3
  Threshold = 2
  MaxObjects = 4
  MaxRefs = 1
SPECIFICATION Bench
SYMMETRY Symmetry
INVARIANTS
  RecoveryAgrees
  DataIsCommitted
  TablesKeepLiveKeys
  LookupsAnswer
  ReplicasReflectCalls
  VariablesSurvive
CHECK_DEADLOCK FALSE

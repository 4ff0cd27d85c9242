CONSTANTS
  k1 = k1
  k2 = k2
  a = a
  None = None
  Keys <- KeySet
  Values <- ValueSet
  Levels <- AllLevels
  MaxTxns = 2
SPECIFICATION Spec
SYMMETRY KeySymmetry
INVARIANTS
  ChainsAreHistory
  SnapshotReads
  SerializableAtCommit
CHECK_DEADLOCK FALSE

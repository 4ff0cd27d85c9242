CONSTANTS
  amp = amp
  claude = claude
  AgentList <- MCAgentList
  NTasks = 2
  Runs = 2
  Pause = TRUE
  Outcomes <- MCOutcomes
  Language <- MCLanguage
SPECIFICATION Spec
INVARIANTS
  TypeOK
  RawIsOnDisk
  RoundsBalanced
  PartialIsLast
  InterruptPromise
  NothingForgotten
  AggregateAgrees
  ReportsAgree
PROPERTY SessionEnds
CHECK_DEADLOCK FALSE

CONSTANTS
  amp = amp
  claude = claude
  AgentList <- MCAgentList
  NTasks = 2
  Runs = 2
  Pause = TRUE
  Outcomes <- MCOutcomes
  Language <- MCLanguage
SPECIFICATION Spec
INVARIANT CompleteSessionsAreReported
CHECK_DEADLOCK FALSE

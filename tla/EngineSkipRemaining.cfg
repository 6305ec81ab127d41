CONSTANTS
  Workflows = {"chunk", "own", "copy"}
  Versions = {"old", "new"}
  Files <- MCFiles
  Release <- MCRelease
  InitStatus <- MCInitStatus
  InitSteps <- MCInitSteps
  MaxChanges = 0
  Runs = {"r"}
  Tables <- MCTables
  MaxRows = 1
  MaxFaults = 0
SPECIFICATION Spec
INVARIANTS SkipRemainingObeyed
CHECK_DEADLOCK FALSE

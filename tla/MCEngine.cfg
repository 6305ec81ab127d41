CONSTANTS
  Workflows = {"chunk", "own", "copy"}
  Versions = {"old", "new"}
  Files <- MCFiles
  Release <- MCRelease
  InitStatus <- MCInitStatus
  InitSteps <- MCInitSteps
  MaxChanges = 3
  Runs = {"r"}
  Tables <- MCTables
  MaxRows = 1
  MaxFaults = 1
SPECIFICATION FairSpec
INVARIANTS EngineInv OneDefinition CompletedWhole Lineage StatusTold
PROPERTIES RunRecorded RunEnds
CHECK_DEADLOCK FALSE

SPECIFICATION FairSpec
CONSTANTS
  Callers = {"cron", "user"}
  Commands <- MCCommands
  Files <- MCFiles
  Extension <- MCExtension
  Magic <- MCMagic
  Types <- MCTypes
  SystemTypes <- MCSystemTypes
  ExtMap <- MCExtMap
  DefaultMap <- MCDefaultMap
  Workflows <- MCWorkflows
  Searching = "search_v1"
  Failing = {}
  Writing = {"text_v1", "md_v1"}
  Selects <- MCSelects
  Barren = {}
  Limit = 2
  Remaps <- MCRemaps
  MaxEvents = 1
INVARIANTS  AskedOfOne  StatusMissesNone
PROPERTIES Processed
CHECK_DEADLOCK FALSE

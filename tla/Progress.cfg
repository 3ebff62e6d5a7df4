SPECIFICATION FairSpec
CONSTANTS
  NUM_PROCESSES = 4
  MAX_PRIORITY = 2
  ForkPriorities = {0, 1}
  RetVals = {7}
  MaxRun = 2
  HltCallers = {0}
  CleanKills = TRUE
INVARIANT
  CurrentRunnable
PROPERTIES
  ZombiesReaped
  ProgramsRun

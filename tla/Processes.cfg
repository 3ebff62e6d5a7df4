\* A fault ends the model: undefined behaviour follows.
CHECK_DEADLOCK FALSE
SPECIFICATION Spec
CONSTANTS
  NUM_PROCESSES = 5
  MAX_PRIORITY = 2
  ForkPriorities <- SignedPriorities
  RetVals = {7}
  MaxRun = 2
  HltCallers = {0}
  CleanKills = FALSE
INVARIANTS
  TypeOK
  RunqueuesSound
  ServicesAlive
  ParentsAlive
  NoMissedWake
  NoEscalation
  NoParentCycle
  RunListSound
PROPERTIES
  SwitchToHighest
  ExitValueDelivered

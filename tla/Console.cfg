SPECIFICATION Spec
CHECK_DEADLOCK FALSE
CONSTANTS
  SCREEN_WIDTH = 2
  SCREEN_HEIGHT = 3
  TAB_WIDTH = 1
  BUFFER_SIZE = 4
  HISTORY_SIZE = 3
  Chars = {"a", "b"}
  Outputs <- TwoOutputs
  SPLASH <- OneLine
  Prompts <- TwoPrompts
  Prints = {"a"}
  MAX_RUN = 2
  MAX_FAMILY = 3
  MAX_INPUTS = 6
  INTERRUPTED <- OneLine
  Careful = TRUE
INVARIANTS
  LineShown
  HistorySound
PROPERTY
  FinalizeKeeps

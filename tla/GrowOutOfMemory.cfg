\* new_page_dir stops the machine when memory runs out.
CHECK_DEADLOCK FALSE
SPECIFICATION Spec
CONSTANTS
  a = a
  b = b
  c = c
  NUM_FRAMES = 13
  BASE_FRAMES = 2
  HEAP_PAGES = 3
  TOP_PAGES = 1
  MAX_GROWTH = 2
  Slots <- ThreeSlots
  CleanForks = TRUE
SYMMETRY Exchange
INVARIANTS
  FramesPrivate

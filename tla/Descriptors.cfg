SPECIFICATION Spec
CHECK_DEADLOCK FALSE
CONSTANTS
  INIT_SIZE = 3
  MIN_NUM = 0
  Pointers = {1, 2, 3, 4, 5, 6, 7}
  Inodes = {1, 2}
  JUNK = 99
  MAX_OPENS = 9
INVARIANT
  HeldValid
PROPERTY
  TableKept

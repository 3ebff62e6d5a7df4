SPECIFICATION Spec
CHECK_DEADLOCK FALSE
CONSTANTS
  INODE_NUM = 10
  INODE_PER_GROUP = 10
  BLOCK_NUM = 10
  BLOCK_PER_GROUP = 10
  FIRST_INODE = 3
  FIRST_BLOCK = 4
  WORD = 5
  FREE_MOD = 10
  DBP = 2
  BLOCK_SIZE = 2
  DIR_UNITS = 7
  BadNames = {}
  Handles = {1}
  DirNames = {}
  RmNames = {}
  CdNames = {}
  Paths <- TwoPaths
  Values = {1}
  Lengths = {2, 3}
  Offsets = {}
  Modes = {"rw"}
  POS_MOD = 64
  SYS_BUF = 2
  MAX_BOOTS = 0
  Careful = FALSE
INVARIANT
  BufferHolds

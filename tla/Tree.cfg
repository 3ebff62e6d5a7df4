SPECIFICATION Spec
CHECK_DEADLOCK FALSE
CONSTANTS
  INODE_NUM = 20
  INODE_PER_GROUP = 20
  BLOCK_NUM = 10
  BLOCK_PER_GROUP = 10
  FIRST_INODE = 3
  FIRST_BLOCK = 4
  WORD = 5
  FREE_MOD = 20
  DBP = 1
  BLOCK_SIZE = 1
  DIR_UNITS = 7
  BadNames = {"-r"}
  Handles = {}
  DirNames = {"test1", "d", "-r"}
  RmNames = {"test1", "test2", "d"}
  CdNames = {"d", ".."}
  Paths = {}
  Values = {1}
  Lengths = {1}
  Offsets = {}
  Modes = {"rw"}
  POS_MOD = 64
  SYS_BUF = 1
  MAX_BOOTS = 1
  Careful = TRUE
INVARIANTS
  TypeOK
  TreeSound
  LinksExact
  NothingLost
  CountersKept
PROPERTY
  RebootKeeps

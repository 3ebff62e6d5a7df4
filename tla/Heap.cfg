SPECIFICATION Spec
CONSTANTS
  START = 48
  LIMIT = 144
  PAGE = 48
  WORD = 65520
  Sizes = {0, 27}
  Aligns = {1, 16}
  NullWord <- BiosVector
INVARIANTS
  TypeOK
  HeapTiled
  FreeListSound
  NoAdjacentFree
  UsedBlocksAreHeld
PROPERTIES
  PromiseKept

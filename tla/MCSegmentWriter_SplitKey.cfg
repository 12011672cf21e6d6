CONSTANTS
  Keys = {1, 2}
  SeqNos = {0, 1}
  ItemSizes = {1, 2}
  MaxInput = 3
  BlockSize = 2
  TargetSize = 3
  HeaderSize = 1
  SeqNoMax = 9
  NoKey = 0

SPECIFICATION Spec

INVARIANT RunKeyRangesDisjoint


CHECK_DEADLOCK FALSE

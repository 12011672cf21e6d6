CONSTANTS
  Keys = {1, 2}
  SeqNos = {0, 1}
  ItemSizes = {1, 2}
  MaxInput = 4
  BlockSize = 2
  TargetSize = 3
  HeaderSize = 1
  SeqNoMax = 9
  NoKey = 0

SPECIFICATION Spec

INVARIANT TypeOK
INVARIANT FinishedSegmentsIndexed
INVARIANT MetadataMatchesSegment
INVARIANT NoEmptySegmentLeft
INVARIANT ToBase36Correct
PROPERTY RefinesSortedRun

CHECK_DEADLOCK FALSE

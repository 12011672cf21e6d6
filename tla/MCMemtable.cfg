CONSTANTS
  Keys <- MCKeys
  SeqNos <- MCSeqNos
  ValueTypes = {"value", "tombstone"}
  MaxItems = 3
  MaxRestarts = 1
  NoSeqNo = NoSeqNo
  NoEntry = NoEntry

SPECIFICATION Spec

INVARIANT TypeOK
INVARIANT GetLinearizable
INVARIANT VersionsNeverReplaced

CHECK_DEADLOCK FALSE

CONSTANTS
  Keys <- MCKeys
  SeqNos <- MCSeqNos
  ValueTypes = {"value", "tombstone"}
  MaxItems = 4
  MaxRestarts = 1
  NoSeqNo = NoSeqNo
  NoEntry = NoEntry

SPECIFICATION Spec


CHECK_DEADLOCK FALSE
INVARIANT GetReturnsRequestedKey

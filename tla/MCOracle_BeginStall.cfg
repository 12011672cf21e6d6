CONSTANTS
  t1 = t1
  t2 = t2
  t3 = t3
  Txns <- MCTxns
  Keys <- MCKeys
  WriteSets <- NonEmptyWriteSets
  SafetyGap = 2
  SeqNoModulus <- MCSeqNoModulus
  InitSeqNo = 1
  MaxSeqNo = 7
  NoTxn = NoTxn

SYMMETRY TxnSymmetry

SPECIFICATION Spec


CHECK_DEADLOCK FALSE
INVARIANT Serializable

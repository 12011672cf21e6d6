CONSTANTS
  pa = pa
  pb = pb
  Partitions <- MCPartitions
  MaxJournalingSize = 6
  MaxWriteBufferSize = 4
  MaxWrites = 4
  MaxRotateErrors = 1

SPECIFICATION Spec

INVARIANT TypeOK
PROPERTY PressureRelieved

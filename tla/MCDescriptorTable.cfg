CONSTANTS
  s1 = s1
  s2 = s2
  s3 = s3
  r1 = r1
  r2 = r2
  Ids <- MCIds
  Threads <- MCThreads
  Limit = 2
  Concurrency = 1
  MaxFds = 5
  NoFd = NoFd

SPECIFICATION ServingSpec

INVARIANT TypeOK
INVARIANT ExclusiveGuards
INVARIANT SizeMatchesPools
PROPERTY AccessReturns

CHECK_DEADLOCK FALSE

CONSTANTS
  Backends = {b1, b2}
  u1 = u1
  u2 = u2
  uLong = uLong
  x1 = x1
  x2 = x2
  Urls = {u1}
  LongUrls = {}
  Bodies = {t1}
  LargeBodies = {}
  Junk = Junk
  None = None
  Partitions = {x1}
  PartitionOf <- MCOnePartition
  Ages = {1}
  MaxAge = 1
  MaxClock = 2
SPECIFICATION FairCacheSpec
PROPERTY LookupReturns
CHECK_DEADLOCK FALSE

CONSTANTS
  Backends = {b1, b2}
  tKeys1 = tKeys1
  x1 = x1
  Urls = {uKeys}
  LongUrls = {}
  Bodies = {tKeys1}
  LargeBodies = {}
  Junk = Junk
  None = None
  Partitions = {x1}
  PartitionOf <- MCPartitionOf
  Ages = {1}
  MaxAge = 1
  IntMax = 1
  MaxClock = 1
  Editions <- MCOneDocument
  ErrorPages = {}
  Unparseable = {}
  HeaderSections <- MCPlainSections
SPECIFICATION ClientSpec
INVARIANT MaxAgeHonoured
CHECK_DEADLOCK FALSE

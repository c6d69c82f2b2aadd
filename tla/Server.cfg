CONSTANTS
  Backends = {b1, b2}
  u1 = u1
  u2 = u2
  uLong = uLong
  x1 = x1
  x2 = x2
  Urls = {u1, u2, uLong}
  LongUrls = {uLong}
  Bodies = {t1, t2, tLarge}
  LargeBodies = {tLarge}
  Junk = Junk
  None = None
  Partitions = {x1, x2}
  PartitionOf <- MCPartitionOf
  Ages = {0, 1}
  MaxAge = 1
  MaxClock = 2
  Processes = {b1, b2}
  Handles = {h1, h2, h3}
  Invalid = Invalid
  Refs = {r1, r2, r3}
  Entries = {e1, e2}
  Null = Null
  Kinds = {"pg_try", "pg_assert_noerror"}
  MaxDepth = 12
SPECIFICATION ServerSpec
INVARIANTS
  CacheTypeOK
  ServerTypeOK
  ReadableEntriesWhole
  NoLockOutlivesCall
  OneTable
  PublishedAreaLives
  LockReleasedOnce
  HandlerInnermost
  NoErrorRemains
PROPERTIES
  CheckedEntryStable
  ImplementsExpiringMap
  CallsReturnUntilExpiry
  PublishedForGood
  AttachReturnsUnlessKept
CHECK_DEADLOCK FALSE

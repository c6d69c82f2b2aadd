CONSTANTS
  Backends = {b1, b2}
  tInfo = tInfo
  tBare = tBare
  tKeys1 = tKeys1
  tKeys2 = tKeys2
  tBroken = tBroken
  tError = tError
  x1 = x1
  Urls <- MCAllUrls
  LongUrls = {}
  Bodies = {tInfo, tBare, tKeys1, tKeys2, tBroken, tError}
  LargeBodies = {}
  Junk = Junk
  None = None
  Partitions = {x1}
  PartitionOf <- MCPartitionOf
  Ages = {1}
  MaxAge = 1
  IntMax = 1
  MaxClock = 1
  Editions <- MCEditions
  ErrorPages = {tError}
  Unparseable = {tBroken}
  HeaderSections <- MCTrailerSections
  Words <- MCWords
  Slashed <- MCSlashed
  AfterSlash <- MCAfterSlash
  LoginIssuers <- MCLoginIssuers
  StsIssuers <- MCStsIssuers
  TenantOf <- MCTenantOf
  StsIssuerOf <- MCStsIssuerOf
  NumberText <- MCNumberText
  Hbas <- MCHbas
  Tokens <- MCTokens
  InfoUrls <- MCInfoUrls
  WithInfoEnd <- MCWithInfoEnd
  DiscoveryOf <- MCDiscoveryOf
  JwksOf <- MCJwksOf
  Settings <- MCSettings
  KeySets <- MCKeySets
  Presented <- MCPresented
  Now = 1
SPECIFICATION ValidationSpec
INVARIANTS
  ClientTypeOK
  DocumentWasServed
  CacheHoldsServedDocuments
  StoredForDeclaredAge
  AuthorizedMeansVerified
  GoodTokenAccepted
  KeyOrderIrrelevant
  AuthorizedByPublishedKeys
  SupportedTokenAccepted
SYMMETRY MCSymmetry
CHECK_DEADLOCK FALSE

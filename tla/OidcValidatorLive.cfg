CONSTANTS
  Backends = {b1, b2}
  tInfo = tInfo
  tBare = tBare
  tKeys1 = tKeys1
  tKeys2 = tKeys2
  tBroken = tBroken
  tError = tError
  x1 = x1
  Urls <- MCUrls
  LongUrls = {}
  Bodies = {tInfo, tBare, tKeys1}
  LargeBodies = {}
  Junk = Junk
  None = None
  Partitions = {x1}
  PartitionOf <- MCPartitionOf
  Ages = {1}
  MaxAge = 1
  IntMax = 1
  MaxClock = 0
  Editions <- MCRotation
  ErrorPages = {}
  Unparseable = {}
  HeaderSections <- MCTrailerSections
  Words <- MCOneWord
  Slashed = {}
  AfterSlash <- MCNone
  LoginIssuers = {}
  StsIssuers = {}
  TenantOf <- MCNone
  StsIssuerOf <- MCNone
  NumberText <- MCNone
  Hbas <- MCPlainHbas
  Tokens <- MCOneToken
  InfoUrls <- MCInfoUrls
  WithInfoEnd <- MCWithInfoEnd
  DiscoveryOf <- MCDiscoveryOf
  JwksOf <- MCJwksOf
SPECIFICATION LiveSpec
PROPERTY ValidationEnds
CHECK_DEADLOCK FALSE

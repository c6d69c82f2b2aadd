SPECIFICATION Spec
CONSTANTS
  Vars = {x1, x2, x3}
  Cells = {c1, c2, c3, c4}
  Types = {"null", "int64", "number", "string", "array"}
  Contents = {0, 1, 2}
  Rounded <- NearestDoubles
  Freed = Freed
  Escapes <- AllEscapes
  Binaries <- AllBinaries
  EncodedTexts <- AllEncoded
  Numbers <- AllNumbers
  Half = 2
  Handles = {h1, h2, h3}
  Keys = {k1, k2}
  NoKey = NoKey
  Ticks = 2
  MaxDate = 15
  Lowered <- LowerCase
  Undecodable <- InvalidStrings
  Texts <- Tokens
  Algorithms <- VerifierAlgorithms
  Settings <- AllSettings
  MaxSettings = 3
  MaxClock = 3
  HeaderClaims <- NamedAlgs
  PayloadClaims <- NamedClaims
  Dates = {3}
  Lifetimes = {1}
  Unable <- Keyless
  MaxIssued = 2
  Library <- OpenSslFunctions
  Public <- OpenSslPublic
  Throwers <- OpenSslThrowers
  Documents <- AllDocuments
  KeyIds = {"k1", "k2", "k3"}
  Members = {"kid", "kty", "key_ops", "x5c"}
INVARIANT FreedOnce
INVARIANT FirstErrorReported
INVARIANT OwnersCounted
INVARIANT RoundTrip
INVARIANT DecodeExact
INVARIANT AcceptsGrammar
INVARIANT ReadsMeaning
INVARIANT EscapesAreUtf8
INVARIANT OwnedOnce
INVARIANT ValueSemantics
INVARIANT SignedWithAllowedKey
INVARIANT ValidAtOneInstant
INVARIANT LastSettingsDecide
INVARIANT SignedTokenIsRecognized
INVARIANT GoodForItsLifetime
INVARIANT LookupIsFirstListed
CHECK_DEADLOCK FALSE

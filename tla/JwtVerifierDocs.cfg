SPECIFICATION VerifierSpec
CONSTANTS
  Ticks = 2
  MaxDate = 15
  Lowered <- LowerCase
  Undecodable <- InvalidStrings
  Texts <- Tokens
  Algorithms <- OneAlgorithm
  Settings <- DisputedSettings
  MaxSettings = 2
  MaxClock = 3
INVARIANT ChecksAsDocumented
CHECK_DEADLOCK FALSE

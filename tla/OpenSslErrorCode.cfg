SPECIFICATION CallSpec
CONSTANTS
  Library <- OpenSslFunctions
  Public <- OpenSslPublic
  Throwers <- OpenSslThrowers
INVARIANT ErrorCodeAsDocumented
CHECK_DEADLOCK FALSE

SPECIFICATION KeySetSpec
CONSTANTS
  Ticks = 1
  MaxDate = 0
  Lowered = Lowered
  Undecodable = {}
  Documents <- AllDocuments
  KeyIds = {"k1", "k2", "k3"}
  Members = {"kid", "kty", "key_ops", "x5c"}
INVARIANT LookupAnswers
CHECK_DEADLOCK FALSE

SPECIFICATION BlockSpec
CONSTANTS
  Kinds = {"pg_try", "pg_assert_noerror", "block"}
  MaxDepth = 3
INVARIANT EndTryCalled
CHECK_DEADLOCK FALSE

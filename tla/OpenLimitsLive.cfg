SPECIFICATION LiveBarsSpec
INVARIANT
  LivePolicyBounded
CHECK_DEADLOCK FALSE

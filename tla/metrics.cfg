SPECIFICATION MetricsSpec
CONSTANTS
  Attempts = {"a", "b", "c"}
  Delays = {0, 500}
INVARIANTS MetricsTypeOK ResultsCovered BalancedAtRest OutcomesAsTested
PROPERTIES WorkersReleased
CHECK_DEADLOCK FALSE

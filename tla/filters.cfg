SPECIFICATION FiltersSpec
CONSTANTS
  Managers = {"external", "unknown", "untimed"}
  Untimed = {"untimed"}
  MaxClock = 3
INVARIANTS LastWriterKnown ConformsToTests
CHECK_DEADLOCK FALSE

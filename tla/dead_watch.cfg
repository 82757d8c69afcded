SPECIFICATION Spec
CONSTANTS
  Syncs <- OneSync
  Objects = {"src", "tgt"}
  SourceOf <- OneSource
  TargetOf <- OneTarget
  MappingOf <- OneMapping
  Data = {"a", "b"}
  Existing = {"src"}
  MaxUid = 1
  MaxEdits = 4
  MaxFaults = 0
  WatchExpiry = FALSE
  Panics = TRUE
  LocalTargets = {}
  Overridable = {}
  Foreign = {}
  Ticks = 3
  MaxCrashes = 0
  Staleness = 0
CHECK_DEADLOCK FALSE
PROPERTIES Converges

SPECIFICATION Spec
CONSTANTS
  Syncs <- OneSync
  Objects = {"src", "tgt"}
  SourceOf <- OneSource
  TargetOf <- OneTarget
  MappingOf <- OneMapping
  Data = {"a", "b"}
  Existing = {"src", "tgt"}
  MaxUid = 1
  MaxEdits = 2
  MaxFaults = 1
  WatchExpiry = TRUE
  Panics = FALSE
  LocalTargets = {}
  Overridable = {}
  Foreign = {}
  Ticks = 3
  MaxCrashes = 0
  Staleness = 0
CHECK_DEADLOCK FALSE
PROPERTIES DeletionCompletes

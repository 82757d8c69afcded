SPECIFICATION Spec
CONSTANTS
  Syncs <- OneSync
  Objects = {"src", "tgt"}
  SourceOf <- OneSource
  TargetOf <- OneTarget
  MappingOf <- OneMapping
  Data = {"a", "b"}
  Existing = {"src"}
  MaxUid = 2
  MaxEdits = 4
  MaxFaults = 0
  WatchExpiry = FALSE
  Panics = TRUE
  LocalTargets = {"one"}
  Overridable = {}
  Foreign = {"other"}
  Ticks = 3
  MaxCrashes = 1
  Staleness = 0
CHECK_DEADLOCK FALSE
INVARIANTS TargetProtected
PROPERTIES ForeignKeptOnDeletion

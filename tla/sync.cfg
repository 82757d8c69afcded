SPECIFICATION Spec
CONSTANTS
  Syncs <- OneSync
  Objects = {"src", "tgt"}
  SourceOf <- OneSource
  TargetOf <- OneTarget
  MappingOf <- OneMapping
  Data = {"a", "b", "c"}
  Existing = {"src"}
  MaxUid = 2
  MaxEdits = 3
  MaxFaults = 1
  WatchExpiry = FALSE
  Panics = FALSE
  LocalTargets = {}
  Overridable = {}
  Foreign = {}
  Ticks = 3
  MaxCrashes = 0
  Staleness = 0
CHECK_DEADLOCK FALSE
INVARIANTS TypeOK NothingForgotten
PROPERTIES LeaseKept TimeMovesOnFlip Converges DeletionCompletes

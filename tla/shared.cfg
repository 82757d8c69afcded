SPECIFICATION SettledSpec
CONSTANTS
  Syncs <- TwoSyncs
  Objects = {"src", "tgt"}
  SourceOf <- SharedSource
  TargetOf <- SharedTarget
  MappingOf <- RivalMapping
  Data = {"a", "b"}
  Existing = {"src"}
  MaxUid = 1
  MaxEdits = 1
  MaxFaults = 0
  WatchExpiry = FALSE
  Panics = FALSE
  LocalTargets = {}
  Overridable = {}
  Foreign = {}
  Ticks = 2
  MaxCrashes = 0
  Staleness = 0
CHECK_DEADLOCK FALSE
INVARIANTS TasksAccounted
PROPERTIES SurvivorConverges CallsReturn

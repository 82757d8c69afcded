SPECIFICATION ServiceSpec
CONSTANTS
  Syncs <- OneSync
  Objects = {"src", "tgt"}
  SourceOf <- OneSource
  TargetOf <- OneTarget
  Data = {"a", "b"}
  Existing = {"src"}
  MaxUid = 1
  MaxEdits = 2
  MaxFaults = 1
  WatchExpiry = FALSE
  Panics = TRUE
CHECK_DEADLOCK FALSE
INVARIANTS ServiceTypeOK DrainedBeforeStop NoLostChange
PROPERTIES ChangesAreTold CallsReturn ShutdownCompletes

SPECIFICATION MappingSpec
CONSTANTS
  Sources <- AllSources
  Mappings <- Entries
  MaxMappings = 3
  Target <- Here
INVARIANTS MappingTypeOK OnlySelectedCopied LaterEntriesWin ReplacementStartsOver TargetIdentityKept FieldsOnce ContainerRoundTrip MappingConformsToTests
CHECK_DEADLOCK FALSE

SPECIFICATION AccessSpec
CONSTANTS
  Namespaces = {"team-a", "store"}
  Contents = {"no data", "no key", "no text", "no config", "kube-one", "kube-two"}
  Refs <- References
INVARIANTS AccessTypeOK NamespacesAgree AccessConformsToTests
PROPERTIES ForeignSecretNeedsPermission DenialTellsNothing EventuallyResolved

SPECIFICATION Spec
INVARIANTS
  DirectoryIsExact
  ReaddirIsComplete
  AttributesAreExact
  VisibleValueIsWhole
  NamespaceIsExact
  OrphansAreFreed
  TryLockBreaksCycle
CHECK_DEADLOCK FALSE

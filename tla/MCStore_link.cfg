SPECIFICATION Spec
CONSTANTS
  TABLE_IMPL_LIMIT = 3
  MAX_PAGES = 2
  PAGE_SIZE = 2
  MAX_CALL_DEPTH = 2
  Modules <- LinkModules
  HostModules <- LinkHosts
  EmbedderValues <- SomeValues
  MaxAddr = 4
  MaxInstances = 3
  MaxOps = 3
  Words = {0, 1, 2}
INVARIANTS
  TypeOK
  ReferencesResolve
  Owned
  StoreTyped
  ImportsHold
PROPERTIES
  KeepsPromise
  SegmentsInOrder

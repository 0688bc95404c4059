SPECIFICATION FairSpec
CONSTANTS
  TABLE_IMPL_LIMIT = 3
  MAX_PAGES = 2
  PAGE_SIZE = 2
  MAX_CALL_DEPTH = 2
  Modules <- Candidates
  HostModules <- CandidateHosts
  EmbedderValues = {}
  MaxAddr = 2
  MaxInstances = 2
  MaxOps = 0
  Words = {0, 1}
INVARIANTS
  IndicesInRange
PROPERTIES
  LinkEnds

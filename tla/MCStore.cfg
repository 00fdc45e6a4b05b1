SPECIFICATION Spec
CONSTANTS
  Types <- MCTypes
  Ids <- MCIds
  Kinds <- MCKinds
  Paths <- MCPaths
  RealPath <- MCRealPath
  NoFile = NoFile
  Mains <- MCMains
  Headers <- MCHeaders
  Remapped <- NoRemap
  MaxLinks = 1
  EndSourceFileDispatched = TRUE
INVARIANTS TypeOK NoOrphan CacheScoped CacheComplete EntityOnce IInv
PROPERTY ImplementsRegistry
CHECK_DEADLOCK FALSE

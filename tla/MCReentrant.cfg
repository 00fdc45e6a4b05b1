SPECIFICATION ExportSpec
CONSTANTS
  Types <- MCTypes
  Ids <- MCIds
  Kinds <- MCKinds
  Paths <- MCPaths
  RealPath <- MCRealPath
  NoFile = NoFile
  Mains <- MCMains
  Headers <- Reentrant
  Remapped <- NoRemap
  MaxLinks = 1
  EndSourceFileDispatched = TRUE
  Mapped <- MCMapped
  ServerFails = FALSE
INVARIANT ExportSafe
CHECK_DEADLOCK FALSE

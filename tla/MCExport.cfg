SPECIFICATION ExportSpec
CONSTANTS
  Types <- MCTypes
  Ids <- MCIds
  Kinds <- MCKinds
  Paths <- MCPaths
  RealPath <- MCRealPath
  NoFile = NoFile
  Mains <- MCMains
  Headers <- MCHeaders
  Remapped <- NoRemap
  MaxLinks = 3
  EndSourceFileDispatched = TRUE
  Mapped <- MCMapped
  ServerFails = TRUE
INVARIANTS ExportSafe ExportComplete ExportInv
PROPERTY ExportEnds
CHECK_DEADLOCK FALSE

SPECIFICATION ExportSpec
CONSTANTS
  Types <- MCTypes
  Ids <- MCIds
  Kinds <- MCKinds
  Paths <- MCPaths
  RealPath <- MCRealPath
  NoFile = NoFile
  Mains <- MCMains
  Headers <- Reentrant
  Remapped <- MCRemapped
  MaxLinks = 2
  EndSourceFileDispatched = TRUE
  Mapped <- MCMapped
  ServerFails = TRUE
INVARIANTS GlobalsKept LossesAccounted
PROPERTY ExportStops
CHECK_DEADLOCK FALSE

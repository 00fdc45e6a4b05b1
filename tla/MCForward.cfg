SPECIFICATION VisitorSpec
CONSTANTS
  Types <- MCTypes
  Ids = {}
  Kinds = {}
  Paths <- MCPaths
  RealPath <- MCRealPath
  NoFile = NoFile
  Mains <- OneUnit
  Headers = {}
  Remapped = {}
  MaxLinks = 0
  EndSourceFileDispatched = TRUE
  Programs <- ForwardProgram
INVARIANT FieldMacrosUsed
CHECK_DEADLOCK FALSE

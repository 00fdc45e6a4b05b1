SPECIFICATION VisitorSpec
CONSTANTS
  Types <- MCTypes
  Ids = {}
  Kinds = {}
  Paths <- MCPaths
  RealPath <- MCRealPath
  NoFile = NoFile
  Mains <- TwoUnits
  Headers = {}
  Remapped = {}
  MaxLinks = 0
  EndSourceFileDispatched = TRUE
  Programs <- TwicePrograms
INVARIANT InitializersIndexed
CHECK_DEADLOCK FALSE

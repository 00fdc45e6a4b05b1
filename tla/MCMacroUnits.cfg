SPECIFICATION MacroSpec
CONSTANTS
  Types <- MCTypes
  Ids <- MCIds
  Kinds <- MCKinds
  Paths <- MCPaths
  RealPath <- MCRealPath
  NoFile = NoFile
  Mains <- TwoMains
  Headers <- MCHeaders
  Remapped <- NoRemap
  MaxLinks = 0
  EndSourceFileDispatched = FALSE
  Names <- OneName
  Definitions <- SharedDefinitions
  Declared <- OneFunction
  MaxRecords = 2
  MaxVisits = 1
  FreedNodesIntact = FALSE
INVARIANTS SubstitutionResolved MacrosBound
CHECK_DEADLOCK FALSE

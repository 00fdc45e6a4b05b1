SPECIFICATION MacroSpec
CONSTANTS
  Types <- MCTypes
  Ids <- MCIds
  Kinds <- MCKinds
  Paths <- MCPaths
  RealPath <- MCRealPath
  NoFile = NoFile
  Mains <- OneMain
  Headers <- NoHeaders
  Remapped <- NoRemap
  MaxLinks = 0
  EndSourceFileDispatched = FALSE
  Names <- MCNames
  Definitions <- MCDefinitions
  Declared <- TwoFunctions
  MaxRecords = 1
  MaxVisits = 2
  FreedNodesIntact = FALSE
INVARIANT SubstitutionDeferred
CHECK_DEADLOCK FALSE

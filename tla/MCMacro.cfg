SPECIFICATION FairMacroSpec
CONSTANTS
  Types <- MCTypes
  Ids <- MCIds
  Kinds <- MCKinds
  Paths <- MCPaths
  RealPath <- MCRealPath
  NoFile = NoFile
  Mains <- OneMain
  Headers <- NoHeaders
  Remapped <- NoRemap
  MaxLinks = 0
  EndSourceFileDispatched = FALSE
  Names <- MCNames
  Definitions <- MCDefinitions
  Declared <- OneFunction
  MaxRecords = 3
  MaxVisits = 1
  FreedNodesIntact = FALSE
INVARIANTS MacroInv CompleteAtEnd MentionsKept StackDistinct
PROPERTY WalksEnd
CHECK_DEADLOCK FALSE

SPECIFICATION VisitorSpec
CONSTANTS
  Types <- MCTypes
  Ids = {}
  Kinds = {}
  Paths <- MCPaths
  RealPath <- MCRealPath
  NoFile = NoFile
  Mains <- TwoUnits
  Headers = {}
  Remapped = {}
  MaxLinks = 0
  EndSourceFileDispatched = TRUE
  Programs <- MCPrograms
INVARIANTS AssertionsHold VisitorInv NoReentry FieldsKept FieldMacrosUsedIfLinear FieldsAdopted LeftMacrosUsedIfLinear
  BodyReferred MembersReferred InheritanceFound ArgumentsOfDefinition FunctionMacrosUsed
  InitializersIndexedIfApart
PROPERTY VisitEnds
CHECK_DEADLOCK FALSE

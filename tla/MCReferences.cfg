SPECIFICATION ComponentSpec
CONSTANTS
  Args <- Two
  RefKinds <- Two
  Targets <- Two
  MaxNodes = 5
  Files <- TwoFiles
  Lines <- OneTwo
  Columns <- OneTwo
INVARIANTS NoReferenceLost DeclarationsKept
CHECK_DEADLOCK FALSE

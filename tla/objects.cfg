SPECIFICATION Spec
CONSTANTS
  Archives <- MCArchives
  PkgPath <- MCPkgPath
CHECK_DEADLOCK FALSE
INVARIANTS FunctionsKept ReferencesMet CFunctionsWhole

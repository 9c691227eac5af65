CONSTANTS
  Hosts <- MCHosts
  Modules <- MCModules
SPECIFICATION Spec
INVARIANTS TypesAgree ItabsAgree PackagesAreWhole PointersAreScanned TablesAreFound
CHECK_DEADLOCK FALSE

SPECIFICATION StorageSpec
CONSTANTS
  Tocs <- MCTocs
  Requests <- MCRequests
  Cells = 2
  StatusCell = 1
  LegacyBootTop = 0
  BootMinimum = 2
  MaxDamaged = 1
  Faults = TRUE
INVARIANTS StorageTypeOK DeliveredAsRequested UnservedLeavesMemory CatalogueIsExact
PROPERTIES ObservedAssetsAreLoaded
CHECK_DEADLOCK FALSE

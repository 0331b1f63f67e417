SPECIFICATION StorageSpec
CONSTANTS
  Tocs <- MCTocs
  Requests <- MCRequests
  Cells = 2
  StatusCell = 1
  LegacyBootTop = 0
  BootMinimum = 2
  MaxDamaged = 1
  Faults = FALSE
INVARIANTS IndexedAssetsNeverFallBack

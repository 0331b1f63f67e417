SPECIFICATION LiveSpec
CONSTANTS
  RamSize = 14
  Capacity = 3
  MapBytes = 2
  MaxShells = 6
  TransitionBase = 11
  TransitionSlots = 1
  TransitionSlotSize = 2
  NativeBank <- MCNativeBank
  StartMemories <- MCStartMemories
  MobyWrites <- MCMobyWrites
  GlobalWrites <- MCGlobalWrites
  MaxWrites = 2
  Catalogs <- MCCatalogs
  DiagnosticPeriod = 2
INVARIANTS LiveTypeOK PacketsInGuestMemory RatchetIdentityNeverTorn AccountingBalances SkyDrawnIsLoadedSky

SPECIFICATION BridgeSpec
CONSTANTS
  Base = 4
  End = 24
  bootA = bootA
  bootB = bootB
  native = native
  outer = outer
  inner = inner
  second = second
  Owner = {bootA, bootB, native, outer, inner, second}
  NoOwner = NoOwner
  Requests = {}
  Generation = {8, 16, 20}
  Records <- MCRecords
  Module <- MCModule
  Image <- MCImage
  Body <- MCBody
  BootOwners <- MCBootOwners
  MaxCalls = 4
INVARIANTS BridgeTypeOK DispatchMatchesMemory SnapshotConsistent

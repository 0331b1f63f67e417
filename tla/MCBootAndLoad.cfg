SPECIFICATION BootAndLoadSpec
CONSTANTS
  RamCells = 24
  HeaderCells = 2
  BlockCells = 4
  Calls <- MCCalls
  WadPackets <- MCWadPackets
  AddressLimit = 8000
  Loads <- MCLoads
  Poses <- MCPoses
  Collisions <- MCCollisionInputs
  Pcs = {1, 2, 3, 4, 5, 6, 7}
  GeneratedPcs <- MCGeneratedPcs
  Declarations <- MCDeclarations
  ElfFiles <- MCElfFiles
  GuestAddressLimit = 10000
  kDbcLinkCapacity = 3
  DbcInit <- MCDbcInit
  DbcLinkAllocate <- MCDbcLinkAllocate
  WorkState <- MCWorkState
  RamBytes = 33554432
  MemoryBytes = 40
  BootElf <- MCElf
  StaticPcs <- MCStaticPcs
  Overlays <- MCOverlays
  BootSnapshots <- MCBootSnapshots
INVARIANTS LevelReadsStayInRange CollisionReadsStayInRange LoadedLevelIsWhole RefusalsHaveTheirCause WadOutputIsExpansion FallbacksAreStatic ConflictVerdictIsReal
CHECK_DEADLOCK FALSE

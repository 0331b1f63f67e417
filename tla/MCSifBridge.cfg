SPECIFICATION SifSpec
CONSTANTS
  Client = {c1, c2, c3}
  heapBuffer = heapBuffer
  fileBuffer = fileBuffer
  Remote = {heapBuffer}
  NoRemote = NoRemote
  Service = {3, 4}
  HeapService = 3
  HeapBase = 9
  Behaviors <- DiskBehaviors
  MaxBindings = 2
  MaxPayloads = 1
  Slots = 2
  Startup = {4}
  Calls <- AllCalls
  Careful = FALSE
INVARIANTS SifTypeOK BoundClientsAreRouted OneLiveAllocation InitLostOnlyToEarlierBind
PROPERTIES AnswersWaitingClient
CHECK_DEADLOCK FALSE
SYMMETRY ClientSymmetry

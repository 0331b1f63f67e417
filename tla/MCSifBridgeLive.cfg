SPECIFICATION FairSifSpec
CONSTANTS
  Client = {c1, c2}
  heapBuffer = heapBuffer
  fileBuffer = fileBuffer
  Remote = {heapBuffer, fileBuffer}
  NoRemote = NoRemote
  Service = {3, 6}
  HeapService = 3
  HeapBase = 9
  Behaviors <- FileBehaviors
  MaxBindings = 2
  MaxPayloads = 2
  Slots = 2
  Startup = {6}
  Calls <- SupportedCalls
  Careful = TRUE
PROPERTIES HeadOfLineMoves

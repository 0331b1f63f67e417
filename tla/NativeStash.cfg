\* Two units of RAM and two slots: ranges that fit, overlap, end exactly at
\* the end of RAM and overrun it; a full stash; words above every length.
SPECIFICATION StashSpec
CONSTANTS
  RamUnits = 2
  Value = {x, y}
  SlotCount = 2
  MaxWord = 3
INVARIANTS StashTypeOK StoresReadBack
PROPERTIES StashKeepsPromise

SPECIFICATION FairPresentationSpec
CONSTANTS
  Level0 = 1
  OtherGenerations = {}
  LevelOf <- MCLevelOf
  Indexed <- MCIndexed
  Neutral = 1
  Cycle = 4
  PulseFrames = 1
  CrossOffset = 2
  LiveInputs = {{}}
PROPERTIES TakeoverHappens

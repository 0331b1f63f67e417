SPECIFICATION PresentationSpec
CONSTANTS
  Level0 = 1
  OtherGenerations = {2}
  LevelOf <- MCLevelOf
  Indexed <- MCIndexed
  Neutral = 1
  Cycle = 4
  PulseFrames = 1
  CrossOffset = 2
  LiveInputs = {{}, {"Cross"}}
INVARIANTS PresentationTypeOK FailedLoadIsFinal NativeOwnershipEarned
PROPERTIES PulsesNeverResume ScreenNeverFallsBack

CONSTANTS
  speaker = speaker
  headset = headset
  Ports = {0, 1}
  Names = {speaker, headset}
  FirstNames <- TwoNames
  Worlds <- MCWorlds
  Channels = 2
  FrameCount = 1
  MaxSamples = 3
SPECIFICATION FairSpec
CHECK_DEADLOCK FALSE
INVARIANTS  SamplesInOrder
PROPERTIES PushedIsPlayed

SPECIFICATION LineSpec
CONSTANTS
  tapFile = tapFile
  Files = {tapFile}
  NoFile = NoFile
  Content <- TapeContent
  Depth = 1
  PulseDepth = 1
  LoopsSize = 1
  PilotPulses = 2
  TapPause = 1
  StraySizes = {1}
  StopAllowed = TRUE
  CardMayFail = TRUE
PROPERTIES WholeBlocks PlaysOrStops

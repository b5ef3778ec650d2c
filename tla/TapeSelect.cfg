SPECIFICATION MCSpec
CONSTANTS
  tapFile = tapFile
  tzxFile = tzxFile
  PauseLast = FALSE
  Files = {tapFile, tzxFile}
  NoFile = NoFile
  Content <- TapeContent
  Starts <- TapeStarts
  Depth = 3
  PulseDepth = 1
  LoopsSize = 2
  PilotPulses = 2
  TapPause = 1
  StraySizes = {1}
  StopAllowed = TRUE
  CardMayFail = FALSE
PROPERTIES StartPlaysSelected

SPECIFICATION OneTapeSpec
CONSTANTS
  tapFile = tapFile
  tzxFile = tzxFile
  PauseLast = FALSE
  Files = {tapFile, tzxFile}
  NoFile = NoFile
  Content <- TapeContent
  Starts <- TapeStarts
  Depth = 3
  PulseDepth = 2
  LoopsSize = 2
  PilotPulses = 2
  TapPause = 1
  StraySizes = {1}
  StopAllowed = FALSE
  CardMayFail = FALSE
INVARIANTS TypeOK PulseFifoNeverOverrun HeaderCodesKnown ReaderFeedsDecoder
PROPERTIES SignalIsTheTape

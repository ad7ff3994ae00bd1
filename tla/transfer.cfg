SPECIFICATION FairSpec
CONSTANTS
  Kinds <- EveryKind
  Frames = 2
  FrameLength = 5
  RxBufferSize = 6
  CanData = 2
  CanRoom = 3
  SizeRange = 16
  Pausing = TRUE
  MaxThrows = 1
  MaxLosses = 1
INVARIANTS TransferTypeOK ReadFits ReadsLoseNothing TornOnlyIfFailed OnceUnlessThrown
PROPERTY Forwarded

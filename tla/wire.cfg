SPECIFICATION FairSpec
CONSTANTS
  Bytes <- MCBytes
  FLAG <- MCFlag
  ESC <- MCEsc
  Complement <- MCComplement
  CrcValues <- MCCrcValues
  CrcInitial = 63
  CrcGood = 0
  DoCrc <- MCDoCrc
  CrcBytes <- MCCrcBytes
  MaxPayload = 2
  Messages <- NoisyMessages
  RxBufferSize = 2
  NoiseBytes = {0, 5, 6}
  MaxSends = 2
  MaxNoise = 2
INVARIANTS BufferBounds
PROPERTIES ImplementsLink KeepsDelivering
CHECK_DEADLOCK FALSE

SPECIFICATION FairSpec
CONSTANTS
  BufSize = 4
  MaxFrame = 4
  Noise <- MCNoise
  Frames <- MCShort
  Outgoing <- MCShort
  Ops = {"bsend"}
  AvrFaults = {}
  AmigaFaults = {"timeout"}
  Timing = "burst"
PROPERTY HandlerReturns

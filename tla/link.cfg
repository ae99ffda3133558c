SPECIFICATION FairSpec
CONSTANTS
  BufSize = 258
  MaxFrame = 258
  Noise <- MCNoise
  Frames <- MCLong
  Outgoing <- MCLong
  Ops = {"send", "recv", "bsend", "brecv"}
  AvrFaults = {}
  AmigaFaults = {}
  Timing = "loops"
INVARIANT TypeOK
INVARIANT SentIntact
INVARIANT NoContention
PROPERTY TransferSucceeds

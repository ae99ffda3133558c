SPECIFICATION FairSpec
CONSTANTS
  BufSize = 4
  MaxFrame = 4
  Noise <- MCNoise
  Frames <- MCShort
  Outgoing <- MCLarge
  Ops = {"send", "recv", "bsend", "brecv"}
  AvrFaults = {"fill"}
  AmigaFaults = {"timeout"}
  Timing = "burst"
INVARIANT NeverSpliced
INVARIANT OkMeansDelivered
INVARIANT ReceivedIntact
 
PROPERTY RoutineReturns

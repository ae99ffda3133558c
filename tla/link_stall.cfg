SPECIFICATION AvrFairSpec
CONSTANTS
  BufSize = 2
  MaxFrame = 2
  Noise <- MCNoise
  Frames <- MCWord
  Outgoing <- MCCommands
  Ops = {"send", "recv"}
  AvrFaults = {"timeout", "fill"}
  AmigaFaults = {"timeout"}
  Timing = "none"
 
PROPERTY HandlerReturns

SPECIFICATION FairSpec
CONSTANTS
  Reqs <- MCReqs
  Cmd <- MCCmd
  Type <- MCType
  Types <- MCTypes
  Mask <- MCMask
  Bad <- MCBad
  Hasty <- MCHasty
  MaxPackets = 1
  Faults = {}
CHECK_DEADLOCK FALSE
PROPERTY RequestsAnswered

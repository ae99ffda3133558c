SPECIFICATION FairSpec
CONSTANTS
  Reqs <- MCReqs
  Cmd <- MCCmd
  Type <- MCType
  Types <- MCTypes
  Mask <- MCMask
  Bad <- MCBad
  Hasty <- MCHasty
  MaxPackets = 1
  Faults = {"rx", "tx", "buffer", "attach"}
CHECK_DEADLOCK FALSE
INVARIANT SanaInv
PROPERTY Service
PROPERTY RejectsAll
 

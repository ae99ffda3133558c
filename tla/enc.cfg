SPECIFICATION FairSpec
CONSTANTS
  RxStop = 31
  Sizes = {1, 4}
  MaxSize = 3
  MaxFrames = 4
  MaxInits = 1
  MaxSends = 2
  TxErrors = TRUE
CHECK_DEADLOCK FALSE
 
 
 
PROPERTY SendReturns

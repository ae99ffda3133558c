SPECIFICATION FairSpec
CONSTANTS
  RxSize = 2
  MaxKeys = 4
  Modes = {"bridge", "pb_test"}
  MaxFails = 2
CHECK_DEADLOCK FALSE
 
INVARIANT ShellInv
PROPERTY BootParams
PROPERTY ModeEntered

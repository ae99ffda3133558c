SPECIFICATION FairSpec
CONSTANTS
  Openers = {o1, o2, o3}
  Types = {ip}
  Faults = {"memory", "process", "init", "signal", "attach"}
  Breaks = TRUE
CHECK_DEADLOCK FALSE
INVARIANT LifeInv
INVARIANT ExclusiveAlone
INVARIANT OpenServed
INVARIANT NothingLeft
PROPERTY OpenAnswered
 

SPECIFICATION Spec
CONSTANTS
  RxCap = 1
  MaxPackets = 1
  MaxRestarts = 0
  NetTypes = {"data", "loopback"}
  FlowControl = FALSE
  AvrFaults = {"rx"}
  MaxWrites = 2
  WriteTypes = {"data"}
  MaxRequests = 2
  Requests = {"online", "offline", "config"}
  Macs = {1, 2}
  AmigaFaults = {"timeout", "alloc", "buffer"}
INVARIANT WireInOrder
INVARIANT OkOnWire
INVARIANT OnlineAgree
INVARIANT MacAgreed

SPECIFICATION FairSpec
CONSTANTS
  RxCap = 2
  MaxPackets = 2
  MaxRestarts = 0
  NetTypes = {"data"}
  FlowControl = FALSE
  AvrFaults = {}
  MaxWrites = 0
  WriteTypes = {"data"}
  MaxRequests = 3
  Requests = {"online", "offline"}
  Macs = {1}
  AmigaFaults = {}
PROPERTY PacketsFetched

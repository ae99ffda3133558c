SPECIFICATION FairSpec
CONSTANTS
  RxCap = 2
  MaxPackets = 3
  MaxRestarts = 1
  NetTypes = {"data"}
  FlowControl = TRUE
  AvrFaults = {}
  MaxWrites = 1
  WriteTypes = {"data"}
  MaxRequests = 1
  Requests = {"online"}
  Macs = {1}
  AmigaFaults = {}
INVARIANT TypeOK
INVARIANT RequestHeard
INVARIANT GotInOrder
PROPERTY PacketsFetched
 
PROPERTY OnlineAgain
PROPERTY FlowReleased

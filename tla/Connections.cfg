CONSTANTS
  client = client
  server = server
  fromClient = fromClient
  ofClient = ofClient
  ofServer = ofServer
  call1 = call1
  call2 = call2
  repeater = repeater
  setClient = setClient
  Sides = {client, server}
  Callers = {fromClient, ofClient, ofServer}
  SideOfCaller <- OneOrNestedCaller
  HandlersCall <- NestedCallers
  WsCloses = 1
  Calls = {call1, call2}
  Connectors = {repeater, setClient}
  Repeater = repeater
  Links <- ThreeLinks
  MaxRestarts = 1
  Clients = {call1, call2}
  Resources = {"settings"}
  Updates = 3
  LostReplies = 1
SPECIFICATION Spec
INVARIANTS
  ConnectionsTypeOK
  ExchangeIsConsistent
  
  ChangeIsKept
PROPERTIES
  ExchangesEnd
  
  
CHECK_DEADLOCK FALSE

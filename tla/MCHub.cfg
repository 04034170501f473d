\* Three connections from one address, so that the per-address limit, the
\* subscription limit and every channel's capacity are reached.
CONSTANTS
  c1 = c1
  c2 = c2
  c3 = c3
  ip1 = ip1
  ip2 = ip2
  Clients <- ThreeClients
  IPs <- OneIP
  IPOf <- SameIP
  Topics <- OneTopic
  MaxTotal = 3
  MaxPerIP = 2
  MaxSubs = 1
  ControlCap = 1
  MessageCap = 1
  SendCap = 1
SPECIFICATION Spec
SYMMETRY Symmetry
INVARIANTS TypeOK TablesAgree NoPanic
PROPERTIES ClosedClientsStayOut
\* After ctx.Done nobody serves the channels: the hub's world may stop.
CHECK_DEADLOCK FALSE

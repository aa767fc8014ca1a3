CONSTANTS
  open = open
  login = login
  symbols = symbols
  conn1 = conn1
  conn2 = conn2
  conn3 = conn3
  Cmds = {open, login, symbols}
  Known <- MCKnown
  Parts <- MCParts
  Conns = {conn1, conn2}
  NoConn = NoConn
  RecvMax = 1
  MaxClients = 1
SPECIFICATION FairSpec
INVARIANTS
  TypeOK
  OneChannel
  Accounted
  OutcomeTruth
PROPERTIES
  LostWithItsConnection
  ReplyResolves
  KeepsContract
  EveryCallSettles
  Reconnects

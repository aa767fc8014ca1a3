CONSTANTS
  open = open
  login = login
  symbols = symbols
  conn1 = conn1
  conn2 = conn2
  conn3 = conn3
  Cmds = {open, login}
  Known <- MCKnown
  Parts <- MCParts
  Conns = {conn1, conn2, conn3}
  NoConn = NoConn
  RecvMax = 1
  MaxClients = 2
SPECIFICATION Spec
INVARIANT TimeoutMeansNoReply

CONSTANTS
  conn1 = conn1
  conn2 = conn2
  conn3 = conn3
  Python = {publisher}
  Mql = {service}
  Conns = {conn1, conn2, conn3}
  NoConn = NoConn
  States = {out, in}
  Out = out
  None = None
  MayDie = FALSE
  BufMax = 1
  WireMax = 1
SYMMETRY Symmetry
SPECIFICATION Spec
INVARIANT SingleConnection

CONSTANTS
  Qtys = {1, 2}
  Prices = {1, 3}
  MaxOrders = 3
  MaxLogins = 2
SPECIFICATION FairSpec
INVARIANTS
  TypeOK
  
  
PROPERTIES
  
  EveryOrderFills
CHECK_DEADLOCK FALSE

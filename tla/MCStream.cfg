CONSTANTS
  app = app
  mobile = mobile
  demo = demo
  real = real
  Clients = {app, mobile}
  Refs = {demo, real}
  NoRef = NoRef
  MaxEvents = 4
SPECIFICATION FairSpec
INVARIANTS
  TypeOK
  InOrder
  NoLostWakeup
  NoLeak
PROPERTY Served

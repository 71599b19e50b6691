SPECIFICATION FairSpec
CONSTANTS
  c1 = c1
  c2 = c2
  c3 = c3
  Client = {c1, c2}
  MaxEvents = 2
  BroadcastCap = 1
  RequestCap = 1
  SendCap = 1
PROPERTIES
  GoroutinesEnd
  Delivered
  DropEndsConnection
CHECK_DEADLOCK FALSE

SPECIFICATION MCSpec
CONSTANTS
  w1 = w1
  w2 = w2
  i1 = i1
  i2 = i2
  v1 = v1
  v2 = v2
  u1 = u1
  u2 = u2
  NoId = NoId
  None = None
  Worker = {w1}
  Kinds = {"building", "room", "device", "uiconfig"}
  Ids = {i1, i2}
  Vals = {v1, v2}
  Ops = {"create", "update", "bulk", "clear"}
  Users = {u1}
  OtherIds = TRUE
  MaxRequests = 2
SYMMETRY MCSymmetry
INVARIANTS
  LogIsTotal
  CountersTell

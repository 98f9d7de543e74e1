CONSTANTS
  c1 = c1
  c2 = c2
  c3 = c3
  w1 = w1
  w2 = w2
  None = None
  Conns = {c1, c2, c3}
  Workers = {w1, w2}
  Slots = 2
  Requests <- OneAsks
  MaxRequests = 1
SPECIFICATION Spec
SYMMETRY Symmetry
CHECK_DEADLOCK FALSE
INVARIANTS
  TypeOK
  SlotsOwned
  NobodyTurnedAway
  BroadcastsWhole
  SameOrder
  LeftIsGone

CONSTANTS
  c1 = c1
  c2 = c2
  c3 = c3
  w1 = w1
  w2 = w2
  f1 = f1
  f2 = f2
  f3 = f3
  n1 = n1
  n2 = n2
  None = None
  Conns = {c1, c2}
  Workers = {w1, w2}
  Fds = {f1, f2}
  Nicks = {n1, n2}
  Logins <- TwoReceivers
  Requests <- SayHistory
  MaxRequests <- Twice
  MaxRestarts = 1
  DiskFails = FALSE
  ReplyLines = 4
  SockBuf = 20
SPECIFICATION Spec
SYMMETRY SymmetryWF
CHECK_DEADLOCK FALSE
INVARIANTS
  ReadYourWrites
  RecordsInOrder

CONSTANTS
  c1 = c1
  c2 = c2
  c3 = c3
  w1 = w1
  w2 = w2
  f1 = f1
  f2 = f2
  f3 = f3
  n1 = n1
  n2 = n2
  None = None
  Conns = {c1, c2, c3}
  Workers = {w1, w2}
  Fds = {f1, f2, f3}
  Nicks = {n1, n2}
  Logins <- TwoReceivers
  Requests <- WhisperTo1
  MaxRequests <- Twice
  MaxRestarts = 0
  DiskFails = TRUE
  ReplyLines = 1
  SockBuf = 20
SPECIFICATION Spec
SYMMETRY SymmetryWF23
CHECK_DEADLOCK FALSE
INVARIANTS
  OfflineConserved
  PrivateAtMostOnce
  OfflineInOrder
  OfflineShown

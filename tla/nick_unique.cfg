CONSTANTS
  c1 = c1
  c2 = c2
  c3 = c3
  w1 = w1
  w2 = w2
  f1 = f1
  f2 = f2
  f3 = f3
  n1 = n1
  n2 = n2
  None = None
  Conns = {c1, c2}
  Workers = {w1, w2}
  Fds = {f1, f2}
  Nicks = {n1, n2}
  Logins <- OneName
  Requests <- Silent
  MaxRequests <- Never
  MaxRestarts = 0
  DiskFails = FALSE
  ReplyLines = 1
  SockBuf = 20
SPECIFICATION Spec
CHECK_DEADLOCK FALSE
INVARIANTS
  NicknamesUnique

CONSTANTS
  w1 = w1
  w2 = w2
  w3 = w3
  f1 = f1
  f2 = f2
  f3 = f3
  f4 = f4
  Main = Main
  None = None
  Workers = {w1, w2, w3}
  Fds = {f1, f2, f3, f4}
SPECIFICATION FairSpec
INVARIANTS
  TypeOK
  NoLostWakeup
PROPERTIES
  ImplementsPool
  IdleWorkerServes

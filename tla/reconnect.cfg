SPECIFICATION Spec
CONSTANTS
  none = none
  None = none
  Fds <- TwoFds
  MaxConns = 2
  Lines = {"TEXT", "PING"}
  MaxLines = 1
INVARIANTS
  TypeOK
  SocketOwned
  OneStray
PROPERTIES
  JoinEnds
  LossNoticed
\* The client ends.
CHECK_DEADLOCK FALSE

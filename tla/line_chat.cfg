SPECIFICATION Spec
CONSTANTS
  LenBytes = 2
  Base = 2
  MaxPayload = 2
  WireCap = 5
  Nicks <- ShortAndLong
  Greeting <- Zero
  Lines <- ShortLines
  MaxLines = 4
INVARIANTS
  TypeOK
  NoProtocolError
  PrintedIsPrefix
PROPERTIES
  ImplementsLink
  AllDelivered
  PingAnswered
\* The processes end.
CHECK_DEADLOCK FALSE

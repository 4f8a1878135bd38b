\* A blocking call whose dispatch BlueZ refuses never returns.
CONSTANTS
  c1 = c1
  c2 = c2
  Callers <- MCCallers
  MaxSessionId = 2
  ReliableMayMismatch = FALSE
  PeerMayDisconnect = TRUE
SPECIFICATION Spec
PROPERTY BlockingCallReturns
CHECK_DEADLOCK FALSE

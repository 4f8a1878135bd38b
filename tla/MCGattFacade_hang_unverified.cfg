\* A reliable write_long_value whose echo does not match never returns.
CONSTANTS
  c1 = c1
  c2 = c2
  Callers <- MCCallers
  MaxSessionId = 2
  ReliableMayMismatch = TRUE
  PeerMayDisconnect = FALSE
SPECIFICATION Spec
PROPERTY AcceptedCallReturns
CHECK_DEADLOCK FALSE

\* Every accepted blocking call returns, under the fairness of the input
\* thread and of ATT answers/timeouts, with disconnects and without the
\* reliable-write mismatch.  A refused dispatch blocks its caller for ever,
\* so the program can stop with every caller blocked.
CONSTANTS
  c1 = c1
  c2 = c2
  Callers <- MCCallers
  MaxSessionId = 2
  ReliableMayMismatch = FALSE
  PeerMayDisconnect = TRUE
SPECIFICATION Spec
PROPERTIES AcceptedCallReturns ImplementsCompletionSlot
CHECK_DEADLOCK FALSE

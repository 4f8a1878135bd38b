\* Safety of the completion slots with every failure the collaborator can
\* produce.  A caller whose dispatch was refused blocks forever, so the
\* program can stop with every caller blocked: deadlock is not an error here
\* (BlockingCallReturns reports it).
CONSTANTS
  c1 = c1
  c2 = c2
  Callers <- MCCallers
  MaxSessionId = 2
  ReliableMayMismatch = TRUE
  PeerMayDisconnect = TRUE
SPECIFICATION Spec
SYMMETRY CallerSymmetry
INVARIANT CompletionSlotSafe
CHECK_DEADLOCK FALSE

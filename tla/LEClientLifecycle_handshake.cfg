\* The ready handshake with every failure enabled.  The program ends (or
\* hangs in join) in states with no successor: deadlock is not checked.
CONSTANTS
  AllocMayFail = TRUE
  DiscoveryMayFail = TRUE
  PeerMayDisconnect = TRUE
SPECIFICATION Spec
INVARIANTS TypeOK ReadyNotMissed
PROPERTY WaitEnds
CHECK_DEADLOCK FALSE

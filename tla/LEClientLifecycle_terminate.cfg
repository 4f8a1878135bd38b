\* A discovery failure makes the constructor time out and terminate.
CONSTANTS
  AllocMayFail = FALSE
  DiscoveryMayFail = TRUE
  PeerMayDisconnect = FALSE
SPECIFICATION Spec
INVARIANT TimeoutIsCatchable
CHECK_DEADLOCK FALSE

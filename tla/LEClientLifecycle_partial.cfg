\* Destroying a client whose constructor returned early.
CONSTANTS
  AllocMayFail = TRUE
  DiscoveryMayFail = FALSE
  PeerMayDisconnect = FALSE
SPECIFICATION Spec
INVARIANT DestructorSafe
CHECK_DEADLOCK FALSE

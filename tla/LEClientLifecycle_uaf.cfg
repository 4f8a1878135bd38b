\* The destructor frees the client while the input thread handles a PDU.
CONSTANTS
  AllocMayFail = FALSE
  DiscoveryMayFail = FALSE
  PeerMayDisconnect = FALSE
SPECIFICATION Spec
INVARIANT NoUseAfterRelease
CHECK_DEADLOCK FALSE

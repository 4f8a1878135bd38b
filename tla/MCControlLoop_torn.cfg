\* The two axis reads of one iteration may pair values of two positions.
CONSTANTS
  DeviceAxes = 8
  EventValues <- MCEventValues
  MaxEvents <- MCMaxEvents
  LinkMayFail = FALSE
  DeviceMayBeAbsent = FALSE
SPECIFICATION Spec
INVARIANT SnapshotConsistent
\* main() returns: "done" is final.
CHECK_DEADLOCK FALSE

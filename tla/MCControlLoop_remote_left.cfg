\* No controller plugged in: main() returns -1 in remote-control mode.
CONSTANTS
  DeviceAxes = 8
  EventValues <- MCEventValues
  MaxEvents <- MCMaxEvents
  LinkMayFail = FALSE
  DeviceMayBeAbsent = TRUE
SPECIFICATION Spec
INVARIANT NormalModeOnExit
\* main() returns: "done" and "failed" are final.
CHECK_DEADLOCK FALSE

\* The control loop and the poller on the path that reaches the loop: the
\* command range, the poller's contract, and that SIGINT stops the vehicle.
CONSTANTS
  DeviceAxes = 8
  EventValues <- MCEventValues
  MaxEvents <- MCMaxEvents
  LinkMayFail = FALSE
  DeviceMayBeAbsent = FALSE
SPECIFICATION Spec
INVARIANT TypeOK
PROPERTIES ShutdownStopsVehicle ImplementsInputPoller
\* main() returns: "done" and "failed" are final.
CHECK_DEADLOCK FALSE

\* A controller that reports no axis: get_axis_state throws inside the loop
\* and the exception unwinds through ~Joystick; the connection may also fail.
CONSTANTS
  DeviceAxes = 0
  EventValues <- MCEventValues
  MaxEvents <- MCMaxEvents
  LinkMayFail = TRUE
  DeviceMayBeAbsent = FALSE
SPECIFICATION Spec
PROPERTIES ThrowJoinsPoller 
\* main() returns: "failed" is final.
CHECK_DEADLOCK FALSE

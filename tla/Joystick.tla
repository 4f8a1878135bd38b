------------------------------ MODULE Joystick ------------------------------
(***************************************************************************)
(* util::Joystick (src/src/util/joystick.cpp): the input poller.           *)
(*                                                                         *)
(* The constructor opens the device, queries the axis and button counts,  *)
(* zeroes the maps, makes the descriptor non-blocking and starts           *)
(* input_thread_func, which until should_exit_ reads one js_event per     *)
(* 60 Hz iteration and stores the value of an axis event in axis_map_      *)
(* along a fixed table.  get_axis_state copies one (x, y) slot.  The      *)
(* destructor sets should_exit_, joins the thread, closes the descriptor. *)
(*                                                                         *)
(* The loop test and the read of an iteration are two steps: nothing      *)
(* orders should_exit_ against the read, so an iteration that passed the  *)
(* test may store an event after the destructor asked it to stop.         *)
(* Timestamps are left out.  No button callback is registered by the only  *)
(* client (t_minipro), so a button event finds button_map_ all nullptr.    *)
(***************************************************************************)
EXTENDS Integers

CONSTANTS
  DeviceAxes,   \* the count JSIOCGAXES reports
  EventValues,  \* the signed 16-bit values the device may report
  MaxEvents     \* how many events the device produces in a behaviour

ASSUME JoystickAssumption ==
  /\ DeviceAxes \in 0..8
  /\ \A v \in EventValues : v \in Int /\ -32768 <= v /\ v <= 32767
  /\ 0 \in EventValues
  /\ MaxEvents \in Nat

Slots       == 0..3          \* left stick, right stick, triggers, digipad
EventNumbers == 0..8         \* 8: a raw axis number the table does not route
JS_EVENT_BUTTON == 1
JS_EVENT_AXIS   == 2
JS_EVENT_INIT   == 128
\* The type byte: a live event, or the initial-state replay the driver sends
\* on open (JS_EVENT_INIT or-ed in).
EventTypes  == {JS_EVENT_BUTTON, JS_EVENT_AXIS,
                JS_EVENT_BUTTON + JS_EVENT_INIT, JS_EVENT_AXIS + JS_EVENT_INIT}
AxisState   == [x : Int, y : Int]

\* Lines 123-149: the slot and the component a raw axis number lands in,
\* for the raw numbers 0..7 in order.
AxisSlotOf  == <<0, 0, 2, 1, 1, 2, 3, 3>>
AxisFieldOf == <<"x", "y", "x", "x", "y", "y", "x", "y">>
AxisTable   == [n \in 0..7 |-> <<AxisSlotOf[n + 1], AxisFieldOf[n + 1]>>]

\* The effect of one event on axis_map_ (lines 104-155): only an exact
\* JS_EVENT_AXIS type with a routed number stores its value.
ApplyEvent(map, type, n, v) ==
  IF type = JS_EVENT_AXIS /\ n \in DOMAIN AxisTable
    THEN LET s == AxisTable[n][1]
             f == AxisTable[n][2]
         IN  [map EXCEPT ![s][f] = v]
    ELSE map

VARIABLES
  jsFd,        \* "none", "open", "closed": the device descriptor fd_
  axisMap,     \* axis_map_
  jsExit,      \* should_exit_
  poller,      \* input thread: "none", "loop" (at the test), "reading", "exited"
  eventsLeft   \* events the device has still to deliver

jsVars == <<jsFd, axisMap, jsExit, poller, eventsLeft>>

\* Lines 33-63, the constructor once every call succeeded: the maps are
\* zeroed and the input thread runs.
JsOpen ==
  /\ jsFd = "none"
  /\ jsFd' = "open"
  /\ axisMap' = [s \in Slots |-> [x |-> 0, y |-> 0]]
  /\ poller' = "loop"
  /\ UNCHANGED <<jsExit, eventsLeft>>

\* Line 103: the loop test.  It is a plain load of should_exit_; the
\* destructor may store true just after it, and the iteration then runs on.
PollTest ==
  /\ poller = "loop"
  /\ poller' = IF jsExit THEN "exited" ELSE "reading"
  /\ UNCHANGED <<jsFd, axisMap, jsExit, eventsLeft>>

\* Lines 104-158, the rest of an iteration: read(fd_) returns a whole
\* event, which is applied to axis_map_, or EAGAIN (no event yet, or none
\* left), which changes nothing; then loop_rate.sleep().
PollRead ==
  /\ poller = "reading"
  /\ \/ /\ eventsLeft > 0
        /\ \E type \in EventTypes, n \in EventNumbers, v \in EventValues :
             axisMap' = ApplyEvent(axisMap, type, n, v)
        /\ eventsLeft' = eventsLeft - 1
     \/ UNCHANGED <<axisMap, eventsLeft>>
  /\ poller' = "loop"
  /\ UNCHANGED <<jsFd, jsExit>>

\* ~Joystick, line 72: should_exit_.store(true).
JsStop ==
  /\ jsFd = "open"
  /\ ~jsExit
  /\ jsExit' = TRUE
  /\ UNCHANGED <<jsFd, axisMap, poller, eventsLeft>>

\* Seeded bug: the descriptor is closed without waiting for the thread.
JsJoinCloseEarly ==
  /\ jsExit
  /\ jsFd = "open"
  /\ jsFd' = "closed"
  /\ UNCHANGED <<axisMap, jsExit, poller, eventsLeft>>

\* Lines 73-74: input_thread_->join() returns once the thread has exited,
\* then close(fd_).
JsJoinClose ==
  /\ jsExit
  /\ jsFd = "open"
  /\ poller = "exited"
  /\ jsFd' = "closed"
  /\ UNCHANGED <<axisMap, jsExit, poller, eventsLeft>>

\* get_axis_state(axis), lines 77-85: the range check, then the copy.
AxisInRange(axis) == axis < DeviceAxes
GetAxisState(axis) == axisMap[axis]

JsInit ==
  /\ jsFd = "none"
  /\ axisMap = [s \in Slots |-> [x |-> 0, y |-> 0]]
  /\ jsExit = FALSE
  /\ poller = "none"
  /\ eventsLeft = MaxEvents

JsTypeOK ==
  /\ jsFd \in {"none", "open", "closed"}
  /\ axisMap \in [Slots -> [x : EventValues, y : EventValues]]
  /\ jsExit \in BOOLEAN
  /\ poller \in {"none", "loop", "reading", "exited"}
  /\ eventsLeft \in 0..MaxEvents

-----------------------------------------------------------------------------
(* The poller as the design's InputPoller: the phase follows fd_ and        *)
(* should_exit_; the loop runs while input_thread_func has not returned.   *)

PollerPhase ==
  IF jsFd = "open"
    THEN IF jsExit THEN "stopping" ELSE "running"
    ELSE IF jsFd = "none" THEN "closed" ELSE "released"

Poller == INSTANCE InputPoller
            WITH phase <- PollerPhase, polling <- (poller \in {"loop", "reading"}),
                 axes <- axisMap, Values <- EventValues

=============================================================================

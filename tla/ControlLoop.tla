----------------------------- MODULE ControlLoop -----------------------------
(***************************************************************************)
(* main() of src/test/minipro/t_minipro.cpp composed with the input        *)
(* poller of Joystick: the application thread connects to the vehicle,     *)
(* enters remote-control mode, opens the controller, then at 30 Hz reads   *)
(* the left stick and sends a drive command until SIGINT sets should_exit; *)
(* it then sends drive(0, 0) and leaves remote-control mode.  Leaving the  *)
(* try block destroys the Joystick (stop, join, close).  An exception      *)
(* unwinds the same scopes and main returns -1.                            *)
(*                                                                         *)
(* MiniPro is not part of this repository: its calls are modelled from     *)
(* the design as what they tell the vehicle (the last drive command and    *)
(* the mode).  The 30 Hz pacing (LoopRate) is left out: it only delays.    *)
(***************************************************************************)
EXTENDS Joystick, Deadzone

CONSTANTS
  LinkMayFail,        \* the MiniPro constructor may throw (no connection)
  DeviceMayBeAbsent   \* the Joystick constructor may throw (no device)

ASSUME ControlLoopAssumption ==
  /\ LinkMayFail \in BOOLEAN
  /\ DeviceMayBeAbsent \in BOOLEAN

MainStates ==
  {"start", "js_ctor", "loop", "read_y", "read_x", "drive", "stop",
   "unwind", "join", "done", "failed"}
NoDrive == <<>>   \* no drive command sent yet
Axis_LeftThumbstick == 0

VARIABLES
  main,       \* program counter of the application thread
  sigExit,    \* should_exit, set by the SIGINT handler
  mode,       \* the vehicle's mode: "normal" or "remote"
  throttle,   \* the local throttle of the current iteration
  steering,   \* the local steering of the current iteration
  lastDrive,  \* the last drive command the vehicle received
  threw,      \* an exception is propagating out of the try block
  window      \* history: the values slot 0 held between the two reads

loopVars == <<main, sigExit, mode, throttle, steering, lastDrive, threw,
              window>>
vars == <<jsVars, loopVars>>

-----------------------------------------------------------------------------
(* The application thread.                                                 *)

\* Lines 52-54: MiniPro minipro(bt_addr) connects or throws; then
\* enable_notifications() and enter_remote_control_mode().  Only the
\* failure the catch block handles is modelled here; a connection that
\* never becomes ready ends the process in std::terminate (LEClientLifecycle).
Connect ==
  /\ main = "start"
  /\ \/ /\ LinkMayFail
        /\ main' = "failed"
        /\ UNCHANGED mode
     \/ /\ main' = "js_ctor"
        /\ mode' = "remote"
  /\ UNCHANGED <<jsVars, sigExit, throttle, steering, lastDrive, threw, window>>

\* Line 58: XBox360Controller joystick.  A constructor that throws leaves
\* no Joystick to destroy; the MiniPro is destroyed and main returns -1.
OpenController ==
  /\ main = "js_ctor"
  /\ \/ /\ DeviceMayBeAbsent
        /\ main' = "failed"
        /\ UNCHANGED jsVars
     \/ /\ JsOpen
        /\ main' = "loop"
  /\ UNCHANGED <<sigExit, mode, throttle, steering, lastDrive, threw, window>>

\* Seeded bug: the loop never looks at should_exit.
LoopTestIgnoresSignal ==
  /\ main = "loop"
  /\ main' = "read_y"
  /\ UNCHANGED <<jsVars, sigExit, mode, throttle, steering, lastDrive, threw,
                 window>>

\* Line 61: while (!should_exit).
LoopTest ==
  /\ main = "loop"
  /\ main' = IF sigExit THEN "stop" ELSE "read_y"
  /\ UNCHANGED <<jsVars, sigExit, mode, throttle, steering, lastDrive, threw,
                 window>>

\* Seeded bug: the exception leaves the loop without destroying the
\* controller (as if it were held by a raw pointer).
ReadThrottleLeaksJoystick ==
  /\ main = "read_y"
  /\ IF AxisInRange(Axis_LeftThumbstick)
       THEN /\ throttle' = -GetAxisState(Axis_LeftThumbstick).y
            /\ window' = {GetAxisState(Axis_LeftThumbstick)}
            /\ main' = "read_x"
            /\ UNCHANGED threw
       ELSE /\ main' = "failed"
            /\ threw' = TRUE
            /\ UNCHANGED <<throttle, window>>
  /\ UNCHANGED <<jsVars, sigExit, mode, steering, lastDrive>>

\* Line 64: throttle = -get_axis_state(Axis_LeftThumbstick).y; an axis out
\* of range throws and unwinds the try block.
ReadThrottle ==
  /\ main = "read_y"
  /\ IF AxisInRange(Axis_LeftThumbstick)
       THEN /\ throttle' = -GetAxisState(Axis_LeftThumbstick).y
            /\ window' = {GetAxisState(Axis_LeftThumbstick)}
            /\ main' = "read_x"
            /\ UNCHANGED threw
       ELSE /\ main' = "unwind"
            /\ threw' = TRUE
            /\ UNCHANGED <<throttle, window>>
  /\ UNCHANGED <<jsVars, sigExit, mode, steering, lastDrive>>

\* Line 65: steering = -get_axis_state(Axis_LeftThumbstick).x, a second
\* call and a second copy of the slot.
ReadSteering ==
  /\ main = "read_x"
  /\ steering' = -GetAxisState(Axis_LeftThumbstick).x
  /\ main' = "drive"
  /\ UNCHANGED <<jsVars, sigExit, mode, throttle, lastDrive, threw, window>>

\* Lines 70-92: the deadzone and the damping, then minipro.drive().
Drive ==
  /\ main = "drive"
  /\ lastDrive' = <<ThrottleCommand(-throttle), SteeringCommand(-steering)>>
  /\ main' = "loop"
  /\ UNCHANGED <<jsVars, sigExit, mode, throttle, steering, threw, window>>

\* Lines 96-98: drive(0, 0), exit_remote_control_mode(),
\* disable_notifications(); the try block then ends.
Stop ==
  /\ main = "stop"
  /\ lastDrive' = <<0, 0>>
  /\ mode' = "normal"
  /\ main' = "unwind"
  /\ UNCHANGED <<jsVars, sigExit, throttle, steering, threw, window>>

\* Leaving the try block runs ~Joystick: should_exit_.store(true).
Unwind ==
  /\ main = "unwind"
  /\ JsStop
  /\ main' = "join"
  /\ UNCHANGED <<sigExit, mode, throttle, steering, lastDrive, threw, window>>

\* ~Joystick goes on with join and close; ~MiniPro follows; main returns 0,
\* or -1 from the catch block.  ~MiniPro destroys its LEClient, whose
\* destructor may wait for ever (LEClientLifecycle, DestructorReturns), so
\* this step is given no fairness.
Join ==
  /\ main = "join"
  /\ JsJoinClose
  /\ main' = IF threw THEN "failed" ELSE "done"
  /\ UNCHANGED <<sigExit, mode, throttle, steering, lastDrive, threw, window>>

\* signal_handler, lines 31-34, at any point before main returns.
Signal ==
  /\ main \notin {"done", "failed"}
  /\ ~sigExit
  /\ sigExit' = TRUE
  /\ UNCHANGED <<jsVars, main, mode, throttle, steering, lastDrive, threw,
                 window>>

-----------------------------------------------------------------------------
(* The poller thread.                                                      *)

\* The loop test of input_thread_func.
PollerTest ==
  /\ PollTest
  /\ UNCHANGED loopVars

\* The read of an iteration; the history records what slot 0 holds while
\* the application thread is between its two reads.
Poll ==
  /\ PollRead
  /\ window' = IF main = "read_x" THEN window \cup {axisMap'[0]} ELSE window
  /\ UNCHANGED <<main, sigExit, mode, throttle, steering, lastDrive, threw>>

-----------------------------------------------------------------------------

Init ==
  /\ JsInit
  /\ main = "start"
  /\ sigExit = FALSE
  /\ mode = "normal"
  /\ throttle = 0
  /\ steering = 0
  /\ lastDrive = NoDrive
  /\ threw = FALSE
  /\ window = {}

Next ==
  \/ Connect \/ OpenController \/ LoopTest \/ ReadThrottle \/ ReadSteering
  \/ Drive \/ Stop \/ Unwind \/ Join \/ Signal
  \/ PollerTest \/ Poll

\* Both threads run: the application thread is never starved by the poller
\* and the poller's loop comes round every 1/60 s.  SIGINT is not assumed
\* to come, and Join, which includes ~MiniPro, is not assumed to return.
Fairness ==
  /\ WF_vars(Connect \/ OpenController \/ LoopTest \/ ReadThrottle
             \/ ReadSteering \/ Drive \/ Stop \/ Unwind)
  /\ WF_vars(PollerTest)
  /\ WF_vars(Poll)

Spec == Init /\ [][Next]_vars /\ Fairness

-----------------------------------------------------------------------------
(* Properties.                                                             *)

\* Every variable keeps its type; in particular every drive command lies in
\* the range the deadzone and the damping give a 16-bit stick value.
TypeOK ==
  /\ JsTypeOK
  /\ main \in MainStates
  /\ sigExit \in BOOLEAN
  /\ mode \in {"normal", "remote"}
  /\ \/ lastDrive = NoDrive
     \/ /\ lastDrive[1] \in ThrottleRange
        /\ lastDrive[2] \in SteeringRange
  /\ threw \in BOOLEAN

\* The drive command of an iteration comes from one (x, y) position the
\* left stick really held while the loop sampled it: the two axis reads
\* of lines 64-65 never combine the y of one position with the x of
\* another.
SnapshotConsistent ==
  main = "drive" => [x |-> -steering, y |-> -throttle] \in window

\* However main() ends, the vehicle is no longer in remote-control mode:
\* "When exiting, make sure to stop the miniPRO and return to normal mode"
\* (line 95).
NormalModeOnExit ==
  main \in {"done", "failed"} => mode = "normal"

\* Once SIGINT arrives, the vehicle is sent the neutral command, is back in
\* normal mode and the poller thread has returned, however far the loop
\* iteration under way had got (lines 61-98 and ~Joystick's stop).
ShutdownStopsVehicle ==
  sigExit ~> (lastDrive = <<0, 0>> /\ mode = "normal" /\ poller = "exited")

\* An exception thrown in the loop (get_axis_state, line 64) still stops
\* the poller thread: unwinding the try block runs ~Joystick, whose
\* should_exit_ the poller's next loop test sees.
ThrowJoinsPoller ==
  threw ~> (poller = "exited")

\* The controller behaves as the design's input poller (section 4.3):
\* axis_map_ changes only while the poller thread runs, the destructor's
\* should_exit_ does end the loop, and the descriptor is released only
\* after the join, on every path main() takes, even when a stop comes
\* between the loop test and the read of an iteration.
ImplementsInputPoller == Poller!Spec

=============================================================================

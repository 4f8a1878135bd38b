------------------------- MODULE ControlLoopProofs -------------------------
(***************************************************************************)
(* Proofs about ControlLoop for every axis count, every set of stick      *)
(* values of a js_event and every number of events: the types, and with  *)
(* them the range of every drive command main() sends; and that main()    *)
(* and the poller thread together implement the design's InputPoller.    *)
(***************************************************************************)
EXTENDS ControlLoop, DeadzoneProofs, TLAPS

-----------------------------------------------------------------------------
(* The poller keeps axis_map_ in its type.                                 *)

\* The axis table routes every raw number it knows to a slot and a field.
LEMMA AxisTableRange ==
  \A k \in DOMAIN AxisTable :
    AxisTable[k][1] \in Slots /\ AxisTable[k][2] \in {"x", "y"}
BY DEF AxisTable, AxisSlotOf, AxisFieldOf, Slots

\* An event stores a device value, or nothing.
LEMMA ApplyEventType ==
  ASSUME NEW map \in [Slots -> [x : EventValues, y : EventValues]],
         NEW type, NEW n, NEW v \in EventValues
  PROVE  ApplyEvent(map, type, n, v) \in [Slots -> [x : EventValues, y : EventValues]]
<1>1. CASE type = JS_EVENT_AXIS /\ n \in DOMAIN AxisTable
  <2> DEFINE s == AxisTable[n][1]
             f == AxisTable[n][2]
  <2>1. s \in Slots /\ f \in {"x", "y"}
    BY <1>1, AxisTableRange
  <2>2. CASE f = "x"
    BY <1>1, <2>1, <2>2 DEF ApplyEvent
  <2>3. CASE f = "y"
    BY <1>1, <2>1, <2>3 DEF ApplyEvent
  <2>4. QED
    BY <2>1, <2>2, <2>3
<1>2. CASE ~(type = JS_EVENT_AXIS /\ n \in DOMAIN AxisTable)
  BY <1>2 DEF ApplyEvent
<1>3. QED
  BY <1>1, <1>2


-----------------------------------------------------------------------------
(* Drive commands.                                                         *)

\* The commands computed from an int are ints.
LEMMA CommandInts ==
  ASSUME NEW v \in Int
  PROVE  ThrottleCommand(v) \in Int /\ SteeringCommand(v) \in Int
BY DEF ThrottleCommand, SteeringCommand, DeadzoneOf, TruncDiv, abs, sign,
       ZeroThreshold, Damping

\* The bounds of the commands are ints, so a bounded int is in the range.
LEMMA RangeMembers ==
  /\ \A t \in Int : ThrottleMin <= t /\ t <= ThrottleMax => t \in ThrottleRange
  /\ \A s \in Int : SteeringMin <= s /\ s <= SteeringMax => s \in SteeringRange
<1>1. ThrottleMin \in Int /\ ThrottleMax \in Int
      /\ SteeringMin \in Int /\ SteeringMax \in Int
  BY DEF ThrottleMin, ThrottleMax, SteeringMin, SteeringMax, AxisMax,
         ZeroThreshold, Damping
<1>2. QED
  BY <1>1 DEF ThrottleRange, SteeringRange

\* The drive command of the values of one stick position lies in the
\* ranges TypeOK states.
LEMMA DriveInRange ==
  ASSUME NEW y \in EventValues, NEW x \in EventValues
  PROVE  /\ ThrottleCommand(y) \in ThrottleRange
         /\ SteeringCommand(x) \in SteeringRange
<1>1. /\ y \in Int /\ AxisMin <= y /\ y <= AxisMax
      /\ x \in Int /\ AxisMin <= x /\ x <= AxisMax
  BY JoystickAssumption DEF AxisMin, AxisMax
<1>2. /\ ThrottleMin <= ThrottleCommand(y) /\ ThrottleCommand(y) <= ThrottleMax
      /\ SteeringMin <= SteeringCommand(x) /\ SteeringCommand(x) <= SteeringMax
  BY <1>1, CommandsInRange
<1>3. QED
  BY <1>1, <1>2, CommandInts, RangeMembers


-----------------------------------------------------------------------------
(* The inductive invariant.                                                *)

\* TypeOK, with the locals of the current iteration holding negated stick
\* values.
LoopInv ==
  /\ TypeOK
  /\ throttle \in Int /\ \E y \in EventValues : throttle + y = 0
  /\ steering \in Int /\ \E x \in EventValues : steering + x = 0

\* LoopInv holds initially and is kept by every step.
LEMMA LoopInvInit == Init => LoopInv
<1> SUFFICES ASSUME Init PROVE LoopInv
  OBVIOUS
<1>1. TypeOK
  <2>1. axisMap \in [Slots -> [x : EventValues, y : EventValues]]
    BY JoystickAssumption DEF Init, JsInit
  <2>2. eventsLeft \in 0..MaxEvents
    BY JoystickAssumption DEF Init, JsInit
  <2>3. QED
    BY <2>1, <2>2 DEF Init, JsInit, TypeOK, JsTypeOK, MainStates, NoDrive
<1>2. /\ throttle \in Int /\ \E y \in EventValues : throttle + y = 0
      /\ steering \in Int /\ \E x \in EventValues : steering + x = 0
  BY JoystickAssumption DEF Init
<1>3. QED
  BY <1>1, <1>2 DEF LoopInv

LEMMA LoopInvStep == LoopInv /\ [Next]_vars => LoopInv'
<1> USE JoystickAssumption, ControlLoopAssumption
<1>1. ASSUME LoopInv, Connect PROVE LoopInv'
  BY <1>1 DEF Connect, LoopInv, TypeOK, JsTypeOK, jsVars,
              MainStates
<1>2. ASSUME LoopInv, OpenController PROVE LoopInv'
  BY <1>2 DEF OpenController, JsOpen, LoopInv, TypeOK, JsTypeOK,
              jsVars, MainStates, Slots
<1>3. ASSUME LoopInv, LoopTest PROVE LoopInv'
  BY <1>3 DEF LoopTest, LoopInv, TypeOK, JsTypeOK, jsVars,
              MainStates
<1>4. ASSUME LoopInv, ReadThrottle PROVE LoopInv'
  <2>1. axisMap[Axis_LeftThumbstick].y \in EventValues
    BY <1>4 DEF LoopInv, TypeOK, JsTypeOK, Axis_LeftThumbstick, Slots
  <2>2. CASE AxisInRange(Axis_LeftThumbstick)
    <3>1. throttle' = -axisMap[Axis_LeftThumbstick].y /\ main' = "read_x"
          /\ UNCHANGED <<jsVars, sigExit, mode, steering, lastDrive, threw>>
      BY <1>4, <2>2 DEF ReadThrottle, GetAxisState
    <3>2. throttle' \in Int /\ throttle' + axisMap[Axis_LeftThumbstick].y = 0
      BY <2>1, <3>1, JoystickAssumption
    <3>3. QED
      BY <1>4, <2>1, <3>1, <3>2 DEF LoopInv, TypeOK, JsTypeOK,
                                   jsVars, MainStates
  <2>3. CASE ~AxisInRange(Axis_LeftThumbstick)
    BY <1>4, <2>3 DEF ReadThrottle, LoopInv, TypeOK, JsTypeOK,
                      jsVars, MainStates
  <2>4. QED
    BY <2>2, <2>3
<1>5. ASSUME LoopInv, ReadSteering PROVE LoopInv'
  <2>1. axisMap[Axis_LeftThumbstick].x \in EventValues
    BY <1>5 DEF LoopInv, TypeOK, JsTypeOK, Axis_LeftThumbstick, Slots
  <2>2. QED
    BY <1>5, <2>1 DEF ReadSteering, GetAxisState, LoopInv, TypeOK, JsTypeOK,
                      jsVars, MainStates
<1>6. ASSUME LoopInv, Drive PROVE LoopInv'
  <2>0. PICK y \in EventValues, x \in EventValues :
          -throttle = y /\ -steering = x
    BY <1>6, JoystickAssumption DEF LoopInv
  <2>1. /\ ThrottleCommand(-throttle) \in ThrottleRange
        /\ SteeringCommand(-steering) \in SteeringRange
    BY <2>0, DriveInRange
  <2>2. lastDrive'[1] \in ThrottleRange /\ lastDrive'[2] \in SteeringRange
    BY <1>6, <2>1 DEF Drive
  <2>3. QED
    BY <1>6, <2>2 DEF Drive, LoopInv, TypeOK, JsTypeOK,
                      jsVars, MainStates
<1>7. ASSUME LoopInv, Stop PROVE LoopInv'
  <2>1. 0 \in ThrottleRange /\ 0 \in SteeringRange
    BY RangeMembers DEF ThrottleMin, ThrottleMax, SteeringMin, SteeringMax,
                        AxisMax, ZeroThreshold, Damping
  <2>2. QED
    BY <1>7, <2>1 DEF Stop, LoopInv, TypeOK, JsTypeOK,
                      jsVars, MainStates
<1>8. ASSUME LoopInv, Unwind PROVE LoopInv'
  BY <1>8 DEF Unwind, JsStop, LoopInv, TypeOK, JsTypeOK,
              MainStates
<1>9. ASSUME LoopInv, Join PROVE LoopInv'
  BY <1>9 DEF Join, JsJoinClose, LoopInv, TypeOK, JsTypeOK,
              MainStates
<1>10. ASSUME LoopInv, Signal PROVE LoopInv'
  BY <1>10 DEF Signal, LoopInv, TypeOK, JsTypeOK, jsVars
<1>11. ASSUME LoopInv, Poll PROVE LoopInv'
  <2>1. axisMap' \in [Slots -> [x : EventValues, y : EventValues]]
    <3>1. CASE eventsLeft > 0 /\ eventsLeft' = eventsLeft - 1
               /\ \E type \in EventTypes, n \in EventNumbers, v \in EventValues :
                    axisMap' = ApplyEvent(axisMap, type, n, v)
      BY <1>11, <3>1, ApplyEventType DEF LoopInv, TypeOK, JsTypeOK
    <3>2. CASE UNCHANGED <<axisMap, eventsLeft>>
      BY <1>11, <3>2 DEF LoopInv, TypeOK, JsTypeOK
    <3>3. QED
      BY <1>11, <3>1, <3>2 DEF Poll, PollRead
  <2>2. eventsLeft' \in 0..MaxEvents
    BY <1>11 DEF Poll, PollRead, LoopInv, TypeOK, JsTypeOK
  <2>3. QED
    BY <1>11, <2>1, <2>2 DEF Poll, PollRead, LoopInv, TypeOK, JsTypeOK
<1>12. ASSUME LoopInv, PollerTest PROVE LoopInv'
  BY <1>12 DEF PollerTest, PollTest, LoopInv, TypeOK, JsTypeOK, loopVars
<1>13. ASSUME LoopInv, UNCHANGED vars PROVE LoopInv'
  BY <1>13 DEF vars, jsVars, loopVars, LoopInv, TypeOK, JsTypeOK
<1>14. QED
  BY <1>1, <1>2, <1>3, <1>4, <1>5, <1>6, <1>7, <1>8, <1>9, <1>10, <1>11,
     <1>12, <1>13 DEF Next

\* Every state main() and the poller reach is well typed: in particular
\* every drive command sent lies in ThrottleRange x SteeringRange, for every
\* set of 16-bit values the device may report.
THEOREM TypeCorrect == Spec => []TypeOK
BY LoopInvInit, LoopInvStep, PTL DEF Spec, LoopInv

-----------------------------------------------------------------------------
(* The controller implements the design's InputPoller.                     *)

\* The descriptor, should_exit_ and the poller thread move together: no
\* thread and no stop before the device is open, a running thread only
\* on an open descriptor, and a thread that returned saw should_exit_.
PollerInv ==
  /\ jsFd = "none" => poller = "none" /\ ~jsExit
  /\ poller \in {"loop", "reading"} => jsFd = "open"
  /\ poller = "exited" => jsExit

\* A step that leaves the joystick's variables alone is a poller stutter.
LEMMA PollerStutter ==
  ASSUME UNCHANGED jsVars
  PROVE  UNCHANGED Poller!vars
BY DEF jsVars, Poller!vars, PollerPhase

\* PollerInv holds initially and is kept by every step.
LEMMA PollerInvStep == LoopInv /\ PollerInv /\ [Next]_vars => PollerInv'
<1> SUFFICES ASSUME LoopInv, PollerInv, [Next]_vars PROVE PollerInv'
  OBVIOUS
<1>1. CASE OpenController
  BY <1>1 DEF OpenController, JsOpen, PollerInv, jsVars
<1>2. CASE Unwind
  BY <1>2 DEF Unwind, JsStop, PollerInv
<1>3. CASE Join
  BY <1>3 DEF Join, JsJoinClose, PollerInv
<1>4. CASE Poll
  BY <1>4 DEF Poll, PollRead, PollerInv
<1>5. CASE PollerTest
  BY <1>5 DEF PollerTest, PollTest, PollerInv
<1>6. CASE Connect \/ LoopTest \/ ReadThrottle \/ ReadSteering \/ Drive
           \/ Stop \/ Signal \/ UNCHANGED vars
  BY <1>6 DEF Connect, LoopTest, ReadThrottle, ReadSteering, Drive, Stop,
              Signal, vars, jsVars, PollerInv
<1>7. QED
  BY <1>1, <1>2, <1>3, <1>4, <1>5, <1>6 DEF Next

\* An event the table routes is a Store of the abstract poller; any other
\* event leaves axis_map_ as it is.
LEMMA ApplyEventStores ==
  ASSUME NEW map, NEW type, NEW n, NEW v
  PROVE  \/ ApplyEvent(map, type, n, v) = map
         \/ \E s \in Slots, f \in {"x", "y"} :
              ApplyEvent(map, type, n, v) = [map EXCEPT ![s][f] = v]
<1>1. CASE type = JS_EVENT_AXIS /\ n \in DOMAIN AxisTable
  <2>1. AxisTable[n][1] \in Slots /\ AxisTable[n][2] \in {"x", "y"}
    BY <1>1, AxisTableRange DEF AxisTable
  <2>2. QED
    BY <1>1, <2>1 DEF ApplyEvent
<1>2. CASE ~(type = JS_EVENT_AXIS /\ n \in DOMAIN AxisTable)
  BY <1>2 DEF ApplyEvent
<1>3. QED
  BY <1>1, <1>2

\* Every step of main() and the poller is a step of the abstract poller
\* or leaves it unchanged.
LEMMA PollerStep ==
  LoopInv /\ PollerInv /\ [Next]_vars => [Poller!Next]_Poller!vars
<1> SUFFICES ASSUME LoopInv, PollerInv, [Next]_vars
             PROVE  [Poller!Next]_Poller!vars
  OBVIOUS
<1>1. CASE OpenController
  <2>1. CASE DeviceMayBeAbsent /\ main' = "failed" /\ UNCHANGED jsVars
    BY <2>1, PollerStutter
  <2>2. CASE JsOpen
    BY <2>2, <1>1 DEF JsOpen, PollerInv, Poller!Next, Poller!Open,
                      Poller!Zeroed, PollerPhase
  <2>3. QED
    BY <1>1, <2>1, <2>2 DEF OpenController
<1>2. CASE Unwind
  BY <1>2 DEF Unwind, JsStop, Poller!Next, Poller!Stop, PollerPhase
<1>3. CASE Join
  BY <1>3 DEF Join, JsJoinClose, Poller!Next, Poller!Release, PollerPhase
<1>4. CASE PollerTest
  <2>1. CASE jsExit
    BY <1>4, <2>1 DEF PollerTest, PollTest, PollerInv, Poller!Next,
                      Poller!LoopEnds, PollerPhase
  <2>2. CASE ~jsExit
    BY <1>4, <2>2 DEF PollerTest, PollTest, Poller!vars, PollerPhase
  <2>3. QED
    BY <2>1, <2>2
<1>5. CASE Poll
  <2>1. /\ jsFd = "open" /\ poller = "reading" /\ poller' = "loop"
        /\ UNCHANGED <<jsFd, jsExit>>
    BY <1>5 DEF Poll, PollRead, PollerInv
  <2>2. CASE axisMap' = axisMap
    BY <2>1, <2>2 DEF Poller!vars, PollerPhase
  <2>3. CASE \E type \in EventTypes, n \in EventNumbers, v \in EventValues :
               axisMap' = ApplyEvent(axisMap, type, n, v)
    <3>1. PICK type \in EventTypes, n \in EventNumbers, v \in EventValues :
            axisMap' = ApplyEvent(axisMap, type, n, v)
      BY <2>3
    <3>2. CASE axisMap' = axisMap
      BY <2>1, <3>2 DEF Poller!vars, PollerPhase
    <3>3. CASE \E s \in Slots, f \in {"x", "y"} :
                 axisMap' = [axisMap EXCEPT ![s][f] = v]
      <4>1. PICK s \in Slots, f \in {"x", "y"} :
              axisMap' = [axisMap EXCEPT ![s][f] = v]
        BY <3>3
      <4>2. /\ PollerPhase \in {"running", "stopping"}
            /\ PollerPhase' = PollerPhase
        BY <2>1 DEF PollerPhase
      <4>3. /\ poller \in {"loop", "reading"}
            /\ (poller' \in {"loop", "reading"}) = (poller \in {"loop", "reading"})
        BY <2>1
      <4>4. Poller!Store(s, f, v)
        BY <4>1, <4>2, <4>3 DEF Poller!Store
      <4>5. QED
        BY <4>4 DEF Poller!Next
    <3>4. QED
      BY <3>1, <3>2, <3>3, ApplyEventStores
  <2>4. QED
    BY <1>5, <2>2, <2>3 DEF Poll, PollRead
<1>6. CASE Connect \/ LoopTest \/ ReadThrottle \/ ReadSteering \/ Drive
           \/ Stop \/ Signal \/ UNCHANGED vars
  <2>1. UNCHANGED jsVars
    BY <1>6 DEF Connect, LoopTest, ReadThrottle, ReadSteering, Drive, Stop,
                Signal, vars
  <2>2. QED
    BY <2>1, PollerStutter
<1>7. QED
  BY <1>1, <1>2, <1>3, <1>4, <1>5, <1>6 DEF Next

\* The safety part of ImplementsInputPoller, for every device, every set
\* of stick values and both failure flags: axis_map_ is written only by
\* the poller thread while the device is open, the loop ends only after
\* the stop, and fd_ is released only once the joined thread has returned,
\* with the loop test and the read of an iteration as separate steps.
THEOREM ImplementsPollerSafety == Spec => Poller!SafetySpec
<1>1. Init => Poller!Init
  BY DEF Init, JsInit, Poller!Init, Poller!Zeroed, PollerPhase
<1>2. Init => PollerInv
  BY DEF Init, JsInit, PollerInv
<1>3. QED
  BY <1>1, <1>2, LoopInvInit, LoopInvStep, PollerInvStep, PollerStep, PTL
     DEF Spec, Poller!SafetySpec


=============================================================================

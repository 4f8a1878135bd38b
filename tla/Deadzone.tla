------------------------------ MODULE Deadzone ------------------------------
(***************************************************************************)
(* The arithmetic of one iteration of the control loop in main()          *)
(* (src/test/minipro/t_minipro.cpp, lines 36 and 62-85): negation of the   *)
(* stick axes, the deadzone, and the damping of the steering command.      *)
(* The axis values are ints, so -(-32768) does not overflow.              *)
(***************************************************************************)
EXTENDS Integers

\* sign(a), line 36: note sign(0) = -1.
sign(a) == IF a > 0 THEN 1 ELSE -1

\* abs(a) on an int.
abs(a) == IF a < 0 THEN -a ELSE a

\* zero_threshold_x and zero_threshold_y, lines 70-71.
ZeroThreshold == 8000

\* The damping divisor of line 84.
Damping == 10

\* Lines 72-77 (and 79-83): values below the threshold become 0, the others
\* are moved towards 0 by the threshold.
DeadzoneOf(v, t) == IF abs(v) < t THEN 0 ELSE (abs(v) - t) * sign(v)

\* steering /= 10.0 on an int: the quotient is computed in double and
\* converted back to int, which truncates towards zero (\div floors).
TruncDiv(a, d) == IF a >= 0 THEN a \div d ELSE -((-a) \div d)

\* Seeded bug: the threshold is not subtracted from the kept values.
ThrottleCommandNoShift(y) == IF abs(-y) < ZeroThreshold THEN 0 ELSE -y

\* The throttle command sent for a left-stick y value (lines 64, 72-77).
ThrottleCommand(y) == DeadzoneOf(-y, ZeroThreshold)

\* The steering command sent for a left-stick x value (lines 65, 79-85):
\* only a value past the threshold is damped.
SteeringCommand(x) ==
  IF abs(-x) < ZeroThreshold THEN 0
  ELSE TruncDiv(DeadzoneOf(-x, ZeroThreshold), Damping)

(* The transform as the design states it: 0 for |v| < T, and              *)
(* sign(v) * (|v| - T) for |v| >= T, with the mathematical sign.           *)
MathSign(a) == IF a > 0 THEN 1 ELSE IF a < 0 THEN -1 ELSE 0
DeadzoneSpec(v, t) == IF abs(v) < t THEN 0 ELSE MathSign(v) * (abs(v) - t)

\* The signed 16-bit range of a js_event value.
AxisMax == 32767
AxisMin == -AxisMax - 1

\* The range of the commands for a stick value in AxisMin..AxisMax: the
\* negation of AxisMin is AxisMax + 1.
ThrottleMin == ZeroThreshold - AxisMax
ThrottleMax == (AxisMax + 1) - ZeroThreshold
SteeringMin == -((AxisMax - ZeroThreshold) \div Damping)
SteeringMax == ((AxisMax + 1) - ZeroThreshold) \div Damping
ThrottleRange == ThrottleMin..ThrottleMax
SteeringRange == SteeringMin..SteeringMax

=============================================================================

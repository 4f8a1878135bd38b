--------------------------- MODULE DeadzoneProofs ---------------------------
(***************************************************************************)
(* Facts about the deadzone arithmetic of the control loop, for every int  *)
(* input and every threshold.                                              *)
(***************************************************************************)
EXTENDS Deadzone, TLAPS

\* The code's transform, with its sign(0) = -1, is the design's transform
\* for every positive threshold: the odd sign of 0 is never used, since
\* |v| >= t > 0 excludes v = 0.
THEOREM DeadzoneMatchesSpec ==
  \A v \in Int, t \in Nat \ {0} : DeadzoneOf(v, t) = DeadzoneSpec(v, t)
BY DEF DeadzoneOf, DeadzoneSpec, sign, MathSign, abs

\* The transform is continuous at the boundary: a value at the threshold
\* gives exactly 0, as the values just inside it do.
THEOREM DeadzoneContinuous ==
  \A v \in Int, t \in Nat : abs(v) = t => DeadzoneOf(v, t) = 0
BY DEF DeadzoneOf, sign, abs

\* The transform is monotone: pushing the stick further never lowers the
\* command.
THEOREM DeadzoneMonotone ==
  \A v, w \in Int, t \in Nat :
    v <= w => DeadzoneOf(v, t) <= DeadzoneOf(w, t)
BY DEF DeadzoneOf, sign, abs

\* The shape of the transform on each side of the threshold.
LEMMA DeadzoneCases ==
  ASSUME NEW v \in Int, NEW t \in Nat
  PROVE  /\ v >= t /\ v > 0 => DeadzoneOf(v, t) = v - t
         /\ v <= -t /\ v < 0 => DeadzoneOf(v, t) = v + t
         /\ -t < v /\ v < t => DeadzoneOf(v, t) = 0
BY DEF DeadzoneOf, sign, abs

\* The damping keeps the sign of its argument, never grows it, and maps
\* the deadzoned range of a 16-bit value into SteeringMin..SteeringMax.
LEMMA TruncDivFacts ==
  ASSUME NEW d \in Int, -24767 <= d, d <= 24768
  PROVE  /\ -2476 <= TruncDiv(d, 10) /\ TruncDiv(d, 10) <= 2476
         /\ abs(TruncDiv(d, 10)) * 10 <= abs(d)
         /\ TruncDiv(d, 10) * d >= 0
<1>1. CASE d >= 0
  BY <1>1 DEF TruncDiv, abs
<1>2. CASE d < 0
  BY <1>2 DEF TruncDiv, abs
<1>3. QED
  BY <1>1, <1>2

\* For a signed 16-bit stick value, negated as an int, the commands main()
\* sends lie between ThrottleMin and ThrottleMax and between SteeringMin
\* and SteeringMax; the steering command keeps the sign of the deadzoned
\* value and is at most a tenth of it.
THEOREM CommandsInRange ==
  ASSUME NEW v \in Int, AxisMin <= v, v <= AxisMax
  PROVE  /\ ThrottleMin <= ThrottleCommand(v)
         /\ ThrottleCommand(v) <= ThrottleMax
         /\ SteeringMin <= SteeringCommand(v)
         /\ SteeringCommand(v) <= SteeringMax
         /\ abs(SteeringCommand(v)) * Damping
              <= abs(DeadzoneOf(-v, ZeroThreshold))
         /\ SteeringCommand(v) * DeadzoneOf(-v, ZeroThreshold) >= 0
<1> DEFINE d == DeadzoneOf(-v, ZeroThreshold)
<1>1. -32768 <= v /\ v <= 32767
  BY DEF AxisMin, AxisMax
<1>2. /\ -v >= 8000 => d = -v - 8000
      /\ -v <= -8000 => d = -v + 8000
      /\ -8000 < -v /\ -v < 8000 => d = 0
  BY DeadzoneCases DEF ZeroThreshold
<1>3. d \in Int /\ -24767 <= d /\ d <= 24768
  BY <1>1, <1>2
<1>4. ThrottleCommand(v) = d
  BY DEF ThrottleCommand
<1>5. ThrottleMin = -24767 /\ ThrottleMax = 24768
  BY DEF AxisMax, ThrottleMin, ThrottleMax, ZeroThreshold
<1>6. SteeringMin = -2476 /\ SteeringMax = 2476
  BY DEF AxisMax, SteeringMin, SteeringMax, ZeroThreshold, Damping
<1>7. CASE abs(-v) < ZeroThreshold
  <2>1. SteeringCommand(v) = 0 /\ d = 0
    BY <1>2, <1>7 DEF SteeringCommand, ZeroThreshold, abs
  <2>2. QED
    BY <1>3, <1>4, <1>5, <1>6, <2>1 DEF abs, Damping
<1>8. CASE ~(abs(-v) < ZeroThreshold)
  <2>1. SteeringCommand(v) = TruncDiv(d, 10)
    BY <1>8 DEF SteeringCommand, Damping
  <2>2. QED
    BY <1>3, <1>4, <1>5, <1>6, <2>1, TruncDivFacts DEF Damping
<1>9. QED
  BY <1>7, <1>8

\* The scenario of the design: a stick at (20000, -500) gives throttle 0
\* and steering -1200.
THEOREM DesignScenario ==
  \A x, y \in Int :
    x = 20000 /\ y + 500 = 0 =>
      ThrottleCommand(y) = 0 /\ SteeringCommand(x) = -1200
<1> SUFFICES ASSUME NEW x \in Int, NEW y \in Int, x = 20000, y + 500 = 0
             PROVE  ThrottleCommand(y) = 0 /\ SteeringCommand(x) = -1200
  OBVIOUS
<1>1. ThrottleCommand(y) = 0
  BY DEF ThrottleCommand, DeadzoneOf, ZeroThreshold, abs
<1>2. DeadzoneOf(-x, ZeroThreshold) + 12000 = 0
  BY DEF DeadzoneOf, ZeroThreshold, sign, abs
<1>3. SteeringCommand(x) = TruncDiv(DeadzoneOf(-x, ZeroThreshold), 10)
  BY DEF SteeringCommand, ZeroThreshold, Damping, abs
<1>4. \A d \in Int : d + 12000 = 0 => TruncDiv(d, 10) = -1200
  BY DEF TruncDiv
<1>5. DeadzoneOf(-x, ZeroThreshold) \in Int
  BY DEF DeadzoneOf, ZeroThreshold, sign, abs
<1>6. QED
  BY <1>1, <1>2, <1>3, <1>4, <1>5
=============================================================================

----------------------------- MODULE InputPoller -----------------------------
(***************************************************************************)
(* What the design (section 4.3) promises of the input poller, with no     *)
(* device in it: open acquires the device, zeroes the axis state and       *)
(* starts the poll loop (Running); while the loop runs it stores one raw   *)
(* value in one (x, y) component at a time; close signals the loop to stop *)
(* (Stopping) and joins it before the device is released.  The axis state  *)
(* is mutated only by the loop: the iteration under way when the stop     *)
(* comes may still store, none does once the device is released.          *)
(***************************************************************************)
CONSTANTS
  Slots,    \* the logical (x, y) axis slots
  Values    \* the raw signed values an event may carry

VARIABLES
  phase,    \* "closed", "running", "stopping", "released"
  polling,  \* the poll loop is still running
  axes      \* [Slots -> [x : Values, y : Values]]

vars == <<phase, polling, axes>>

Zeroed == [s \in Slots |-> [x |-> 0, y |-> 0]]

Init ==
  /\ phase = "closed"
  /\ polling = FALSE
  /\ axes = Zeroed

\* open(devicePath): the device is acquired and the loop starts.
Open ==
  /\ phase = "closed"
  /\ phase' = "running"
  /\ polling' = TRUE
  /\ axes' = Zeroed

\* The loop, until it has ended, stores the value of one axis event.
Store(s, f, v) ==
  /\ phase \in {"running", "stopping"}
  /\ polling
  /\ axes' = [axes EXCEPT ![s][f] = v]
  /\ UNCHANGED <<phase, polling>>

\* close() signals the loop to stop.
Stop ==
  /\ phase = "running"
  /\ phase' = "stopping"
  /\ UNCHANGED <<polling, axes>>

\* The loop sees the signal and ends.
LoopEnds ==
  /\ phase = "stopping"
  /\ polling
  /\ polling' = FALSE
  /\ UNCHANGED <<phase, axes>>

\* close() has joined the loop and releases the device.
Release ==
  /\ phase = "stopping"
  /\ ~polling
  /\ phase' = "released"
  /\ UNCHANGED <<polling, axes>>

Next ==
  \/ Open \/ Stop \/ LoopEnds \/ Release
  \/ \E s \in Slots, f \in {"x", "y"}, v \in Values : Store(s, f, v)

SafetySpec == Init /\ [][Next]_vars

\* A loop asked to stop does stop.
Spec == SafetySpec /\ WF_vars(LoopEnds)

=============================================================================

---------------------------- MODULE CompletionSlot ----------------------------
(***************************************************************************)
(* What the async-to-sync bridge of the design (section 4.2, "Pending     *)
(* Operation") promises, independent of BlueZ: each caller owns a slot.   *)
(* Issuing a blocking call makes the slot pending; the completion fulfils *)
(* it exactly once with a result; the caller returns only from a          *)
(* fulfilled slot.  Several pending slots may be fulfilled in one step    *)
(* (a disconnect fails every outstanding request at once).                *)
(***************************************************************************)
CONSTANTS
  Callers,   \* the threads that make blocking calls
  Results,   \* the results a completion may carry
  None       \* the result of a slot that is not fulfilled

VARIABLES
  state,     \* [Callers -> {"idle", "pending", "ready"}]
  result     \* [Callers -> Results \cup {None}]

vars == <<state, result>>

Init ==
  /\ state = [c \in Callers |-> "idle"]
  /\ result = [c \in Callers |-> None]

\* A caller issues a blocking call: its slot becomes pending and empty.
Issue(c) ==
  /\ state[c] = "idle"
  /\ state' = [state EXCEPT ![c] = "pending"]
  /\ result' = [result EXCEPT ![c] = None]

\* Completions fulfil the pending slots of a nonempty set S, each once.
Fulfil(S) ==
  /\ S # {}
  /\ \A c \in S : state[c] = "pending"
  /\ \E f \in [S -> Results] :
       /\ state' = [c \in Callers |-> IF c \in S THEN "ready" ELSE state[c]]
       /\ result' = [c \in Callers |-> IF c \in S THEN f[c] ELSE result[c]]

\* A caller returns from a fulfilled slot; the result stays readable.
Return(c) ==
  /\ state[c] = "ready"
  /\ state' = [state EXCEPT ![c] = "idle"]
  /\ UNCHANGED result

Next ==
  \/ \E c \in Callers : Issue(c) \/ Return(c)
  \/ \E S \in SUBSET Callers : Fulfil(S)

SafetySpec == Init /\ [][Next]_vars

\* A fulfilled slot is eventually returned from.
Spec == SafetySpec /\ \A c \in Callers : WF_vars(Return(c))

=============================================================================

---------------------- MODULE LEClientLifecycleProofs ----------------------
(***************************************************************************)
(* Proofs about LEClientLifecycle for every combination of the failures   *)
(* the collaborator may produce: the types (the reference counts never go *)
(* below zero), and that the ready handshake loses no wake-up.            *)
(***************************************************************************)
EXTENDS LEClientLifecycle, TLAPS

\* The owner states in which gatt_ holds no client.
GattGone ==
  {"ctor", "partial", "threw", "unref_att", "join", "crashed", "destroyed"}

\* The reference counts follow the objects: the gatt client holds the
\* second transport reference, and a live att_ is referenced; a timed-out
\* wait happened after the deadline and saw no ready_ that came in time,
\* ready_ is set by every ready_cb that came in time, and the gatt
\* client exists only from a full construction until bt_gatt_client_unref.
LifeInv ==
  /\ TypeOK
  /\ gattRef = 1 => attRef = 2 /\ att = "live"
  /\ att = "live" => attRef >= 1
  /\ readyInTime => ready
  /\ owner \in {"timed_out", "terminated"} => deadline /\ ~readyInTime
  /\ owner \in GattGone => gattRef = 0

\* The Boolean-valued part of TypeOK, and the rest of LifeInv: the provers
\* take the first with Zenon and the second with SMT.
BoolsOK ==
  /\ quit \in BOOLEAN /\ ready \in BOOLEAN /\ discovering \in BOOLEAN
  /\ deadline \in BOOLEAN /\ readyInTime \in BOOLEAN
  /\ connected \in BOOLEAN /\ fdOpen \in BOOLEAN
RestOK ==
  /\ owner \in OwnerStates /\ input \in InputStates
  /\ att \in AttPtr /\ attRef \in 0..2 /\ gattRef \in 0..1
  /\ fault \in Faults
  /\ gattRef = 1 => attRef = 2 /\ att = "live"
  /\ att = "live" => attRef >= 1
  /\ readyInTime => ready
  /\ owner \in {"timed_out", "terminated"} => deadline /\ ~readyInTime
  /\ owner \in GattGone => gattRef = 0

\* LifeInv holds initially.
LEMMA LifeInvInit == Init => LifeInv
<1> SUFFICES ASSUME Init PROVE LifeInv
  OBVIOUS
<1>1. owner \in OwnerStates /\ input \in InputStates
  BY DEF Init, OwnerStates, InputStates
<1>2. att \in AttPtr /\ fault \in Faults
  BY DEF Init, AttPtr, Faults
<1>3. attRef \in 0..2 /\ gattRef \in 0..1
  BY DEF Init
<1>4. /\ quit \in BOOLEAN /\ ready \in BOOLEAN /\ discovering \in BOOLEAN
      /\ deadline \in BOOLEAN /\ readyInTime \in BOOLEAN
      /\ connected \in BOOLEAN /\ fdOpen \in BOOLEAN
  BY Zenon DEF Init
<1>5. /\ gattRef = 1 => attRef = 2 /\ att = "live"
      /\ att = "live" => attRef >= 1
      /\ readyInTime => ready
      /\ owner \in {"timed_out", "terminated"} => deadline /\ ~readyInTime
      /\ owner \in GattGone => gattRef = 0
  BY DEF Init, GattGone
<1>6. QED
  BY <1>1, <1>2, <1>3, <1>4, <1>5 DEF LifeInv, TypeOK

\* LifeInv is kept by every step.
LEMMA LifeInvStep == LifeInv /\ [Next]_vars => LifeInv'
<1> USE LifecycleAssumption DEF LifeInv, TypeOK, GattGone, OwnerStates, InputStates, AttPtr, Faults
<1>1. ASSUME LifeInv, Construct PROVE LifeInv'
  <2>1. BoolsOK'
    BY <1>1, Zenon DEF Construct, BoolsOK
  <2>2. RestOK'
    <3>1. CASE owner' = "threw"
      BY <1>1, <3>1 DEF Construct, RestOK
    <3>2. CASE owner' = "partial"
      BY <1>1, <3>2 DEF Construct, RestOK
    <3>3. CASE owner' = "check"
      BY <1>1, <3>3 DEF Construct, RestOK
    <3>4. QED
      BY <1>1, <3>1, <3>2, <3>3 DEF Construct
  <2>3. QED
    BY <2>1, <2>2, Zenon DEF BoolsOK, RestOK
<1>2. ASSUME LifeInv, WaitCheck PROVE LifeInv'
  BY <1>2 DEF WaitCheck
<1>3. ASSUME LifeInv, WaitTimeout PROVE LifeInv'
  BY <1>3 DEF WaitTimeout
<1>4. ASSUME LifeInv, Tick PROVE LifeInv'
  BY <1>4 DEF Tick
<1>5. ASSUME LifeInv, CtorThrow PROVE LifeInv'
  BY <1>5 DEF CtorThrow
<1>6. ASSUME LifeInv, DtorQuit PROVE LifeInv'
  BY <1>6 DEF DtorQuit
<1>7. ASSUME LifeInv, DtorUnrefGatt PROVE LifeInv'
  BY <1>7 DEF DtorUnrefGatt
<1>8. ASSUME LifeInv, DtorUnrefAtt PROVE LifeInv'
  <2>1. BoolsOK'
    <3>1. fdOpen' \in BOOLEAN
      <4>1. CASE att = "live"
        <5>1. fdOpen' = (attRef > 1)
          BY <1>8, <4>1, Zenon DEF DtorUnrefAtt
        <5>2. QED
          BY <5>1
      <4>2. CASE att # "live"
        BY <1>8, <4>2, Zenon DEF DtorUnrefAtt
      <4>3. QED
        BY <4>1, <4>2
    <3>2. QED
      BY <1>8, <3>1, Zenon DEF DtorUnrefAtt, BoolsOK
  <2>2. RestOK'
    BY <1>8, LifecycleAssumption DEF DtorUnrefAtt, RestOK
  <2>3. QED
    BY <2>1, <2>2, Zenon DEF BoolsOK, RestOK
<1>9. ASSUME LifeInv, DtorJoin PROVE LifeInv'
  BY <1>9 DEF DtorJoin
<1>10. ASSUME LifeInv, PduArrives PROVE LifeInv'
  BY <1>10 DEF PduArrives
<1>11. ASSUME LifeInv, PduHandled PROVE LifeInv'
  BY <1>11 DEF PduHandled, LoopNext
<1>12. ASSUME LifeInv, ReadyCb PROVE LifeInv'
  <2>1. BoolsOK'
    BY <1>12, Zenon DEF ReadyCb, LoopNext, BoolsOK
  <2>2. RestOK'
    BY <1>12, LifecycleAssumption DEF ReadyCb, LoopNext, RestOK
  <2>3. QED
    BY <2>1, <2>2, Zenon DEF BoolsOK, RestOK
<1>13. ASSUME LifeInv, ReadyNotify PROVE LifeInv'
  BY <1>13 DEF ReadyNotify, LoopNext
<1>14. ASSUME LifeInv, HangUp PROVE LifeInv'
  <2>1. BoolsOK'
    BY <1>14, Zenon DEF HangUp, BoolsOK
  <2>2. RestOK'
    BY <1>14 DEF HangUp, RestOK
  <2>3. QED
    BY <2>1, <2>2, Zenon DEF BoolsOK, RestOK
<1>15. ASSUME LifeInv, UNCHANGED vars PROVE LifeInv'
  BY <1>15 DEF vars
<1>16. QED
  BY <1>1, <1>2, <1>3, <1>4, <1>5, <1>6, <1>7, <1>8, <1>9, <1>10, <1>11,
     <1>12, <1>13, <1>14, <1>15 DEF Next

\* Every variable keeps its type: in particular the destructor never drops
\* a reference count below zero, on every path through the constructor.
THEOREM TypeCorrect == Spec => []TypeOK
BY LifeInvInit, LifeInvStep, PTL DEF Spec, LifeInv

\* The ready handshake of the constructor loses no wake-up: however
\* ready_cb's locked store and notify_all interleave with the owner's
\* predicate test, sleep and deadline, a discovery that completed in time
\* is never reported as a timeout.
THEOREM ReadyNotMissedHolds == Spec => []ReadyNotMissed
<1>1. LifeInv => ReadyNotMissed
  BY DEF LifeInv, ReadyNotMissed
<1>2. QED
  BY <1>1, LifeInvInit, LifeInvStep, PTL DEF Spec


=============================================================================

-------------------------- MODULE GattFacadeProofs --------------------------
(***************************************************************************)
(* Proofs about GattFacade for every set of callers and every session-id   *)
(* bound: the type invariant and the safety of the stack promises that     *)
(* LEClient hands to BlueZ as callback context.                            *)
(***************************************************************************)
EXTENDS GattFacade, TLAPS


-----------------------------------------------------------------------------
(* The type invariant.                                                     *)

\* A dispatch keeps the types, whatever the collaborator decides.
LEMMA DispatchType ==
  ASSUME TypeOK, NEW c \in Callers, NEW kind \in Kinds,
         NEW reliable \in BOOLEAN, NEW accepted,
         Dispatch(c, kind, reliable, accepted), peerSession' \in SessionIds
  PROVE  TypeOK'
<1>1. [ctx |-> c, kind |-> kind, reliable |-> reliable] \in Request
  BY DEF Request
<1>2. requests' \subseteq Request
  BY <1>1 DEF Dispatch, TypeOK
<1>3. /\ pc' \in [Callers -> {"idle", "wait", "prep"}]
      /\ op' \in [Callers -> Kinds \cup {NoOp}]
      /\ promise' \in [Callers -> Codes \cup {NoValue}]
      /\ acked' \in [Callers -> BOOLEAN]
  BY DEF Dispatch, TypeOK, NoValue, Codes
<1>4. QED
  BY <1>2, <1>3 DEF Dispatch, TypeOK

\* Every step keeps every variable in its type.
LEMMA TypeStep == TypeOK /\ [Next]_vars => TypeOK'
<1> USE FacadeAssumption DEF TypeOK, SessionIds, Kinds, NoOp, NoValue, Codes,
                             Request
<1>1. ASSUME TypeOK, NEW c \in Callers, WriteValue(c) PROVE TypeOK'
  BY <1>1, DispatchType DEF WriteValue
<1>2. ASSUME TypeOK, NEW c \in Callers, WriteLongValue(c) PROVE TypeOK'
  BY <1>2, DispatchType DEF WriteLongValue
<1>3. ASSUME TypeOK, NEW c \in Callers, NEW sid \in SessionIds, WriteExecute(c, sid)
      PROVE TypeOK'
  <2>1. peerSession' \in SessionIds
    BY <1>3 DEF WriteExecute
  <2>2. QED
    BY <1>3, <2>1, DispatchType DEF WriteExecute
<1>4. ASSUME TypeOK, NEW c \in Callers, FutureGet(c) PROVE TypeOK'
  BY <1>4 DEF FutureGet
<1>5. ASSUME TypeOK, NEW c \in Callers, NEW sid \in SessionIds, CancelWrite(c, sid)
      PROVE TypeOK'
  BY <1>5 DEF CancelWrite
<1>6. ASSUME TypeOK, NEW c \in Callers, NEW id \in SessionIds, PrepareCheck(c, id)
      PROVE TypeOK'
  BY <1>6 DEF PrepareCheck
<1>7. ASSUME TypeOK, NEW c \in Callers, PrepareCall(c) PROVE TypeOK'
  <2>1. PrepareResult(prepId[c]) \subseteq SessionIds
    BY <1>7 DEF PrepareResult
  <2>2. PICK r \in PrepareResult(prepId[c]) :
          /\ session' = r
          /\ peerSession' = IF r # 0 THEN r ELSE peerSession
          /\ nextId' = IF r > nextId THEN r ELSE nextId
    BY <1>7 DEF PrepareCall
  <2>3. /\ session' \in SessionIds /\ peerSession' \in SessionIds
        /\ nextId' \in SessionIds
    BY <1>7, <2>1, <2>2
  <2>4. pc' \in [Callers -> {"idle", "wait", "prep"}]
    BY <1>7 DEF PrepareCall
  <2>5. /\ op' = op /\ promise' = promise /\ acked' = acked
        /\ prepId' = prepId /\ requests' = requests
        /\ connected' = connected /\ looping' = looping /\ fault' = fault
    BY <1>7 DEF PrepareCall
  <2>6. QED
    BY <1>7, <2>3, <2>4, <2>5, Zenon
<1>8. ASSUME TypeOK, NEW c \in Callers, WriteCb(c) PROVE TypeOK'
  BY <1>8 DEF WriteCb, Answer, SetValue, Pending
<1>9. ASSUME TypeOK, NEW c \in Callers, WriteLongCb(c) PROVE TypeOK'
  BY <1>9 DEF WriteLongCb, Answer, SetValue, Pending
<1>10. ASSUME TypeOK, Disconnect PROVE TypeOK'
  <2>0. TypeOK
    BY <1>10
  <2>1. promise' \in [Callers -> Codes \cup {NoValue}]
    BY <1>10 DEF Disconnect
  <2>2. acked' \in [Callers -> BOOLEAN]
    BY <1>10 DEF Disconnect
  <2>3. fault' \in {"none", "future_error"}
    BY <1>10 DEF Disconnect
  <2>4. /\ pc' = pc /\ op' = op /\ prepId' = prepId /\ session' = session
        /\ nextId' = nextId /\ requests' = {} /\ connected' = FALSE
        /\ looping' = FALSE /\ peerSession' = 0
    BY <1>10 DEF Disconnect
  <2>5. /\ pc' \in [Callers -> {"idle", "wait", "prep"}]
        /\ op' \in [Callers -> Kinds \cup {NoOp}]
        /\ prepId' \in [Callers -> SessionIds]
        /\ requests' \subseteq Request
    BY <2>0, <2>4
  <2>6. /\ connected' \in BOOLEAN /\ looping' \in BOOLEAN
        /\ session' \in SessionIds /\ nextId' \in SessionIds
    BY <2>0, <2>4
  <2>8. peerSession' \in SessionIds
    BY <2>4, FacadeAssumption, SMT DEF SessionIds
  <2>7. QED
    BY <2>1, <2>2, <2>3, <2>5, <2>6, <2>8, Zenon
<1>11. ASSUME TypeOK, UNCHANGED vars PROVE TypeOK'
  BY <1>11 DEF vars
<1>12. QED
  BY <1>1, <1>2, <1>3, <1>4, <1>5, <1>6, <1>7, <1>8, <1>9, <1>10, <1>11
     DEF Next

\* TypeOK holds in every reachable state.
THEOREM TypeCorrect == Spec => []TypeOK
<1>1. Init => TypeOK
  BY FacadeAssumption DEF Init, TypeOK, SessionIds, Kinds, NoOp, NoValue,
                          Codes, Request
<1>2. QED
  BY <1>1, TypeStep, PTL DEF Spec

-----------------------------------------------------------------------------
(* The safety of the stack promises.                                       *)

\* The inductive invariant: CompletionSlotSafe together with the types.
IInv == TypeOK /\ CompletionSlotSafe

\* A dispatch by an idle caller keeps the promise slots safe: the idle
\* caller had no request outstanding, and its new one finds it waiting on
\* an unset promise.
LEMMA DispatchSafe ==
  ASSUME IInv, NEW c \in Callers, NEW kind \in Kinds,
         NEW reliable \in BOOLEAN, NEW accepted,
         Dispatch(c, kind, reliable, accepted)
  PROVE  CompletionSlotSafe'
<1>1. \A r \in requests : r.ctx # c
  BY DEF IInv, CompletionSlotSafe, Dispatch
<1>2. \A r \in requests' :
        /\ pc'[r.ctx] = "wait"
        /\ op'[r.ctx] = r.kind
        /\ promise'[r.ctx] = NoValue
  BY <1>1 DEF IInv, TypeOK, CompletionSlotSafe, Dispatch, Request
<1>3. \A r1, r2 \in requests' : r1.ctx = r2.ctx => r1 = r2
  BY <1>1 DEF IInv, CompletionSlotSafe, Dispatch
<1>4. fault' = "none"
  BY DEF IInv, CompletionSlotSafe, Dispatch
<1>5. QED
  BY <1>2, <1>3, <1>4 DEF CompletionSlotSafe

\* A callback that answers the only request of c, while c waits on an unset
\* promise, sets that promise once and leaves the other slots alone.
LEMMA AnswerSafe ==
  ASSUME IInv, NEW c \in Callers, NEW r \in Pending(c), NEW success \in BOOLEAN,
         NEW v \in Codes,
         Answer(r, success),
         \/ SetValue(c, v)
         \/ UNCHANGED <<promise, fault>>,
         UNCHANGED <<pc, op>>
  PROVE  CompletionSlotSafe'
<1>1. r \in requests /\ r.ctx = c /\ promise[c] = NoValue
  BY DEF IInv, CompletionSlotSafe, Pending
<1>2. /\ fault' = "none"
      /\ \A d \in Callers \ {c} : promise'[d] = promise[d]
  BY <1>1 DEF IInv, TypeOK, CompletionSlotSafe, SetValue
<1>3. \A q \in requests' : q \in requests /\ q.ctx # c
  BY <1>1 DEF IInv, TypeOK, CompletionSlotSafe, Answer
<1>4. QED
  BY <1>2, <1>3 DEF IInv, TypeOK, CompletionSlotSafe, Request

\* Every step keeps the promise slots safe.
LEMMA SafeStep == IInv /\ [Next]_vars => CompletionSlotSafe'
<1>1. ASSUME IInv, NEW c \in Callers, WriteValue(c) PROVE CompletionSlotSafe'
  BY <1>1, DispatchSafe DEF WriteValue, Kinds
<1>2. ASSUME IInv, NEW c \in Callers, WriteLongValue(c)
      PROVE CompletionSlotSafe'
  BY <1>2, DispatchSafe DEF WriteLongValue, Kinds
<1>3. ASSUME IInv, NEW c \in Callers, NEW sid \in SessionIds,
             WriteExecute(c, sid)
      PROVE CompletionSlotSafe'
  BY <1>3, DispatchSafe DEF WriteExecute, Kinds
<1>4. ASSUME IInv, NEW c \in Callers, FutureGet(c) PROVE CompletionSlotSafe'
  \* The caller leaves only with its promise set: it has no request left.
  <2>1. \A r \in requests : r.ctx # c
    BY <1>4 DEF IInv, CompletionSlotSafe, FutureGet
  <2>2. QED
    BY <1>4, <2>1 DEF IInv, TypeOK, CompletionSlotSafe, FutureGet, Request
<1>5. ASSUME IInv, NEW c \in Callers, NEW sid \in SessionIds,
             CancelWrite(c, sid)
      PROVE CompletionSlotSafe'
  BY <1>5 DEF IInv, CompletionSlotSafe, CancelWrite
<1>6. ASSUME IInv, NEW c \in Callers, NEW id \in SessionIds,
             PrepareCheck(c, id)
      PROVE CompletionSlotSafe'
  <2>1. \A r \in requests : r.ctx # c
    BY <1>6 DEF IInv, CompletionSlotSafe, PrepareCheck
  <2>2. QED
    BY <1>6, <2>1 DEF IInv, TypeOK, CompletionSlotSafe, PrepareCheck, Request
<1>7. ASSUME IInv, NEW c \in Callers, PrepareCall(c) PROVE CompletionSlotSafe'
  <2>1. \A r \in requests : r.ctx # c
    BY <1>7 DEF IInv, CompletionSlotSafe, PrepareCall
  <2>2. QED
    BY <1>7, <2>1 DEF IInv, TypeOK, CompletionSlotSafe, PrepareCall, Request
<1>8. ASSUME IInv, NEW c \in Callers, WriteCb(c) PROVE CompletionSlotSafe'
  <2>1. PICK r \in Pending(c), success \in BOOLEAN :
          /\ Answer(r, success)
          /\ SetValue(c, IF success THEN 0 ELSE 1)
    BY <1>8 DEF WriteCb
  <2>2. QED
    BY <1>8, <2>1, AnswerSafe DEF WriteCb, Codes
<1>9. ASSUME IInv, NEW c \in Callers, WriteLongCb(c) PROVE CompletionSlotSafe'
  <2>1. PICK r \in Pending(c) :
          \/ \E success \in BOOLEAN :
               /\ Answer(r, success)
               /\ SetValue(c, IF success THEN 0 ELSE 1)
          \/ Answer(r, FALSE) /\ UNCHANGED <<promise, fault>>
    BY <1>9 DEF WriteLongCb
  <2>2. UNCHANGED <<pc, op>>
    BY <1>9 DEF WriteLongCb
  <2>3. CASE \E success \in BOOLEAN :
               /\ Answer(r, success)
               /\ SetValue(c, IF success THEN 0 ELSE 1)
    BY <1>9, <2>2, <2>3, AnswerSafe DEF Codes
  <2>4. CASE Answer(r, FALSE) /\ UNCHANGED <<promise, fault>>
    BY <1>9, <2>2, <2>4, AnswerSafe, 0 \in Codes DEF Codes
  <2>5. QED
    BY <2>1, <2>3, <2>4
<1>10. ASSUME IInv, Disconnect PROVE CompletionSlotSafe'
  \* Every pending promise is unset, so failing them raises no error.
  <2>1. ~\E r \in requests : promise[r.ctx] # NoValue
    BY <1>10 DEF IInv, CompletionSlotSafe
  <2>2. fault' = "none"
    BY <1>10, <2>1 DEF IInv, CompletionSlotSafe, Disconnect
  <2>3. requests' = {}
    BY <1>10 DEF Disconnect
  <2>4. QED
    BY <2>2, <2>3 DEF CompletionSlotSafe
<1>11. ASSUME IInv, UNCHANGED vars PROVE CompletionSlotSafe'
  BY <1>11 DEF IInv, CompletionSlotSafe, vars
<1>12. QED
  BY <1>1, <1>2, <1>3, <1>4, <1>5, <1>6, <1>7, <1>8, <1>9, <1>10, <1>11
     DEF Next

\* No callback of the BlueZ client ever finds the caller of its request
\* gone, on another call, or its promise already set: the stack promise
\* LEClient passes as user_data is never used after the call returns and
\* never set twice, whatever the interleaving of callers and callbacks and
\* wherever the link goes down.
THEOREM CompletionSlotSafety == Spec => []CompletionSlotSafe
<1>1. Init => IInv
  <2>1. Init => TypeOK
    BY FacadeAssumption DEF Init, TypeOK, SessionIds, Kinds, NoOp, NoValue,
                            Codes, Request
  <2>2. Init => CompletionSlotSafe
    BY DEF Init, CompletionSlotSafe
  <2>3. QED
    BY <2>1, <2>2 DEF IInv
<1>2. IInv /\ [Next]_vars => IInv'
  BY TypeStep, SafeStep DEF IInv
<1>3. IInv => CompletionSlotSafe
  BY DEF IInv
<1>4. QED
  BY <1>1, <1>2, <1>3, PTL DEF Spec

-----------------------------------------------------------------------------
(* The blocking calls implement the design's Pending Operation.           *)

\* IInv holds in every reachable state.
LEMMA IInvHolds == Spec => []IInv
<1>1. Init => IInv
  BY FacadeAssumption DEF Init, IInv, TypeOK, CompletionSlotSafe, SessionIds,
                          Kinds, NoOp, NoValue, Codes, Request
<1>2. QED
  BY <1>1, TypeStep, SafeStep, PTL DEF Spec, IInv

\* A step that changes neither a caller's waiting state nor any promise is
\* a stutter of the slots.
LEMMA SlotStutter ==
  ASSUME TypeOK,
         \A d \in Callers : (pc'[d] = "wait") <=> (pc[d] = "wait"),
         promise' = promise
  PROVE  UNCHANGED Slot!vars
BY DEF Slot!vars, SlotState, TypeOK

\* A dispatch by an idle caller issues its slot.
LEMMA DispatchIssue ==
  ASSUME IInv, NEW c \in Callers, NEW kind \in Kinds,
         NEW reliable \in BOOLEAN, NEW accepted,
         Dispatch(c, kind, reliable, accepted)
  PROVE  Slot!Issue(c)
<1>1. SlotState[c] = "idle"
  BY DEF Dispatch, SlotState
<1>2. SlotState' = [SlotState EXCEPT ![c] = "pending"]
  BY DEF IInv, TypeOK, Dispatch, SlotState
<1>3. promise' = [promise EXCEPT ![c] = NoValue]
  BY DEF Dispatch
<1>4. QED
  BY <1>1, <1>2, <1>3 DEF Slot!Issue

\* A callback that sets the unset promise of the caller c it answers
\* fulfils the slot of c alone.
LEMMA CallbackFulfils ==
  ASSUME IInv, NEW c \in Callers, NEW r \in Pending(c), NEW v \in Codes,
         SetValue(c, v), UNCHANGED pc
  PROVE  Slot!Fulfil({c})
<1>1. pc[c] = "wait" /\ promise[c] = NoValue
  BY DEF IInv, CompletionSlotSafe, Pending
<1>2. promise' = [promise EXCEPT ![c] = v]
  BY <1>1 DEF SetValue
<1>3. v # NoValue
  BY DEF Codes, NoValue
<1> DEFINE f == [d \in {c} |-> v]
<1>4. f \in [{c} -> Codes]
  OBVIOUS
<1>5. SlotState' = [d \in Callers |-> IF d \in {c} THEN "ready" ELSE SlotState[d]]
  BY <1>1, <1>2, <1>3 DEF IInv, TypeOK, SlotState
<1>6. promise' = [d \in Callers |-> IF d \in {c} THEN f[d] ELSE promise[d]]
  BY <1>2 DEF IInv, TypeOK
<1>7. SlotState[c] = "pending"
  BY <1>1 DEF SlotState
<1>8. QED
  BY <1>4, <1>5, <1>6, <1>7 DEF Slot!Fulfil

\* Every step of the facade is a step of the slots or leaves them alone.
LEMMA SlotStep == IInv /\ [Next]_vars => [Slot!Next]_Slot!vars
<1>1. ASSUME IInv, NEW c \in Callers, WriteValue(c) PROVE [Slot!Next]_Slot!vars
  BY <1>1, DispatchIssue DEF WriteValue, Kinds, Slot!Next
<1>2. ASSUME IInv, NEW c \in Callers, WriteLongValue(c)
      PROVE [Slot!Next]_Slot!vars
  BY <1>2, DispatchIssue DEF WriteLongValue, Kinds, Slot!Next
<1>3. ASSUME IInv, NEW c \in Callers, NEW sid \in SessionIds,
             WriteExecute(c, sid)
      PROVE [Slot!Next]_Slot!vars
  BY <1>3, DispatchIssue DEF WriteExecute, Kinds, Slot!Next
<1>4. ASSUME IInv, NEW c \in Callers, FutureGet(c) PROVE [Slot!Next]_Slot!vars
  <2>1. SlotState[c] = "ready"
    BY <1>4 DEF FutureGet, SlotState
  <2>2. SlotState' = [SlotState EXCEPT ![c] = "idle"]
    BY <1>4 DEF IInv, TypeOK, FutureGet, SlotState
  <2>3. Slot!Return(c)
    BY <1>4, <2>1, <2>2 DEF FutureGet, Slot!Return
  <2>4. QED
    BY <2>3 DEF Slot!Next
<1>5. ASSUME IInv, NEW c \in Callers, NEW sid \in SessionIds,
             CancelWrite(c, sid)
      PROVE [Slot!Next]_Slot!vars
  BY <1>5, SlotStutter DEF IInv, CancelWrite
<1>6. ASSUME IInv, NEW c \in Callers, NEW id \in SessionIds,
             PrepareCheck(c, id)
      PROVE [Slot!Next]_Slot!vars
  <2>1. \A d \in Callers : (pc'[d] = "wait") <=> (pc[d] = "wait")
    BY <1>6 DEF IInv, TypeOK, PrepareCheck
  <2>2. QED
    BY <1>6, <2>1, SlotStutter DEF IInv, PrepareCheck
<1>7. ASSUME IInv, NEW c \in Callers, PrepareCall(c) PROVE [Slot!Next]_Slot!vars
  <2>1. \A d \in Callers : (pc'[d] = "wait") <=> (pc[d] = "wait")
    BY <1>7 DEF IInv, TypeOK, PrepareCall
  <2>2. QED
    BY <1>7, <2>1, SlotStutter DEF IInv, PrepareCall
<1>8. ASSUME IInv, NEW c \in Callers, WriteCb(c) PROVE [Slot!Next]_Slot!vars
  <2>1. PICK r \in Pending(c), success \in BOOLEAN :
          /\ Answer(r, success)
          /\ SetValue(c, IF success THEN 0 ELSE 1)
    BY <1>8 DEF WriteCb
  <2>2. Slot!Fulfil({c})
    BY <1>8, <2>1, CallbackFulfils DEF WriteCb, Codes
  <2>3. QED
    BY <2>2 DEF Slot!Next
<1>9. ASSUME IInv, NEW c \in Callers, WriteLongCb(c)
      PROVE [Slot!Next]_Slot!vars
  <2>1. PICK r \in Pending(c) :
          \/ \E success \in BOOLEAN :
               /\ Answer(r, success)
               /\ SetValue(c, IF success THEN 0 ELSE 1)
          \/ Answer(r, FALSE) /\ UNCHANGED <<promise, fault>>
    BY <1>9 DEF WriteLongCb
  <2>2. UNCHANGED pc
    BY <1>9 DEF WriteLongCb
  <2>3. CASE \E success \in BOOLEAN :
               /\ Answer(r, success)
               /\ SetValue(c, IF success THEN 0 ELSE 1)
    <3>1. Slot!Fulfil({c})
      BY <1>9, <2>2, <2>3, CallbackFulfils DEF Codes
    <3>2. QED
      BY <3>1 DEF Slot!Next
  <2>4. CASE Answer(r, FALSE) /\ UNCHANGED <<promise, fault>>
    BY <1>9, <2>2, <2>4, SlotStutter DEF IInv
  <2>5. QED
    BY <2>1, <2>3, <2>4
<1>10. ASSUME IInv, Disconnect PROVE [Slot!Next]_Slot!vars
  \* The callers with a request outstanding are failed together with 0.
  <2> DEFINE S == {d \in Callers : Pending(d) # {}}
  <2>1. \A d \in S : pc[d] = "wait" /\ promise[d] = NoValue
    BY <1>10 DEF IInv, CompletionSlotSafe, Pending
  <2>2. promise' = [d \in Callers |-> IF d \in S THEN 0 ELSE promise[d]]
    BY <1>10, <2>1 DEF IInv, TypeOK, Disconnect
  <2>3. UNCHANGED pc
    BY <1>10 DEF Disconnect
  <2>4. CASE S = {}
    <3>1. promise' = promise
      BY <1>10, <2>2, <2>4 DEF IInv, TypeOK
    <3>2. QED
      BY <1>10, <2>3, <3>1, SlotStutter DEF IInv
  <2>5. CASE S # {}
    <3> DEFINE f == [d \in S |-> 0]
    <3>1. f \in [S -> Codes]
      BY DEF Codes
    <3>2. \A d \in S : SlotState[d] = "pending"
      BY <2>1 DEF SlotState
    <3>3. SlotState' = [d \in Callers |-> IF d \in S THEN "ready" ELSE SlotState[d]]
      BY <2>1, <2>2, <2>3 DEF IInv, TypeOK, SlotState, NoValue
    <3>4. promise' = [d \in Callers |-> IF d \in S THEN f[d] ELSE promise[d]]
      BY <2>2
    <3>5. Slot!Fulfil(S)
      BY <2>5, <3>1, <3>2, <3>3, <3>4 DEF Slot!Fulfil
    <3>6. S \in SUBSET Callers
      OBVIOUS
    <3>7. QED
      BY <3>5, <3>6 DEF Slot!Next
  <2>6. QED
    BY <2>4, <2>5
<1>11. ASSUME IInv, UNCHANGED vars PROVE [Slot!Next]_Slot!vars
  BY <1>11, SlotStutter DEF IInv, vars
<1>12. QED
  BY <1>1, <1>2, <1>3, <1>4, <1>5, <1>6, <1>7, <1>8, <1>9, <1>10, <1>11
     DEF Next

\* Every behaviour of the blocking calls of LEClient is a behaviour of the
\* design's Pending Operation: a call starts from an empty slot, each slot
\* is fulfilled once while its caller waits, and future.get() returns only
\* from a fulfilled slot, for every set of callers and session-id bound.
THEOREM ImplementsSlotSafety == Spec => Slot!SafetySpec
<1>1. Init => Slot!Init
  BY DEF Init, Slot!Init, SlotState
<1>2. QED
  BY <1>1, IInvHolds, SlotStep, PTL DEF Spec, Slot!SafetySpec

=============================================================================

----------------------------- MODULE GattFacade -----------------------------
(***************************************************************************)
(* The blocking GATT operations of bluetooth::LEClient                     *)
(* (src/src/bluetooth/le_client.cpp) and the callbacks that complete them. *)
(*                                                                         *)
(* A caller thread of write_value (with response), write_long_value or     *)
(* write_execute(id, true) puts a std::promise<int> on its stack, hands    *)
(* its address to the BlueZ client as user_data and blocks in              *)
(* future.get().  The input thread (mainloop_run in process_input) later   *)
(* runs write_cb or write_long_cb, which set the promise.  write_prepare   *)
(* and write_execute(id, false) maintain reliable_session_id_ against the  *)
(* reliable-write session the collaborator keeps open.  An ATT disconnect *)
(* runs att_disconnect_cb, which quits the main loop; BlueZ first fails    *)
(* every pending request through its callback.                             *)
(*                                                                         *)
(* Payloads and handles are abstracted away: they change no control.  An   *)
(* att_ecode is 0 or 1, 1 standing for every nonzero ATT error code.       *)
(***************************************************************************)
EXTENDS Integers

CONSTANTS
  Callers,             \* threads that call the blocking operations
  MaxSessionId,        \* the collaborator issues session ids 1..MaxSessionId
  ReliableMayMismatch, \* the peer may echo a prepared value that differs
  PeerMayDisconnect    \* the ATT link may go down

ASSUME FacadeAssumption ==
  /\ Callers # {}
  /\ MaxSessionId \in Nat \ {0}
  /\ ReliableMayMismatch \in BOOLEAN
  /\ PeerMayDisconnect \in BOOLEAN

SessionIds == 0..MaxSessionId           \* 0: no reliable-write session
Kinds      == {"write", "write_long", "execute"}
NoOp       == "none"
NoValue    == -1                        \* a promise with no value set yet
Codes      == {0, 1}                    \* the int a promise can carry
Request    == [ctx : Callers, kind : Kinds, reliable : BOOLEAN]

VARIABLES
  pc,          \* [Callers -> {"idle", "wait", "prep"}]
  op,          \* the blocking call a caller is in
  promise,     \* value of the caller's std::promise<int>, NoValue if unset
  acked,       \* history: the peer confirmed the caller's current request
  prepId,      \* id argument of a write_prepare past its session check
  requests,    \* accepted requests whose callback is still to run
  connected,   \* the ATT transport is up
  looping,     \* mainloop_run() still dispatches in the input thread
  session,     \* LEClient::reliable_session_id_
  peerSession, \* the reliable-write session the collaborator holds open
  nextId,      \* the last session id the collaborator issued
  fault        \* "future_error" once set_value hits a satisfied promise

vars == <<pc, op, promise, acked, prepId, requests, connected, looping,
          session, peerSession, nextId, fault>>

Pending(c) == {r \in requests : r.ctx = c}

-----------------------------------------------------------------------------
(* Caller side.                                                            *)

\* Seeded bug: the call reuses a promise that may already hold a value.
DispatchReusePromise(c, kind, reliable, accepted) ==
  /\ pc[c] = "idle"
  /\ pc' = [pc EXCEPT ![c] = "wait"]
  /\ op' = [op EXCEPT ![c] = kind]
  /\ acked' = [acked EXCEPT ![c] = FALSE]
  /\ requests' = IF accepted
                   THEN requests \cup
                          {[ctx |-> c, kind |-> kind, reliable |-> reliable]}
                   ELSE requests
  /\ UNCHANGED <<promise, prepId, connected, looping, session, nextId, fault>>

\* The dispatch of a blocking call: the request is handed to the
\* collaborator (accepted or refused), then the caller blocks in future.get()
\* whatever the outcome: the failure of the dispatch is only printed.
Dispatch(c, kind, reliable, accepted) ==
  /\ pc[c] = "idle"
  /\ pc' = [pc EXCEPT ![c] = "wait"]
  /\ op' = [op EXCEPT ![c] = kind]
  /\ promise' = [promise EXCEPT ![c] = NoValue]
  /\ acked' = [acked EXCEPT ![c] = FALSE]
  /\ requests' = IF accepted
                   THEN requests \cup
                          {[ctx |-> c, kind |-> kind, reliable |-> reliable]}
                   ELSE requests
  /\ UNCHANGED <<prepId, connected, looping, session, nextId, fault>>

\* write_value(handle, value, length, false, signed_write)
WriteValue(c) ==
  /\ Dispatch(c, "write", FALSE, connected)
  /\ UNCHANGED peerSession

\* write_long_value(reliable_writes, handle, offset, value, length)
WriteLongValue(c) ==
  \E reliable \in BOOLEAN :
    /\ Dispatch(c, "write_long", reliable, connected)
    /\ UNCHANGED peerSession

\* write_execute(sid, true): BlueZ only accepts the id of its open session,
\* which the request consumes.
WriteExecute(c, sid) ==
  LET accepted == connected /\ sid # 0 /\ sid = peerSession
  IN /\ Dispatch(c, "execute", FALSE, accepted)
     /\ peerSession' = IF accepted THEN 0 ELSE peerSession

\* Seeded bug: the caller leaves without waiting for the promise.
FutureGetEarly(c) ==
  /\ pc[c] = "wait"
  /\ pc' = [pc EXCEPT ![c] = "idle"]
  /\ op' = [op EXCEPT ![c] = NoOp]
  /\ session' = IF op[c] = "execute" THEN 0 ELSE session
  /\ UNCHANGED <<promise, acked, prepId, requests, connected, looping,
                 peerSession, nextId, fault>>

\* future.get() returns once the promise holds a value; write_execute then
\* clears reliable_session_id_.
FutureGet(c) ==
  /\ pc[c] = "wait"
  /\ promise[c] # NoValue
  /\ pc' = [pc EXCEPT ![c] = "idle"]
  /\ op' = [op EXCEPT ![c] = NoOp]
  /\ session' = IF op[c] = "execute" THEN 0 ELSE session
  /\ UNCHANGED <<promise, acked, prepId, requests, connected, looping,
                 peerSession, nextId, fault>>

\* write_execute(sid, false): bt_gatt_client_cancel, whose result is
\* ignored, then reliable_session_id_ = 0.
CancelWrite(c, sid) ==
  /\ pc[c] = "idle"
  /\ session' = 0
  /\ peerSession' = IF sid # 0 /\ sid = peerSession THEN 0 ELSE peerSession
  /\ UNCHANGED <<pc, op, promise, acked, prepId, requests, connected,
                 looping, nextId, fault>>

\* write_prepare(id, ...): past the check id = reliable_session_id_ (a
\* mismatch returns without any effect).
PrepareCheck(c, id) ==
  /\ pc[c] = "idle"
  /\ id = session
  /\ pc' = [pc EXCEPT ![c] = "prep"]
  /\ prepId' = [prepId EXCEPT ![c] = id]
  /\ UNCHANGED <<op, promise, acked, requests, connected, looping, session,
                 peerSession, nextId, fault>>

\* The ids bt_gatt_client_prepare_write(id) may return: a new session for
\* id 0, the same id to extend the open session, 0 on any failure.
PrepareResult(id) ==
  IF ~connected THEN {0}
  ELSE IF id = 0 /\ peerSession = 0
         THEN IF nextId < MaxSessionId THEN {nextId + 1, 0} ELSE {0}
  ELSE IF id # 0 /\ id = peerSession THEN {id, 0}
  ELSE {0}

\* reliable_session_id_ = bt_gatt_client_prepare_write(...): the prepare
\* request carries no callback.
PrepareCall(c) ==
  /\ pc[c] = "prep"
  /\ \E r \in PrepareResult(prepId[c]) :
       /\ session' = r
       /\ peerSession' = IF r # 0 THEN r ELSE peerSession
       /\ nextId' = IF r > nextId THEN r ELSE nextId
  /\ pc' = [pc EXCEPT ![c] = "idle"]
  /\ UNCHANGED <<op, promise, acked, prepId, requests, connected, looping,
                 fault>>

-----------------------------------------------------------------------------
(* Input thread: the callbacks the BlueZ client runs from mainloop_run.    *)

\* promise->set_value(v): a second value throws std::future_error.
SetValue(c, v) ==
  IF promise[c] = NoValue
    THEN /\ promise' = [promise EXCEPT ![c] = v]
         /\ UNCHANGED fault
    ELSE /\ fault' = "future_error"
         /\ UNCHANGED promise

\* The answer to request r: success, or a peer error response (nonzero).
Answer(r, success) ==
  /\ requests' = requests \ {r}
  /\ acked' = [acked EXCEPT ![r.ctx] = success]

\* write_cb(success, att_ecode, &promise): set_value(success ? 0 : att_ecode)
WriteCb(c) ==
  /\ looping
  /\ \E r \in Pending(c) :
       /\ r.kind \in {"write", "execute"}
       /\ \E success \in BOOLEAN :
            /\ Answer(r, success)
            /\ SetValue(c, IF success THEN 0 ELSE 1)
  /\ UNCHANGED <<pc, op, prepId, connected, looping, session, peerSession,
                 nextId>>

\* write_long_cb(success, reliable_error, att_ecode, &promise): a reliable
\* error is only printed and leaves the promise unset.
WriteLongCb(c) ==
  /\ looping
  /\ \E r \in Pending(c) :
       /\ r.kind = "write_long"
       /\ \/ \E success \in BOOLEAN :
               /\ Answer(r, success)
               /\ SetValue(c, IF success THEN 0 ELSE 1)
          \/ /\ r.reliable /\ ReliableMayMismatch
             /\ Answer(r, FALSE)
             /\ UNCHANGED <<promise, fault>>
  /\ UNCHANGED <<pc, op, prepId, connected, looping, session, peerSession,
                 nextId>>

\* Seeded bug: a disconnect drops the pending requests without running
\* their callbacks.
DisconnectDropsPending ==
  /\ PeerMayDisconnect
  /\ connected
  /\ connected' = FALSE
  /\ looping' = FALSE
  /\ requests' = {}
  /\ peerSession' = 0
  /\ UNCHANGED <<pc, op, promise, acked, prepId, session, nextId, fault>>

\* The link goes down.  BlueZ fails every pending request through its
\* callback with success = false and att_ecode = 0 (no error PDU), drops
\* the open session, then runs att_disconnect_cb: mainloop_quit().
Disconnect ==
  /\ PeerMayDisconnect
  /\ connected
  /\ connected' = FALSE
  /\ looping' = FALSE
  /\ requests' = {}
  /\ peerSession' = 0
  /\ promise' = [c \in Callers |->
                   IF Pending(c) # {} /\ promise[c] = NoValue THEN 0
                   ELSE promise[c]]
  /\ fault' = IF \E r \in requests : promise[r.ctx] # NoValue
                THEN "future_error" ELSE fault
  /\ acked' = [c \in Callers |-> IF Pending(c) # {} THEN FALSE ELSE acked[c]]
  /\ UNCHANGED <<pc, op, prepId, session, nextId>>

-----------------------------------------------------------------------------

Init ==
  /\ pc = [c \in Callers |-> "idle"]
  /\ op = [c \in Callers |-> NoOp]
  /\ promise = [c \in Callers |-> NoValue]
  /\ acked = [c \in Callers |-> FALSE]
  /\ prepId = [c \in Callers |-> 0]
  /\ requests = {}
  /\ connected = TRUE
  /\ looping = TRUE
  /\ session = 0
  /\ peerSession = 0
  /\ nextId = 0
  /\ fault = "none"

Next ==
  \/ \E c \in Callers :
       \/ WriteValue(c)
       \/ WriteLongValue(c)
       \/ \E sid \in SessionIds : WriteExecute(c, sid)
       \/ FutureGet(c)
       \/ \E sid \in SessionIds : CancelWrite(c, sid)
       \/ \E id \in SessionIds : PrepareCheck(c, id)
       \/ PrepareCall(c)
       \/ WriteCb(c)
       \/ WriteLongCb(c)
  \/ Disconnect

\* The input thread runs every callback it can run, BlueZ answers or times
\* out every ATT request (a timeout disconnects), and a thread whose future
\* is ready wakes up.
Fairness ==
  \A c \in Callers :
    /\ WF_vars(WriteCb(c))
    /\ WF_vars(WriteLongCb(c))
    /\ WF_vars(FutureGet(c))

Spec == Init /\ [][Next]_vars /\ Fairness

-----------------------------------------------------------------------------
(* Properties.                                                             *)

\* Every variable keeps its type.
TypeOK ==
  /\ pc \in [Callers -> {"idle", "wait", "prep"}]
  /\ op \in [Callers -> Kinds \cup {NoOp}]
  /\ promise \in [Callers -> Codes \cup {NoValue}]
  /\ acked \in [Callers -> BOOLEAN]
  /\ prepId \in [Callers -> SessionIds]
  /\ requests \subseteq Request
  /\ connected \in BOOLEAN
  /\ looping \in BOOLEAN
  /\ session \in SessionIds
  /\ peerSession \in SessionIds
  /\ nextId \in SessionIds
  /\ fault \in {"none", "future_error"}

\* The stack promise handed to BlueZ as user_data is safe to use: whenever
\* a callback is still to run for a caller, that caller is blocked in
\* future.get() of the very call that made the request, its promise is
\* still unset, it has no other request outstanding, and no callback ever
\* set a promise twice.
CompletionSlotSafe ==
  /\ \A r \in requests :
       /\ pc[r.ctx] = "wait"
       /\ op[r.ctx] = r.kind
       /\ promise[r.ctx] = NoValue
  /\ \A r1, r2 \in requests : r1.ctx = r2.ctx => r1 = r2
  /\ fault = "none"

\* A blocking call the collaborator accepted returns to its caller.
AcceptedCallReturns ==
  \A c \in Callers : (Pending(c) # {}) ~> (pc[c] = "idle")

\* Every blocking call returns to its caller.
BlockingCallReturns ==
  \A c \in Callers : (pc[c] = "wait") ~> (pc[c] = "idle")

\* Whenever the collaborator holds a reliable-write session open, it is the
\* one reliable_session_id_ names, so the client can still extend, execute
\* or cancel it.
SessionTracked ==
  peerSession # 0 => session = peerSession

\* A blocking call that reports 0 (success) to its caller was confirmed by
\* the peer.
ZeroMeansConfirmed ==
  \A c \in Callers : (pc[c] = "wait" /\ promise[c] = 0) => acked[c]

-----------------------------------------------------------------------------
(* Refinement of the design's Pending Operation (CompletionSlot).          *)

\* A caller's slot: pending while it waits on an unset promise, ready once
\* the promise holds a value, idle otherwise (write_prepare waits on none).
SlotState ==
  [c \in Callers |->
     IF pc[c] = "wait"
       THEN IF promise[c] = NoValue THEN "pending" ELSE "ready"
       ELSE "idle"]

Slot == INSTANCE CompletionSlot
          WITH state <- SlotState, result <- promise,
               Results <- Codes, None <- NoValue

\* The blocking calls of LEClient implement the design's Pending Operation:
\* every call starts from an empty promise, each callback or the disconnect
\* fulfils a waiting caller's promise once, and future.get() returns only
\* from a fulfilled promise, which it eventually does.
ImplementsCompletionSlot == Slot!Spec

=============================================================================

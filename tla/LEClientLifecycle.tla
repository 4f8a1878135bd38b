-------------------------- MODULE LEClientLifecycle --------------------------
(***************************************************************************)
(* Construction and destruction of bluetooth::LEClient                     *)
(* (src/src/bluetooth/le_client.cpp, lines 39-124 and 222-241, 498-502).   *)
(*                                                                         *)
(* The owner thread builds the BlueZ objects (L2CAP socket, bt_att,        *)
(* gatt_db, bt_gatt_client), starts the input thread running               *)
(* mainloop_run(), then waits on cv_ up to 5 s for ready_.  The input      *)
(* thread sleeps in epoll_wait and wakes for an fd event: an incoming PDU, *)
(* the end of service discovery (ready_cb), a hang-up (att_disconnect_cb). *)
(* mainloop_quit() only sets a flag that the loop tests after a dispatch.  *)
(* The destructor quits the loop, drops the gatt and att references (the   *)
(* last one closes the socket), then joins the input thread.               *)
(*                                                                         *)
(* The 5 s budget is the Boolean deadline: it passes at some point while   *)
(* the owner waits.  A reference count is kept where freeing matters.     *)
(***************************************************************************)
EXTENDS Naturals

CONSTANTS
  AllocMayFail,      \* a BlueZ constructor may return NULL
  DiscoveryMayFail,  \* ready_cb may report success = false
  PeerMayDisconnect  \* the link may hang up

ASSUME LifecycleAssumption ==
  /\ AllocMayFail \in BOOLEAN
  /\ DiscoveryMayFail \in BOOLEAN
  /\ PeerMayDisconnect \in BOOLEAN

OwnerStates ==
  {"ctor", "check", "blocked", "timed_out", "running", "partial",
   "unref_gatt", "unref_att", "join",
   "threw", "terminated", "crashed", "destroyed"}
InputStates == {"none", "waiting", "dispatching", "notifying", "exited"}
AttPtr      == {"null", "live", "dangling"}   \* what att_ points to
Faults      == {"none", "terminate", "use_after_free", "double_unref",
                "null_join"}

VARIABLES
  owner,       \* program counter of the owner thread
  input,       \* program counter of the input thread; "none": not started
  quit,        \* mainloop's epoll_terminate flag
  ready,       \* LEClient::ready_
  discovering, \* the gatt client's discovery has not reported yet
  deadline,    \* the 5 s of cv_.wait_for have elapsed
  readyInTime, \* history: ready_cb(success) ran before the deadline
  connected,   \* the L2CAP link is up
  fdOpen,      \* the socket is still open and watched by the main loop
  att,         \* att_
  attRef,      \* references to the bt_att object
  gattRef,     \* references to the bt_gatt_client object
  fault        \* the first undefined or fatal behaviour reached

vars == <<owner, input, quit, ready, discovering, deadline, readyInTime,
          connected, fdOpen, att, attRef, gattRef, fault>>

\* What the input thread does at the end of a dispatch: mainloop_run tests
\* epoll_terminate before the next epoll_wait.
LoopNext == IF quit THEN "exited" ELSE "waiting"

-----------------------------------------------------------------------------
(* Owner thread: LEClient::LEClient and LEClient::~LEClient.               *)

\* Lines 41-100.  A failed connect throws before the input thread exists.
\* A NULL bt_att_new returns with att_ = NULL; any later failure returns
\* after bt_att_unref(att_), which frees the transport but leaves att_
\* pointing at it.  Otherwise the gatt client holds a second reference to
\* the transport, starts discovery, and the input thread is launched.
Construct ==
  /\ owner = "ctor"
  /\ \/ /\ owner' = "threw"
        /\ UNCHANGED <<input, discovering, connected, fdOpen, att, attRef,
                       gattRef>>
     \/ /\ AllocMayFail
        /\ owner' = "partial"
        /\ \E p \in {"null", "dangling"} : att' = p
        /\ connected' = FALSE
        /\ fdOpen' = FALSE
        /\ UNCHANGED <<input, discovering, attRef, gattRef>>
     \/ /\ owner' = "check"
        /\ input' = "waiting"
        /\ discovering' = TRUE
        /\ att' = "live"
        /\ attRef' = 2
        /\ gattRef' = 1
        /\ UNCHANGED <<connected, fdOpen>>
  /\ UNCHANGED <<quit, ready, deadline, readyInTime, fault>>

\* Seeded bug: the deadline is tested before the predicate.
WaitCheckDeadlineFirst ==
  /\ owner = "check"
  /\ owner' = IF deadline THEN "timed_out"
              ELSE IF ready THEN "running"
              ELSE "blocked"
  /\ UNCHANGED <<input, quit, ready, discovering, deadline, readyInTime,
                 connected, fdOpen, att, attRef, gattRef, fault>>

\* Seeded bug: cv_.wait(lk, pred) without the 5 s bound.
WaitCheckUnbounded ==
  /\ owner = "check"
  /\ owner' = IF ready THEN "running" ELSE "blocked"
  /\ UNCHANGED <<input, quit, ready, discovering, deadline, readyInTime,
                 connected, fdOpen, att, attRef, gattRef, fault>>

\* cv_.wait_for(lk, 5s, [this]{return ready_;}), holding mutex_: test the
\* predicate; true returns, false after the timeout returns false, else
\* sleep (releasing the lock atomically).
WaitCheck ==
  /\ owner = "check"
  /\ owner' = IF ready THEN "running"
              ELSE IF deadline THEN "timed_out"
              ELSE "blocked"
  /\ UNCHANGED <<input, quit, ready, discovering, deadline, readyInTime,
                 connected, fdOpen, att, attRef, gattRef, fault>>

\* The sleeping owner wakes because the 5 s have passed.
WaitTimeout ==
  /\ owner = "blocked"
  /\ deadline
  /\ owner' = "check"
  /\ UNCHANGED <<input, quit, ready, discovering, deadline, readyInTime,
                 connected, fdOpen, att, attRef, gattRef, fault>>

\* The 5 s elapse while the owner is in wait_for.
Tick ==
  /\ owner \in {"check", "blocked"}
  /\ ~deadline
  /\ deadline' = TRUE
  /\ UNCHANGED <<owner, input, quit, ready, discovering, readyInTime,
                 connected, fdOpen, att, attRef, gattRef>>
  /\ UNCHANGED fault

\* throw std::runtime_error("... Did NOT initialize OK"): unwinding the
\* constructor destroys input_thread_, a joinable std::thread, which calls
\* std::terminate.
CtorThrow ==
  /\ owner = "timed_out"
  /\ owner' = "terminated"
  /\ fault' = IF fault = "none" THEN "terminate" ELSE fault
  /\ UNCHANGED <<input, quit, ready, discovering, deadline, readyInTime,
                 connected, fdOpen, att, attRef, gattRef>>

\* Seeded bug: the gatt client is released together with both transport
\* references.
DtorUnrefGattBoth ==
  /\ owner = "unref_gatt"
  /\ owner' = "unref_att"
  /\ gattRef' = 0
  /\ attRef' = IF gattRef = 1 THEN attRef - 2 ELSE attRef
  /\ UNCHANGED <<input, quit, ready, discovering, deadline, readyInTime,
                 connected, fdOpen, att, fault>>

\* ~LEClient, line 113: mainloop_quit().
DtorQuit ==
  /\ owner \in {"running", "partial"}
  /\ owner' = "unref_gatt"
  /\ quit' = TRUE
  /\ UNCHANGED <<input, ready, discovering, deadline, readyInTime,
                 connected, fdOpen, att, attRef, gattRef, fault>>

\* Line 114: bt_gatt_client_unref(gatt_); freeing the client drops its
\* reference to the transport.  A gatt_ never assigned is NULL: no effect.
DtorUnrefGatt ==
  /\ owner = "unref_gatt"
  /\ owner' = "unref_att"
  /\ gattRef' = 0
  /\ attRef' = IF gattRef = 1 THEN attRef - 1 ELSE attRef
  /\ UNCHANGED <<input, quit, ready, discovering, deadline, readyInTime,
                 connected, fdOpen, att, fault>>

\* Line 115: bt_att_unref(att_).  Freeing the transport closes the socket
\* (close_on_unref) and removes it from the main loop; unref of a freed
\* transport is a double free; of NULL, nothing.
DtorUnrefAtt ==
  /\ owner = "unref_att"
  /\ owner' = "join"
  /\ \/ /\ att = "live"
        /\ attRef' = attRef - 1
        /\ att' = IF attRef = 1 THEN "dangling" ELSE "live"
        /\ fdOpen' = (attRef > 1)
        /\ UNCHANGED fault
     \/ /\ att = "dangling"
        /\ fault' = IF fault = "none" THEN "double_unref" ELSE fault
        /\ UNCHANGED <<attRef, att, fdOpen>>
     \/ /\ att = "null"
        /\ UNCHANGED <<attRef, att, fdOpen, fault>>
  /\ UNCHANGED <<input, quit, ready, discovering, deadline, readyInTime,
                 connected, gattRef>>

\* Line 116: input_thread_->join(): a null input_thread_ is dereferenced;
\* otherwise the owner blocks until the input thread has returned.
DtorJoin ==
  /\ owner = "join"
  /\ \/ /\ input = "none"
        /\ owner' = "crashed"
        /\ fault' = IF fault = "none" THEN "null_join" ELSE fault
     \/ /\ input = "exited"
        /\ owner' = "destroyed"
        /\ UNCHANGED fault
  /\ UNCHANGED <<input, quit, ready, discovering, deadline, readyInTime,
                 connected, fdOpen, att, attRef, gattRef>>

-----------------------------------------------------------------------------
(* Input thread: mainloop_run() and the callbacks it dispatches.           *)

\* epoll_wait returns for a PDU from the peer (a response or a
\* notification); the att and gatt code start handling it.
PduArrives ==
  /\ input = "waiting"
  /\ connected /\ fdOpen
  /\ input' = "dispatching"
  /\ UNCHANGED <<owner, quit, ready, discovering, deadline, readyInTime,
                 connected, fdOpen, att, attRef, gattRef, fault>>

\* The PDU handler finishes with the transport and the client objects.
PduHandled ==
  /\ input = "dispatching"
  /\ input' = LoopNext
  /\ fault' = IF fault = "none" /\ (attRef = 0 \/ gattRef = 0)
                THEN "use_after_free" ELSE fault
  /\ UNCHANGED <<owner, quit, ready, discovering, deadline, readyInTime,
                 connected, fdOpen, att, attRef, gattRef>>

\* ready_cb(success, ...), lines 222-241: on failure it only prints;
\* on success it sets ready_ under mutex_ and goes on to notify.
ReadyCb ==
  /\ input = "waiting"
  /\ discovering /\ connected /\ fdOpen
  /\ discovering' = FALSE
  /\ \/ /\ ready' = TRUE
        /\ readyInTime' = ~deadline
        /\ input' = "notifying"
     \/ /\ DiscoveryMayFail
        /\ input' = LoopNext
        /\ UNCHANGED <<ready, readyInTime>>
  /\ UNCHANGED <<owner, quit, deadline, connected, fdOpen, att, attRef,
                 gattRef, fault>>

\* cv_.notify_all(): wakes the owner if it sleeps in wait_for, and is lost
\* otherwise.  The unlocked second ready_ = true stores the same value.
ReadyNotify ==
  /\ input = "notifying"
  /\ owner' = IF owner = "blocked" THEN "check" ELSE owner
  /\ input' = LoopNext
  /\ UNCHANGED <<quit, ready, discovering, deadline, readyInTime,
                 connected, fdOpen, att, attRef, gattRef, fault>>

\* The link hangs up: att_disconnect_cb prints and calls mainloop_quit(),
\* so the loop returns after this dispatch.
HangUp ==
  /\ PeerMayDisconnect
  /\ input = "waiting"
  /\ connected /\ fdOpen
  /\ connected' = FALSE
  /\ quit' = TRUE
  /\ input' = "exited"
  /\ UNCHANGED <<owner, ready, discovering, deadline, readyInTime, fdOpen,
                 att, attRef, gattRef, fault>>

-----------------------------------------------------------------------------

Init ==
  /\ owner = "ctor"
  /\ input = "none"
  /\ quit = FALSE
  /\ ready = FALSE
  /\ discovering = FALSE
  /\ deadline = FALSE
  /\ readyInTime = FALSE
  /\ connected = TRUE
  /\ fdOpen = TRUE
  /\ att = "null"
  /\ attRef = 0
  /\ gattRef = 0
  /\ fault = "none"

Next ==
  \/ Construct \/ WaitCheck \/ WaitTimeout \/ Tick \/ CtorThrow
  \/ DtorQuit \/ DtorUnrefGatt \/ DtorUnrefAtt \/ DtorJoin
  \/ PduArrives \/ PduHandled \/ ReadyCb \/ ReadyNotify \/ HangUp

\* Both threads run when they can, the 5 s do pass, and the peer keeps
\* sending PDUs while the link is up and the socket watched (the
\* miniPRO streams notifications once they are enabled).  When the owner
\* starts destroying the client is its own choice: DtorQuit is not fair.
Fairness ==
  /\ WF_vars(WaitCheck) /\ WF_vars(WaitTimeout) /\ WF_vars(Tick)
  /\ WF_vars(CtorThrow) /\ WF_vars(DtorUnrefGatt) /\ WF_vars(DtorUnrefAtt)
  /\ WF_vars(DtorJoin) /\ WF_vars(PduArrives) /\ WF_vars(PduHandled)
  /\ WF_vars(ReadyNotify)

Spec == Init /\ [][Next]_vars /\ Fairness

-----------------------------------------------------------------------------
(* Properties.                                                             *)

\* Every variable keeps its type.
TypeOK ==
  /\ owner \in OwnerStates
  /\ input \in InputStates
  /\ quit \in BOOLEAN /\ ready \in BOOLEAN /\ discovering \in BOOLEAN
  /\ deadline \in BOOLEAN /\ readyInTime \in BOOLEAN
  /\ connected \in BOOLEAN /\ fdOpen \in BOOLEAN
  /\ att \in AttPtr
  /\ attRef \in 0..2
  /\ gattRef \in 0..1
  /\ fault \in Faults

\* The ready handshake loses no wake-up: a discovery that completes within
\* the 5 s of the constructor's wait is never reported as a timeout, even
\* when notify_all runs before the owner sleeps or after the deadline.
ReadyNotMissed ==
  owner \in {"timed_out", "terminated"} => ~readyInTime

\* The constructor's readiness wait ends (lines 102-108): cv_.wait_for
\* returns, ready or timed out, whether ready_cb reports a failure, its
\* notify_all comes before the owner sleeps, or it never runs because the
\* link hung up first.
WaitEnds ==
  (owner = "check") ~> (owner \in {"running", "timed_out"})

\* A readiness timeout surfaces as the exception the constructor throws
\* (which main catches), not as std::terminate.
TimeoutIsCatchable ==
  fault # "terminate"

\* The destructor never releases the transport or the client while the
\* input thread may still be using them.
NoUseAfterRelease ==
  fault # "use_after_free"

\* Destroying a client whose constructor returned early is safe.
DestructorSafe ==
  fault \notin {"double_unref", "null_join"}

\* Once the destructor has started, it returns.
DestructorReturns ==
  (owner = "unref_gatt") ~> (owner \in {"destroyed", "crashed"})

=============================================================================

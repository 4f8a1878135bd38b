# TLA+ verification of minipro

This directory holds TLA+ models of the minipro sources, TLC configurations
that model-check them on small instances, and TLAPS proofs of their main
properties. The sources are under `src/`: the BlueZ client
`src/src/bluetooth/le_client.cpp`, the joystick poller
`src/src/util/joystick.cpp`, and the remote-control program
`src/test/minipro/t_minipro.cpp`.

## The system and its parts

| Part | Source | Module(s) | Status |
|---|---|---|---|
| Transport bridge: LEClient construction, readiness wait, teardown, disconnect | le_client.cpp 39-124, 222-241, 498-502 | `LEClientLifecycle`, `LEClientLifecycleProofs` | partly |
| GATT facade: blocking writes and their callbacks | le_client.cpp 314-389, 477-496 | `GattFacade`, `CompletionSlot`, `MCGattFacade`, `GattFacadeProofs` | partly |
| Attribute printing helpers | le_client.cpp | none | not modelled (pure output) |
| Input poller `util::Joystick` | joystick.cpp 33-160 | `Joystick`, `InputPoller` | partly (no `set_button_callback`) |
| Control loop, `main()` of t_minipro | t_minipro.cpp 29-105 | `ControlLoop`, `Deadzone`, `MCControlLoop`, `DeadzoneProofs`, `ControlLoopProofs` | modelled |
| MiniPro vehicle protocol, XBox360Controller, LoopRate | not in the repository | modelled only through their effect in `ControlLoop` | not modelled |

The parts interact as follows.
- `LEClient` owns an input thread that runs BlueZ's `mainloop_run`. Every
  callback runs on that thread: `ready_cb`, `write_cb`, `write_long_cb` and
  `att_disconnect_cb`.
- The constructor waits up to 5 s on a condition variable for `ready_cb`.
- Each blocking write puts a `std::promise<int>` on the caller's stack. It
  passes the promise's address to BlueZ as `user_data` and blocks in
  `future.get()` until a callback sets it.
- `util::Joystick` owns a 60 Hz poller thread. The thread stores stick values
  into `axis_map_` without a lock.
- `main()` reads the left stick twice per 30 Hz iteration, once for y and once
  for x. It applies a deadzone and a damping, then sends a drive command to
  the vehicle.
- On SIGINT, `main()` sends `drive(0, 0)` and leaves remote-control mode.
  Leaving the try block then destroys the joystick, which stops, joins and
  closes.

## Modules

**GattFacade** models the callers and the collaborator side of the blocking
writes.
- Callers are a constant set of threads. Each has:
  - `pc`: idle, wait (blocked in `future.get()`) or prep (inside
    `write_prepare`);
  - `op`: the call it is in;
  - `promise`: the value of its stack promise.
- `requests` is the set of accepted requests whose callback BlueZ has still to
  run.
- `session` is `reliable_session_id_`. `peerSession` and `nextId` are the
  reliable-write session the collaborator keeps open and the last id it
  issued.
- The actions are:
  - `WriteValue`, `WriteLongValue` and `WriteExecute`, all through
    `Dispatch`: the request is accepted or refused, and the caller blocks
    either way;
  - `FutureGet`;
  - `CancelWrite`, for `write_execute(id, false)`;
  - `PrepareCheck`, the early return of `write_prepare`, and `PrepareCall`;
  - `WriteCb` and `WriteLongCb`, which cover every branch of the callbacks;
  - `Disconnect`: BlueZ fails every pending request with `att_ecode = 0`,
    then `att_disconnect_cb` quits the loop.
- Payloads and handles change no control and are left out. An ATT error code
  is 0 or 1, where 1 stands for every nonzero code.

**CompletionSlot** is the abstract specification of the facade: the
"pending operation" of the design (section 4.2), with no BlueZ in it.
- Each caller owns a slot that is idle, pending or ready, and holds a result.
- `Issue(c)` makes an idle slot pending and empty. `Fulfil(S)` fills the
  pending slots of a nonempty set `S` in one step: one slot for a callback,
  all of them for a disconnect. `Return(c)` leaves a ready slot.
- GattFacade ends with the refinement mapping. `SlotState` is pending for a
  caller in `wait` whose promise is unset, ready once it is set, and idle
  otherwise. The slot's result is the promise itself.
  `Slot == INSTANCE CompletionSlot WITH ...` and the property
  `ImplementsCompletionSlot == Slot!Spec` say that every facade behaviour is
  a slot behaviour, fairness included.

**LEClientLifecycle** models the owner thread and the input thread.
- It covers:
  - the constructor, including its early returns and its throw;
  - `cv_.wait_for`, with a Boolean deadline;
  - `ready_cb`, split at `notify_all`;
  - PDUs arriving and being dispatched;
  - the hang-up;
  - the four steps of the destructor.
- `att`, `attRef` and `gattRef` track the pointer and the reference counts
  where a free matters.
- `fault` records the first undefined or fatal behaviour: terminate, use after
  free, double unref or null join.

**Joystick** models the device descriptor, `axis_map_`, `should_exit_` and
the poller thread.
- One iteration of `input_thread_func` is two steps, because nothing orders
  `should_exit_` against the read:
  - `PollTest` is the loop test of line 103. It goes to `"reading"`, or
    returns when `should_exit_` is set.
  - `PollRead` is lines 104-158. `read` returns one `js_event` of any type,
    number and value, or `EAGAIN`, which changes nothing. The thread then
    goes back to the test.
  - So the destructor can set `should_exit_` after the test, and that
    iteration still stores an event.
- `ApplyEvent` is the switch of lines 104-155. Only an exact `JS_EVENT_AXIS`
  whose number is in the table of lines 123-149 stores its value. Events with
  `JS_EVENT_INIT` set are ignored, as in the code.

**InputPoller** is the abstract specification of the poller from the
design (section 4.3).
- Its phase is closed, running, stopping or released. `polling` says the
  loop runs, and `axes` holds the (x, y) slots.
- `Open` zeroes the axes and starts the loop. `Store(s, f, v)` writes one
  component while the loop still runs, in running or stopping: the
  iteration under way when the stop comes may still store. `Stop` asks the
  loop to stop.
  `LoopEnds` ends it, and `Release` frees the device once the loop ended.
- Joystick ends with the mapping. `PollerPhase` is read off `fd_` and
  `should_exit_`: none is closed, open is running or stopping, closed is
  released. `polling` says the thread is at the test or in a read, and
  `axes` is `axis_map_`.
  ControlLoop states `ImplementsInputPoller == Poller!Spec`.

**Deadzone** holds the arithmetic of lines 36 and 62-85:
- `sign`, with `sign(0) = -1`;
- the deadzone `DeadzoneOf`;
- the double-then-int damping `TruncDiv`, which truncates towards zero;
- the throttle and steering commands.

**ControlLoop** composes Joystick with the application thread.
- `main` is the program counter. The actions are `Connect`,
  `OpenController`, `LoopTest`, `ReadThrottle`, `ReadSteering`, `Drive`,
  `Stop`, `Unwind`, `Join` and `Signal`. The poller side is `PollerTest`
  and `Poll`.
- `Join` is the join and close of `~Joystick` followed by `~MiniPro`, whose
  `LEClient` destructor may hang (see DestructorReturns). It is given no
  fairness, and no property needs `main` to return.
- The MiniPro calls are modelled by what they tell the vehicle: `mode`
  (normal or remote) and `lastDrive`.
- `window` is a history variable. It holds the values slot 0 takes between the
  two reads of one iteration.
- Exceptions set `threw` and unwind through the scopes the C++ would destroy.

**MCGattFacade** and **MCControlLoop** give TLC the constants.

## Runs

Every `.cfg` uses `CHECK_DEADLOCK FALSE` because the program really stops:
- `main()` returns;
- a caller whose dispatch was refused blocks forever;
- the destructor may hang in `join`.

| Run | Checks | Expect | Shows |
|---|---|---|---|
| facade_safety | CompletionSlotSafe | pass | With 2 callers, 2 session ids, mismatches and disconnects, no callback finds its stack promise gone, on another call, or already set. |
| facade_liveness | AcceptedCallReturns, ImplementsCompletionSlot | pass | Every accepted call returns, disconnects included, and the facade implements CompletionSlot. |
| hang_refused | BlockingCallReturns | violation | A refused dispatch blocks in `future.get()` forever. |
| hang_unverified | AcceptedCallReturns | violation | `write_long_cb`'s `reliable_error` branch never sets the promise. |
| lifecycle_handshake | TypeOK, ReadyNotMissed, WaitEnds | pass | The ready handshake loses no wake-up, in every order of notify, sleep and deadline, and the bounded wait always ends. |
| terminate | TimeoutIsCatchable | violation | A timeout throws past a joinable thread, so `std::terminate` is called. |
| uaf | NoUseAfterRelease | violation | The destructor frees objects before joining the thread that uses them. |
| partial | DestructorSafe | violation | After an early return, the destructor double-unrefs the transport or joins a null thread. |
| loop_safety | TypeOK, ShutdownStopsVehicle, ImplementsInputPoller | pass | Commands stay in range. After SIGINT the vehicle always gets `drive(0, 0)` and leaves remote mode, and the poller returns. The controller implements InputPoller, even when the stop lands between an iteration's test and its read. |
| loop_no_axes | ThrowJoinsPoller, ImplementsInputPoller | pass | A throw inside the loop still stops the poller through `~Joystick`. On these paths, and when the connection fails, the controller implements InputPoller. |
| torn | SnapshotConsistent | violation | One iteration pairs the y of one stick position with the x of a later one. |
| remote_left | NormalModeOnExit | violation | With no controller present, `main` returns -1 with the vehicle in remote mode. |

The violations are the findings listed in `PROJECT.json`. Each was met while
modelling and disagrees with the design document or with a comment in the
code.

The facade's TypeOK is not among the runs. Every value the callbacks can
store is 0 or `att_ecode`, so no bug of this code could break it. It is
proved in GattFacadeProofs, where the other proofs need it.

Three more properties are stated in the modules and violated by TLC, but
have no run of their own, to keep the run list to the main questions:
- `SessionTracked` (GattFacade): `write_execute(id, false)` clears
  `reliable_session_id_` whatever id it cancels. Two `write_prepare` calls
  that both pass the check overwrite each other's id. A failed extension
  stores 0.
- `ZeroMeansConfirmed` (GattFacade): a disconnect fails a write with
  `att_ecode` 0, which `write_cb` reports as success.
- `DestructorReturns` (LEClientLifecycle): `join` can hang, because
  `mainloop_quit` does not wake `epoll_wait` after the socket is closed.

They are listed as hazards in `PROJECT.json`.

### Bounds

- **GattFacade**: 2 callers and 2 session ids.
  - Two callers are enough for one to have a request pending while the other
    dispatches, prepares or cancels.
  - Two ids are enough for a second session to be opened after the first is
    cancelled or leaked.
  - Callers are symmetric model values. The symmetry is not used in the
    liveness run.
- **LEClientLifecycle**: has only Boolean constants. The failure flags
  enable each branch.
- **ControlLoop**: 8 axes, or 0 to reach the throw in `get_axis_state`, and
  3 events, with values {-32768, -8000, 0, 7999, 32767}.
  - The values cover both ends of the 16-bit range and both sides of the
    threshold.
  - Three events give two different stick positions between the two reads of
    one iteration.

### Fairness

Fairness is weak (WF) throughout.
- **GattFacade**: WF on the callbacks and on `future.get()`. The input thread
  keeps dispatching, and BlueZ answers or times out every ATT request.
- **LEClientLifecycle**: WF on the wait, the timeout, the destructor steps
  after the first one, and PDU handling. When the owner starts destroying the
  client is its own choice, so that step is not fair.
- **ControlLoop**: WF on the application thread's steps up to `~Joystick`'s
  stop, and on the poller's test and read, which come round every 1/60 s.
  SIGINT is never assumed to come. `Join` gets no fairness, because it
  includes `~MiniPro` and the `LEClient` destructor, which may hang.

## Mutants

Every property of a passing run is shown to be broken by a plausible bug in
the code. Each bug is defined just before the definition it replaces:

| Property | Bug |
|---|---|
| CompletionSlotSafe | `FutureGetEarly` returns before the promise is set. |
| AcceptedCallReturns | `DisconnectDropsPending` drops pending requests without their callbacks. |
| ReadyNotMissed | `WaitCheckDeadlineFirst` tests the deadline before the predicate. |
| TypeOK (lifecycle) | `DtorUnrefGattBoth` also drops the att reference. |
| TypeOK (control loop) | `ThrottleCommandNoShift` does not subtract the threshold. |
| ThrowJoinsPoller | `ReadThrottleLeaksJoystick` leaves the loop on a throw without destroying the controller. |
| ShutdownStopsVehicle | `LoopTestIgnoresSignal` never tests the signal. |
| ImplementsCompletionSlot | `DispatchReusePromise` reuses a promise that may already hold a value. |
| WaitEnds | `WaitCheckUnbounded` waits with `cv_.wait`, without the 5 s bound. |
| ImplementsInputPoller | `JsJoinCloseEarly` closes `fd_` without joining, so the poller may still be reading. |

## What is proved

**GattFacadeProofs** proves two theorems for every set of callers and every
`MaxSessionId`, from `FacadeAssumption`.
- `TypeCorrect`: `Spec => []TypeOK`.
- `CompletionSlotSafety`: `Spec => []CompletionSlotSafe`.
  - `CompletionSlotSafe` alone is not inductive. A step of a caller that is
    not blocked would need the types of `pc`, `promise` and `requests`.
  - The inductive invariant is `IInv == TypeOK /\ CompletionSlotSafe`.
  - The proof shows `Init => IInv`, then `IInv /\ [Next]_vars => IInv'`
    (lemma `SafeStep`, one step per action), then `IInv => CompletionSlotSafe`.
  - The callbacks share lemma `AnswerSafe`: removing a request and setting its
    caller's promise keeps the slots safe. `DispatchSafe` does the same for
    adding one.

**DeadzoneProofs** proves five theorems about every int.
- `DeadzoneMatchesSpec`: the code's deadzone, with its `sign(0) = -1`, equals
  the design's transform with the mathematical sign, for every int and every
  positive threshold.
- `DeadzoneContinuous`: the result is 0 at the threshold.
- `DeadzoneMonotone`: the deadzone is monotone in its input.
- `CommandsInRange`: for every 16-bit stick value, the throttle and steering
  commands lie in the ranges used by `ControlLoop`'s TypeOK. The damping keeps
  the sign and never enlarges the value.
- `DesignScenario`: a stick at (20000, -500) gives throttle 0 and steering
  -1200.

The bounds in these proofs are written as inequalities, not as literal
intervals. tlapm would expand an interval of 65,536 values.

GattFacadeProofs also proves that the facade refines CompletionSlot.
- `ImplementsSlotSafety`: `Spec => Slot!SafetySpec`, for every set of callers.
- The invariant `IInv` is needed again: a callback fulfils a slot only if its
  caller is blocked with an unset promise, which is `CompletionSlotSafe`.
- `DispatchIssue`: a dispatch is `Slot!Issue`. `CallbackFulfils`: a callback
  that sets a promise is `Slot!Fulfil({c})`. `SlotStutter`: any step that
  changes no `wait` state and no promise is a slot stutter.
- A disconnect is `Fulfil(S)` for the set `S` of callers with a pending
  request, with result 0 for each, or a stutter when `S` is empty.
- The fairness of `Slot!Spec` is checked by TLC only.

**ControlLoopProofs** proves two theorems for every `DeviceAxes`,
`EventValues` and failure flags. They rest on `JoystickAssumption`,
`ControlLoopAssumption` and the Deadzone lemmas.
- `TypeCorrect`: `Spec => []TypeOK`. The inductive invariant is `LoopInv`:
  TypeOK, plus the fact that the throttle and steering locals hold negated
  event values. That fact is what lets `Drive` cite `CommandsInRange`.
- `ImplementsPollerSafety`: `Spec => Poller!SafetySpec`, with the loop test
  and the read as two steps. It needs one more invariant, `PollerInv`:
  - no thread and no stop exist before the device is open;
  - a thread at its test or in a read runs only on an open descriptor;
  - a thread that returned saw `should_exit_`.

  `PollerStep` maps each action to `Open`, `Stop`, `LoopEnds`, `Release` or
  a stutter. A test that sees `should_exit_` is `LoopEnds`, and any other
  test is a stutter. A read is a `Store` or a stutter, by the lemma
  `ApplyEventStores` on the axis table. `Store` holds because the
  descriptor is still open, whether or not a stop was asked.
- The lemma is written `throttle + y = 0`, not `-throttle \in EventValues`:
  tlapm's SMT translation breaks on a unary minus of a value that may be 0.
  The axis table is a tuple, not a CASE, which SMT does not take.

**LEClientLifecycleProofs** proves two theorems for every combination of the
failure flags.
- `TypeCorrect`: `Spec => []TypeOK`, so the reference counts stay in range.
- `ReadyNotMissedHolds`: `Spec => []ReadyNotMissed`.
- ReadyNotMissed alone is not inductive. The inductive invariant `LifeInv`
  relates the objects:
  - the gatt client holds the second transport reference;
  - a live `att_` is referenced;
  - `ready_` is set by every `ready_cb` that came in time;
  - a timed-out owner is past the deadline and saw no timely ready;
  - no client exists before construction completes or after
    `bt_gatt_client_unref`.
- TLC checks `LifeInv` as an invariant with every failure enabled. The proof
  splits the Boolean part of TypeOK (Zenon) from the counts (SMT).

**Only model-checked:**
- every liveness property (AcceptedCallReturns, the fairness of
  ImplementsCompletionSlot and ImplementsInputPoller, WaitEnds,
  ShutdownStopsVehicle, ThrowJoinsPoller), which need fairness and ENABLED,
  out of the prover's reach;
- the properties of the violation runs, which are false of the code.

## Not modelled, and the plan

Not modelled:
- the read, notify and security operations of LEClient, which only print or
  forward to BlueZ;
- `write_value` without response, which is fire-and-forget;
- `set_button_callback`, because the only client never calls it;
- the printing helpers;
- the MiniPro class, XBox360Controller and LoopRate, which are not in the
  repository.

Two hazards of the unmodelled operations are listed in `PROJECT.json`:
- the unlocked function-static sign counter of `local_counter`;
- `register_notify` dropping the subscription id.

Later work:
- add the button-callback race once a client registers callbacks;
- model signed writes, to show two threads taking the same sign counter.

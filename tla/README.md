# Mobile bimanual home assistant: TLA+ models and proofs

This directory holds TLA+ models of the parts of the repository that decide
when and how the robot moves and how it stops, the TLC runs that check them on
small instances, and TLAPS proofs that hold for every instance. Every definition
is translated from the code; `PROJECT.json` maps each one to the lines it stands
for and lists the runs, the mutants that show each property can fail, the
hazards, the findings and the theorems.

## 1. The system

A mobile robot with two arms, a lift and a base of three wheels. One STM32
(G474) owns every servo: the left UART carries the left arm, the wheels and the
lift, the right UART the right arm. A host (ROS 2, Python) plans motions and
sends them over a framed serial link. Tasks (fetch, pick, navigate) sit above.

    tasks -> host bridge -> serial frames -> arm control -> stream executor -> servo dispatch -> two servo buses
                                                |  safety state machine              ^
                                                +-> mobile board -> mobile output, hold output -> routers
                                                                    system stop -----------------^

The firmware has one main loop (`main.c:141-160`: servo dispatch, arm control,
mobile board, mobile servo output, hold output, feedback) and interrupts (UART
receive and transmit, the 5 ms control tick, bus errors). There are no threads:
the interleavings that matter are main loop against interrupts, and the order in
which the main loop meets frames, ticks and completions. Clocks are 32-bit
counters of milliseconds and microseconds that wrap.

| Component | State it keeps | Operations | Hard behaviour | What must be true |
|---|---|---|---|---|
| Stream executor v2 (`stream_contract_v2.c`, `stream_session_v2.c`, `stream_executor_v2.c`) | queue of timed setpoints, policy, horizon, epoch, control grid, last output, outcome | open, admit (append, splice), start, step, two feedback checks | wrapping clock, late steps, splices into a moving plan, host silence | outputs inside limits and step limits, success only after the whole plan, an open stream moves only while its host talks |
| Safety state machine (`safety.c`) | boot, disabled, armed, active, hold, fault, estopped; heartbeat; torque request | boot, heartbeat, arm, enable, hold, disable, fault, estop, clear, tick | host requests racing the heartbeat watchdog and the emergency stop | the emergency stop wins; torque only with authority; ACTIVE only while the host is heard |
| Arm control (`binary_control.c`) | latched stop, pending coordinated stop, torque and anchor of the arms, executor clock | host frames, service pass, interrupts | torque commands that fail half-way, order of the service pass, frames between two passes | a latched stop reaches torque; unattended arms lose torque; goals only from an authorised pass |
| Shared bus and router (`shared_bus.c`, `bus_router.c`, `bus_schedule.c`, `servo_transport.c`) | one transaction, queued jobs, stop pending, fault, inhibition, last receipt | submit, request stop, claim, complete, poll, recover, resume | stops overtaking motion, late and stale reports, expired jobs | one transaction at a time, no motion before the stop it waits for, true receipts |
| System stop (`system_stop.c`, `mobile_board.c`) | phase, token marks, completion time | begin, poll | expired or failed packets, stale evidence | confirmed only by evidence newer than everything sent |
| Mobile output (`mobile_output.c`, `mobile_servo_output.c`, `mobile_hold_output.c`) | stop latch, stop written, jobs | stop, poll, completed, rearm | UART shared with other owners, missed slots | the zero velocity goes out; no motion after it |
| Bimanual dispatch, tracking feedback (`bimanual_dispatch.c`, `bimanual_servo_dispatch.c`, `bimanual_tracking_feedback.c`) | pair of DMA writes, skew, deadline | begin, complete, fail, poll | one of two buses failing | both halves or a latched fault |
| Mobile supervisor and feedback (`mobile_supervisor.c`, `mobile_feedback.c`, `mobile_endpoint.c`, `mobile_wire.c`) | session, sequence, lease, target, feedback | arm, command, feedback, poll, stop | stale commands and feedback, session reuse | velocity only under a fresh lease and fresh feedback |
| Lift (`lift_controller.c`, `lift_endpoint.c`) | height estimate, target, fault, lease | home, move, observe, poll, stop | stall, unwrap, limits | no motion past a limit; complete only after a sent zero |
| Buffered executor and route (`buffered_executor.c`, `buffered_command_route.c`, `setpoint_queue.c`) | buffered trajectory, ownership | begin, append, commit, tick, abort | the protocol-v1 path, two-phase commit | a trajectory runs only when whole |
| Framing (`cobs.c`, `crc32c.c`, `protocol.c`, `host_uart_rx.c`, `host_uart_tx.c`) | ring buffers, parser | byte, frame, send | overrun, resynchronisation, interrupts | frames whole and in order, or a reported fault |
| Device start-up (`device_startup.c`, boot identity) | stage, boot counter | stage transitions | resets between two writes | a boot number is never used twice |
| Host bridge (`so101_arm_bridge`) | stream adapter, transport, backend lease | open, send, retry, cancel | lost acknowledgements, cancel races | one owner of the arms, no retry of what was done |
| Tasks (`home_robot_tasks`) | workflow stage, task lease, attempts | run, confirm, cancel | cancelled but unconfirmed motion | one task at a time, released only after a confirmed stop |

Perception, navigation geometry, the assistant, operator tools, the legacy
images of the same board and the vendored HAL are not modelled: `PROJECT.json`
gives the reason for each.

## 2. Modules

| Module | What it is |
|---|---|
| `ModularTick` | readings of a wrapping clock: `Plus`, `Elapsed`, `IsBefore`, `IsAfter`. The code's `(uint32_t)(a - b)` comparisons. |
| `ModularTick_proofs` | lemmas about those, for every modulus |
| `StreamContractV2` | pure operators: when a policy, a batch or a seam is acceptable |
| `StreamExecutorV2` | the executor; one action per call of its API |
| `FedStream` | the executor with two pieces of history its step limit depends on: `ranDry` (a batch came after the queue ran empty) and `gridAged` (the clock may have gone round since the start) |
| `BoundedMotion` | abstract specification: what an executor promises whoever owns the arm |
| `MCStreamExecutorV2` | the instances: two joints, one of them locked, finite and open streams; ages instead of readings |
| `StreamExecutorV2_proofs` | theorems about `StreamExecutorV2` and `FedStream` |
| `SafetyRules` | the calls of `safety.c` as operators on its record; used by the next two |
| `ActuatorSafety` | every order of those calls, by any caller |
| `ArmControl`, `MCArmControl` | host frames, service pass and interrupts around `SafetyRules` |
| `Supervision_proofs` | theorems about `ActuatorSafety` and `ArmControl` |
| `BusRules` | the calls of `shared_bus.c` and `bus_router.c` as operators on a router |
| `BusRouter`, `MCBusRouter` | one router with its UART, under the transport's claim, complete and recover discipline |
| `BusRules_proofs` | what each of those calls, and a pass of an output (`OutputPass`), preserves and changes: lemmas any user of a router can cite |
| `BusRouter_proofs` | theorems about `BusRouter` |
| `OutputPass` | what an output does with a router and its UART in one pass; used by `SystemStop` and `MobileDrive` |
| `SystemStop`, `MCSystemStop` | two routers (again `BusRules`), both outputs, the stop record and the turns of the main loop |
| `SystemStop_proofs` | theorems about `SystemStop` |
| `MobileRules` | the calls of `mobile_supervisor.c` and the host's frames as operators on the supervisor |
| `MobileDrive`, `MCMobileDrive` | host frames, supervisor, mobile output, left UART and the reader of evidence, on two clocks |
| `MobileDrive_proofs` | theorems about `MobileDrive` |
| `RobotLease` | abstract specification: what sharing one robot between tasks promises |
| `TaskControl`, `MCTaskControl` | runtime tick, task executor, ports, stop backend and the callbacks around them |
| `TaskControl_proofs` | theorems about `TaskControl`, the refinement of `RobotLease` among them |

### Stream executor

`Open`, `Admit`, `Start`, `Step`, `CheckJointFeedback`, `CheckFeedback` are the
exported functions; `Refuse` is a call the state refuses. `Step` is the disjoint
union of the branches of `actuator_stream_executor_v2_step`, in its order: broken
timeline, command timeout, underflow, hold, missed sample, apply, interpolate.
`queue` is the validated sample array, `anchor` the last applied sample. Samples
are grid ticks and positions; `Advance` moves the caller's clock, at most
`MaxSilence` between two steps. Wire decoding is the choice of a payload; float
and fixed-point detail of interpolation is kept as integer division.

What the step limit says of outputs (`StepKeepsLimit`, `FedOutputStepBounded`) has three
limits of its own, and each is something the code does:

- until a splice: a splice is admitted one step from the planned position, on top of the
  planned motion;
- not of a batch that comes after the queue ran dry, which is compared with nothing
  (finding 1);
- not of the posture recorded as the stream goes to HOLD. A command timeout in the
  middle of a segment records the anchor, behind the output
  (`stream_executor_v2.c:327-339`); `Host_ServiceV2Executor` sends nothing of a stream that
  ends in HOLD, it asks for a coordinated stop (`binary_control.c:3204-3211`).

The control grid is counted from the start modulo 2^32, which is no multiple of 5: at the
end of a turn of the clock one cell of it is a millisecond long, and a sample that
falls there is applied sooner than admission counted. So the limit holds
until what may be queued reaches the end of that turn (`TurnEnds`): 49.7 days after the
start.

### Safety state machine

Each action is one call with its early returns; result codes are the guards.
`age` is history: the true age of the heartbeat that the wrapped reading
`safety.last_heartbeat_ms` stands for. `unticked` bounds the time between two
safety ticks by `MaxTickGap`. The names that `ArmControl` also uses for its own state
begin with `Machine`, so that one module can hold the proofs about both.

### Arm control

`ctl` is one record of the `host_*` statics of `binary_control.c` and of the
torque of each arm. `ServicePass` is `BinaryControl_Service` whole and in order:
supervision, coordinated stop, safety tick, telemetry, executor. Frames are the
handlers `Host_Handle*`; interrupts are `RxFault`, `ControlTick`, `PairCompletes`
and `BusError`. Torque changes only by torque writes; a write to a bus that fails
leaves either value. Disabling one arm blocks for at least a control tick
(`HAL_Delay(5)`, a 5 ms period), so the pending tick may become a missed one. The
right bus refuses at once while telemetry owns it. The mobile board is not
configured in this image: `MobileBoard_ArmsPrepared` answers true. `served` says a
pass followed the last frame. `world` is what the surroundings do, the same for a
whole behaviour, so that one run covers several and a property says where it holds:

- `PIPELINED`: frames arrive without waiting for answers. In every other world
  they wait, as the host transport does (`stream_transport_v2.py:50`, `_serialized`).
- `IO_FAILS`: a torque write or its readback may fail, not only meet a busy bus.
- `MAINTENANCE`: the host also sends the one-shot frames of the right arm.
- `RESTARTS`: a host starts again, and prepares, while a stream still runs.
- `BAD_REFERENCES`: the host sends a PREPARE_SHADOW whose reference the controller
  refuses (status 7; the host's own encoder does not write one).

A PREPARE_SHADOW that meets a stream or whose reference is refused takes torque off
the right arm only, ends the supervision of both and latches the stop
(`binary_control.c:3641-3653`, `:3801-3807`): the left arm then stays energised,
and neither the watchdog nor the latched stop looks at it. `Plain` names the worlds without such
frames, without failing transactions and without maintenance frames; what is said of torque on
the left arm is said of those.

`unattended` is history: the time since the host was heard or torque configured.

### Shared bus and router

`Submit`, `StopRequest`, `Dispatch`, `Report`, `PollBus`, `Recover`, `Resume` are
the operations. `Dispatch` is `ServoTransport_ClaimQueued` with the launch of the
transmission; `Report` completes with any token, also an old one;
`TransmissionEnds` is the UART's interrupt. `wire` is what the UART is really
sending; `ended`, `due`, `dueOnWire`, `owed`, `passed` are history. Work 0 is STOP,
the others are kinds of motion. The window of `bus_schedule.c` is an input.

### System stop

`RequestStop` is `MobileBoard_RequestStop`, `Board` the part of
`MobileBoard_Poll` that polls a stop, `LeftPass` is `MobileServoOutput_Poll` with
`actuator_mobile_output_poll` inside, `RightPass` is `MobileHoldOutput_Poll`. `turn`
keeps the order of the main loop. Abstractions:

- one clock stands for the millisecond and the microsecond clock;
- both outputs are configured (before that, a stop is UNCONFIRMED at once);
- the readings `poll_stop` gathers are one `age`, that of the oldest, and one
  verdict, `good`; any age and verdict may come at any poll;
- `trouble` is a missed slot, a command about to expire or lost feedback; `due`
  that the schedule asks for a velocity;
- `robot` is what stays the same for a whole behaviour: how long a packet may wait
  (`lifetime`), what it takes on the line (`job_budget`), whether transmissions may
  fail (`faults`), and whether the arms can be read (`arm_feedback`);
- `LAUNCHED`, `BUSY` and `FAILED` are how far a pass gets;
- recovery and rearm are left out: no production code calls
  `MobileServoOutput_Recover`, `MobileHoldOutput_Recover` or
  `MobileServoOutput_Rearm`. A bus that faults stays faulted until a reset, and a
  stop that meets it ends UNCONFIRMED.

### Driving the wheels

`supervisor` is `actuator_mobile_supervisor_t`, `output` the latch of
`mobile_output.c`, `router` and `uart` the left bus. One round of the main loop is
`Service` (the supervisor's poll in `BinaryControl_Service`), the frames of one
receive burst (`HandleFrame`, `SafeStop`, then `EndHost`), `OutputTurn`
(`MobileServoOutput_Poll` whole: the poll of the output, the settling of a
transmission, the claim and the launch), and `ReaderTurn` or `ReaderFails`
(`MobileServoFeedback_Poll`). `TransmissionEnds` is the interrupt. `Advance` moves
the microsecond clock and, once in `PerMs`, the HAL millisecond; `sub` is the
phase between them, which the program cannot see.

- A frame of any session and number may come at any time, with any deadline left:
  hosts, delays, repetitions and reordering on the link are all among those, so
  what holds here holds for the host client (`so101_arm_bridge`) too.
- `Window` is what `bus_schedule.c` may answer: a missed slot, wheels due or not, a
  window wide enough or not.
- The lift stands. A height outside its limits is bad evidence, and a limit of speed
  is a frame that is refused.
- The reader's transactions with single servos are abstracted to what it publishes:
  nothing, distrust of the samples it has (`incomplete`), evidence of a given age,
  or a fault.
- `Rearm` and `Recover` have no caller in the production images: an output that
  stopped stays stopped until a reset.
- `wheels` (what the last packet that went out, even in part, asked for) and
  `evidenceAge` (the true age behind the wrapped reading) are history.

The poll that carries a latched supervisor to the output comes after the burst. A
STOP and an ARM of a new session in the same burst therefore enable the supervisor
again, on evidence from before the motion, and the output never stops. The model
includes this; `MovesInTime` and `MotionEnds` hold all the same.

### Household tasks

`sys` is one record of the fields of `RobotRuntime`, `RobotApplication`,
`TaskExecutor`, `RoutedSkillAdapter`, the ports and `SystemStopBackend`. The host
is one thread: `Submit`, `Cancel` and `Tick` are whole calls, and between them the
callbacks of the navigation client (`Accepted`, `Finished`), the navigation server,
the controller and time take their steps. A call that may raise is an operator that
returns a set of outcomes (the state it leaves, whether it returned, its value), and
`After` lets an exception pass through the callers up to the one that catches it.

- A port has two entries for a goal, that of `ResolvedPort` (`outer`) and that of the
  port below it (`inner`). A start may be refused before the first is made (the port is
  not ready any more, or has made its 128 entries) or between the two (server not there, lift
  not homed), when the goal is already the adapter's active one (`skill_ports.py:41`).
  Cancelling such a goal raises for ever, the stop is sent but never taken as sent, and the task
  stays in STOP_UNCONFIRMED with the robot. `Stranded` names those goals, and
  `TaskEnds` excepts them; finding 4 is about them.
- A call about a navigation goal may raise, in `start`, in either callback or for the
  cancel of a goal that was cancelled before it was accepted: the port reports FAILED,
  whatever the server does. Where the server may be at work, the entry is `LOST`. `RobotLease`
  is implemented for the goals that are not lost (`Followed`); finding 5 is about the
  lost ones.
- Runs are numbered in the order of submission; ids are never used twice.
- The freshness limit of the controller and that of the host are one `MaxAge`.
- `ResidentArmPort` stops as `LiftPort` does and is not repeated. Left out: composite
  ports (`workflow_ports.py`, `search.py`), pose and map bookkeeping, `recovery.py`
  and the gateway.

## 3. Runs

Every passing run's properties each have a mutant: a bug in a definition that
translates the code, under which TLC finds that property violated.
Most of what the passing runs check is also a theorem (section 4): the runs show it on
an instance, with the mutants, and the theorems for every instance. The type invariants
of `StreamExecutorV2`, `ActuatorSafety` and `BusRouter`, with `StreamKindStable` and
`TorqueAuthority`, are theorems only and are not checked twice.

| Run | Question | Result |
|---|---|---|
| `stream` | Finite and open streams, appended and spliced across the clock's wrap: limits, order of the queue, accounting, endings, no output past the step limit (late applies included, until a splice; for an open stream until it runs dry), no open output without a recent batch, none early, every running stream over within a late apply and a step of its plan's end or its host's silence (`EndsOnTime`, whose bound is tight), and `BoundedMotion` as a refinement | holds |
| `stream_dry_append` | The same step limit, for an open stream that ran dry | violated, finding 1 |
| `safety` | Every order of calls with late heartbeats, stalls and wraps | holds |
| `arm_session` | Pipelined frames, failing servo transactions, maintenance frames, refused references: a latched stop reaches torque; unattended arms lose torque within `2 * (T + MaxStall)`; goals only from an authorised pass; supervision never dropped without a recorded fault | each holds in the worlds of the table below |
| `arm_restart` | A host that restarts and prepares in mid-stream: does a receiver fault still stop the arms? | violated, finding 2 |
| `arm_rollback` | An arming that fails and whose rollback fails: is anything latched? | violated, finding 3 |
| `bus_router` | One owner of the wire, true receipts, no motion before the stop it waits for, no late motion acknowledged, motions share the window in turn | holds |
| `system_stop` | What CONFIRMED proves; no motion after the stop or after a written zero; the zero goes out, or the bus is faulted, whatever expires; with working transmissions, zero and both holds are sent and acknowledged | holds |
| `mobile` | Any frames, late ones too, evidence that ages, fails or stops coming, a bus that may fail: a velocity is on the line only before its command expires (`MovesInTime`) and on evidence that is really fresh (`MotionRestsOnEvidence`), nothing passes the stop latch (`LatchHolds`), motion ends (`MotionEnds`) | holds |
| `task` | Two tasks over calls that raise, lost and late stops, timeouts, runtime faults and callbacks that race a cancel: `RobotLease` as a refinement, for the goals the navigation port has not lost; a failed task gives the robot back only with proof of a stop; nothing is sent after a stop, a new task's goals included; every task ends, unless its goal is stranded | holds |
| `task_stranded` | A port refuses a start before it has an entry for the goal: does the task end once the robot proves its stop? | violated, finding 4 |
| `task_lost_goal` | A call about a navigation goal raises: is the goal over when its task releases the robot? | violated, finding 5 |

In which worlds the properties of `arm_session` hold, and why not in the others:

| Property | `PIPELINED` | `IO_FAILS` | `MAINTENANCE` | `BAD_REFERENCES` |
|---|---|---|---|---|
| `StopTakesEffect`, `UnattendedArmsLoseTorque` | yes | no: a write that fails leaves torque on, which the code answers with a fault | no: a one-shot energises an arm whose supervision ends with the other's | no: a refused PREPARE_SHADOW leaves the left arm energised and unwatched |
| `GoalsAuthorised` | no: CLEAR_FAULT in the burst of the frame that latched the stop | yes | yes | yes |
| `SupervisionNotDroppedSilently` | yes | yes | no: RIGHT_ARM_DISABLE ends supervision of the left arm too | yes |
| `RightArmSupervised` | yes | no: a servo that took torque but does not answer | yes | yes |

### Bounds, and why they are enough

A reading of a clock only matters through its age, and ages are compared with a
few timeouts: a modulus of at least twice the largest age followed, plus one
stall, shows every order of the events and the wrap. The MC modules view readings
as ages (`MCView`), so states that differ by a shift of the clock are one.

- Stream: queue of 3 (16 in the code) so that it fills with a batch of 2 on top
  of a rest of 1; three accepted samples make two batches and a splice over a rest
  possible; `Boot` puts the wrap inside the plan. A modulus of 24 for the safety runs,
  with batches up to 3 control ticks ahead, 40 for the finding, which needs a batch
  4 ticks away.
- Safety: timeout 3, stall 2, silence followed for 9 ticks, modulus 16: silence
  passes the timeout and the clock goes half-way round and wraps.
- Arm control: timeout 1, one tick of stall, modulus 6: a silent host lets the
  clock go round and a stale reading look fresh once. The firmware's
  timeout is 500 ms (`single_arm_config.h:136`); the blocking budget of the main loop
  is kept under it by `tests/test_stm32_main_loop_blocking_budget.py`, which is the
  assumption `MaxTickGap <= HeartbeatTimeout`. Handlers have no counter that grows,
  so nothing else needs a bound.
- Bus: 3 kinds of work, the stop and two motions that compete for the window;
  tokens up to 3, so that every report may be old and the exhaustion of tokens, a
  fault in the code, happens. `MaxOutage` is the time between two passes; the
  modulus exceeds the wait of a job that is passed over.
- System stop: one kind of motion; 4 tokens allow a velocity, an output's own
  zero, the stop's zero and the hold. `AllRobots` are three: one that can
  fail, with and without arm feedback, lifetime 3 and budget 2, so that expiry happens
  at one missed turn; one that can fail, lifetime 2 and budget 1; and one that works,
  lifetime 6 and budget 3: a hold needs `lifetime >= job_budget + 2 * turn + 1`, the
  deadline being checked before the launch, and the simulation profile's 4000
  microseconds meet it. A token used up by an output that had stopped on its own can be the
  last; `StopIsCarriedOut` excepts exactly that.
- Wheels: 2 sessions and 2 sequence numbers, so that a session can be succeeded and
  a number repeated; timeouts of 2 ms and a modulus of 8, so that the reading of
  evidence that is never replaced comes round; 3 microseconds in a millisecond, the
  least number with which a packet can wait a whole phase too long; a packet may
  wait 3 of them and takes 1. The tokens never run out here: `bus_router` asks that.
- Tasks: two, so that one follows the other and may meet what it left behind; two
  steps, one of each kind of port, so that a step is followed by another; the task's
  deadline beyond the step's; a stop that is confirmed in time or late.

The views are quotients. Two states that differ by a shift of a clock take the same
steps, shifted; likewise states that differ in a field that is always overwritten
before it is read (the deadline of an empty job, the packet of an idle bus, the start of a stop that
is judged or of a transaction on a faulted bus, the
session of a supervisor whose output has stopped for good). Every property reads
only what the view keeps, so the quotient has a counterexample whenever the full
graph has one, a liveness property's lasso included: the relation is a bisimulation
that agrees on the properties and on which fair action a step is.

### Fairness

- `stream` has no fairness: that the clock does not pass a step that is due
  (`MaxSilence`, a 5 ms interrupt and a main loop that takes it) is in the guard of
  `Advance`, so that streams end is an invariant with a bound, `EndsOnTime`.
- `system_stop`: the main loop goes round (weak fairness
  of its three parts), a stop an output asked for is begun, a DMA transmission ends
  one way or the other on the robot without faults (its end may be lost for ever on
  the other, and the poll of the bus must then fault it), the clock runs, and no other
  owner keeps a UART for ever (strong fairness of a launch: servo reads are bounded
  by their timeouts and release the line between two). Failure is never assumed away
  on the robot with faults: `LAUNCHED` is fair only against `BUSY`, and a failed launch
  or a broken transmission faults the bus, which the property names.
- `mobile`: the clocks run and the main loop goes round; again and again a slot of the
  wheels falls in a window that is wide enough while the UART is free (strong fairness
  of that turn; the schedule makes the wheels due periodically and reserves time
  between two arm periods). Nothing is assumed of the host, of the evidence or of the
  end of a transmission: its budget faults the bus.
- `task`: time passes; again and again a tick is answered by everything it calls, also
  at a moment when a stopped robot stands still (strong fairness: a link that never
  answers, or evidence that is contradicted at every tick, leaves the task unconfirmed, as
  it should); the navigation server answers a goal and ends one it was asked to
  cancel, and its callbacks run; a controller that was asked to stop stops.
  `task_stranded` also assumes that the runtime ticks for ever, whatever its calls
  do (`TickingSpec`), lest its counterexample be a host that stopped.

### Findings

1. An append to an open stream that ran dry is compared with nothing: the next
   outputs leave the held posture faster than the step limit, which the tests say
   appends and every interpolated step obey (`stream_dry_append`).
2. PREPARE_SHADOW during a stream drops the flag both the watchdog and the latched
   stop rely on, while the executor goes on: a receiver fault "must fail closed"
   (`binary_control.c:4757`) and no longer stops the arms (`arm_restart`).
3. The rollback of a failed arming drops the result of disabling torque, which
   `servo_bus.c:1118` says the caller latches (`arm_rollback`).

4. A task whose port refused a start in that way stays STOP_UNCONFIRMED although the
   controller took the stop and proves it at every tick, where
   `docs/ARCHITECTURE.md:441` says it ends on valid evidence (`task_stranded`). The
   robot stands and stays owned, so `RobotLease` holds; it takes no further task. The 129th
   start of a skill in one process is such a refusal (`fetch_composition.py:35`).
5. A navigation goal about which a call raised counts as FAILED though the server may
   have it, and its task releases the robot with that goal at work, where
   `skill_ports.py:78-79` says that a late accepted goal cannot execute after the release
   (`task_lost_goal`).

## 4. Proofs

Eight modules hold theorems. Theorems are of the form `Spec => ...`, for every
value of the constants that meets the assumptions the modules declare. Those say what
TLC's instances also meet:

| Assumption | Why the code justifies it |
|---|---|
| `MaxTickGap <= HeartbeatTimeout`, `MaxSilence < TickModulus` (`ActuatorSafety`) | the blocking budget of the main loop is kept under the 500 ms timeout by a test; silence is followed up to a bound below one turn of 2^32 ms |
| `ClockAssumption` (`StreamExecutorV2`) | the hard caps of `binary_control.c:2354-2357` (400, 500, 100 and 5 ms) against half a turn of the clock, 2^31 ms. It also bounds the batches that are offered: a batch so far ahead that its ticks go round the clock is not refused by the code, and is not covered |
| `2 * (HeartbeatTimeout + MaxStall) + MaxStall < TickModulus` (`ArmControl`) | a silence of about a second against one turn of 2^32 ms |
| `PromptAssumption` (`BusRouter`) | the turns of all kinds of motion (`mobile_servo_output.c:94`: a few transactions of some milliseconds, and as many passes) fit in 2^31 microseconds, 36 minutes |
| `2 * MaxOutage < HalfTurn` (`MobileDrive`) | two passes of the main loop take less than 36 minutes |
| `LatenessAssumption` (`FedStream`) | a late apply is at most a control tick late: `maximum_apply_lateness_ms` is 5 (`binary_control.c:2357`), the control tick 5 ms |
| `None` is neither a task nor a goal (`TaskControl`) | `None` is no run id |

**`StreamExecutorV2_proofs`**: `TypeCorrect`, `MotionStaysWithinLimits`,
`QueueStaysInOrder`, `SamplesAreAccountedFor`, `StreamKindNeverChanges`,
`SuccessIsEarned`, `SilenceStopsOutput`, `NothingIsEarly`, `TimelineHolds`,
`StreamEndsOnTime`, `OutputsKeepStepLimit`, and `ExecutorKeepsPromise`: `StreamExecutorV2` implements
`BoundedMotion`, each call being one of its steps or a stutter.

- The limits of an interpolated output need the limits of both of its ends, so the
  invariant carries that the anchor and every queued sample lie inside the limits; the
  order of the queue needs what admission established (a batch strictly
  ascending, beyond what is kept); the accounting needs the type of the counters. The
  lemmas about the integer interpolation bound a quotient between the two ends.
- `Accountable` adds that a stream being primed has moved nothing and that the clock has
  not outrun the step that is due (`SteppedLately`); without it the reading of the last
  batch could look younger than the step that used it.
- `Timeline` is about readings of a clock that wraps. It says how far the anchor, every
  queued sample, the last step and the last batch are from now (`QueueAhead`, `Primed`,
  `Running`), so that every comparison the code makes is a comparison of true
  distances. `TimelineNeverBreaks` and `EndsOnTime` are not inductive without it:
  what is in the queue must be bounded by the caps under which it was admitted.
- `StepLimited` is what the step limit of outputs (`OutputsKeepStepLimit`) rests on, with
  `Timeline`: neighbouring samples are no further apart than the steps of the whole
  control ticks between them (`PlanContinuous`), the head of the queue is within the
  steps of its way, which is measured on the control grid (`HeadInReach`), and the
  output is where the last step put it on that way, or, where a sample was applied late,
  up to a control tick behind (`OutputOnWay`): that is the one tick by which the limit
  exceeds the time between two steps. `BetweenMoves`: two interpolated postures of one way
  differ by no more than the steps of the ticks between them, though each is rounded by
  an integer division of its own.

**`Supervision_proofs`** is about two specifications that share the clock and the calls
of the safety machine. Of `ActuatorSafety` (`MachineSpec`), any caller:
`MachineTypeCorrect`, `EstopAlwaysDominates`, `TorqueNeedsAuthority`,
`ActiveOnlyWhileHeard`, `ActiveOnlyThroughArming`. `ActiveMeansHeard` is not
inductive alone: a stale reading that wraps could look fresh, so the invariant
ties the reading to the true age (`HeartbeatIsAge`) and says that ACTIVE has one
(`ActiveHasHeartbeat`).

Of `ArmControl` (`Spec`), for every set of worlds, every timeout, stall and clock:
`TypeCorrect`, `GoalsAlwaysAuthorised`, `StopAlwaysTakesEffect`,
`RightArmIsSupervised`, `LeftAloneLosesTorque`, `NothingIsLetGoSilently`.
`StopTakesEffect` and `UnattendedArmsLoseTorque` are of plain worlds, as their
definitions say: a PREPARE_SHADOW that is refused or meets a stream leaves the left arm
energised with nothing watching it, and a world with such a host refutes both.
`RightArmIsSupervised` says `NoRestarts => ...`, for finding 2 refutes it otherwise; a
refused reference does not, because that frame always disables the right arm.

- One lemma says what each operator changes and keeps; the pass is the composition of
  its four parts. `StopsServed` and `SafetyServed`: it either has stopped the arms
  (`Stopped`), or found nothing to stop them for, so that whatever is unlatched then
  was unlatched, heard and in the same safety state before (`Passed`).
  `TrackingServed` and `ExecutorServed`: serving the stream sends goals only while the
  stream goes, and latches a stop only by owing it to the arms (`Carried`).
- `Sound` ties the stream, its pair of writes, its tick and telemetry together: a pair is
  on its way only while telemetry follows the stream; a stream nobody follows has
  missed its tick or lost its bus. `GoalsAuthorised` needs `GoingIsLed`: a
  stream that can still send is supervised and its session whole, or a frame has just
  latched the stop that the next pass performs before it serves the executor.
- `StopTakesEffect` and `UnattendedArmsLoseTorque` need `TorqueIsWatched`: torque is
  supervised, and whoever could let go of it (DISABLE, PREPARE_SHADOW) meets arms the
  buses can still reach.
- The watchdog compares two readings of a clock that wraps. `Aged`: the younger of the
  two is as old as the arms have been left alone. `Noticed`: the last pass did not find
  them both old; one of them looked fresh to it, and if its true age was a whole turn
  more, that illusion began before the other one ran out. The bound is what this
  argument gives, `2 * (HeartbeatTimeout + MaxStall)`: each of the two can look fresh
  once, and is noticed a pass late.
- `NothingIsLetGoSilently` needs neither: what a stop could not take off is a recorded
  fault (`PassRecords`, `FramesRecord`), and no other frame ends supervision
  (`OthersHold`).

**`BusRouter_proofs`**, for every number of kinds of work and of tokens, every set of
packets and windows: `TypeCorrect`, `OneOwnerAlways`, `ReceiptsAreTrue`,
`MotionAlwaysWaits`, `TurnsAreAlwaysTaken`, `MotionAlwaysInTime`.

- `IInv` ties the UART to the router: `WireIsInFlight` (what is on the wire is the
  current transaction, newer than anything that went out), `EndedIsKnown` (the last
  whole transmission is the current transaction or an older one),
  `ActiveIsUnreceipted`, and `OwedIsHeldBack` (as long as motion has to wait, a stop is
  pending or the router inhibited or the bus faulted, and a fault keeps a stop pending).
  Without them a late report could acknowledge, or a recovery free, a transaction that
  is still on the wire.
- `TurnInv` counts: how often a job was passed over and how many others are still ahead
  of the cursor never exceed the other kinds of motion, because the cursor moves past
  every one that goes first. The set of those ahead loses an element whenever one
  goes, which is all the induction it takes.
- `DeadlineInv` bounds the wait of a queued motion by its turn, the longest transaction and
  the passes between; so no deadline goes half-way round the clock while its job
  waits, where `IsBefore` would take it for one to come. It also needs that a stop
  empties the queue of motion (`StopClears`, `SettledIsEmpty`), since nothing bounds
  how long a stop is pending.

The steps rest on **`BusRules_proofs`**: every call either is cautious (it leaves the
transaction alone and loosens nothing; a job it gives up, or a bus it breaks, holds
motion back), or starts one transaction on a free bus, or ends one whole. That
the search of the queue returns one of its candidates rests on the least-number
principle, from the library's well-founded order of the naturals.
**`ModularTick_proofs`** holds the arithmetic of readings both use.

**`SystemStop_proofs`**: `TypeCorrect`, `ConfirmationIsEarned`, `WrittenZeroIsLast`,
`StopsMotionForGood`. What CONFIRMED proves rests on receipts, a receipt on a
transmission, and a transmission on a launch; the invariant is that chain. `Queues` and
`Lines`: what each router may have queued and each UART on the line, given what was
asked for. `Newer`: a token beyond the stop's mark was launched since the stop
began. `LeftSent`, `LeftReceipt` and their right counterparts: what is out whole is in the
history, and a receipt beyond a mark is of a packet that is. `Done`: after completion
both buses stay silent, so evidence newer than the completion is newer than every
packet. `Still` and `Requested`: behind a zero that went out whole comes no velocity.

**`MobileDrive_proofs`**: `TypeCorrect`, `LatchAlwaysHolds`, `MotionAlwaysInTime`,
`MotionAlwaysRests`. For the latch nothing but types is needed of router and line, and
that is the point: nothing they do matters to it. The other two need `Driven`: a queued
velocity is good for no longer than its command (`GoodFor`, where the deadline is in
microseconds and the command's in milliseconds of another phase), and trusted evidence is as
old as its wrapped reading says (`Dated`), because the reader spoils old evidence once
in every round of the main loop.

**`TaskControl_proofs`**, for any number of tasks, every plan, all timeouts and whatever calls
answer: `TypeCorrect`, `StopIsProved`, `NothingIsSentAfterStop`, `LeaseIsOwned`, and
`TasksShareRobot`: `TaskControl` implements `RobotLease`.

- One lemma says what each call does, in every outcome, raised ones included; calls
  compose as in the code. `Quiet` calls send nothing and leave the owner's record
  alone; `Moves` is a step of the executor, which keeps the task or gives it back.
- `Busy` is at work and not lost: what is proved of goals is proved of those the ports
  still follow, as in `ImplementsRobotLease`. A lost goal is at work for whoever owns the
  robot next (finding 5); the theorems say nothing of it.
- The invariant: `Sound` (a goal whose entry is closed is not at work, a lift that is
  being stopped does not succeed, good evidence means that the lifts stand), `Owning`
  (only the owner is under way, and only the goal the adapter holds can be at work)
  and `Occupied` (a running task holds a goal, and a stop was asked for only by a task
  that is stopping or by its own lift). `ImplementsRobotLease` is not inductive
  without the first: it is the entries the ports keep that tell the adapter that
  nothing is at work any more. `NothingSentAfterStop` needs the last: the lift asks
  for a stop before its task knows.

Every invariant and every action property a passing run checks is stated by one of these
theorems. Only model-checked are the four liveness properties, `MotionEnds`, `TaskEnds`,
`ZeroGetsOut` and `StopIsCarriedOut`: fairness and ENABLED are out of the prover's reach.
That a stopped or silent stream ends is a bound (`EndsOnTime`), and proved.

## 5. Not modelled, and what is next

Hazards without a property, and why:

- `stream_contract_v2.c:293`: each splice is judged against the queue of the moment.
- `stream_executor_v2.c:327`: a planned horizon that falls on tick 0 means "open".
- `binary_control.c:4369`: CLEAR_FAULT in the burst of the frame that latched the stop.
- `binary_control.c:1085`: RIGHT_ARM_DISABLE also ends supervision of the left arm.
- `binary_control.c:4522`: servos that are still energised after a reset.
- `right_servo_bus.c:504`: a servo that took torque but whose readback failed.

For four of them the models contain the behaviour (the first and third to sixth are
what the worlds of `ArmControl`, or the exceptions of a property, name), and no text of the
repository says it should be otherwise.

The map covers a few per cent of the repository's lines. More than four fifths of
those are vendored (HAL, CMSIS), tools, perception and legacy images; of the code
that decides when the robot moves and stops, what is listed below is left. In order:

1. The lift (`lift_controller.c`, `lift_endpoint.c`) in `MobileDrive`: homing, limits,
   stall, completion only after a sent zero and newer evidence.
2. `BimanualDispatch` with tracking feedback: two DMA halves, deadline, telemetry
   owning a bus; `ArmControl`'s `dispatch` is its abstraction (refinement).
3. `HostLink`: receive ring, framing and resynchronisation under overruns and
   interrupts; it justifies the frames of `ArmControl` and `MobileDrive`.
4. `HostStream`: the Python transport and adapter (retry after a lost answer,
   cancel races, the backend lease) composed with the executor's contract.
5. `ControlLoop`: a batch admitted after the tick event it is stepped with is
   "newer than now" for the executor; what that does to an open stream.
6. `DeviceStartup` (boot numbers over resets), `BufferedRoute` (two-phase commit)
   and the pure operators of unwrap, calibration and goal mapping against reference
   definitions.

Their bounds follow the pattern above: one or two actors of each kind, timeouts of
one to three ticks, a modulus of twice the largest age. A run belongs to a
question, not to a module: a component that composes with one already here is
checked in the runs that ask about the composition (the lift in `mobile`, dispatch
and link in `arm_session`), which then replace today's.

Out of reach or without interest: CRC and packet arithmetic (a frame is whole or
reported), servo register sequences, floating-point geometry, perception, language.

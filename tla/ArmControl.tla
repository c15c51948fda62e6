----------------------------- MODULE ArmControl -----------------------------
(***************************************************************************)
(* The supervision of the two arms (binary_control.c, the image that       *)
(* streams to both arms over DMA): host frames, the pass of the main loop, *)
(* the stop latch, the coordinated stop and the watchdog, around the       *)
(* safety state machine and an executor of which only the state is kept.   *)
(* The main loop is one thread: a frame is handled to its end, then comes  *)
(* a service pass.  The control tick, the end of a pair of DMA writes, bus *)
(* errors and the clock come from interrupts and interleave with both.     *)
(***************************************************************************)
EXTENDS SafetyRules

CONSTANTS
    MaxStall,  \* longest time between two service passes
    Worlds     \* the hosts and servos a controller may meet

\* IO_FAILS: servo transactions fail, not only meet a busy bus.
\* RESTARTS: the host prepares a session while a stream still runs.
\* MAINTENANCE: the host sends the one-shot frames of the right arm.
\* PIPELINED: frames arrive without waiting for the answer to the last.
\* BAD_REFERENCES: the host sends references its own encoder would refuse.
World == SUBSET {"IO_FAILS", "RESTARTS", "MAINTENANCE", "PIPELINED", "BAD_REFERENCES"}

ASSUME ArmBoundsAssumption ==
    /\ MaxStall \in Nat \ {0}
    /\ Worlds \subseteq World

\* The timeout after torque was configured or the host last heard, and once
\* more when the reading of an event a whole turn of the clock ago happens to
\* look fresh as the first runs out; each is noticed a pass late at most.
MaxUnattended == 2 * (HeartbeatTimeout + MaxStall)

\* A silence that is followed is shorter than a turn of the clock.
ASSUME ArmClockAssumption == MaxUnattended + MaxStall < TickModulus

VARIABLES
    world,       \* what this host and these servos do, the same for ever
    now,         \* HAL_GetTick()
    ctl,         \* the host_* variables and the servos' torque
    served,      \* a service pass followed the last frame
    unpolled,    \* time since the last service pass
    unattended   \* history: time since the host was heard or torque configured

vars == <<world, now, ctl, served, unpolled, unattended>>

ExecutorState == {"CLOSED", "PRIMING", "RUNNING", "HOLD", "SUCCEEDED", "ABORTED"}

Control ==
    [safety: Safety,
     stopLatched: BOOLEAN,         \* host_stop_latched
     servosConfigured: BOOLEAN,    \* host_binary_servos_configured
     rightOutputActive: BOOLEAN,   \* host_right_arm_output_active
     graceStarted: Tick,           \* host_bimanual_arm_watchdog_grace_started_ms
     lastHeartbeat: Tick,          \* host_binary_last_heartbeat_ms
     everHeartbeat: BOOLEAN,       \* host_binary_heartbeat_count # 0
     stopPending: BOOLEAN,         \* host_v2_coordinated_stop_pending
     startPending: BOOLEAN,        \* host_v2_executor_start_pending
     clockActive: BOOLEAN,         \* host_v2_executor_clock_active
     tick: {"NONE", "PENDING", "MISSED"},     \* control_tick_pending, _missed_count
     dispatch: {"IDLE", "ACTIVE", "FAULTED"}, \* the pair of DMA writes
     executor: ExecutorState,      \* host_v2_stream_executor.diagnostics.state
     anchorReady: BOOLEAN,         \* host_v2_shadow_anchor_ready
     tracking: BOOLEAN,            \* in-motion telemetry owns the right bus
     settling: BOOLEAN,            \* host_v2_terminal_settle_active
     leftOn: BOOLEAN,              \* servos whose torque is not proven off
     rightOn: BOOLEAN,
     goalSent: BOOLEAN,            \* history: the last step sent the arms a goal
     rxFaulted: BOOLEAN]           \* history: a receiver fault, not cleared since

TypeOK ==
    /\ world \in Worlds
    /\ now \in Tick
    /\ ctl \in Control
    /\ served \in BOOLEAN
    /\ unpolled \in 0 .. MaxStall
    /\ unattended \in 0 .. MaxUnattended + 1

Init ==
    /\ world \in Worlds
    /\ now = 0
    /\ ctl = [safety |-> complete_boot(SafetyInit, TRUE),
              stopLatched |-> FALSE, servosConfigured |-> FALSE,
              rightOutputActive |-> FALSE, graceStarted |-> 0, lastHeartbeat |-> 0,
              everHeartbeat |-> FALSE, stopPending |-> FALSE, startPending |-> FALSE,
              clockActive |-> FALSE, tick |-> "NONE", dispatch |-> "IDLE",
              executor |-> "CLOSED", anchorReady |-> FALSE, tracking |-> FALSE,
              settling |-> FALSE, leftOn |-> FALSE, rightOn |-> FALSE,
              goalSent |-> FALSE, rxFaulted |-> FALSE]
    /\ served = TRUE
    /\ unpolled = 0
    /\ unattended = 0

-----------------------------------------------------------------------------
(***************************************************************************)
(* Torque.  Taking torque off one arm blocks the main loop for longer than *)
(* a control tick: six writes, a 5 ms settling delay, six readbacks.  Only *)
(* the right bus refuses at once, while telemetry owns it.                 *)
(***************************************************************************)
LaterTick(t) == IF t = "NONE" THEN "PENDING" ELSE "MISSED"

\* What happens to the servo transactions of one handler: io.left and
\* io.right say whether a disable of that arm would be verified, pending that
\* a telemetry pair is in flight, configure how far a configuration gets.
Io(c) ==
    [left: IF "IO_FAILS" \in world THEN BOOLEAN ELSE {TRUE},
     right: IF "IO_FAILS" \in world THEN BOOLEAN ELSE {TRUE},
     pending: IF c.tracking THEN BOOLEAN ELSE {FALSE},
     configure: IF "IO_FAILS" \in world THEN {"OK", "LEFT_FAILS", "RIGHT_FAILS"} ELSE {"OK"}]

LeftVerifiedOff(c, io) == io.left /\ ~io.pending /\ c.dispatch # "ACTIVE"

RightVerifiedOff(c, io) == io.right /\ ~c.tracking /\ c.dispatch # "ACTIVE"

\* Servo_DisableTorqueAll
DisableLeft(c, io) ==
    [c EXCEPT !.leftOn = @ /\ ~LeftVerifiedOff(c, io), !.tick = LaterTick(@)]

\* RightServoBus_DisableTorqueAll
DisableRight(c, io) ==
    [c EXCEPT !.rightOn = @ /\ ~RightVerifiedOff(c, io),
              !.tick = IF c.tracking THEN @ ELSE LaterTick(@)]

LatchStop(c) == [c EXCEPT !.stopLatched = TRUE]

LatchFault(c) == [LatchStop(c) EXCEPT !.safety = report_fault(@)]

HoldIfMoving(c) ==
    IF accepts_setpoint(c.safety) THEN [c EXCEPT !.safety = request_hold(@)] ELSE c

\* Host_RequestV2CoordinatedStop
RequestCoordinatedStop(c) ==
    [c EXCEPT !.dispatch = "FAULTED", !.stopPending = TRUE, !.startPending = FALSE,
              !.clockActive = FALSE, !.stopLatched = TRUE]

\* Host_PerformV2CoordinatedStop.  Aborting the DMA pair and ending telemetry
\* frees both buses first.
PerformCoordinatedStop(c, dispatchFault, io) ==
    LET quiet == [c EXCEPT !.dispatch = IF dispatchFault \/ @ # "IDLE" THEN "FAULTED" ELSE @,
                           !.tracking = FALSE, !.settling = FALSE,
                           !.servosConfigured = FALSE, !.rightOutputActive = FALSE,
                           !.graceStarted = 0, !.stopPending = FALSE,
                           !.startPending = FALSE, !.stopLatched = TRUE]
        free == [io EXCEPT !.pending = FALSE]
        stopped == DisableRight(DisableLeft(quiet, free), free)
    IN  IF io.left /\ io.right THEN stopped ELSE LatchFault(stopped)

\* Host_ConfigureBimanualForTrajectory: TRUE when torque may be configured.
MayConfigure(c) == ~c.clockActive /\ c.executor \notin {"PRIMING", "RUNNING", "HOLD"}

\* A configuration that fails half-way rolls torque back and ignores the
\* result of doing so.
Configured(c, io) ==
    LET leftFails == io.configure = "LEFT_FAILS" \/ io.pending \/ c.dispatch = "ACTIVE"
        rightFails == io.configure = "RIGHT_FAILS" \/ c.tracking
        rolledBack(d) == DisableRight(DisableLeft(d, io), io)
    IN  IF leftFails THEN rolledBack([c EXCEPT !.leftOn = TRUE])
        ELSE IF rightFails THEN rolledBack([c EXCEPT !.leftOn = TRUE, !.rightOn = TRUE])
        ELSE [c EXCEPT !.leftOn = TRUE, !.rightOn = TRUE, !.servosConfigured = TRUE,
                       !.rightOutputActive = TRUE, !.graceStarted = now]

-----------------------------------------------------------------------------
(***************************************************************************)
(* The service pass.                                                       *)
(***************************************************************************)
\* What the pass finds: a fault of the host transmitter, the outcome of
\* polling telemetry, and how far this control tick's executor step gets.
ServiceInput(c) ==
    [txFault: BOOLEAN,
     feedback: IF ~c.tracking THEN {"NONE"}
               ELSE {"NONE", "FAULT", "TRACKING_ERROR"}
                    \cup (IF c.settling /\ c.dispatch = "IDLE" THEN {"SETTLED"} ELSE {}),
     step: IF ~c.clockActive \/ c.tick # "PENDING" THEN {"OUTPUT"}
           ELSE {"START_FAILS", "OUTPUT", "LAST_OUTPUT", "HOLD", "ABORT", "LAUNCH_FAILS"}]

Silent(c, since) == Elapsed(now, since) > HeartbeatTimeout

\* Mutant: a host that was never heard is not watched.
WatchdogOnceHeard(c) ==
    /\ c.rightOutputActive /\ c.everHeartbeat
    /\ Silent(c, c.graceStarted) /\ Silent(c, c.lastHeartbeat)

WatchdogExpired(c) ==
    /\ c.rightOutputActive
    /\ ~c.everHeartbeat \/ (Silent(c, c.graceStarted) /\ Silent(c, c.lastHeartbeat))

\* BinaryControl_Service up to the watchdog.
ServiceStops(c, in, io) ==
    LET pending == IF c.stopPending \/ c.dispatch = "FAULTED"
                   THEN PerformCoordinatedStop(c, TRUE, io) ELSE c
        heard == IF in.txFault THEN HoldIfMoving(LatchStop(pending)) ELSE pending
        timed == IF heard.everHeartbeat /\ heard.safety.state = "ACTIVE"
                    /\ Silent(heard, heard.lastHeartbeat)
                 THEN LatchStop(heard) ELSE heard
    IN  IF WatchdogExpired(timed) THEN PerformCoordinatedStop(timed, TRUE, io) ELSE timed

\* Mutant: a latched stop is left to the watchdog.
ServiceSafetyOnly(c, io) == [c EXCEPT !.safety = safety_tick(@, now)]

\* The safety tick, and the stop a latch still owes the arms.
ServiceSafety(c, io) ==
    LET ticked == [c EXCEPT !.safety = safety_tick(@, now)]
        held == IF ticked.safety.state = "HOLD" THEN LatchStop(ticked) ELSE ticked
    IN  IF held.stopLatched /\ held.rightOutputActive
        THEN PerformCoordinatedStop(held, TRUE, io) ELSE held

\* Host_ServiceV2TrackingFeedback
ServiceTracking(c, in) ==
    CASE ~c.tracking \/ in.feedback = "NONE" -> c
      [] c.tracking /\ in.feedback = "FAULT" -> RequestCoordinatedStop(c)
      [] c.tracking /\ in.feedback = "TRACKING_ERROR" ->
            RequestCoordinatedStop([c EXCEPT !.executor = "ABORTED"])
      [] c.tracking /\ in.feedback = "SETTLED" ->
            [c EXCEPT !.anchorReady = TRUE, !.settling = FALSE, !.tracking = FALSE]

\* actuator_v2_stream_executor_step at a control tick the bus was ready for;
\* an executor that is not running refuses to step.
StepExecutor(c, step) ==
    CASE step \in {"OUTPUT", "LAST_OUTPUT"} /\ c.executor = "RUNNING" ->
            [c EXCEPT !.dispatch = "ACTIVE", !.goalSent = TRUE,
                      !.executor = IF step = "OUTPUT" THEN @ ELSE "SUCCEEDED",
                      !.clockActive = step = "OUTPUT",
                      !.settling = @ \/ step = "LAST_OUTPUT"]
      [] step \in {"HOLD", "ABORT"} /\ c.executor = "RUNNING" ->
            RequestCoordinatedStop(
                [c EXCEPT !.executor = IF step = "HOLD" THEN "HOLD" ELSE "ABORTED"])
      [] OTHER -> RequestCoordinatedStop(c)

\* The bus and the tick are in a state that allows another output.
TickUsable(c, pending) == c.tick # "MISSED" /\ c.dispatch = "IDLE" /\ ~pending

\* Host_ServiceV2Executor
ServiceExecutor(c, in, io) ==
    IF ~c.clockActive \/ c.tick = "NONE" THEN c
    ELSE LET taken == [c EXCEPT !.tick = "NONE"]
             started == [taken EXCEPT !.executor = "RUNNING", !.startPending = FALSE,
                                      !.anchorReady = FALSE]
         IN  IF ~TickUsable(c, io.pending) THEN RequestCoordinatedStop(taken)
             ELSE IF ~c.startPending THEN StepExecutor(taken, in.step)
             ELSE IF c.executor # "PRIMING" \/ in.step = "START_FAILS"
             THEN RequestCoordinatedStop(taken)
             ELSE StepExecutor(started, in.step)

\* Mutant: the executor is serviced before supervision and the safety tick.
ServiceExecutorFirst(c, in, io) ==
    ServiceSafety(ServiceStops(ServiceTracking(ServiceExecutor(c, in, io), in), in, io), io)

Service(c, in, io) ==
    ServiceExecutor(ServiceTracking(ServiceSafety(ServiceStops(c, in, io), io), in), in, io)

\* One pass of the main loop without a frame.
ServicePass ==
    /\ \E in \in ServiceInput(ctl), io \in Io(ctl) :
          ctl' = Service([ctl EXCEPT !.goalSent = FALSE], in, io)
    /\ served' = TRUE
    /\ unpolled' = 0
    /\ UNCHANGED <<world, now, unattended>>

\* A fault of the host receiver: the stop is latched and served in one pass.
RxFault ==
    /\ \E in \in ServiceInput(ctl), io \in Io(ctl) :
          ctl' = Service(LatchStop(HoldIfMoving(
                     [ctl EXCEPT !.goalSent = FALSE, !.rxFaulted = TRUE])), in, io)
    /\ served' = TRUE
    /\ unpolled' = 0
    /\ UNCHANGED <<world, now, unattended>>

-----------------------------------------------------------------------------
(***************************************************************************)
(* Host frames (Host_ProcessBinaryFrame).  A frame of the wrong length     *)
(* changes nothing and is left out, and so is one with a malformed payload *)
(* but for PREPARE_SHADOW, which acts before it answers.                   *)
(***************************************************************************)
\* A frame leaves c behind.  The bridge sends the next frame once the last is
\* answered, which takes at least one pass of the main loop.
Frame(c) ==
    /\ served \/ "PIPELINED" \in world
    /\ ctl' = c
    /\ served' = FALSE
    /\ UNCHANGED <<world, now, unpolled>>

Current == [ctl EXCEPT !.goalSent = FALSE]

Smaller(a, b) == IF a < b THEN a ELSE b

\* Parsed after its last byte was stamped, in the pass that follows at most.
Heartbeat ==
    \E delay \in 0 .. unpolled :
        LET stamp == Elapsed(now, delay)
        IN  /\ Frame([Current EXCEPT !.lastHeartbeat = stamp, !.everHeartbeat = TRUE,
                                     !.safety = on_heartbeat(@, stamp)])
            /\ unattended' = Smaller(unattended, delay)

\* ARM configures torque before the safety machine judges the request.
Arm ==
    \E io \in Io(ctl), matches \in BOOLEAN :
        LET c == IF ~matches \/ ctl.servosConfigured \/ ~MayConfigure(ctl)
                 THEN Current ELSE Configured(Current, io)
            health == matches => c.servosConfigured
        IN  /\ Frame([c EXCEPT !.safety = request_arm(@, health, matches)])
            /\ unattended' = IF c.servosConfigured /\ ~ctl.servosConfigured
                             THEN 0 ELSE unattended

Enable ==
    /\ Frame([Current EXCEPT !.safety = request_enable(@, now)])
    /\ UNCHANGED unattended

StreamOpen ==
    /\ Frame(IF ctl.executor = "RUNNING" THEN Current
             ELSE [Current EXCEPT !.executor = "PRIMING", !.clockActive = FALSE,
                                  !.startPending = FALSE, !.settling = FALSE])
    /\ UNCHANGED unattended

\* The batch that completes the minimum start samples starts the clock; the
\* executor itself starts at the next control tick.
MayStart(c) ==
    /\ c.executor = "PRIMING" /\ c.anchorReady /\ ~c.tracking
    /\ c.servosConfigured /\ c.rightOutputActive /\ accepts_setpoint(c.safety)

StreamBatch ==
    /\ Frame(IF ~MayStart(ctl) THEN Current
             ELSE [Current EXCEPT !.tracking = TRUE, !.settling = FALSE, !.tick = "NONE",
                                  !.startPending = TRUE, !.clockActive = TRUE])
    /\ UNCHANGED unattended

SafeStop ==
    /\ \E io \in Io(ctl) :
          Frame(PerformCoordinatedStop(LatchStop(HoldIfMoving(Current)), FALSE, io))
    /\ UNCHANGED unattended

\* Clears only while the left arm answers with a legal posture.  Nothing in
\* this program asserts the emergency stop, so clearing is never refused.
ClearFault ==
    /\ \E io \in Io(ctl) :
          LET s == IF ctl.safety.state \in {"FAULT", "ESTOPPED"}
                   THEN clear_latched_stop(ctl.safety, TRUE)
                   ELSE IF ctl.safety.state = "SAFE_DISABLED" THEN ctl.safety
                   ELSE request_disable(ctl.safety)
              readable == io.left /\ ~io.pending /\ ctl.dispatch # "ACTIVE"
          IN  Frame(IF ~ctl.stopLatched \/ ~readable THEN Current
                    ELSE [Current EXCEPT !.safety = s,
                             !.stopLatched = FALSE, !.rxFaulted = FALSE])
    /\ UNCHANGED unattended

Hold ==
    /\ Frame(IF accepts_setpoint(ctl.safety) THEN LatchStop(HoldIfMoving(Current))
             ELSE Current)
    /\ UNCHANGED unattended

\* Mutant: a failed disable of the right arm still ends its supervision.
DisabledAnyway(c, io) ==
    LET left == DisableLeft([c EXCEPT !.servosConfigured = FALSE,
                                      !.safety = IF c.safety.state \in {"FAULT", "ESTOPPED"}
                                                 THEN @ ELSE request_disable(@)], io)
        right == IF c.rightOutputActive THEN DisableRight(left, io) ELSE left
    IN  [right EXCEPT !.rightOutputActive = FALSE]

\* DISABLE takes torque off in every state, off the right arm only while it
\* is supervised.
Disabled(c, io) ==
    LET left == DisableLeft([c EXCEPT !.servosConfigured = FALSE,
                                      !.safety = IF c.safety.state \in {"FAULT", "ESTOPPED"}
                                                 THEN @ ELSE request_disable(@)], io)
        judged == IF LeftVerifiedOff(c, io) THEN left ELSE LatchFault(left)
    IN  IF ~c.rightOutputActive THEN judged
        ELSE IF RightVerifiedOff(c, io)
        THEN [DisableRight(judged, io) EXCEPT !.rightOutputActive = FALSE]
        ELSE LatchFault(DisableRight(judged, io))

Disable ==
    /\ \E io \in Io(ctl) : Frame(Disabled(Current, io))
    /\ UNCHANGED unattended

\* PREPARE_SHADOW takes torque off both arms, but leaves the left arm alone
\* while a stream runs or if it refuses the reference in the frame.  Either
\* way supervision ends.  bound: the postures were read and fit a reference.
Prepared(c, io, refused, bound) ==
    LET leftAlone == refused \/ c.executor = "RUNNING" \/ c.clockActive
        left == IF leftAlone THEN c ELSE DisableLeft(c, io)
        both == [DisableRight(left, io) EXCEPT
                    !.servosConfigured = FALSE, !.rightOutputActive = FALSE]
        ok == /\ ~leftAlone /\ bound
              /\ LeftVerifiedOff(c, io) /\ RightVerifiedOff(c, io)
    IN  IF ok THEN [both EXCEPT !.anchorReady = TRUE]
        ELSE LatchFault([both EXCEPT !.anchorReady = FALSE])

\* A bridge prepares when it starts; only one that restarts meets a stream.
PrepareShadow ==
    /\ \/ ~ctl.clockActive /\ ~ctl.tracking
       \/ "RESTARTS" \in world /\ ctl.executor = "RUNNING"
    /\ \E io \in Io(ctl), bound \in BOOLEAN,
          refused \in IF "BAD_REFERENCES" \in world THEN BOOLEAN ELSE {FALSE} :
          Frame(Prepared(Current, io, refused, bound))
    /\ UNCHANGED unattended

OneShotPermitted(c) ==
    /\ c.safety.state = "SAFE_DISABLED" /\ ~c.stopLatched
    /\ c.everHeartbeat /\ ~Silent(c, c.lastHeartbeat)

\* JOG_ONCE, CONFIGURE_ONCE and TORQUE_ENABLE_ONCE energise the right arm
\* first and mark it active once the servo confirms.
RightArmOneShot ==
    /\ "MAINTENANCE" \in world
    /\ \E confirmed \in IF "IO_FAILS" \in world THEN BOOLEAN ELSE {TRUE} :
          Frame(IF ~OneShotPermitted(ctl) \/ ctl.tracking THEN Current
                ELSE [Current EXCEPT !.rightOn = TRUE,
                         !.rightOutputActive = @ \/ confirmed])
    /\ UNCHANGED unattended

\* Mutant: the answer to RIGHT_ARM_DISABLE is not looked at.
RightArmDisableUnchecked ==
    /\ "MAINTENANCE" \in world
    /\ \E io \in Io(ctl) :
          Frame([DisableRight(Current, io) EXCEPT !.rightOutputActive = FALSE])
    /\ UNCHANGED unattended

RightArmDisable ==
    /\ "MAINTENANCE" \in world
    /\ \E io \in Io(ctl) :
          Frame(IF RightVerifiedOff(Current, io)
                THEN [DisableRight(Current, io) EXCEPT !.rightOutputActive = FALSE]
                ELSE LatchFault(DisableRight(Current, io)))
    /\ UNCHANGED unattended

-----------------------------------------------------------------------------
(***************************************************************************)
(* Interrupts and time.                                                    *)
(***************************************************************************)
Interrupt(c) == ctl' = c /\ UNCHANGED <<world, now, served, unpolled, unattended>>

\* ControlTick_OnInterrupt
ControlTick ==
    ctl.tick # "MISSED" /\ Interrupt([Current EXCEPT !.tick = LaterTick(@)])

\* Both halves of the pair of writes are out.
PairCompletes ==
    ctl.dispatch = "ACTIVE" /\ Interrupt([Current EXCEPT !.dispatch = "IDLE"])

\* A servo bus error aborts the pair and is never forgiven.
BusError ==
    ctl.dispatch = "ACTIVE" /\ Interrupt([Current EXCEPT !.dispatch = "FAULTED"])

Advance ==
    /\ unpolled < MaxStall
    /\ now' = Plus(now, 1)
    /\ unpolled' = unpolled + 1
    /\ unattended' = Smaller(unattended + 1, MaxUnattended + 1)
    /\ ctl' = Current
    /\ UNCHANGED <<world, served>>

Next ==
    \/ ServicePass \/ RxFault
    \/ Heartbeat \/ Arm \/ Enable \/ StreamOpen \/ StreamBatch
    \/ SafeStop \/ ClearFault \/ Hold \/ Disable \/ PrepareShadow
    \/ RightArmOneShot \/ RightArmDisable
    \/ ControlTick \/ PairCompletes \/ BusError \/ Advance

Spec == Init /\ [][Next]_vars

-----------------------------------------------------------------------------
(***************************************************************************)
(* Properties.                                                             *)
(***************************************************************************)
TorqueOn == ctl.leftOn \/ ctl.rightOn

\* Servo transactions work, torque is the sessions' alone, and the host
\* prepares a session with a reference the controller accepts and never in
\* mid-stream.  A PREPARE_SHADOW that is refused, for its reference or for the
\* stream it meets, takes torque off the right arm only and ends the
\* supervision of both: the left arm then stays energised behind a latched
\* stop, for as long as the host leaves it so.
Plain == world \cap {"IO_FAILS", "MAINTENANCE", "RESTARTS", "BAD_REFERENCES"} = {}

\* A pair of goals reaches the servos only from a pass that found the stop
\* unlatched, the session active and both arms configured and supervised,
\* whatever frames, faults and late ticks came since the stream started, if
\* the host waits for its answers and does not prepare in mid-stream.
GoalsAuthorised ==
    ctl.goalSent /\ world \cap {"PIPELINED", "RESTARTS"} = {} =>
        /\ ~ctl.stopLatched
        /\ accepts_setpoint(ctl.safety)
        /\ ctl.servosConfigured /\ ctl.rightOutputActive

\* In a plain world a latched stop has taken torque off both arms once the
\* main loop has passed, or is about to: no order of frames and faults loses
\* it.
StopTakesEffect ==
    Plain /\ served /\ ctl.stopLatched => ~TorqueOn \/ ctl.stopPending

\* In a plain world arms left alone lose torque, even if the host was never
\* heard, vanished while torque was being configured, or falls silent for
\* turns of the clock.
UnattendedArmsLoseTorque == Plain /\ TorqueOn => unattended <= MaxUnattended

\* The watchdog and the frames of a session let go of arms that may still be
\* energised, servo transactions having failed, only with the fault recorded
\* and the stop latched.
SupervisionNotDroppedSilently ==
    [][ ctl.rightOutputActive /\ ~ctl'.rightOutputActive /\ TorqueOn'
            /\ "MAINTENANCE" \notin world =>
            ctl'.stopLatched /\ ctl'.safety.state = "FAULT" ]_vars

\* Torque that a frame put on the right arm, one of maintenance or of a
\* session, is watched, while servo transactions work, whatever references
\* the host sends.
RightArmSupervised ==
    ctl.rightOn /\ "IO_FAILS" \notin world => ctl.rightOutputActive

\* "Every reported RX fault invalidates the parser and must fail closed": the
\* arms get no further goal until the host has cleared the stop.
RxFaultFailsClosed == ctl.rxFaulted => ~ctl.goalSent

\* "every servo must report Torque Enable == 0 or the caller latches the
\* existing fault": an arming that fails and leaves torque unproven latches
\* the stop or a fault.
FailedDisableLatches ==
    [][ Arm /\ ~ctl'.servosConfigured /\ TorqueOn' =>
            ctl'.stopLatched \/ ctl'.safety.state = "FAULT" ]_vars
=============================================================================

-------------------------- MODULE Supervision_proofs --------------------------
(***************************************************************************)
(* Proofs about the supervision of the arms: first the safety state        *)
(* machine under any caller, then the program that calls it, with its      *)
(* watchdog, its stop latch and its coordinated stop.  They share the      *)
(* clock and the calls of the machine; each has its own variables and      *)
(* specification.                                                          *)
(***************************************************************************)
EXTENDS ActuatorSafety, ArmControl, ModularTick_proofs

-----------------------------------------------------------------------------
(***************************************************************************)
(* The safety state machine under any caller.  What the code keeps about   *)
(* the host is a reading of a clock that wraps; the invariant ties that    *)
(* reading to the true age of the heartbeat.                               *)
(***************************************************************************)
\* The machine's heartbeat reading tells the true age of this session's
\* heartbeat, and there is one exactly when heartbeat_seen says so.
HeartbeatIsAge ==
    IF safety.heartbeat_seen
    THEN age # Never /\ Elapsed(clock, safety.last_heartbeat_ms) = age
    ELSE age = Never

\* No state is ACTIVE on a heartbeat of an earlier session.
ActiveHasHeartbeat == safety.state = "ACTIVE" => safety.heartbeat_seen

\* The inductive invariant of the machine.
MachineInv ==
    /\ MachineTypeOK
    /\ EstopDominates
    /\ TorqueAuthority
    /\ HeartbeatIsAge
    /\ ActiveHasHeartbeat
    /\ ActiveMeansHeard

USE DEF Never

\* The machine powers up in BOOT, unheard, with torque refused.
LEMMA MachineInvInit == MachineInit => MachineInv
BY MachineAssumption, TickModulusAssumption
   DEF MachineInit, SafetyInit, MachineInv, MachineTypeOK, Safety, SafetyState, Tick,
       EstopDominates, TorqueAuthority, accepts_setpoint, HeartbeatIsAge, ActiveHasHeartbeat,
       ActiveMeansHeard

\* A call that keeps the heartbeat and does not enter ACTIVE keeps what is
\* known about the heartbeat.
LEMMA HeartbeatKept ==
    ASSUME MachineInv, UNCHANGED <<clock, unticked, age>>,
           safety'.heartbeat_seen = safety.heartbeat_seen,
           safety'.last_heartbeat_ms = safety.last_heartbeat_ms,
           safety'.state = "ACTIVE" => safety.state = "ACTIVE"
    PROVE  HeartbeatIsAge' /\ ActiveHasHeartbeat' /\ ActiveMeansHeard'
BY DEF MachineInv, HeartbeatIsAge, ActiveHasHeartbeat, ActiveMeansHeard

\* A call that forgets the heartbeat leaves the machine unheard and inactive.
LEMMA HeartbeatForgotten ==
    ASSUME age' = Never, ~safety'.heartbeat_seen, safety'.state = "SAFE_DISABLED"
    PROVE  HeartbeatIsAge' /\ ActiveHasHeartbeat' /\ ActiveMeansHeard'
BY DEF HeartbeatIsAge, ActiveHasHeartbeat, ActiveMeansHeard

\* Every call, the safety tick and the passage of time preserve it.
LEMMA MachineInvNext == MachineInv /\ [MachineNext]_machine_vars => MachineInv'
<1> SUFFICES ASSUME MachineInv, [MachineNext]_machine_vars PROVE MachineInv'
  OBVIOUS
<1> USE DEF MachineInv, MachineTypeOK, Safety, SafetyState, EstopDominates, TorqueAuthority,
            accepts_setpoint, Call
<1>1. CASE CompleteBoot
  <2>1. PICK health \in BOOLEAN : Call(complete_boot(safety, health), age)
    BY <1>1 DEF CompleteBoot
  <2>2. HeartbeatIsAge' /\ ActiveHasHeartbeat' /\ ActiveMeansHeard'
    BY <2>1, HeartbeatKept DEF complete_boot
  <2> QED
    BY <2>1, <2>2 DEF complete_boot
<1>2. CASE OnHeartbeat
  <2>1. PICK delay \in 0 .. MaxTickGap :
          /\ age # Never => delay <= age
          /\ safety' = on_heartbeat(safety, Elapsed(clock, delay))
          /\ age' = delay
          /\ UNCHANGED <<clock, unticked>>
    BY <1>2 DEF OnHeartbeat
  <2>2. delay \in Tick /\ delay \in 0 .. MaxSilence
    BY MachineAssumption, HeartbeatTimeoutAssumption, TickModulusAssumption DEF Tick
  <2>3. Elapsed(clock, delay) \in Tick /\ Elapsed(clock, Elapsed(clock, delay)) = delay
    BY <2>2, ReadingsInTick, StampAge DEF Tick
  <2>4. safety' = [safety EXCEPT !.last_heartbeat_ms = Elapsed(clock, delay),
                                 !.heartbeat_seen = TRUE]
    BY <2>1 DEF on_heartbeat
  <2>5. MachineTypeOK' /\ EstopDominates' /\ TorqueAuthority'
    BY <2>1, <2>2, <2>3, <2>4
  <2>6. HeartbeatIsAge' /\ ActiveHasHeartbeat'
    BY <2>1, <2>3, <2>4 DEF HeartbeatIsAge, ActiveHasHeartbeat
  <2>7. ActiveMeansHeard'
    <3>1. delay # Never /\ delay <= HeartbeatTimeout + unticked
      BY MachineAssumption, HeartbeatTimeoutAssumption
    <3> QED
      BY <2>1, <3>1 DEF ActiveMeansHeard
  <2> QED
    BY <2>5, <2>6, <2>7
<1>3. CASE RequestArm
  <2>1. PICK health \in BOOLEAN, matches \in BOOLEAN :
          Call(request_arm(safety, health, matches), age)
    BY <1>3 DEF RequestArm
  <2>2. HeartbeatIsAge' /\ ActiveHasHeartbeat' /\ ActiveMeansHeard'
    BY <2>1, HeartbeatKept DEF request_arm, ArmPermitted
  <2> QED
    BY <2>1, <2>2 DEF request_arm, ArmPermitted
<1>4. CASE RequestEnable
  <2>1. CASE ~EnablePermitted(safety, clock)
    <3>1. UNCHANGED machine_vars
      BY <1>4, <2>1 DEF RequestEnable, request_enable, machine_vars
    <3> QED
      BY <3>1 DEF machine_vars, HeartbeatIsAge, ActiveHasHeartbeat, ActiveMeansHeard
  <2>2. CASE EnablePermitted(safety, clock)
    <3>1. /\ safety' = [safety EXCEPT !.state = "ACTIVE",
                                      !.torque_disable_requested = FALSE]
          /\ UNCHANGED <<clock, unticked, age>>
      BY <1>4, <2>2 DEF RequestEnable, request_enable
    <3>2. /\ ~safety.estop_asserted
          /\ safety.heartbeat_seen
          /\ Elapsed(clock, safety.last_heartbeat_ms) <= HeartbeatTimeout
      BY <2>2 DEF EnablePermitted, HeartbeatFresh
    <3>3. MachineTypeOK' /\ EstopDominates' /\ TorqueAuthority'
      BY <3>1, <3>2
    <3>4. HeartbeatIsAge' /\ ActiveHasHeartbeat'
      BY <3>1, <3>2 DEF HeartbeatIsAge, ActiveHasHeartbeat
    <3>5. ActiveMeansHeard'
      BY <3>1, <3>2, HeartbeatTimeoutAssumption, MachineAssumption
         DEF HeartbeatIsAge, ActiveMeansHeard
    <3> QED
      BY <3>3, <3>4, <3>5
  <2> QED
    BY <2>1, <2>2
<1>5. CASE RequestHold
  <2>1. HeartbeatIsAge' /\ ActiveHasHeartbeat' /\ ActiveMeansHeard'
    BY <1>5, HeartbeatKept DEF RequestHold, request_hold
  <2> QED
    BY <1>5, <2>1 DEF RequestHold, request_hold
<1>6. CASE RequestDisable
  <2>1. CASE request_disable(safety) = safety
    <3>1. UNCHANGED machine_vars
      BY <1>6, <2>1 DEF RequestDisable, EndSession, machine_vars
    <3> QED
      BY <3>1 DEF machine_vars, HeartbeatIsAge, ActiveHasHeartbeat, ActiveMeansHeard
  <2>2. CASE request_disable(safety) # safety
    <3>1. /\ safety' = [safety EXCEPT !.state = "SAFE_DISABLED",
                                      !.torque_disable_requested = TRUE,
                                      !.heartbeat_seen = FALSE]
          /\ safety.state # "ESTOPPED"
          /\ age' = Never
          /\ UNCHANGED <<clock, unticked>>
      BY <1>6, <2>2 DEF RequestDisable, EndSession, request_disable
    <3>2. HeartbeatIsAge' /\ ActiveHasHeartbeat' /\ ActiveMeansHeard'
      BY <3>1, HeartbeatForgotten
    <3> QED
      BY <3>1, <3>2
  <2> QED
    BY <2>1, <2>2
<1>7. CASE ReportFault
  <2>1. HeartbeatIsAge' /\ ActiveHasHeartbeat' /\ ActiveMeansHeard'
    BY <1>7, HeartbeatKept DEF ReportFault, report_fault
  <2> QED
    BY <1>7, <2>1 DEF ReportFault, report_fault
<1>8. CASE SetEstop
  <2>1. PICK asserted \in BOOLEAN : Call(set_estop(safety, asserted), age)
    BY <1>8 DEF SetEstop
  <2>2. HeartbeatIsAge' /\ ActiveHasHeartbeat' /\ ActiveMeansHeard'
    BY <2>1, HeartbeatKept DEF set_estop
  <2> QED
    BY <2>1, <2>2 DEF set_estop
<1>9. CASE ClearLatchedStop
  <2>1. PICK health \in BOOLEAN : EndSession(clear_latched_stop(safety, health))
    BY <1>9 DEF ClearLatchedStop
  <2>2. CASE clear_latched_stop(safety, health) = safety
    <3>1. UNCHANGED machine_vars
      BY <2>1, <2>2 DEF EndSession, machine_vars
    <3> QED
      BY <3>1 DEF machine_vars, HeartbeatIsAge, ActiveHasHeartbeat, ActiveMeansHeard
  <2>3. CASE clear_latched_stop(safety, health) # safety
    <3>1. /\ safety' = [safety EXCEPT !.state = "SAFE_DISABLED",
                                      !.heartbeat_seen = FALSE,
                                      !.torque_disable_requested = TRUE]
          /\ ~safety.estop_asserted
          /\ age' = Never
          /\ UNCHANGED <<clock, unticked>>
      BY <2>1, <2>3 DEF EndSession, clear_latched_stop
    <3>2. HeartbeatIsAge' /\ ActiveHasHeartbeat' /\ ActiveMeansHeard'
      BY <3>1, HeartbeatForgotten
    <3> QED
      BY <3>1, <3>2
  <2> QED
    BY <2>2, <2>3
<1>10. CASE SafetyTick
  <2>1. /\ safety' = safety_tick(safety, clock)
        /\ unticked' = 0
        /\ UNCHANGED <<clock, age>>
    BY <1>10 DEF SafetyTick
  <2>2. MachineTypeOK' /\ EstopDominates' /\ TorqueAuthority'
    BY <2>1, MachineAssumption DEF safety_tick
  <2>3. HeartbeatIsAge' /\ ActiveHasHeartbeat'
    BY <2>1 DEF safety_tick, HeartbeatIsAge, ActiveHasHeartbeat
  <2>4. safety'.state = "ACTIVE" =>
          safety.heartbeat_seen /\ Elapsed(clock, safety.last_heartbeat_ms) <= HeartbeatTimeout
    BY <2>1 DEF safety_tick, HeartbeatFresh
  <2>5. ActiveMeansHeard'
    BY <2>1, <2>4, HeartbeatTimeoutAssumption DEF HeartbeatIsAge, ActiveMeansHeard
  <2> QED
    BY <2>2, <2>3, <2>5
<1>11. CASE ClockAdvances
  <2>1. /\ unticked < MaxTickGap
        /\ age < MaxSilence
        /\ clock' = Plus(clock, 1)
        /\ unticked' = unticked + 1
        /\ age' = IF age = Never THEN Never ELSE age + 1
        /\ UNCHANGED safety
    BY <1>11 DEF ClockAdvances
  <2>2. MachineTypeOK' /\ EstopDominates' /\ TorqueAuthority'
    BY <2>1, ReadingsInTick, MachineAssumption, HeartbeatTimeoutAssumption DEF Tick
  <2>3. HeartbeatIsAge'
    <3>1. CASE ~safety.heartbeat_seen
      BY <2>1, <3>1 DEF HeartbeatIsAge
    <3>2. CASE safety.heartbeat_seen
      <4>1. /\ age # Never
            /\ Elapsed(clock, safety.last_heartbeat_ms) = age
            /\ age + 1 < TickModulus
        BY <2>1, <3>2, MachineAssumption, TickModulusAssumption DEF HeartbeatIsAge
      <4>2. Elapsed(clock', safety.last_heartbeat_ms) = age + 1
        BY <2>1, <4>1, ReadingAges
      <4> QED
        BY <2>1, <3>2, <4>1, <4>2 DEF HeartbeatIsAge
    <3> QED
      BY <3>1, <3>2
  <2>4. ActiveHasHeartbeat' /\ ActiveMeansHeard'
    BY <2>1, HeartbeatTimeoutAssumption, MachineAssumption
       DEF ActiveHasHeartbeat, ActiveMeansHeard
  <2> QED
    BY <2>2, <2>3, <2>4
<1>12. CASE UNCHANGED machine_vars
  BY <1>12 DEF machine_vars, HeartbeatIsAge, ActiveHasHeartbeat, ActiveMeansHeard
<1> QED
  BY <1>1, <1>2, <1>3, <1>4, <1>5, <1>6, <1>7, <1>8, <1>9, <1>10, <1>11, <1>12 DEF MachineNext

\* Every reachable state of the machine satisfies it.
LEMMA MachineInvHolds == MachineSpec => []MachineInv
BY MachineInvInit, MachineInvNext, PTL DEF MachineSpec

-----------------------------------------------------------------------------
(***************************************************************************)
(* The theorems about the machine.                                         *)
(***************************************************************************)
\* Every field of the safety record keeps its range.
THEOREM MachineTypeCorrect == MachineSpec => []MachineTypeOK
<1>1. MachineInv => MachineTypeOK
  BY DEF MachineInv
<1> QED
  BY <1>1, MachineInvHolds, PTL

\* An asserted emergency stop wins over every other call (set_estop,
\* report_fault, request_arm, clear_latched_stop).
THEOREM EstopAlwaysDominates == MachineSpec => []EstopDominates
<1>1. MachineInv => EstopDominates
  BY DEF MachineInv
<1> QED
  BY <1>1, MachineInvHolds, PTL

\* Torque is requested only between an enable and whatever ends it, and
\* ACTIVE always accepts setpoints.
THEOREM TorqueNeedsAuthority == MachineSpec => []TorqueAuthority
<1>1. MachineInv => TorqueAuthority
  BY DEF MachineInv
<1> QED
  BY <1>1, MachineInvHolds, PTL

\* ACTIVE lasts no longer than the heartbeat timeout and one pass of the
\* main loop after the host was last heard.
THEOREM ActiveOnlyWhileHeard == MachineSpec => []ActiveMeansHeard
<1>1. MachineInv => ActiveMeansHeard
  BY DEF MachineInv
<1> QED
  BY <1>1, MachineInvHolds, PTL

\* Every way back to motion passes through arming.
THEOREM ActiveOnlyThroughArming == MachineSpec => NoShortCutToActive
<1>1. MachineInv /\ [MachineNext]_machine_vars =>
        [ /\ safety'.state = "ACTIVE" => safety.state \in {"ARMED", "ACTIVE"}
          /\ safety.state \in {"FAULT", "ESTOPPED"} =>
               safety'.state \in {"FAULT", "ESTOPPED", "SAFE_DISABLED"} ]_machine_vars
  <2> SUFFICES ASSUME MachineInv, [MachineNext]_machine_vars, ~UNCHANGED machine_vars
               PROVE  /\ safety'.state = "ACTIVE" => safety.state \in {"ARMED", "ACTIVE"}
                      /\ safety.state \in {"FAULT", "ESTOPPED"} =>
                           safety'.state \in {"FAULT", "ESTOPPED", "SAFE_DISABLED"}
    OBVIOUS
  <2> USE DEF MachineInv, MachineTypeOK, Safety, SafetyState, Call, EndSession
  <2>1. CASE CompleteBoot \/ RequestArm \/ RequestEnable \/ RequestHold
    BY <2>1 DEF CompleteBoot, complete_boot, RequestArm, request_arm, ArmPermitted,
                RequestEnable, request_enable, EnablePermitted, RequestHold, request_hold
  <2>2. CASE RequestDisable \/ ReportFault \/ SetEstop \/ ClearLatchedStop
    BY <2>2 DEF RequestDisable, request_disable, ReportFault, report_fault,
                SetEstop, set_estop, ClearLatchedStop, clear_latched_stop
  <2>3. CASE OnHeartbeat \/ SafetyTick \/ ClockAdvances
    BY <2>3 DEF OnHeartbeat, on_heartbeat, SafetyTick, safety_tick, ClockAdvances
  <2> QED
    BY <2>1, <2>2, <2>3 DEF MachineNext
<1> QED
  BY <1>1, MachineInvHolds, PTL DEF MachineSpec, NoShortCutToActive

HIDE DEF Never

-----------------------------------------------------------------------------
(***************************************************************************)
(* The safety machine as the arms call it.  Nothing asserts the emergency  *)
(* stop, so a fault is always recorded and clearing is never refused.      *)
(***************************************************************************)
Calm(s) == s \in Safety /\ ~s.estop_asserted

\* Every call keeps the record in range and the emergency stop unasserted.
LEMMA SafetyCalls ==
    ASSUME NEW s, Calm(s), NEW t \in Tick, NEW h \in BOOLEAN, NEW m \in BOOLEAN
    PROVE  /\ Calm(on_heartbeat(s, t)) /\ Calm(request_arm(s, h, m))
           /\ Calm(request_enable(s, t)) /\ Calm(request_hold(s))
           /\ Calm(request_disable(s)) /\ Calm(report_fault(s))
           /\ Calm(clear_latched_stop(s, h)) /\ Calm(safety_tick(s, t))
<1> USE DEF Calm, Safety, SafetyState
<1>1. Calm(on_heartbeat(s, t))
  BY DEF on_heartbeat
<1>2. Calm(request_arm(s, h, m))
  BY DEF request_arm
<1>3. Calm(request_enable(s, t))
  BY DEF request_enable
<1>4. Calm(request_hold(s))
  BY DEF request_hold
<1>5. Calm(request_disable(s))
  BY DEF request_disable
<1>6. Calm(report_fault(s))
  BY DEF report_fault
<1>7. Calm(clear_latched_stop(s, h))
  BY DEF clear_latched_stop
<1>8. Calm(safety_tick(s, t))
  BY DEF safety_tick
<1> QED
  BY <1>1, <1>2, <1>3, <1>4, <1>5, <1>6, <1>7, <1>8

\* A fault is recorded; what accepts goals goes on doing so through requests
\* to arm and to enable, and through heartbeats; a tick only takes it away.
LEMMA SafetyAnswers ==
    ASSUME NEW s, Calm(s), NEW t \in Tick, NEW h \in BOOLEAN, NEW m \in BOOLEAN
    PROVE  /\ report_fault(s).state = "FAULT"
           /\ safety_tick(s, t) = s \/ safety_tick(s, t).state = "HOLD"
           /\ s.state = "FAULT" => safety_tick(s, t) = s /\ ~accepts_setpoint(s)
           /\ accepts_setpoint(s) =>
                /\ accepts_setpoint(on_heartbeat(s, t))
                /\ request_arm(s, h, m) = s /\ request_enable(s, t) = s
<1> USE DEF Calm, Safety, SafetyState
<1>1. report_fault(s).state = "FAULT"
  BY DEF report_fault
<1>2. safety_tick(s, t) = s \/ safety_tick(s, t).state = "HOLD"
  BY DEF safety_tick
<1>3. s.state = "FAULT" => safety_tick(s, t) = s /\ ~accepts_setpoint(s)
  BY DEF safety_tick, accepts_setpoint
<1>4. accepts_setpoint(s) => accepts_setpoint(on_heartbeat(s, t))
  BY DEF accepts_setpoint, on_heartbeat
<1>5. accepts_setpoint(s) => request_arm(s, h, m) = s /\ request_enable(s, t) = s
  BY DEF accepts_setpoint, request_arm, ArmPermitted, request_enable, EnablePermitted
<1> QED
  BY <1>1, <1>2, <1>3, <1>4, <1>5

-----------------------------------------------------------------------------
(***************************************************************************)
(* What the operators do to the control record, in parts.                  *)
(***************************************************************************)
\* The supervision of the arms and what was heard of the host stay.
SameWatch(c, d) ==
    /\ d.servosConfigured = c.servosConfigured /\ d.rightOutputActive = c.rightOutputActive
    /\ d.graceStarted = c.graceStarted
    /\ d.lastHeartbeat = c.lastHeartbeat /\ d.everHeartbeat = c.everHeartbeat

\* The stream, its pair of writes and telemetry stay as they are.
SameStream(c, d) ==
    /\ d.clockActive = c.clockActive /\ d.dispatch = c.dispatch
    /\ d.executor = c.executor /\ d.tracking = c.tracking /\ d.settling = c.settling

\* The tick is none earlier.
LaterOrSame(c, d) == c.tick = "MISSED" => d.tick = "MISSED"

\* Safety machine, latch, and what is pending or sent stay.
SameStop(c, d) ==
    /\ d.safety = c.safety /\ d.stopLatched = c.stopLatched
    /\ d.stopPending = c.stopPending /\ d.goalSent = c.goalSent

\* The torque of neither arm changes.
SamePower(c, d) == d.leftOn = c.leftOn /\ d.rightOn = c.rightOn

\* What can become of the servo transactions of one handler.
Transactions ==
    [left: BOOLEAN, right: BOOLEAN, pending: BOOLEAN,
     configure: {"OK", "LEFT_FAILS", "RIGHT_FAILS"}]

\* What a handler meets on the buses; only a failing world refuses a disable,
\* and only telemetry has a pair in flight.
LEMMA IoOutcomes ==
    ASSUME NEW c \in Control, NEW io \in Io(c)
    PROVE  /\ io \in Transactions
           /\ io.pending => c.tracking
           /\ "IO_FAILS" \notin world => io.left /\ io.right /\ io.configure = "OK"
<1>1. c.tracking \in BOOLEAN
  BY DEF Control
<1> QED
  BY <1>1 DEF Io, Transactions

\* Servo_DisableTorqueAll touches the torque of its arm, which only a verified
\* disable takes off, and the tick it outlasts.
LEMMA LeftDisabled ==
    ASSUME NEW c \in Control, NEW io \in Transactions, NEW d, d = DisableLeft(c, io)
    PROVE  /\ d \in Control
           /\ SameWatch(c, d) /\ SameStream(c, d) /\ SameStop(c, d)
           /\ d.rightOn = c.rightOn
           /\ d.leftOn = (c.leftOn /\ ~LeftVerifiedOff(c, io))
           /\ d.tick # "NONE" /\ (c.tick # "NONE" => d.tick = "MISSED")
<1>1. /\ LaterTick(c.tick) \in {"PENDING", "MISSED"}
      /\ c.tick # "NONE" => LaterTick(c.tick) = "MISSED"
  BY DEF LaterTick
<1>2. /\ c.leftOn \in BOOLEAN
      /\ (c.leftOn /\ ~LeftVerifiedOff(c, io)) \in BOOLEAN
  BY DEF Control
<1> DEFINE on == c.leftOn /\ ~LeftVerifiedOff(c, io)
           t == LaterTick(c.tick)
<1>3. d = [c EXCEPT !.leftOn = on, !.tick = t]
  BY DEF DisableLeft
<1> HIDE DEF on, t
<1>4. d \in Control
  BY <1>1, <1>2, <1>3 DEF Control, on, t
<1>5. /\ d.leftOn = on /\ d.tick = t /\ d.rightOn = c.rightOn
      /\ SameWatch(c, d) /\ SameStream(c, d) /\ SameStop(c, d)
  BY <1>3 DEF Control, SameWatch, SameStream, SameStop
<1> QED
  BY <1>1, <1>4, <1>5 DEF on, t

\* RightServoBus_DisableTorqueAll does the same for the right arm, unless
\* telemetry owns its bus: then it refuses at once.
LEMMA RightDisabled ==
    ASSUME NEW c \in Control, NEW io \in Transactions, NEW d, d = DisableRight(c, io)
    PROVE  /\ d \in Control
           /\ SameWatch(c, d) /\ SameStream(c, d) /\ SameStop(c, d)
           /\ d.leftOn = c.leftOn
           /\ d.rightOn = (c.rightOn /\ ~RightVerifiedOff(c, io))
           /\ c.tracking => d.tick = c.tick
           /\ LaterOrSame(c, d)
           /\ ~c.tracking => d.tick # "NONE" /\ (c.tick # "NONE" => d.tick = "MISSED")
<1>1. /\ LaterTick(c.tick) \in {"PENDING", "MISSED"}
      /\ c.tick # "NONE" => LaterTick(c.tick) = "MISSED"
  BY DEF LaterTick
<1>2. /\ c.rightOn \in BOOLEAN /\ c.tracking \in BOOLEAN
      /\ (c.rightOn /\ ~RightVerifiedOff(c, io)) \in BOOLEAN
      /\ c.tick \in {"NONE", "PENDING", "MISSED"}
  BY DEF Control
<1> DEFINE on == c.rightOn /\ ~RightVerifiedOff(c, io)
           t == IF c.tracking THEN c.tick ELSE LaterTick(c.tick)
<1>3. d = [c EXCEPT !.rightOn = on, !.tick = t]
  BY DEF DisableRight
<1>t. t \in {"NONE", "PENDING", "MISSED"}
  BY <1>1, <1>2
<1> HIDE DEF on, t
<1>4. d \in Control
  BY <1>t, <1>2, <1>3 DEF Control, on
<1>5. /\ d.rightOn = on /\ d.tick = t /\ d.leftOn = c.leftOn
      /\ SameWatch(c, d) /\ SameStream(c, d) /\ SameStop(c, d)
  BY <1>3 DEF Control, SameWatch, SameStream, SameStop
<1> QED
  BY <1>1, <1>2, <1>4, <1>5 DEF on, t, LaterOrSame

\* Latching a stop changes nothing but the latch.
LEMMA StopLatches ==
    ASSUME NEW c \in Control, NEW d, d = LatchStop(c)
    PROVE  /\ d \in Control
           /\ SameWatch(c, d) /\ SameStream(c, d) /\ SamePower(c, d) /\ d.tick = c.tick
           /\ d.stopLatched
           /\ d.safety = c.safety /\ d.stopPending = c.stopPending /\ d.goalSent = c.goalSent
<1>1. d \in Control
  BY DEF Control, LatchStop
<1> QED
  BY <1>1 DEF Control, LatchStop, SameWatch, SameStream, SamePower

\* Latching a fault also records it, as no emergency stop is asserted.
LEMMA FaultLatches ==
    ASSUME NEW c \in Control, Calm(c.safety), NEW d, d = LatchFault(c)
    PROVE  /\ d \in Control
           /\ SameWatch(c, d) /\ SameStream(c, d) /\ SamePower(c, d) /\ d.tick = c.tick
           /\ d.stopLatched /\ Calm(d.safety) /\ d.safety.state = "FAULT"
           /\ d.stopPending = c.stopPending /\ d.goalSent = c.goalSent
<1> DEFINE s == report_fault(c.safety)
<1>1. Calm(s) /\ s \in Safety /\ s.state = "FAULT"
  <2>1. 0 \in Tick
    BY TickModulusAssumption DEF Tick
  <2> QED
    BY <2>1, SafetyCalls, SafetyAnswers, Zenon DEF Calm
<1>2. d = [c EXCEPT !.stopLatched = TRUE, !.safety = s]
  BY DEF Control, LatchFault, LatchStop
<1> HIDE DEF s
<1>3. d \in Control
  BY <1>1, <1>2 DEF Control
<1>4. /\ SameWatch(c, d) /\ SameStream(c, d) /\ SamePower(c, d) /\ d.tick = c.tick
      /\ d.stopLatched /\ d.safety = s
      /\ d.stopPending = c.stopPending /\ d.goalSent = c.goalSent
  BY <1>2 DEF Control, SameWatch, SameStream, SamePower
<1> QED
  BY <1>1, <1>3, <1>4

\* A hold touches the safety machine alone and does not undo a fault.
LEMMA MovingHeld ==
    ASSUME NEW c \in Control, Calm(c.safety), NEW d, d = HoldIfMoving(c)
    PROVE  /\ d \in Control
           /\ SameWatch(c, d) /\ SameStream(c, d) /\ SamePower(c, d) /\ d.tick = c.tick
           /\ Calm(d.safety) /\ (c.safety.state = "FAULT" => d.safety.state = "FAULT")
           /\ d.stopLatched = c.stopLatched /\ d.stopPending = c.stopPending
           /\ d.goalSent = c.goalSent
<1> DEFINE s == request_hold(c.safety)
<1>1. Calm(s) /\ s \in Safety
  <2>1. 0 \in Tick
    BY TickModulusAssumption DEF Tick
  <2> QED
    BY <2>1, SafetyCalls, Zenon DEF Calm
<1>2. CASE ~accepts_setpoint(c.safety)
  BY <1>2 DEF HoldIfMoving, SameWatch, SameStream, SamePower
<1>3. CASE accepts_setpoint(c.safety)
  <2>1. d = [c EXCEPT !.safety = s] /\ c.safety.state = "ACTIVE"
    BY <1>3 DEF HoldIfMoving, accepts_setpoint
  <2> HIDE DEF s
  <2>2. d \in Control
    BY <1>1, <2>1 DEF Control
  <2>3. /\ SameWatch(c, d) /\ SameStream(c, d) /\ SamePower(c, d) /\ d.tick = c.tick
        /\ d.safety = s /\ d.stopLatched = c.stopLatched
        /\ d.stopPending = c.stopPending /\ d.goalSent = c.goalSent
    BY <2>1 DEF Control, SameWatch, SameStream, SamePower
  <2> QED
    BY <1>1, <2>1, <2>2, <2>3
<1> QED
  BY <1>2, <1>3

\* Host_RequestV2CoordinatedStop ends the stream and leaves a stop owed to the
\* arms; torque and supervision wait for the pass that performs it.
LEMMA StopRequested ==
    ASSUME NEW c \in Control, NEW d, d = RequestCoordinatedStop(c)
    PROVE  /\ d \in Control
           /\ SameWatch(c, d) /\ SamePower(c, d) /\ d.tick = c.tick
           /\ d.dispatch = "FAULTED" /\ d.stopPending /\ ~d.clockActive /\ d.stopLatched
           /\ d.executor = c.executor /\ d.tracking = c.tracking
           /\ d.settling = c.settling
           /\ d.safety = c.safety /\ d.goalSent = c.goalSent
<1>1. d = [c EXCEPT !.dispatch = "FAULTED", !.stopPending = TRUE, !.startPending = FALSE,
                    !.clockActive = FALSE, !.stopLatched = TRUE]
  BY DEF RequestCoordinatedStop
<1>2. d \in Control
  BY <1>1 DEF Control
<1> QED
  BY <1>1, <1>2 DEF Control, SameWatch, SamePower

\* A coordinated stop is over: supervision has ended, the stop is latched,
\* the tick is missed, and what is still energised is a recorded fault.
Stopped(c, d, io) ==
    /\ ~d.tracking /\ ~d.settling /\ ~d.servosConfigured /\ ~d.rightOutputActive
    /\ d.stopLatched /\ ~d.stopPending
    /\ d.dispatch # "ACTIVE" /\ (c.dispatch # "IDLE" => d.dispatch = "FAULTED")
    /\ d.tick = "MISSED"
    /\ d.clockActive = c.clockActive /\ d.executor = c.executor /\ d.goalSent = c.goalSent
    /\ Calm(d.safety)
    /\ io.left /\ io.right => ~d.leftOn /\ ~d.rightOn
    /\ d.leftOn \/ d.rightOn => d.safety.state = "FAULT"
    /\ (d.leftOn => c.leftOn) /\ (d.rightOn => c.rightOn)

\* Host_PerformV2CoordinatedStop leaves a stop that is over, whatever the buses
\* made of it.
LEMMA StopPerformed ==
    ASSUME NEW c \in Control, Calm(c.safety), NEW io \in Transactions,
           NEW f \in BOOLEAN, NEW d, d = PerformCoordinatedStop(c, f, io)
    PROVE  d \in Control /\ Stopped(c, d, io) /\ (f => d.dispatch = "FAULTED")
<1> DEFINE p == IF f \/ c.dispatch # "IDLE" THEN "FAULTED" ELSE c.dispatch
           quiet == [c EXCEPT !.dispatch = p,
                           !.tracking = FALSE, !.settling = FALSE,
                           !.servosConfigured = FALSE, !.rightOutputActive = FALSE,
                           !.graceStarted = 0, !.stopPending = FALSE,
                           !.startPending = FALSE, !.stopLatched = TRUE]
           free == [io EXCEPT !.pending = FALSE]
           left == DisableLeft(quiet, free)
           right == DisableRight(left, free)
<1>1. d = IF io.left /\ io.right THEN right ELSE LatchFault(right)
  BY DEF PerformCoordinatedStop
<1>2. /\ p \in {"IDLE", "FAULTED"} /\ (f => p = "FAULTED")
      /\ (c.dispatch # "IDLE" => p = "FAULTED")
  OBVIOUS
<1>3. 0 \in Tick
  BY TickModulusAssumption DEF Tick
<1>4. /\ free \in Transactions /\ free.left = io.left /\ free.right = io.right
      /\ ~free.pending
  BY DEF Transactions
<1>5. quiet \in Control
  <2> HIDE DEF p
  <2> QED
    BY <1>2, <1>3, ZenonT(40) DEF Control
<1>6. /\ ~quiet.tracking /\ ~quiet.settling /\ ~quiet.servosConfigured
      /\ ~quiet.rightOutputActive /\ quiet.stopLatched /\ ~quiet.stopPending
      /\ quiet.dispatch = p /\ quiet.tick = c.tick
      /\ quiet.clockActive = c.clockActive /\ quiet.executor = c.executor
      /\ quiet.goalSent = c.goalSent /\ quiet.safety = c.safety /\ SamePower(c, quiet)
  <2> HIDE DEF p
  <2> QED
    BY DEF Control, SamePower
<1> HIDE DEF p, quiet, free, left, right
<1>7. /\ left \in Control
      /\ SameWatch(quiet, left) /\ SameStream(quiet, left) /\ SameStop(quiet, left)
      /\ left.rightOn = quiet.rightOn
      /\ left.leftOn = (quiet.leftOn /\ ~LeftVerifiedOff(quiet, free))
      /\ left.tick # "NONE"
  BY <1>4, <1>5, LeftDisabled DEF left
<1>8. /\ right \in Control
      /\ SameWatch(left, right) /\ SameStream(left, right) /\ SameStop(left, right)
      /\ right.leftOn = left.leftOn
      /\ right.rightOn = (left.rightOn /\ ~RightVerifiedOff(left, free))
      /\ ~left.tracking => right.tick # "NONE" /\ (left.tick # "NONE" => right.tick = "MISSED")
  BY <1>4, <1>7, RightDisabled DEF right
<1>9. /\ io.left => ~right.leftOn
      /\ io.right => ~right.rightOn
      /\ right.tick = "MISSED"
      /\ (right.leftOn => c.leftOn) /\ (right.rightOn => c.rightOn)
  BY <1>2, <1>4, <1>6, <1>7, <1>8
     DEF LeftVerifiedOff, RightVerifiedOff, SameStream, SamePower
<1>10. /\ ~right.tracking /\ ~right.settling /\ ~right.servosConfigured
       /\ ~right.rightOutputActive /\ right.stopLatched /\ ~right.stopPending
       /\ right.dispatch = p
       /\ right.clockActive = c.clockActive /\ right.executor = c.executor
       /\ right.goalSent = c.goalSent /\ Calm(right.safety)
  BY <1>6, <1>7, <1>8 DEF SameWatch, SameStream, SameStop
<1>11. CASE io.left /\ io.right
  BY <1>1, <1>2, <1>8, <1>9, <1>10, <1>11 DEF Stopped
<1>12. CASE ~(io.left /\ io.right)
  <2>1. /\ d \in Control
        /\ SameWatch(right, d) /\ SameStream(right, d) /\ SamePower(right, d)
        /\ d.tick = right.tick /\ d.stopLatched /\ Calm(d.safety) /\ d.safety.state = "FAULT"
        /\ d.stopPending = right.stopPending /\ d.goalSent = right.goalSent
    BY <1>1, <1>8, <1>10, <1>12, FaultLatches
  <2> QED
    BY <1>2, <1>9, <1>10, <1>12, <2>1 DEF Stopped, SameWatch, SameStream, SamePower
<1> QED
  BY <1>11, <1>12

-----------------------------------------------------------------------------
(***************************************************************************)
(* The service pass.                                                       *)
(***************************************************************************)
\* How the stream, its pair of writes, its tick and telemetry fit together.
\* A pair of writes is on its way only while telemetry follows the stream; a
\* stream that telemetry no longer follows has missed its tick or lost its
\* bus; one that settles is over.
Sound(c) ==
    /\ Calm(c.safety)
    /\ c.dispatch = "ACTIVE" => c.tracking
    /\ c.clockActive /\ ~c.tracking => c.tick = "MISSED" \/ c.dispatch = "FAULTED"
    /\ c.settling => ~c.clockActive /\ c.executor # "RUNNING"

\* A pass that did not stop the arms: the host is heard, nothing is latched
\* that the arms still owe a stop, and the safety machine has not moved.
Passed(c, d) ==
    /\ SameWatch(c, d) /\ SameStream(c, d) /\ SamePower(c, d)
    /\ d.tick = c.tick /\ d.goalSent = c.goalSent
    /\ ~d.stopPending /\ d.dispatch # "FAULTED"
    /\ ~WatchdogExpired(d)
    /\ Calm(d.safety)
    /\ d.stopLatched => ~d.rightOutputActive
    /\ ~d.stopLatched => ~c.stopLatched /\ d.safety = c.safety

\* The same before the safety tick.
Heard(c, d) ==
    /\ SameWatch(c, d) /\ SameStream(c, d) /\ SamePower(c, d)
    /\ d.tick = c.tick /\ d.goalSent = c.goalSent
    /\ ~d.stopPending /\ d.dispatch # "FAULTED"
    /\ ~WatchdogExpired(d)
    /\ Calm(d.safety)
    /\ ~d.stopLatched => ~c.stopLatched /\ d.safety = c.safety

\* The pass up to the watchdog has stopped the arms, or found nothing to stop
\* them for.
LEMMA StopsServed ==
    ASSUME NEW c \in Control, Calm(c.safety), NEW in, NEW io \in Transactions,
           NEW d, d = ServiceStops(c, in, io)
    PROVE  /\ d \in Control
           /\ \/ Stopped(c, d, io) /\ d.dispatch = "FAULTED"
              \/ Heard(c, d)
<1> DEFINE owed == c.stopPending \/ c.dispatch = "FAULTED"
           pending == IF owed THEN PerformCoordinatedStop(c, TRUE, io) ELSE c
           latched == LatchStop(pending)
           heard == IF in.txFault THEN HoldIfMoving(latched) ELSE pending
           quiet == heard.everHeartbeat /\ heard.safety.state = "ACTIVE"
                      /\ Silent(heard, heard.lastHeartbeat)
           timed == IF quiet THEN LatchStop(heard) ELSE heard
<1>0. d = IF WatchdogExpired(timed) THEN PerformCoordinatedStop(timed, TRUE, io) ELSE timed
  <2> HIDE DEF WatchdogExpired, PerformCoordinatedStop, LatchStop, HoldIfMoving, Silent
  <2> QED
    BY Zenon DEF ServiceStops
<1>1. /\ pending \in Control /\ Calm(pending.safety)
      /\ \/ Stopped(c, pending, io) /\ pending.dispatch = "FAULTED"
         \/ pending = c /\ ~c.stopPending /\ c.dispatch # "FAULTED"
  <2>1. CASE owed
    <3>1. pending = PerformCoordinatedStop(c, TRUE, io)
      BY <2>1
    <3> HIDE DEF pending
    <3>2. pending \in Control /\ Stopped(c, pending, io) /\ pending.dispatch = "FAULTED"
      BY <3>1, StopPerformed
    <3> QED
      BY <3>2 DEF Stopped
  <2>2. CASE ~owed
    <3>1. c.stopPending \in BOOLEAN
      BY DEF Control
    <3> QED
      BY <2>2, <3>1
  <2> QED
    BY <2>1, <2>2
<1> HIDE DEF pending, owed
<1>2. /\ heard \in Control /\ Calm(heard.safety)
      /\ SameWatch(pending, heard) /\ SameStream(pending, heard)
      /\ SamePower(pending, heard) /\ heard.tick = pending.tick
      /\ pending.stopLatched => heard.stopLatched
      /\ heard.stopPending = pending.stopPending /\ heard.goalSent = pending.goalSent
      /\ heard.stopLatched \/ heard.safety = pending.safety
      /\ pending.safety.state = "FAULT" => heard.safety.state = "FAULT"
  <2>1. CASE in.txFault
    <3>1. /\ latched \in Control
          /\ SameWatch(pending, latched) /\ SameStream(pending, latched)
          /\ SamePower(pending, latched)
          /\ latched.tick = pending.tick /\ latched.stopLatched
          /\ latched.safety = pending.safety
          /\ latched.stopPending = pending.stopPending
          /\ latched.goalSent = pending.goalSent
      BY <1>1, StopLatches
    <3> HIDE DEF latched
    <3>2. heard = HoldIfMoving(latched)
      BY <2>1
    <3> HIDE DEF heard
    <3>3. /\ heard \in Control /\ Calm(heard.safety)
          /\ SameWatch(latched, heard) /\ SameStream(latched, heard)
          /\ SamePower(latched, heard) /\ heard.tick = latched.tick
          /\ (latched.safety.state = "FAULT" => heard.safety.state = "FAULT")
          /\ heard.stopLatched = latched.stopLatched
          /\ heard.stopPending = latched.stopPending
          /\ heard.goalSent = latched.goalSent
      BY <1>1, <3>1, <3>2, MovingHeld
    <3> QED
      BY <3>1, <3>3 DEF SameWatch, SameStream, SamePower
  <2>2. CASE ~in.txFault
    BY <1>1, <2>2 DEF SameWatch, SameStream, SamePower
  <2> QED
    BY <2>1, <2>2
<1> HIDE DEF heard, latched
<1>3. /\ timed \in Control /\ Calm(timed.safety)
      /\ SameWatch(pending, timed) /\ SameStream(pending, timed)
      /\ SamePower(pending, timed) /\ timed.tick = pending.tick
      /\ pending.stopLatched => timed.stopLatched
      /\ timed.stopPending = pending.stopPending /\ timed.goalSent = pending.goalSent
      /\ timed.stopLatched \/ timed.safety = pending.safety
      /\ pending.safety.state = "FAULT" => timed.safety.state = "FAULT"
  <2>1. CASE quiet
    <3>1. timed = LatchStop(heard)
      BY <2>1
    <3> HIDE DEF timed
    <3>2. /\ timed \in Control
          /\ SameWatch(heard, timed) /\ SameStream(heard, timed)
          /\ SamePower(heard, timed)
          /\ timed.tick = heard.tick /\ timed.stopLatched
          /\ timed.safety = heard.safety
          /\ timed.stopPending = heard.stopPending
          /\ timed.goalSent = heard.goalSent
      BY <1>2, <3>1, StopLatches
    <3> QED
      BY <1>2, <3>2 DEF SameWatch, SameStream, SamePower
  <2>2. CASE ~quiet
    BY <1>2, <2>2
  <2> QED
    BY <2>1, <2>2
<1> HIDE DEF timed
<1>4. CASE WatchdogExpired(timed)
  <2>1. timed.rightOutputActive
    BY <1>4 DEF WatchdogExpired
  <2>2. pending = c
    BY <1>1, <1>3, <2>1 DEF Stopped, SameWatch
  <2>3. /\ d \in Control /\ Stopped(timed, d, io) /\ d.dispatch = "FAULTED"
    BY <1>0, <1>3, <1>4, StopPerformed
  <2>4. Stopped(c, d, io)
    BY <1>3, <2>2, <2>3 DEF Stopped, SameStream, SamePower
  <2> QED
    BY <2>3, <2>4
<1>5. CASE ~WatchdogExpired(timed)
  <2>1. d = timed
    BY <1>0, <1>5
  <2>2. CASE Stopped(c, pending, io) /\ pending.dispatch = "FAULTED"
    <3>1. Stopped(c, d, io) /\ d.dispatch = "FAULTED"
      BY <1>3, <2>1, <2>2 DEF Stopped, SameWatch, SameStream, SamePower
    <3> QED
      BY <1>3, <2>1, <3>1
  <2>3. CASE pending = c /\ ~c.stopPending /\ c.dispatch # "FAULTED"
    <3>1. Heard(c, d)
      BY <1>3, <1>5, <2>1, <2>3 DEF Heard, SameStream
    <3> QED
      BY <1>3, <2>1, <3>1
  <2> QED
    BY <1>1, <2>2, <2>3
<1> QED
  BY <1>4, <1>5

\* The safety tick and the stop a latch owes: afterwards nothing is latched
\* that supervised arms have not been stopped for.
LEMMA SafetyServed ==
    ASSUME NEW c \in Control, Calm(c.safety), now \in Tick, NEW io \in Transactions,
           NEW d, d = ServiceSafety(c, io)
    PROVE  /\ d \in Control
           /\ \/ /\ Stopped(c, d, io) /\ d.dispatch = "FAULTED"
                 /\ c.rightOutputActive
              \/ /\ SameWatch(c, d) /\ SameStream(c, d) /\ SamePower(c, d)
                 /\ d.tick = c.tick /\ d.goalSent = c.goalSent
                 /\ d.stopPending = c.stopPending
                 /\ Calm(d.safety)
                 /\ c.safety.state = "FAULT" => d.safety.state = "FAULT"
                 /\ d.stopLatched => ~d.rightOutputActive
                 /\ ~d.stopLatched => ~c.stopLatched /\ d.safety = c.safety
<1> DEFINE s == safety_tick(c.safety, now)
           ticked == [c EXCEPT !.safety = s]
           held == IF s.state = "HOLD" THEN LatchStop(ticked) ELSE ticked
<1>1. /\ Calm(s) /\ s \in Safety /\ (s = c.safety \/ s.state = "HOLD")
      /\ (c.safety.state = "FAULT" => s = c.safety)
  BY SafetyCalls, SafetyAnswers, Zenon DEF Calm
<1> HIDE DEF s
<1>2. ticked \in Control
  BY <1>1 DEF Control
<1>3. /\ SameWatch(c, ticked) /\ SameStream(c, ticked) /\ SamePower(c, ticked)
      /\ ticked.tick = c.tick /\ ticked.goalSent = c.goalSent
      /\ ticked.stopPending = c.stopPending /\ ticked.stopLatched = c.stopLatched
      /\ ticked.safety = s
  BY DEF Control, SameWatch, SameStream, SamePower
<1>4. d = IF held.stopLatched /\ held.rightOutputActive
          THEN PerformCoordinatedStop(held, TRUE, io) ELSE held
  <2>1. held = IF ticked.safety.state = "HOLD" THEN LatchStop(ticked) ELSE ticked
    BY <1>3
  <2> HIDE DEF held
  <2> QED
    BY <2>1, Zenon DEF ServiceSafety, s
<1> HIDE DEF ticked
<1>5. /\ held \in Control
      /\ SameWatch(c, held) /\ SameStream(c, held) /\ SamePower(c, held)
      /\ held.tick = c.tick /\ held.goalSent = c.goalSent
      /\ held.stopPending = c.stopPending /\ (c.stopLatched => held.stopLatched)
      /\ held.safety = s /\ (s.state = "HOLD" => held.stopLatched)
  <2>1. CASE s.state = "HOLD"
    <3>1. held = LatchStop(ticked)
      BY <2>1
    <3> HIDE DEF held
    <3>2. /\ held \in Control
          /\ SameWatch(ticked, held) /\ SameStream(ticked, held)
          /\ SamePower(ticked, held) /\ held.tick = ticked.tick
          /\ held.stopLatched /\ held.safety = ticked.safety
          /\ held.stopPending = ticked.stopPending /\ held.goalSent = ticked.goalSent
      BY <1>2, <3>1, StopLatches
    <3> QED
      BY <1>3, <3>2 DEF SameWatch, SameStream, SamePower
  <2>2. CASE s.state # "HOLD"
    BY <1>2, <1>3, <2>2
  <2> QED
    BY <2>1, <2>2
<1> HIDE DEF held
<1>6. CASE held.stopLatched /\ held.rightOutputActive
  <2>1. d = PerformCoordinatedStop(held, TRUE, io) /\ Calm(held.safety)
    BY <1>1, <1>4, <1>5, <1>6
  <2>2. d \in Control /\ Stopped(held, d, io) /\ d.dispatch = "FAULTED"
    BY <1>5, <2>1, StopPerformed
  <2>3. Stopped(c, d, io) /\ c.rightOutputActive
    BY <1>5, <1>6, <2>2 DEF Stopped, SameStream, SamePower, SameWatch
  <2> QED
    BY <2>2, <2>3
<1>7. CASE ~(held.stopLatched /\ held.rightOutputActive)
  <2>1. d = held
    BY <1>4, <1>7
  <2> QED
    BY <1>1, <1>5, <1>7, <2>1
<1> QED
  BY <1>6, <1>7

\* Supervision and the safety tick: what BinaryControl_Service does before the
\* stream.
LEMMA PassSupervised ==
    ASSUME NEW c \in Control, Calm(c.safety), now \in Tick, NEW in, NEW io \in Transactions,
           NEW d, d = ServiceSafety(ServiceStops(c, in, io), io)
    PROVE  /\ d \in Control
           /\ \/ Stopped(c, d, io) /\ d.dispatch = "FAULTED"
              \/ Passed(c, d)
<1> DEFINE e == ServiceStops(c, in, io)
<1>1. /\ e \in Control
      /\ (Stopped(c, e, io) /\ e.dispatch = "FAULTED") \/ Heard(c, e)
  BY StopsServed
<1>2. d = ServiceSafety(e, io) /\ Calm(e.safety)
  BY <1>1 DEF Stopped, Heard
<1> HIDE DEF e
<1>3. /\ d \in Control
      /\ \/ /\ Stopped(e, d, io) /\ d.dispatch = "FAULTED"
            /\ e.rightOutputActive
         \/ /\ SameWatch(e, d) /\ SameStream(e, d) /\ SamePower(e, d)
            /\ d.tick = e.tick /\ d.goalSent = e.goalSent
            /\ d.stopPending = e.stopPending
            /\ Calm(d.safety)
            /\ e.safety.state = "FAULT" => d.safety.state = "FAULT"
            /\ d.stopLatched => ~d.rightOutputActive
            /\ ~d.stopLatched => ~e.stopLatched /\ d.safety = e.safety
  BY <1>1, <1>2, SafetyServed
<1>4. CASE Stopped(c, e, io) /\ e.dispatch = "FAULTED"
  <2>1. Stopped(c, d, io) /\ d.dispatch = "FAULTED"
    BY <1>3, <1>4 DEF Stopped, SameWatch, SameStream, SamePower
  <2> QED
    BY <1>3, <2>1
<1>5. CASE Heard(c, e)
  <2>1. CASE Stopped(e, d, io) /\ d.dispatch = "FAULTED"
    <3>1. Stopped(c, d, io)
      BY <1>5, <2>1 DEF Heard, Stopped, SameStream, SamePower
    <3> QED
      BY <1>3, <2>1, <3>1
  <2>2. CASE ~Stopped(e, d, io) \/ d.dispatch # "FAULTED"
    <3>1. WatchdogExpired(d) = WatchdogExpired(e)
      BY <1>3, <2>2 DEF WatchdogExpired, Silent, SameWatch
    <3>2. Passed(c, d)
      BY <1>3, <1>5, <2>2, <3>1 DEF Heard, Passed, SameWatch, SameStream, SamePower
    <3> QED
      BY <1>3, <3>2
  <2> QED
    BY <2>1, <2>2
<1> QED
  BY <1>1, <1>4, <1>5

\* The stream drives the arms unless its bus or its tick stops it first.
Going(c) == c.clockActive /\ c.dispatch # "FAULTED" /\ c.tick # "MISSED"

\* What the part of a pass that serves the stream may do: it sends goals only
\* while the stream goes, and latches a stop only by owing it to the arms.
Carried(c, d) ==
    /\ SameWatch(c, d) /\ SamePower(c, d) /\ d.safety = c.safety
    /\ c.stopLatched => d.stopLatched
    /\ c.stopPending => d.stopPending
    /\ d.stopLatched => c.stopLatched \/ d.stopPending
    /\ d.tracking => c.tracking
    /\ d.executor = "RUNNING" /\ ~d.tracking => c.executor = "RUNNING" /\ ~c.tracking
    /\ Going(d) => Going(c) /\ d.stopLatched = c.stopLatched
    /\ d.goalSent /\ ~c.goalSent => Going(c) /\ d.stopLatched = c.stopLatched

\* Requesting a stop is one of the things serving the stream may do.
LEMMA RequestCarries ==
    ASSUME NEW c \in Control, Sound(c), NEW d, d = RequestCoordinatedStop(c)
    PROVE  d \in Control /\ Sound(d) /\ Carried(c, d)
<1>1. /\ d \in Control
      /\ SameWatch(c, d) /\ SamePower(c, d) /\ d.tick = c.tick
      /\ d.dispatch = "FAULTED" /\ d.stopPending /\ ~d.clockActive /\ d.stopLatched
      /\ d.executor = c.executor /\ d.tracking = c.tracking
      /\ d.settling = c.settling
      /\ d.safety = c.safety /\ d.goalSent = c.goalSent
  BY StopRequested
<1> QED
  BY <1>1 DEF Sound, Carried, Going

\* Doing two of them one after the other is another.
LEMMA Carries ==
    ASSUME NEW c, NEW d, NEW e, Carried(c, d), Carried(d, e),
           d.goalSent = c.goalSent
    PROVE  Carried(c, e)
BY DEF Carried, SameWatch, SamePower

\* Host_ServiceV2TrackingFeedback sends no goal.
LEMMA TrackingServed ==
    ASSUME NEW c \in Control, Sound(c), NEW in,
           in.feedback \in {"NONE", "FAULT", "TRACKING_ERROR", "SETTLED"},
           c.tracking /\ in.feedback = "SETTLED" => c.settling /\ c.dispatch = "IDLE",
           NEW d, d = ServiceTracking(c, in)
    PROVE  d \in Control /\ Sound(d) /\ Carried(c, d) /\ d.goalSent = c.goalSent
<1>0. c.tracking \in BOOLEAN
  BY DEF Control
<1>1. CASE ~c.tracking \/ in.feedback = "NONE"
  <2>1. d = c
    BY <1>1 DEF ServiceTracking
  <2> QED
    BY <2>1 DEF Carried, SameWatch, SamePower
<1>2. CASE c.tracking /\ in.feedback = "FAULT"
  <2>1. d = RequestCoordinatedStop(c)
    BY <1>2 DEF ServiceTracking
  <2> QED
    BY <2>1, RequestCarries, StopRequested
<1>3. CASE c.tracking /\ in.feedback = "TRACKING_ERROR"
  <2> DEFINE e == [c EXCEPT !.executor = "ABORTED"]
  <2>1. d = RequestCoordinatedStop(e)
    BY <1>3 DEF ServiceTracking
  <2>2. e \in Control
    BY DEF Control, ExecutorState
  <2>3. /\ SameWatch(c, e) /\ SamePower(c, e) /\ e.safety = c.safety
        /\ e.stopLatched = c.stopLatched /\ e.stopPending = c.stopPending
        /\ e.tick = c.tick /\ e.dispatch = c.dispatch
        /\ e.clockActive = c.clockActive /\ e.tracking = c.tracking
        /\ e.settling = c.settling /\ e.goalSent = c.goalSent /\ e.executor = "ABORTED"
    BY DEF Control, SameWatch, SamePower
  <2> HIDE DEF e
  <2>4. Sound(e) /\ Carried(c, e)
    BY <2>3 DEF Sound, Carried, Going
  <2>5. d \in Control /\ Sound(d) /\ Carried(e, d) /\ d.goalSent = e.goalSent
    BY <2>1, <2>2, <2>4, RequestCarries, StopRequested
  <2> QED
    BY <2>3, <2>4, <2>5, Carries
<1>4. CASE c.tracking /\ in.feedback = "SETTLED"
  <2>1. d = [c EXCEPT !.anchorReady = TRUE, !.settling = FALSE, !.tracking = FALSE]
    BY <1>4 DEF ServiceTracking
  <2>2. d \in Control
    BY <2>1, ZenonT(40) DEF Control
  <2>3. /\ SameWatch(c, d) /\ SamePower(c, d) /\ d.safety = c.safety
        /\ d.stopLatched = c.stopLatched /\ d.stopPending = c.stopPending
        /\ d.tick = c.tick /\ d.dispatch = c.dispatch
        /\ d.clockActive = c.clockActive /\ ~d.tracking /\ ~d.settling
        /\ d.goalSent = c.goalSent /\ d.executor = c.executor
    BY <2>1 DEF Control, SameWatch, SamePower
  <2>4. ~c.clockActive /\ c.executor # "RUNNING" /\ c.dispatch = "IDLE"
    BY <1>4 DEF Sound
  <2> QED
    BY <2>2, <2>3, <2>4 DEF Sound, Carried, Going
<1> QED
  BY <1>0, <1>1, <1>2, <1>3, <1>4

\* A step of the executor at a usable tick of a stream that is followed.
LEMMA ExecutorSteps ==
    ASSUME NEW c \in Control, Sound(c), NEW step, c.clockActive, c.tracking,
           c.dispatch = "IDLE", NEW d, d = StepExecutor(c, step)
    PROVE  /\ d \in Control /\ Sound(d)
           /\ SameWatch(c, d) /\ SamePower(c, d) /\ d.safety = c.safety
           /\ c.stopLatched => d.stopLatched
           /\ d.tracking
           /\ d.stopLatched = c.stopLatched \/ d.stopPending
           /\ (c.stopPending => d.stopPending)
           /\ Going(d) => d.stopLatched = c.stopLatched
           /\ d.goalSent /\ ~c.goalSent => d.stopLatched = c.stopLatched
<1>0. ~c.settling /\ c.settling \in BOOLEAN
  BY DEF Sound, Control
<1>1. CASE step \in {"OUTPUT", "LAST_OUTPUT"} /\ c.executor = "RUNNING"
  <2> DEFINE sent == [c EXCEPT !.dispatch = "ACTIVE", !.goalSent = TRUE]
  <2>1. sent \in Control
    BY DEF Control
  <2>2. /\ SameWatch(c, sent) /\ SamePower(c, sent) /\ sent.safety = c.safety
        /\ sent.stopLatched = c.stopLatched /\ sent.stopPending = c.stopPending
        /\ sent.tracking /\ sent.dispatch = "ACTIVE" /\ sent.executor = "RUNNING"
        /\ sent.clockActive = TRUE /\ sent.settling = FALSE
    BY <1>0, <1>1 DEF Control, SameWatch, SamePower
  <2>3. CASE step = "OUTPUT"
    <3>1. d = sent
      BY <1>0, <1>1, <2>3 DEF StepExecutor, Control
    <3> HIDE DEF sent
    <3> QED
      BY <2>1, <2>2, <3>1 DEF Sound
  <2>4. CASE step = "LAST_OUTPUT"
    <3>1. d = [sent EXCEPT !.executor = "SUCCEEDED", !.clockActive = FALSE, !.settling = TRUE]
      BY <1>1, <2>4 DEF StepExecutor, Control
    <3> HIDE DEF sent
    <3>2. d \in Control
      <4> DEFINE ended == [sent EXCEPT !.executor = "SUCCEEDED"]
                 stopped == [ended EXCEPT !.clockActive = FALSE]
      <4>1. ended \in Control
        BY <2>1 DEF Control, ExecutorState
      <4>2. d = [stopped EXCEPT !.settling = TRUE]
        BY <2>1, <3>1 DEF Control
      <4> HIDE DEF ended
      <4>3. stopped \in Control
        BY <4>1 DEF Control
      <4> HIDE DEF stopped
      <4> QED
        BY <4>2, <4>3, ZenonT(40) DEF Control
    <3>3. /\ SameWatch(sent, d) /\ SamePower(sent, d) /\ d.safety = sent.safety
          /\ d.stopLatched = sent.stopLatched /\ d.stopPending = sent.stopPending
          /\ d.tracking = sent.tracking /\ d.dispatch = sent.dispatch
          /\ d.executor = "SUCCEEDED" /\ ~d.clockActive
      BY <2>1, <3>1 DEF Control, SameWatch, SamePower
    <3> QED
      BY <2>2, <3>2, <3>3 DEF Sound, SameWatch, SamePower
  <2> QED
    BY <1>1, <2>3, <2>4
<1>2. CASE step \in {"HOLD", "ABORT"} /\ c.executor = "RUNNING"
  <2> DEFINE x == IF step = "HOLD" THEN "HOLD" ELSE "ABORTED"
             e == [c EXCEPT !.executor = x]
  <2>1. d = RequestCoordinatedStop(e)
    BY <1>2, Zenon DEF StepExecutor
  <2>2. x \in {"HOLD", "ABORTED"}
    OBVIOUS
  <2> HIDE DEF x
  <2>3. e \in Control
    BY <2>2 DEF Control, ExecutorState
  <2>4. /\ SameWatch(c, e) /\ SamePower(c, e) /\ e.safety = c.safety
        /\ e.stopLatched = c.stopLatched /\ e.stopPending = c.stopPending
        /\ e.tick = c.tick /\ e.dispatch = c.dispatch
        /\ e.clockActive = c.clockActive /\ e.tracking = c.tracking
        /\ e.settling = c.settling /\ e.goalSent = c.goalSent /\ e.executor = x
    BY DEF Control, SameWatch, SamePower
  <2> HIDE DEF e
  <2>5. Sound(e)
    BY <1>0, <2>4 DEF Sound
  <2>6. /\ d \in Control /\ Sound(d) /\ SameWatch(e, d) /\ SamePower(e, d)
        /\ d.safety = e.safety /\ d.stopLatched /\ d.stopPending /\ ~d.clockActive
        /\ d.tracking = e.tracking /\ d.goalSent = e.goalSent
    BY <2>1, <2>3, <2>5, RequestCarries, StopRequested
  <2> QED
    BY <2>4, <2>6 DEF SameWatch, SamePower, Going
<1>3. CASE /\ ~(step \in {"OUTPUT", "LAST_OUTPUT"} /\ c.executor = "RUNNING")
           /\ ~(step \in {"HOLD", "ABORT"} /\ c.executor = "RUNNING")
  <2>1. d = RequestCoordinatedStop(c)
    BY <1>3, Zenon DEF StepExecutor
  <2>2. /\ d \in Control /\ Sound(d) /\ SameWatch(c, d) /\ SamePower(c, d)
        /\ d.safety = c.safety /\ d.stopLatched /\ d.stopPending /\ ~d.clockActive
        /\ d.tracking = c.tracking /\ d.goalSent = c.goalSent
    BY <2>1, RequestCarries, StopRequested
  <2> QED
    BY <2>2 DEF Going
<1> QED
  BY <1>1, <1>2, <1>3

\* Host_ServiceV2Executor sends a goal only while the stream goes, and keeps
\* the stream, its tick and telemetry fitting together.
LEMMA ExecutorServed ==
    ASSUME NEW c \in Control, Sound(c), NEW in, NEW io \in Transactions,
           NEW d, d = ServiceExecutor(c, in, io)
    PROVE  d \in Control /\ Sound(d) /\ Carried(c, d)
<1>0. /\ c.tick \in {"NONE", "PENDING", "MISSED"} /\ c.clockActive \in BOOLEAN
      /\ c.startPending \in BOOLEAN /\ c.tracking \in BOOLEAN
  BY DEF Control
<1>1. CASE ~c.clockActive \/ c.tick = "NONE"
  <2>1. d = c
    BY <1>1 DEF ServiceExecutor
  <2> QED
    BY <2>1 DEF Carried, SameWatch, SamePower
<1>2. CASE c.clockActive /\ c.tick # "NONE"
  <2> DEFINE taken == [c EXCEPT !.tick = "NONE"]
             started == [taken EXCEPT !.executor = "RUNNING", !.startPending = FALSE,
                                      !.anchorReady = FALSE]
  <2>1. d = IF ~TickUsable(c, io.pending) THEN RequestCoordinatedStop(taken)
            ELSE IF ~c.startPending THEN StepExecutor(taken, in.step)
            ELSE IF c.executor # "PRIMING" \/ in.step = "START_FAILS"
            THEN RequestCoordinatedStop(taken)
            ELSE StepExecutor(started, in.step)
    BY <1>2, Zenon DEF ServiceExecutor
  <2>2. taken \in Control
    BY DEF Control
  <2>3. /\ SameWatch(c, taken) /\ SamePower(c, taken) /\ SameStream(c, taken)
        /\ SameStop(c, taken) /\ taken.tick = "NONE"
    BY DEF Control, SameWatch, SamePower, SameStream, SameStop
  <2>4. started \in Control
    <3> HIDE DEF taken
    <3> QED
      BY <2>2, ZenonT(40) DEF Control, ExecutorState
  <2>5. /\ SameWatch(taken, started) /\ SamePower(taken, started)
        /\ SameStop(taken, started) /\ started.tick = "NONE"
        /\ started.clockActive = taken.clockActive /\ started.dispatch = taken.dispatch
        /\ started.tracking = taken.tracking /\ started.settling = taken.settling
        /\ started.executor = "RUNNING"
    <3> HIDE DEF taken
    <3> QED
      BY <2>2, <2>3 DEF Control, SameWatch, SamePower, SameStop
  <2> HIDE DEF taken, started
  <2>6. CASE d = RequestCoordinatedStop(taken)
    <3>1. /\ d \in Control
          /\ SameWatch(taken, d) /\ SamePower(taken, d)
          /\ d.dispatch = "FAULTED" /\ d.stopPending /\ ~d.clockActive /\ d.stopLatched
          /\ d.executor = taken.executor /\ d.tracking = taken.tracking
          /\ d.settling = taken.settling
          /\ d.safety = taken.safety /\ d.goalSent = taken.goalSent
      BY <2>2, <2>6, StopRequested
    <3>2. Sound(d)
      BY <2>3, <3>1 DEF Sound, SameStream, SameStop
    <3>3. Carried(c, d)
      BY <2>3, <3>1 DEF Carried, Going, SameWatch, SamePower, SameStream, SameStop
    <3> QED
      BY <3>1, <3>2, <3>3
  <2>7. CASE d # RequestCoordinatedStop(taken)
    <3>1. TickUsable(c, io.pending) /\ c.tick = "PENDING" /\ c.dispatch = "IDLE"
      BY <1>0, <1>2, <2>1, <2>7 DEF TickUsable
    <3>2. c.tracking /\ Going(c)
      BY <1>0, <1>2, <3>1 DEF Sound, Going
    <3>3. PICK e \in {taken, started} : d = StepExecutor(e, in.step)
      BY <2>1, <2>7, <3>1
    <3>4. /\ e \in Control /\ e.clockActive /\ e.tracking /\ e.dispatch = "IDLE"
          /\ SameWatch(c, e) /\ SamePower(c, e) /\ SameStop(c, e)
          /\ e.settling = c.settling
      <4>1. CASE e = taken
        BY <1>2, <2>2, <2>3, <3>1, <3>2, <4>1 DEF SameStream
      <4>2. CASE e = started
        <5>1. /\ started.clockActive /\ started.tracking /\ started.dispatch = "IDLE"
              /\ started.settling = c.settling
          BY <1>2, <2>3, <2>5, <3>1, <3>2 DEF SameStream
        <5>2. SameWatch(c, started) /\ SamePower(c, started)
          BY <2>3, <2>5 DEF SameWatch, SamePower
        <5>3. SameStop(c, started)
          BY <2>3, <2>5 DEF SameStop
        <5> QED
          BY <2>4, <4>2, <5>1, <5>2, <5>3
      <4> QED
        BY <3>3, <4>1, <4>2
    <3>5. Sound(e)
      BY <1>2, <3>4 DEF Sound, SameStop
    <3>6. /\ d \in Control /\ Sound(d)
          /\ SameWatch(e, d) /\ SamePower(e, d) /\ d.safety = e.safety
          /\ e.stopLatched => d.stopLatched
          /\ d.tracking
          /\ d.stopLatched = e.stopLatched \/ d.stopPending
          /\ (e.stopPending => d.stopPending)
          /\ Going(d) => d.stopLatched = e.stopLatched
          /\ d.goalSent /\ ~e.goalSent => d.stopLatched = e.stopLatched
      BY <3>3, <3>4, <3>5, ExecutorSteps
    <3>7. Carried(c, d)
      BY <3>2, <3>4, <3>6 DEF Carried, SameWatch, SamePower, SameStop
    <3> QED
      BY <3>6, <3>7
  <2> QED
    BY <2>6, <2>7
<1> QED
  BY <1>0, <1>1, <1>2

\* A pass in two halves: supervision, then the stream.
LEMMA PassServed ==
    ASSUME NEW c \in Control, Sound(c), now \in Tick, NEW io \in Transactions, NEW in,
           in.feedback \in {"NONE", "FAULT", "TRACKING_ERROR", "SETTLED"},
           c.tracking /\ in.feedback = "SETTLED" => c.settling /\ c.dispatch = "IDLE",
           NEW d, d = Service(c, in, io)
    PROVE  \E m \in Control :
             /\ d \in Control /\ Sound(d) /\ Carried(m, d)
             /\ (Stopped(c, m, io) /\ m.dispatch = "FAULTED") \/ Passed(c, m)
<1> DEFINE m == ServiceSafety(ServiceStops(c, in, io), io)
           e == ServiceTracking(m, in)
<1>1. d = ServiceExecutor(e, in, io)
  BY Zenon DEF Service
<1>2. Calm(c.safety)
  BY DEF Sound
<1>3. m \in Control /\ ((Stopped(c, m, io) /\ m.dispatch = "FAULTED") \/ Passed(c, m))
  BY <1>2, PassSupervised
<1> HIDE DEF m
<1>4. Sound(m) /\ (m.tracking /\ in.feedback = "SETTLED" => m.settling /\ m.dispatch = "IDLE")
  BY <1>3 DEF Sound, Stopped, Passed, SameStream
<1>5. e \in Control /\ Sound(e) /\ Carried(m, e) /\ e.goalSent = m.goalSent
  BY <1>3, <1>4, TrackingServed
<1> HIDE DEF e
<1>6. d \in Control /\ Sound(d) /\ Carried(e, d)
  BY <1>1, <1>5, ExecutorServed
<1>7. Carried(m, d)
  BY <1>5, <1>6, Carries
<1> QED
  BY <1>3, <1>6, <1>7

-----------------------------------------------------------------------------
(***************************************************************************)
(* The inductive invariant.                                                *)
(***************************************************************************)
\* No host prepares a session while a stream still runs.
NoRestarts == "RESTARTS" \notin world

\* A stream that is followed is supervised.
Followed == NoRestarts => (ctl.tracking => ctl.rightOutputActive)

\* RightArmSupervised, where no host prepares in mid-stream.
RightWatched == NoRestarts => RightArmSupervised

\* As long as the stream goes the arms are supervised.  After a pass the stop
\* is not latched and the session is whole; a frame takes the one or the
\* other away only together.
GoingIsLed ==
    world \cap {"PIPELINED", "RESTARTS"} = {} /\ Going(ctl) =>
        /\ ctl.rightOutputActive
        /\ \/ ~served /\ ctl.stopLatched
           \/ /\ served => ~ctl.stopLatched
              /\ accepts_setpoint(ctl.safety) /\ ctl.servosConfigured

\* In plain worlds torque is supervised; a session, and a stream that is
\* followed, have torque; an executor nobody follows has none.
TorqueIsWatched ==
    Plain =>
        /\ TorqueOn => ctl.rightOutputActive
        /\ ctl.tracking => ctl.rightOn
        /\ ctl.servosConfigured => ctl.rightOn
        /\ ctl.executor = "RUNNING" /\ ~ctl.tracking => ~TorqueOn

\* The reading of what last attended to the arms, configuring or a heartbeat,
\* tells for how long they have been left alone; a heartbeat's only up to the
\* delay of its frame.
Aged ==
    Plain /\ TorqueOn =>
        \/ Elapsed(now, ctl.graceStarted) = unattended
        \/ /\ ctl.everHeartbeat
           /\ unattended <= Elapsed(now, ctl.lastHeartbeat)
           /\ Elapsed(now, ctl.lastHeartbeat) <= unattended + MaxStall

\* What the last pass saw of a reading.
SeenAge(reading) == Elapsed(Elapsed(now, unpolled), reading)

\* The reading looked fresh to the last pass, and if that was an illusion it
\* had begun before the other one was given up.
LookedFresh(reading) ==
    /\ SeenAge(reading) <= HeartbeatTimeout
    /\ unattended - unpolled <= HeartbeatTimeout + MaxStall + SeenAge(reading)

\* The last pass did not find the arms left alone: it came soon enough, or one of
\* the two readings looked fresh to it.
Noticed ==
    Plain /\ TorqueOn /\ unattended > unpolled =>
        /\ ctl.everHeartbeat
        /\ \/ unattended - unpolled <= HeartbeatTimeout
           \/ LookedFresh(ctl.graceStarted)
           \/ LookedFresh(ctl.lastHeartbeat)

\* The inductive invariant.
IInv ==
    /\ TypeOK /\ Sound(ctl)
    /\ Followed /\ RightWatched
    /\ GoingIsLed /\ GoalsAuthorised
    /\ TorqueIsWatched /\ StopTakesEffect
    /\ Aged /\ Noticed /\ UnattendedArmsLoseTorque

-----------------------------------------------------------------------------
(***************************************************************************)
(* Time.                                                                   *)
(***************************************************************************)
\* The constants as the proofs about time use them.
LEMMA Bounds ==
    /\ HeartbeatTimeout \in Nat /\ MaxStall \in Nat /\ MaxStall > 0
    /\ TickModulus \in Nat /\ MaxUnattended \in Nat
    /\ MaxUnattended = 2 * HeartbeatTimeout + 2 * MaxStall
    /\ MaxUnattended + MaxStall < TickModulus
    /\ \A d \in 0 .. MaxStall : d \in Tick
BY TickModulusAssumption, HeartbeatTimeoutAssumption, ArmBoundsAssumption, ArmClockAssumption
   DEF MaxUnattended, Tick

\* How old a reading is.
LEMMA AgeRange ==
    ASSUME NEW t \in Tick, NEW u \in Tick
    PROVE  Elapsed(t, u) \in Tick /\ Elapsed(t, u) \in Nat
BY ElapsedUnfolded, TickModulusAssumption DEF Tick

\* A reading that looked fresh to the last pass has aged by as much as the
\* clock has since.
LEMMA SeenAges ==
    ASSUME TypeOK, NEW r \in Tick, SeenAge(r) <= HeartbeatTimeout
    PROVE  Elapsed(now, r) = SeenAge(r) + unpolled /\ SeenAge(r) \in Nat
<1> DEFINE t == Elapsed(now, unpolled)
<1>1. now \in Tick /\ unpolled \in Tick /\ unpolled \in Nat /\ unpolled <= MaxStall
  BY Bounds DEF TypeOK
<1>2. t \in Tick /\ Elapsed(now, t) = unpolled
  BY <1>1, ReadingsInTick, StampAge DEF Tick
<1> HIDE DEF t
<1>3. Elapsed(t, r) \in Nat /\ Elapsed(t, r) <= HeartbeatTimeout
  BY <1>2, ReadingsInTick DEF SeenAge, t, Tick
<1>4. Elapsed(now, t) + Elapsed(t, r) < TickModulus
  BY <1>1, <1>2, <1>3, Bounds
<1>5. Elapsed(now, r) = Elapsed(now, t) + Elapsed(t, r)
  BY <1>1, <1>2, <1>4, ElapsedAdds
<1> QED
  BY <1>1, <1>2, <1>3, <1>5 DEF SeenAge, t

\* Right after a pass, what the pass saw is what there is.
LEMMA SeenNow ==
    ASSUME now \in Tick, NEW r \in Tick
    PROVE  Elapsed(Elapsed(now, 0), r) = Elapsed(now, r)
<1>1. 0 \in Tick
  BY TickModulusAssumption DEF Tick
<1>2. Elapsed(now, 0) = now
  BY <1>1, ElapsedUnfolded DEF Tick
<1> QED
  BY <1>2

\* A pass that leaves the watchdog alone has seen a fresh reading, which keeps
\* Noticed: the reading that looked fresh to the last pass still does, or it
\* has told the truth and the other one does now.
LEMMA PassNotices ==
    ASSUME TypeOK, Plain, TorqueOn, Aged, Noticed, ctl.everHeartbeat,
           NEW g \in Int, NEW h \in Int,
           g = Elapsed(now, ctl.graceStarted), h = Elapsed(now, ctl.lastHeartbeat),
           g <= HeartbeatTimeout \/ h <= HeartbeatTimeout
    PROVE  \/ unattended <= HeartbeatTimeout
           \/ g <= HeartbeatTimeout /\ unattended <= HeartbeatTimeout + MaxStall + g
           \/ h <= HeartbeatTimeout /\ unattended <= HeartbeatTimeout + MaxStall + h
<1>1. /\ ctl.graceStarted \in Tick /\ ctl.lastHeartbeat \in Tick /\ now \in Tick
      /\ unattended \in Nat /\ unpolled \in Nat /\ unpolled <= MaxStall
  BY Bounds DEF TypeOK, Control
<1>2. g >= 0 /\ h >= 0
  <2>1. g \in Nat /\ h \in Nat
    BY <1>1, AgeRange
  <2> QED
    BY <2>1
<1>3. g = unattended \/ (unattended <= h /\ h <= unattended + MaxStall)
  BY DEF Aged
<1>4. CASE unattended <= unpolled \/ unattended - unpolled <= HeartbeatTimeout
  BY <1>1, <1>2, <1>4, Bounds
<1>5. CASE LookedFresh(ctl.graceStarted)
  <2> DEFINE gp == SeenAge(ctl.graceStarted)
  <2>1. g = gp + unpolled /\ gp \in Nat /\ gp <= HeartbeatTimeout
        /\ unattended - unpolled <= HeartbeatTimeout + MaxStall + gp
    BY <1>1, <1>5, SeenAges DEF LookedFresh
  <2> HIDE DEF gp
  <2> QED
    BY <1>1, <1>2, <1>3, <2>1, Bounds
<1>6. CASE LookedFresh(ctl.lastHeartbeat)
  <2> DEFINE hp == SeenAge(ctl.lastHeartbeat)
  <2>1. h = hp + unpolled /\ hp \in Nat /\ hp <= HeartbeatTimeout
        /\ unattended - unpolled <= HeartbeatTimeout + MaxStall + hp
    BY <1>1, <1>6, SeenAges DEF LookedFresh
  <2> HIDE DEF hp
  <2> QED
    BY <1>1, <1>2, <1>3, <2>1, Bounds
<1> QED
  BY <1>1, <1>4, <1>5, <1>6 DEF Noticed

-----------------------------------------------------------------------------
(***************************************************************************)
(* The pass keeps the invariant.                                           *)
(***************************************************************************)
\* The record a pass starts from: as it is, or with the stop latched by a
\* fault of the receiver.
Entered(c) ==
    /\ c \in Control /\ Calm(c.safety)
    /\ SameWatch(ctl, c) /\ SameStream(ctl, c) /\ SamePower(ctl, c)
    /\ c.tick = ctl.tick /\ ~c.goalSent
    /\ ctl.stopLatched => c.stopLatched
    /\ c.stopLatched \/ c.safety = ctl.safety

\* One pass over such a record keeps the invariant: what it does not stop was
\* supervised, heard and unlatched when it served the executor.
LEMMA PassKeeps ==
    ASSUME IInv, NEW c, Entered(c), NEW in \in ServiceInput(ctl), NEW io \in Io(ctl),
           ctl' = Service(c, in, io), served' = TRUE, unpolled' = 0,
           UNCHANGED <<world, now, unattended>>
    PROVE  IInv'
<1>1. /\ ctl \in Control /\ Sound(ctl) /\ now \in Tick /\ c \in Control
      /\ ctl.tracking \in BOOLEAN
  BY DEF IInv, TypeOK, Entered, Control
<1>2. /\ io \in Transactions
      /\ "IO_FAILS" \notin world => io.left /\ io.right
  BY <1>1, IoOutcomes
<1>3. /\ in.feedback \in {"NONE", "FAULT", "TRACKING_ERROR", "SETTLED"}
      /\ ctl.tracking /\ in.feedback = "SETTLED" => ctl.settling /\ ctl.dispatch = "IDLE"
  BY <1>1 DEF ServiceInput
<1>4. Sound(c)
  BY <1>1 DEF Entered, Sound, SameStream
<1>5. PICK m \in Control :
        /\ ctl' \in Control /\ Sound(ctl') /\ Carried(m, ctl')
        /\ (Stopped(c, m, io) /\ m.dispatch = "FAULTED") \/ Passed(c, m)
  <2>1. c.tracking /\ in.feedback = "SETTLED" => c.settling /\ c.dispatch = "IDLE"
    BY <1>3 DEF Entered, SameStream
  <2> QED
    BY <1>1, <1>2, <1>3, <1>4, <2>1, PassServed
<1> DEFINE d == ctl'
<1> USE DEF SameWatch, SamePower, SameStream
<1>6. TypeOK' /\ Sound(ctl)'
  BY <1>5, Bounds DEF IInv, TypeOK
<1>7. CASE Stopped(c, m, io) /\ m.dispatch = "FAULTED"
  <2>1. /\ ~d.tracking /\ ~Going(d) /\ ~d.goalSent
        /\ "IO_FAILS" \notin world => ~d.leftOn /\ ~d.rightOn
        /\ ~d.servosConfigured
    BY <1>2, <1>5, <1>7 DEF Stopped, Carried, Going, Entered
  <2>2. Followed' /\ RightWatched' /\ GoingIsLed' /\ GoalsAuthorised'
    BY <2>1 DEF Followed, RightWatched, RightArmSupervised, GoingIsLed, GoalsAuthorised,
                NoRestarts
  <2>4. Plain => ~TorqueOn'
    BY <2>1 DEF Plain, TorqueOn
  <2>5. TorqueIsWatched' /\ StopTakesEffect' /\ Aged' /\ Noticed' /\ UnattendedArmsLoseTorque'
    BY <2>1, <2>4, Zenon
       DEF TorqueIsWatched, StopTakesEffect, Aged, Noticed, UnattendedArmsLoseTorque, Plain
  <2> QED
    BY <1>6, <2>2, <2>5 DEF IInv
<1>8. CASE Passed(c, m)
  <2>1. /\ d.servosConfigured = ctl.servosConfigured
        /\ d.rightOutputActive = ctl.rightOutputActive
        /\ d.graceStarted = ctl.graceStarted /\ d.lastHeartbeat = ctl.lastHeartbeat
        /\ d.everHeartbeat = ctl.everHeartbeat
        /\ d.leftOn = ctl.leftOn /\ d.rightOn = ctl.rightOn
        /\ d.tracking => ctl.tracking
        /\ d.executor = "RUNNING" /\ ~d.tracking => ctl.executor = "RUNNING" /\ ~ctl.tracking
        /\ Going(d) \/ d.goalSent => Going(ctl) /\ d.stopLatched = m.stopLatched
        /\ d.safety = m.safety /\ (m.stopLatched => ~d.rightOutputActive)
        /\ ~m.stopLatched => ~ctl.stopLatched /\ m.safety = ctl.safety
        /\ d.stopLatched => m.stopLatched \/ d.stopPending
    BY <1>5, <1>8 DEF Carried, Passed, Entered, Going
  <2>2. Followed' /\ RightWatched'
    BY <2>1 DEF IInv, Followed, RightWatched, RightArmSupervised, NoRestarts
  <2>3. GoingIsLed' /\ GoalsAuthorised'
    <3>1. SUFFICES ASSUME world \cap {"PIPELINED", "RESTARTS"} = {}, Going(d) \/ d.goalSent
                   PROVE  /\ d.rightOutputActive /\ ~d.stopLatched
                          /\ accepts_setpoint(d.safety) /\ d.servosConfigured
      BY <2>1 DEF GoingIsLed, GoalsAuthorised
    <3>2. /\ ctl.rightOutputActive
          /\ ctl.stopLatched \/ (accepts_setpoint(ctl.safety) /\ ctl.servosConfigured)
      BY <2>1, <3>1 DEF IInv, GoingIsLed
    <3> QED
      BY <2>1, <3>1, <3>2
  <2>4. TorqueIsWatched'
    BY <2>1 DEF IInv, TorqueIsWatched, TorqueOn, Plain
  <2>5. StopTakesEffect'
    <3>1. SUFFICES ASSUME Plain, TorqueOn', d.stopLatched
                   PROVE  d.stopPending
      BY DEF StopTakesEffect, Plain, NoRestarts
    <3>2. ctl.rightOutputActive
      BY <2>1, <3>1 DEF IInv, TorqueIsWatched, TorqueOn
    <3> QED
      BY <2>1, <3>1, <3>2
  <2>6. Aged' /\ UnattendedArmsLoseTorque'
    BY <2>1 DEF IInv, Aged, UnattendedArmsLoseTorque, TorqueOn, Plain,
                NoRestarts
  <2>7. Noticed'
    <3>1. SUFFICES ASSUME Plain, TorqueOn'
                   PROVE  Noticed'
      BY DEF Noticed, Plain
    <3>2. TorqueOn /\ ctl.rightOutputActive
      BY <2>1, <3>1 DEF IInv, TorqueIsWatched, TorqueOn
    <3>3. /\ ctl.graceStarted \in Tick /\ ctl.lastHeartbeat \in Tick
          /\ ctl.everHeartbeat \in BOOLEAN
      BY <1>1 DEF Control
    <3> DEFINE g == Elapsed(now, ctl.graceStarted)
               h == Elapsed(now, ctl.lastHeartbeat)
    <3>4. g \in Int /\ h \in Int
      BY <1>1, <3>3, AgeRange
    <3>5. ctl.everHeartbeat /\ (g <= HeartbeatTimeout \/ h <= HeartbeatTimeout)
      BY <1>5, <1>8, <2>1, <3>2, <3>3, <3>4, HeartbeatTimeoutAssumption
         DEF Passed, WatchdogExpired, Silent, Carried, Entered
    <3>6. /\ SeenAge(ctl.graceStarted)' = g
          /\ SeenAge(ctl.lastHeartbeat)' = h
      BY <1>1, <2>1, <3>3, SeenNow DEF SeenAge
    <3>7. unattended \in Nat
      BY Bounds DEF IInv, TypeOK
    <3> HIDE DEF g, h
    <3>8. \/ unattended <= HeartbeatTimeout
          \/ g <= HeartbeatTimeout /\ unattended <= HeartbeatTimeout + MaxStall + g
          \/ h <= HeartbeatTimeout /\ unattended <= HeartbeatTimeout + MaxStall + h
      BY <3>1, <3>2, <3>4, <3>5, PassNotices DEF IInv, g, h
    <3> QED
      BY <2>1, <3>5, <3>6, <3>7, <3>8 DEF Noticed, LookedFresh
  <2> QED
    BY <1>6, <2>2, <2>3, <2>4, <2>5, <2>6, <2>7 DEF IInv
<1> QED
  BY <1>5, <1>7, <1>8

-----------------------------------------------------------------------------
(***************************************************************************)
(* Frames and interrupts.                                                  *)
(***************************************************************************)
\* Nothing but the history of the goal of the last pass is gone.
LEMMA CurrentIs ==
    ASSUME TypeOK
    PROVE  /\ Current \in Control /\ ~Current.goalSent
           /\ SameWatch(ctl, Current) /\ SameStream(ctl, Current) /\ SamePower(ctl, Current)
           /\ Current.tick = ctl.tick /\ Current.safety = ctl.safety
           /\ Current.stopLatched = ctl.stopLatched /\ Current.stopPending = ctl.stopPending
<1>1. ctl \in Control /\ Current = [ctl EXCEPT !.goalSent = FALSE]
  BY DEF TypeOK, Current
<1>2. Current \in Control
  BY <1>1 DEF Control
<1> QED
  BY <1>1, <1>2 DEF Control, SameWatch, SameStream, SamePower

\* What the stream asks of the session, where frames wait for their answers.
Led(c) ==
    Going(c) =>
        /\ c.rightOutputActive
        /\ c.stopLatched \/ (accepts_setpoint(c.safety) /\ c.servosConfigured)

\* The record a frame or an interrupt leaves behind fits the invariant.
Fits(c) ==
    /\ c \in Control /\ Sound(c) /\ ~c.goalSent
    /\ NoRestarts => (c.tracking => c.rightOutputActive)
    /\ NoRestarts /\ "IO_FAILS" \notin world => (c.rightOn => c.rightOutputActive)
    /\ Plain =>
         /\ c.leftOn \/ c.rightOn => c.rightOutputActive
         /\ c.tracking => c.rightOn
         /\ c.servosConfigured => c.rightOn
         /\ c.executor = "RUNNING" /\ ~c.tracking => ~c.leftOn /\ ~c.rightOn

\* What a frame leaves behind keeps every part that does not speak of time.
LEMMA FrameKeeps ==
    ASSUME IInv, NEW c, Fits(c), Frame(c),
           world \cap {"PIPELINED", "RESTARTS"} = {} => Led(c)
    PROVE  /\ Sound(ctl)' /\ ctl' \in Control /\ served' \in BOOLEAN
           /\ Followed' /\ RightWatched'
           /\ GoingIsLed' /\ GoalsAuthorised'
           /\ TorqueIsWatched' /\ StopTakesEffect'
<1>1. ctl' = c /\ served' = FALSE /\ world' = world
  BY DEF Frame
<1>2. /\ Sound(ctl)' /\ ctl' \in Control /\ served' \in BOOLEAN
      /\ Followed' /\ RightWatched' /\ GoalsAuthorised' /\ StopTakesEffect'
  BY <1>1 DEF Fits, Followed, RightWatched, RightArmSupervised, GoalsAuthorised,
              StopTakesEffect, NoRestarts
<1>3. GoingIsLed'
  BY <1>1 DEF GoingIsLed, Led
<1>4. TorqueIsWatched'
  BY <1>1 DEF Fits, TorqueIsWatched, TorqueOn, Plain
<1> QED
  BY <1>2, <1>3, <1>4

\* Torque that was already on keeps the age of what attended to it.
LEMMA TimeKept ==
    ASSUME IInv, UNCHANGED <<world, now, unpolled, unattended>>,
           Plain /\ TorqueOn' =>
             /\ TorqueOn
             /\ ctl'.graceStarted = ctl.graceStarted
             /\ ctl'.lastHeartbeat = ctl.lastHeartbeat
             /\ ctl'.everHeartbeat = ctl.everHeartbeat
    PROVE  Aged' /\ Noticed' /\ UnattendedArmsLoseTorque'
<1>1. Plain' = Plain
  BY DEF Plain
<1>2. Aged'
  BY <1>1 DEF IInv, Aged
<1>3. Noticed'
  BY <1>1 DEF IInv, Noticed, LookedFresh, SeenAge
<1>4. UnattendedArmsLoseTorque'
  BY <1>1 DEF IInv, UnattendedArmsLoseTorque
<1> QED
  BY <1>2, <1>3, <1>4

\* A frame that is no heartbeat and configures nothing.
LEMMA QuietFrame ==
    ASSUME IInv, NEW c, Fits(c), Frame(c), UNCHANGED unattended,
           world \cap {"PIPELINED", "RESTARTS"} = {} => Led(c),
           Plain /\ (c.leftOn \/ c.rightOn) =>
             /\ TorqueOn
             /\ c.graceStarted = ctl.graceStarted
             /\ c.lastHeartbeat = ctl.lastHeartbeat
             /\ c.everHeartbeat = ctl.everHeartbeat
    PROVE  IInv'
<1>1. /\ Sound(ctl)' /\ ctl' \in Control /\ served' \in BOOLEAN
      /\ Followed' /\ RightWatched' /\ GoingIsLed' /\ GoalsAuthorised'
      /\ TorqueIsWatched' /\ StopTakesEffect'
  BY FrameKeeps
<1>2. ctl' = c /\ UNCHANGED <<world, now, unpolled, unattended>>
  BY DEF Frame
<1>3. Aged' /\ Noticed' /\ UnattendedArmsLoseTorque'
  BY <1>2, TimeKept DEF TorqueOn
<1>4. TypeOK'
  BY <1>1, <1>2 DEF IInv, TypeOK
<1> QED
  BY <1>1, <1>3, <1>4 DEF IInv

\* What the invariant says of the record a frame starts from.
LEMMA FrameStart ==
    ASSUME IInv, served \/ "PIPELINED" \in world
    PROVE  /\ Current \in Control /\ Fits(Current)
           /\ world \cap {"PIPELINED", "RESTARTS"} = {} /\ Going(Current) =>
                /\ Current.rightOutputActive /\ ~Current.stopLatched
                /\ accepts_setpoint(Current.safety) /\ Current.servosConfigured
           /\ Current.graceStarted = ctl.graceStarted
           /\ Current.lastHeartbeat = ctl.lastHeartbeat
           /\ Current.everHeartbeat = ctl.everHeartbeat
           /\ TorqueOn = (Current.leftOn \/ Current.rightOn)
<1>1. /\ Current \in Control /\ ~Current.goalSent
      /\ SameWatch(ctl, Current) /\ SameStream(ctl, Current) /\ SamePower(ctl, Current)
      /\ Current.tick = ctl.tick /\ Current.safety = ctl.safety
      /\ Current.stopLatched = ctl.stopLatched /\ Current.stopPending = ctl.stopPending
  BY CurrentIs DEF IInv
<1> USE DEF SameWatch, SameStream, SamePower
<1>2. Sound(Current)
  BY <1>1 DEF IInv, Sound
<1>3. /\ NoRestarts => (Current.tracking => Current.rightOutputActive)
      /\ NoRestarts /\ "IO_FAILS" \notin world =>
           (Current.rightOn => Current.rightOutputActive)
  BY <1>1 DEF IInv, Followed, RightWatched, RightArmSupervised
<1>4. Plain =>
         /\ Current.leftOn \/ Current.rightOn => Current.rightOutputActive
         /\ Current.tracking => Current.rightOn
         /\ Current.servosConfigured => Current.rightOn
         /\ Current.executor = "RUNNING" /\ ~Current.tracking =>
              ~Current.leftOn /\ ~Current.rightOn
  BY <1>1 DEF IInv, TorqueIsWatched, TorqueOn
<1>5. world \cap {"PIPELINED", "RESTARTS"} = {} /\ Going(Current) =>
        /\ Current.rightOutputActive /\ ~Current.stopLatched
        /\ accepts_setpoint(Current.safety) /\ Current.servosConfigured
  BY <1>1 DEF IInv, GoingIsLed, Going
<1> QED
  BY <1>1, <1>2, <1>3, <1>4, <1>5 DEF Fits, TorqueOn

\* A frame that changes the safety machine and the latch only, and as the stream
\* allows.
LEMMA SafetyFrame ==
    ASSUME IInv, NEW c, Frame(c), UNCHANGED unattended,
           c \in Control, ~c.goalSent, Calm(c.safety),
           SameWatch(Current, c), SameStream(Current, c), SamePower(Current, c),
           c.tick = Current.tick,
           accepts_setpoint(Current.safety) /\ ~Current.stopLatched =>
             c.stopLatched \/ accepts_setpoint(c.safety)
    PROVE  IInv'
<1>1. /\ Current \in Control /\ Fits(Current)
      /\ world \cap {"PIPELINED", "RESTARTS"} = {} /\ Going(Current) =>
           /\ Current.rightOutputActive /\ ~Current.stopLatched
           /\ accepts_setpoint(Current.safety) /\ Current.servosConfigured
      /\ Current.graceStarted = ctl.graceStarted
      /\ Current.lastHeartbeat = ctl.lastHeartbeat
      /\ Current.everHeartbeat = ctl.everHeartbeat
      /\ TorqueOn = (Current.leftOn \/ Current.rightOn)
  BY FrameStart DEF Frame
<1> USE DEF SameWatch, SameStream, SamePower
<1>2. Fits(c)
  BY <1>1 DEF Fits, Sound
<1>3. world \cap {"PIPELINED", "RESTARTS"} = {} => Led(c)
  BY <1>1 DEF Led, Going
<1>4. Plain /\ (c.leftOn \/ c.rightOn) =>
        /\ TorqueOn
        /\ c.graceStarted = ctl.graceStarted
        /\ c.lastHeartbeat = ctl.lastHeartbeat
        /\ c.everHeartbeat = ctl.everHeartbeat
  BY <1>1
<1> QED
  BY <1>2, <1>3, <1>4, QuietFrame

\* HEARTBEAT restarts the time the arms are left alone at the delay of its frame.
LEMMA HeartbeatKeeps == IInv /\ Heartbeat => IInv'
<1> SUFFICES ASSUME IInv, Heartbeat PROVE IInv'
  OBVIOUS
<1>0. PICK delay \in 0 .. unpolled :
        LET stamp == Elapsed(now, delay)
        IN  /\ Frame([Current EXCEPT !.lastHeartbeat = stamp, !.everHeartbeat = TRUE,
                                     !.safety = on_heartbeat(@, stamp)])
            /\ unattended' = Smaller(unattended, delay)
  BY Zenon DEF Heartbeat
<1>1. /\ Current \in Control /\ Fits(Current)
      /\ world \cap {"PIPELINED", "RESTARTS"} = {} /\ Going(Current) =>
           /\ Current.rightOutputActive /\ ~Current.stopLatched
           /\ accepts_setpoint(Current.safety) /\ Current.servosConfigured
      /\ Current.graceStarted = ctl.graceStarted
      /\ Current.lastHeartbeat = ctl.lastHeartbeat
      /\ Current.everHeartbeat = ctl.everHeartbeat
      /\ TorqueOn = (Current.leftOn \/ Current.rightOn)
      /\ Calm(Current.safety) /\ now \in Tick
  BY <1>0, FrameStart DEF Frame, Fits, Sound, IInv, TypeOK
<1>2. /\ delay \in Nat /\ delay <= unpolled /\ delay \in Tick /\ delay <= MaxStall
      /\ unpolled \in Nat /\ unpolled <= MaxStall /\ unattended \in Nat
      /\ unattended <= MaxUnattended + 1
  BY Bounds DEF IInv, TypeOK
<1> DEFINE stamp == Elapsed(now, delay)
           s == on_heartbeat(Current.safety, stamp)
           c == [Current EXCEPT !.lastHeartbeat = stamp, !.everHeartbeat = TRUE,
                                !.safety = s]
<1>3. Frame(c) /\ unattended' = Smaller(unattended, delay)
  BY <1>0, <1>1 DEF Control
<1>4. stamp \in Tick /\ Elapsed(now, stamp) = delay
  BY <1>1, <1>2, StampAge, AgeRange
<1> HIDE DEF stamp
<1>5. Calm(s) /\ (accepts_setpoint(Current.safety) => accepts_setpoint(s)) /\ s \in Safety
  BY <1>1, <1>4, SafetyCalls, SafetyAnswers, Zenon DEF Calm
<1> HIDE DEF s
<1>6. c \in Control
  BY <1>1, <1>4, <1>5 DEF Control
<1>7. /\ c.lastHeartbeat = stamp /\ c.everHeartbeat /\ c.safety = s
      /\ c.graceStarted = ctl.graceStarted /\ c.servosConfigured = Current.servosConfigured
      /\ c.rightOutputActive = Current.rightOutputActive
      /\ SameStream(Current, c) /\ SamePower(Current, c) /\ c.tick = Current.tick
      /\ c.stopLatched = Current.stopLatched /\ c.goalSent = Current.goalSent
  BY <1>1 DEF Control, SameStream, SamePower
<1> HIDE DEF c
<1> USE DEF SameStream, SamePower
<1>8. Fits(c)
  BY <1>1, <1>5, <1>6, <1>7 DEF Fits, Sound
<1>9. world \cap {"PIPELINED", "RESTARTS"} = {} => Led(c)
  BY <1>1, <1>5, <1>7 DEF Led, Going
<1>10. /\ Sound(ctl)' /\ ctl' \in Control /\ served' \in BOOLEAN
       /\ Followed' /\ RightWatched' /\ GoingIsLed' /\ GoalsAuthorised'
       /\ TorqueIsWatched' /\ StopTakesEffect'
  BY <1>3, <1>8, <1>9, FrameKeeps
<1>11. /\ unattended' \in Nat /\ unattended' <= delay /\ unattended' <= unattended
       /\ unattended' = unattended \/ unattended' = delay
       /\ unattended' >= unattended \/ unattended' = delay
  BY <1>2, <1>3 DEF Smaller
<1>12. ctl' = c /\ UNCHANGED <<world, now, unpolled>>
  BY <1>3 DEF Frame
<1>13. TypeOK'
  <2>1. unattended' \in 0 .. MaxUnattended + 1
    BY <1>2, <1>11, Bounds
  <2> QED
    BY <1>10, <1>12, <2>1 DEF IInv, TypeOK
<1>14. Plain /\ TorqueOn' => TorqueOn
  BY <1>1, <1>7, <1>12 DEF TorqueOn
<1>15. Aged'
  BY <1>2, <1>4, <1>7, <1>11, <1>12, Bounds DEF Aged
<1>16. Noticed'
  BY <1>2, <1>11, <1>12 DEF Noticed
<1>17. UnattendedArmsLoseTorque'
  BY <1>2, <1>11, <1>12, <1>14, Bounds DEF IInv, UnattendedArmsLoseTorque, Plain
<1> QED
  BY <1>10, <1>13, <1>15, <1>16, <1>17 DEF IInv

\* ENABLE touches the safety machine alone.
LEMMA EnableKeeps == IInv /\ Enable => IInv'
<1> SUFFICES ASSUME IInv, Enable PROVE IInv'
  OBVIOUS
<1>1. /\ Current \in Control /\ Fits(Current)
      /\ world \cap {"PIPELINED", "RESTARTS"} = {} /\ Going(Current) =>
           /\ Current.rightOutputActive /\ ~Current.stopLatched
           /\ accepts_setpoint(Current.safety) /\ Current.servosConfigured
      /\ Current.graceStarted = ctl.graceStarted
      /\ Current.lastHeartbeat = ctl.lastHeartbeat
      /\ Current.everHeartbeat = ctl.everHeartbeat
      /\ TorqueOn = (Current.leftOn \/ Current.rightOn)
      /\ Calm(Current.safety) /\ now \in Tick
  BY FrameStart DEF Enable, Frame, Fits, Sound, IInv, TypeOK
<1> DEFINE s == request_enable(Current.safety, now)
           c == [Current EXCEPT !.safety = s]
<1>2. Frame(c) /\ UNCHANGED unattended
  BY <1>1 DEF Enable, Control
<1>3. /\ Calm(s) /\ s \in Safety
      /\ (accepts_setpoint(Current.safety) => s = Current.safety)
  <2>1. Calm(Current.safety) /\ now \in Tick
    BY <1>1
  <2>2. Calm(s)
    BY <2>1, SafetyCalls, Zenon
  <2>3. accepts_setpoint(Current.safety) => s = Current.safety
    BY DEF accepts_setpoint, request_enable, EnablePermitted
  <2> QED
    BY <2>2, <2>3, Zenon DEF Calm
<1> HIDE DEF s
<1>4. c \in Control
  BY <1>1, <1>3 DEF Control
<1>5. /\ ~c.goalSent /\ c.safety = s
      /\ SameWatch(Current, c) /\ SameStream(Current, c) /\ SamePower(Current, c)
      /\ c.tick = Current.tick /\ c.stopLatched = Current.stopLatched
  BY <1>1 DEF Control, Fits, SameWatch, SameStream, SamePower
<1> HIDE DEF c
<1> QED
  BY <1>2, <1>3, <1>4, <1>5, SafetyFrame

\* HOLD latches the stop of a session that moves.
LEMMA HoldKeeps == IInv /\ Hold => IInv'
<1> SUFFICES ASSUME IInv, Hold PROVE IInv'
  OBVIOUS
<1>1. /\ Current \in Control /\ Fits(Current)
      /\ world \cap {"PIPELINED", "RESTARTS"} = {} /\ Going(Current) =>
           /\ Current.rightOutputActive /\ ~Current.stopLatched
           /\ accepts_setpoint(Current.safety) /\ Current.servosConfigured
      /\ Current.graceStarted = ctl.graceStarted
      /\ Current.lastHeartbeat = ctl.lastHeartbeat
      /\ Current.everHeartbeat = ctl.everHeartbeat
      /\ TorqueOn = (Current.leftOn \/ Current.rightOn)
      /\ Calm(Current.safety) /\ now \in Tick
  BY FrameStart DEF Hold, Frame, Fits, Sound, IInv, TypeOK
<1> DEFINE e == HoldIfMoving(Current)
           c == IF accepts_setpoint(ctl.safety) THEN LatchStop(e) ELSE Current
<1>2. Frame(c) /\ UNCHANGED unattended
  BY Zenon DEF Hold
<1>3. /\ e \in Control
      /\ SameWatch(Current, e) /\ SameStream(Current, e) /\ SamePower(Current, e)
      /\ e.tick = Current.tick /\ Calm(e.safety) /\ e.goalSent = Current.goalSent
  BY <1>1, MovingHeld
<1> HIDE DEF e
<1>4. CASE accepts_setpoint(ctl.safety)
  <2>1. c = LatchStop(e)
    BY <1>4
  <2> HIDE DEF c
  <2>2. /\ c \in Control
        /\ SameWatch(e, c) /\ SameStream(e, c) /\ SamePower(e, c) /\ c.tick = e.tick
        /\ c.stopLatched /\ c.safety = e.safety /\ c.goalSent = e.goalSent
    BY <1>3, <2>1, StopLatches
  <2>3. /\ SameWatch(Current, c) /\ SameStream(Current, c) /\ SamePower(Current, c)
        /\ ~c.goalSent
    BY <1>1, <1>3, <2>2 DEF SameWatch, SameStream, SamePower, Fits
  <2> QED
    BY <1>2, <1>3, <2>2, <2>3, SafetyFrame
<1>5. CASE ~accepts_setpoint(ctl.safety)
  <2>1. c = Current
    BY <1>5
  <2> HIDE DEF c
  <2>2. SameWatch(Current, c) /\ SameStream(Current, c) /\ SamePower(Current, c) /\ ~c.goalSent
    BY <1>1, <2>1 DEF SameWatch, SameStream, SamePower, Fits
  <2> QED
    BY <1>1, <1>2, <2>1, <2>2, SafetyFrame
<1> QED
  BY <1>4, <1>5

\* A stop that CLEAR_FAULT clears has ended its stream, where frames wait for
\* their answers.
LEMMA ClearFaultKeeps == IInv /\ ClearFault => IInv'
<1> SUFFICES ASSUME IInv, ClearFault PROVE IInv'
  OBVIOUS
<1>1. /\ Current \in Control /\ Fits(Current)
      /\ world \cap {"PIPELINED", "RESTARTS"} = {} /\ Going(Current) =>
           /\ Current.rightOutputActive /\ ~Current.stopLatched
           /\ accepts_setpoint(Current.safety) /\ Current.servosConfigured
      /\ Current.graceStarted = ctl.graceStarted
      /\ Current.lastHeartbeat = ctl.lastHeartbeat
      /\ Current.everHeartbeat = ctl.everHeartbeat
      /\ TorqueOn = (Current.leftOn \/ Current.rightOn)
      /\ Calm(Current.safety) /\ now \in Tick
  BY FrameStart DEF ClearFault, Frame, Fits, Sound, IInv, TypeOK
<1> DEFINE s == IF ctl.safety.state \in {"FAULT", "ESTOPPED"}
                THEN clear_latched_stop(ctl.safety, TRUE)
                ELSE IF ctl.safety.state = "SAFE_DISABLED" THEN ctl.safety
                ELSE request_disable(ctl.safety)
           cleared == [Current EXCEPT !.safety = s, !.stopLatched = FALSE, !.rxFaulted = FALSE]
<1>2. UNCHANGED unattended /\ ((ctl.stopLatched /\ Frame(cleared)) \/ Frame(Current))
  <2>1. PICK io \in Io(ctl) :
          Frame(IF ~ctl.stopLatched \/ ~(io.left /\ ~io.pending /\ ctl.dispatch # "ACTIVE")
                THEN Current ELSE cleared)
    BY Zenon DEF ClearFault
  <2>2. UNCHANGED unattended
    BY DEF ClearFault
  <2>3. CASE ~ctl.stopLatched \/ ~(io.left /\ ~io.pending /\ ctl.dispatch # "ACTIVE")
    <3> HIDE DEF cleared
    <3> QED
      BY <2>1, <2>2, <2>3
  <2>4. CASE ctl.stopLatched /\ (io.left /\ ~io.pending /\ ctl.dispatch # "ACTIVE")
    <3> HIDE DEF cleared
    <3> QED
      BY <2>1, <2>2, <2>4
  <2> QED
    BY <2>3, <2>4
<1>3. Calm(s) /\ s \in Safety
  <2>1. Calm(ctl.safety) /\ TRUE \in BOOLEAN
    BY DEF IInv, Sound
  <2> QED
    BY <1>1, <2>1, SafetyCalls, Zenon DEF Calm
<1> HIDE DEF s
<1>4. cleared \in Control
  BY <1>1, <1>3 DEF Control
<1>5. /\ ~cleared.goalSent /\ cleared.safety = s
      /\ SameWatch(Current, cleared) /\ SameStream(Current, cleared)
      /\ SamePower(Current, cleared) /\ cleared.tick = Current.tick
  BY <1>1 DEF Control, Fits, SameWatch, SameStream, SamePower
<1> HIDE DEF cleared
<1>6. CASE ctl.stopLatched /\ Frame(cleared)
  <2>1. Current.stopLatched
    BY <1>6, CurrentIs DEF IInv
  <2> QED
    BY <1>2, <1>3, <1>4, <1>5, <1>6, <2>1, SafetyFrame
<1>7. CASE Frame(Current)
  <2>1. /\ SameWatch(Current, Current) /\ SameStream(Current, Current)
        /\ SamePower(Current, Current) /\ ~Current.goalSent
    BY <1>1 DEF SameWatch, SameStream, SamePower, Fits
  <2> QED
    BY <1>1, <1>2, <1>7, <2>1, SafetyFrame
<1> QED
  BY <1>2, <1>6, <1>7

\* STREAM_OPEN replaces an executor that does not run and stops its clock.
LEMMA StreamOpenKeeps == IInv /\ StreamOpen => IInv'
<1> SUFFICES ASSUME IInv, StreamOpen PROVE IInv'
  OBVIOUS
<1>1. /\ Current \in Control /\ Fits(Current)
      /\ world \cap {"PIPELINED", "RESTARTS"} = {} /\ Going(Current) =>
           /\ Current.rightOutputActive /\ ~Current.stopLatched
           /\ accepts_setpoint(Current.safety) /\ Current.servosConfigured
      /\ Current.graceStarted = ctl.graceStarted
      /\ Current.lastHeartbeat = ctl.lastHeartbeat
      /\ Current.everHeartbeat = ctl.everHeartbeat
      /\ TorqueOn = (Current.leftOn \/ Current.rightOn)
      /\ Calm(Current.safety) /\ now \in Tick
  BY FrameStart DEF StreamOpen, Frame, Fits, Sound, IInv, TypeOK
<1> DEFINE opened == [Current EXCEPT !.executor = "PRIMING", !.clockActive = FALSE,
                                     !.startPending = FALSE, !.settling = FALSE]
<1>2. UNCHANGED unattended /\ (Frame(Current) \/ Frame(opened))
  BY DEF StreamOpen
<1>3. opened \in Control
  BY <1>1 DEF Control, ExecutorState
<1>4. /\ ~opened.goalSent /\ opened.safety = Current.safety
      /\ SameWatch(Current, opened) /\ SamePower(Current, opened)
      /\ opened.tick = Current.tick /\ opened.dispatch = Current.dispatch
      /\ opened.tracking = Current.tracking /\ ~opened.clockActive /\ ~opened.settling
      /\ opened.executor = "PRIMING"
  BY <1>1 DEF Control, Fits, SameWatch, SamePower
<1> HIDE DEF opened
<1> USE DEF SameWatch, SamePower
<1>5. CASE Frame(Current)
  BY <1>1, <1>2, <1>5, QuietFrame DEF Led
<1>6. CASE Frame(opened)
  <2>1. Fits(opened) /\ Led(opened)
    BY <1>1, <1>3, <1>4 DEF Fits, Sound, Led, Going
  <2>2. Plain /\ (opened.leftOn \/ opened.rightOn) =>
          /\ TorqueOn
          /\ opened.graceStarted = ctl.graceStarted
          /\ opened.lastHeartbeat = ctl.lastHeartbeat
          /\ opened.everHeartbeat = ctl.everHeartbeat
    BY <1>1, <1>4
  <2> QED
    BY <1>2, <1>6, <2>1, <2>2, QuietFrame
<1> QED
  BY <1>2, <1>5, <1>6

\* STREAM_BATCH starts the clock only of a session that is whole.
LEMMA StreamBatchKeeps == IInv /\ StreamBatch => IInv'
<1> SUFFICES ASSUME IInv, StreamBatch PROVE IInv'
  OBVIOUS
<1>1. /\ Current \in Control /\ Fits(Current)
      /\ world \cap {"PIPELINED", "RESTARTS"} = {} /\ Going(Current) =>
           /\ Current.rightOutputActive /\ ~Current.stopLatched
           /\ accepts_setpoint(Current.safety) /\ Current.servosConfigured
      /\ Current.graceStarted = ctl.graceStarted
      /\ Current.lastHeartbeat = ctl.lastHeartbeat
      /\ Current.everHeartbeat = ctl.everHeartbeat
      /\ TorqueOn = (Current.leftOn \/ Current.rightOn)
      /\ Calm(Current.safety) /\ now \in Tick
  BY FrameStart DEF StreamBatch, Frame, Fits, Sound, IInv, TypeOK
<1> DEFINE started == [Current EXCEPT !.tracking = TRUE, !.settling = FALSE, !.tick = "NONE",
                                      !.startPending = TRUE, !.clockActive = TRUE]
<1>2. UNCHANGED unattended /\ (Frame(Current) \/ (MayStart(ctl) /\ Frame(started)))
  BY DEF StreamBatch
<1>3. started \in Control
  BY <1>1 DEF Control
<1>4. /\ ~started.goalSent /\ started.safety = Current.safety
      /\ SameWatch(Current, started) /\ SamePower(Current, started)
      /\ started.stopLatched = Current.stopLatched
      /\ started.dispatch = Current.dispatch /\ started.executor = Current.executor
      /\ started.tracking /\ ~started.settling
  BY <1>1 DEF Control, Fits, SameWatch, SamePower
<1> HIDE DEF started
<1> USE DEF SameWatch, SamePower
<1>5. CASE Frame(Current)
  BY <1>1, <1>2, <1>5, QuietFrame DEF Led
<1>6. CASE MayStart(ctl) /\ Frame(started)
  <2>1. /\ Current.servosConfigured /\ Current.rightOutputActive
        /\ accepts_setpoint(Current.safety)
    BY <1>6, CurrentIs DEF IInv, MayStart
  <2>2. Fits(started) /\ Led(started)
    BY <1>1, <1>3, <1>4, <2>1 DEF Fits, Sound, Led, Going
  <2>3. Plain /\ (started.leftOn \/ started.rightOn) =>
          /\ TorqueOn
          /\ started.graceStarted = ctl.graceStarted
          /\ started.lastHeartbeat = ctl.lastHeartbeat
          /\ started.everHeartbeat = ctl.everHeartbeat
    BY <1>1, <1>4
  <2> QED
    BY <1>2, <1>6, <2>2, <2>3, QuietFrame
<1> QED
  BY <1>2, <1>5, <1>6

\* SAFE_STOP performs the coordinated stop itself.
LEMMA SafeStopKeeps == IInv /\ SafeStop => IInv'
<1> SUFFICES ASSUME IInv, SafeStop PROVE IInv'
  OBVIOUS
<1>0. PICK io \in Io(ctl) :
        Frame(PerformCoordinatedStop(LatchStop(HoldIfMoving(Current)), FALSE, io))
  BY Zenon DEF SafeStop
<1>1. /\ Current \in Control /\ Fits(Current)
      /\ world \cap {"PIPELINED", "RESTARTS"} = {} /\ Going(Current) =>
           /\ Current.rightOutputActive /\ ~Current.stopLatched
           /\ accepts_setpoint(Current.safety) /\ Current.servosConfigured
      /\ Current.graceStarted = ctl.graceStarted
      /\ Current.lastHeartbeat = ctl.lastHeartbeat
      /\ Current.everHeartbeat = ctl.everHeartbeat
      /\ TorqueOn = (Current.leftOn \/ Current.rightOn)
      /\ Calm(Current.safety) /\ now \in Tick
  BY <1>0, FrameStart DEF Frame, Fits, Sound, IInv, TypeOK
<1> DEFINE held == HoldIfMoving(Current)
           latched == LatchStop(held)
           c == PerformCoordinatedStop(latched, FALSE, io)
<1>2. /\ io \in Transactions
      /\ "IO_FAILS" \notin world => io.left /\ io.right
  BY IoOutcomes DEF IInv, TypeOK
<1>3. /\ held \in Control
      /\ SameWatch(Current, held) /\ SameStream(Current, held) /\ SamePower(Current, held)
      /\ held.tick = Current.tick /\ Calm(held.safety)
      /\ held.goalSent = Current.goalSent
  BY <1>1, MovingHeld
<1>4. /\ latched \in Control
      /\ SameWatch(held, latched) /\ SameStream(held, latched) /\ SamePower(held, latched)
      /\ latched.tick = held.tick /\ latched.safety = held.safety
      /\ latched.goalSent = held.goalSent
  BY <1>3, StopLatches
<1>5. c \in Control /\ Stopped(latched, c, io)
  BY <1>2, <1>3, <1>4, StopPerformed
<1>6. Frame(c) /\ UNCHANGED unattended
  BY <1>0 DEF SafeStop
<1> HIDE DEF c, held, latched
<1>7. /\ Fits(c) /\ Led(c)
      /\ "IO_FAILS" \notin world => ~c.leftOn /\ ~c.rightOn
  BY <1>1, <1>2, <1>3, <1>4, <1>5 DEF Stopped, Fits, Sound, Led, Going, Plain
<1>8. Plain => "IO_FAILS" \notin world
  BY DEF Plain
<1> QED
  BY <1>6, <1>7, <1>8, QuietFrame

\* DISABLE ends the supervision of the right arm only with its torque, and
\* records what it could not take off.
LEMMA DisabledIs ==
    ASSUME NEW c \in Control, Calm(c.safety), NEW io \in Transactions,
           NEW d, d = Disabled(c, io)
    PROVE  /\ d \in Control /\ Calm(d.safety)
           /\ SameStream(c, d) /\ LaterOrSame(c, d) /\ d.goalSent = c.goalSent
           /\ d.graceStarted = c.graceStarted
           /\ d.lastHeartbeat = c.lastHeartbeat /\ d.everHeartbeat = c.everHeartbeat
           /\ ~d.servosConfigured
           /\ d.leftOn = (c.leftOn /\ ~LeftVerifiedOff(c, io))
           /\ d.leftOn => d.stopLatched /\ d.safety.state = "FAULT"
           /\ IF c.rightOutputActive
              THEN IF RightVerifiedOff(c, io)
                   THEN ~d.rightOutputActive /\ ~d.rightOn
                   ELSE d.rightOutputActive /\ d.stopLatched /\ d.rightOn = c.rightOn
              ELSE ~d.rightOutputActive /\ d.rightOn = c.rightOn
<1> DEFINE s == IF c.safety.state \in {"FAULT", "ESTOPPED"} THEN c.safety
                ELSE request_disable(c.safety)
           ended == [c EXCEPT !.servosConfigured = FALSE, !.safety = s]
           left == DisableLeft(ended, io)
           judged == IF LeftVerifiedOff(c, io) THEN left ELSE LatchFault(left)
           right == DisableRight(judged, io)
<1>0. d = IF ~c.rightOutputActive THEN judged
          ELSE IF RightVerifiedOff(c, io) THEN [right EXCEPT !.rightOutputActive = FALSE]
          ELSE LatchFault(right)
  <2>1. ended = [c EXCEPT !.servosConfigured = FALSE,
                          !.safety = IF c.safety.state \in {"FAULT", "ESTOPPED"}
                                     THEN @ ELSE request_disable(@)]
    OBVIOUS
  <2> HIDE DEF ended
  <2> QED
    BY <2>1, Zenon DEF Disabled
<1>1. Calm(s) /\ s \in Safety
  <2>1. 0 \in Tick
    BY TickModulusAssumption DEF Tick
  <2> QED
    BY <2>1, SafetyCalls, Zenon DEF Calm
<1> HIDE DEF s
<1>2. ended \in Control
  BY <1>1 DEF Control
<1>3. /\ SameStream(c, ended) /\ SamePower(c, ended) /\ ended.tick = c.tick
      /\ ended.goalSent = c.goalSent /\ ended.graceStarted = c.graceStarted
      /\ ended.lastHeartbeat = c.lastHeartbeat /\ ended.everHeartbeat = c.everHeartbeat
      /\ ~ended.servosConfigured /\ ended.safety = s
      /\ ended.rightOutputActive = c.rightOutputActive
  BY DEF Control, SameStream, SamePower
<1> HIDE DEF ended
<1>4. /\ left \in Control
      /\ SameWatch(ended, left) /\ SameStream(ended, left) /\ SameStop(ended, left)
      /\ left.rightOn = ended.rightOn
      /\ left.leftOn = (ended.leftOn /\ ~LeftVerifiedOff(ended, io))
      /\ left.tick # "NONE" /\ (ended.tick # "NONE" => left.tick = "MISSED")
  BY <1>2, LeftDisabled
<1> HIDE DEF left
<1> USE DEF SameWatch, SameStream, SamePower, SameStop, LaterOrSame
<1>5. /\ left.leftOn = (c.leftOn /\ ~LeftVerifiedOff(c, io)) /\ left.rightOn = c.rightOn
      /\ SameStream(c, left) /\ LaterOrSame(c, left) /\ left.goalSent = c.goalSent
      /\ left.graceStarted = c.graceStarted
      /\ left.lastHeartbeat = c.lastHeartbeat /\ left.everHeartbeat = c.everHeartbeat
      /\ ~left.servosConfigured /\ Calm(left.safety)
      /\ left.rightOutputActive = c.rightOutputActive
  BY <1>1, <1>3, <1>4 DEF LeftVerifiedOff
<1>6. /\ judged \in Control /\ Calm(judged.safety)
      /\ SameWatch(left, judged) /\ SameStream(left, judged) /\ SamePower(left, judged)
      /\ judged.tick = left.tick /\ judged.goalSent = left.goalSent
      /\ ~LeftVerifiedOff(c, io) => judged.stopLatched /\ judged.safety.state = "FAULT"
  <2>1. CASE LeftVerifiedOff(c, io)
    BY <1>4, <1>5, <2>1
  <2>2. CASE ~LeftVerifiedOff(c, io)
    <3>1. judged = LatchFault(left)
      BY <2>2
    <3> HIDE DEF judged
    <3> QED
      BY <1>4, <1>5, <3>1, FaultLatches
  <2> QED
    BY <2>1, <2>2
<1> HIDE DEF judged
<1>7. CASE ~c.rightOutputActive
  <2>1. d = judged
    BY <1>0, <1>7
  <2> QED
    BY <1>5, <1>6, <1>7, <2>1
<1>8. CASE c.rightOutputActive
  <2>1. /\ right \in Control
        /\ SameWatch(judged, right) /\ SameStream(judged, right) /\ SameStop(judged, right)
        /\ right.leftOn = judged.leftOn
        /\ right.rightOn = (judged.rightOn /\ ~RightVerifiedOff(judged, io))
        /\ LaterOrSame(judged, right)
    BY <1>6, RightDisabled
  <2> HIDE DEF right
  <2>2. RightVerifiedOff(judged, io) = RightVerifiedOff(c, io)
    BY <1>5, <1>6 DEF RightVerifiedOff
  <2>3. CASE RightVerifiedOff(c, io)
    <3>1. d = [right EXCEPT !.rightOutputActive = FALSE]
      BY <1>0, <1>8, <2>3
    <3>2. d \in Control
      BY <2>1, <3>1 DEF Control
    <3>3. /\ ~d.rightOutputActive /\ SamePower(right, d) /\ SameStream(right, d)
          /\ SameStop(right, d) /\ d.tick = right.tick
          /\ d.graceStarted = right.graceStarted
          /\ d.lastHeartbeat = right.lastHeartbeat /\ d.everHeartbeat = right.everHeartbeat
          /\ d.servosConfigured = right.servosConfigured
      BY <2>1, <3>1 DEF Control
    <3>4. /\ d.leftOn = (c.leftOn /\ ~LeftVerifiedOff(c, io)) /\ ~d.rightOn
          /\ d.safety = judged.safety /\ d.stopLatched = judged.stopLatched
      <4>1. d.leftOn = right.leftOn /\ d.rightOn = right.rightOn
        BY <3>3
      <4>2. right.leftOn = judged.leftOn /\ ~right.rightOn
        BY <2>1, <2>2, <2>3
      <4>3. judged.leftOn = left.leftOn
        BY <1>6
      <4>4. d.safety = right.safety /\ d.stopLatched = right.stopLatched
        BY <3>3
      <4>5. right.safety = judged.safety /\ right.stopLatched = judged.stopLatched
        BY <2>1
      <4>6. left.leftOn = (c.leftOn /\ ~LeftVerifiedOff(c, io))
        BY <1>5
      <4> QED
        BY <4>1, <4>2, <4>3, <4>4, <4>5, <4>6
    <3>5. d.leftOn => d.stopLatched /\ d.safety.state = "FAULT"
      BY <1>6, <3>4
    <3>6. /\ SameStream(c, d) /\ LaterOrSame(c, d) /\ d.goalSent = c.goalSent
          /\ d.graceStarted = c.graceStarted
          /\ d.lastHeartbeat = c.lastHeartbeat /\ d.everHeartbeat = c.everHeartbeat
          /\ ~d.servosConfigured
      BY <1>5, <1>6, <2>1, <3>3
    <3> QED
      BY <1>6, <1>8, <2>3, <3>2, <3>3, <3>4, <3>5, <3>6
  <2>4. CASE ~RightVerifiedOff(c, io)
    <3>1. d = LatchFault(right) /\ Calm(right.safety)
      BY <1>0, <1>6, <1>8, <2>1, <2>4
    <3>2. /\ d \in Control
          /\ SameWatch(right, d) /\ SameStream(right, d) /\ SamePower(right, d)
          /\ d.tick = right.tick
          /\ d.stopLatched /\ Calm(d.safety) /\ d.safety.state = "FAULT"
          /\ d.goalSent = right.goalSent
      BY <2>1, <3>1, FaultLatches
    <3>3. d.rightOn = c.rightOn
      BY <1>5, <1>6, <2>1, <2>2, <2>4, <3>2 DEF Control
    <3> QED
      BY <1>5, <1>6, <1>8, <2>1, <2>4, <3>2, <3>3
  <2> QED
    BY <2>3, <2>4
<1> QED
  BY <1>7, <1>8

\* DISABLE ends supervision of the right arm only when its torque is off.
LEMMA DisableKeeps == IInv /\ Disable => IInv'
<1> SUFFICES ASSUME IInv, Disable PROVE IInv'
  OBVIOUS
<1>0. PICK io \in Io(ctl) : Frame(Disabled(Current, io))
  BY Zenon DEF Disable
<1>1. /\ Current \in Control /\ Fits(Current)
      /\ world \cap {"PIPELINED", "RESTARTS"} = {} /\ Going(Current) =>
           /\ Current.rightOutputActive /\ ~Current.stopLatched
           /\ accepts_setpoint(Current.safety) /\ Current.servosConfigured
      /\ Current.graceStarted = ctl.graceStarted
      /\ Current.lastHeartbeat = ctl.lastHeartbeat
      /\ Current.everHeartbeat = ctl.everHeartbeat
      /\ TorqueOn = (Current.leftOn \/ Current.rightOn)
      /\ Calm(Current.safety) /\ now \in Tick
  BY <1>0, FrameStart DEF Frame, Fits, Sound, IInv, TypeOK
<1> DEFINE c == Disabled(Current, io)
<1>2. /\ io \in Transactions
      /\ io.pending => ctl.tracking
      /\ "IO_FAILS" \notin world => io.left /\ io.right
  BY IoOutcomes DEF IInv, TypeOK
<1>3. /\ c \in Control /\ Calm(c.safety)
      /\ SameStream(Current, c) /\ LaterOrSame(Current, c) /\ c.goalSent = Current.goalSent
      /\ c.graceStarted = Current.graceStarted
      /\ c.lastHeartbeat = Current.lastHeartbeat
      /\ c.everHeartbeat = Current.everHeartbeat
      /\ ~c.servosConfigured
      /\ c.leftOn = (Current.leftOn /\ ~LeftVerifiedOff(Current, io))
      /\ c.leftOn => c.stopLatched /\ c.safety.state = "FAULT"
      /\ IF Current.rightOutputActive
         THEN IF RightVerifiedOff(Current, io)
              THEN ~c.rightOutputActive /\ ~c.rightOn
              ELSE c.rightOutputActive /\ c.stopLatched /\ c.rightOn = Current.rightOn
         ELSE ~c.rightOutputActive /\ c.rightOn = Current.rightOn
  BY <1>1, <1>2, DisabledIs
<1>4. Frame(c) /\ UNCHANGED unattended
  BY <1>0 DEF Disable
<1>5. io.pending => Current.tracking
  BY <1>2, CurrentIs DEF IInv, SameStream
<1> HIDE DEF c
<1> USE DEF SameStream, LaterOrSame
<1>6. /\ Sound(c) /\ (c.tracking => ~RightVerifiedOff(Current, io))
  BY <1>1, <1>3 DEF Fits, Sound, RightVerifiedOff
<1>7. Plain /\ (c.leftOn \/ c.rightOn) => c.rightOutputActive
  <2>1. SUFFICES ASSUME Plain, c.leftOn \/ c.rightOn, ~c.rightOutputActive
                 PROVE  FALSE
    OBVIOUS
  <2>2. Current.rightOutputActive /\ RightVerifiedOff(Current, io)
    BY <1>1, <1>3, <2>1 DEF Fits
  <2>3. LeftVerifiedOff(Current, io)
    BY <1>2, <1>5, <2>1, <2>2 DEF LeftVerifiedOff, RightVerifiedOff, Plain
  <2> QED
    BY <1>3, <2>1, <2>2, <2>3
<1>8. Fits(c)
  BY <1>1, <1>3, <1>6, <1>7 DEF Fits
<1>9. world \cap {"PIPELINED", "RESTARTS"} = {} => Led(c)
  <2>1. SUFFICES ASSUME world \cap {"PIPELINED", "RESTARTS"} = {}, Going(c)
                 PROVE  c.rightOutputActive /\ c.stopLatched
    BY DEF Led
  <2>2. c.tracking /\ Current.rightOutputActive
    BY <1>1, <1>3, <1>6, <2>1 DEF Going, Sound
  <2> QED
    BY <1>3, <1>6, <2>2
<1> QED
  BY <1>1, <1>3, <1>4, <1>8, <1>9, QuietFrame

\* PREPARE_SHADOW ends supervision either way, and records what it could not
\* take torque off.
LEMMA PreparedIs ==
    ASSUME NEW c \in Control, Calm(c.safety), NEW io \in Transactions, NEW refused,
           NEW bound, NEW d, d = Prepared(c, io, refused, bound)
    PROVE  /\ d \in Control /\ Calm(d.safety)
           /\ SameStream(c, d) /\ LaterOrSame(c, d) /\ d.goalSent = c.goalSent
           /\ d.graceStarted = c.graceStarted
           /\ d.lastHeartbeat = c.lastHeartbeat /\ d.everHeartbeat = c.everHeartbeat
           /\ ~d.servosConfigured /\ ~d.rightOutputActive
           /\ (d.leftOn => c.leftOn) /\ (d.rightOn => c.rightOn)
           /\ d.leftOn => \/ refused \/ c.executor = "RUNNING" \/ c.clockActive
                          \/ ~LeftVerifiedOff(c, io)
           /\ d.rightOn => ~RightVerifiedOff(c, io)
           /\ d.leftOn \/ d.rightOn => d.stopLatched /\ d.safety.state = "FAULT"
<1> DEFINE leftAlone == refused \/ c.executor = "RUNNING" \/ c.clockActive
           left == IF leftAlone THEN c ELSE DisableLeft(c, io)
           right == DisableRight(left, io)
           both == [right EXCEPT !.servosConfigured = FALSE, !.rightOutputActive = FALSE]
           ok == /\ ~leftAlone /\ bound
                 /\ LeftVerifiedOff(c, io) /\ RightVerifiedOff(c, io)
           good == [both EXCEPT !.anchorReady = TRUE]
           bad == [both EXCEPT !.anchorReady = FALSE]
<1>0. d = IF ok THEN good ELSE LatchFault(bad)
  BY Zenon DEF Prepared
<1> HIDE DEF ok
<1> USE DEF SameWatch, SameStream, SamePower, SameStop, LaterOrSame
<1>1. /\ left \in Control
      /\ SameWatch(c, left) /\ SameStream(c, left) /\ SameStop(c, left)
      /\ left.rightOn = c.rightOn /\ LaterOrSame(c, left)
      /\ ~leftAlone => left.leftOn = (c.leftOn /\ ~LeftVerifiedOff(c, io))
      /\ leftAlone => left.leftOn = c.leftOn
  <2>1. CASE leftAlone
    BY <2>1
  <2>2. CASE ~leftAlone
    <3>1. left = DisableLeft(c, io)
      BY <2>2
    <3> HIDE DEF left, leftAlone
    <3> QED
      BY <2>2, <3>1, LeftDisabled
  <2> QED
    BY <2>1, <2>2
<1> HIDE DEF left
<1>2. /\ right \in Control
      /\ SameWatch(left, right) /\ SameStream(left, right) /\ SameStop(left, right)
      /\ right.leftOn = left.leftOn
      /\ right.rightOn = (left.rightOn /\ ~RightVerifiedOff(left, io))
      /\ LaterOrSame(left, right)
  BY <1>1, RightDisabled
<1> HIDE DEF right
<1>3. RightVerifiedOff(left, io) = RightVerifiedOff(c, io)
  BY <1>1 DEF RightVerifiedOff
<1>4. \A e \in {good, bad} :
        /\ e \in Control /\ SameStream(right, e) /\ SamePower(right, e) /\ SameStop(right, e)
        /\ e.tick = right.tick /\ e.graceStarted = right.graceStarted
        /\ e.lastHeartbeat = right.lastHeartbeat /\ e.everHeartbeat = right.everHeartbeat
        /\ ~e.servosConfigured /\ ~e.rightOutputActive
  <2>1. /\ both \in Control /\ SameStream(right, both) /\ SamePower(right, both)
        /\ SameStop(right, both) /\ both.tick = right.tick
        /\ both.graceStarted = right.graceStarted
        /\ both.lastHeartbeat = right.lastHeartbeat
        /\ both.everHeartbeat = right.everHeartbeat
        /\ ~both.servosConfigured /\ ~both.rightOutputActive
    BY <1>2 DEF Control
  <2> HIDE DEF both
  <2>2. good \in Control /\ bad \in Control
    BY <2>1 DEF Control
  <2>3. \A e \in {good, bad} :
          /\ SameStream(both, e) /\ SamePower(both, e) /\ SameStop(both, e)
          /\ e.tick = both.tick /\ e.graceStarted = both.graceStarted
          /\ e.lastHeartbeat = both.lastHeartbeat /\ e.everHeartbeat = both.everHeartbeat
          /\ e.servosConfigured = both.servosConfigured
          /\ e.rightOutputActive = both.rightOutputActive
    BY <2>1 DEF Control
  <2> HIDE DEF good, bad
  <2> QED
    BY <2>1, <2>2, <2>3
<1> HIDE DEF good, bad, both
<1>5. \A e \in {good, bad} :
        /\ e \in Control /\ Calm(e.safety)
        /\ SameStream(c, e) /\ LaterOrSame(c, e) /\ e.goalSent = c.goalSent
        /\ e.graceStarted = c.graceStarted
        /\ e.lastHeartbeat = c.lastHeartbeat /\ e.everHeartbeat = c.everHeartbeat
        /\ ~e.servosConfigured /\ ~e.rightOutputActive
        /\ (e.leftOn => c.leftOn) /\ (e.rightOn => c.rightOn)
        /\ e.leftOn => leftAlone \/ ~LeftVerifiedOff(c, io)
        /\ e.rightOn => ~RightVerifiedOff(c, io)
  BY <1>1, <1>2, <1>3, <1>4
<1>6. CASE ok
  <2>1. d = good /\ ~good.leftOn /\ ~good.rightOn
    BY <1>0, <1>5, <1>6 DEF ok
  <2> QED
    BY <1>5, <2>1
<1>7. CASE ~ok
  <2>1. d = LatchFault(bad) /\ bad \in Control /\ Calm(bad.safety)
    BY <1>0, <1>5, <1>7
  <2>2. /\ d \in Control
        /\ SameWatch(bad, d) /\ SameStream(bad, d) /\ SamePower(bad, d) /\ d.tick = bad.tick
        /\ d.stopLatched /\ Calm(d.safety) /\ d.safety.state = "FAULT"
        /\ d.goalSent = bad.goalSent
    BY <2>1, FaultLatches
  <2> QED
    BY <1>5, <2>2
<1> QED
  BY <1>6, <1>7

\* PREPARE_SHADOW ends supervision; without a stream, and with a reference it
\* accepts, it has disabled both arms.
LEMMA PrepareShadowKeeps == IInv /\ PrepareShadow => IInv'
<1> SUFFICES ASSUME IInv, PrepareShadow PROVE IInv'
  OBVIOUS
<1>0. PICK io \in Io(ctl), bound \in BOOLEAN,
           refused \in IF "BAD_REFERENCES" \in world THEN BOOLEAN ELSE {FALSE} :
        Frame(Prepared(Current, io, refused, bound))
  BY Zenon DEF PrepareShadow
<1>1. /\ Current \in Control /\ Fits(Current)
      /\ world \cap {"PIPELINED", "RESTARTS"} = {} /\ Going(Current) =>
           /\ Current.rightOutputActive /\ ~Current.stopLatched
           /\ accepts_setpoint(Current.safety) /\ Current.servosConfigured
      /\ Current.graceStarted = ctl.graceStarted
      /\ Current.lastHeartbeat = ctl.lastHeartbeat
      /\ Current.everHeartbeat = ctl.everHeartbeat
      /\ TorqueOn = (Current.leftOn \/ Current.rightOn)
      /\ Calm(Current.safety) /\ now \in Tick
  BY <1>0, FrameStart DEF Frame, Fits, Sound, IInv, TypeOK
<1> DEFINE c == Prepared(Current, io, refused, bound)
<1>2. /\ io \in Transactions
      /\ io.pending => ctl.tracking
      /\ "IO_FAILS" \notin world => io.left /\ io.right
  BY IoOutcomes DEF IInv, TypeOK
<1>3. /\ c \in Control /\ Calm(c.safety)
      /\ SameStream(Current, c) /\ LaterOrSame(Current, c) /\ c.goalSent = Current.goalSent
      /\ c.graceStarted = Current.graceStarted
      /\ c.lastHeartbeat = Current.lastHeartbeat
      /\ c.everHeartbeat = Current.everHeartbeat
      /\ ~c.servosConfigured /\ ~c.rightOutputActive
      /\ (c.leftOn => Current.leftOn) /\ (c.rightOn => Current.rightOn)
      /\ c.leftOn => \/ refused \/ Current.executor = "RUNNING" \/ Current.clockActive
                     \/ ~LeftVerifiedOff(Current, io)
      /\ c.rightOn => ~RightVerifiedOff(Current, io)
  BY <1>1, <1>2, PreparedIs
<1>4. Frame(c) /\ UNCHANGED unattended
  BY <1>0 DEF PrepareShadow
<1> HIDE DEF c
<1>5. NoRestarts => ~Current.clockActive /\ ~Current.tracking /\ ~io.pending
  BY <1>2, CurrentIs DEF IInv, SameStream, PrepareShadow, NoRestarts
<1> USE DEF SameStream, LaterOrSame
<1>6. Sound(c)
  BY <1>1, <1>3 DEF Fits, Sound
<1>7. NoRestarts => Current.dispatch # "ACTIVE"
  BY <1>1, <1>5 DEF Fits, Sound
<1>8. NoRestarts /\ "IO_FAILS" \notin world => ~c.rightOn
  BY <1>2, <1>3, <1>5, <1>7 DEF RightVerifiedOff
<1>9. Plain => NoRestarts /\ "IO_FAILS" \notin world
  BY DEF Plain, NoRestarts
<1>10. Plain => ~c.leftOn
  <2>1. SUFFICES ASSUME Plain, c.leftOn PROVE FALSE
    OBVIOUS
  <2>2. LeftVerifiedOff(Current, io) /\ ~Current.clockActive
    BY <1>2, <1>5, <1>7, <1>9, <2>1 DEF LeftVerifiedOff
  <2>3. Current.executor = "RUNNING" /\ Current.leftOn
    BY <1>0, <1>3, <2>1, <2>2 DEF Plain
  <2> QED
    BY <1>1, <1>5, <1>9, <2>1, <2>3 DEF Fits
<1>11. Fits(c)
  BY <1>1, <1>3, <1>5, <1>6, <1>8, <1>9, <1>10 DEF Fits
<1>12. world \cap {"PIPELINED", "RESTARTS"} = {} => Led(c)
  BY <1>3, <1>5 DEF Led, Going, NoRestarts
<1> QED
  BY <1>1, <1>3, <1>4, <1>11, <1>12, QuietFrame

\* A one-shot frame energises the right arm and marks it active, maintenance
\* worlds with failing buses excepted.
LEMMA RightArmOneShotKeeps == IInv /\ RightArmOneShot => IInv'
<1> SUFFICES ASSUME IInv, RightArmOneShot PROVE IInv'
  OBVIOUS
<1>0. PICK confirmed \in IF "IO_FAILS" \in world THEN BOOLEAN ELSE {TRUE} :
        Frame(IF ~OneShotPermitted(ctl) \/ ctl.tracking THEN Current
              ELSE [Current EXCEPT !.rightOn = TRUE, !.rightOutputActive = @ \/ confirmed])
  BY Zenon DEF RightArmOneShot
<1>1. /\ Current \in Control /\ Fits(Current)
      /\ world \cap {"PIPELINED", "RESTARTS"} = {} /\ Going(Current) =>
           /\ Current.rightOutputActive /\ ~Current.stopLatched
           /\ accepts_setpoint(Current.safety) /\ Current.servosConfigured
      /\ Current.graceStarted = ctl.graceStarted
      /\ Current.lastHeartbeat = ctl.lastHeartbeat
      /\ Current.everHeartbeat = ctl.everHeartbeat
      /\ TorqueOn = (Current.leftOn \/ Current.rightOn)
      /\ Calm(Current.safety) /\ now \in Tick
  BY <1>0, FrameStart DEF Frame, Fits, Sound, IInv, TypeOK
<1> DEFINE a == Current.rightOutputActive \/ confirmed
           shot == [Current EXCEPT !.rightOn = TRUE, !.rightOutputActive = a]
<1>2. UNCHANGED unattended /\ (Frame(Current) \/ Frame(shot))
  BY <1>0, <1>1 DEF RightArmOneShot, Control
<1>3. /\ Current.rightOutputActive \in BOOLEAN /\ confirmed \in BOOLEAN
      /\ "IO_FAILS" \notin world => confirmed
  BY <1>1 DEF Control
<1>4. /\ a \in BOOLEAN /\ (Current.rightOutputActive => a)
      /\ "IO_FAILS" \notin world => a
  BY <1>3
<1> HIDE DEF a
<1>5. shot \in Control
  BY <1>1, <1>4 DEF Control
<1>6. /\ ~shot.goalSent /\ shot.safety = Current.safety
      /\ SameStream(Current, shot) /\ shot.tick = Current.tick
      /\ shot.stopLatched = Current.stopLatched
      /\ shot.servosConfigured = Current.servosConfigured /\ shot.rightOutputActive = a
  BY <1>1 DEF Control, Fits, SameStream
<1> HIDE DEF shot
<1>7. ~Plain
  BY DEF RightArmOneShot, Plain
<1>8. CASE Frame(Current)
  BY <1>1, <1>2, <1>8, QuietFrame DEF Led
<1>9. CASE Frame(shot)
  <2>1. Fits(shot)
    BY <1>1, <1>4, <1>5, <1>6, <1>7 DEF Fits, Sound, SameStream
  <2>2. world \cap {"PIPELINED", "RESTARTS"} = {} => Led(shot)
    BY <1>1, <1>4, <1>6 DEF Led, Going, SameStream
  <2> QED
    BY <1>2, <1>7, <1>9, <2>1, <2>2, QuietFrame
<1> QED
  BY <1>2, <1>8, <1>9

\* RIGHT_ARM_DISABLE lets go of the right arm once its torque is off.
LEMMA RightArmDisableKeeps == IInv /\ RightArmDisable => IInv'
<1> SUFFICES ASSUME IInv, RightArmDisable PROVE IInv'
  OBVIOUS
<1>0. PICK io \in Io(ctl) :
        Frame(IF RightVerifiedOff(Current, io)
              THEN [DisableRight(Current, io) EXCEPT !.rightOutputActive = FALSE]
              ELSE LatchFault(DisableRight(Current, io)))
  BY Zenon DEF RightArmDisable
<1>1. /\ Current \in Control /\ Fits(Current)
      /\ world \cap {"PIPELINED", "RESTARTS"} = {} /\ Going(Current) =>
           /\ Current.rightOutputActive /\ ~Current.stopLatched
           /\ accepts_setpoint(Current.safety) /\ Current.servosConfigured
      /\ Current.graceStarted = ctl.graceStarted
      /\ Current.lastHeartbeat = ctl.lastHeartbeat
      /\ Current.everHeartbeat = ctl.everHeartbeat
      /\ TorqueOn = (Current.leftOn \/ Current.rightOn)
      /\ Calm(Current.safety) /\ now \in Tick
  BY <1>0, FrameStart DEF Frame, Fits, Sound, IInv, TypeOK
<1> DEFINE right == DisableRight(Current, io)
           off == [right EXCEPT !.rightOutputActive = FALSE]
           failed == LatchFault(right)
<1>2. io \in Transactions
  BY IoOutcomes DEF IInv, TypeOK
<1> USE DEF SameWatch, SameStream, SamePower, SameStop, LaterOrSame
<1>3. /\ right \in Control
      /\ SameWatch(Current, right) /\ SameStream(Current, right) /\ SameStop(Current, right)
      /\ right.leftOn = Current.leftOn
      /\ right.rightOn = (Current.rightOn /\ ~RightVerifiedOff(Current, io))
      /\ LaterOrSame(Current, right)
  BY <1>1, <1>2, RightDisabled
<1>4. ~Plain /\ UNCHANGED unattended
  BY DEF RightArmDisable, Plain
<1> HIDE DEF right
<1>5. CASE RightVerifiedOff(Current, io)
  <2>1. Frame(off)
    BY <1>0, <1>5 DEF right
  <2>2. off \in Control
    BY <1>3 DEF Control
  <2>3. /\ SameStream(right, off) /\ SamePower(right, off) /\ SameStop(right, off)
        /\ off.tick = right.tick /\ ~off.rightOutputActive
    BY <1>3 DEF Control
  <2> HIDE DEF off
  <2>4. ~off.tracking /\ ~off.rightOn /\ ~Current.tracking
    BY <1>3, <1>5, <2>3 DEF RightVerifiedOff
  <2>5. Fits(off) /\ Led(off)
    BY <1>1, <1>3, <1>4, <2>2, <2>3, <2>4 DEF Fits, Sound, Led, Going
  <2> QED
    BY <1>4, <2>1, <2>5, QuietFrame
<1>6. CASE ~RightVerifiedOff(Current, io)
  <2>1. Frame(failed) /\ Calm(right.safety)
    BY <1>0, <1>1, <1>3, <1>6 DEF right
  <2>2. /\ failed \in Control
        /\ SameWatch(right, failed) /\ SameStream(right, failed) /\ SamePower(right, failed)
        /\ failed.tick = right.tick
        /\ failed.stopLatched /\ Calm(failed.safety) /\ failed.goalSent = right.goalSent
    BY <1>3, <2>1, FaultLatches
  <2> HIDE DEF failed
  <2>3. Fits(failed)
    BY <1>1, <1>3, <1>4, <1>6, <2>2 DEF Fits, Sound
  <2>4. world \cap {"PIPELINED", "RESTARTS"} = {} => Led(failed)
    BY <1>1, <1>3, <2>2 DEF Led, Going
  <2> QED
    BY <1>4, <2>1, <2>3, <2>4, QuietFrame
<1> QED
  BY <1>5, <1>6

\* A configuration succeeds, or leaves the session as it was; where servo
\* transactions work only telemetry makes it fail.
LEMMA ConfiguredIs ==
    ASSUME NEW c \in Control, Sound(c), now \in Tick, NEW io \in Transactions,
           io.pending => c.tracking, NEW d, d = Configured(c, io)
    PROVE  /\ d \in Control
           /\ SameStream(c, d) /\ SameStop(c, d) /\ LaterOrSame(c, d)
           /\ d.lastHeartbeat = c.lastHeartbeat /\ d.everHeartbeat = c.everHeartbeat
           /\ \/ /\ d.servosConfigured /\ d.rightOutputActive /\ d.rightOn
                 /\ d.graceStarted = now
              \/ /\ d.servosConfigured = c.servosConfigured
                 /\ d.rightOutputActive = c.rightOutputActive
                 /\ d.graceStarted = c.graceStarted
                 /\ c.tracking \/ io.configure # "OK"
                 /\ c.tracking /\ c.rightOn => d.rightOn
<1> DEFINE leftFails == io.configure = "LEFT_FAILS" \/ io.pending \/ c.dispatch = "ACTIVE"
           rightFails == io.configure = "RIGHT_FAILS" \/ c.tracking
           one == [c EXCEPT !.leftOn = TRUE]
           two == [c EXCEPT !.leftOn = TRUE, !.rightOn = TRUE]
           all == [c EXCEPT !.leftOn = TRUE, !.rightOn = TRUE, !.servosConfigured = TRUE,
                            !.rightOutputActive = TRUE, !.graceStarted = now]
<1>0. d = IF leftFails THEN DisableRight(DisableLeft(one, io), io)
          ELSE IF rightFails THEN DisableRight(DisableLeft(two, io), io)
          ELSE all
  BY Zenon DEF Configured
<1>1. leftFails \/ rightFails => c.tracking \/ io.configure # "OK"
  BY DEF Sound
<1>2. one \in Control /\ two \in Control /\ all \in Control
  BY DEF Control
<1> USE DEF SameWatch, SameStream, SamePower, SameStop, LaterOrSame
<1>3. \A e \in {one, two} :
        /\ e \in Control
        /\ SameWatch(c, e) /\ SameStream(c, e) /\ SameStop(c, e) /\ e.tick = c.tick
        /\ c.rightOn => e.rightOn
  <2>1. /\ SameWatch(c, one) /\ SameStream(c, one) /\ SameStop(c, one) /\ one.tick = c.tick
        /\ one.rightOn = c.rightOn
    BY DEF Control
  <2>2. /\ SameWatch(c, two) /\ SameStream(c, two) /\ SameStop(c, two) /\ two.tick = c.tick
        /\ two.rightOn
    BY DEF Control
  <2> HIDE DEF one, two
  <2> QED
    BY <1>2, <2>1, <2>2
<1>4. /\ SameStream(c, all) /\ SameStop(c, all) /\ all.tick = c.tick
      /\ all.lastHeartbeat = c.lastHeartbeat /\ all.everHeartbeat = c.everHeartbeat
      /\ all.servosConfigured /\ all.rightOutputActive /\ all.rightOn
      /\ all.graceStarted = now
  BY DEF Control
<1> HIDE DEF one, two, all
<1>5. CASE leftFails \/ rightFails
  <2>1. PICK e \in {one, two} : d = DisableRight(DisableLeft(e, io), io)
    BY <1>0, <1>5
  <2> DEFINE left == DisableLeft(e, io)
  <2>2. /\ left \in Control
        /\ SameWatch(e, left) /\ SameStream(e, left) /\ SameStop(e, left)
        /\ left.rightOn = e.rightOn
        /\ left.tick # "NONE" /\ (e.tick # "NONE" => left.tick = "MISSED")
    BY <1>3, LeftDisabled
  <2> HIDE DEF left
  <2>3. /\ d \in Control
        /\ SameWatch(left, d) /\ SameStream(left, d) /\ SameStop(left, d)
        /\ d.rightOn = (left.rightOn /\ ~RightVerifiedOff(left, io))
        /\ LaterOrSame(left, d)
    BY <2>1, <2>2, RightDisabled DEF left
  <2>4. c.tracking /\ c.rightOn => d.rightOn
    BY <1>3, <2>2, <2>3 DEF RightVerifiedOff
  <2> QED
    BY <1>1, <1>3, <1>5, <2>2, <2>3, <2>4
<1>6. CASE ~leftFails /\ ~rightFails
  BY <1>0, <1>2, <1>4, <1>6
<1> QED
  BY <1>5, <1>6

\* ARM configures torque and starts the time the arms are left alone.
LEMMA ArmKeeps == IInv /\ Arm => IInv'
<1> SUFFICES ASSUME IInv, Arm PROVE IInv'
  OBVIOUS
<1>0. PICK io \in Io(ctl), matches \in BOOLEAN :
        LET c == IF ~matches \/ ctl.servosConfigured \/ ~MayConfigure(ctl)
                 THEN Current ELSE Configured(Current, io)
            health == matches => c.servosConfigured
        IN  /\ Frame([c EXCEPT !.safety = request_arm(@, health, matches)])
            /\ unattended' = IF c.servosConfigured /\ ~ctl.servosConfigured
                             THEN 0 ELSE unattended
  BY Zenon DEF Arm
<1>1. /\ Current \in Control /\ Fits(Current)
      /\ world \cap {"PIPELINED", "RESTARTS"} = {} /\ Going(Current) =>
           /\ Current.rightOutputActive /\ ~Current.stopLatched
           /\ accepts_setpoint(Current.safety) /\ Current.servosConfigured
      /\ Current.graceStarted = ctl.graceStarted
      /\ Current.lastHeartbeat = ctl.lastHeartbeat
      /\ Current.everHeartbeat = ctl.everHeartbeat
      /\ TorqueOn = (Current.leftOn \/ Current.rightOn)
      /\ Calm(Current.safety) /\ now \in Tick
  BY <1>0, FrameStart DEF Frame, Fits, Sound, IInv, TypeOK
<1> DEFINE e == IF ~matches \/ ctl.servosConfigured \/ ~MayConfigure(ctl)
                THEN Current ELSE Configured(Current, io)
           health == matches => e.servosConfigured
           s == request_arm(e.safety, health, matches)
           c == [e EXCEPT !.safety = s]
<1>2. /\ io \in Transactions
      /\ io.pending => Current.tracking
      /\ "IO_FAILS" \notin world => io.configure = "OK"
      /\ Current.servosConfigured = ctl.servosConfigured
      /\ Current.executor = ctl.executor /\ Current.clockActive = ctl.clockActive
  BY IoOutcomes, CurrentIs DEF IInv, TypeOK, SameStream, SameWatch
<1> USE DEF SameWatch, SameStream, SamePower, SameStop, LaterOrSame
<1>3. /\ e \in Control
      /\ SameStream(Current, e) /\ SameStop(Current, e) /\ LaterOrSame(Current, e)
      /\ e.lastHeartbeat = Current.lastHeartbeat /\ e.everHeartbeat = Current.everHeartbeat
      /\ \/ e = Current
         \/ /\ ~Current.servosConfigured /\ ~Current.clockActive
            /\ Current.executor # "RUNNING"
            /\ \/ /\ e.servosConfigured /\ e.rightOutputActive /\ e.rightOn
                  /\ e.graceStarted = now
               \/ /\ ~e.servosConfigured
                  /\ e.rightOutputActive = Current.rightOutputActive
                  /\ e.graceStarted = Current.graceStarted
                  /\ "IO_FAILS" \in world \/ Current.tracking
                  /\ Current.tracking /\ Current.rightOn => e.rightOn
  <2>1. CASE ~matches \/ ctl.servosConfigured \/ ~MayConfigure(ctl)
    <3>1. e = Current
      BY <2>1
    <3> HIDE DEF e
    <3> QED
      BY <1>1, <3>1
  <2>2. CASE ~(~matches \/ ctl.servosConfigured \/ ~MayConfigure(ctl))
    <3>1. e = Configured(Current, io)
      BY <2>2
    <3>2. /\ ~Current.servosConfigured /\ ~Current.clockActive
          /\ Current.executor # "RUNNING"
      BY <1>2, <2>2 DEF MayConfigure
    <3> HIDE DEF e
    <3>3. Sound(Current)
      BY <1>1 DEF Fits
    <3>4. /\ e \in Control
          /\ SameStream(Current, e) /\ SameStop(Current, e) /\ LaterOrSame(Current, e)
          /\ e.lastHeartbeat = Current.lastHeartbeat
          /\ e.everHeartbeat = Current.everHeartbeat
          /\ \/ /\ e.servosConfigured /\ e.rightOutputActive /\ e.rightOn
                /\ e.graceStarted = now
             \/ /\ e.servosConfigured = Current.servosConfigured
                /\ e.rightOutputActive = Current.rightOutputActive
                /\ e.graceStarted = Current.graceStarted
                /\ Current.tracking \/ io.configure # "OK"
                /\ Current.tracking /\ Current.rightOn => e.rightOn
      BY <1>1, <1>2, <3>1, <3>3, ConfiguredIs
    <3> QED
      BY <1>2, <3>2, <3>4
  <2> QED
    BY <2>1, <2>2
<1>4. /\ Frame(c)
      /\ unattended' = IF e.servosConfigured /\ ~Current.servosConfigured
                       THEN 0 ELSE unattended
  <2>1. c = [e EXCEPT !.safety = request_arm(@, health, matches)]
    BY <1>3 DEF Control
  <2> HIDE DEF c, s
  <2> QED
    BY <1>0, <1>2, <2>1
<1> HIDE DEF e
<1>5. e.servosConfigured \in BOOLEAN /\ health \in BOOLEAN /\ Calm(e.safety)
  BY <1>1, <1>3 DEF Control
<1> HIDE DEF health
<1>6. /\ Calm(s) /\ s \in Safety
      /\ (accepts_setpoint(Current.safety) => s = Current.safety)
  <2>1. e.safety = Current.safety
    BY <1>3
  <2>2. s = request_arm(Current.safety, health, matches)
    BY <2>1
  <2> DEFINE r == request_arm(Current.safety, health, matches)
  <2>3. Calm(Current.safety) /\ now \in Tick /\ health \in BOOLEAN /\ matches \in BOOLEAN
    BY <1>1, <1>5
  <2>4. Calm(r) /\ r \in Safety
    BY <2>3, SafetyCalls, Zenon DEF Calm
  <2>5. accepts_setpoint(Current.safety) => r = Current.safety
    BY DEF accepts_setpoint, request_arm, ArmPermitted
  <2> QED
    BY <2>2, <2>4, <2>5
<1> HIDE DEF s
<1>7. c \in Control
  BY <1>3, <1>6 DEF Control
<1>8. /\ c.safety = s /\ SameWatch(e, c) /\ SameStream(e, c) /\ SamePower(e, c)
      /\ c.tick = e.tick /\ c.stopLatched = e.stopLatched /\ c.goalSent = e.goalSent
  BY <1>3 DEF Control
<1> HIDE DEF c
<1>9. Sound(c)
  BY <1>1, <1>3, <1>6, <1>8 DEF Fits, Sound
<1>10. /\ NoRestarts => (c.tracking => c.rightOutputActive)
       /\ NoRestarts /\ "IO_FAILS" \notin world => (c.rightOn => c.rightOutputActive)
  BY <1>1, <1>3, <1>8 DEF Fits
<1>11. Plain => NoRestarts /\ "IO_FAILS" \notin world
  BY DEF Plain, NoRestarts
<1>12. Plain =>
         /\ c.leftOn \/ c.rightOn => c.rightOutputActive
         /\ c.tracking => c.rightOn
         /\ c.servosConfigured => c.rightOn
         /\ c.executor = "RUNNING" /\ ~c.tracking => ~c.leftOn /\ ~c.rightOn
  BY <1>1, <1>3, <1>8, <1>11 DEF Fits
<1>13. Fits(c)
  BY <1>1, <1>3, <1>7, <1>8, <1>9, <1>10, <1>12 DEF Fits
<1>14. world \cap {"PIPELINED", "RESTARTS"} = {} => Led(c)
  BY <1>1, <1>3, <1>6, <1>8 DEF Led, Going
<1>15. CASE e.servosConfigured /\ ~Current.servosConfigured
  <2>1. /\ Sound(ctl)' /\ ctl' \in Control /\ served' \in BOOLEAN
        /\ Followed' /\ RightWatched' /\ GoingIsLed' /\ GoalsAuthorised'
        /\ TorqueIsWatched' /\ StopTakesEffect'
    BY <1>4, <1>13, <1>14, FrameKeeps
  <2>2. /\ ctl' = c /\ unattended' = 0 /\ UNCHANGED <<world, now, unpolled>>
        /\ c.graceStarted = now
    BY <1>3, <1>4, <1>8, <1>15 DEF Frame
  <2>3. Elapsed(now, now) = 0
    BY <1>1, ElapsedUnfolded, TickModulusAssumption DEF Tick
  <2>4. TypeOK'
    BY <2>1, <2>2, Bounds DEF IInv, TypeOK
  <2>5. Aged' /\ Noticed' /\ UnattendedArmsLoseTorque'
    BY <2>2, <2>3, Bounds DEF Aged, Noticed, UnattendedArmsLoseTorque,
                              IInv, TypeOK
  <2> QED
    BY <2>1, <2>4, <2>5 DEF IInv
<1>16. CASE ~(e.servosConfigured /\ ~Current.servosConfigured)
  <2>1. Plain /\ (c.leftOn \/ c.rightOn) =>
          /\ TorqueOn
          /\ c.graceStarted = ctl.graceStarted
          /\ c.lastHeartbeat = ctl.lastHeartbeat
          /\ c.everHeartbeat = ctl.everHeartbeat
    BY <1>1, <1>3, <1>8, <1>11, <1>16 DEF Fits
  <2> QED
    BY <1>4, <1>13, <1>14, <1>16, <2>1, QuietFrame
<1> QED
  BY <1>15, <1>16

\* A step that leaves the supervision, the session and time alone: what the
\* interrupts do to the pair of writes and to the tick.
LEMMA InterruptKeeps ==
    ASSUME IInv, NEW c, c \in Control, ~c.goalSent, Interrupt(c),
           SameWatch(ctl, c), SamePower(ctl, c),
           c.safety = ctl.safety, c.stopLatched = ctl.stopLatched,
           c.stopPending = ctl.stopPending,
           c.clockActive = ctl.clockActive, c.executor = ctl.executor,
           c.tracking = ctl.tracking, c.settling = ctl.settling,
           c.dispatch = "ACTIVE" => ctl.dispatch = "ACTIVE",
           ctl.dispatch = "FAULTED" => c.dispatch = "FAULTED",
           LaterOrSame(ctl, c)
    PROVE  IInv'
<1>1. ctl' = c /\ UNCHANGED <<world, now, served, unpolled, unattended>>
  BY DEF Interrupt
<1> USE DEF SameWatch, SamePower, LaterOrSame
<1>2. TypeOK' /\ Sound(ctl)'
  BY <1>1 DEF IInv, TypeOK, Sound
<1>3. Followed' /\ RightWatched' /\ GoalsAuthorised' /\ StopTakesEffect'
  BY <1>1 DEF IInv, Followed, RightWatched, RightArmSupervised, GoalsAuthorised,
              StopTakesEffect, TorqueOn, NoRestarts, Plain
<1>4. GoingIsLed'
  BY <1>1 DEF IInv, GoingIsLed, Going
<1>5. TorqueIsWatched'
  BY <1>1 DEF IInv, TorqueIsWatched, TorqueOn, Plain
<1>6. Aged' /\ Noticed' /\ UnattendedArmsLoseTorque'
  BY <1>1, TimeKept DEF TorqueOn
<1> QED
  BY <1>2, <1>3, <1>4, <1>5, <1>6 DEF IInv

\* The control tick, the end of a pair of writes and a bus error can only stop
\* the stream.
LEMMA InterruptsKeep == IInv /\ (ControlTick \/ PairCompletes \/ BusError) => IInv'
<1> SUFFICES ASSUME IInv, ControlTick \/ PairCompletes \/ BusError PROVE IInv'
  OBVIOUS
<1>1. /\ Current \in Control /\ ~Current.goalSent
      /\ SameWatch(ctl, Current) /\ SameStream(ctl, Current) /\ SamePower(ctl, Current)
      /\ Current.tick = ctl.tick /\ Current.safety = ctl.safety
      /\ Current.stopLatched = ctl.stopLatched /\ Current.stopPending = ctl.stopPending
  BY CurrentIs DEF IInv
<1> DEFINE t == LaterTick(Current.tick)
           ticked == [Current EXCEPT !.tick = t]
           out(p) == [Current EXCEPT !.dispatch = p]
<1> USE DEF SameWatch, SameStream, SamePower, LaterOrSame
<1>2. CASE ControlTick
  <2>1. Interrupt(ticked)
    BY <1>1, <1>2 DEF ControlTick, Control
  <2>2. t \in {"PENDING", "MISSED"} /\ (Current.tick = "MISSED" => t = "MISSED")
    BY DEF LaterTick
  <2> HIDE DEF t
  <2>3. ticked \in Control
    BY <1>1, <2>2 DEF Control
  <2>4. /\ ticked.tick = t /\ ~ticked.goalSent
        /\ SameWatch(Current, ticked) /\ SameStream(Current, ticked)
        /\ SamePower(Current, ticked) /\ SameStop(Current, ticked)
    BY <1>1 DEF Control, SameStop
  <2> HIDE DEF ticked
  <2> QED
    BY <1>1, <2>1, <2>2, <2>3, <2>4, InterruptKeeps DEF SameStop
<1>3. CASE PairCompletes \/ BusError
  <2>1. PICK p \in {"IDLE", "FAULTED"} : Interrupt(out(p)) /\ ctl.dispatch = "ACTIVE"
    BY <1>3 DEF PairCompletes, BusError
  <2> DEFINE c == out(p)
  <2>2. c \in Control
    BY <1>1 DEF Control
  <2>3. /\ c.dispatch = p /\ c.tick = Current.tick
        /\ SameWatch(Current, c) /\ SamePower(Current, c) /\ SameStop(Current, c)
        /\ c.clockActive = Current.clockActive /\ c.executor = Current.executor
        /\ c.tracking = Current.tracking /\ c.settling = Current.settling
    BY <1>1 DEF Control, SameStop
  <2>4. Interrupt(c)
    BY <2>1
  <2> HIDE DEF c
  <2> QED
    BY <1>1, <2>1, <2>2, <2>3, <2>4, InterruptKeeps DEF SameStop
<1> QED
  BY <1>2, <1>3

\* A pass without a frame.
LEMMA ServicePassKeeps == IInv /\ ServicePass => IInv'
<1> SUFFICES ASSUME IInv, ServicePass PROVE IInv'
  OBVIOUS
<1>1. PICK in \in ServiceInput(ctl), io \in Io(ctl) :
        ctl' = Service([ctl EXCEPT !.goalSent = FALSE], in, io)
  BY Zenon DEF ServicePass
<1>2. /\ ctl' = Service(Current, in, io) /\ served' = TRUE /\ unpolled' = 0
      /\ UNCHANGED <<world, now, unattended>>
  BY <1>1 DEF ServicePass, Current
<1>3. Entered(Current)
  BY CurrentIs DEF Entered, IInv, Sound
<1> QED
  BY <1>2, <1>3, PassKeeps

\* A receiver fault enters the pass with the stop latched.
LEMMA RxFaultEnters ==
    ASSUME IInv, RxFault
    PROVE  \E c : /\ Entered(c)
                  /\ \E in \in ServiceInput(ctl), io \in Io(ctl) : ctl' = Service(c, in, io)
<1> DEFINE e == [ctl EXCEPT !.goalSent = FALSE, !.rxFaulted = TRUE]
           held == HoldIfMoving(e)
           c == LatchStop(held)
<1>1. PICK in \in ServiceInput(ctl), io \in Io(ctl) : ctl' = Service(c, in, io)
  BY Zenon DEF RxFault
<1>2. ctl \in Control /\ Calm(ctl.safety)
  BY DEF IInv, TypeOK, Sound
<1>3. e \in Control
  BY <1>2 DEF Control
<1>4. /\ SameWatch(ctl, e) /\ SameStream(ctl, e) /\ SamePower(ctl, e) /\ e.tick = ctl.tick
      /\ ~e.goalSent /\ e.safety = ctl.safety
  BY <1>2 DEF Control, SameWatch, SameStream, SamePower
<1> HIDE DEF e
<1>5. /\ held \in Control
      /\ SameWatch(e, held) /\ SameStream(e, held) /\ SamePower(e, held)
      /\ held.tick = e.tick /\ Calm(held.safety) /\ held.goalSent = e.goalSent
  BY <1>2, <1>3, <1>4, MovingHeld
<1> HIDE DEF held
<1>6. /\ c \in Control
      /\ SameWatch(held, c) /\ SameStream(held, c) /\ SamePower(held, c)
      /\ c.tick = held.tick /\ c.stopLatched /\ c.safety = held.safety
      /\ c.goalSent = held.goalSent
  BY <1>5, StopLatches
<1> HIDE DEF c
<1>7. Entered(c)
  BY <1>4, <1>5, <1>6 DEF Entered, SameWatch, SameStream, SamePower
<1> QED
  BY <1>1, <1>7

\* A pass that found a fault of the receiver.
LEMMA RxFaultKeeps == IInv /\ RxFault => IInv'
<1> SUFFICES ASSUME IInv, RxFault PROVE IInv'
  OBVIOUS
<1>1. /\ served' = TRUE /\ unpolled' = 0
      /\ UNCHANGED <<world, now, unattended>>
  BY DEF RxFault
<1>2. PICK c : /\ Entered(c)
              /\ \E in \in ServiceInput(ctl), io \in Io(ctl) : ctl' = Service(c, in, io)
  BY RxFaultEnters
<1>3. PICK in \in ServiceInput(ctl), io \in Io(ctl) : ctl' = Service(c, in, io)
  BY <1>2
<1> QED
  BY <1>1, <1>2, <1>3, PassKeeps

\* The clock and a stamp that moves with it.
LEMMA StampStays ==
    ASSUME NEW t \in Tick, NEW d \in Nat, d + 1 \in Tick
    PROVE  Elapsed(Plus(t, 1), d + 1) = Elapsed(t, d)
<1>1. 1 \in Tick /\ d \in Tick
  BY TickModulusAssumption DEF Tick
<1>2. Plus(t, 1) = IF t + 1 < TickModulus THEN t + 1 ELSE t + 1 - TickModulus
  BY <1>1, PlusUnfolded
<1>3. Plus(t, 1) \in Tick
  BY <1>2, TickModulusAssumption DEF Tick
<1>4. /\ Elapsed(Plus(t, 1), d + 1) = IF Plus(t, 1) < d + 1 THEN Plus(t, 1) - (d + 1) + TickModulus
                                      ELSE Plus(t, 1) - (d + 1)
      /\ Elapsed(t, d) = IF t < d THEN t - d + TickModulus ELSE t - d
  BY <1>1, <1>3, ElapsedUnfolded
<1> QED
  BY <1>1, <1>2, <1>3, <1>4, TickModulusAssumption DEF Tick

\* Time passes: readings age, and no longer than the main loop can stall.
LEMMA AdvanceKeeps == IInv /\ Advance => IInv'
<1> SUFFICES ASSUME IInv, Advance PROVE IInv'
  OBVIOUS
<1>1. /\ unpolled < MaxStall /\ now' = Plus(now, 1) /\ unpolled' = unpolled + 1
      /\ unattended' = Smaller(unattended + 1, MaxUnattended + 1)
      /\ ctl' = Current /\ UNCHANGED <<world, served>>
  BY DEF Advance
<1>2. /\ Current \in Control /\ ~Current.goalSent
      /\ SameWatch(ctl, Current) /\ SameStream(ctl, Current) /\ SamePower(ctl, Current)
      /\ Current.tick = ctl.tick /\ Current.safety = ctl.safety
      /\ Current.stopLatched = ctl.stopLatched /\ Current.stopPending = ctl.stopPending
  BY CurrentIs DEF IInv
<1>3. /\ now \in Tick /\ unpolled \in Nat /\ unpolled <= MaxStall
      /\ unattended \in Nat /\ unattended <= MaxUnattended + 1
      /\ ctl.graceStarted \in Tick /\ ctl.lastHeartbeat \in Tick
  BY Bounds DEF IInv, TypeOK, Control
<1>4. unattended' \in Nat /\ unattended' <= MaxUnattended + 1
  BY <1>1, <1>3, Bounds DEF Smaller
<1> USE DEF SameWatch, SameStream, SamePower
<1>5. TypeOK' /\ Sound(ctl)'
  <2>1. now' \in Tick
    BY <1>1, <1>3, ReadingsInTick, TickModulusAssumption DEF Tick
  <2> QED
    BY <1>1, <1>2, <1>3, <1>4, <2>1, Bounds DEF IInv, TypeOK, Sound
<1>6. Followed' /\ RightWatched' /\ GoalsAuthorised' /\ StopTakesEffect'
  BY <1>1, <1>2 DEF IInv, Followed, RightWatched, RightArmSupervised, GoalsAuthorised,
                    StopTakesEffect, TorqueOn, NoRestarts, Plain
<1>7. GoingIsLed'
  BY <1>1, <1>2 DEF IInv, GoingIsLed, Going
<1>8. TorqueIsWatched'
  BY <1>1, <1>2 DEF IInv, TorqueIsWatched, TorqueOn, Plain
<1>9. CASE ~(Plain /\ TorqueOn)
  <2>1. ~(Plain /\ TorqueOn)'
    BY <1>1, <1>2, <1>9 DEF Plain, TorqueOn
  <2>3. Aged' /\ Noticed' /\ UnattendedArmsLoseTorque'
    BY <1>1, <2>1 DEF Aged, Noticed, UnattendedArmsLoseTorque
  <2> QED
    BY <1>5, <1>6, <1>7, <1>8, <2>3 DEF IInv
<1>10. CASE Plain /\ TorqueOn
  <2>1. /\ ctl'.graceStarted = ctl.graceStarted /\ ctl'.lastHeartbeat = ctl.lastHeartbeat
        /\ ctl'.everHeartbeat = ctl.everHeartbeat
    BY <1>1, <1>2
  <2>2. unattended <= MaxUnattended
    BY <1>10 DEF IInv, UnattendedArmsLoseTorque, Plain, NoRestarts
  <2>3. unattended' = unattended + 1
    BY <1>1, <1>3, <2>2, Bounds DEF Smaller
  <2>4. \A r \in Tick : SeenAge(r)' = SeenAge(r)
    <3>1. unpolled + 1 \in Tick
      BY <1>1, <1>3, Bounds
    <3> QED
      BY <1>1, <1>3, <3>1, StampStays DEF SeenAge
  <2>5. /\ SeenAge(ctl.graceStarted)' = SeenAge(ctl.graceStarted)
        /\ SeenAge(ctl.lastHeartbeat)' = SeenAge(ctl.lastHeartbeat)
    BY <1>3, <2>1, <2>4 DEF SeenAge
  <2>6. Noticed'
    <3> DEFINE g == SeenAge(ctl.graceStarted)
               h == SeenAge(ctl.lastHeartbeat)
    <3>1. unattended' - unpolled' = unattended - unpolled
      BY <1>1, <1>3, <2>3
    <3>2. unattended' > unpolled' <=> unattended > unpolled
      BY <1>1, <1>3, <2>3
    <3>3. Plain' /\ TorqueOn' /\ unattended' > unpolled' => Plain /\ TorqueOn /\ unattended > unpolled
      BY <1>10, <3>2
    <3> QED
      BY <2>1, <2>5, <3>1, <3>3 DEF IInv, Noticed, LookedFresh
  <2>7. unattended' <= MaxUnattended
    <3>1. CASE unattended <= unpolled
      BY <1>1, <1>3, <2>3, <3>1, Bounds
    <3>2. CASE unattended > unpolled
      <4>1. CASE unattended - unpolled <= HeartbeatTimeout
        BY <1>1, <1>3, <2>3, <4>1, Bounds
      <4>2. CASE \E r \in {ctl.graceStarted, ctl.lastHeartbeat} : LookedFresh(r)
        <5>1. PICK r \in Tick : LookedFresh(r)
          BY <1>3, <4>2
        <5>2. SeenAge(r) \in Nat /\ SeenAge(r) <= HeartbeatTimeout
          BY <5>1, SeenAges DEF IInv, LookedFresh
        <5>3. unattended - unpolled <= HeartbeatTimeout + MaxStall + SeenAge(r)
          BY <5>1 DEF LookedFresh
        <5> HIDE DEF SeenAge
        <5> QED
          BY <1>1, <1>3, <2>3, <5>2, <5>3, Bounds
      <4> QED
        BY <1>10, <3>2, <4>1, <4>2 DEF IInv, Noticed
    <3> QED
      BY <1>3, <3>1, <3>2
  <2>8. Aged'
    <3> DEFINE g == Elapsed(now, ctl.graceStarted)
               h == Elapsed(now, ctl.lastHeartbeat)
    <3>1. g \in Nat /\ h \in Nat
      BY <1>3, AgeRange
    <3>2. \/ g = unattended
          \/ /\ ctl.everHeartbeat /\ unattended <= h /\ h <= unattended + MaxStall
      BY <1>10 DEF IInv, Aged
    <3>3. /\ g + 1 < TickModulus => Elapsed(now', ctl.graceStarted) = g + 1
          /\ h + 1 < TickModulus => Elapsed(now', ctl.lastHeartbeat) = h + 1
      BY <1>1, <1>3, ReadingAges
    <3> HIDE DEF g, h
    <3>4. \/ Elapsed(now', ctl.graceStarted) = unattended'
          \/ /\ ctl.everHeartbeat /\ unattended' <= Elapsed(now', ctl.lastHeartbeat)
             /\ Elapsed(now', ctl.lastHeartbeat) <= unattended' + MaxStall
      BY <1>3, <2>3, <2>7, <3>1, <3>2, <3>3, Bounds
    <3> QED
      BY <2>1, <3>4 DEF Aged
  <2>9. UnattendedArmsLoseTorque'
    BY <2>7 DEF UnattendedArmsLoseTorque, MaxUnattended
  <2> QED
    BY <1>5, <1>6, <1>7, <1>8, <2>6, <2>8, <2>9 DEF IInv
<1> QED
  BY <1>9, <1>10

\* The invariant speaks of these variables only.
LEMMA StutterKeeps == IInv /\ UNCHANGED vars => IInv'
<1> SUFFICES ASSUME IInv, UNCHANGED vars PROVE IInv'
  OBVIOUS
<1>1. UNCHANGED <<world, now, ctl, served, unpolled, unattended>>
  BY DEF vars
<1> QED
  BY <1>1 DEF IInv, TypeOK, Sound, Followed, RightWatched, RightArmSupervised, GoingIsLed,
              GoalsAuthorised, TorqueIsWatched, StopTakesEffect, Aged,
              Noticed, LookedFresh, SeenAge, UnattendedArmsLoseTorque,
              NoRestarts, Plain, TorqueOn

\* The controller powers up with no torque and nothing on its way.
LEMMA InvariantInit == Init => IInv
<1> SUFFICES ASSUME Init PROVE IInv
  OBVIOUS
<1> DEFINE s == complete_boot(SafetyInit, TRUE)
<1>1. 0 \in Tick
  BY TickModulusAssumption DEF Tick
<1>2. Calm(s) /\ s \in Safety
  BY <1>1 DEF Calm, complete_boot, SafetyInit, Safety, SafetyState
<1> HIDE DEF s
<1>3. /\ ctl = [safety |-> s,
              stopLatched |-> FALSE, servosConfigured |-> FALSE,
              rightOutputActive |-> FALSE, graceStarted |-> 0, lastHeartbeat |-> 0,
              everHeartbeat |-> FALSE, stopPending |-> FALSE, startPending |-> FALSE,
              clockActive |-> FALSE, tick |-> "NONE", dispatch |-> "IDLE",
              executor |-> "CLOSED", anchorReady |-> FALSE, tracking |-> FALSE,
              settling |-> FALSE, leftOn |-> FALSE, rightOn |-> FALSE,
              goalSent |-> FALSE, rxFaulted |-> FALSE]
      /\ world \in Worlds /\ now = 0 /\ served = TRUE /\ unpolled = 0 /\ unattended = 0
  BY DEF Init, s
<1>4. ctl \in Control
  BY <1>1, <1>2, <1>3 DEF Control, ExecutorState
<1>5. /\ ctl.safety = s /\ ~ctl.leftOn /\ ~ctl.rightOn /\ ~ctl.tracking /\ ~ctl.settling
      /\ ~ctl.clockActive /\ ctl.dispatch = "IDLE" /\ ~ctl.goalSent /\ ~ctl.stopLatched
      /\ ~ctl.servosConfigured
  BY <1>3
<1>6. TypeOK
  BY <1>1, <1>3, <1>4, Bounds DEF TypeOK
<1> QED
  BY <1>2, <1>5, <1>6
     DEF IInv, Sound, Followed, RightWatched, RightArmSupervised, GoingIsLed, Going,
         GoalsAuthorised, TorqueIsWatched, StopTakesEffect, Aged,
         Noticed, UnattendedArmsLoseTorque, TorqueOn

\* Every step keeps the invariant.
LEMMA InvariantNext == IInv /\ [Next]_vars => IInv'
BY HeartbeatKeeps, EnableKeeps, HoldKeeps, ClearFaultKeeps, StreamOpenKeeps, StreamBatchKeeps,
   SafeStopKeeps, DisableKeeps, PrepareShadowKeeps, RightArmOneShotKeeps,
   RightArmDisableKeeps, ArmKeeps, InterruptsKeep, ServicePassKeeps, RxFaultKeeps,
   AdvanceKeeps, StutterKeeps, Zenon DEF Next

\* Every reachable state satisfies it.
LEMMA InvariantHolds == Spec => []IInv
BY InvariantInit, InvariantNext, PTL DEF Spec

-----------------------------------------------------------------------------
(***************************************************************************)
(* The theorems.  That a latch is served and that arms left alone lose     *)
(* torque needs the plain world their properties name: a PREPARE_SHADOW    *)
(* that is refused or meets a stream ends supervision with torque on.      *)
(***************************************************************************)
\* Every field of the control record keeps its range.
THEOREM TypeCorrect == Spec => []TypeOK
<1>1. IInv => TypeOK
  BY DEF IInv
<1> QED
  BY <1>1, InvariantHolds, PTL

\* Goals go out only from a pass that found the stop unlatched, the session
\* active and the arms configured and supervised (Host_ServiceV2Executor).
THEOREM GoalsAlwaysAuthorised == Spec => []GoalsAuthorised
<1>1. IInv => GoalsAuthorised
  BY DEF IInv
<1> QED
  BY <1>1, InvariantHolds, PTL

\* Once the main loop has passed, a latched stop has taken torque off both
\* arms, or is about to (BinaryControl_Service), wherever the world is plain:
\* a refused PREPARE_SHADOW leaves the left arm energised.
THEOREM StopAlwaysTakesEffect == Spec => []StopTakesEffect
<1>1. IInv => StopTakesEffect
  BY DEF IInv
<1> QED
  BY <1>1, InvariantHolds, PTL

\* The right arm has torque only under supervision.
THEOREM RightArmIsSupervised == Spec => [](NoRestarts => RightArmSupervised)
<1>1. IInv => (NoRestarts => RightArmSupervised)
  BY DEF IInv, RightWatched
<1> QED
  BY <1>1, InvariantHolds, PTL

\* The watchdog takes torque off arms that nobody attends to, wherever the
\* clock wraps and however old its readings are, if the world is plain: it
\* does not watch the left arm a refused PREPARE_SHADOW left energised.
THEOREM LeftAloneLosesTorque == Spec => []UnattendedArmsLoseTorque
<1>1. IInv => UnattendedArmsLoseTorque
  BY DEF IInv
<1> QED
  BY <1>1, InvariantHolds, PTL

\* What a step may not do: end the supervision of arms that may still be
\* energised, unless the stop is latched and the fault recorded.
LetGo == ctl.rightOutputActive /\ ~ctl'.rightOutputActive /\ TorqueOn'

Recorded == ctl'.stopLatched /\ ctl'.safety.state = "FAULT"

\* A pass that lets go of arms still energised has performed a stop whose
\* disable failed, and that records the fault.
LEMMA PassRecords ==
    ASSUME IInv, ServicePass \/ RxFault, LetGo
    PROVE  Recorded
<1>1. /\ ctl \in Control /\ Sound(ctl) /\ now \in Tick
  BY DEF IInv, TypeOK
<1>9. PICK c : /\ Entered(c)
              /\ \E in \in ServiceInput(ctl), io \in Io(ctl) : ctl' = Service(c, in, io)
  <2>1. CASE ServicePass
    <3>1. PICK in \in ServiceInput(ctl), io \in Io(ctl) : ctl' = Service(Current, in, io)
      BY <2>1, Zenon DEF ServicePass, Current
    <3>2. Entered(Current)
      BY CurrentIs DEF Entered, IInv, Sound
    <3> QED
      BY <3>1, <3>2
  <2>2. CASE RxFault
    BY <2>2, RxFaultEnters
  <2> QED
    BY <2>1, <2>2
<1>2. PICK in \in ServiceInput(ctl), io \in Io(ctl) : Entered(c) /\ ctl' = Service(c, in, io)
  BY <1>9
<1>3. in.feedback \in {"NONE", "FAULT", "TRACKING_ERROR", "SETTLED"}
  <2>1. ctl.tracking \in BOOLEAN
    BY <1>1 DEF Control
  <2> QED
    BY <2>1 DEF ServiceInput
<1>4. io \in Transactions
  BY <1>1, IoOutcomes
<1>5. c \in Control /\ Sound(c)
  BY <1>1, <1>2 DEF Entered, Sound, SameStream
<1>6. c.tracking /\ in.feedback = "SETTLED" => c.settling /\ c.dispatch = "IDLE"
  <2>1. ctl.tracking /\ in.feedback = "SETTLED" => ctl.settling /\ ctl.dispatch = "IDLE"
    BY DEF ServiceInput
  <2> QED
    BY <1>2, <2>1 DEF Entered, SameStream
<1>7. PICK m \in Control :
        /\ ctl' \in Control /\ Sound(ctl') /\ Carried(m, ctl')
        /\ (Stopped(c, m, io) /\ m.dispatch = "FAULTED") \/ Passed(c, m)
  BY <1>1, <1>2, <1>3, <1>4, <1>5, <1>6, PassServed
<1> QED
  BY <1>2, <1>7 DEF LetGo, Recorded, Carried, Stopped, Passed, Entered, SameWatch, SamePower,
                    TorqueOn

\* So have the three frames that may end supervision.
LEMMA FramesRecord ==
    ASSUME IInv, SafeStop \/ Disable \/ PrepareShadow, LetGo
    PROVE  Recorded
<1>1. /\ Current \in Control /\ Calm(Current.safety)
      /\ Current.rightOutputActive = ctl.rightOutputActive
  BY CurrentIs DEF IInv, Sound, SameWatch
<1>2. \A io \in Io(ctl) : io \in Transactions
  BY IoOutcomes DEF IInv, TypeOK
<1>3. CASE SafeStop
  <2> DEFINE held == HoldIfMoving(Current)
             latched == LatchStop(held)
  <2>1. PICK io \in Io(ctl) : ctl' = PerformCoordinatedStop(latched, FALSE, io)
    BY <1>3, Zenon DEF SafeStop, Frame
  <2>2. held \in Control /\ Calm(held.safety)
    BY <1>1, MovingHeld
  <2>3. latched \in Control /\ Calm(latched.safety)
    BY <2>2, StopLatches
  <2> HIDE DEF latched
  <2>4. Stopped(latched, ctl', io)
    BY <1>2, <2>1, <2>3, StopPerformed
  <2> QED
    BY <2>4 DEF LetGo, Recorded, Stopped, TorqueOn
<1>4. CASE Disable
  <2>1. PICK io \in Io(ctl) : ctl' = Disabled(Current, io)
    BY <1>4, Zenon DEF Disable, Frame
  <2>2. /\ ctl'.leftOn => ctl'.stopLatched /\ ctl'.safety.state = "FAULT"
        /\ IF Current.rightOutputActive
           THEN IF RightVerifiedOff(Current, io)
                THEN ~ctl'.rightOutputActive /\ ~ctl'.rightOn
                ELSE ctl'.rightOutputActive
           ELSE ~ctl'.rightOutputActive
    BY <1>1, <1>2, <2>1, DisabledIs
  <2> QED
    BY <1>1, <2>2 DEF LetGo, Recorded, TorqueOn
<1>5. CASE PrepareShadow
  <2>1. PICK io \in Io(ctl), bound \in BOOLEAN,
             refused \in IF "BAD_REFERENCES" \in world THEN BOOLEAN ELSE {FALSE} :
          ctl' = Prepared(Current, io, refused, bound)
    BY <1>5, Zenon DEF PrepareShadow, Frame
  <2>2. ctl'.leftOn \/ ctl'.rightOn => ctl'.stopLatched /\ ctl'.safety.state = "FAULT"
    BY <1>1, <1>2, <2>1, PreparedIs
  <2> QED
    BY <2>2 DEF LetGo, Recorded, TorqueOn
<1> QED
  BY <1>3, <1>4, <1>5

\* No other frame lets go of the arms.
LEMMA OthersHold ==
    ASSUME IInv,
           \/ Heartbeat \/ Arm \/ Enable \/ StreamOpen \/ StreamBatch \/ ClearFault \/ Hold
           \/ RightArmOneShot \/ ControlTick \/ PairCompletes \/ BusError \/ Advance,
           ctl.rightOutputActive
    PROVE  ctl'.rightOutputActive
<1>1. /\ Current \in Control /\ Calm(Current.safety) /\ Sound(ctl)
      /\ SameWatch(ctl, Current) /\ SameStream(ctl, Current)
      /\ Current.rightOutputActive /\ Current.tick = ctl.tick /\ now \in Tick
  BY CurrentIs DEF IInv, TypeOK, Sound, SameWatch
<1>2. CASE Heartbeat
  BY <1>1, <1>2 DEF Heartbeat, Frame, Control
<1>3. CASE Enable
  BY <1>1, <1>3 DEF Enable, Frame, Control
<1>8. CASE StreamOpen
  BY <1>1, <1>8 DEF StreamOpen, Frame, Control
<1>9. CASE StreamBatch
  BY <1>1, <1>9 DEF StreamBatch, Frame, Control
<1>10. CASE ClearFault
  <2>1. PICK s : \/ ctl' = Current
                 \/ ctl' = [Current EXCEPT !.safety = s, !.stopLatched = FALSE,
                                           !.rxFaulted = FALSE]
    BY <1>10, Zenon DEF ClearFault, Frame
  <2> QED
    BY <1>1, <2>1 DEF Control
<1>4. CASE Hold
  <2> DEFINE held == HoldIfMoving(Current)
  <2>1. held \in Control /\ held.rightOutputActive
    BY <1>1, MovingHeld DEF SameWatch
  <2>2. LatchStop(held).rightOutputActive
    BY <2>1, StopLatches DEF SameWatch
  <2>3. ctl' = LatchStop(held) \/ ctl' = Current
    BY <1>4 DEF Hold, Frame
  <2> QED
    BY <1>1, <2>2, <2>3
<1>5. CASE Arm
  <2>0. PICK io \in Io(ctl), matches \in BOOLEAN :
          LET c == IF ~matches \/ ctl.servosConfigured \/ ~MayConfigure(ctl)
                   THEN Current ELSE Configured(Current, io)
              health == matches => c.servosConfigured
          IN  Frame([c EXCEPT !.safety = request_arm(@, health, matches)])
    BY <1>5, Zenon DEF Arm
  <2> DEFINE e == IF ~matches \/ ctl.servosConfigured \/ ~MayConfigure(ctl)
                  THEN Current ELSE Configured(Current, io)
             s == request_arm(e.safety, matches => e.servosConfigured, matches)
  <2>1. ctl' = [e EXCEPT !.safety = s] /\ (e = Current \/ e = Configured(Current, io))
    BY <2>0 DEF Frame
  <2> HIDE DEF e, s
  <2>2. io \in Transactions /\ (io.pending => Current.tracking)
    BY <1>1, IoOutcomes DEF IInv, TypeOK, SameStream
  <2>3. Sound(Current)
    BY <1>1 DEF Sound, SameStream
  <2>4. e \in Control /\ e.rightOutputActive
    BY <1>1, <2>1, <2>2, <2>3, ConfiguredIs
  <2> QED
    BY <2>1, <2>4 DEF Control
<1>6. CASE RightArmOneShot
  BY <1>1, <1>6 DEF RightArmOneShot, Frame, Control
<1>7. CASE ControlTick \/ PairCompletes \/ BusError \/ Advance
  BY <1>1, <1>7 DEF ControlTick, PairCompletes, BusError, Interrupt, Advance, Control
<1> QED
  BY <1>2, <1>3, <1>4, <1>5, <1>6, <1>7, <1>8, <1>9, <1>10

\* The watchdog and the frames of a session let go of arms that may still be
\* energised only with the fault recorded and the stop latched.
THEOREM NothingIsLetGoSilently == Spec => SupervisionNotDroppedSilently
<1>1. IInv /\ [Next]_vars =>
        [ ctl.rightOutputActive /\ ~ctl'.rightOutputActive /\ TorqueOn'
              /\ "MAINTENANCE" \notin world =>
            ctl'.stopLatched /\ ctl'.safety.state = "FAULT" ]_vars
  <2> SUFFICES ASSUME IInv, Next, LetGo, "MAINTENANCE" \notin world
               PROVE  Recorded
    BY DEF LetGo, Recorded
  <2>1. ~RightArmDisable
    BY DEF RightArmDisable
  <2>2. CASE ServicePass \/ RxFault
    BY <2>2, PassRecords
  <2>3. CASE SafeStop \/ Disable \/ PrepareShadow
    BY <2>3, FramesRecord
  <2>4. CASE \/ Heartbeat \/ Arm \/ Enable \/ StreamOpen \/ StreamBatch \/ ClearFault \/ Hold
             \/ RightArmOneShot \/ ControlTick \/ PairCompletes \/ BusError \/ Advance
    BY <2>4, OthersHold DEF LetGo
  <2> QED
    BY <2>1, <2>2, <2>3, <2>4, Zenon DEF Next
<1> QED
  BY <1>1, InvariantHolds, PTL DEF Spec, SupervisionNotDroppedSilently
==============================================================================

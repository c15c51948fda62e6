--------------------------- MODULE ActuatorSafety ---------------------------
(***************************************************************************)
(* The safety state machine under any caller: host requests, faults and    *)
(* the emergency stop come in any order while a clock that wraps runs, and *)
(* a main loop ticks the machine at least every MaxTickGap milliseconds.   *)
(* Machine marks the names that ArmControl uses for the whole program.     *)
(***************************************************************************)
EXTENDS SafetyRules

CONSTANTS MaxTickGap,  \* longest time the main loop blocks between two ticks
          MaxSilence   \* longest silence followed: less than a turn of the clock

ASSUME MachineAssumption ==
    /\ MaxTickGap \in 1 .. HeartbeatTimeout
    /\ MaxSilence \in Nat /\ HeartbeatTimeout + MaxTickGap < MaxSilence
    /\ MaxSilence < TickModulus

Never == -1

VARIABLES
    clock,     \* HAL_GetTick()
    safety,    \* actuator_safety_t
    unticked,  \* time since the last safety tick
    age        \* history: true age of the heartbeat of this session, or Never

machine_vars == <<clock, safety, unticked, age>>

MachineTypeOK ==
    /\ clock \in Tick
    /\ safety \in Safety
    /\ unticked \in 0 .. MaxTickGap
    /\ age \in 0 .. MaxSilence \cup {Never}

MachineInit == clock \in Tick /\ safety = SafetyInit /\ unticked = 0 /\ age = Never

\* One call of the state machine; age as it leaves it.
Call(s, a) == safety' = s /\ age' = a /\ UNCHANGED <<clock, unticked>>

\* A call that, unless refused, ends the session its heartbeat belonged to.
EndSession(s) == Call(s, IF s = safety THEN age ELSE Never)

CompleteBoot == \E health \in BOOLEAN : Call(complete_boot(safety, health), age)

\* A frame is parsed up to MaxTickGap after its last byte was stamped; frames
\* are parsed in the order of their stamps.
OnHeartbeat ==
    \E delay \in 0 .. MaxTickGap :
        /\ age # Never => delay <= age
        /\ safety' = on_heartbeat(safety, Elapsed(clock, delay))
        /\ age' = delay
        /\ UNCHANGED <<clock, unticked>>

RequestArm ==
    \E health, matches \in BOOLEAN : Call(request_arm(safety, health, matches), age)

RequestEnable == Call(request_enable(safety, clock), age)

RequestHold == Call(request_hold(safety), age)

RequestDisable == EndSession(request_disable(safety))

ReportFault == Call(report_fault(safety), age)

SetEstop == \E asserted \in BOOLEAN : Call(set_estop(safety, asserted), age)

ClearLatchedStop == \E health \in BOOLEAN : EndSession(clear_latched_stop(safety, health))

SafetyTick ==
    /\ safety' = safety_tick(safety, clock)
    /\ unticked' = 0
    /\ UNCHANGED <<clock, age>>

ClockAdvances ==
    /\ unticked < MaxTickGap
    /\ age < MaxSilence
    /\ clock' = Plus(clock, 1)
    /\ unticked' = unticked + 1
    /\ age' = IF age = Never THEN Never ELSE age + 1
    /\ UNCHANGED safety

MachineNext ==
    \/ CompleteBoot \/ OnHeartbeat \/ RequestArm \/ RequestEnable \/ RequestHold
    \/ RequestDisable \/ ReportFault \/ SetEstop \/ ClearLatchedStop
    \/ SafetyTick \/ ClockAdvances

MachineSpec == MachineInit /\ [][MachineNext]_machine_vars

-----------------------------------------------------------------------------
(***************************************************************************)
(* Properties.                                                             *)
(***************************************************************************)
\* While the emergency stop is asserted no sequence of arm, enable, fault,
\* disable or clear calls leaves ESTOPPED or asks for torque.
EstopDominates ==
    safety.estop_asserted =>
        safety.state = "ESTOPPED" /\ safety.torque_disable_requested

\* Torque is requested exactly by an enable that has not been undone: it is
\* never left requested in a state that no longer moves, and never missing
\* while setpoints are accepted.
TorqueAuthority ==
    /\ ~safety.torque_disable_requested => safety.state \in {"ACTIVE", "HOLD"}
    /\ safety.state = "ACTIVE" => accepts_setpoint(safety)

\* The machine is ACTIVE only on a heartbeat of this very session, and leaves
\* ACTIVE within one pass of the main loop of its going stale, wherever the
\* clock wraps and however late the frame was parsed.
ActiveMeansHeard ==
    safety.state = "ACTIVE" => age # Never /\ age <= HeartbeatTimeout + unticked

\* ACTIVE is entered from ARMED only, and a latched stop is left for
\* SAFE_DISABLED only: every way back to motion passes through arming.
NoShortCutToActive ==
    [][ /\ safety'.state = "ACTIVE" => safety.state \in {"ARMED", "ACTIVE"}
        /\ safety.state \in {"FAULT", "ESTOPPED"} =>
             safety'.state \in {"FAULT", "ESTOPPED", "SAFE_DISABLED"} ]_machine_vars
=============================================================================

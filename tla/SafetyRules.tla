---------------------------- MODULE SafetyRules ----------------------------
(***************************************************************************)
(* The safety state machine of the actuator core (safety.c): one function  *)
(* from record to record per call.  A refused call returns its argument.   *)
(* fault_code and hold_requested are left out: no code reads them back.    *)
(***************************************************************************)
EXTENDS ModularTick

CONSTANT HeartbeatTimeout   \* milliseconds a heartbeat stays fresh

ASSUME HeartbeatTimeoutAssumption == HeartbeatTimeout \in Nat

SafetyState == {"BOOT", "SAFE_DISABLED", "ARMED", "ACTIVE", "HOLD", "FAULT", "ESTOPPED"}

Safety == [state: SafetyState, last_heartbeat_ms: Tick, heartbeat_seen: BOOLEAN,
           torque_disable_requested: BOOLEAN, estop_asserted: BOOLEAN]

SafetyInit == [state |-> "BOOT", last_heartbeat_ms |-> 0, heartbeat_seen |-> FALSE,
               torque_disable_requested |-> TRUE, estop_asserted |-> FALSE]

HeartbeatFresh(s, now_ms) ==
    s.heartbeat_seen /\ Elapsed(now_ms, s.last_heartbeat_ms) <= HeartbeatTimeout

complete_boot(s, health) ==
    IF s.state # "BOOT" THEN s
    ELSE [s EXCEPT !.state = IF health THEN "SAFE_DISABLED" ELSE "FAULT"]

on_heartbeat(s, now_ms) ==
    [s EXCEPT !.last_heartbeat_ms = now_ms, !.heartbeat_seen = TRUE]

ArmPermitted(s, health, matches) ==
    s.state = "SAFE_DISABLED" /\ ~s.estop_asserted /\ health /\ matches

request_arm(s, health, matches) ==
    IF ~ArmPermitted(s, health, matches) THEN s
    ELSE [s EXCEPT !.state = "ARMED", !.torque_disable_requested = TRUE]

EnablePermitted(s, now_ms) ==
    s.state = "ARMED" /\ ~s.estop_asserted /\ HeartbeatFresh(s, now_ms)

request_enable(s, now_ms) ==
    IF ~EnablePermitted(s, now_ms) THEN s
    ELSE [s EXCEPT !.state = "ACTIVE", !.torque_disable_requested = FALSE]

request_hold(s) == IF s.state # "ACTIVE" THEN s ELSE [s EXCEPT !.state = "HOLD"]

\* Mutant: a disable keeps the heartbeat of the session it ends.
DisableKeepsHeartbeat(s) ==
    IF s.state \in {"BOOT", "FAULT", "ESTOPPED"} THEN s
    ELSE [s EXCEPT !.state = "SAFE_DISABLED", !.torque_disable_requested = TRUE]

request_disable(s) ==
    IF s.state \in {"BOOT", "FAULT", "ESTOPPED"} THEN s
    ELSE [s EXCEPT !.state = "SAFE_DISABLED", !.torque_disable_requested = TRUE,
                   !.heartbeat_seen = FALSE]

\* Mutant: a fault overwrites the emergency stop.
FaultOverEstop(s) == [s EXCEPT !.state = "FAULT", !.torque_disable_requested = TRUE]

report_fault(s) ==
    [s EXCEPT !.state = IF s.estop_asserted THEN s.state ELSE "FAULT",
              !.torque_disable_requested = TRUE]

set_estop(s, asserted) ==
    [s EXCEPT !.estop_asserted = asserted,
              !.state = IF asserted THEN "ESTOPPED" ELSE s.state,
              !.torque_disable_requested = asserted \/ s.torque_disable_requested]

\* Mutant: clearing a stop returns to where arming left off.
ClearToArmed(s, health) ==
    IF s.state \notin {"FAULT", "ESTOPPED"} \/ s.estop_asserted \/ ~health THEN s
    ELSE [s EXCEPT !.state = "ARMED", !.heartbeat_seen = FALSE]

clear_latched_stop(s, health) ==
    IF s.state \notin {"FAULT", "ESTOPPED"} \/ s.estop_asserted \/ ~health THEN s
    ELSE [s EXCEPT !.state = "SAFE_DISABLED", !.heartbeat_seen = FALSE,
                   !.torque_disable_requested = TRUE]

safety_tick(s, now_ms) ==
    IF s.state = "ACTIVE" /\ ~HeartbeatFresh(s, now_ms)
    THEN [s EXCEPT !.state = "HOLD"] ELSE s

accepts_setpoint(s) ==
    s.state = "ACTIVE" /\ ~s.estop_asserted /\ ~s.torque_disable_requested
============================================================================

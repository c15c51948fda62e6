---------------------------- MODULE MCArmControl ----------------------------
(***************************************************************************)
(* A small arm controller for TLC.  What happens next depends on the ages  *)
(* of the readings a state holds, never on the clock itself, so states     *)
(* that differ by a shift of the clock are visited once.  The history of   *)
(* receiver faults is kept only in the run that asks about it.             *)
(***************************************************************************)
EXTENDS ArmControl

\* The age of a reading, where the code can still look at it.
AgeIf(kept, reading) == IF kept THEN Elapsed(now, reading) ELSE 0

MCView ==
    <<world, [ctl EXCEPT
         !.safety.last_heartbeat_ms = AgeIf(ctl.safety.heartbeat_seen, @),
         !.lastHeartbeat = AgeIf(ctl.everHeartbeat, @),
         !.graceStarted = AgeIf(ctl.rightOutputActive, @),
         !.rxFaulted = @ /\ "RESTARTS" \in world],
      served, unpolled, unattended>>
=============================================================================

--------------------------- MODULE BoundedMotion ---------------------------
(***************************************************************************)
(* What a trajectory executor promises whoever owns the arm, without a     *)
(* word about queues, batches or clocks: the commanded posture changes     *)
(* only while the executor is moving, only to safe postures, and a motion  *)
(* that has stopped stays stopped until a new one is prepared.             *)
(***************************************************************************)
CONSTANT Safe(_)      \* postures the arm may be commanded to

VARIABLES phase,      \* "idle", "moving", "finished" or "stopped"
          commanded   \* the posture the servos were last told

vars == <<phase, commanded>>

Init == phase = "idle"

Prepare == phase # "moving" /\ phase' = "idle" /\ UNCHANGED commanded

Begin == phase = "idle" /\ phase' = "moving" /\ UNCHANGED commanded

\* The last move of a motion may also end it.
Move == /\ phase = "moving"
        /\ Safe(commanded')
        /\ phase' \in {"moving", "finished", "stopped"}

\* A motion that fails, or whose end proves wrong afterwards, stops.
Stop == /\ phase \in {"moving", "finished"}
        /\ phase' = "stopped"
        /\ UNCHANGED commanded

Next == Prepare \/ Begin \/ Move \/ Stop

Spec == Init /\ [][Next]_vars
============================================================================

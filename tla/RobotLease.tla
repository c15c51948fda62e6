----------------------------- MODULE RobotLease -----------------------------
(***************************************************************************)
(* What sharing one robot between tasks promises: one task owns it at a    *)
(* time, only the owner's goals are at work on it, and a task that gave    *)
(* the robot back left nothing at work and never returns.                  *)
(***************************************************************************)
CONSTANTS Run, None

VARIABLES
    owner,  \* the task that owns the robot, or None
    ended,  \* tasks that gave it back
    busy    \* tasks with a goal at work

vars == <<owner, ended, busy>>

Init == owner = None /\ ended = {} /\ busy = {}

Acquire(r) ==
    /\ owner = None /\ r \notin ended
    /\ owner' = r
    /\ UNCHANGED <<ended, busy>>

Work ==
    /\ busy' \subseteq {owner} \cap Run
    /\ UNCHANGED <<owner, ended>>

Release ==
    /\ owner # None
    /\ owner' = None
    /\ ended' = ended \cup {owner}
    /\ busy' = {}

Next == (\E r \in Run : Acquire(r)) \/ Work \/ Release

Spec == Init /\ [][Next]_vars

\* No goal is at work but the owner's, and no owner comes back.
Owned == busy \subseteq {owner} /\ owner \notin ended
=============================================================================

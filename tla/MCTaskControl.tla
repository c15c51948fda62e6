--------------------------- MODULE MCTaskControl ---------------------------
(***************************************************************************)
(* Two tasks, each a drive and a move of the lift.  States that differ     *)
(* only in what no step looks at again are visited once: the deadlines of  *)
(* a task that is being stopped, and gaps between the ticks of a runtime   *)
(* that has failed.                                                        *)
(***************************************************************************)
EXTENDS TaskControl

DriveThenLift == <<"NAVIGATE", "LIFT">>

BeingStopped == sys.owner # None /\ State(sys) \in Stopping

MCView ==
    [sys EXCEPT
       !.taskAge = IF BeingStopped THEN 0 ELSE @,
       !.stepAge = IF BeingStopped THEN 0 ELSE @,
       !.gap = IF sys.fault THEN 0 ELSE @]
=============================================================================

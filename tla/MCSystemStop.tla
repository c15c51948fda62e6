---------------------------- MODULE MCSystemStop ----------------------------
(***************************************************************************)
(* Small robots for TLC, with one kind of motion.  The model only compares *)
(* readings of the clock, so states that differ by a shift of it allow the *)
(* same steps, shifted, and one of them stands for all, in the properties  *)
(* that hold in the end too.  So do states that differ in a reading nobody *)
(* compares any more: when a stop that is judged began, and when a         *)
(* transaction began on a bus that has faulted.                            *)
(***************************************************************************)
EXTENDS SystemStop

\* Everything can go wrong, whether the arms can be read or not; a robot that
\* works has jobs that outlive two turns of the main loop.
AllRobots ==
    {[lifetime |-> 3, job_budget |-> 2, faults |-> TRUE, arm_feedback |-> BOOLEAN],
     [lifetime |-> 2, job_budget |-> 1, faults |-> TRUE, arm_feedback |-> {FALSE}],
     [lifetime |-> 6, job_budget |-> 3, faults |-> FALSE, arm_feedback |-> {TRUE}]}

Aged(r) ==
    [r EXCEPT
       !.jobs = [k \in Work |-> IF @[k].pending
                                THEN [@[k] EXCEPT !.deadline = Elapsed(@, now)] ELSE @[k]],
       !.bus.started = IF r.bus.active /\ ~r.bus.faulted THEN Elapsed(now, @) ELSE 0]

MCView ==
    <<robot, Aged(left), Aged(right), uart, output,
      [stop EXCEPT !.started = IF stop.state = "PENDING" THEN Elapsed(now, @) ELSE 0,
                   !.completed_at = IF stop.actions_completed THEN Elapsed(now, @) ELSE 0],
      turn, unpolled, sent, seenAfter>>
=============================================================================

---------------------------- MODULE MCBusRouter -----------------------------
(***************************************************************************)
(* A small router for TLC.  Clock readings matter only by their distance   *)
(* from the clock, so states that differ by a shift are visited once.      *)
(***************************************************************************)
EXTENDS BusRouter

MCView ==
    <<[router EXCEPT
         !.jobs = [k \in Work |-> IF @[k].pending
                                  THEN [@[k] EXCEPT !.deadline = Elapsed(@, now)] ELSE @[k]],
         !.bus.started = IF router.bus.active THEN Elapsed(now, @) ELSE 0],
      wire, ended, unpolled, [k \in Work |-> IF router.jobs[k].pending THEN due[k] ELSE 0],
      IF router.bus.active THEN dueOnWire ELSE 0, owed, passed>>
=============================================================================

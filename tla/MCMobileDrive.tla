--------------------------- MODULE MCMobileDrive ---------------------------
(***************************************************************************)
(* A small base for TLC.  Readings of a clock are only compared with each  *)
(* other, so states that differ by a shift of either clock allow the same  *)
(* steps, shifted, and one of them stands for all; so it is with what is   *)
(* overwritten before it is read, and with the number of a transaction.    *)
(* Once the output has stopped, which nothing undoes, CommandAllowed keeps *)
(* every use of the session and of the evidence out.                       *)
(***************************************************************************)
EXTENDS MobileDrive

Left(packet) == IF packet.moving THEN [packet EXCEPT !.until = Elapsed(@, ms)] ELSE Zero

MCRouter ==
    [jobs |-> [k \in Work |-> IF router.jobs[k].pending
                              THEN <<Left(router.jobs[k].packet),
                                     Elapsed(router.jobs[k].deadline, us)>>
                              ELSE <<>>],
     bus |-> IF router.bus.active
             THEN <<router.bus.owner, Elapsed(us, router.bus.started)>>
             ELSE <<>>,
     flags |-> <<router.bus.stop_pending, router.bus.faulted, router.inhibited>>]

MCSupervisor ==
    [supervisor EXCEPT
       !.sequence = IF supervisor.have_sequence THEN @ ELSE 0,
       !.command_ms = IF supervisor.state = "ACTIVE" THEN Elapsed(ms, @) ELSE 0,
       !.valid_for = IF supervisor.state = "ACTIVE" THEN @ ELSE 0,
       !.feedback = [@ EXCEPT !.observed = Elapsed(ms, @),
                                      !.still = @ /\ supervisor.feedback.good]]

MCView ==
    <<sub, output, MCRouter, uart.phase, uart.phase = "SENDING" /\ uart.packet.moving,
      turn, unpolled, wheels,
      IF output.stop_requested /\ router.inhibited THEN <<supervisor.state>>
      ELSE <<MCSupervisor, evidenceAge, readerFault>> >>
=============================================================================

----------------------------- MODULE OutputPass -----------------------------
(***************************************************************************)
(* What the outputs of the main loop do with a router and its UART in one  *)
(* pass (mobile_servo_output.c, mobile_hold_output.c).                     *)
(***************************************************************************)
EXTENDS BusRules

\* A transmission is on the line, out whole, or failed.
Phase == {"IDLE", "SENDING", "DONE", "ERROR"}

\* A router with the deadlines of its queued jobs checked, whoever has the UART.
Swept(r, now) ==
    [r EXCEPT !.jobs = [k \in Work |-> IF @[k].pending /\ Expired(@[k], now) THEN NoJob ELSE @[k]]]

\* actuator_mobile_output_stop, on the router: once the zero is out, repeated
\* faults must not ask for another one.
OutputStopped(l, o) ==
    DropMotion(IF o.stop_written THEN [l EXCEPT !.inhibited = TRUE] ELSE Inhibit(l))

\* Settle the transaction in flight, then claim and launch the next.  The
\* outcome says how far a pass gets: BUSY when the line is not quiet yet or
\* another owner has the UART, FAILED when what it claims comes too late or
\* does not launch.
Pass(r, phase, now, available, outcome) ==
    LET settled == IF r.bus.active THEN RouterCompleted(r, r.bus.token, now, TRUE) ELSE r
        next == Dispatched(settled, now, available)
        result(router, line, ok) ==
            [router |-> router, phase |-> line, launched |-> line = "SENDING" /\ line # phase,
             ok |-> ok]
    IN  CASE r.bus.faulted \/ phase = "ERROR" -> result(r, phase, FALSE)
          [] ~r.bus.faulted /\ phase # "ERROR"
             /\ (outcome = "BUSY" \/ (r.bus.active /\ phase # "DONE")) -> result(r, phase, TRUE)
          [] OTHER ->
             IF next.bus.token = settled.bus.token THEN result(next, "IDLE", TRUE)
             ELSE IF outcome = "FAILED"
                  THEN result(RouterCompleted(next, next.bus.token, now, FALSE), "IDLE", FALSE)
             ELSE result(next, "SENDING", TRUE)
=============================================================================

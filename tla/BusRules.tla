------------------------------ MODULE BusRules ------------------------------
(***************************************************************************)
(* One servo UART and the router in front of it (shared_bus.c,             *)
(* bus_router.c).  A router keeps one queued job per kind of work, each    *)
(* with a deadline and a time budget, and hands the bus to one transaction *)
(* at a time.  The operators below are the C functions: each takes the     *)
(* state it may change and returns the new state.                          *)
(***************************************************************************)
EXTENDS ModularTick

CONSTANTS
    WorkCount,  \* kinds of work, STOP among them: 5 in the firmware
    MaxToken,   \* the last transaction identity of a boot: UINT32_MAX
    Packet      \* packets that can be told apart

ASSUME BusAssumption ==
    /\ WorkCount \in Nat /\ WorkCount > 1
    /\ MaxToken \in Nat \ {0}
    /\ Packet # {}

STOP == 0

Motion == 1 .. WorkCount - 1

Work == 0 .. WorkCount - 1

\* What a budget or an available window may be: less than half a turn.
Budget == 1 .. HalfTurn - 1

NoJob == [pending |-> FALSE]

Job == [pending: {TRUE}, packet: Packet, deadline: Tick, budget: Budget] \cup {NoJob}

Bus ==
    [active: BOOLEAN, stop_pending: BOOLEAN, faulted: BOOLEAN,
     token: 0 .. MaxToken, started: Tick, budget: Budget \cup {0}, owner: Work]

\* receipt is the completed_* group: the last transmission known to be whole.
Receipt == [token: 0 .. MaxToken, kind: Work, packet: Packet]

Router ==
    [bus: Bus, jobs: [Work -> Job], sending: Packet, inhibited: BOOLEAN,
     cursor: 0 .. WorkCount - 2, receipt: Receipt]

APacket == CHOOSE packet \in Packet : TRUE

RouterInit ==
    [bus |-> [active |-> FALSE, stop_pending |-> FALSE, faulted |-> FALSE,
              token |-> 0, started |-> 0, budget |-> 0, owner |-> STOP],
     jobs |-> [kind \in Work |-> NoJob], sending |-> APacket, inhibited |-> FALSE,
     cursor |-> 0, receipt |-> [token |-> 0, kind |-> STOP, packet |-> APacket]]

-----------------------------------------------------------------------------
(***************************************************************************)
(* The bus.                                                                *)
(***************************************************************************)
request_stop(b) == [b EXCEPT !.stop_pending = TRUE]

Faulted(b) == [b EXCEPT !.faulted = TRUE, !.stop_pending = TRUE]

\* Mutant: a transaction keeps the bus for as long as it likes.
PollUnlimited(b, now) == b

\* actuator_shared_bus_poll
Poll(b, now) ==
    IF b.active /\ Elapsed(now, b.started) >= b.budget THEN Faulted(b) ELSE b

\* What keeps a polled bus from a job, the token aside.
MayAcquire(b, kind, budget, available) ==
    /\ ~b.faulted /\ ~b.active
    /\ kind = STOP \/ (~b.stop_pending /\ budget <= available)

\* actuator_shared_bus_acquire.  A token is never reused within a boot.
Acquired(b, kind, budget, now) ==
    IF b.token = MaxToken THEN Faulted(b)
    ELSE [b EXCEPT !.token = @ + 1, !.active = TRUE, !.owner = kind,
                   !.started = now, !.budget = budget]

MayComplete(b, token) == b.active /\ token = b.token /\ ~b.faulted

\* actuator_shared_bus_complete, on a polled bus that may complete.
Completed(b, ok) ==
    IF ok THEN [b EXCEPT !.active = FALSE, !.stop_pending = @ /\ b.owner # STOP]
    ELSE Faulted(b)

\* actuator_shared_bus_recover, the UART being idle.
Recovered(b) ==
    IF b.faulted /\ b.token # MaxToken
    THEN [b EXCEPT !.active = FALSE, !.faulted = FALSE, !.stop_pending = TRUE]
    ELSE b

-----------------------------------------------------------------------------
(***************************************************************************)
(* The router.                                                             *)
(***************************************************************************)
Polled(r, now) == [r EXCEPT !.bus = Poll(@, now)]

Inhibit(r) == [r EXCEPT !.inhibited = TRUE, !.bus = request_stop(@)]

DropMotion(r) == [r EXCEPT !.jobs = [kind \in Work |-> IF kind = STOP THEN @[kind] ELSE NoJob]]

\* A job that can be done by its deadline at all.
WellFormed(remaining, budget) == 0 < budget /\ budget < remaining /\ remaining < HalfTurn

\* When actuator_bus_router_submit takes a well-formed job on a polled bus.
Accepts(r, kind) ==
    /\ ~r.bus.faulted
    /\ kind = STOP \/ (~r.bus.stop_pending /\ ~r.inhibited)

\* Mutant: a stop leaves the motion already queued behind it.
StopKeepsQueue(r) == [r EXCEPT !.bus = request_stop(@)]

\* What accepting a STOP does to the rest of the router.
StopTakesOver(r) == Inhibit(DropMotion(r))

\* actuator_bus_router_submit
Submitted(r, kind, packet, now, deadline, budget) ==
    LET p == Polled(r, now)
        job == [pending |-> TRUE, packet |-> packet, deadline |-> deadline, budget |-> budget]
    IN  IF ~WellFormed(Elapsed(deadline, now), budget) THEN r
        ELSE IF ~Accepts(p, kind) THEN p
        ELSE IF kind = STOP THEN [StopTakesOver(p) EXCEPT !.jobs[STOP] = job]
        ELSE [p EXCEPT !.jobs[kind] = job]

\* Mutant: a deadline is looked at only when the job is submitted.
NeverExpires(job, now) == FALSE

\* A queued job that can no longer be done by its deadline.
Expired(job, now) ==
    LET remaining == Elapsed(job.deadline, now)
    IN  remaining = 0 \/ remaining >= HalfTurn \/ job.budget >= remaining

\* The order in which a poll looks at the jobs: STOP, then round robin.
Rank(r, kind) == IF kind = STOP THEN -1 ELSE (kind - 1 - r.cursor) % (WorkCount - 1)

FirstOf(r, kinds) == CHOOSE k \in kinds : \A other \in kinds : Rank(r, k) <= Rank(r, other)

Eligible(r) == {k \in Work : r.jobs[k].pending /\ (r.inhibited => k = STOP)}

\* An expired job must not simply vanish while a motor keeps its last velocity.
Expire(r, kind) == Inhibit([r EXCEPT !.jobs[kind] = NoJob])

\* Mutant: every search starts from the same kind of work.
StuckCursor(kind) == 0

NextCursor(kind) == kind % (WorkCount - 1)

Claim(r, kind, now) ==
    [r EXCEPT !.bus = Acquired(@, kind, r.jobs[kind].budget, now),
              !.sending = r.jobs[kind].packet, !.jobs[kind] = NoJob,
              !.cursor = NextCursor(kind)]

\* actuator_bus_router_next.  It claims the first job that fits the window; on
\* the way to it, an expired job ends the search, since from there on only STOP
\* may be sent.  Out of tokens, the bus faults and the search goes on for
\* expired jobs only.
Dispatched(r, now, available) ==
    LET p == Polled(r, now)
        expired == {k \in Eligible(p) : Expired(p.jobs[k], now)}
        fits == {k \in Eligible(p) \ expired :
                    MayAcquire(p.bus, k, p.jobs[k].budget, available)}
        first == FirstOf(p, fits \cup expired)
        spent == [p EXCEPT !.bus = Faulted(@)]
    IN  IF p.bus.active \/ p.bus.faulted \/ fits \cup expired = {} THEN p
        ELSE IF first \in expired THEN Expire(p, first)
        ELSE IF p.bus.token < MaxToken THEN Claim(p, first, now)
        ELSE IF expired # {} THEN Expire(spent, FirstOf(p, expired))
        ELSE spent

\* Mutant: the receipt copies the bytes of the job slot, not of the transaction.
ReceiptFromQueue(r, token, now, ok) ==
    LET p == Polled(r, now)
        done == [p EXCEPT !.bus = Completed(@, ok)]
        slot == p.jobs[p.bus.owner]
    IN  IF ~MayComplete(p.bus, token) THEN p
        ELSE IF ~ok THEN done
        ELSE [done EXCEPT !.receipt =
                 [token |-> token, kind |-> p.bus.owner,
                  packet |-> IF slot.pending THEN slot.packet ELSE p.sending]]

\* actuator_bus_router_complete
RouterCompleted(r, token, now, ok) ==
    LET p == Polled(r, now)
        done == [p EXCEPT !.bus = Completed(@, ok)]
    IN  IF ~MayComplete(p.bus, token) THEN p
        ELSE IF ~ok THEN done
        ELSE [done EXCEPT !.receipt = [token |-> token, kind |-> p.bus.owner,
                                       packet |-> p.sending]]

MayResume(r) ==
    ~r.bus.active /\ ~r.bus.faulted /\ ~r.bus.stop_pending /\ ~r.jobs[STOP].pending

\* actuator_bus_router_resume, with the whole stop confirmed.
Resumed(r) == IF MayResume(r) THEN [r EXCEPT !.inhibited = FALSE] ELSE r
=============================================================================

----------------------------- MODULE BusRouter ------------------------------
(***************************************************************************)
(* A router, the clients that queue jobs on it, the UART behind it and the *)
(* microsecond clock.  The main loop is the only caller, so every call is  *)
(* one step; transmissions end, fail, and are reported, once, late or      *)
(* twice, whenever they like.                                              *)
(***************************************************************************)
EXTENDS BusRules

CONSTANTS
    Lifetimes,  \* job deadlines, from the moment of submission
    Budgets,    \* job budgets
    Windows,    \* time available before the next slot of the arms
    MaxOutage,  \* longest time between two passes of the main loop
    Watched     \* the kind of work whose turn is counted

ASSUME BusRouterAssumption ==
    /\ Lifetimes \subseteq Budget /\ Budgets \subseteq Budget
    /\ Windows \subseteq 0 .. HalfTurn - 1
    /\ MaxOutage \in Nat \ {0} /\ MaxOutage < HalfTurn
    /\ Watched \in Motion

\* The kinds of motion take their turns in less than half a turn of the clock:
\* in the firmware, four transactions of a few milliseconds, and as many passes
\* of the main loop, against half an hour.
ASSUME PromptAssumption ==
    \A budget \in Budgets : (WorkCount - 1) * (budget - 1 + MaxOutage) < HalfTurn

VARIABLES
    now,       \* Timebase_NowUs()
    router,    \* actuator_bus_router_t
    wire,      \* the transmission the UART is busy with
    ended,     \* history: the last transmission that went out whole
    unpolled,  \* time since the main loop last polled for work
    due,       \* history: time left until the deadline of each queued job
    dueOnWire, \* history: the same for the transaction that has the bus
    owed,      \* history: what must still happen before anything may move
    passed     \* history: how often Watched could have gone and another went

vars == <<now, router, wire, ended, unpolled, due, dueOnWire, owed, passed>>

Idle == [token |-> 0, kind |-> STOP, packet |-> APacket]

MaxDue == HalfTurn

TypeOK ==
    /\ now \in Tick
    /\ router \in Router
    /\ wire \in Receipt /\ ended \in Receipt
    /\ unpolled \in 0 .. MaxOutage
    /\ due \in [Work -> 0 .. MaxDue] /\ dueOnWire \in 0 .. MaxDue
    /\ owed \in {"NOTHING", "STOP", "RESUME"}
    /\ passed \in Nat

Init ==
    /\ now \in Tick
    /\ router = RouterInit
    /\ wire = Idle /\ ended = Idle
    /\ unpolled = 0
    /\ due = [kind \in Work |-> 0] /\ dueOnWire = 0
    /\ owed = "NOTHING"
    /\ passed = 0

-----------------------------------------------------------------------------
Claims == router'.bus.token # router.bus.token

Acknowledges == router'.receipt # router.receipt

\* A job left the queue and nothing was sent for it.
Drops == \E kind \in Work :
    router.jobs[kind].pending /\ ~router'.jobs[kind].pending /\ ~Claims

Breaks == router'.bus.faulted /\ ~router.bus.faulted

\* Keeps the history of what motion has to wait for.
Owe(asked) ==
    owed' = IF asked \/ Drops \/ Breaks THEN "STOP"
            ELSE IF Acknowledges /\ router'.receipt.kind = STOP /\ owed = "STOP" THEN "RESUME"
            ELSE owed

CouldGo(kind, available) ==
    LET p == Polled(router, now)
    IN  /\ kind \in Eligible(p)
        /\ ~Expired(p.jobs[kind], now)
        /\ MayAcquire(p.bus, kind, p.jobs[kind].budget, available)

Submit(kind, packet, lifetime, budget) ==
    LET deadline == Plus(now, lifetime)
        taken == WellFormed(lifetime, budget) /\ Accepts(Polled(router, now), kind)
    IN  /\ router' = Submitted(router, kind, packet, now, deadline, budget)
        /\ due' = IF taken THEN [due EXCEPT ![kind] = lifetime] ELSE due
        /\ Owe(taken /\ kind = STOP)
        /\ UNCHANGED <<now, wire, ended, unpolled, dueOnWire, passed>>

\* A client stops its output without a packet of its own: the system stop and
\* the mobile output inhibit the router they share; the latter empties it too.
StopRequest ==
    /\ router' \in {Inhibit(router), DropMotion(Inhibit(router))}
    /\ Owe(TRUE)
    /\ UNCHANGED <<now, wire, ended, unpolled, due, dueOnWire, passed>>

\* The main loop polls for work; the caller may fail to launch what it claims.
Dispatch(available) ==
    /\ router' = Dispatched(router, now, available)
    /\ Owe(FALSE)
    /\ unpolled' = 0
    /\ IF Claims
       THEN /\ wire' \in {wire, [token |-> router'.bus.token, kind |-> router'.bus.owner,
                                 packet |-> router'.sending]}
            /\ dueOnWire' = due[router'.bus.owner]
            /\ passed' = IF router'.bus.owner # Watched /\ CouldGo(Watched, available)
                         THEN passed + 1 ELSE 0
       ELSE UNCHANGED <<wire, dueOnWire, passed>>
    /\ UNCHANGED <<now, ended, due>>

TransmissionEnds ==
    /\ wire # Idle
    /\ wire' = Idle
    /\ ended' \in {ended, wire}
    /\ UNCHANGED <<now, router, unpolled, due, dueOnWire, owed, passed>>

\* The outcome of a transmission reaches the router; that of an earlier one
\* may still be under way.
Report(token, ok) ==
    /\ token \in 1 .. router.bus.token
    /\ ok => token <= ended.token
    /\ router' = RouterCompleted(router, token, now, ok)
    /\ Owe(FALSE)
    /\ UNCHANGED <<now, wire, ended, unpolled, due, dueOnWire, passed>>

PollBus ==
    /\ router' = Polled(router, now)
    /\ Owe(FALSE)
    /\ UNCHANGED <<now, wire, ended, unpolled, due, dueOnWire, passed>>

\* Mutant: the bus is freed although the transmitter did not stop.
RecoverUnaborted ==
    /\ router.bus.active
    /\ router' = [RouterCompleted(router, router.bus.token, now, FALSE) EXCEPT
                    !.inhibited = TRUE, !.bus = Recovered(@)]
    /\ wire' \in {wire, Idle}
    /\ Owe(TRUE)
    /\ UNCHANGED <<now, ended, unpolled, due, dueOnWire, passed>>

\* ServoTransport_RecoverQueued: the transaction is given up, the transmitter
\* aborted, and only when that succeeds the bus is freed.
Recover ==
    LET failed == RouterCompleted(router, router.bus.token, now, FALSE)
        inhibited == [failed EXCEPT !.inhibited = TRUE]
    IN  /\ router.bus.active
        /\ \/ /\ router' = [inhibited EXCEPT !.bus = Recovered(@)]
              /\ wire' = Idle
           \/ /\ router' = inhibited
              /\ UNCHANGED wire
        /\ Owe(TRUE)
        /\ UNCHANGED <<now, ended, unpolled, due, dueOnWire, passed>>

\* The whole stop was confirmed and the host activates motion again.
Resume ==
    /\ router' = Resumed(router)
    /\ owed' = IF owed = "RESUME" /\ ~router'.inhibited THEN "NOTHING" ELSE owed
    /\ UNCHANGED <<now, wire, ended, unpolled, due, dueOnWire, passed>>

Before(left) == IF left = 0 THEN 0 ELSE left - 1

Advance ==
    /\ unpolled < MaxOutage
    /\ now' = Plus(now, 1)
    /\ unpolled' = unpolled + 1
    /\ due' = [kind \in Work |-> Before(due[kind])]
    /\ dueOnWire' = Before(dueOnWire)
    /\ UNCHANGED <<router, wire, ended, owed, passed>>

\* Only STOP comes in packets that a receipt must tell apart.
PacketsOf(kind) == IF kind = STOP THEN Packet ELSE {APacket}

Next ==
    \/ \E kind \in Work, lifetime \in Lifetimes, budget \in Budgets :
          \E packet \in PacketsOf(kind) : Submit(kind, packet, lifetime, budget)
    \/ StopRequest
    \/ \E available \in Windows : Dispatch(available)
    \/ TransmissionEnds
    \/ \E token \in 1 .. MaxToken, ok \in BOOLEAN : Report(token, ok)
    \/ PollBus
    \/ Recover
    \/ Resume
    \/ Advance

Spec == Init /\ [][Next]_vars

-----------------------------------------------------------------------------
\* The UART never carries a packet the router does not account for: from its
\* launch until it ends or is aborted, the bus stays with that transaction,
\* whatever reports of earlier ones arrive meanwhile.
OneOwner == wire # Idle => router.bus.active /\ router.bus.token = wire.token

\* A receipt names the very bytes that last went out under its token; the proof
\* of a system stop compares them.
ReceiptIsTrue ==
    /\ router.receipt.token <= ended.token
    /\ router.receipt.token = ended.token => router.receipt = ended

\* After a stop request, a missed deadline or a fault of the bus, no motion
\* packet is handed out until a STOP went out whole and motion was resumed.
MotionWaitsForStop ==
    [][Claims /\ router'.bus.owner # STOP => owed = "NOTHING"]_vars

\* A motion packet acknowledged as sent was sent before its deadline, though the
\* deadline was last compared with the clock when the packet was claimed.
MotionIsNeverLate ==
    [][Acknowledges /\ router'.receipt.kind # STOP => dueOnWire > 0]_vars

\* While it could go itself, no kind of work sees more than one turn of each of
\* the others.
TurnsAreTaken == passed <= WorkCount - 2
=============================================================================

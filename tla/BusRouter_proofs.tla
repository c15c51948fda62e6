-------------------------- MODULE BusRouter_proofs --------------------------
(***************************************************************************)
(* Proofs about a router with its clients and its UART, for any number of  *)
(* kinds of work and of transaction identities, any packets and any clock. *)
(***************************************************************************)
EXTENDS BusRouter, BusRules_proofs

-----------------------------------------------------------------------------
(***************************************************************************)
(* The inductive invariant.                                                *)
(***************************************************************************)
\* What the UART sends is the router's transaction, and it is newer than
\* anything that went out whole.
WireIsInFlight ==
    wire # Idle =>
        wire = InFlight(router) /\ router.bus.active /\ ended.token < wire.token

\* The last transmission that went out whole is the router's transaction, or
\* an older one.
EndedIsKnown ==
    /\ ended.token <= router.bus.token
    /\ ended.token = router.bus.token => ended = InFlight(router)

\* A transaction in flight has no receipt yet.
ActiveIsUnreceipted == router.bus.active => router.receipt.token < router.bus.token

\* As long as motion waits for something, the router holds it back.
OwedIsHeldBack ==
    /\ owed = "STOP" => router.bus.stop_pending
    /\ owed # "NOTHING" => router.inhibited \/ router.bus.faulted
    /\ router.bus.faulted => router.bus.stop_pending

Transactions == WireIsInFlight /\ EndedIsKnown /\ ReceiptIsTrue /\ ActiveIsUnreceipted

IInv == TypeOK /\ Transactions /\ OwedIsHeldBack

-----------------------------------------------------------------------------
(***************************************************************************)
(* Steps.                                                                  *)
(***************************************************************************)
LEMMA Types ==
    ASSUME TypeOK
    PROVE  /\ router.bus.token \in Nat /\ router.receipt.token \in Nat
           /\ ended.token \in Nat /\ wire.token \in Nat
BY DEF TypeOK, Router, Bus, Receipt

\* A step that leaves transaction, receipt and UART alone.
LEMMA TransactionsStay ==
    ASSUME Transactions, SameTransaction(router, router'), UNCHANGED <<wire, ended>>
    PROVE  Transactions'
<1>1. InFlight(router') = InFlight(router)
  BY DEF SameTransaction, InFlight
<1> QED
  BY <1>1 DEF Transactions, WireIsInFlight, EndedIsKnown, ReceiptIsTrue,
              ActiveIsUnreceipted, SameTransaction, Idle

\* A cautious step keeps what is owed held back.
LEMMA OwedStays ==
    ASSUME OwedIsHeldBack, SameTransaction(router, router'), Cautious(router, router'),
           NEW asked \in BOOLEAN, Owe(asked), asked => HeldBack(router')
    PROVE  OwedIsHeldBack' /\ owed' \in {owed, "STOP"}
<1>1. ~Acknowledges
  BY DEF Acknowledges, SameTransaction
<1>2. Drops => HeldBack(router')
  BY DEF Drops, Cautious, Loses
<1>3. Breaks => router'.bus.faulted /\ router'.bus.stop_pending
  BY DEF Breaks, Cautious
<1>4. owed' = IF asked \/ Drops \/ Breaks THEN "STOP" ELSE owed
  BY <1>1 DEF Owe
<1>5. CASE asked \/ Drops \/ Breaks
  <2>1. router'.bus.stop_pending /\ (router'.inhibited \/ router'.bus.faulted)
    BY <1>2, <1>3, <1>5 DEF HeldBack
  <2> QED
    BY <1>4, <1>5, <2>1 DEF OwedIsHeldBack
<1>6. CASE ~(asked \/ Drops \/ Breaks)
  <2>1. owed' = owed
    BY <1>4, <1>6
  <2> QED
    BY <2>1 DEF OwedIsHeldBack, Cautious
<1> QED
  BY <1>5, <1>6

LEMMA InitIsSafe == Init => IInv
<1> SUFFICES ASSUME Init PROVE IInv
  OBVIOUS
<1>1. router \in Router
  BY InitialRouter DEF Init
<1>2. Idle \in Receipt
  <2>1. APacket \in Packet
    BY BusAssumption DEF APacket
  <2> QED
    BY <2>1, BusAssumption DEF Idle, Receipt, Work, STOP
<1>3. TypeOK
  BY <1>1, <1>2, HalfTurnIsLess, BusRouterAssumption DEF Init, TypeOK, MaxDue
<1>4. Transactions
  BY DEF Init, Transactions, WireIsInFlight, EndedIsKnown, ReceiptIsTrue,
         ActiveIsUnreceipted, RouterInit, Idle, InFlight
<1>5. OwedIsHeldBack
  BY DEF Init, OwedIsHeldBack, RouterInit
<1> QED
  BY <1>3, <1>4, <1>5 DEF IInv

LEMMA SubmitIsSafe ==
    ASSUME IInv, NEW kind \in Work, NEW packet \in Packet, NEW lifetime \in Lifetimes,
           NEW budget \in Budgets, Submit(kind, packet, lifetime, budget)
    PROVE  IInv' /\ SameTransaction(router, router')
<1> DEFINE deadline == Plus(now, lifetime)
           taken == WellFormed(lifetime, budget) /\ Accepts(Polled(router, now), kind)
           asked == taken /\ kind = STOP
<1>1. router \in Router /\ now \in Tick /\ budget \in Budget
  BY BusRouterAssumption DEF IInv, TypeOK
<1>2. lifetime \in Tick /\ lifetime \in 0 .. MaxDue
  BY BusRouterAssumption, HalfTurnIsLess, TickModulusAssumption DEF Budget, Tick, MaxDue
<1>3. deadline \in Tick /\ Elapsed(deadline, now) = lifetime
  BY <1>1, <1>2, ReadingsInTick, DeadlineAhead DEF Tick
<1>4. /\ router' = Submitted(router, kind, packet, now, deadline, budget)
      /\ due' = IF taken THEN [due EXCEPT ![kind] = lifetime] ELSE due
      /\ Owe(asked)
      /\ UNCHANGED <<now, wire, ended, unpolled, dueOnWire, passed>>
  BY DEF Submit
<1> HIDE DEF deadline
<1>5. /\ router' \in Router /\ SameTransaction(router, router') /\ Cautious(router, router')
      /\ asked => HeldBack(router')
  BY <1>1, <1>3, <1>4, SubmittedEffect
<1>6. asked \in BOOLEAN
  BY DEF WellFormed, Accepts
<1> HIDE DEF asked, taken
<1>7. OwedIsHeldBack' /\ owed' \in {owed, "STOP"}
  BY <1>4, <1>5, <1>6, OwedStays DEF IInv
<1>8. TypeOK'
  BY <1>2, <1>4, <1>5, <1>7 DEF IInv, TypeOK
<1>9. Transactions'
  BY <1>4, <1>5, TransactionsStay DEF IInv
<1> QED
  BY <1>5, <1>7, <1>8, <1>9 DEF IInv

LEMMA StopRequestIsSafe ==
    ASSUME IInv, StopRequest
    PROVE  IInv' /\ SameTransaction(router, router')
<1>1. router \in Router
  BY DEF IInv, TypeOK
<1>2. /\ router' \in Router /\ SameTransaction(router, router')
      /\ HeldBack(router') /\ router'.bus.faulted = router.bus.faulted
  <2> DEFINE q == Inhibit(router)
  <2>1. /\ q \in Router /\ SameTransaction(router, q) /\ HeldBack(q)
        /\ q.bus.faulted = router.bus.faulted
    BY <1>1, InhibitEffect
  <2> HIDE DEF q
  <2>2. /\ DropMotion(q) \in Router /\ SameTransaction(q, DropMotion(q))
        /\ DropMotion(q).bus = q.bus /\ DropMotion(q).inhibited = q.inhibited
    BY <2>1, DropMotionEffect
  <2>3. router' = q \/ router' = DropMotion(q)
    BY DEF StopRequest, q
  <2> QED
    BY <2>1, <2>2, <2>3 DEF SameTransaction, HeldBack
<1>3. Cautious(router, router')
  BY <1>2, HeldBackIsCautious
<1>4. Owe(TRUE) /\ UNCHANGED <<now, wire, ended, unpolled, due, dueOnWire, passed>>
  BY DEF StopRequest
<1>5. OwedIsHeldBack' /\ owed' \in {owed, "STOP"}
  BY <1>2, <1>3, <1>4, OwedStays DEF IInv
<1>6. TypeOK'
  BY <1>2, <1>4, <1>5 DEF IInv, TypeOK
<1>7. Transactions'
  BY <1>2, <1>4, TransactionsStay DEF IInv
<1> QED
  BY <1>2, <1>5, <1>6, <1>7 DEF IInv

\* Motion is handed out only when nothing is owed.
LEMMA DispatchIsSafe ==
    ASSUME IInv, NEW available \in Windows, Dispatch(available)
    PROVE  IInv' /\ (Claims /\ router'.bus.owner # STOP => owed = "NOTHING")
<1>1. router \in Router /\ router' \in Router /\ now \in Tick
  BY DispatchedEffect DEF IInv, TypeOK, Dispatch
<1>2. Starts(router, router')
      \/ (SameTransaction(router, router') /\ Cautious(router, router'))
  BY <1>1, DispatchedEffect DEF Dispatch
<1>3. Owe(FALSE) /\ unpolled' = 0 /\ UNCHANGED <<now, ended, due>>
  BY DEF Dispatch
<1>4. 0 \in 0 .. MaxOutage
  BY BusRouterAssumption
<1>5. CASE Starts(router, router')
  <2>1. Claims /\ router'.bus.token = router.bus.token + 1
    BY <1>5, Types DEF IInv, Starts, Claims
  <2>2. /\ wire' = wire \/ wire' = InFlight(router')
        /\ dueOnWire' = due[router'.bus.owner]
        /\ passed' = passed + 1 \/ passed' = 0
    BY <2>1 DEF Dispatch, InFlight
  <2>3. wire = Idle
    BY <1>5 DEF IInv, Transactions, WireIsInFlight, Starts
  <2>4. ~Drops /\ ~Acknowledges /\ ~Breaks
    BY <1>5, <2>1 DEF Drops, Acknowledges, Breaks, Starts
  <2>5. owed' = owed
    BY <1>3, <2>4 DEF Owe
  <2>6. router'.bus.owner \in Work /\ InFlight(router') \in Receipt
    BY <1>1, RouterTypes, BusTypes DEF InFlight, Receipt
  <2>7. TypeOK'
    BY <1>1, <1>3, <1>4, <2>2, <2>5, <2>6 DEF IInv, TypeOK
  <2>8. Transactions'
    <3>1. InFlight(router').token = router'.bus.token
      BY DEF InFlight
    <3>2. ended.token < router'.bus.token /\ router.receipt.token <= ended.token
      BY <2>1, Types DEF IInv, Transactions, EndedIsKnown, ReceiptIsTrue
    <3>3. WireIsInFlight'
      BY <1>3, <1>5, <2>2, <2>3, <3>1, <3>2 DEF WireIsInFlight, Starts, Idle
    <3>4. EndedIsKnown'
      BY <1>1, <1>3, <2>7, <3>2, Types, RouterTypes, BusTypes DEF EndedIsKnown, IInv
    <3>5. ReceiptIsTrue' /\ ActiveIsUnreceipted'
      BY <1>3, <1>5, <2>1, <3>2, Types
         DEF ReceiptIsTrue, ActiveIsUnreceipted, Starts, IInv, Transactions
    <3> QED
      BY <3>3, <3>4, <3>5 DEF Transactions
  <2>9. OwedIsHeldBack'
    BY <1>5, <2>5 DEF OwedIsHeldBack, IInv, Starts
  <2>10. router'.bus.owner # STOP => owed = "NOTHING"
    BY <1>5 DEF OwedIsHeldBack, IInv, Starts
  <2> QED
    BY <2>7, <2>8, <2>9, <2>10 DEF IInv
<1>6. CASE SameTransaction(router, router') /\ Cautious(router, router')
  <2>1. ~Claims
    BY <1>6 DEF Claims, SameTransaction
  <2>2. UNCHANGED <<wire, dueOnWire, passed>>
    BY <2>1 DEF Dispatch
  <2>3. OwedIsHeldBack' /\ owed' \in {owed, "STOP"}
    BY <1>3, <1>6, OwedStays DEF IInv
  <2>4. TypeOK'
    BY <1>1, <1>3, <1>4, <2>2, <2>3 DEF IInv, TypeOK
  <2>5. Transactions'
    BY <1>3, <1>6, <2>2, TransactionsStay DEF IInv
  <2> QED
    BY <2>1, <2>3, <2>4, <2>5 DEF IInv
<1> QED
  BY <1>2, <1>5, <1>6

LEMMA TransmissionEndsIsSafe ==
    ASSUME IInv, TransmissionEnds
    PROVE  IInv' /\ ~Claims
<1>1. /\ wire = InFlight(router) /\ router.bus.active /\ ended.token < wire.token
      /\ wire' = Idle /\ (ended' = ended \/ ended' = wire)
      /\ UNCHANGED <<now, router, unpolled, due, dueOnWire, owed, passed>>
  BY DEF IInv, Transactions, WireIsInFlight, TransmissionEnds
<1>2. wire \in Receipt /\ ended' \in Receipt /\ Idle \in Receipt
  <2>1. APacket \in Packet
    BY BusAssumption DEF APacket
  <2>2. Idle \in Receipt
    BY <2>1, BusAssumption DEF Idle, Receipt, Work, STOP
  <2> QED
    BY <1>1, <2>2 DEF IInv, TypeOK
<1>3. TypeOK'
  BY <1>1, <1>2 DEF IInv, TypeOK
<1>4. InFlight(router).token = router.bus.token /\ InFlight(router') = InFlight(router)
  BY <1>1 DEF InFlight
<1>5. Transactions'
  <2>1. WireIsInFlight'
    BY <1>1 DEF WireIsInFlight, Idle
  <2>2. EndedIsKnown'
    BY <1>1, <1>4, Types DEF EndedIsKnown, IInv, Transactions
  <2>3. ReceiptIsTrue'
    BY <1>1, Types DEF ReceiptIsTrue, IInv, Transactions
  <2>4. ActiveIsUnreceipted'
    BY <1>1 DEF ActiveIsUnreceipted, IInv, Transactions
  <2> QED
    BY <2>1, <2>2, <2>3, <2>4 DEF Transactions
<1>6. OwedIsHeldBack'
  BY <1>1 DEF OwedIsHeldBack, IInv
<1>7. ~Claims
  BY <1>1 DEF Claims
<1> QED
  BY <1>3, <1>5, <1>6, <1>7 DEF IInv

LEMMA ReportIsSafe ==
    ASSUME IInv, NEW token \in 1 .. MaxToken, NEW ok \in BOOLEAN, Report(token, ok)
    PROVE  IInv' /\ ~Claims
<1>1. router \in Router
  BY DEF IInv, TypeOK
<1>2. /\ router' = RouterCompleted(router, token, now, ok)
      /\ ok => token <= ended.token
      /\ Owe(FALSE)
      /\ UNCHANGED <<now, wire, ended, unpolled, due, dueOnWire, passed>>
  BY DEF Report
<1>3. /\ router' \in Router /\ router'.jobs = router.jobs
      /\ \/ ok /\ token = router.bus.token /\ EndsWhole(router, router')
         \/ SameTransaction(router, router') /\ Cautious(router, router')
  BY <1>1, <1>2, RouterCompletedEffect
<1>4. CASE ok /\ token = router.bus.token /\ EndsWhole(router, router')
  <2>1. ended.token = router.bus.token /\ ended = InFlight(router)
    BY <1>2, <1>4, Types DEF IInv, Transactions, EndedIsKnown
  <2>2. wire = Idle
    BY <2>1, Types DEF IInv, Transactions, WireIsInFlight, InFlight
  <2>3. router'.receipt = ended /\ InFlight(router') = InFlight(router)
    BY <1>4, <2>1 DEF EndsWhole, InFlight
  <2>4. router.receipt.token < router'.receipt.token
    BY <1>4, <2>1, <2>3 DEF IInv, Transactions, ActiveIsUnreceipted, EndsWhole
  <2>5. Acknowledges /\ ~Breaks /\ ~Drops /\ router'.receipt.kind = router.bus.owner
    <3>1. router'.receipt # router.receipt
      BY <2>4, Types DEF IInv
    <3>2. router'.receipt.kind = router.bus.owner
      BY <2>1, <2>3 DEF InFlight
    <3>3. ~Drops
      BY <1>3 DEF Drops
    <3>4. ~Breaks
      BY <1>4 DEF Breaks, EndsWhole
    <3> QED
      BY <3>1, <3>2, <3>3, <3>4 DEF Acknowledges
  <2>6. owed' = IF router.bus.owner = STOP /\ owed = "STOP" THEN "RESUME" ELSE owed
    BY <1>2, <2>5 DEF Owe
  <2>7. TypeOK'
    BY <1>2, <1>3, <2>6 DEF IInv, TypeOK
  <2>8. Transactions'
    <3>1. WireIsInFlight'
      BY <1>2, <2>2 DEF WireIsInFlight, Idle
    <3>2. EndedIsKnown'
      BY <1>2, <1>4, <2>1, <2>3, Types DEF EndedIsKnown, EndsWhole, IInv
    <3>3. ReceiptIsTrue'
      <4>1. router'.receipt = ended' /\ ended'.token \in Nat
        BY <1>2, <2>3, Types DEF IInv
      <4> QED
        BY <4>1 DEF ReceiptIsTrue
    <3>4. ActiveIsUnreceipted'
      BY <1>4 DEF ActiveIsUnreceipted, EndsWhole
    <3> QED
      BY <3>1, <3>2, <3>3, <3>4 DEF Transactions
  <2>9. OwedIsHeldBack'
    BY <1>4, <2>6 DEF OwedIsHeldBack, IInv, EndsWhole
  <2>10. ~Claims
    BY <1>4 DEF Claims, EndsWhole
  <2> QED
    BY <2>7, <2>8, <2>9, <2>10 DEF IInv
<1>5. CASE SameTransaction(router, router') /\ Cautious(router, router')
  <2>1. OwedIsHeldBack' /\ owed' \in {owed, "STOP"}
    BY <1>2, <1>5, OwedStays DEF IInv
  <2>2. TypeOK'
    BY <1>2, <1>3, <2>1 DEF IInv, TypeOK
  <2>3. Transactions'
    BY <1>2, <1>5, TransactionsStay DEF IInv
  <2> QED
    BY <1>5, <2>1, <2>2, <2>3 DEF IInv, Claims, SameTransaction
<1> QED
  BY <1>3, <1>4, <1>5

LEMMA PollBusIsSafe ==
    ASSUME IInv, PollBus
    PROVE  IInv' /\ SameTransaction(router, router')
<1>1. /\ router' \in Router /\ SameTransaction(router, router')
      /\ Cautious(router, router')
  BY PolledEffect, PolledCautious DEF IInv, TypeOK, PollBus
<1>2. Owe(FALSE) /\ UNCHANGED <<now, wire, ended, unpolled, due, dueOnWire, passed>>
  BY DEF PollBus
<1>3. OwedIsHeldBack' /\ owed' \in {owed, "STOP"}
  BY <1>1, <1>2, OwedStays DEF IInv
<1>4. TypeOK'
  BY <1>1, <1>2, <1>3 DEF IInv, TypeOK
<1>5. Transactions'
  BY <1>1, <1>2, TransactionsStay DEF IInv
<1> QED
  BY <1>1, <1>3, <1>4, <1>5 DEF IInv

\* The bus is freed only with the UART silent, and the stop stays owed.
LEMMA RecoverIsSafe ==
    ASSUME IInv, Recover
    PROVE  IInv' /\ ~Claims
<1> DEFINE failed == RouterCompleted(router, router.bus.token, now, FALSE)
<1>1. router \in Router /\ router.bus.active /\ Owe(TRUE)
      /\ UNCHANGED <<now, ended, unpolled, due, dueOnWire, passed>>
  BY DEF IInv, TypeOK, Recover
<1>2. /\ failed \in Router /\ failed.bus.faulted
      /\ SameTransaction(router, failed) /\ Cautious(router, failed)
  BY <1>1, RouterCompletedEffect
<1>3. failed.bus.stop_pending
  BY <1>2 DEF Cautious, IInv, OwedIsHeldBack
<1>4. \/ /\ router' = [failed EXCEPT !.inhibited = TRUE, !.bus = Recovered(@)]
         /\ wire' = Idle
      \/ router' = [failed EXCEPT !.inhibited = TRUE] /\ wire' = wire
  BY <1>2 DEF Recover, Router
<1> HIDE DEF failed
<1>5. /\ failed.bus \in Bus /\ Recovered(failed.bus) \in Bus
      /\ Recovered(failed.bus).token = failed.bus.token
      /\ Recovered(failed.bus).owner = failed.bus.owner
      /\ Recovered(failed.bus).active => failed.bus.active
      /\ Recovered(failed.bus).stop_pending
  BY <1>2, <1>3, RouterTypes, RecoveredEffect
<1>6. /\ router' \in Router
      /\ router'.inhibited /\ router'.bus.stop_pending
      /\ router'.bus.token = failed.bus.token /\ router'.bus.owner = failed.bus.owner
      /\ router'.sending = failed.sending /\ router'.receipt = failed.receipt
      /\ router'.bus.active => failed.bus.active
      /\ wire' = Idle \/ (wire' = wire /\ router'.bus = failed.bus)
  BY <1>2, <1>3, <1>4, <1>5 DEF Router
<1>7. owed' = "STOP"
  BY <1>1 DEF Owe
<1>8. OwedIsHeldBack'
  BY <1>6, <1>7 DEF OwedIsHeldBack
<1>9. Idle \in Receipt
  <2>1. APacket \in Packet
    BY BusAssumption DEF APacket
  <2> QED
    BY <2>1, BusAssumption DEF Idle, Receipt, Work, STOP
<1>10. TypeOK'
  BY <1>1, <1>6, <1>7, <1>9 DEF IInv, TypeOK
<1>11. Transactions'
  <2>1. /\ router'.bus.token = router.bus.token /\ router'.receipt = router.receipt
        /\ InFlight(router') = InFlight(router)
    BY <1>2, <1>6 DEF SameTransaction, InFlight
  <2>2. WireIsInFlight'
    BY <1>1, <1>2, <1>6, <2>1 DEF WireIsInFlight, IInv, Transactions, SameTransaction, Idle
  <2>3. EndedIsKnown' /\ ReceiptIsTrue'
    BY <1>1, <2>1 DEF EndedIsKnown, ReceiptIsTrue, IInv, Transactions
  <2>4. ActiveIsUnreceipted'
    BY <1>1, <2>1 DEF ActiveIsUnreceipted, IInv, Transactions
  <2> QED
    BY <2>2, <2>3, <2>4 DEF Transactions
<1>12. ~Claims
  BY <1>2, <1>6 DEF Claims, SameTransaction
<1> QED
  BY <1>8, <1>10, <1>11, <1>12 DEF IInv

LEMMA ResumeIsSafe ==
    ASSUME IInv, Resume
    PROVE  IInv' /\ SameTransaction(router, router')
<1>1. /\ router' \in Router /\ SameTransaction(router, router')
      /\ router'.bus = router.bus
      /\ router'.inhibited = router.inhibited
           \/ (~router.bus.stop_pending /\ ~router.bus.faulted)
  BY ResumedEffect DEF IInv, TypeOK, Resume
<1>2. /\ owed' = IF owed = "RESUME" /\ ~router'.inhibited THEN "NOTHING" ELSE owed
      /\ UNCHANGED <<now, wire, ended, unpolled, due, dueOnWire, passed>>
  BY DEF Resume
<1>3. OwedIsHeldBack'
  BY <1>1, <1>2 DEF OwedIsHeldBack, IInv, TypeOK
<1>4. TypeOK'
  BY <1>1, <1>2 DEF IInv, TypeOK
<1>5. Transactions'
  BY <1>1, <1>2, TransactionsStay DEF IInv
<1> QED
  BY <1>1, <1>3, <1>4, <1>5 DEF IInv

LEMMA AdvanceIsSafe ==
    ASSUME IInv, Advance
    PROVE  IInv' /\ SameTransaction(router, router')
<1>1. UNCHANGED <<router, wire, ended, owed, passed>>
  BY DEF Advance
<1>2. \A left \in 0 .. MaxDue : Before(left) \in 0 .. MaxDue
  BY HalfTurnIsLess DEF Before, MaxDue
<1>3. now' \in Tick
  BY ReadingsInTick DEF Advance, IInv, TypeOK, Tick
<1>4. unpolled' \in 0 .. MaxOutage
  BY BusRouterAssumption DEF Advance, IInv, TypeOK
<1>5. TypeOK'
  BY <1>1, <1>2, <1>3, <1>4 DEF Advance, IInv, TypeOK
<1>6. SameTransaction(router, router')
  BY <1>1 DEF SameTransaction
<1>7. Transactions'
  BY <1>1, <1>6, TransactionsStay DEF IInv
<1> QED
  BY <1>1, <1>5, <1>6, <1>7 DEF IInv, OwedIsHeldBack

\* Every step keeps the invariant and hands out motion only when it may.
LEMMA NextIsSafe ==
    ASSUME IInv, [Next]_vars
    PROVE  IInv' /\ (Claims /\ router'.bus.owner # STOP => owed = "NOTHING")
<1>1. SameTransaction(router, router') => ~Claims
  BY DEF SameTransaction, Claims
<1>2. ASSUME NEW kind \in Work, NEW lifetime \in Lifetimes, NEW budget \in Budgets,
             NEW packet \in PacketsOf(kind), Submit(kind, packet, lifetime, budget)
      PROVE  IInv' /\ ~Claims
  <2>1. packet \in Packet
    BY BusAssumption DEF PacketsOf, APacket
  <2> QED
    BY <1>1, <1>2, <2>1, SubmitIsSafe
<1>3. CASE StopRequest
  BY <1>1, <1>3, StopRequestIsSafe
<1>4. ASSUME NEW available \in Windows, Dispatch(available)
      PROVE  IInv' /\ (Claims /\ router'.bus.owner # STOP => owed = "NOTHING")
  BY <1>4, DispatchIsSafe
<1>5. CASE TransmissionEnds
  BY <1>5, TransmissionEndsIsSafe
<1>6. ASSUME NEW token \in 1 .. MaxToken, NEW ok \in BOOLEAN, Report(token, ok)
      PROVE  IInv' /\ ~Claims
  BY <1>6, ReportIsSafe
<1>7. CASE PollBus
  BY <1>1, <1>7, PollBusIsSafe
<1>8. CASE Recover
  BY <1>8, RecoverIsSafe
<1>9. CASE Resume
  BY <1>1, <1>9, ResumeIsSafe
<1>10. CASE Advance
  BY <1>1, <1>10, AdvanceIsSafe
<1>11. CASE UNCHANGED vars
  <2>1. IInv' /\ ~Claims
    BY <1>11 DEF vars, IInv, TypeOK, Transactions, WireIsInFlight, EndedIsKnown,
                 ReceiptIsTrue, ActiveIsUnreceipted, OwedIsHeldBack, Claims, InFlight,
                 Idle, MaxDue
  <2> QED
    BY <2>1
<1> QED
  BY <1>2, <1>3, <1>4, <1>5, <1>6, <1>7, <1>8, <1>9, <1>10, <1>11 DEF Next

LEMMA AlwaysSafe == Spec => []IInv
<1>1. IInv /\ [Next]_vars => IInv'
  BY NextIsSafe
<1> QED
  BY InitIsSafe, <1>1, PTL DEF Spec

-----------------------------------------------------------------------------
(***************************************************************************)
(* Turns.  Whenever another kind of motion goes in place of Watched, the   *)
(* cursor has moved past it, and Watched is nearer to the head of the next *)
(* search: how often it was passed and how many are still ahead of it      *)
(* never add up to more than one turn of each.  A STOP does not count as   *)
(* passing, because nothing else could go while one is queued.             *)
(***************************************************************************)
StopInhibits == router.jobs[STOP].pending => router.inhibited

TurnComes == passed + Rank(router, Watched) <= WorkCount - 2

TurnInv == StopInhibits /\ TurnComes

LEMMA TurnInit == Init => TurnInv
<1> SUFFICES ASSUME Init PROVE TurnInv
  OBVIOUS
<1>1. router \in Router /\ passed = 0 /\ ~router.jobs[STOP].pending
  BY InitialRouter, BusAssumption DEF Init, RouterInit, NoJob, Work, STOP
<1>2. Rank(router, Watched) \in 0 .. WorkCount - 2
  BY <1>1, RankOfMotion, BusRouterAssumption
<1> QED
  BY <1>1, <1>2, BusAssumption DEF TurnInv, StopInhibits, TurnComes

\* A step that moves neither the cursor nor the count.
LEMMA TurnStays ==
    ASSUME TurnComes, router'.cursor = router.cursor, UNCHANGED passed
    PROVE  TurnComes'
<1>1. Rank(router', Watched) = Rank(router, Watched)
  BY DEF Rank
<1> QED
  BY <1>1 DEF TurnComes

\* A claim either starts the count anew or moves Watched ahead by one.
LEMMA TurnDispatch ==
    ASSUME IInv, TurnInv, NEW available \in Windows, Dispatch(available)
    PROVE  TurnInv'
<1>1. router \in Router /\ router' \in Router /\ now \in Tick /\ passed \in Nat
      /\ Watched \in Motion /\ Watched \in Work /\ Watched # STOP
  BY DispatchedEffect, BusRouterAssumption, BusAssumption
     DEF IInv, TypeOK, Dispatch, Motion, Work, STOP
<1>2. /\ AddsNothing(router, router')
      /\ \/ /\ Starts(router, router') /\ Takes(router, router', now)
            /\ TakesFirst(router, router', now, available)
         \/ SameTransaction(router, router') /\ Cautious(router, router')
  BY <1>1, DispatchedEffect DEF Dispatch
<1>3. STOP \in Work
  BY BusAssumption DEF Work, STOP
<1>4. StopInhibits'
  <2>1. router'.jobs[STOP].pending => router.jobs[STOP].pending
    BY <1>2, <1>3 DEF AddsNothing
  <2> QED
    BY <1>2, <2>1 DEF TurnInv, StopInhibits, Starts, Cautious
<1>5. CASE /\ Starts(router, router') /\ Takes(router, router', now)
           /\ TakesFirst(router, router', now, available)
  <2>1. Claims
    BY <1>5, Types DEF IInv, Starts, Claims
  <2>2. passed' = IF router'.bus.owner # Watched /\ CouldGo(Watched, available)
                  THEN passed + 1 ELSE 0
    BY <2>1 DEF Dispatch
  <2>3. Rank(router, Watched) \in 0 .. WorkCount - 2
        /\ Rank(router', Watched) \in 0 .. WorkCount - 2
    BY <1>1, RankOfMotion
  <2>4. CASE router'.bus.owner # Watched /\ CouldGo(Watched, available)
    <3> DEFINE k == router'.bus.owner
    <3>1. Fits(router, Watched, now, available)
      BY <2>4 DEF CouldGo, Fits
    <3>2. ~router.inhibited
      <4>1. Watched \in Eligible(Polled(router, now))
        BY <3>1 DEF Fits
      <4>2. Polled(router, now).inhibited = router.inhibited
        BY <1>1, PolledEffect
      <4> QED
        BY <1>1, <4>1, <4>2 DEF Eligible
    <3>3. k # STOP
      BY <1>5, <3>2 DEF TurnInv, StopInhibits, Takes
    <3>4. k \in Motion
      <4>1. k \in Work
        BY <1>1, RouterTypes, BusTypes
      <4> QED
        BY <3>3, <4>1, BusAssumption DEF Work, Motion, STOP
    <3>5. Rank(router, k) <= Rank(router, Watched) /\ router'.cursor = NextCursor(k)
      BY <1>1, <1>5, <3>1 DEF TakesFirst
    <3> HIDE DEF k
    <3>6. Rank(router', Watched) + 1 <= Rank(router, Watched)
      BY <1>1, <2>4, <3>4, <3>5, TurnComesCloser DEF k
    <3>7. passed' = passed + 1
      BY <2>2, <2>4
    <3>8. passed' + Rank(router', Watched) <= WorkCount - 2
      BY <1>1, <2>3, <3>6, <3>7, BusAssumption DEF TurnInv, TurnComes
    <3> QED
      BY <1>4, <3>8 DEF TurnInv, TurnComes
  <2>5. CASE ~(router'.bus.owner # Watched /\ CouldGo(Watched, available))
    <3>1. passed' = 0
      BY <2>2, <2>5
    <3>2. passed' + Rank(router', Watched) <= WorkCount - 2
      BY <2>3, <3>1, BusAssumption
    <3> QED
      BY <1>4, <3>2 DEF TurnInv, TurnComes
  <2> QED
    BY <2>4, <2>5
<1>6. CASE SameTransaction(router, router') /\ Cautious(router, router')
  <2>1. ~Claims
    BY <1>6 DEF Claims, SameTransaction
  <2>2. UNCHANGED passed /\ router'.cursor = router.cursor
    BY <1>6, <2>1 DEF Dispatch, SameTransaction
  <2> QED
    BY <1>4, <2>2, TurnStays DEF TurnInv
<1> QED
  BY <1>2, <1>5, <1>6

LEMMA TurnSubmit ==
    ASSUME IInv, TurnInv, NEW kind \in Work, NEW packet \in Packet,
           NEW lifetime \in Lifetimes, NEW budget \in Budgets,
           Submit(kind, packet, lifetime, budget)
    PROVE  TurnInv'
<1> DEFINE deadline == Plus(now, lifetime)
<1>1. router \in Router /\ now \in Tick /\ budget \in Budget
  BY BusRouterAssumption DEF IInv, TypeOK
<1>2. deadline \in Tick
  <2>1. lifetime \in Tick
    BY BusRouterAssumption, HalfTurnIsLess, TickModulusAssumption DEF Budget, Tick
  <2> QED
    BY <1>1, <2>1, ReadingsInTick DEF Tick
<1>3. router' = Submitted(router, kind, packet, now, deadline, budget) /\ UNCHANGED passed
  BY DEF Submit
<1> HIDE DEF deadline
<1>4. /\ SameTransaction(router, router') /\ Cautious(router, router')
      /\ router'.jobs[STOP].pending => router.jobs[STOP].pending \/ HeldBack(router')
  BY <1>1, <1>2, <1>3, SubmittedEffect
<1>5. StopInhibits'
  BY <1>4 DEF TurnInv, StopInhibits, Cautious, HeldBack
<1>6. TurnComes'
  BY <1>3, <1>4, TurnStays DEF TurnInv, SameTransaction
<1> QED
  BY <1>5, <1>6 DEF TurnInv

LEMMA TurnReport ==
    ASSUME IInv, TurnInv, NEW token \in 1 .. MaxToken, NEW ok \in BOOLEAN,
           Report(token, ok)
    PROVE  TurnInv'
<1>1. /\ router'.jobs = router.jobs
      /\ \/ EndsWhole(router, router')
         \/ SameTransaction(router, router') /\ Cautious(router, router')
  BY RouterCompletedEffect DEF Report, IInv, TypeOK
<1>2. StopInhibits'
  BY <1>1 DEF TurnInv, StopInhibits, EndsWhole, Cautious
<1>3. TurnComes'
  BY <1>1, TurnStays DEF TurnInv, EndsWhole, SameTransaction, Report
<1> QED
  BY <1>2, <1>3 DEF TurnInv

LEMMA TurnRecover ==
    ASSUME IInv, TurnInv, Recover
    PROVE  TurnInv'
<1> DEFINE failed == RouterCompleted(router, router.bus.token, now, FALSE)
<1>1. failed \in Router /\ SameTransaction(router, failed)
  BY RouterCompletedEffect DEF IInv, TypeOK, Recover
<1>2. \/ router' = [failed EXCEPT !.inhibited = TRUE, !.bus = Recovered(@)]
      \/ router' = [failed EXCEPT !.inhibited = TRUE]
  BY <1>1 DEF Recover, Router
<1> HIDE DEF failed
<1>3. router'.inhibited /\ router'.cursor = failed.cursor
  BY <1>1, <1>2 DEF Router
<1>4. TurnComes'
  BY <1>1, <1>3, TurnStays DEF TurnInv, SameTransaction, Recover
<1> QED
  BY <1>3, <1>4 DEF TurnInv, StopInhibits

\* Every other step holds motion back, or leaves the queue alone.
LEMMA TurnNext ==
    ASSUME IInv, TurnInv, [Next]_vars
    PROVE  TurnInv'
<1>1. router \in Router
  BY DEF IInv, TypeOK
<1>2. ASSUME NEW kind \in Work, NEW lifetime \in Lifetimes, NEW budget \in Budgets,
             NEW packet \in PacketsOf(kind), Submit(kind, packet, lifetime, budget)
      PROVE  TurnInv'
  <2>1. packet \in Packet
    BY BusAssumption DEF PacketsOf, APacket
  <2> QED
    BY <1>2, <2>1, TurnSubmit
<1>3. CASE StopRequest
  <2> DEFINE q == Inhibit(router)
  <2>1. q \in Router /\ SameTransaction(router, q) /\ q.inhibited
    BY <1>1, InhibitEffect DEF HeldBack
  <2>2. router' = q \/ router' = DropMotion(q)
    BY <1>3 DEF StopRequest
  <2> HIDE DEF q
  <2>3. router'.inhibited /\ router'.cursor = router.cursor
    BY <2>1, <2>2, DropMotionEffect DEF SameTransaction
  <2> QED
    BY <1>3, <2>3, TurnStays DEF StopRequest, TurnInv, StopInhibits
<1>4. ASSUME NEW available \in Windows, Dispatch(available) PROVE TurnInv'
  BY <1>4, TurnDispatch
<1>5. CASE TransmissionEnds
  BY <1>5, TurnStays DEF TransmissionEnds, TurnInv, StopInhibits
<1>6. ASSUME NEW token \in 1 .. MaxToken, NEW ok \in BOOLEAN, Report(token, ok)
      PROVE  TurnInv'
  BY <1>6, TurnReport
<1>7. CASE PollBus
  <2>1. /\ router'.cursor = router.cursor /\ router'.jobs = router.jobs
        /\ router'.inhibited = router.inhibited
    BY <1>1, <1>7, PolledEffect DEF PollBus
  <2> QED
    BY <1>7, <2>1, TurnStays DEF PollBus, TurnInv, StopInhibits
<1>8. CASE Recover
  BY <1>8, TurnRecover
<1>9. CASE Resume
  <2>1. /\ router'.cursor = router.cursor /\ router'.jobs = router.jobs
        /\ router'.inhibited = router.inhibited \/ ~router.jobs[STOP].pending
    BY <1>1, <1>9, ResumedEffect DEF Resume, SameTransaction
  <2> QED
    BY <1>9, <2>1, TurnStays DEF Resume, TurnInv, StopInhibits
<1>10. CASE Advance
  BY <1>10, TurnStays DEF Advance, TurnInv, StopInhibits
<1>11. CASE UNCHANGED vars
  BY <1>11, TurnStays DEF vars, TurnInv, StopInhibits
<1> QED
  BY <1>2, <1>3, <1>4, <1>5, <1>6, <1>7, <1>8, <1>9, <1>10, <1>11 DEF Next

LEMMA TurnAlways == Spec => [](IInv /\ TurnInv)
<1>1. Init => IInv /\ TurnInv
  BY InitIsSafe, TurnInit
<1>2. (IInv /\ TurnInv) /\ [Next]_vars => (IInv /\ TurnInv)'
  BY NextIsSafe, TurnNext
<1> QED
  BY <1>1, <1>2, PTL DEF Spec

-----------------------------------------------------------------------------
(***************************************************************************)
(* Deadlines.  An expired job is noticed when a search comes to it, which  *)
(* other jobs may put off, transaction by transaction.  Since the turns    *)
(* bound how many, the clock cannot go so far round in between that the    *)
(* deadline of the job seems to be ahead again.                            *)
(***************************************************************************)
\* The longest time from the claim of the bus to the first poll that finds it
\* free, or from one such poll to the next.
LongestWait == CHOOSE wait \in Nat :
    /\ \A budget \in Budgets : budget - 1 + MaxOutage <= wait
    /\ (WorkCount - 1) * wait < HalfTurn

Waits(n) == n * LongestWait

\* How long the search has been put off since the last turn was taken.
Since ==
    IF router.bus.active THEN Elapsed(now, router.bus.started)
    ELSE LongestWait - MaxOutage + unpolled

\* The history is what the clock says, and a late job is not later than the
\* turns taken before it account for.
InTime(r, k, t, left, since) ==
    LET ahead == Ahead(r.jobs[k].deadline, t)
    IN  /\ left = IF ahead > 0 THEN ahead ELSE 0
        /\ Waits(Rank(r, k)) - ahead <= Waits(WorkCount - 2) + since

\* A stop leaves no motion in the queue, from its submission until it is sent,
StopClears ==
    router.jobs[STOP].pending \/ (router.bus.active /\ router.bus.owner = STOP) =>
        router.inhibited /\ NoMotionQueued(router)

\* and so does the resumption that may follow it.
SettledIsEmpty ==
    router.inhibited /\ ~router.bus.stop_pending => NoMotionQueued(router)

QueueInTime ==
    ~router.inhibited /\ ~router.bus.faulted =>
        \A k \in Motion : router.jobs[k].pending => InTime(router, k, now, due[k], Since)

\* Until its budget is spent, the transaction in flight has not met its deadline.
SentInTime ==
    router.bus.active /\ ~router.bus.faulted =>
        LET sent == Elapsed(now, router.bus.started)
        IN  /\ router.bus.budget \in Budgets /\ sent < router.bus.budget + unpolled
            /\ router.bus.owner # STOP => router.bus.budget < dueOnWire + sent

BudgetsKnown == \A k \in Work : router.jobs[k].pending => router.jobs[k].budget \in Budgets

DeadlineInv == StopClears /\ SettledIsEmpty /\ QueueInTime /\ SentInTime /\ BudgetsKnown

LEMMA LongestWaitIs ==
    /\ LongestWait \in Nat
    /\ \A budget \in Budgets : budget - 1 + MaxOutage <= LongestWait
    /\ (WorkCount - 1) * LongestWait < HalfTurn
<1> DEFINE Bounds(w) == \A budget \in Budgets : budget - 1 + MaxOutage <= w
           bounds == {w \in Nat : Bounds(w)}
<1>1. /\ HalfTurn \in Nat /\ HalfTurn > 0 /\ MaxOutage \in Nat
      /\ WorkCount - 1 \in Nat /\ \A budget \in Budgets : budget \in 1 .. HalfTurn - 1
  <2>1. HalfTurn > 0
    BY BusRouterAssumption, HalfTurnIsLess
  <2> QED
    BY <2>1, HalfTurnIsLess, BusAssumption, BusRouterAssumption DEF Budget
<1>2. HalfTurn + MaxOutage \in bounds
  BY <1>1
<1>3. PICK m \in bounds : \A n \in bounds : m <= n
  BY <1>2, LeastNatural
<1>4. m \in Nat /\ Bounds(m)
  BY <1>3
<1>5. (WorkCount - 1) * m < HalfTurn
  <2>1. CASE m = 0
    BY <1>1, <2>1
  <2>2. CASE m # 0
    <3>1. m - 1 \in Nat /\ m - 1 \notin bounds
      BY <1>3, <1>4, <2>2
    <3>2. PICK budget \in Budgets : ~(budget - 1 + MaxOutage <= m - 1)
      BY <3>1
    <3>3. budget - 1 + MaxOutage = m
      BY <1>1, <1>4, <3>2
    <3> QED
      BY <3>3, PromptAssumption
  <2> QED
    BY <2>1, <2>2
<1> QED
  BY <1>4, <1>5 DEF LongestWait

LEMMA WaitsAdd ==
    /\ LongestWait \in Nat /\ LongestWait < HalfTurn
    /\ \A budget \in Budgets : budget \in Nat /\ budget - 1 + MaxOutage <= LongestWait
    /\ Waits(WorkCount - 2) \in Nat
    /\ Waits(WorkCount - 2) + LongestWait < HalfTurn
    /\ \A n \in 0 .. WorkCount - 2 : Waits(n) \in Nat /\ Waits(n) <= Waits(WorkCount - 2)
    /\ \A m, n \in 0 .. WorkCount - 2 : m + 1 <= n => Waits(m) + LongestWait <= Waits(n)
<1> DEFINE w == LongestWait
           c == WorkCount - 2
<1>1. /\ w \in Nat /\ \A budget \in Budgets : budget - 1 + MaxOutage <= w
      /\ (WorkCount - 1) * w < HalfTurn
  BY LongestWaitIs
<1>2. c \in Nat /\ (c + 1) * w < HalfTurn /\ HalfTurn \in Nat
  BY <1>1, BusAssumption, HalfTurnIsLess
<1> HIDE DEF w, c
<1>3. \A m, n \in Nat : m * w \in Nat /\ (m <= n => m * w <= n * w)
  <2> SUFFICES ASSUME NEW m \in Nat, NEW n \in Nat
               PROVE  m * w \in Nat /\ (m <= n => m * w <= n * w)
    OBVIOUS
  <2>1. m * w \in Nat
    BY <1>1
  <2>2. m <= n => m * w <= n * w
    BY <1>1, Z3
  <2> QED
    BY <2>1, <2>2
<1>4. \A m \in Nat : (m + 1) * w = m * w + w
  BY <1>1
<1>5. c * w + w < HalfTurn
  BY <1>1, <1>2, <1>4
<1>6. w < HalfTurn /\ c * w \in Nat
  BY <1>1, <1>2, <1>3, <1>5
<1>7. \A n \in 0 .. c : n * w \in Nat /\ n * w <= c * w
  BY <1>2, <1>3
<1>8. \A m, n \in 0 .. c : m + 1 <= n => m * w + w <= n * w
  <2> SUFFICES ASSUME NEW m \in 0 .. c, NEW n \in 0 .. c, m + 1 <= n
               PROVE  m * w + w <= n * w
    OBVIOUS
  <2>1. m \in Nat /\ m + 1 \in Nat /\ n \in Nat
    BY <1>2
  <2> QED
    BY <1>3, <1>4, <2>1
<1>9. \A budget \in Budgets : budget \in Nat
  BY BusRouterAssumption, HalfTurnIsLess DEF Budget
<1> QED
  BY <1>1, <1>5, <1>6, <1>7, <1>8, <1>9 DEF Waits, w, c

\* A job that is not found expired has its deadline ahead of it.
LEMMA UnexpiredIsAhead ==
    ASSUME NEW job \in Job, job.pending, NEW t \in Tick, ~Expired(job, t)
    PROVE  /\ job.deadline \in Tick /\ job.budget \in Nat
           /\ Ahead(job.deadline, t) \in Nat /\ job.budget < Ahead(job.deadline, t)
<1>1. job.deadline \in Tick /\ job.budget \in Nat
  <2>1. job # NoJob
    BY DEF NoJob
  <2>2. job \in [pending: {TRUE}, packet: Packet, deadline: Tick, budget: Budget]
    BY <2>1 DEF Job
  <2>3. Budget \subseteq Nat
    BY HalfTurnIsLess DEF Budget
  <2> QED
    BY <2>2, <2>3
<1> DEFINE e == Elapsed(job.deadline, t)
<1>2. e \in Tick
  <2>1. job.deadline \in Int /\ t \in Int
    BY <1>1, TickModulusAssumption DEF Tick
  <2> QED
    BY <2>1, ReadingsInTick
<1>3. ~(e = 0 \/ e >= HalfTurn \/ job.budget >= e)
  BY DEF Expired
<1> HIDE DEF e
<1>4. e < HalfTurn /\ e \in Nat /\ job.budget < e
  BY <1>1, <1>2, <1>3, HalfTurnIsLess, TickModulusAssumption DEF Tick
<1>5. Ahead(job.deadline, t) = e
  BY <1>1, <1>4, AheadIsElapsed DEF e
<1> QED
  BY <1>1, <1>4, <1>5

LEMMA DeadlineInit == Init => DeadlineInv
<1> SUFFICES ASSUME Init PROVE DeadlineInv
  OBVIOUS
<1>1. /\ ~router.bus.active /\ ~router.inhibited
      /\ \A k \in Work : ~router.jobs[k].pending
  BY DEF Init, RouterInit, NoJob
<1>2. STOP \in Work /\ Motion \subseteq Work
  BY BusAssumption DEF Work, STOP, Motion
<1> QED
  BY <1>1, <1>2 DEF DeadlineInv, StopClears, SettledIsEmpty, QueueInTime, SentInTime,
                    BudgetsKnown

\* A cautious step that queues nothing keeps what the queue promises,
LEMMA QueueStays ==
    ASSUME DeadlineInv, SameTransaction(router, router'), Cautious(router, router'),
           AddsNothing(router, router')
    PROVE  StopClears' /\ SettledIsEmpty' /\ BudgetsKnown'
<1>1. STOP \in Work /\ Motion \subseteq Work
  BY BusAssumption DEF Work, STOP, Motion
<1>2. \A k \in Work : router'.jobs[k].pending => router'.jobs[k] = router.jobs[k]
  BY DEF AddsNothing
<1>3. NoMotionQueued(router) => NoMotionQueued(router')
  BY <1>1, <1>2 DEF NoMotionQueued
<1>4. StopClears'
  BY <1>1, <1>2, <1>3 DEF DeadlineInv, StopClears, SameTransaction, Cautious
<1>5. SettledIsEmpty'
  BY <1>3 DEF DeadlineInv, SettledIsEmpty, Cautious
<1>6. BudgetsKnown'
  BY <1>2 DEF DeadlineInv, BudgetsKnown
<1> QED
  BY <1>4, <1>5, <1>6

\* and with the clock standing still, the times.
LEMMA DeadlinesStay ==
    ASSUME DeadlineInv, SameTransaction(router, router'), Cautious(router, router'),
           AddsNothing(router, router'), UNCHANGED <<now, unpolled, due, dueOnWire>>
    PROVE  DeadlineInv'
<1>1. StopClears' /\ SettledIsEmpty' /\ BudgetsKnown'
  BY QueueStays
<1>2. QueueInTime'
  <2> SUFFICES ASSUME ~router'.inhibited, ~router'.bus.faulted, NEW k \in Motion,
                      router'.jobs[k].pending
               PROVE  InTime(router', k, now', due'[k], Since')
    BY DEF QueueInTime
  <2>1. router'.jobs[k] = router.jobs[k]
    BY BusAssumption DEF AddsNothing, Work, Motion
  <2>2. InTime(router, k, now, due[k], Since)
    BY <2>1 DEF DeadlineInv, QueueInTime, Cautious
  <2>3. Since' = Since
    BY DEF Since, SameTransaction
  <2>4. Rank(router', k) = Rank(router, k)
    BY DEF Rank, SameTransaction
  <2> QED
    BY <2>1, <2>2, <2>3, <2>4 DEF InTime
<1>3. SentInTime'
  BY DEF DeadlineInv, SentInTime, SameTransaction, Cautious
<1> QED
  BY <1>1, <1>2, <1>3 DEF DeadlineInv

\* How long a search can have been put off.
LEMMA SinceBounds ==
    ASSUME TypeOK, SentInTime, ~router.bus.faulted, NEW budget \in Budgets
    PROVE  /\ Since \in Nat /\ Since <= LongestWait - MaxOutage + unpolled
           /\ Since <= LongestWait /\ MaxOutage <= LongestWait
<1>1. /\ LongestWait \in Nat /\ MaxOutage \in Nat /\ unpolled \in 0 .. MaxOutage
      /\ budget \in Nat /\ 1 <= budget /\ budget - 1 + MaxOutage <= LongestWait
  BY WaitsAdd, BusRouterAssumption DEF TypeOK, Budget
<1>2. MaxOutage <= LongestWait
  BY <1>1
<1>3. CASE router.bus.active
  <2>1. /\ Elapsed(now, router.bus.started) \in Nat
        /\ router.bus.budget \in Budgets
        /\ Elapsed(now, router.bus.started) < router.bus.budget + unpolled
    <3>1. now \in Tick /\ router.bus.started \in Tick
      BY RouterTypes, BusTypes DEF TypeOK
    <3>2. Elapsed(now, router.bus.started) \in Nat
      BY <3>1, AgeIsBehind
    <3> QED
      BY <1>3, <3>2 DEF SentInTime
  <2>2. /\ router.bus.budget \in Nat
        /\ router.bus.budget - 1 + MaxOutage <= LongestWait
    BY <2>1, WaitsAdd
  <2>3. Since = Elapsed(now, router.bus.started)
    BY <1>3 DEF Since
  <2> QED
    BY <1>1, <1>2, <2>1, <2>2, <2>3
<1>4. CASE ~router.bus.active
  <2>1. Since = LongestWait - MaxOutage + unpolled
    BY <1>4 DEF Since
  <2> QED
    BY <1>1, <1>2, <2>1
<1> QED
  BY <1>3, <1>4

\* What is known of a queued motion.
LEMMA QueuedMotion ==
    ASSUME NEW r \in Router, NEW k \in Motion, r.jobs[k].pending, NEW t \in Tick
    PROVE  /\ k \in Work /\ r.jobs[k] \in Job /\ r.jobs[k].deadline \in Tick
           /\ Ahead(r.jobs[k].deadline, t) \in Int
           /\ Rank(r, k) \in 0 .. WorkCount - 2
           /\ Waits(Rank(r, k)) \in Nat /\ Waits(Rank(r, k)) <= Waits(WorkCount - 2)
<1>1. k \in Work /\ r.jobs[k] \in Job
  BY RouterTypes, BusAssumption DEF Work, Motion
<1>2. r.jobs[k].deadline \in Tick
  <2>1. r.jobs[k] # NoJob
    BY DEF NoJob
  <2> QED
    BY <1>1, <2>1 DEF Job
<1>3. Rank(r, k) \in 0 .. WorkCount - 2
  BY RankOfMotion
<1> QED
  BY <1>1, <1>2, <1>3, AheadUnfolded, WaitsAdd

LEMMA DeadlineSubmit ==
    ASSUME IInv, DeadlineInv, NEW kind \in Work, NEW packet \in Packet,
           NEW lifetime \in Lifetimes, NEW budget \in Budgets,
           Submit(kind, packet, lifetime, budget)
    PROVE  DeadlineInv'
<1> DEFINE deadline == Plus(now, lifetime)
           taken == WellFormed(lifetime, budget) /\ Accepts(Polled(router, now), kind)
           job == [pending |-> TRUE, packet |-> packet, deadline |-> deadline,
                   budget |-> budget]
<1>1. router \in Router /\ now \in Tick /\ budget \in Budget /\ due \in [Work -> 0 .. MaxDue]
  BY BusRouterAssumption DEF IInv, TypeOK
<1>2. lifetime \in Tick /\ lifetime \in Nat /\ 0 < lifetime /\ lifetime < HalfTurn
  BY BusRouterAssumption, HalfTurnIsLess, TickModulusAssumption DEF Budget, Tick
<1>3. deadline \in Tick /\ Elapsed(deadline, now) = lifetime
  BY <1>1, <1>2, ReadingsInTick, DeadlineAhead DEF Tick
<1>4. /\ router' = Submitted(router, kind, packet, now, deadline, budget)
      /\ due' = IF taken THEN [due EXCEPT ![kind] = lifetime] ELSE due
      /\ UNCHANGED <<now, unpolled, dueOnWire>>
  BY DEF Submit
<1> HIDE DEF deadline
<1>5. /\ router' \in Router /\ SameTransaction(router, router') /\ Cautious(router, router')
  BY <1>1, <1>3, <1>4, SubmittedEffect
<1>6. /\ ~taken => router'.jobs = router.jobs
      /\ taken /\ kind # STOP =>
           /\ router'.jobs = [router.jobs EXCEPT ![kind] = job]
           /\ ~router.inhibited /\ ~router'.inhibited
      /\ taken /\ kind = STOP =>
           router'.jobs[STOP] = job /\ NoMotionQueued(router') /\ HeldBack(router')
  BY <1>1, <1>3, <1>4, SubmittedJob
<1>7. job.pending /\ job.deadline = deadline /\ job.budget = budget
  OBVIOUS
<1>8. SentInTime'
  BY <1>4, <1>5 DEF DeadlineInv, SentInTime, SameTransaction, Cautious
<1>9. \A k \in Work : k = STOP \/ k \in Motion
  BY BusAssumption DEF Work, STOP, Motion
<1> HIDE DEF taken, job
<1>10. CASE ~taken
  <2>1. AddsNothing(router, router') /\ due' = due
    BY <1>4, <1>6, <1>10 DEF AddsNothing
  <2> QED
    BY <1>4, <1>5, <2>1, DeadlinesStay
<1>11. CASE taken /\ kind = STOP
  <2>1. router'.inhibited /\ router'.bus.stop_pending /\ NoMotionQueued(router')
    BY <1>6, <1>11 DEF HeldBack
  <2>2. StopClears' /\ SettledIsEmpty' /\ QueueInTime'
    BY <2>1 DEF StopClears, SettledIsEmpty, QueueInTime
  <2>3. BudgetsKnown'
    BY <1>6, <1>7, <1>9, <1>11, <2>1 DEF BudgetsKnown, NoMotionQueued
  <2> QED
    BY <1>8, <2>2, <2>3 DEF DeadlineInv
<1>12. CASE taken /\ kind # STOP
  <2>1. /\ router'.jobs = [router.jobs EXCEPT ![kind] = job]
        /\ ~router.inhibited /\ ~router'.inhibited
        /\ due' = [due EXCEPT ![kind] = lifetime]
        /\ router.jobs \in [Work -> Job] /\ STOP \in Work
    BY <1>1, <1>4, <1>6, <1>12, RouterTypes, BusAssumption DEF Work, STOP
  <2>2. StopClears'
    BY <1>5, <1>12, <2>1 DEF DeadlineInv, StopClears, SameTransaction
  <2>3. SettledIsEmpty'
    BY <2>1 DEF SettledIsEmpty
  <2>4. BudgetsKnown'
    BY <1>7, <2>1 DEF DeadlineInv, BudgetsKnown
  <2>5. QueueInTime'
    <3> SUFFICES ASSUME ~router'.bus.faulted, NEW k \in Motion, router'.jobs[k].pending
                 PROVE  InTime(router', k, now', due'[k], Since')
      BY DEF QueueInTime
    <3>1. Since' = Since /\ Rank(router', k) = Rank(router, k) /\ ~router.bus.faulted
      BY <1>4, <1>5 DEF Since, Rank, SameTransaction, Cautious
    <3>2. CASE k = kind
      <4>1. Ahead(deadline, now) = lifetime
        BY <1>1, <1>2, <1>3, AheadIsElapsed
      <4>2. router'.jobs[k].deadline = deadline /\ due'[k] = lifetime
        BY <1>1, <1>7, <2>1, <3>2
      <4>3. Since \in Nat
        BY <3>1, SinceBounds DEF IInv, DeadlineInv
      <4>4. /\ Waits(Rank(router, k)) \in Nat /\ Waits(WorkCount - 2) \in Nat
            /\ Waits(Rank(router, k)) <= Waits(WorkCount - 2)
        BY <1>1, RankOfMotion, WaitsAdd
      <4>5. Waits(Rank(router, k)) - lifetime <= Waits(WorkCount - 2) + Since
        BY <1>2, <4>3, <4>4
      <4> QED
        BY <1>2, <1>4, <3>1, <4>1, <4>2, <4>5 DEF InTime
    <3>3. CASE k # kind
      <4>1. router'.jobs[k] = router.jobs[k] /\ due'[k] = due[k]
        BY <1>1, <2>1, <3>3, BusAssumption DEF Work, Motion
      <4>2. InTime(router, k, now, due[k], Since)
        BY <2>1, <3>1, <4>1 DEF DeadlineInv, QueueInTime
      <4> QED
        BY <1>4, <3>1, <4>1, <4>2 DEF InTime
    <3> QED
      BY <3>2, <3>3
  <2> QED
    BY <1>8, <2>2, <2>3, <2>4, <2>5 DEF DeadlineInv
<1> QED
  BY <1>10, <1>11, <1>12

\* A claimed motion can still be done in time, and what is passed over has come
\* closer or is not late; a poll that claims nothing has found nothing late.
LEMMA DeadlineDispatch ==
    ASSUME IInv, DeadlineInv, NEW available \in Windows, Dispatch(available)
    PROVE  DeadlineInv' /\ ~Acknowledges
<1>1. /\ router \in Router /\ router' \in Router /\ now \in Tick
      /\ unpolled' = 0 /\ UNCHANGED <<now, due>>
  BY DispatchedEffect DEF IInv, TypeOK, Dispatch
<1>2. /\ AddsNothing(router, router')
      /\ \/ /\ Starts(router, router') /\ Takes(router, router', now)
            /\ TakesFirst(router, router', now, available)
         \/ /\ SameTransaction(router, router') /\ Cautious(router, router')
            /\ FindsNothing(router, router', now)
  BY <1>1, DispatchedEffect DEF Dispatch
<1>3. /\ STOP \in Work /\ Motion \subseteq Work /\ STOP \notin Motion
      /\ \A k \in Work : k = STOP \/ k \in Motion
  BY BusAssumption DEF Work, STOP, Motion
<1>4. \A k \in Work : router'.jobs[k].pending => router'.jobs[k] = router.jobs[k]
  BY <1>2 DEF AddsNothing
<1>5. CASE /\ Starts(router, router') /\ Takes(router, router', now)
           /\ TakesFirst(router, router', now, available)
  <2> DEFINE o == router'.bus.owner
             job == router.jobs[o]
  <2>1. /\ Claims /\ ~router.bus.active /\ router'.bus.active /\ ~router.bus.faulted
        /\ ~router'.bus.faulted /\ router'.inhibited = router.inhibited
        /\ router'.bus.stop_pending = router.bus.stop_pending
        /\ o # STOP => ~router.bus.stop_pending /\ ~router.inhibited
    BY <1>5, Types DEF IInv, Starts, Claims
  <2>2. ~Acknowledges
    BY <1>5 DEF Starts, Acknowledges
  <2>3. dueOnWire' = due[o]
    BY <2>1 DEF Dispatch
  <2>4. /\ o \in Work /\ job \in Job /\ job.pending /\ ~Expired(job, now)
        /\ router'.bus.started = now /\ router'.bus.budget = job.budget
        /\ ~router'.jobs[o].pending
    BY <1>1, <1>5, RouterTypes, BusTypes DEF Takes
  <2>5. job.budget \in Budgets
    BY <2>4 DEF DeadlineInv, BudgetsKnown
  <2> HIDE DEF o, job
  <2>6. NoMotionQueued(router) => NoMotionQueued(router')
    BY <1>3, <1>4 DEF NoMotionQueued
  <2>7. o = STOP => router.inhibited /\ NoMotionQueued(router)
    BY <2>4 DEF DeadlineInv, StopClears, job
  <2>8. StopClears'
    BY <1>3, <1>4, <2>1, <2>6, <2>7 DEF DeadlineInv, StopClears, o
  <2>9. SettledIsEmpty' /\ BudgetsKnown'
    BY <1>4, <2>1, <2>6 DEF DeadlineInv, SettledIsEmpty, BudgetsKnown
  <2>10. Elapsed(now, now) = 0
    BY <1>1, ElapsedUnfolded, TickModulusAssumption DEF Tick
  <2>11. QueueInTime'
    <3> SUFFICES ASSUME ~router'.inhibited, NEW k \in Motion, router'.jobs[k].pending
                 PROVE  InTime(router', k, now', due'[k], Since')
      BY DEF QueueInTime
    <3> DEFINE ahead == Ahead(router.jobs[k].deadline, now)
    <3>1. router'.jobs[k] = router.jobs[k] /\ k \in Work /\ k # o
      BY <1>3, <1>4, <2>4
    <3>2. o \in Motion
      BY <1>3, <2>1, <2>4, <2>7
    <3>3. InTime(router, k, now, due[k], Since)
      BY <2>1, <3>1 DEF DeadlineInv, QueueInTime
    <3>4. Since' = 0
      BY <1>1, <2>1, <2>4, <2>10 DEF Since
    <3>5. Since \in Nat /\ Since <= LongestWait
      BY <2>1, <2>5, SinceBounds DEF IInv, DeadlineInv
    <3>6. /\ ahead \in Int
          /\ Rank(router, k) \in 0 .. WorkCount - 2
          /\ Waits(Rank(router, k)) \in Nat
      BY <1>1, <3>1, QueuedMotion
    <3>7. /\ Rank(router', k) \in 0 .. WorkCount - 2
          /\ Waits(Rank(router', k)) \in Nat
          /\ Waits(Rank(router', k)) <= Waits(WorkCount - 2)
      BY <1>1, QueuedMotion
    <3>8. Waits(WorkCount - 2) \in Nat /\ LongestWait \in Nat
      BY WaitsAdd
    <3>9. Waits(Rank(router', k)) - ahead <= Waits(WorkCount - 2)
      <4>1. CASE Expired(router.jobs[k], now)
        <5>1. Overdue(router, k, now)
          BY <2>1, <3>1, <4>1 DEF Overdue
        <5>2. Rank(router, o) <= Rank(router, k) /\ router'.cursor = NextCursor(o)
          BY <1>5, <3>1, <5>1 DEF TakesFirst, o
        <5>3. Rank(router', k) + 1 <= Rank(router, k)
          BY <1>1, <3>1, <3>2, <5>2, TurnComesCloser
        <5>4. Waits(Rank(router', k)) + LongestWait <= Waits(Rank(router, k))
          BY <3>6, <3>7, <5>3, WaitsAdd
        <5>5. Waits(Rank(router, k)) - ahead <= Waits(WorkCount - 2) + Since
          BY <3>3 DEF InTime
        <5> HIDE DEF ahead
        <5> QED
          BY <3>5, <3>6, <3>7, <3>8, <5>4, <5>5
      <4>2. CASE ~Expired(router.jobs[k], now)
        <5>1. ahead \in Nat
          BY <1>1, <3>1, <4>2, QueuedMotion, UnexpiredIsAhead
        <5> HIDE DEF ahead
        <5> QED
          BY <3>7, <3>8, <5>1
      <4> QED
        BY <4>1, <4>2
    <3> HIDE DEF ahead
    <3>10. due[k] = IF ahead > 0 THEN ahead ELSE 0
      BY <3>3 DEF InTime, ahead
    <3>11. Waits(Rank(router', k)) - ahead <= Waits(WorkCount - 2) + Since'
      BY <3>4, <3>8, <3>9
    <3> QED
      BY <1>1, <3>1, <3>10, <3>11 DEF InTime, ahead
  <2>12. SentInTime'
    <3>1. job.budget \in Nat /\ 1 <= job.budget
      <4>1. \A budget \in Budgets : budget \in Nat /\ 1 <= budget
        BY BusRouterAssumption, HalfTurnIsLess DEF Budget
      <4> QED
        BY <2>5, <4>1
    <3>2. ASSUME o # STOP PROVE job.budget < due[o]
      <4>1. InTime(router, o, now, due[o], Since)
        BY <1>3, <2>1, <2>4, <3>2 DEF DeadlineInv, QueueInTime, job
      <4>2. /\ Ahead(job.deadline, now) \in Nat /\ job.budget \in Nat
            /\ job.budget < Ahead(job.deadline, now)
        BY <1>1, <2>4, UnexpiredIsAhead
      <4>3. due[o] = Ahead(job.deadline, now)
        BY <4>1, <4>2 DEF InTime, job
      <4> QED
        BY <4>2, <4>3
    <3>3. due[o] \in Nat
      BY <2>4, HalfTurnIsLess DEF IInv, TypeOK, MaxDue
    <3>4. Elapsed(now', router'.bus.started) = 0 /\ router'.bus.budget = job.budget
      BY <1>1, <2>4, <2>10
    <3> QED
      BY <1>1, <2>3, <2>5, <3>1, <3>2, <3>3, <3>4 DEF SentInTime, o
  <2> QED
    BY <2>2, <2>8, <2>9, <2>11, <2>12 DEF DeadlineInv
<1>6. CASE /\ SameTransaction(router, router') /\ Cautious(router, router')
           /\ FindsNothing(router, router', now)
  <2>1. ~Claims /\ ~Acknowledges
    BY <1>6 DEF Claims, Acknowledges, SameTransaction
  <2>2. UNCHANGED dueOnWire
    BY <2>1 DEF Dispatch
  <2>3. StopClears' /\ SettledIsEmpty' /\ BudgetsKnown'
    BY <1>2, <1>6, QueueStays
  <2>4. SentInTime'
    <3> SUFFICES ASSUME router'.bus.active, ~router'.bus.faulted
                 PROVE  LET sent == Elapsed(now', router'.bus.started)
                        IN  /\ router'.bus.budget \in Budgets
                            /\ sent < router'.bus.budget + unpolled'
                            /\ router'.bus.owner # STOP =>
                                 router'.bus.budget < dueOnWire' + sent
      BY DEF SentInTime
    <3>1. /\ router.bus.active /\ ~router.bus.faulted
          /\ router'.bus.started = router.bus.started /\ router'.bus.budget = router.bus.budget
          /\ router'.bus.owner = router.bus.owner
      BY <1>6 DEF SameTransaction, Cautious
    <3>2. ~(Elapsed(now, router.bus.started) >= router.bus.budget)
      BY <1>6, <3>1 DEF FindsNothing
    <3>3. /\ router.bus.budget \in Budgets
          /\ router.bus.owner # STOP =>
               router.bus.budget < dueOnWire + Elapsed(now, router.bus.started)
      BY <3>1 DEF DeadlineInv, SentInTime
    <3>4. router.bus.budget \in Nat /\ Elapsed(now, router.bus.started) \in Nat
      BY <1>1, <3>3, WaitsAdd, RouterTypes, BusTypes, AgeIsBehind
    <3>5. Elapsed(now, router.bus.started) < router.bus.budget + 0
      BY <3>2, <3>4
    <3> QED
      BY <1>1, <2>2, <3>1, <3>3, <3>5
  <2>5. QueueInTime'
    <3> SUFFICES ASSUME ~router'.inhibited, ~router'.bus.faulted, NEW k \in Motion,
                        router'.jobs[k].pending
                 PROVE  InTime(router', k, now', due'[k], Since')
      BY DEF QueueInTime
    <3> DEFINE ahead == Ahead(router.jobs[k].deadline, now)
    <3>1. /\ router'.jobs[k] = router.jobs[k] /\ k \in Work
          /\ Rank(router', k) = Rank(router, k)
          /\ ~router.inhibited /\ ~router.bus.faulted
      BY <1>3, <1>4, <1>6 DEF Rank, SameTransaction, Cautious
    <3>2. InTime(router, k, now, due[k], Since)
      BY <3>1 DEF DeadlineInv, QueueInTime
    <3>3. CASE router'.bus.active
      <4>1. Since' = Since
        BY <1>1, <1>6, <3>3 DEF Since, SameTransaction
      <4> QED
        BY <1>1, <3>1, <3>2, <4>1 DEF InTime
    <3>4. CASE ~router'.bus.active
      <4>1. router.jobs[k].budget \in Budgets
        BY <3>1 DEF DeadlineInv, BudgetsKnown
      <4>2. MaxOutage <= LongestWait /\ LongestWait \in Nat /\ MaxOutage \in Nat
        BY <3>1, <4>1, SinceBounds, WaitsAdd, BusRouterAssumption DEF IInv, DeadlineInv
      <4>3. Since' = LongestWait - MaxOutage + 0
        BY <1>1, <3>4 DEF Since
      <4>4. ~Overdue(router, k, now)
        BY <1>6, <3>1, <3>4 DEF FindsNothing
      <4>5. ~Expired(router.jobs[k], now)
        BY <3>1, <4>4 DEF Overdue
      <4>6. ahead \in Nat
        BY <1>1, <3>1, <4>5, QueuedMotion, UnexpiredIsAhead
      <4>7. /\ Waits(Rank(router, k)) \in Nat /\ Waits(WorkCount - 2) \in Nat
            /\ Waits(Rank(router, k)) <= Waits(WorkCount - 2)
        BY <1>1, <3>1, QueuedMotion, WaitsAdd
      <4>8. due[k] = IF ahead > 0 THEN ahead ELSE 0
        BY <3>2 DEF InTime
      <4> HIDE DEF ahead
      <4>9. Waits(Rank(router, k)) - ahead <= Waits(WorkCount - 2) + Since'
        BY <4>2, <4>3, <4>6, <4>7
      <4> QED
        BY <1>1, <3>1, <4>8, <4>9 DEF InTime, ahead
    <3> QED
      BY <3>3, <3>4
  <2> QED
    BY <2>1, <2>3, <2>4, <2>5 DEF DeadlineInv
<1> QED
  BY <1>2, <1>5, <1>6

\* What is acknowledged was sent within its budget, and so before its deadline.
LEMMA DeadlineReport ==
    ASSUME IInv, DeadlineInv, NEW token \in 1 .. MaxToken, NEW ok \in BOOLEAN,
           Report(token, ok)
    PROVE  DeadlineInv' /\ (Acknowledges /\ router'.receipt.kind # STOP => dueOnWire > 0)
<1>1. /\ router \in Router /\ router' \in Router /\ router'.jobs = router.jobs
      /\ \/ EndsWhole(router, router')
         \/ SameTransaction(router, router') /\ Cautious(router, router')
      /\ EndsWhole(router, router') =>
           ~(Elapsed(now, router.bus.started) >= router.bus.budget)
  BY RouterCompletedEffect DEF Report, IInv, TypeOK
<1>2. UNCHANGED <<now, unpolled, due, dueOnWire>>
  BY DEF Report
<1>3. CASE EndsWhole(router, router')
  <2> DEFINE sent == Elapsed(now, router.bus.started)
  <2>1. /\ router.bus.active /\ ~router.bus.faulted /\ ~router'.bus.active
        /\ router'.inhibited = router.inhibited /\ router'.cursor = router.cursor
        /\ router'.receipt.kind = router.bus.owner
        /\ router.bus.owner # STOP =>
             router'.bus.stop_pending = router.bus.stop_pending
    BY <1>3 DEF EndsWhole, InFlight
  <2>2. /\ router.bus.budget \in Budgets /\ sent < router.bus.budget + unpolled
        /\ router.bus.owner # STOP => router.bus.budget < dueOnWire + sent
    BY <2>1 DEF DeadlineInv, SentInTime
  <2>3. /\ router.bus.budget \in Nat /\ sent \in Nat /\ dueOnWire \in Nat
        /\ sent < router.bus.budget
    <3>1. router.bus.budget \in Nat
      BY <2>2, WaitsAdd
    <3>2. sent \in Nat
      BY <1>1, RouterTypes, BusTypes, AgeIsBehind DEF IInv, TypeOK
    <3>3. dueOnWire \in Nat
      BY HalfTurnIsLess DEF IInv, TypeOK, MaxDue
    <3> HIDE DEF sent
    <3> QED
      BY <1>1, <1>3, <3>1, <3>2, <3>3 DEF sent
  <2>4. router'.receipt.kind # STOP => dueOnWire > 0
    <3> HIDE DEF sent
    <3> QED
      BY <2>1, <2>2, <2>3
  <2>5. StopClears' /\ BudgetsKnown' /\ SentInTime'
    BY <1>1, <2>1 DEF DeadlineInv, StopClears, BudgetsKnown, SentInTime, NoMotionQueued
  <2>6. SettledIsEmpty'
    BY <1>1, <2>1 DEF DeadlineInv, StopClears, SettledIsEmpty, NoMotionQueued
  <2>7. QueueInTime'
    <3> SUFFICES ASSUME ~router'.inhibited, NEW k \in Motion, router'.jobs[k].pending
                 PROVE  InTime(router', k, now', due'[k], Since')
      BY DEF QueueInTime
    <3> DEFINE ahead == Ahead(router.jobs[k].deadline, now)
    <3>1. InTime(router, k, now, due[k], Since) /\ Rank(router', k) = Rank(router, k)
      BY <1>1, <2>1 DEF DeadlineInv, QueueInTime, Rank
    <3>2. Since' = LongestWait - MaxOutage + unpolled
      BY <1>2, <2>1 DEF Since
    <3>3. Since \in Nat /\ Since <= LongestWait - MaxOutage + unpolled
      BY <2>1, <2>2, SinceBounds DEF IInv, DeadlineInv
    <3>4. /\ Waits(Rank(router, k)) \in Nat /\ Waits(WorkCount - 2) \in Nat /\ ahead \in Int
          /\ LongestWait \in Nat /\ MaxOutage \in Nat /\ unpolled \in Nat
      BY <1>1, QueuedMotion, WaitsAdd, BusRouterAssumption DEF IInv, TypeOK
    <3>5. /\ due[k] = IF ahead > 0 THEN ahead ELSE 0
          /\ Waits(Rank(router, k)) - ahead <= Waits(WorkCount - 2) + Since
      BY <3>1 DEF InTime
    <3> HIDE DEF ahead
    <3>6. Waits(Rank(router, k)) - ahead <= Waits(WorkCount - 2) + Since'
      BY <3>2, <3>3, <3>4, <3>5
    <3> QED
      BY <1>1, <1>2, <3>1, <3>5, <3>6 DEF InTime, ahead
  <2> QED
    BY <2>4, <2>5, <2>6, <2>7 DEF DeadlineInv
<1>4. CASE SameTransaction(router, router') /\ Cautious(router, router')
  <2>1. ~Acknowledges /\ AddsNothing(router, router')
    BY <1>1, <1>4 DEF Acknowledges, SameTransaction, AddsNothing
  <2> QED
    BY <1>2, <1>4, <2>1, DeadlinesStay
<1> QED
  BY <1>1, <1>3, <1>4

LEMMA DeadlineRecover ==
    ASSUME IInv, DeadlineInv, Recover
    PROVE  DeadlineInv' /\ ~Acknowledges
<1> DEFINE failed == RouterCompleted(router, router.bus.token, now, FALSE)
<1>1. /\ failed \in Router /\ failed.bus.faulted /\ failed.jobs = router.jobs
      /\ SameTransaction(router, failed) /\ Cautious(router, failed)
  BY RouterCompletedEffect DEF IInv, TypeOK, Recover
<1>2. failed.bus.stop_pending
  BY <1>1 DEF Cautious, IInv, OwedIsHeldBack
<1>3. \/ router' = [failed EXCEPT !.inhibited = TRUE, !.bus = Recovered(@)]
      \/ router' = [failed EXCEPT !.inhibited = TRUE]
  BY <1>1 DEF Recover, Router
<1> HIDE DEF failed
<1>4. /\ failed.bus \in Bus
      /\ Recovered(failed.bus).owner = failed.bus.owner
      /\ Recovered(failed.bus).active => failed.bus.active
      /\ ~Recovered(failed.bus).active \/ Recovered(failed.bus).faulted
      /\ Recovered(failed.bus).stop_pending
  BY <1>1, <1>2, RouterTypes, RecoveredEffect
<1>5. /\ router'.inhibited /\ router'.bus.stop_pending
      /\ router'.jobs = router.jobs /\ router'.receipt = router.receipt
      /\ router'.bus.owner = router.bus.owner
      /\ router'.bus.active => router.bus.active /\ router'.bus.faulted
  BY <1>1, <1>2, <1>3, <1>4 DEF Router, SameTransaction
<1>6. ~Acknowledges
  BY <1>5 DEF Acknowledges
<1>7. StopClears' /\ SettledIsEmpty' /\ QueueInTime' /\ SentInTime' /\ BudgetsKnown'
  BY <1>5 DEF DeadlineInv, StopClears, SettledIsEmpty, QueueInTime, SentInTime,
              BudgetsKnown, NoMotionQueued
<1> QED
  BY <1>6, <1>7 DEF DeadlineInv

\* Nothing is left in the queue from before the stop.
LEMMA DeadlineResume ==
    ASSUME IInv, DeadlineInv, Resume
    PROVE  DeadlineInv' /\ ~Acknowledges
<1>1. /\ SameTransaction(router, router') /\ router'.bus = router.bus
      /\ router'.jobs = router.jobs
      /\ \/ router'.inhibited = router.inhibited
         \/ ~router.bus.stop_pending /\ ~router.bus.active /\ ~router.jobs[STOP].pending
  BY ResumedEffect DEF IInv, TypeOK, Resume
<1>2. UNCHANGED <<now, unpolled, due, dueOnWire>>
  BY DEF Resume
<1>3. ~Acknowledges
  BY <1>1 DEF Acknowledges, SameTransaction
<1>4. CASE router'.inhibited = router.inhibited
  <2>1. Cautious(router, router') /\ AddsNothing(router, router')
    BY <1>1, <1>4 DEF Cautious, Loses, AddsNothing
  <2> QED
    BY <1>1, <1>2, <1>3, <2>1, DeadlinesStay
<1>5. CASE /\ router'.inhibited # router.inhibited /\ ~router.bus.stop_pending
           /\ ~router.bus.active /\ ~router.jobs[STOP].pending
  <2>1. router.inhibited \in BOOLEAN /\ router'.inhibited \in BOOLEAN
    BY ResumedEffect, RouterTypes DEF IInv, TypeOK, Resume
  <2>2. StopClears' /\ SentInTime' /\ BudgetsKnown'
    BY <1>1, <1>5 DEF DeadlineInv, StopClears, SentInTime, BudgetsKnown
  <2>3. CASE router.inhibited
    <3>1. NoMotionQueued(router')
      BY <1>1, <1>5, <2>3 DEF DeadlineInv, SettledIsEmpty, NoMotionQueued
    <3>2. SettledIsEmpty' /\ QueueInTime'
      BY <3>1 DEF SettledIsEmpty, QueueInTime, NoMotionQueued
    <3> QED
      BY <1>3, <2>2, <3>2 DEF DeadlineInv
  <2>4. CASE ~router.inhibited
    <3>1. Resumed(router).inhibited => router.inhibited
      BY DEF Resumed, IInv, TypeOK, Router
    <3>2. FALSE
      BY <1>5, <2>1, <2>4, <3>1 DEF Resume
    <3> QED
      BY <3>2
  <2> QED
    BY <2>3, <2>4
<1> QED
  BY <1>1, <1>4, <1>5

\* A tick ages the queue, the transaction in flight and the history alike.
LEMMA DeadlineAdvance ==
    ASSUME IInv, DeadlineInv, Advance
    PROVE  DeadlineInv' /\ ~Acknowledges
<1>1. /\ unpolled < MaxOutage /\ now' = Plus(now, 1) /\ unpolled' = unpolled + 1
      /\ due' = [kind \in Work |-> Before(due[kind])] /\ dueOnWire' = Before(dueOnWire)
      /\ router' = router
  BY DEF Advance
<1>2. /\ router \in Router /\ now \in Tick /\ unpolled \in Nat /\ MaxOutage \in Nat
      /\ dueOnWire \in Nat /\ router.bus.started \in Tick
      /\ LongestWait \in Nat /\ LongestWait < HalfTurn /\ HalfTurn \in Nat
      /\ HalfTurn < TickModulus /\ TickModulus \in Nat
  BY BusRouterAssumption, WaitsAdd, HalfTurnIsLess, TickModulusAssumption, RouterTypes,
     BusTypes DEF IInv, TypeOK, MaxDue
<1>3. ~Acknowledges
  BY <1>1 DEF Acknowledges
<1>4. StopClears' /\ SettledIsEmpty' /\ BudgetsKnown'
  BY <1>1 DEF DeadlineInv, StopClears, SettledIsEmpty, BudgetsKnown
<1> DEFINE sent == Elapsed(now, router.bus.started)
<1>5. ASSUME router.bus.active, ~router.bus.faulted
      PROVE  /\ router.bus.budget \in Budgets /\ router.bus.budget \in Nat /\ sent \in Nat
             /\ sent < router.bus.budget + unpolled
             /\ router.bus.owner # STOP => router.bus.budget < dueOnWire + sent
             /\ Elapsed(now', router.bus.started) = sent + 1
  <2>1. /\ router.bus.budget \in Budgets /\ sent < router.bus.budget + unpolled
        /\ router.bus.owner # STOP => router.bus.budget < dueOnWire + sent
    BY <1>5 DEF DeadlineInv, SentInTime
  <2>2. /\ router.bus.budget \in Nat /\ sent \in Nat
        /\ router.bus.budget - 1 + MaxOutage <= LongestWait
    BY <1>2, <2>1, WaitsAdd, AgeIsBehind
  <2>3. sent + 1 < TickModulus
    <3> HIDE DEF sent
    <3> QED
      BY <1>1, <1>2, <2>1, <2>2
  <2> QED
    BY <1>1, <1>2, <2>1, <2>2, <2>3, ReadingAges
<1>6. SentInTime'
  <2> SUFFICES ASSUME router.bus.active, ~router.bus.faulted
               PROVE  /\ router.bus.budget \in Budgets
                      /\ sent + 1 < router.bus.budget + (unpolled + 1)
                      /\ router.bus.owner # STOP =>
                           router.bus.budget < Before(dueOnWire) + (sent + 1)
    BY <1>1, <1>5 DEF SentInTime
  <2>1. dueOnWire <= Before(dueOnWire) + 1 /\ Before(dueOnWire) \in Nat
    BY <1>2 DEF Before
  <2> HIDE DEF sent
  <2> QED
    BY <1>2, <1>5, <2>1
<1>7. QueueInTime'
  <2> SUFFICES ASSUME ~router.inhibited, ~router.bus.faulted, NEW k \in Motion,
                      router.jobs[k].pending
               PROVE  InTime(router, k, now', due'[k], Since')
    BY <1>1 DEF QueueInTime
  <2> DEFINE ahead == Ahead(router.jobs[k].deadline, now)
  <2>1. InTime(router, k, now, due[k], Since)
    BY DEF DeadlineInv, QueueInTime
  <2>2. /\ k \in Work /\ router.jobs[k].deadline \in Tick /\ ahead \in Int
        /\ Waits(Rank(router, k)) \in Nat /\ Waits(WorkCount - 2) \in Nat
        /\ Waits(WorkCount - 2) + LongestWait < HalfTurn
    BY <1>2, QueuedMotion, WaitsAdd
  <2>3. router.jobs[k].budget \in Budgets
    BY <2>2 DEF DeadlineInv, BudgetsKnown
  <2>4. Since \in Nat /\ Since <= LongestWait - MaxOutage + unpolled
    BY <2>3, SinceBounds DEF IInv, DeadlineInv
  <2>5. /\ due[k] = IF ahead > 0 THEN ahead ELSE 0
        /\ Waits(Rank(router, k)) - ahead <= Waits(WorkCount - 2) + Since
    BY <2>1 DEF InTime
  <2>6. -HalfTurn + 1 < ahead
    <3> HIDE DEF ahead
    <3> QED
      BY <1>1, <1>2, <2>2, <2>4, <2>5
  <2>7. Ahead(router.jobs[k].deadline, now') = ahead - 1
    BY <1>1, <1>2, <2>2, <2>6, AheadAges
  <2> HIDE DEF ahead
  <2>8. Since' = Since + 1
    <3>1. CASE router.bus.active
      BY <1>1, <1>5, <3>1 DEF Since
    <3>2. CASE ~router.bus.active
      <4>1. Since = LongestWait - MaxOutage + unpolled
        BY <3>2 DEF Since
      <4>2. Since' = LongestWait - MaxOutage + (unpolled + 1)
        BY <1>1, <3>2 DEF Since
      <4> QED
        BY <1>2, <4>1, <4>2
    <3> QED
      BY <3>1, <3>2
  <2>9. due'[k] = IF ahead - 1 > 0 THEN ahead - 1 ELSE 0
    <3>1. due'[k] = Before(due[k])
      BY <1>1, <2>2
    <3> QED
      BY <2>2, <2>5, <3>1 DEF Before
  <2>10. Waits(Rank(router, k)) - (ahead - 1) <= Waits(WorkCount - 2) + (Since + 1)
    BY <2>2, <2>4, <2>5
  <2> QED
    BY <2>7, <2>8, <2>9, <2>10 DEF InTime
<1> QED
  BY <1>3, <1>4, <1>6, <1>7 DEF DeadlineInv

LEMMA DeadlineNext ==
    ASSUME IInv, DeadlineInv, [Next]_vars
    PROVE  DeadlineInv' /\ (Acknowledges /\ router'.receipt.kind # STOP => dueOnWire > 0)
<1>1. router \in Router
  BY DEF IInv, TypeOK
<1>2. SameTransaction(router, router') => ~Acknowledges
  BY DEF Acknowledges, SameTransaction
<1>3. ASSUME NEW kind \in Work, NEW lifetime \in Lifetimes, NEW budget \in Budgets,
             NEW packet \in PacketsOf(kind), Submit(kind, packet, lifetime, budget)
      PROVE  DeadlineInv' /\ ~Acknowledges
  <2>1. packet \in Packet
    BY BusAssumption DEF PacketsOf, APacket
  <2> QED
    BY <1>2, <1>3, <2>1, DeadlineSubmit, SubmitIsSafe
<1>4. CASE StopRequest
  <2> DEFINE q == Inhibit(router)
  <2>1. /\ q \in Router /\ SameTransaction(router, q) /\ HeldBack(q) /\ q.jobs = router.jobs
        /\ q.bus.faulted = router.bus.faulted
    BY <1>1, InhibitEffect
  <2>2. router' = q \/ router' = DropMotion(q)
    BY <1>4 DEF StopRequest
  <2> HIDE DEF q
  <2>3. /\ DropMotion(q).bus = q.bus /\ DropMotion(q).inhibited = q.inhibited
        /\ AddsNothing(q, DropMotion(q))
    BY <2>1, DropMotionEffect
  <2>4. /\ HeldBack(router') /\ router'.bus.faulted = router.bus.faulted
        /\ AddsNothing(router, router')
    BY <2>1, <2>2, <2>3 DEF HeldBack, AddsNothing
  <2>5. SameTransaction(router, router')
    BY <1>4, StopRequestIsSafe
  <2>6. Cautious(router, router')
    BY <2>4, HeldBackIsCautious
  <2> QED
    BY <1>2, <1>4, <2>4, <2>5, <2>6, DeadlinesStay DEF StopRequest
<1>5. ASSUME NEW available \in Windows, Dispatch(available)
      PROVE  DeadlineInv' /\ ~Acknowledges
  BY <1>5, DeadlineDispatch
<1>6. ASSUME NEW token \in 1 .. MaxToken, NEW ok \in BOOLEAN, Report(token, ok)
      PROVE  DeadlineInv' /\ (Acknowledges /\ router'.receipt.kind # STOP => dueOnWire > 0)
  BY <1>6, DeadlineReport
<1>7. CASE PollBus
  <2>1. /\ SameTransaction(router, router') /\ Cautious(router, router')
        /\ router'.jobs = router.jobs
    BY <1>1, <1>7, PolledEffect, PolledCautious DEF PollBus
  <2>2. AddsNothing(router, router')
    BY <2>1 DEF AddsNothing
  <2> QED
    BY <1>2, <1>7, <2>1, <2>2, DeadlinesStay DEF PollBus
<1>8. CASE Recover
  BY <1>8, DeadlineRecover
<1>9. CASE Resume
  BY <1>9, DeadlineResume
<1>10. CASE Advance
  BY <1>10, DeadlineAdvance
<1>11. CASE TransmissionEnds \/ UNCHANGED vars
  <2>1. UNCHANGED <<router, now, unpolled, due, dueOnWire>>
    BY <1>11 DEF TransmissionEnds, vars
  <2>2. /\ SameTransaction(router, router') /\ Cautious(router, router')
        /\ AddsNothing(router, router')
    BY <2>1 DEF SameTransaction, Cautious, Loses, AddsNothing
  <2> QED
    BY <1>2, <2>1, <2>2, DeadlinesStay
<1> QED
  BY <1>3, <1>4, <1>5, <1>6, <1>7, <1>8, <1>9, <1>10, <1>11 DEF Next

LEMMA DeadlineAlways == Spec => [](IInv /\ DeadlineInv)
<1>1. Init => IInv /\ DeadlineInv
  BY InitIsSafe, DeadlineInit
<1>2. (IInv /\ DeadlineInv) /\ [Next]_vars => (IInv /\ DeadlineInv)'
  BY NextIsSafe, DeadlineNext
<1> QED
  BY <1>1, <1>2, PTL DEF Spec

-----------------------------------------------------------------------------
(***************************************************************************)
(* Theorems.                                                               *)
(***************************************************************************)
\* Router, UART and histories keep their types through every call, report and
\* recovery.
THEOREM TypeCorrect == Spec => []TypeOK
<1>1. IInv => TypeOK
  BY DEF IInv
<1> QED
  BY AlwaysSafe, <1>1, PTL

\* The UART only ever carries the transaction that holds the bus.
THEOREM OneOwnerAlways == Spec => []OneOwner
<1>1. IInv => OneOwner
  BY DEF IInv, Transactions, WireIsInFlight, OneOwner, InFlight
<1> QED
  BY AlwaysSafe, <1>1, PTL

\* A receipt is that of bytes that went out whole.
THEOREM ReceiptsAreTrue == Spec => []ReceiptIsTrue
<1>1. IInv => ReceiptIsTrue
  BY DEF IInv, Transactions
<1> QED
  BY AlwaysSafe, <1>1, PTL

\* After a stop request, an expired job or a fault, no motion is handed out
\* until a stop went out whole and motion was resumed.
THEOREM MotionAlwaysWaits == Spec => MotionWaitsForStop
<1>1. IInv /\ [Next]_vars => [Claims /\ router'.bus.owner # STOP => owed = "NOTHING"]_vars
  BY NextIsSafe
<1> QED
  BY AlwaysSafe, <1>1, PTL DEF Spec, MotionWaitsForStop

\* While it could go, no kind of work is passed over more often than there are
\* others, whatever is queued, expires or fails meanwhile.
THEOREM TurnsAreAlwaysTaken == Spec => []TurnsAreTaken
<1>1. IInv /\ TurnInv => TurnsAreTaken
  <2> SUFFICES ASSUME IInv, TurnInv PROVE TurnsAreTaken
    OBVIOUS
  <2>1. Rank(router, Watched) \in 0 .. WorkCount - 2
    BY RankOfMotion, BusRouterAssumption DEF IInv, TypeOK
  <2> QED
    BY <2>1, BusAssumption DEF TurnInv, TurnComes, TurnsAreTaken, IInv, TypeOK
<1> QED
  BY TurnAlways, <1>1, PTL

\* No motion is acknowledged after its deadline: a job that expired in the queue
\* is never handed out, however the clock wraps and whatever is sent before it,
\* and one that was handed out is acknowledged within its budget or not at all.
THEOREM MotionAlwaysInTime == Spec => MotionIsNeverLate
<1>1. (IInv /\ DeadlineInv) /\ [Next]_vars =>
        [Acknowledges /\ router'.receipt.kind # STOP => dueOnWire > 0]_vars
  BY DeadlineNext
<1> QED
  BY DeadlineAlways, <1>1, PTL DEF Spec, MotionIsNeverLate
=============================================================================

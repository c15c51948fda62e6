--------------------------- MODULE BusRules_proofs ---------------------------
(***************************************************************************)
(* What the calls of a bus and its router preserve and change, for any     *)
(* number of kinds of work, of transaction identities, of packets, and for *)
(* every clock.  Proofs about a program that makes these calls cite these  *)
(* lemmas instead of the definitions.                                      *)
(***************************************************************************)
EXTENDS OutputPass, ModularTick_proofs, WellFoundedInduction

-----------------------------------------------------------------------------
(***************************************************************************)
(* The search of the queue.                                                *)
(***************************************************************************)
\* Sets of natural numbers have a least element.
LEMMA LeastNatural ==
    ASSUME NEW S, S \subseteq Nat, S # {}
    PROVE  \E m \in S : \A n \in S : m <= n
<1>1. \E m \in S : \A n \in S : <<n, m>> \notin OpToRel(<, Nat)
  BY NatLessThanWellFounded, WFMin
<1>2. PICK m \in S : \A n \in S : <<n, m>> \notin OpToRel(<, Nat)
  BY <1>1
<1>3. ASSUME NEW n \in S PROVE m <= n
  <2>1. <<n, m>> \in Nat \X Nat /\ <<n, m>>[1] = n /\ <<n, m>>[2] = m
    OBVIOUS
  <2>2. ~(n < m)
    BY <1>2, <2>1 DEF OpToRel
  <2> QED
    BY <2>2
<1> QED
  BY <1>3

\* The first of some kinds of work is one of them, and none is before it.
LEMMA FirstIsOne ==
    ASSUME NEW r \in Router, NEW kinds \in SUBSET Work, kinds # {}
    PROVE  /\ FirstOf(r, kinds) \in kinds
           /\ \A other \in kinds : Rank(r, FirstOf(r, kinds)) <= Rank(r, other)
<1> DEFINE ranks == {Rank(r, k) + 1 : k \in kinds}
<1>1. \A k \in kinds : Rank(r, k) \in Int /\ Rank(r, k) >= -1
  <2> SUFFICES ASSUME NEW k \in kinds, k # STOP
               PROVE  (k - 1 - r.cursor) % (WorkCount - 1) \in Nat
    BY DEF Rank
  <2>1. k - 1 - r.cursor \in Int /\ WorkCount - 1 \in Nat \ {0}
    BY BusAssumption DEF Work, Router
  <2>2. (k - 1 - r.cursor) % (WorkCount - 1) \in 0 .. (WorkCount - 1) - 1
    BY <2>1, RemainderBelow
  <2> QED
    BY <2>1, <2>2
<1>2. ranks \subseteq Nat /\ ranks # {}
  BY <1>1
<1> HIDE DEF ranks
<1>3. PICK m \in ranks : \A n \in ranks : m <= n
  BY <1>2, LeastNatural
<1>4. PICK k \in kinds : m = Rank(r, k) + 1
  BY DEF ranks
<1>5. \A other \in kinds : Rank(r, k) <= Rank(r, other)
  BY <1>1, <1>3, <1>4 DEF ranks
<1> QED
  BY <1>5 DEF FirstOf

\* Reduction of a number less than a turn out of range.
LEMMA RemainderNearby ==
    ASSUME NEW x \in Int, NEW d \in Nat \ {0}, -d <= x, x <= d
    PROVE  x % d = IF x < 0 THEN x + d ELSE IF x < d THEN x ELSE 0
<1>1. x = d * (x \div d) + (x % d) /\ x \div d \in Int /\ x % d \in 0 .. d - 1
  BY Z3
<1>2. x \div d < 2
  <2> SUFFICES ASSUME x \div d >= 2 PROVE FALSE
    BY <1>1
  <2>1. d * (x \div d) >= d * 2
    BY <1>1, Z3
  <2> QED
    BY <1>1, <2>1
<1>3. x \div d >= -1
  <2> SUFFICES ASSUME x \div d <= -2 PROVE FALSE
    BY <1>1
  <2>1. d * (x \div d) <= d * (-2)
    BY <1>1, Z3
  <2> QED
    BY <1>1, <2>1
<1>4. x \div d \in {-1, 0, 1}
  BY <1>1, <1>2, <1>3
<1>5. x = -d + (x % d) \/ x = x % d \/ x = d + (x % d)
  BY <1>1, <1>4, Z3
<1> QED
  BY <1>1, <1>5

\* How far a kind of motion is from its turn.
LEMMA RankOfMotion ==
    ASSUME NEW r \in Router, NEW k \in Motion
    PROVE  /\ k \in Int /\ r.cursor \in Int /\ Rank(r, k) \in 0 .. WorkCount - 2
           /\ Rank(r, k) = IF k - 1 < r.cursor THEN k - 1 - r.cursor + (WorkCount - 1)
                           ELSE k - 1 - r.cursor
<1> DEFINE x == k - 1 - r.cursor
           d == WorkCount - 1
<1>1. /\ k \in Int /\ k # STOP /\ k - 1 \in 0 .. WorkCount - 2
      /\ r.cursor \in 0 .. WorkCount - 2 /\ WorkCount \in Nat /\ WorkCount > 1
  BY BusAssumption DEF Motion, STOP, Router
<1>2. x \in Int /\ d \in Nat \ {0} /\ -d <= x /\ x <= d /\ x < d
  BY <1>1
<1>3. Rank(r, k) = x % d
  BY <1>1 DEF Rank
<1> HIDE DEF x, d
<1>4. x % d = IF x < 0 THEN x + d ELSE IF x < d THEN x ELSE 0
  BY <1>2, RemainderNearby
<1>5. Rank(r, k) = IF x < 0 THEN x + d ELSE x
  BY <1>2, <1>3, <1>4
<1> QED
  BY <1>1, <1>2, <1>5 DEF x, d

\* A claim brings every kind of motion it went before closer to its turn.
LEMMA TurnComesCloser ==
    ASSUME NEW r \in Router, NEW q \in Router, NEW k \in Motion, NEW w \in Motion, k # w,
           Rank(r, k) <= Rank(r, w), q.cursor = NextCursor(k)
    PROVE  Rank(q, w) + 1 <= Rank(r, w)
<1>1. /\ Rank(r, k) = IF k - 1 < r.cursor THEN k - 1 - r.cursor + (WorkCount - 1)
                      ELSE k - 1 - r.cursor
      /\ Rank(r, w) = IF w - 1 < r.cursor THEN w - 1 - r.cursor + (WorkCount - 1)
                      ELSE w - 1 - r.cursor
      /\ Rank(q, w) = IF w - 1 < q.cursor THEN w - 1 - q.cursor + (WorkCount - 1)
                      ELSE w - 1 - q.cursor
  BY RankOfMotion
<1>2. /\ k \in 1 .. WorkCount - 1 /\ w \in 1 .. WorkCount - 1
      /\ r.cursor \in 0 .. WorkCount - 2 /\ WorkCount \in Nat /\ WorkCount > 1
  BY BusAssumption DEF Motion, Router
<1>3. q.cursor = IF k < WorkCount - 1 THEN k ELSE 0
  <2> DEFINE d == WorkCount - 1
  <2>1. d \in Nat \ {0} /\ k \in Int /\ 0 <= k /\ -d <= k /\ k <= d
    BY <1>2
  <2>2. q.cursor = k % d
    BY DEF NextCursor
  <2> HIDE DEF d
  <2>3. k % d = IF k < 0 THEN k + d ELSE IF k < d THEN k ELSE 0
    BY <2>1, RemainderNearby
  <2>4. q.cursor = IF k < d THEN k ELSE 0
    BY <2>1, <2>2, <2>3
  <2> QED
    BY <2>4 DEF d
<1> QED
  BY <1>1, <1>2, <1>3

-----------------------------------------------------------------------------
(***************************************************************************)
(* The bus.                                                                *)
(***************************************************************************)
\* What the UART is given for the current transaction.
InFlight(r) == [token |-> r.bus.token, kind |-> r.bus.owner, packet |-> r.sending]

\* The call leaves the transaction in flight, the receipt and the turn alone.
SameTransaction(r, q) ==
    /\ q.cursor = r.cursor
    /\ q.bus.token = r.bus.token /\ q.bus.owner = r.bus.owner
    /\ q.bus.active = r.bus.active
    /\ q.bus.started = r.bus.started /\ q.bus.budget = r.bus.budget
    /\ q.sending = r.sending /\ q.receipt = r.receipt

\* Motion has to wait for a stop and then for a resumption.
HeldBack(r) == r.inhibited /\ r.bus.stop_pending

Loses(r, q) == \E k \in Work : r.jobs[k].pending /\ ~q.jobs[k].pending

\* What is queued after the call was queued before it.
AddsNothing(r, q) == \A k \in Work : q.jobs[k].pending => q.jobs[k] = r.jobs[k]

NoMotionQueued(r) == \A k \in Motion : ~r.jobs[k].pending

\* Motion that was held back stays so, and a job that is given up, or a bus
\* that breaks, holds it back.
Cautious(r, q) ==
    /\ r.inhibited => q.inhibited
    /\ r.bus.stop_pending => q.bus.stop_pending
    /\ r.bus.faulted => q.bus.faulted
    /\ q.bus.faulted /\ ~r.bus.faulted => q.bus.stop_pending
    /\ Loses(r, q) => HeldBack(q)
    /\ q.inhibited => r.inhibited \/ q.bus.stop_pending

LEMMA BusTypes ==
    ASSUME NEW b \in Bus
    PROVE  /\ b.active \in BOOLEAN /\ b.stop_pending \in BOOLEAN /\ b.faulted \in BOOLEAN
           /\ b.token \in 0 .. MaxToken /\ b.started \in Tick
           /\ b.budget \in Budget \cup {0} /\ b.owner \in Work
BY DEF Bus

\* A poll changes nothing, or faults the bus.
LEMMA PollEffect ==
    ASSUME NEW b \in Bus, NEW now
    PROVE  /\ Poll(b, now) \in Bus
           /\ Poll(b, now) = b \/ Poll(b, now) = Faulted(b)
           /\ Faulted(b) \in Bus
           /\ Faulted(b).faulted /\ Faulted(b).stop_pending
           /\ Faulted(b).token = b.token /\ Faulted(b).owner = b.owner
           /\ Faulted(b).active = b.active
           /\ Faulted(b).started = b.started /\ Faulted(b).budget = b.budget
           /\ b.active /\ ~Poll(b, now).faulted => ~(Elapsed(now, b.started) >= b.budget)
<1>1. /\ Faulted(b) \in Bus
      /\ Faulted(b).faulted /\ Faulted(b).stop_pending
      /\ Faulted(b).token = b.token /\ Faulted(b).owner = b.owner
      /\ Faulted(b).active = b.active
      /\ Faulted(b).started = b.started /\ Faulted(b).budget = b.budget
  BY DEF Faulted, Bus
<1>2. Poll(b, now) = IF b.active /\ Elapsed(now, b.started) >= b.budget
                     THEN Faulted(b) ELSE b
  BY DEF Poll
<1>3. Poll(b, now) = b \/ Poll(b, now) = Faulted(b)
  BY <1>2
<1>4. b.active /\ ~Poll(b, now).faulted => ~(Elapsed(now, b.started) >= b.budget)
  BY <1>1, <1>2
<1> QED
  BY <1>1, <1>3, <1>4

-----------------------------------------------------------------------------
(***************************************************************************)
(* The router.                                                             *)
(***************************************************************************)
LEMMA RouterTypes ==
    ASSUME NEW r \in Router
    PROVE  /\ r.bus \in Bus /\ r.jobs \in [Work -> Job] /\ r.sending \in Packet
           /\ r.inhibited \in BOOLEAN /\ r.cursor \in 0 .. WorkCount - 2
           /\ r.receipt \in Receipt
BY DEF Router

\* Polling the bus of a router touches nothing but its fault.
LEMMA PolledEffect ==
    ASSUME NEW r \in Router, NEW now
    PROVE  LET p == Polled(r, now)
           IN  /\ p \in Router
               /\ p.jobs = r.jobs /\ p.sending = r.sending /\ p.inhibited = r.inhibited
               /\ p.cursor = r.cursor /\ p.receipt = r.receipt
               /\ p.bus = r.bus \/ (p.bus = Faulted(r.bus))
               /\ p.bus.active /\ ~p.bus.faulted =>
                    ~(Elapsed(now, p.bus.started) >= p.bus.budget)
<1>1. r.bus \in Bus /\ Poll(r.bus, now) \in Bus
  BY RouterTypes, PollEffect
<1>2. /\ Poll(r.bus, now) = r.bus \/ Poll(r.bus, now) = Faulted(r.bus)
      /\ Faulted(r.bus).faulted
      /\ r.bus.active /\ ~Poll(r.bus, now).faulted =>
           ~(Elapsed(now, r.bus.started) >= r.bus.budget)
  BY <1>1, PollEffect
<1>3. /\ Polled(r, now) \in Router /\ Polled(r, now).bus = Poll(r.bus, now)
      /\ Polled(r, now).jobs = r.jobs /\ Polled(r, now).sending = r.sending
      /\ Polled(r, now).inhibited = r.inhibited /\ Polled(r, now).cursor = r.cursor
      /\ Polled(r, now).receipt = r.receipt
  BY <1>1 DEF Polled, Router
<1> QED
  BY <1>2, <1>3, Zenon

\* Initially a router is at rest.
LEMMA InitialRouter == RouterInit \in Router
<1>1. APacket \in Packet
  BY BusAssumption DEF APacket
<1>2. STOP \in Work /\ 0 \in 0 .. WorkCount - 2 /\ 0 \in Tick /\ 0 \in 0 .. MaxToken
  BY BusAssumption, TickModulusAssumption DEF Work, STOP, Tick
<1> QED
  BY <1>1, <1>2 DEF RouterInit, Router, Bus, Receipt, Job, NoJob

\* Polling is cautious.
LEMMA PolledCautious ==
    ASSUME NEW r \in Router, NEW now
    PROVE  SameTransaction(r, Polled(r, now)) /\ Cautious(r, Polled(r, now))
<1> DEFINE p == Polled(r, now)
<1>1. /\ p.jobs = r.jobs /\ p.sending = r.sending /\ p.inhibited = r.inhibited
      /\ p.receipt = r.receipt /\ p.cursor = r.cursor
      /\ p.bus = r.bus \/ p.bus = Faulted(r.bus)
  BY PolledEffect
<1>2. /\ Faulted(r.bus).faulted /\ Faulted(r.bus).stop_pending
      /\ Faulted(r.bus).token = r.bus.token /\ Faulted(r.bus).owner = r.bus.owner
      /\ Faulted(r.bus).active = r.bus.active
      /\ Faulted(r.bus).started = r.bus.started /\ Faulted(r.bus).budget = r.bus.budget
  BY RouterTypes, PollEffect
<1> HIDE DEF p
<1>3. SameTransaction(r, p)
  BY <1>1, <1>2 DEF SameTransaction
<1>4. ~Loses(r, p)
  BY <1>1 DEF Loses
<1>5. Cautious(r, p)
  BY <1>1, <1>2, <1>4 DEF Cautious
<1> QED
  BY <1>3, <1>5 DEF p

\* An inhibited router holds motion back and keeps the rest.
LEMMA InhibitEffect ==
    ASSUME NEW r \in Router
    PROVE  LET q == Inhibit(r)
           IN  /\ q \in Router /\ q.jobs = r.jobs /\ q.bus.faulted = r.bus.faulted
               /\ SameTransaction(r, q) /\ HeldBack(q)
BY DEF Inhibit, request_stop, Router, Bus, SameTransaction, HeldBack

\* Giving up the queued motions keeps the rest.
LEMMA DropMotionEffect ==
    ASSUME NEW r \in Router
    PROVE  LET q == DropMotion(r)
           IN  /\ q \in Router /\ q.bus = r.bus /\ q.inhibited = r.inhibited
               /\ SameTransaction(r, q)
               /\ NoMotionQueued(q) /\ q.jobs[STOP] = r.jobs[STOP] /\ AddsNothing(r, q)
<1> DEFINE jobs == [kind \in Work |-> IF kind = STOP THEN r.jobs[kind] ELSE NoJob]
<1>1. r.jobs \in [Work -> Job] /\ NoJob \in Job
  BY RouterTypes DEF Job
<1>2. /\ jobs \in [Work -> Job]
      /\ \A k \in Motion : ~jobs[k].pending
      /\ jobs[STOP] = r.jobs[STOP]
      /\ \A k \in Work : jobs[k].pending => jobs[k] = r.jobs[k]
  BY <1>1, BusAssumption DEF Work, Motion, STOP, NoJob
<1> HIDE DEF jobs
<1>3. DropMotion(r) = [r EXCEPT !.jobs = jobs]
  BY DEF DropMotion, jobs
<1> QED
  BY <1>2, <1>3 DEF Router, SameTransaction, NoMotionQueued, AddsNothing

LEMMA StopTakesOverEffect ==
    ASSUME NEW r \in Router
    PROVE  LET q == StopTakesOver(r)
           IN  /\ q \in Router /\ q.bus.faulted = r.bus.faulted
               /\ SameTransaction(r, q) /\ HeldBack(q)
               /\ NoMotionQueued(q) /\ AddsNothing(r, q)
<1> DEFINE d == DropMotion(r)
<1>1. /\ d \in Router /\ d.bus = r.bus /\ SameTransaction(r, d)
      /\ NoMotionQueued(d) /\ AddsNothing(r, d)
  BY DropMotionEffect
<1> HIDE DEF d
<1>2. /\ Inhibit(d) \in Router /\ Inhibit(d).bus.faulted = d.bus.faulted
      /\ SameTransaction(d, Inhibit(d)) /\ HeldBack(Inhibit(d))
      /\ Inhibit(d).jobs = d.jobs
  BY <1>1, InhibitEffect
<1>3. NoMotionQueued(Inhibit(d)) /\ AddsNothing(r, Inhibit(d))
  BY <1>1, <1>2 DEF NoMotionQueued, AddsNothing
<1> QED
  BY <1>1, <1>2, <1>3 DEF StopTakesOver, SameTransaction, d

\* Queueing a job changes nothing but the queue.
LEMMA QueueEffect ==
    ASSUME NEW r \in Router, NEW kind \in Work, NEW job \in Job
    PROVE  LET q == [r EXCEPT !.jobs[kind] = job]
           IN  /\ q \in Router /\ q.bus = r.bus /\ q.inhibited = r.inhibited
               /\ q.jobs = [r.jobs EXCEPT ![kind] = job]
               /\ SameTransaction(r, q)
BY DEF Router, SameTransaction

\* A submission is cautious, and a stop that is taken holds motion back.
LEMMA SubmittedEffect ==
    ASSUME NEW r \in Router, NEW kind \in Work, NEW packet \in Packet, NEW now \in Tick,
           NEW deadline \in Tick, NEW budget \in Budget
    PROVE  LET q == Submitted(r, kind, packet, now, deadline, budget)
           IN  /\ q \in Router /\ SameTransaction(r, q) /\ Cautious(r, q)
               /\ kind = STOP /\ Accepts(Polled(r, now), STOP)
                    /\ WellFormed(Elapsed(deadline, now), budget) => HeldBack(q)
               /\ q.jobs[STOP].pending => r.jobs[STOP].pending \/ HeldBack(q)
<1> DEFINE p == Polled(r, now)
           job == [pending |-> TRUE, packet |-> packet, deadline |-> deadline,
                   budget |-> budget]
           q == Submitted(r, kind, packet, now, deadline, budget)
<1>1. job \in Job /\ job.pending
  BY DEF Job
<1>2. /\ p \in Router /\ p.jobs = r.jobs
      /\ SameTransaction(r, p) /\ Cautious(r, p)
  BY PolledEffect, PolledCautious
<1>3. q = IF ~WellFormed(Elapsed(deadline, now), budget) THEN r
          ELSE IF ~Accepts(p, kind) THEN p
          ELSE IF kind = STOP THEN [StopTakesOver(p) EXCEPT !.jobs[STOP] = job]
          ELSE [p EXCEPT !.jobs[kind] = job]
  BY DEF Submitted
<1>4. SameTransaction(r, r) /\ Cautious(r, r)
  BY DEF SameTransaction, Cautious, Loses
<1> HIDE DEF p, job, q
<1>5. CASE ~WellFormed(Elapsed(deadline, now), budget) \/ ~Accepts(p, kind)
  BY <1>2, <1>3, <1>4, <1>5 DEF p, q
<1>6. CASE WellFormed(Elapsed(deadline, now), budget) /\ Accepts(p, kind) /\ kind = STOP
  <2> DEFINE t == StopTakesOver(p)
  <2>1. /\ t \in Router /\ t.bus.faulted = p.bus.faulted
        /\ SameTransaction(p, t) /\ HeldBack(t)
    BY <1>2, StopTakesOverEffect
  <2> HIDE DEF t
  <2>2. q = [t EXCEPT !.jobs[STOP] = job] /\ STOP \in Work
    BY <1>3, <1>6 DEF t
  <2>3. /\ q \in Router /\ q.bus = t.bus /\ q.inhibited = t.inhibited
        /\ SameTransaction(t, q)
    BY <1>1, <2>1, <2>2, QueueEffect
  <2>4. HeldBack(q)
    BY <2>1, <2>3 DEF HeldBack
  <2>5. SameTransaction(r, q)
    BY <1>2, <2>1, <2>3 DEF SameTransaction
  <2>6. Cautious(r, q)
    BY <1>2, <2>1, <2>3, <2>4 DEF Cautious, HeldBack
  <2> QED
    BY <2>3, <2>4, <2>5, <2>6 DEF q
<1>7. CASE WellFormed(Elapsed(deadline, now), budget) /\ Accepts(p, kind) /\ kind # STOP
  <2>1. q = [p EXCEPT !.jobs[kind] = job]
    BY <1>3, <1>7
  <2>2. /\ q \in Router /\ q.bus = p.bus /\ q.inhibited = p.inhibited
        /\ q.jobs = [p.jobs EXCEPT ![kind] = job] /\ SameTransaction(p, q)
    BY <1>1, <1>2, <2>1, QueueEffect
  <2>3. ~Loses(r, q)
    BY <1>1, <1>2, <2>2, RouterTypes DEF Loses
  <2>4. SameTransaction(r, q)
    BY <1>2, <2>2 DEF SameTransaction
  <2>5. Cautious(r, q)
    BY <1>2, <2>2, <2>3 DEF Cautious
  <2>6. q.jobs[STOP] = r.jobs[STOP]
    BY <1>2, <1>7, <2>2, RouterTypes
  <2> QED
    BY <1>7, <2>2, <2>4, <2>5, <2>6 DEF q
<1> QED
  BY <1>5, <1>6, <1>7

\* A submission queues its own packet and nothing else; that of a stop takes
\* the queued motion away.
LEMMA SubmittedQueue ==
    ASSUME NEW r \in Router, NEW kind \in Work, NEW packet \in Packet, NEW now \in Tick,
           NEW deadline \in Tick, NEW budget \in Budget
    PROVE  LET q == Submitted(r, kind, packet, now, deadline, budget)
           IN  \A k \in Work : q.jobs[k].pending =>
                 \/ q.jobs[k] = r.jobs[k]
                 \/ k = kind /\ q.jobs[k].packet = packet
<1> DEFINE p == Polled(r, now)
           job == [pending |-> TRUE, packet |-> packet, deadline |-> deadline,
                   budget |-> budget]
           q == Submitted(r, kind, packet, now, deadline, budget)
<1>1. job \in Job /\ job.packet = packet
  BY DEF Job
<1>2. p \in Router /\ p.jobs = r.jobs
  BY PolledEffect
<1>3. q = IF ~WellFormed(Elapsed(deadline, now), budget) THEN r
          ELSE IF ~Accepts(p, kind) THEN p
          ELSE IF kind = STOP THEN [StopTakesOver(p) EXCEPT !.jobs[STOP] = job]
          ELSE [p EXCEPT !.jobs[kind] = job]
  BY DEF Submitted
<1> HIDE DEF p, job, q
<1>4. CASE q = r \/ q = p
  BY <1>2, <1>4 DEF q
<1>5. CASE kind = STOP /\ q = [StopTakesOver(p) EXCEPT !.jobs[STOP] = job]
  <2> DEFINE t == StopTakesOver(p)
  <2>1. t \in Router /\ AddsNothing(p, t)
    BY <1>2, StopTakesOverEffect
  <2> HIDE DEF t
  <2>2. q.jobs = [t.jobs EXCEPT ![STOP] = job] /\ t.jobs \in [Work -> Job]
    BY <1>1, <1>5, <2>1, QueueEffect, RouterTypes DEF t
  <2> QED
    BY <1>1, <1>2, <1>5, <2>1, <2>2 DEF AddsNothing, q
<1>6. CASE q = [p EXCEPT !.jobs[kind] = job]
  <2>1. q.jobs = [p.jobs EXCEPT ![kind] = job] /\ p.jobs \in [Work -> Job]
    BY <1>1, <1>2, <1>6, QueueEffect, RouterTypes
  <2> QED
    BY <1>1, <1>2, <2>1 DEF q
<1> QED
  BY <1>3, <1>4, <1>5, <1>6

\* A submission that is not taken leaves the queue alone; a motion that is
\* taken becomes the job of its kind; a stop that is taken leaves no other.
LEMMA SubmittedJob ==
    ASSUME NEW r \in Router, NEW kind \in Work, NEW packet \in Packet, NEW now \in Tick,
           NEW deadline \in Tick, NEW budget \in Budget
    PROVE  LET q == Submitted(r, kind, packet, now, deadline, budget)
               taken == /\ WellFormed(Elapsed(deadline, now), budget)
                        /\ Accepts(Polled(r, now), kind)
               job == [pending |-> TRUE, packet |-> packet, deadline |-> deadline,
                       budget |-> budget]
           IN  /\ ~taken => q.jobs = r.jobs /\ q.inhibited = r.inhibited
               /\ taken /\ kind # STOP =>
                    /\ q.jobs = [r.jobs EXCEPT ![kind] = job]
                    /\ ~r.inhibited /\ ~q.inhibited
               /\ taken /\ kind = STOP =>
                    q.jobs[STOP] = job /\ NoMotionQueued(q) /\ HeldBack(q)
<1> DEFINE p == Polled(r, now)
           job == [pending |-> TRUE, packet |-> packet, deadline |-> deadline,
                   budget |-> budget]
           q == Submitted(r, kind, packet, now, deadline, budget)
           taken == WellFormed(Elapsed(deadline, now), budget) /\ Accepts(p, kind)
<1>1. job \in Job
  BY DEF Job
<1>2. p \in Router /\ p.jobs = r.jobs /\ p.inhibited = r.inhibited
  BY PolledEffect
<1>3. q = IF ~WellFormed(Elapsed(deadline, now), budget) THEN r
          ELSE IF ~Accepts(p, kind) THEN p
          ELSE IF kind = STOP THEN [StopTakesOver(p) EXCEPT !.jobs[STOP] = job]
          ELSE [p EXCEPT !.jobs[kind] = job]
  BY DEF Submitted
<1>4. Accepts(p, kind) /\ kind # STOP => ~p.inhibited
  BY DEF Accepts
<1> HIDE DEF p, job, q
<1>5. ~taken => q.jobs = r.jobs /\ q.inhibited = r.inhibited
  BY <1>2, <1>3
<1>6. ASSUME taken, kind # STOP
      PROVE  /\ q.jobs = [r.jobs EXCEPT ![kind] = job]
             /\ ~r.inhibited /\ ~q.inhibited
  BY <1>1, <1>2, <1>3, <1>4, <1>6, QueueEffect
<1>7. ASSUME taken, kind = STOP
      PROVE  q.jobs[STOP] = job /\ NoMotionQueued(q) /\ HeldBack(q)
  <2> DEFINE t == StopTakesOver(p)
  <2>1. t \in Router /\ NoMotionQueued(t) /\ HeldBack(t)
    BY <1>2, StopTakesOverEffect
  <2>2. q = [t EXCEPT !.jobs[STOP] = job] /\ STOP \in Work
    BY <1>3, <1>7
  <2> HIDE DEF t
  <2>3. /\ q.jobs = [t.jobs EXCEPT ![STOP] = job] /\ q.bus = t.bus
        /\ q.inhibited = t.inhibited /\ t.jobs \in [Work -> Job]
    BY <1>1, <2>1, <2>2, QueueEffect, RouterTypes
  <2>4. NoMotionQueued(q)
    BY <2>1, <2>3, BusAssumption DEF NoMotionQueued, Motion, Work, STOP
  <2> QED
    BY <2>1, <2>2, <2>3, <2>4 DEF HeldBack
<1> QED
  BY <1>5, <1>6, <1>7 DEF p, q, job

\* A claim starts the next transaction on a free bus.
LEMMA ClaimEffect ==
    ASSUME NEW r \in Router, NEW kind \in Work, NEW now \in Tick,
           r.jobs[kind].pending, r.bus.token < MaxToken
    PROVE  LET q == Claim(r, kind, now)
           IN  /\ q \in Router
               /\ q.bus.token = r.bus.token + 1 /\ q.bus.active /\ q.bus.owner = kind
               /\ q.bus.faulted = r.bus.faulted /\ q.bus.stop_pending = r.bus.stop_pending
               /\ q.inhibited = r.inhibited /\ q.receipt = r.receipt
               /\ q.bus.started = now /\ q.bus.budget = r.jobs[kind].budget
               /\ q.sending = r.jobs[kind].packet /\ q.cursor = NextCursor(kind)
               /\ q.jobs = [r.jobs EXCEPT ![kind] = NoJob]
<1> DEFINE job == r.jobs[kind]
           b == Acquired(r.bus, kind, job.budget, now)
           jobs == [r.jobs EXCEPT ![kind] = NoJob]
<1>1. job \in Job /\ job.pending
  BY RouterTypes
<1>2. job.budget \in Budget /\ job.packet \in Packet
  <2>1. job # NoJob
    BY <1>1 DEF NoJob
  <2>2. job \in [pending: {TRUE}, packet: Packet, deadline: Tick, budget: Budget]
    BY <1>1, <2>1 DEF Job
  <2> HIDE DEF job
  <2> QED
    BY <2>2
<1>3. r.bus \in Bus /\ r.bus.token \in Nat /\ MaxToken \in Nat
  BY RouterTypes, BusTypes, BusAssumption
<1> HIDE DEF job
<1>4. /\ b \in Bus
      /\ b.token = r.bus.token + 1 /\ b.active /\ b.owner = kind
      /\ b.faulted = r.bus.faulted /\ b.stop_pending = r.bus.stop_pending
      /\ b.started = now /\ b.budget = job.budget
  <2>1. r.bus.token # MaxToken /\ r.bus.token + 1 \in 0 .. MaxToken
    BY <1>3
  <2>2. b = [r.bus EXCEPT !.token = @ + 1, !.active = TRUE, !.owner = kind,
                          !.started = now, !.budget = job.budget]
    BY <2>1 DEF Acquired
  <2> HIDE DEF b
  <2> QED
    BY <1>2, <1>3, <2>1, <2>2 DEF Bus
<1>5. jobs \in [Work -> Job]
  <2>1. NoJob \in Job /\ r.jobs \in [Work -> Job]
    BY RouterTypes DEF Job
  <2> QED
    BY <2>1
<1>6. NextCursor(kind) \in 0 .. WorkCount - 2
  <2>1. kind \in Int /\ WorkCount - 1 \in Nat \ {0}
    BY BusAssumption DEF Work
  <2> DEFINE cursor == kind % (WorkCount - 1)
  <2>2. cursor \in 0 .. (WorkCount - 1) - 1
    BY <2>1, RemainderBelow
  <2>3. NextCursor(kind) = cursor
    BY DEF NextCursor
  <2> HIDE DEF cursor
  <2> QED
    BY <2>2, <2>3, BusAssumption
<1>7. Claim(r, kind, now) = [r EXCEPT !.bus = b, !.sending = job.packet, !.jobs = jobs,
                                      !.cursor = NextCursor(kind)]
  BY DEF Claim, job
<1> HIDE DEF b, jobs
<1>8. LET q == Claim(r, kind, now)
      IN  /\ q \in Router /\ q.bus = b /\ q.inhibited = r.inhibited
          /\ q.receipt = r.receipt /\ q.sending = job.packet /\ q.jobs = jobs
          /\ q.cursor = NextCursor(kind)
  BY <1>2, <1>4, <1>5, <1>6, <1>7 DEF Router
<1> QED
  BY <1>4, <1>8 DEF job, jobs

\* Giving up an expired job is cautious.
LEMMA ExpireEffect ==
    ASSUME NEW r \in Router, NEW kind \in Work
    PROVE  LET q == Expire(r, kind)
           IN  /\ q \in Router /\ q.bus.faulted = r.bus.faulted
               /\ SameTransaction(r, q) /\ HeldBack(q)
               /\ q.jobs = [r.jobs EXCEPT ![kind] = NoJob]
<1> DEFINE d == [r EXCEPT !.jobs[kind] = NoJob]
<1>1. /\ d \in Router /\ d.bus = r.bus /\ SameTransaction(r, d)
      /\ d.jobs = [r.jobs EXCEPT ![kind] = NoJob]
  BY QueueEffect DEF Job
<1> HIDE DEF d
<1>2. /\ Inhibit(d) \in Router /\ Inhibit(d).bus.faulted = d.bus.faulted
      /\ SameTransaction(d, Inhibit(d)) /\ HeldBack(Inhibit(d))
      /\ Inhibit(d).jobs = d.jobs
  BY <1>1, InhibitEffect
<1> QED
  BY <1>1, <1>2 DEF Expire, SameTransaction, d

\* Emptying a slot of the queue queues nothing.
LEMMA EmptiedAddsNothing ==
    ASSUME NEW r \in Router, NEW q, NEW kind \in Work,
           q.jobs = [r.jobs EXCEPT ![kind] = NoJob]
    PROVE  AddsNothing(r, q)
<1>1. r.jobs \in [Work -> Job]
  BY RouterTypes
<1> QED
  BY <1>1 DEF AddsNothing, NoJob

\* A held-back router whose fault is no news is cautious.
LEMMA HeldBackIsCautious ==
    ASSUME NEW r, NEW q, HeldBack(q), r.bus.faulted => q.bus.faulted
    PROVE  Cautious(r, q)
BY DEF HeldBack, Cautious

LEMMA CautiousComposes ==
    ASSUME NEW r \in Router, NEW p \in Router, NEW q \in Router,
           p.jobs = r.jobs, Cautious(r, p), Cautious(p, q)
    PROVE  Cautious(r, q)
<1>1. Loses(r, q) => Loses(p, q)
  BY DEF Loses
<1> QED
  BY <1>1 DEF Cautious, HeldBack

\* What a poll for work does: it claims a job, motion only where nothing holds
\* it back, or it is cautious.
Starts(r, q) ==
    /\ q.bus.token = r.bus.token + 1 /\ q.bus.active
    /\ ~r.bus.active /\ ~q.bus.faulted
    /\ r.bus.faulted = q.bus.faulted /\ q.bus.stop_pending = r.bus.stop_pending
    /\ q.inhibited = r.inhibited /\ q.receipt = r.receipt
    /\ q.bus.owner # STOP => ~r.bus.stop_pending /\ ~r.inhibited

\* What it claims is a queued job that can still be done by its deadline.
Takes(r, q, now) ==
    LET job == r.jobs[q.bus.owner]
    IN  /\ job.pending /\ ~Expired(job, now)
        /\ q.sending = job.packet
        /\ q.bus.started = now /\ q.bus.budget = job.budget
        /\ ~q.jobs[q.bus.owner].pending

\* It passes over nothing that fits.
Fits(r, k, now, available) ==
    LET p == Polled(r, now)
    IN  /\ k \in Eligible(p) /\ ~Expired(p.jobs[k], now)
        /\ MayAcquire(p.bus, k, p.jobs[k].budget, available)

\* A queued job whose turn has come and that is found too late for it.
Overdue(r, k, now) ==
    r.jobs[k].pending /\ (r.inhibited => k = STOP) /\ Expired(r.jobs[k], now)

\* It goes by the turns, and an expired job has its turn like any other.
TakesFirst(r, q, now, available) ==
    /\ q.cursor = NextCursor(q.bus.owner)
    /\ \A k \in Work : Fits(r, k, now, available) \/ Overdue(r, k, now) =>
                         Rank(r, q.bus.owner) <= Rank(r, k)

\* A poll that hands out nothing has found nothing too late, or it stops the
\* motion, or waits for a transaction within its budget.
FindsNothing(r, q, now) ==
    /\ q.bus.active /\ ~q.bus.faulted => ~(Elapsed(now, q.bus.started) >= q.bus.budget)
    /\ \/ q.inhibited \/ q.bus.faulted \/ q.bus.active
       \/ \A k \in Work : ~Overdue(r, k, now)

LEMMA DispatchedEffect ==
    ASSUME NEW r \in Router, NEW now \in Tick, NEW available
    PROVE  LET q == Dispatched(r, now, available)
           IN  /\ q \in Router /\ AddsNothing(r, q)
               /\ \/ Starts(r, q) /\ Takes(r, q, now) /\ TakesFirst(r, q, now, available)
                  \/ SameTransaction(r, q) /\ Cautious(r, q) /\ FindsNothing(r, q, now)
<1> DEFINE p == Polled(r, now)
           expired == {k \in Eligible(p) : Expired(p.jobs[k], now)}
           fits == {k \in Eligible(p) \ expired :
                      MayAcquire(p.bus, k, p.jobs[k].budget, available)}
           first == FirstOf(p, fits \cup expired)
           spent == [p EXCEPT !.bus = Faulted(@)]
           q == Dispatched(r, now, available)
<1>1. /\ p \in Router /\ p.jobs = r.jobs /\ p.inhibited = r.inhibited
      /\ p.receipt = r.receipt /\ p.cursor = r.cursor
      /\ p.bus = r.bus \/ (p.bus = Faulted(r.bus))
      /\ SameTransaction(r, p) /\ Cautious(r, p)
      /\ p.bus.active /\ ~p.bus.faulted => ~(Elapsed(now, p.bus.started) >= p.bus.budget)
  BY PolledEffect, PolledCautious
<1>2. fits \subseteq Work /\ expired \subseteq Work
  BY DEF Eligible
<1>3. q = IF p.bus.active \/ p.bus.faulted \/ fits \cup expired = {} THEN p
          ELSE IF first \in expired THEN Expire(p, first)
          ELSE IF p.bus.token < MaxToken THEN Claim(p, first, now)
          ELSE IF expired # {} THEN Expire(spent, FirstOf(p, expired))
          ELSE spent
  BY DEF Dispatched
<1>4. fits \cup expired # {} =>
        /\ first \in fits \cup expired
        /\ \A k \in fits \cup expired : Rank(p, first) <= Rank(p, k)
  BY <1>1, <1>2, FirstIsOne
<1>5. expired # {} => FirstOf(p, expired) \in expired
  BY <1>1, <1>2, FirstIsOne
<1>6. /\ spent \in Router /\ spent.jobs = p.jobs
      /\ SameTransaction(p, spent) /\ Cautious(p, spent) /\ spent.bus.faulted
  <2>1. /\ p.bus \in Bus /\ Faulted(p.bus) \in Bus
        /\ Faulted(p.bus).faulted /\ Faulted(p.bus).stop_pending
        /\ Faulted(p.bus).token = p.bus.token /\ Faulted(p.bus).owner = p.bus.owner
        /\ Faulted(p.bus).active = p.bus.active
        /\ Faulted(p.bus).started = p.bus.started /\ Faulted(p.bus).budget = p.bus.budget
    BY <1>1, RouterTypes, PollEffect
  <2>2. /\ spent \in Router /\ spent.jobs = p.jobs /\ spent.bus = Faulted(p.bus)
        /\ spent.sending = p.sending /\ spent.receipt = p.receipt
        /\ spent.inhibited = p.inhibited /\ spent.cursor = p.cursor
    BY <1>1, <2>1 DEF Router
  <2> HIDE DEF spent
  <2> QED
    BY <2>1, <2>2 DEF SameTransaction, Cautious, Loses
<1>7. first \in fits => /\ p.jobs[first].pending /\ ~Expired(p.jobs[first], now)
                        /\ first # STOP => ~p.bus.stop_pending /\ ~p.inhibited
  <2> HIDE DEF first
  <2> QED
    BY Zenon DEF Eligible, MayAcquire
<1>12. \A k \in Work : Fits(r, k, now, available) => k \in fits
  BY Zenon DEF Fits
<1>13. \A k \in Work : Overdue(r, k, now) => k \in expired
  BY <1>1, Zenon DEF Overdue, Eligible
<1> HIDE DEF p, expired, fits, first, spent, q
<1>8. CASE p.bus.active \/ p.bus.faulted \/ fits \cup expired = {}
  <2>1. q = p /\ AddsNothing(r, p)
    BY <1>1, <1>3, <1>8 DEF AddsNothing
  <2>2. FindsNothing(r, p, now)
    BY <1>1, <1>8, <1>13 DEF FindsNothing
  <2> QED
    BY <1>1, <2>1, <2>2 DEF q
<1>9. ASSUME ~(p.bus.active \/ p.bus.faulted \/ fits \cup expired = {}), first \in expired
      PROVE  /\ q \in Router /\ AddsNothing(r, q)
             /\ SameTransaction(r, q) /\ Cautious(r, q) /\ FindsNothing(r, q, now)
  <2>1. q = Expire(p, first) /\ first \in Work
    BY <1>2, <1>3, <1>9
  <2>2. /\ q \in Router /\ q.bus.faulted = p.bus.faulted
        /\ SameTransaction(p, q) /\ HeldBack(q)
        /\ q.jobs = [p.jobs EXCEPT ![first] = NoJob]
    BY <1>1, <2>1, ExpireEffect
  <2>3. Cautious(r, q)
    BY <1>1, <2>2, HeldBackIsCautious DEF Cautious
  <2>5. FindsNothing(r, q, now)
    BY <1>9, <2>2 DEF HeldBack, FindsNothing, SameTransaction
  <2>4. AddsNothing(r, q)
    BY <1>1, <2>1, <2>2, EmptiedAddsNothing
  <2> QED
    BY <1>1, <2>2, <2>3, <2>4, <2>5 DEF SameTransaction
<1>10. ASSUME ~(p.bus.active \/ p.bus.faulted \/ fits \cup expired = {}), first \notin expired,
              p.bus.token < MaxToken
       PROVE  /\ q \in Router /\ AddsNothing(r, q) /\ Starts(r, q) /\ Takes(r, q, now)
              /\ TakesFirst(r, q, now, available)
  <2>1. q = Claim(p, first, now) /\ first \in fits /\ first \in Work
    BY <1>2, <1>3, <1>4, <1>10
  <2>2. /\ p.jobs[first].pending /\ ~Expired(p.jobs[first], now)
        /\ first # STOP => ~p.bus.stop_pending /\ ~p.inhibited
    BY <1>7, <2>1
  <2>3. /\ q \in Router
        /\ q.bus.token = p.bus.token + 1 /\ q.bus.active /\ q.bus.owner = first
        /\ q.bus.faulted = p.bus.faulted /\ q.bus.stop_pending = p.bus.stop_pending
        /\ q.inhibited = p.inhibited /\ q.receipt = p.receipt
        /\ q.bus.started = now /\ q.bus.budget = p.jobs[first].budget
        /\ q.sending = p.jobs[first].packet /\ q.cursor = NextCursor(first)
        /\ q.jobs = [p.jobs EXCEPT ![first] = NoJob]
    BY <1>1, <1>10, <2>1, <2>2, ClaimEffect
  <2>4. p.bus = r.bus
    BY <1>1, <1>10, RouterTypes, PollEffect
  <2>5. Starts(r, q)
    BY <1>1, <1>10, <2>2, <2>3, <2>4 DEF Starts
  <2>6. Takes(r, q, now)
    BY <1>1, <2>1, <2>2, <2>3, RouterTypes DEF Takes, NoJob
  <2>7. AddsNothing(r, q)
    BY <1>1, <2>1, <2>3, EmptiedAddsNothing
  <2>8. \A k \in fits \cup expired : Rank(r, first) <= Rank(r, k)
    BY <1>1, <1>4, <1>10 DEF Rank
  <2>9. TakesFirst(r, q, now, available)
    BY <1>12, <1>13, <2>3, <2>8 DEF TakesFirst
  <2> QED
    BY <2>3, <2>5, <2>6, <2>7, <2>9
<1>11. ASSUME ~(p.bus.active \/ p.bus.faulted \/ fits \cup expired = {}), first \notin expired,
              ~(p.bus.token < MaxToken)
       PROVE  /\ q \in Router /\ AddsNothing(r, q)
              /\ SameTransaction(r, q) /\ Cautious(r, q) /\ FindsNothing(r, q, now)
  <2>1. CASE expired # {}
    <3> DEFINE k == FirstOf(p, expired)
    <3>1. q = Expire(spent, k) /\ k \in Work
      BY <1>2, <1>3, <1>5, <1>11, <2>1
    <3> HIDE DEF k
    <3>2. /\ q \in Router /\ q.bus.faulted = spent.bus.faulted
          /\ SameTransaction(spent, q) /\ HeldBack(q)
          /\ q.jobs = [spent.jobs EXCEPT ![k] = NoJob]
      BY <1>6, <3>1, ExpireEffect
    <3>3. Cautious(r, q)
      BY <1>6, <3>2, HeldBackIsCautious
    <3>4. AddsNothing(r, q)
      BY <1>1, <1>6, <3>1, <3>2, EmptiedAddsNothing
    <3> QED
      BY <1>1, <1>6, <3>2, <3>3, <3>4 DEF SameTransaction, FindsNothing
  <2>2. CASE expired = {}
    <3>1. q = spent
      BY <1>3, <1>11, <2>2
    <3>2. Cautious(r, q)
      BY <1>1, <1>6, <3>1, CautiousComposes
    <3>3. AddsNothing(r, q)
      BY <1>1, <1>6, <3>1 DEF AddsNothing
    <3> QED
      BY <1>1, <1>6, <3>1, <3>2, <3>3 DEF SameTransaction, FindsNothing
  <2> QED
    BY <2>1, <2>2
<1> QED
  BY <1>8, <1>9, <1>10, <1>11 DEF q

\* What the end of a transaction does: the receipt becomes what was sent, and a
\* stop that went out whole is no longer pending.
EndsWhole(r, q) ==
    /\ r.bus.active /\ ~r.bus.faulted /\ ~q.bus.active /\ ~q.bus.faulted
    /\ q.bus.token = r.bus.token /\ q.bus.owner = r.bus.owner /\ q.sending = r.sending
    /\ q.inhibited = r.inhibited /\ q.jobs = r.jobs /\ q.cursor = r.cursor
    /\ q.receipt = InFlight(r)
    /\ r.bus.owner # STOP => q.bus.stop_pending = r.bus.stop_pending

\* A report acknowledges the current transaction, or it is cautious; that of
\* its failure breaks the bus.
LEMMA RouterCompletedEffect ==
    ASSUME NEW r \in Router, NEW token, NEW now, NEW ok \in BOOLEAN
    PROVE  LET q == RouterCompleted(r, token, now, ok)
           IN  /\ q \in Router /\ q.jobs = r.jobs
               /\ \/ ok /\ token = r.bus.token /\ EndsWhole(r, q)
                  \/ SameTransaction(r, q) /\ Cautious(r, q)
               /\ r.bus.active /\ token = r.bus.token => q.bus.faulted \/ EndsWhole(r, q)
               /\ ~ok /\ r.bus.active /\ token = r.bus.token =>
                    q.bus.faulted /\ SameTransaction(r, q) /\ Cautious(r, q)
               /\ EndsWhole(r, q) => ~(Elapsed(now, r.bus.started) >= r.bus.budget)
<1> DEFINE p == Polled(r, now)
           done == [p EXCEPT !.bus = Completed(@, ok)]
           receipt == [token |-> token, kind |-> p.bus.owner, packet |-> p.sending]
           q == RouterCompleted(r, token, now, ok)
<1>1. /\ p \in Router /\ p.jobs = r.jobs /\ p.inhibited = r.inhibited
      /\ p.sending = r.sending /\ p.receipt = r.receipt /\ p.cursor = r.cursor
      /\ p.bus = r.bus \/ (p.bus = Faulted(r.bus))
      /\ SameTransaction(r, p) /\ Cautious(r, p)
      /\ p.bus.active /\ ~p.bus.faulted => ~(Elapsed(now, p.bus.started) >= p.bus.budget)
  BY PolledEffect, PolledCautious
<1>2. q = IF ~MayComplete(p.bus, token) THEN p
          ELSE IF ~ok THEN done
          ELSE [done EXCEPT !.receipt = receipt]
  BY DEF RouterCompleted
<1>3. /\ Faulted(p.bus) \in Bus
      /\ Faulted(p.bus).faulted /\ Faulted(p.bus).stop_pending
      /\ Faulted(p.bus).token = p.bus.token /\ Faulted(p.bus).owner = p.bus.owner
      /\ Faulted(p.bus).active = p.bus.active
      /\ Faulted(p.bus).started = p.bus.started /\ Faulted(p.bus).budget = p.bus.budget
  BY <1>1, RouterTypes, PollEffect
<1> HIDE DEF p, q
<1>4. CASE ~MayComplete(p.bus, token)
  <2>1. r.bus.active /\ token = r.bus.token => p.bus.faulted
    BY <1>1, <1>4 DEF MayComplete, SameTransaction
  <2>2. ~EndsWhole(r, p)
    BY <1>1 DEF EndsWhole, SameTransaction
  <2> QED
    BY <1>1, <1>2, <1>4, <2>1, <2>2 DEF q
<1>5. CASE MayComplete(p.bus, token) /\ ~ok
  <2>1. q = [p EXCEPT !.bus = Faulted(p.bus)]
    BY <1>2, <1>5 DEF Completed
  <2>2. /\ q \in Router /\ q.jobs = p.jobs /\ q.bus = Faulted(p.bus)
        /\ q.sending = p.sending /\ q.receipt = p.receipt /\ q.inhibited = p.inhibited
        /\ q.cursor = p.cursor
    BY <1>1, <1>3, <2>1 DEF Router
  <2>3. SameTransaction(r, q)
    BY <1>1, <1>3, <2>2 DEF SameTransaction
  <2>4. ~Loses(r, q)
    BY <1>1, <2>2 DEF Loses
  <2>5. Cautious(r, q)
    BY <1>1, <1>3, <2>2, <2>4 DEF Cautious
  <2>6. ~EndsWhole(r, q)
    BY <2>3 DEF EndsWhole, SameTransaction
  <2> QED
    BY <1>1, <1>3, <1>5, <2>2, <2>3, <2>5, <2>6 DEF q
<1>6. CASE MayComplete(p.bus, token) /\ ok
  <2> DEFINE b == Completed(p.bus, ok)
  <2>1. p.bus \in Bus /\ p.bus.active /\ ~p.bus.faulted /\ token = p.bus.token
    BY <1>1, <1>6, RouterTypes DEF MayComplete
  <2>2. p.bus = r.bus
    BY <1>1, <2>1, RouterTypes, PollEffect
  <2>3. b = [p.bus EXCEPT !.active = FALSE, !.stop_pending = @ /\ p.bus.owner # STOP]
    BY <1>6 DEF Completed
  <2> HIDE DEF b
  <2>4. /\ b \in Bus /\ ~b.active /\ ~b.faulted
        /\ b.token = p.bus.token /\ b.owner = p.bus.owner
        /\ p.bus.owner # STOP => b.stop_pending = p.bus.stop_pending
    BY <2>1, <2>3 DEF Bus
  <2>5. receipt \in Receipt /\ receipt = InFlight(r)
    <3>1. p.bus.token \in 0 .. MaxToken /\ p.bus.owner \in Work /\ p.sending \in Packet
      BY <1>1, <2>1, RouterTypes, BusTypes
    <3>2. p.bus.token = r.bus.token /\ p.bus.owner = r.bus.owner
      BY <1>1 DEF SameTransaction
    <3> QED
      BY <1>1, <2>1, <3>1, <3>2 DEF Receipt, InFlight
  <2> HIDE DEF receipt
  <2>6. q = [p EXCEPT !.bus = b, !.receipt = receipt]
    BY <1>1, <1>2, <1>6 DEF b, Router
  <2>7. /\ q \in Router /\ q.bus = b /\ q.jobs = p.jobs /\ q.sending = p.sending
        /\ q.receipt = receipt /\ q.inhibited = p.inhibited /\ q.cursor = p.cursor
    BY <1>1, <2>4, <2>5, <2>6 DEF Router
  <2>8. EndsWhole(r, q)
    BY <1>1, <2>1, <2>2, <2>4, <2>5, <2>7 DEF EndsWhole
  <2>9. ~(Elapsed(now, r.bus.started) >= r.bus.budget)
    BY <1>1, <2>1, <2>2
  <2> QED
    BY <1>1, <1>6, <2>1, <2>2, <2>7, <2>8, <2>9 DEF q
<1> QED
  BY <1>4, <1>5, <1>6

\* Recovery frees a faulted bus but leaves the stop to be done.
LEMMA RecoveredEffect ==
    ASSUME NEW b \in Bus, b.faulted => b.stop_pending
    PROVE  LET c == Recovered(b)
           IN  /\ c \in Bus /\ c.token = b.token /\ c.owner = b.owner
               /\ c.active => b.active
               /\ c.faulted => b.faulted
               /\ b.stop_pending => c.stop_pending
               /\ b.faulted => ~c.active \/ c.faulted
<1>1. CASE b.faulted /\ b.token # MaxToken
  <2>1. Recovered(b) = [b EXCEPT !.active = FALSE, !.faulted = FALSE, !.stop_pending = TRUE]
    BY <1>1 DEF Recovered
  <2> QED
    BY <2>1, <1>1 DEF Bus
<1>2. CASE ~(b.faulted /\ b.token # MaxToken)
  <2>1. Recovered(b) = b
    BY <1>2 DEF Recovered
  <2> QED
    BY <2>1
<1> QED
  BY <1>1, <1>2

\* Motion is resumed only once no stop is pending.
LEMMA ResumedEffect ==
    ASSUME NEW r \in Router
    PROVE  LET q == Resumed(r)
           IN  /\ q \in Router /\ q.bus = r.bus /\ q.jobs = r.jobs
               /\ SameTransaction(r, q)
               /\ \/ q.inhibited = r.inhibited
                  \/ /\ ~r.bus.stop_pending /\ ~r.bus.faulted /\ ~r.bus.active
                     /\ ~r.jobs[STOP].pending
<1>1. CASE MayResume(r)
  BY <1>1 DEF Resumed, MayResume, Router, SameTransaction
<1>2. CASE ~MayResume(r)
  BY <1>2 DEF Resumed, SameTransaction
<1> QED
  BY <1>1, <1>2

-----------------------------------------------------------------------------
(***************************************************************************)
(* What a pass of an output does to its router and its UART.               *)
(***************************************************************************)
\* The call leaves the transaction in flight alone and repairs no fault.
Keeps(r, q) == SameTransaction(r, q) /\ (r.bus.faulted => q.bus.faulted)

\* A receipt is older than the transaction in flight.
Ordered(r) ==
    /\ r.receipt.token <= r.bus.token
    /\ r.bus.active => r.receipt.token < r.bus.token

\* The UART is busy exactly with the transaction of its router, until that
\* breaks.
Attached(r, u) ==
    /\ u.phase # "IDLE" => r.bus.active /\ u.packet = r.sending
    /\ r.bus.active /\ ~r.bus.faulted => u.phase # "IDLE"
    /\ Ordered(r)

LEMMA AttachedStays ==
    ASSUME NEW r \in Router, NEW q \in Router, NEW u, Attached(r, u), Keeps(r, q)
    PROVE  Attached(q, u)
BY DEF Attached, Ordered, Keeps, SameTransaction

LEMMA KeepsComposes ==
    ASSUME NEW r \in Router, NEW p \in Router, NEW q \in Router, Keeps(r, p), Keeps(p, q)
    PROVE  Keeps(r, q)
BY DEF Keeps, SameTransaction

LEMMA AddsNothingComposes ==
    ASSUME NEW r \in Router, NEW p \in Router, NEW q \in Router,
           AddsNothing(r, p), AddsNothing(p, q)
    PROVE  AddsNothing(r, q)
BY DEF AddsNothing

LEMMA SweptEffect ==
    ASSUME NEW r \in Router, NEW t \in Tick
    PROVE  LET q == Swept(r, t)
           IN  /\ q \in Router /\ Keeps(r, q) /\ AddsNothing(r, q)
               /\ \A k \in Work : q.jobs[k].pending => ~Expired(q.jobs[k], t)
<1> DEFINE jobs == [k \in Work |-> IF r.jobs[k].pending /\ Expired(r.jobs[k], t)
                                  THEN NoJob ELSE r.jobs[k]]
<1>1. r.jobs \in [Work -> Job] /\ NoJob \in Job /\ NoJob.pending = FALSE
  BY RouterTypes DEF Job, NoJob
<1>2. \A k \in Work :
        \/ jobs[k] = NoJob
        \/ jobs[k] = r.jobs[k] /\ (r.jobs[k].pending => ~Expired(r.jobs[k], t))
  BY Zenon
<1>3. jobs \in [Work -> Job]
  <2>1. \A k \in Work : jobs[k] \in Job
    BY <1>1, <1>2
  <2>2. jobs = [k \in Work |-> jobs[k]]
    BY Zenon
  <2> HIDE DEF jobs
  <2> QED
    BY <2>1, <2>2
<1>4. Swept(r, t) = [r EXCEPT !.jobs = jobs]
  BY DEF Swept
<1> HIDE DEF jobs
<1>5. LET q == Swept(r, t)
      IN  /\ q \in Router /\ q.jobs = jobs /\ q.bus = r.bus /\ q.cursor = r.cursor
          /\ q.sending = r.sending /\ q.receipt = r.receipt
  BY <1>3, <1>4 DEF Router
<1> QED
  BY <1>1, <1>2, <1>5 DEF Keeps, SameTransaction, AddsNothing

LEMMA InhibitKeeps ==
    ASSUME NEW r \in Router
    PROVE  LET q == Inhibit(r)
           IN  q \in Router /\ Keeps(r, q) /\ AddsNothing(r, q)
BY InhibitEffect DEF Keeps, AddsNothing

\* An output that is stopped keeps no motion.
LEMMA OutputStoppedEffect ==
    ASSUME NEW l \in Router, NEW o
    PROVE  LET q == OutputStopped(l, o)
           IN  /\ q \in Router /\ Keeps(l, q) /\ AddsNothing(l, q)
               /\ NoMotionQueued(q)
<1> DEFINE h == IF o.stop_written THEN [l EXCEPT !.inhibited = TRUE] ELSE Inhibit(l)
<1>1. h \in Router /\ Keeps(l, h) /\ AddsNothing(l, h)
  <2>1. LET i == [l EXCEPT !.inhibited = TRUE]
        IN  i \in Router /\ Keeps(l, i) /\ AddsNothing(l, i)
    BY DEF Router, Keeps, SameTransaction, AddsNothing
  <2> QED
    BY <2>1, InhibitKeeps
<1> HIDE DEF h
<1>2. LET q == DropMotion(h)
      IN  /\ q \in Router /\ q.bus = h.bus /\ SameTransaction(h, q)
          /\ NoMotionQueued(q) /\ AddsNothing(h, q)
  BY <1>1, DropMotionEffect
<1>3. OutputStopped(l, o) = DropMotion(h)
  BY DEF OutputStopped, h
<1> QED
  BY <1>1, <1>2, <1>3, AddsNothingComposes DEF Keeps, SameTransaction

\* A pass waits, or it settles what is out, and may launch a queued job.
Pauses(r, phase, pass) == pass.router = r /\ pass.phase = phase /\ ~pass.launched

Settles(r, phase, pass) ==
    /\ ~r.bus.faulted /\ (r.bus.active => phase = "DONE")
    /\ \/ pass.router.receipt = r.receipt
       \/ r.bus.active /\ pass.router.receipt = InFlight(r)

Launches(r, t, pass) ==
    LET q == pass.router
    IN  /\ pass.launched /\ pass.phase = "SENDING"
        /\ q.bus.active /\ q.bus.token = r.bus.token + 1
        /\ q.bus.owner \in Work /\ r.jobs[q.bus.owner].pending
        /\ ~Expired(r.jobs[q.bus.owner], t)
        /\ q.sending = r.jobs[q.bus.owner].packet

Rests(r, pass) ==
    LET q == pass.router
    IN  /\ ~pass.launched /\ pass.phase = "IDLE"
        /\ q.bus.active => q.bus.faulted /\ (r.bus.active \/ r.jobs[q.bus.owner].pending)

LEMMA PassEffect ==
    ASSUME NEW r \in Router, NEW phase \in Phase, NEW t \in Tick, NEW available, NEW outcome,
           phase # "IDLE" => r.bus.active, Ordered(r)
    PROVE  LET pass == Pass(r, phase, t, available, outcome)
               q == pass.router
           IN  /\ q \in Router /\ pass.ok \in BOOLEAN /\ AddsNothing(r, q)
               /\ \/ Pauses(r, phase, pass)
                  \/ Settles(r, phase, pass) /\ Ordered(q) /\ (Launches(r, t, pass) \/ Rests(r, pass))
<1> DEFINE settled == IF r.bus.active THEN RouterCompleted(r, r.bus.token, t, TRUE) ELSE r
           next == Dispatched(settled, t, available)
           failed == RouterCompleted(next, next.bus.token, t, FALSE)
           pass == Pass(r, phase, t, available, outcome)
           stuck == r.bus.faulted \/ phase = "ERROR"
           waiting == outcome = "BUSY" \/ (r.bus.active /\ phase # "DONE")
           result(router, line, ok) ==
             [router |-> router, phase |-> line, launched |-> line = "SENDING" /\ line # phase,
              ok |-> ok]
<1>1. pass = IF stuck THEN result(r, phase, FALSE)
             ELSE IF waiting THEN result(r, phase, TRUE)
             ELSE IF next.bus.token = settled.bus.token THEN result(next, "IDLE", TRUE)
             ELSE IF outcome = "FAILED" THEN result(failed, "IDLE", FALSE)
             ELSE result(next, "SENDING", TRUE)
  BY DEF Pass
<1>2. AddsNothing(r, r)
  BY DEF AddsNothing
<1>3. CASE stuck \/ waiting
  <2>1. pass = result(r, phase, FALSE) \/ pass = result(r, phase, TRUE)
    BY <1>1, <1>3, Zenon
  <2> HIDE DEF pass
  <2>2. pass.router = r /\ pass.phase = phase /\ ~pass.launched /\ pass.ok \in BOOLEAN
    <3> DEFINE launched == phase = "SENDING" /\ phase # phase
    <3>1. ~launched
      OBVIOUS
    <3>2. ASSUME NEW ok \in BOOLEAN,
                 pass = [router |-> r, phase |-> phase, launched |-> launched, ok |-> ok]
          PROVE  pass.router = r /\ pass.phase = phase /\ ~pass.launched /\ pass.ok \in BOOLEAN
      <4> HIDE DEF launched
      <4> QED
        BY <3>1, <3>2
    <3> QED
      BY <2>1, <3>2
  <2> USE DEF pass
  <2> QED
    BY <1>2, <2>2 DEF Pauses
<1>4. CASE ~stuck /\ ~waiting
  <2>1. /\ ~r.bus.faulted /\ (r.bus.active => phase = "DONE")
        /\ phase # "SENDING" /\ phase # "ERROR"
    BY <1>4 DEF Phase
  <2>2. /\ r.bus.token \in Nat
        /\ r.bus.active \in BOOLEAN
    BY RouterTypes, BusTypes
  <2>3. /\ settled \in Router /\ settled.jobs = r.jobs
        /\ settled.bus.token = r.bus.token
        /\ \/ settled.receipt = r.receipt
           \/ r.bus.active /\ settled.receipt = InFlight(r)
        /\ settled.bus.active => settled.bus.faulted /\ settled.receipt = r.receipt
                                   /\ r.bus.active
        /\ settled.receipt.token <= settled.bus.token
    <3>1. CASE ~r.bus.active
      BY <3>1 DEF Ordered
    <3>2. CASE r.bus.active
      <4> DEFINE s == RouterCompleted(r, r.bus.token, t, TRUE)
      <4>1. /\ s \in Router /\ s.jobs = r.jobs
            /\ EndsWhole(r, s) \/ SameTransaction(r, s)
            /\ s.bus.faulted \/ EndsWhole(r, s)
        BY <3>2, RouterCompletedEffect
      <4>2. settled = s
        BY <3>2
      <4> HIDE DEF s, settled
      <4>3. InFlight(r).token = r.bus.token
        BY DEF InFlight
      <4>4. r.receipt.token < r.bus.token /\ r.receipt.token \in Nat
        BY <3>2, RouterTypes DEF Ordered, Receipt
      <4>5. CASE EndsWhole(r, s)
        BY <2>2, <3>2, <4>1, <4>2, <4>3, <4>5 DEF EndsWhole
      <4>6. CASE SameTransaction(r, s) /\ s.bus.faulted
        BY <2>2, <3>2, <4>1, <4>2, <4>4, <4>6 DEF SameTransaction
      <4> QED
        BY <4>1, <4>5, <4>6
    <3> QED
      BY <2>2, <3>1, <3>2
  <2> HIDE DEF settled
  <2>4. /\ next \in Router /\ AddsNothing(settled, next)
        /\ \/ Starts(settled, next) /\ Takes(settled, next, t)
           \/ SameTransaction(settled, next) /\ Cautious(settled, next)
    BY <2>3, DispatchedEffect
  <2> HIDE DEF next
  <2>5. AddsNothing(r, next)
    BY <2>3, <2>4 DEF AddsNothing
  <2>6. settled.bus.token \in Nat /\ settled.receipt.token \in Nat /\ settled.bus.owner \in Work
    BY <2>3, RouterTypes, BusTypes DEF Receipt
  <2>7. CASE SameTransaction(settled, next) /\ Cautious(settled, next)
    <3>0. pass = result(next, "IDLE", TRUE)
      BY <1>1, <1>4, <2>7, Zenon DEF SameTransaction
    <3> HIDE DEF pass
    <3>1. /\ pass.router = next /\ pass.phase = "IDLE" /\ ~pass.launched
          /\ pass.ok \in BOOLEAN
      BY <3>0
    <3>2. next.receipt = settled.receipt /\ next.bus.token = settled.bus.token
          /\ (next.bus.active => next.bus.faulted /\ r.bus.active /\ settled.receipt = r.receipt)
      BY <2>3, <2>7 DEF SameTransaction, Cautious
    <3>3. Settles(r, phase, pass) /\ Rests(r, pass)
      BY <2>1, <2>3, <3>1, <3>2 DEF Settles, Rests
    <3>4. Ordered(next)
      BY <2>3, <3>2 DEF Ordered
    <3> QED
      BY <2>4, <2>5, <3>1, <3>3, <3>4 DEF pass
  <2>8. CASE Starts(settled, next) /\ Takes(settled, next, t)
    <3>1. /\ next.bus.token = r.bus.token + 1 /\ next.bus.active
          /\ next.receipt = settled.receipt
          /\ next.bus.token # settled.bus.token
          /\ r.jobs[next.bus.owner].pending /\ ~Expired(r.jobs[next.bus.owner], t)
          /\ next.sending = r.jobs[next.bus.owner].packet
      BY <2>2, <2>3, <2>6, <2>8 DEF Starts, Takes
    <3>5. next.bus.owner \in Work
      BY <2>4, RouterTypes, BusTypes
    <3>2. Ordered(next)
      BY <2>3, <2>6, <3>1 DEF Ordered
    <3>3. CASE outcome = "FAILED"
      <4>0. pass = result(failed, "IDLE", FALSE)
        BY <1>1, <1>4, <3>1, <3>3, Zenon
      <4> HIDE DEF pass
      <4>1. pass.router = failed /\ pass.phase = "IDLE" /\ ~pass.launched /\ pass.ok \in BOOLEAN
        BY <4>0
      <4>2. /\ failed \in Router /\ failed.jobs = next.jobs
            /\ failed.bus.faulted /\ SameTransaction(next, failed)
        BY <2>4, <3>1, RouterCompletedEffect
      <4> HIDE DEF failed
      <4>3. Settles(r, phase, pass) /\ Rests(r, pass)
        BY <2>1, <2>3, <3>1, <4>1, <4>2 DEF Settles, Rests, SameTransaction
      <4>4. Ordered(failed) /\ AddsNothing(r, failed)
        BY <2>5, <3>2, <4>2 DEF Ordered, SameTransaction, AddsNothing
      <4> QED
        BY <4>1, <4>2, <4>3, <4>4 DEF pass
    <3>4. CASE outcome # "FAILED"
      <4>0. pass = result(next, "SENDING", TRUE)
        BY <1>1, <1>4, <3>1, <3>4, Zenon
      <4> HIDE DEF pass
      <4>1. /\ pass.router = next /\ pass.phase = "SENDING" /\ pass.launched
            /\ pass.ok \in BOOLEAN
        BY <2>1, <4>0
      <4>2. Settles(r, phase, pass) /\ Launches(r, t, pass)
        BY <2>1, <2>3, <3>1, <3>5, <4>1 DEF Settles, Launches
      <4> QED
        BY <2>4, <2>5, <3>2, <4>1, <4>2 DEF pass
    <3> QED
      BY <3>3, <3>4
  <2> QED
    BY <2>4, <2>7, <2>8
<1> QED
  BY <1>3, <1>4
==============================================================================

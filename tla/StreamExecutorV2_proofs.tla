----------------------- MODULE StreamExecutorV2_proofs -----------------------
(***************************************************************************)
(* Proofs about the version 2 stream executor, for every clock, joint set, *)
(* limit, policy and batch the assumptions of the modules allow.           *)
(***************************************************************************)
EXTENDS FedStream, ModularTick_proofs, FiniteSetTheorems, SequenceTheorems

-----------------------------------------------------------------------------
(***************************************************************************)
(* Arithmetic of the clock and of the interpolation.                       *)
(***************************************************************************)
\* The difference of two readings is a reading (uint32_t subtraction).
LEMMA ElapsedInTick ==
    ASSUME NEW a \in Int, NEW b \in Int
    PROVE  Elapsed(a, b) \in Tick
BY TickModulusAssumption DEF Elapsed, Tick

\* So is the sum of a reading and a span.
LEMMA PlusInTick ==
    ASSUME NEW a \in Int, NEW b \in Int
    PROVE  Plus(a, b) \in Tick
BY TickModulusAssumption DEF Plus, Tick

\* Multiplication by a natural number keeps an order.
LEMMA ProductMonotone ==
    ASSUME NEW a \in Int, NEW b \in Int, NEW c \in Nat, a <= b
    PROVE  a * c <= b * c
BY Z3

\* A share e of s of a non-negative distance is no more than the distance.
LEMMA ShareBounds ==
    ASSUME NEW d \in Nat, NEW e \in Nat, NEW s \in Nat \ {0}, e <= s
    PROVE  (d * e) \div s \in 0 .. d
<1> DEFINE q == (d * e) \div s
<1>1. d * e \in Nat
  BY Z3
<1>2. /\ q \in Int
      /\ s * q <= d * e
      /\ d * e < s * (q + 1)
  BY <1>1, Z3
<1>3. e * d <= s * d
  BY ProductMonotone
<1>4. q >= 0
  <2> SUFFICES ASSUME q + 1 <= 0 PROVE FALSE
    BY <1>2
  <2>1. (q + 1) * s <= 0 * s
    BY <1>2, ProductMonotone
  <2> QED
    BY <2>1, <1>1, <1>2, Z3
<1>5. q <= d
  <2> SUFFICES ASSUME d + 1 <= q PROVE FALSE
    BY <1>2
  <2>1. (d + 1) * s <= q * s
    BY <1>2, ProductMonotone
  <2> QED
    BY <2>1, <1>2, <1>3, Z3
<1> QED
  BY <1>2, <1>4, <1>5

\* C's truncated division of a signed share stays between 0 and the distance.
LEMMA SignedShareBounds ==
    ASSUME NEW f \in Int, NEW t \in Int, NEW e \in Nat, NEW s \in Nat \ {0},
           e <= s
    PROVE  /\ CDiv((t - f) * e, s) \in Int
           /\ t >= f => CDiv((t - f) * e, s) \in 0 .. (t - f)
           /\ t < f => CDiv((t - f) * e, s) \in (t - f) .. 0
<1>1. CASE t >= f
  <2>1. t - f \in Nat
    BY <1>1
  <2>2. (t - f) * e >= 0
    BY <2>1, Z3
  <2>3. CDiv((t - f) * e, s) = ((t - f) * e) \div s
    BY <2>2 DEF CDiv
  <2> QED
    BY <1>1, <2>1, <2>3, ShareBounds
<1>2. CASE t < f
  <2> DEFINE d == f - t
  <2>1. d \in Nat
    BY <1>2
  <2>2. /\ d * e \in Nat
        /\ (t - f) * e = -(d * e)
    BY <2>1, Z3
  <2>3. (d * e) \div s \in 0 .. d
    BY <2>1, ShareBounds
  <2>4. CASE d * e = 0
    <3>1. (t - f) * e = 0
      BY <2>2, <2>4
    <3>2. CDiv((t - f) * e, s) = 0 \div s
      BY <3>1 DEF CDiv
    <3>3. 0 \div s = 0
      BY Z3
    <3> QED
      BY <3>2, <3>3, <1>2
  <2>5. CASE d * e # 0
    <3>1. ~((t - f) * e >= 0)
      BY <2>2, <2>5
    <3>2. CDiv((t - f) * e, s) = -((-((t - f) * e)) \div s)
      BY <3>1 DEF CDiv
    <3>3. -((t - f) * e) = d * e
      BY <2>2
    <3>4. CDiv((t - f) * e, s) = -((d * e) \div s)
      BY <3>2, <3>3
    <3> QED
      BY <3>4, <2>3, <1>2
  <2> QED
    BY <2>4, <2>5
<1> QED
  BY <1>1, <1>2

\* The posture a step emits between two setpoints: a posture, and inside the
\* joint limits when both setpoints are.
LEMMA BetweenIsPosition ==
    ASSUME NEW from \in Position, NEW to \in Position,
           NEW e \in Nat, NEW s \in Nat \ {0}, e <= s
    PROVE  /\ Between(from, to, e, s) \in Position
           /\ InsideJointLimits(from) /\ InsideJointLimits(to)
                => InsideJointLimits(Between(from, to, e, s))
<1>1. \A j \in Joint :
        /\ from[j] \in Int /\ to[j] \in Int
        /\ CDiv((to[j] - from[j]) * e, s) \in Int
        /\ to[j] >= from[j] =>
             CDiv((to[j] - from[j]) * e, s) \in 0 .. (to[j] - from[j])
        /\ to[j] < from[j] =>
             CDiv((to[j] - from[j]) * e, s) \in (to[j] - from[j]) .. 0
  BY SignedShareBounds DEF Position
<1>2. Between(from, to, e, s) \in Position
  BY <1>1 DEF Between, Position
<1>3. ASSUME InsideJointLimits(from), InsideJointLimits(to)
      PROVE  InsideJointLimits(Between(from, to, e, s))
  <2>1. \A j \in Joint :
          /\ JointLimit[j].minimum_urad \in Int
          /\ JointLimit[j].maximum_urad \in Int
    BY ExecutorAssumption
  <2>2. \A j \in Joint :
          Between(from, to, e, s)[j] =
            from[j] + CDiv((to[j] - from[j]) * e, s)
    BY DEF Between
  <2>3. ASSUME NEW j \in Joint
        PROVE  Between(from, to, e, s)[j] \in
                 JointLimit[j].minimum_urad .. JointLimit[j].maximum_urad
    <3> DEFINE c == CDiv((to[j] - from[j]) * e, s)
    <3>1. /\ from[j] \in JointLimit[j].minimum_urad .. JointLimit[j].maximum_urad
          /\ to[j] \in JointLimit[j].minimum_urad .. JointLimit[j].maximum_urad
      BY <1>3 DEF InsideJointLimits
    <3>2. /\ c \in Int /\ from[j] \in Int /\ to[j] \in Int
          /\ to[j] >= from[j] => c \in 0 .. (to[j] - from[j])
          /\ to[j] < from[j] => c \in (to[j] - from[j]) .. 0
      BY <1>1
    <3> HIDE DEF c
    <3>3. from[j] + c \in JointLimit[j].minimum_urad .. JointLimit[j].maximum_urad
      BY <3>1, <3>2, <2>1
    <3> QED
      BY <3>3, <2>2 DEF c
  <2> QED
    BY <2>3 DEF InsideJointLimits
<1> QED
  BY <1>2, <1>3

-----------------------------------------------------------------------------
(***************************************************************************)
(* The queue.                                                              *)
(***************************************************************************)
LEMMA IntervalCount ==
    ASSUME NEW n \in Nat
    PROVE  IsFiniteSet(1 .. n) /\ Cardinality(1 .. n) = n
<1>1. /\ IsFiniteSet(1 .. n)
      /\ Cardinality(1 .. n) = IF 1 > n THEN 0 ELSE n - 1 + 1
  BY FS_Interval
<1> QED
  BY <1>1

\* Induction along an interval, for a set of numbers.
LEMMA IntervalInduction ==
    ASSUME NEW n \in Nat, NEW S, n >= 1 => 1 \in S,
           \A k \in 1 .. n - 1 : k \in S => k + 1 \in S
    PROVE  1 .. n \subseteq S
<1> DEFINE K == {m \in 1 .. n : 1 .. m \subseteq S}
           c == Cardinality(K)
<1>1. IsFiniteSet(1 .. n) /\ Cardinality(1 .. n) = n
  BY IntervalCount
<1>2. K \in SUBSET (1 .. n)
  OBVIOUS
<1>3. IsFiniteSet(K) /\ c \in Nat /\ c <= n
  BY <1>1, <1>2, FS_Subset, FS_CardinalityType
\* The longest initial part in S has c elements.
<1>4. 1 .. c \subseteq S
  <2> SUFFICES ASSUME ~(1 .. c \subseteq S) PROVE FALSE
    OBVIOUS
  <2>1. c # 0
    <3> HIDE DEF c
    <3> QED
      OBVIOUS
  <2> DEFINE below == 1 .. (c - 1)
  <2>2. K \in SUBSET below
    <3> SUFFICES ASSUME NEW m \in K PROVE m \in below
      OBVIOUS
    <3>1. m \in 1 .. n /\ 1 .. m \subseteq S
      OBVIOUS
    <3> HIDE DEF c, K
    <3>2. ~(m >= c)
      BY <1>3, <3>1
    <3> QED
      BY <1>3, <3>1, <3>2
  <2>3. IsFiniteSet(below) /\ Cardinality(below) = c - 1
    <3> HIDE DEF c
    <3>1. c - 1 \in Nat
      BY <1>3, <2>1
    <3> QED
      BY <3>1, IntervalCount
  <2>4. c = Cardinality(K)
    OBVIOUS
  <2> HIDE DEF c, below, K
  <2>5. Cardinality(K) <= Cardinality(below)
    BY <2>2, <2>3, FS_Subset
  <2> QED
    BY <1>3, <2>3, <2>4, <2>5
\* It cannot end before n.
<1>5. c = n
  <2> SUFFICES ASSUME c < n PROVE FALSE
    BY <1>3
  <2>1. 1 .. (c + 1) \subseteq S
    <3> HIDE DEF c
    <3>1. c + 1 \in S
      <4>1. CASE c = 0
        BY <4>1
      <4>2. CASE c # 0
        BY <1>3, <1>4, <4>2
      <4> QED
        BY <4>1, <4>2
    <3> QED
      BY <1>3, <1>4, <3>1
  <2> DEFINE above == 1 .. (c + 1)
  <2>2. above \in SUBSET K
    <3> SUFFICES ASSUME NEW m \in above PROVE m \in K
      OBVIOUS
    <3>1. m \in 1 .. n /\ m <= c + 1
      <4> HIDE DEF c
      <4> QED
        BY <1>3
    <3>2. 1 .. m \subseteq S
      <4> HIDE DEF c
      <4> QED
        BY <1>3, <2>1, <3>1
    <3> QED
      BY <3>1, <3>2
  <2>3. Cardinality(above) = c + 1
    <3> HIDE DEF c
    <3>1. c + 1 \in Nat
      BY <1>3
    <3> QED
      BY <3>1, IntervalCount
  <2>4. c = Cardinality(K)
    OBVIOUS
  <2> HIDE DEF c, above, K
  <2>5. Cardinality(above) <= Cardinality(K)
    BY <1>3, <2>2, FS_Subset
  <2> QED
    BY <1>3, <2>3, <2>4, <2>5
<1> HIDE DEF c, K
<1> QED
  BY <1>4, <1>5

\* A batch leaves a prefix of the queue in place: the whole queue under an
\* append, samples that all lie before the splice otherwise.
LEMMA RetainedIsPrefix ==
    ASSUME NEW b \in Batch, queue \in Seq(Setpoint)
    PROVE  \E n \in 0 .. Len(queue) :
             /\ Retained(b) = SubSeq(queue, 1, n)
             /\ b.kind = "APPEND" => n = Len(queue)
             /\ b.kind # "APPEND" =>
                  /\ \A i \in 1 .. n :
                       IsBefore(queue[i].apply_tick, b.splice_at_tick)
                  /\ n = 0 /\ queue # <<>> =>
                       ~IsBefore(queue[1].apply_tick, b.splice_at_tick)
<1>1. CASE b.kind = "APPEND"
  <2>1. Retained(b) = SubSeq(queue, 1, Len(queue))
    BY <1>1, SubSeqFull DEF Retained
  <2> QED
    BY <1>1, <2>1
<1>2. CASE b.kind # "APPEND"
  <2> DEFINE Kept(n) == \A i \in 1 .. n :
                          IsBefore(queue[i].apply_tick, b.splice_at_tick)
             K == {n \in 1 .. Len(queue) : Kept(n)}
             c == Cardinality(K)
  <2>1. Retained(b) = SubSeq(queue, 1, c)
    BY <1>2 DEF Retained
  <2>2. /\ IsFiniteSet(1 .. Len(queue))
        /\ Cardinality(1 .. Len(queue)) = Len(queue)
    <3>1. Len(queue) \in Nat
      OBVIOUS
    <3> QED
      BY <3>1, IntervalCount
  <2>3. /\ c \in Nat
        /\ c <= Len(queue)
    <3>1. K \in SUBSET (1 .. Len(queue))
      OBVIOUS
    <3>2. IsFiniteSet(K) /\ Cardinality(K) <= Cardinality(1 .. Len(queue))
      BY <3>1, <2>2, FS_Subset
    <3> QED
      BY <3>2, <2>2, FS_CardinalityType
  <2>4. Kept(c)
    <3> SUFFICES ASSUME ~Kept(c) PROVE FALSE
      OBVIOUS
    <3>1. K \in SUBSET (1 .. (c - 1))
      <4> SUFFICES ASSUME NEW n \in K PROVE n \in 1 .. (c - 1)
        OBVIOUS
      <4>1. n \in 1 .. Len(queue) /\ Kept(n)
        OBVIOUS
      <4>2. n >= c => Kept(c)
        BY <4>1, <2>3
      <4> QED
        BY <4>1, <4>2, <2>3
    <3>2. c # 0
      <4> HIDE DEF c
      <4> QED
        OBVIOUS
    <3>3. IsFiniteSet(1 .. (c - 1)) /\ Cardinality(1 .. (c - 1)) = c - 1
      <4> HIDE DEF c
      <4>1. c - 1 \in Nat
        BY <2>3, <3>2
      <4> QED
        BY <4>1, IntervalCount
    <3> DEFINE below == 1 .. (c - 1)
    <3>4. K \in SUBSET below /\ IsFiniteSet(below) /\ Cardinality(below) = c - 1
      BY <3>1, <3>3
    <3>5. c = Cardinality(K)
      OBVIOUS
    <3> HIDE DEF c, below, K
    <3>6. Cardinality(K) <= Cardinality(below)
      BY <3>4, FS_Subset
    <3> QED
      BY <3>4, <3>5, <3>6, <2>3
  <2>5. /\ c \in 0 .. Len(queue)
        /\ \A i \in 1 .. c : IsBefore(queue[i].apply_tick, b.splice_at_tick)
    BY <2>2, <2>3, <2>4
  <2>6. ASSUME c = 0, queue # <<>>
        PROVE  ~IsBefore(queue[1].apply_tick, b.splice_at_tick)
    <3>1. K \in SUBSET (1 .. Len(queue))
      OBVIOUS
    <3>2. IsFiniteSet(K)
      BY <3>1, <2>2, FS_Subset
    <3>3. K = {}
      BY <2>6, <3>2, FS_EmptySet
    <3>4. 1 \in 1 .. Len(queue)
      BY <2>6
    <3>5. 1 \notin K
      <4> HIDE DEF K
      <4> QED
        BY <3>3
    <3>6. ~Kept(1)
      BY <3>4, <3>5
    <3> QED
      BY <3>6
  <2> HIDE DEF c
  <2> QED
    BY <1>2, <2>1, <2>5, <2>6
<1> QED
  BY <1>1, <1>2

\* What an admission leaves in the queue: some of its samples, then the batch.
LEMMA AdmittedQueue ==
    ASSUME NEW b \in Batch, NEW tick \in Tick, queue \in Seq(Setpoint),
           Admissible(b, tick), queue' = Retained(b) \o b.samples
    PROVE  \E n \in 0 .. Len(queue) :
             /\ queue' \in Seq(Setpoint)
             /\ Len(queue') = n + Len(b.samples)
             /\ Len(queue') <= QueueCapacity
             /\ \A i \in 1 .. n : queue'[i] = queue[i]
             /\ \A i \in 1 .. Len(b.samples) : queue'[n + i] = b.samples[i]
             /\ b.kind = "APPEND" => n = Len(queue)
             /\ b.kind # "APPEND" =>
                  /\ \A i \in 1 .. n :
                       IsBefore(queue[i].apply_tick, b.splice_at_tick)
                  /\ n = 0 /\ queue # <<>> =>
                       ~IsBefore(queue[1].apply_tick, b.splice_at_tick)
<1>1. PICK n \in 0 .. Len(queue) :
        /\ Retained(b) = SubSeq(queue, 1, n)
        /\ b.kind = "APPEND" => n = Len(queue)
        /\ b.kind # "APPEND" =>
             /\ \A i \in 1 .. n : IsBefore(queue[i].apply_tick, b.splice_at_tick)
             /\ n = 0 /\ queue # <<>> =>
                  ~IsBefore(queue[1].apply_tick, b.splice_at_tick)
  BY RetainedIsPrefix
<1>2. /\ b.samples \in Seq(Setpoint)
      /\ Len(b.samples) \in Nat
      /\ Len(queue) \in Nat
      /\ n \in Nat /\ n <= Len(queue)
  BY <1>1 DEF Batch
<1>3. /\ Retained(b) \in Seq(Setpoint)
      /\ Len(Retained(b)) = n
      /\ \A i \in 1 .. n : Retained(b)[i] = queue[i]
  <2>1. /\ SubSeq(queue, 1, n) \in Seq(Setpoint)
        /\ Len(SubSeq(queue, 1, n)) = n
        /\ \A i \in 1 .. n : SubSeq(queue, 1, n)[i] = queue[i]
    BY <1>2
  <2> QED
    BY <1>1, <2>1
<1>4. /\ queue' \in Seq(Setpoint)
      /\ Len(queue') = n + Len(b.samples)
      /\ \A i \in 1 .. n : queue'[i] = queue[i]
      /\ \A i \in 1 .. Len(b.samples) : queue'[n + i] = b.samples[i]
  <2> DEFINE kept == Retained(b)
             more == b.samples
  <2>1. /\ queue' = kept \o more
        /\ kept \in Seq(Setpoint) /\ Len(kept) = n /\ n \in Nat
        /\ more \in Seq(Setpoint) /\ Len(more) \in Nat
        /\ \A i \in 1 .. n : kept[i] = queue[i]
    BY <1>2, <1>3
  <2> HIDE DEF kept, more
  <2>2. /\ kept \o more \in Seq(Setpoint) /\ Len(kept \o more) = Len(kept) + Len(more)
        /\ \A i \in 1 .. Len(kept) + Len(more) :
             (kept \o more)[i] = IF i <= Len(kept) THEN kept[i] ELSE more[i - Len(kept)]
    BY <2>1, ConcatProperties
  <2>3. /\ queue' \in Seq(Setpoint) /\ Len(queue') = n + Len(more)
        /\ \A i \in 1 .. n + Len(more) :
             queue'[i] = IF i <= n THEN kept[i] ELSE more[i - n]
    BY <2>1, <2>2
  <2>4. ASSUME NEW i \in 1 .. n PROVE queue'[i] = queue[i]
    <3>1. i \in 1 .. n + Len(more) /\ i <= n
      BY <2>1
    <3> QED
      BY <3>1, <2>1, <2>3
  <2>5. ASSUME NEW i \in 1 .. Len(more) PROVE queue'[n + i] = more[i]
    <3>1. n + i \in 1 .. n + Len(more) /\ ~(n + i <= n) /\ (n + i) - n = i
      BY <2>1
    <3>2. queue'[n + i] = more[(n + i) - n]
      BY <3>1, <2>3
    <3> QED
      BY <3>1, <3>2
  <2> QED
    BY <2>3, <2>4, <2>5 DEF more
<1>5. Len(queue') <= QueueCapacity
  BY <1>3, <1>4 DEF Admissible
<1> QED
  BY <1>1, <1>4, <1>5

-----------------------------------------------------------------------------
(***************************************************************************)
(* Type correctness.                                                       *)
(***************************************************************************)
\* The ticks a step computes from the queue are readings and spans.
LEMMA DueTickInTick ==
    ASSUME TypeOK, queue # <<>>
    PROVE  /\ DueTick \in Tick
           /\ GridTick(anchor.apply_tick) \in Tick
           /\ Span \in Nat
           /\ \A tick \in Tick : Progress(tick) \in Nat
<1>1. \A t \in Tick : GridTick(t) \in Tick
  <2> SUFFICES ASSUME NEW t \in Tick PROVE GridTick(t) \in Tick
    OBVIOUS
  <2> DEFINE g == (Elapsed(t, controlEpoch) + ControlTickMs - 1) % TickModulus
  <2>1. t \in Int /\ controlEpoch \in Int /\ ControlTickMs \in Nat \ {0}
    BY ContractAssumption, TickModulusAssumption DEF TypeOK, Tick
  <2>2. Elapsed(t, controlEpoch) \in Int
    BY <2>1, ElapsedInTick, TickModulusAssumption DEF Tick
  <2>3. g \in Int
    BY <2>1, <2>2, TickModulusAssumption
  <2>4. (g \div ControlTickMs) * ControlTickMs \in Int
    <3> HIDE DEF g
    <3> QED
      BY <2>1, <2>3, Z3
  <2> HIDE DEF g
  <2> QED
    BY <2>1, <2>4, PlusInTick DEF GridTick, g
<1>2. queue[1] \in Setpoint /\ anchor \in Setpoint
  BY DEF TypeOK
<1>3. DueTick \in Tick /\ GridTick(anchor.apply_tick) \in Tick
  BY <1>1, <1>2 DEF DueTick, Setpoint
<1>4. \A a, b \in Tick : Elapsed(a, b) \in Nat
  BY ElapsedInTick, TickModulusAssumption DEF Tick
<1> QED
  BY <1>3, <1>4 DEF Span, Progress

LEMMA TypeInit == Init => TypeOK
<1> SUFFICES ASSUME Init PROVE TypeOK
  OBVIOUS
<1>1. NoTick \in Tick /\ 0 \in Tick
  BY TickModulusAssumption DEF NoTick, Tick
<1>2. ZeroPosition \in Position
  BY DEF ZeroPosition, Position
<1>3. ZeroPolicy \in Policy
  BY <1>1, <1>2 DEF ZeroPolicy, Policy, Position
<1>4. [apply_tick |-> 0, position_urad |-> ZeroPosition] \in Setpoint
  BY <1>1, <1>2 DEF Setpoint
<1>5. /\ policy \in Policy /\ anchor \in Setpoint /\ output \in Position
      /\ queue \in Seq(Setpoint) /\ horizon \in Tick /\ now \in Tick
      /\ {controlEpoch, lastStep, lastCommand} \subseteq Tick
  BY <1>1, <1>2, <1>3, <1>4 DEF Init
<1>6. /\ state = "CLOSED" /\ reason = "NONE" /\ safeStop = FALSE
      /\ epoch = NoEpoch /\ outputValid = FALSE
      /\ {accepted, applied, splices} \subseteq Nat
  BY DEF Init
<1> QED
  BY <1>5, <1>6 DEF TypeOK, Reason

LEMMA TypeStep == TypeOK /\ [Next]_vars => TypeOK'
<1> SUFFICES ASSUME TypeOK, [Next]_vars PROVE TypeOK'
  OBVIOUS
<1>0. now \in Tick /\ now \in Int
  BY TickModulusAssumption DEF TypeOK, Tick
<1>1. CASE Advance
  <2>1. now' \in Tick
    BY <1>0, <1>1, PlusInTick DEF Advance
  <2> QED
    BY <2>1, <1>1 DEF Advance, TypeOK, ending, session, motion, counters
<1>2. ASSUME NEW p \in OfferedPolicy(now), Open(p, now) PROVE TypeOK'
  <2>1. p \in Policy
    BY <1>0, ExecutorAssumption
  <2>2. 0 \in Tick /\ ZeroPosition \in Position
    BY TickModulusAssumption DEF Tick, ZeroPosition, Position
  <2>3. p.horizon_end_tick \in Tick
    BY <2>1 DEF Policy
  <2>4. /\ policy' \in Policy /\ horizon' \in Tick /\ anchor' \in Setpoint
        /\ queue' \in Seq(Setpoint) /\ lastCommand' \in Tick
    BY <1>2, <2>1, <2>2, <2>3 DEF Open, Setpoint
  <2>5. /\ state' = "PRIMING" /\ reason' = "NONE"
        /\ epoch' = NoEpoch
        /\ accepted' = 0 /\ applied' = 0 /\ splices' = 0
    BY <1>2 DEF Open
  <2>6. safeStop' \in BOOLEAN /\ outputValid' \in BOOLEAN
    BY <1>2 DEF Open
  <2>7. /\ now' \in Tick /\ controlEpoch' \in Tick /\ lastStep' \in Tick
        /\ output' \in Position
    BY <1>2 DEF Open, TypeOK
  <2> QED
    BY <2>4, <2>5, <2>6, <2>7 DEF TypeOK, Reason
<1>3. ASSUME NEW b \in OfferedBatch(now), Admit(b, now) PROVE TypeOK'
  <2>1. b \in Batch
    BY <1>0, ExecutorAssumption
  <2>2. queue' \in Seq(Setpoint)
    BY <1>0, <1>3, <2>1, AdmittedQueue DEF Admit, TypeOK
  <2>3. /\ Len(b.samples) \in Nat
        /\ b.arbiter_epoch \in Epoch
        /\ b.horizon_end_tick \in Tick
    BY <2>1 DEF Batch
  <2>4. /\ now' \in Tick /\ horizon' \in Tick /\ lastCommand' \in Tick
        /\ epoch' \in Epoch \cup {NoEpoch} /\ policy' \in Policy
    BY <1>0, <1>3, <2>3 DEF Admit, TypeOK
  <2>5. accepted' \in Nat /\ applied' \in Nat /\ splices' \in Nat
    BY <1>3, <2>3 DEF Admit, TypeOK
  <2>6. ending' = ending /\ motion' = motion
    BY <1>3 DEF Admit, ending, motion
  <2>7. /\ state' = state /\ reason' = reason /\ safeStop' = safeStop
        /\ anchor' = anchor /\ controlEpoch' = controlEpoch
        /\ output' = output /\ outputValid' = outputValid /\ lastStep' = lastStep
    BY <1>3, <2>6 DEF Admit, ending, motion
  <2> QED
    BY <1>0, <2>2, <2>4, <2>5, <2>7 DEF TypeOK
<1>4. ASSUME NEW pos \in AnchorPosition, Start(now, pos) PROVE TypeOK'
  <2>1. pos \in Position
    BY ExecutorAssumption
  <2> QED
    BY <1>0, <1>4, <2>1 DEF Start, TypeOK, session, counters, Setpoint
<1>5. CASE Refuse(now)
  BY <1>5 DEF Refuse, vars, ending, session, motion, counters, TypeOK
<1>6. CASE Step(now)
  <2>1. CASE StepTimelineBroken(now)
    BY <2>1 DEF StepTimelineBroken, Terminate, TypeOK, Reason, session, motion,
                counters
  <2>2. CASE StepCommandTimeout(now)
    BY <1>0, <2>2 DEF StepCommandTimeout, StepBegins, Terminate, Emit, TypeOK,
                      Setpoint, Reason, session, counters
  <2>3. CASE StepUnderflow(now)
    BY <1>0, <2>3 DEF StepUnderflow, StepBegins, Terminate, TypeOK, Reason,
                      session, motion, counters
  <2>4. CASE StepHold(now)
    BY <1>0, <2>4 DEF StepHold, StepBegins, Emit, TypeOK, Setpoint, ending,
                      session, counters
  <2>5. CASE StepMissed(now)
    BY <1>0, <2>5 DEF StepMissed, StepHasSample, StepBegins, Terminate, TypeOK,
                      Reason, session, motion, counters
  <2>6. CASE StepApply(now)
    <3>1. /\ queue # <<>> /\ queue[1] \in Setpoint
          /\ WithoutFirst \in Seq(Setpoint)
      BY <2>6 DEF StepApply, StepHasSample, TypeOK, WithoutFirst
    <3>2. {state', reason', safeStop'} = {state', reason', safeStop'}
          /\ state' \in {"RUNNING", "SUCCEEDED"}
          /\ reason' \in Reason /\ safeStop' \in BOOLEAN
      BY <2>6 DEF StepApply, StepHasSample, StepBegins, Terminate, TypeOK,
                  Reason, ending
    <3> QED
      BY <1>0, <2>6, <3>1, <3>2 DEF StepApply, StepHasSample, StepBegins, Emit,
                                    TypeOK, Setpoint
  <2>7. CASE StepInterpolate(now)
    <3>1. /\ queue # <<>> /\ queue[1] \in Setpoint /\ ~SpanBroken(now)
      BY <2>7 DEF StepInterpolate, StepHasSample, TypeOK
    <3>2. /\ Span \in Nat \ {0} /\ Progress(now) \in Nat
          /\ Progress(now) <= Span
      BY <1>0, <3>1, DueTickInTick DEF SpanBroken
    <3>3. Between(anchor.position_urad, queue[1].position_urad,
                  Progress(now), Span) \in Position
      BY <3>1, <3>2, BetweenIsPosition DEF TypeOK, Setpoint
    <3> QED
      BY <1>0, <2>7, <3>3 DEF StepInterpolate, StepHasSample, StepBegins, Emit,
                              TypeOK, ending, session, counters
  <2>8. CASE StepSpanBroken(now)
    BY <1>0, <2>8 DEF StepSpanBroken, StepHasSample, StepBegins, Terminate,
                      TypeOK, Reason, session, motion, counters
  <2> QED
    BY <1>6, <2>1, <2>2, <2>3, <2>4, <2>5, <2>6, <2>7, <2>8 DEF Step
<1>7. CASE TrackingFault
  BY <1>7 DEF TrackingFault, Terminate, TypeOK, Reason, session, motion, counters
<1>8. CASE UNCHANGED vars
  BY <1>8 DEF vars, ending, session, motion, counters, TypeOK
<1> QED
  BY <1>1, <1>2, <1>3, <1>4, <1>5, <1>6, <1>7, <1>8
     DEF Next, CheckJointFeedback, CheckFeedback

\* Every variable keeps its type, whatever the host sends and the arms report.
THEOREM TypeCorrect == Spec => []TypeOK
<1> QED
  BY TypeInit, TypeStep, PTL DEF Spec

-----------------------------------------------------------------------------
(***************************************************************************)
(* The limits, the queue and its accounting.                               *)
(*                                                                         *)
(* MotionWithinLimits is not inductive: an output is interpolated between  *)
(* the anchor and the head of the queue, so both must be inside the limits *)
(* already, and so must every sample that can become the head.             *)
(***************************************************************************)
PlanWithinLimits ==
    /\ \A i \in 1 .. Len(queue) : InsideJointLimits(queue[i].position_urad)
    /\ state = "RUNNING" => InsideJointLimits(anchor.position_urad)

IInv ==
    /\ TypeOK
    /\ PlanWithinLimits
    /\ MotionWithinLimits
    /\ QueueInOrder
    /\ SampleAccounting
    /\ StreamKindStable

\* positions_within_limits judges what the outputs are judged by.
LEMMA WithinIsInside ==
    ASSUME NEW pos \in Position
    PROVE  WithinLimits(pos) => InsideJointLimits(pos)
BY ExecutorAssumption DEF WithinLimits, InsideJointLimits, Position

\* Consuming the first sample shifts the rest forward.
LEMMA ConsumedQueue ==
    ASSUME queue \in Seq(Setpoint), queue # <<>>
    PROVE  /\ Len(WithoutFirst) = Len(queue) - 1
           /\ \A i \in 1 .. Len(WithoutFirst) : WithoutFirst[i] = queue[i + 1]
BY DEF WithoutFirst

LEMMA InvariantInit == Init => IInv
<1> SUFFICES ASSUME Init PROVE IInv
  OBVIOUS
<1>1. TypeOK
  BY TypeInit
<1>2. Len(queue) = 0 /\ ~outputValid /\ state = "CLOSED"
  BY DEF Init
<1>3. QueueInOrder
  BY <1>2, ContractAssumption DEF QueueInOrder
<1>4. SampleAccounting
  BY <1>2 DEF Init, SampleAccounting
<1> QED
  BY <1>1, <1>2, <1>3, <1>4
     DEF IInv, PlanWithinLimits, MotionWithinLimits, StreamKindStable

\* An admission keeps the queue inside the limits, in order and accounted for.
LEMMA InvariantAdmit ==
    ASSUME IInv, NEW b \in Batch, NEW tick \in Tick, Admit(b, tick), TypeOK'
    PROVE  IInv'
<1>1. PICK n \in 0 .. Len(queue) :
        /\ queue' \in Seq(Setpoint)
        /\ Len(queue') = n + Len(b.samples)
        /\ Len(queue') <= QueueCapacity
        /\ \A i \in 1 .. n : queue'[i] = queue[i]
        /\ \A i \in 1 .. Len(b.samples) : queue'[n + i] = b.samples[i]
        /\ b.kind = "APPEND" => n = Len(queue)
        /\ b.kind # "APPEND" =>
             \A i \in 1 .. n : IsBefore(queue[i].apply_tick, b.splice_at_tick)
  BY AdmittedQueue DEF Admit, IInv, TypeOK
<1>2. /\ b.samples \in Seq(Setpoint) /\ Len(b.samples) \in Nat
      /\ Len(b.samples) >= 1
      /\ Len(queue) \in Nat /\ n \in Nat /\ n <= Len(queue)
  BY <1>1 DEF Batch, IInv, TypeOK, Admit, Admissible, Decodes
<1>3. PlanWithinLimits'
  <2>1. ASSUME NEW i \in 1 .. Len(queue')
        PROVE  InsideJointLimits(queue'[i].position_urad)
    <3>1. CASE i <= n
      BY <1>1, <1>2, <3>1 DEF IInv, PlanWithinLimits
    <3>2. CASE i > n
      <4> DEFINE k == i - n
      <4>1. k \in 1 .. Len(b.samples) /\ i = n + k
        BY <1>1, <1>2, <3>2
      <4>2. queue'[i] = b.samples[k] /\ b.samples[k] \in Setpoint
        BY <1>1, <1>2, <4>1
      <4>3. WithinLimits(b.samples[k].position_urad)
        BY <4>1 DEF Admit, Admissible, SamplesWithinLimits
      <4> QED
        BY <4>2, <4>3, WithinIsInside DEF Setpoint
    <3> QED
      BY <1>1, <1>2, <3>1, <3>2
  <2> QED
    BY <2>1 DEF PlanWithinLimits, InsideJointLimits, IInv, Admit, ending, motion
<1>4. MotionWithinLimits'
  BY DEF IInv, MotionWithinLimits, InsideJointLimits, Admit, motion
<1>5. QueueInOrder'
  <2>1. ASSUME NEW i \in 1 .. Len(queue') - 1
        PROVE  IsAfter(queue'[i + 1].apply_tick, queue'[i].apply_tick)
    <3>1. CASE i + 1 <= n
      <4>1. queue'[i] = queue[i] /\ queue'[i + 1] = queue[i + 1]
        BY <1>1, <1>2, <3>1
      <4>2. i \in 1 .. Len(queue) - 1
        BY <1>2, <3>1
      <4> QED
        BY <4>1, <4>2 DEF IInv, QueueInOrder
    <3>2. CASE i > n
      <4>1. i - n \in 1 .. Len(b.samples) - 1
        BY <1>1, <1>2, <3>2
      <4>2. PICK k \in 1 .. Len(b.samples) - 1 : k = i - n
        BY <4>1
      <4>3. /\ i = n + k /\ i + 1 = n + (k + 1)
            /\ k + 1 \in 1 .. Len(b.samples) /\ k \in 1 .. Len(b.samples)
        BY <1>1, <1>2, <4>2
      <4>4. queue'[i] = b.samples[k] /\ queue'[i + 1] = b.samples[k + 1]
        BY <1>1, <4>3
      <4>5. IsAfter(b.samples[k + 1].apply_tick, b.samples[k].apply_tick)
        BY <4>2 DEF Admit, Admissible, Decodes
      <4> QED
        BY <4>4, <4>5
    <3>3. CASE i = n
      <4>1. /\ queue'[i] = queue[n] /\ queue'[i + 1] = b.samples[1]
            /\ n \in 1 .. Len(queue)
        BY <1>1, <1>2, <3>3
      <4>2. CASE b.kind = "APPEND"
        <5>1. n = Len(queue) /\ queue # <<>>
          BY <1>1, <4>1, <4>2
        <5>2. IsAfter(b.samples[1].apply_tick, LastTick(tick))
          BY <4>2 DEF Admit, Admissible, TransitionAcceptable, AppendAcceptable
        <5> QED
          BY <4>1, <5>1, <5>2 DEF LastTick
      <4>3. CASE b.kind # "APPEND"
        <5>1. b.samples[1].apply_tick = b.splice_at_tick
          BY <4>3 DEF Admit, Admissible, TransitionAcceptable, SpliceAcceptable
        <5>2. IsBefore(queue[n].apply_tick, b.splice_at_tick)
          BY <1>1, <4>1, <4>3
        <5> QED
          BY <4>1, <5>1, <5>2 DEF IsBefore
      <4> QED
        BY <4>2, <4>3
    <3> QED
      BY <1>1, <1>2, <3>1, <3>2, <3>3
  <2> QED
    BY <2>1, <1>1 DEF QueueInOrder
<1>6. SampleAccounting'
  <2>1. /\ applied \in Nat /\ accepted \in Nat /\ splices \in Nat
        /\ applied + Len(queue) <= accepted
        /\ splices = 0 => applied + Len(queue) = accepted
    BY DEF IInv, TypeOK, SampleAccounting
  <2>2. /\ applied' = applied /\ accepted' = accepted + Len(b.samples)
        /\ b.kind = "APPEND" => splices' = splices
        /\ b.kind # "APPEND" => splices' = splices + 1
    BY DEF Admit, Batch
  <2>3. applied' + Len(queue') <= accepted'
    <3>1. PICK l \in Nat : l = Len(b.samples)
      BY <1>2
    <3>2. applied' = applied /\ Len(queue') = n + l /\ accepted' = accepted + l
      BY <1>1, <2>2, <3>1
    <3>3. applied + n <= accepted
      BY <1>2, <2>1
    <3>4. applied + (n + l) <= accepted + l
      BY <1>2, <2>1, <3>1, <3>3
    <3> QED
      BY <3>2, <3>4
  <2>4. ASSUME splices' = 0 PROVE applied' + Len(queue') = accepted'
    <3>1. b.kind = "APPEND" /\ splices = 0 /\ n = Len(queue)
      BY <1>1, <2>1, <2>2, <2>4
    <3>2. Len(queue') = Len(queue) + Len(b.samples)
      BY <1>1, <3>1
    <3>3. applied + Len(queue) = accepted
      BY <2>1, <3>1
    <3> QED
      BY <1>2, <2>1, <2>2, <3>2, <3>3
  <2> QED
    BY <2>3, <2>4 DEF SampleAccounting
<1>7. StreamKindStable'
  <2>1. /\ state' = state /\ policy' = policy /\ horizon' = b.horizon_end_tick
        /\ IsOpenEnded(b.horizon_end_tick) <=> IsOpenEnded(horizon)
    BY DEF Admit, Admissible, TransitionAcceptable, HorizonAcceptable, ending
  <2> QED
    BY <2>1 DEF IInv, StreamKindStable, IsOpenEnded
<1> QED
  BY <1>3, <1>4, <1>5, <1>6, <1>7 DEF IInv

\* A control step keeps the invariant: it emits the anchor, the head of the
\* queue or a posture between the two.
LEMMA InvariantStep ==
    ASSUME IInv, NEW tick \in Tick, Step(tick), TypeOK'
    PROVE  IInv'
<1>0. /\ state = "RUNNING"
      /\ InsideJointLimits(anchor.position_urad)
  BY DEF Step, StepTimelineBroken, StepCommandTimeout, StepUnderflow, StepHold,
         StepMissed, StepApply, StepInterpolate, StepSpanBroken,
         StepHasSample, StepBegins, IInv, PlanWithinLimits
<1>1. CASE StepApply(tick)
  <2>1. /\ queue # <<>> /\ queue \in Seq(Setpoint) /\ Len(queue) \in Nat
        /\ queue' = WithoutFirst /\ anchor' = queue[1]
        /\ output' = queue[1].position_urad
        /\ applied' = applied + 1 /\ accepted' = accepted
        /\ splices' = splices /\ policy' = policy /\ horizon' = horizon
    BY <1>1 DEF StepApply, StepHasSample, Emit, IInv, TypeOK
  <2>2. /\ Len(queue') = Len(queue) - 1 /\ Len(queue) >= 1
        /\ \A i \in 1 .. Len(queue') : queue'[i] = queue[i + 1]
    BY <2>1, ConsumedQueue
  <2>3. InsideJointLimits(queue[1].position_urad)
    BY <2>1, <2>2 DEF IInv, PlanWithinLimits
  <2>4. PlanWithinLimits'
    <3>1. ASSUME NEW i \in 1 .. Len(queue')
          PROVE  InsideJointLimits(queue'[i].position_urad)
      <4>1. i + 1 \in 1 .. Len(queue) /\ queue'[i] = queue[i + 1]
        BY <2>1, <2>2
      <4> QED
        BY <4>1 DEF IInv, PlanWithinLimits
    <3> QED
      BY <2>1, <2>3, <3>1 DEF PlanWithinLimits, InsideJointLimits
  <2>5. MotionWithinLimits'
    BY <2>1, <2>3 DEF MotionWithinLimits, InsideJointLimits
  <2>6. QueueInOrder'
    <3>1. ASSUME NEW i \in 1 .. Len(queue') - 1
          PROVE  IsAfter(queue'[i + 1].apply_tick, queue'[i].apply_tick)
      <4>1. /\ i + 1 \in 1 .. Len(queue) - 1
            /\ queue'[i] = queue[i + 1] /\ queue'[i + 1] = queue[(i + 1) + 1]
        BY <2>1, <2>2
      <4> QED
        BY <4>1 DEF IInv, QueueInOrder
    <3>2. Len(queue') <= QueueCapacity
      BY <2>1, <2>2, ContractAssumption DEF IInv, QueueInOrder
    <3> QED
      BY <3>1, <3>2 DEF QueueInOrder
  <2>7. SampleAccounting'
    <3>1. /\ applied \in Nat /\ accepted \in Nat
          /\ applied + Len(queue) <= accepted
          /\ splices = 0 => applied + Len(queue) = accepted
      BY DEF IInv, TypeOK, SampleAccounting
    <3>2. applied' + Len(queue') = applied + Len(queue)
      <4>1. applied' = applied + 1 /\ Len(queue') = Len(queue) - 1
        BY <2>1, <2>2
      <4> QED
        BY <4>1, <3>1, <2>1
    <3>3. accepted' = accepted /\ splices' = splices
      BY <2>1
    <3> QED
      BY <3>1, <3>2, <3>3 DEF SampleAccounting
  <2>8. StreamKindStable'
    BY <1>0, <2>1 DEF IInv, StreamKindStable
  <2> QED
    BY <2>4, <2>5, <2>6, <2>7, <2>8 DEF IInv
<1>2. ASSUME /\ UNCHANGED <<session, anchor, counters>>
             /\ outputValid' => InsideJointLimits(output')
      PROVE  IInv'
  <2>1. PlanWithinLimits'
    BY <1>0, <1>2 DEF IInv, PlanWithinLimits, InsideJointLimits, session
  <2>2. MotionWithinLimits'
    BY <1>2 DEF MotionWithinLimits, InsideJointLimits
  <2>3. QueueInOrder' /\ SampleAccounting' /\ StreamKindStable'
    BY <1>0, <1>2 DEF IInv, QueueInOrder, SampleAccounting, StreamKindStable,
                      session, counters
  <2> QED
    BY <2>1, <2>2, <2>3 DEF IInv
<1>3. CASE StepInterpolate(tick)
  <2>1. /\ queue # <<>> /\ queue[1] \in Setpoint /\ ~SpanBroken(tick)
        /\ 1 \in 1 .. Len(queue) /\ anchor \in Setpoint
    BY <1>3 DEF StepInterpolate, StepHasSample, IInv, TypeOK
  <2>2. /\ Span \in Nat \ {0} /\ Progress(tick) \in Nat
        /\ Progress(tick) <= Span
    BY <2>1, DueTickInTick DEF SpanBroken, IInv
  <2>3. InsideJointLimits(queue[1].position_urad)
    BY <2>1 DEF IInv, PlanWithinLimits
  <2>4. InsideJointLimits(Between(anchor.position_urad, queue[1].position_urad,
                                  Progress(tick), Span))
    BY <1>0, <2>1, <2>2, <2>3, BetweenIsPosition DEF Setpoint
  <2>5. /\ output' = Between(anchor.position_urad, queue[1].position_urad,
                             Progress(tick), Span)
        /\ UNCHANGED <<session, anchor, counters>>
    BY <1>3 DEF StepInterpolate, Emit
  <2>6. InsideJointLimits(output')
    BY <2>4, <2>5 DEF InsideJointLimits
  <2> QED
    BY <1>2, <2>5, <2>6
<1>4. CASE StepCommandTimeout(tick) \/ StepHold(tick)
  BY <1>0, <1>2, <1>4 DEF StepCommandTimeout, StepHold, Emit, InsideJointLimits
<1>5. CASE \/ StepTimelineBroken(tick) \/ StepUnderflow(tick)
           \/ StepMissed(tick) \/ StepSpanBroken(tick)
  <2>1. UNCHANGED <<session, anchor, counters, output, outputValid>>
    BY <1>5 DEF StepTimelineBroken, StepUnderflow, StepMissed, StepSpanBroken,
                motion
  <2> QED
    BY <1>2, <2>1 DEF IInv, MotionWithinLimits, InsideJointLimits
<1> QED
  BY <1>1, <1>3, <1>4, <1>5 DEF Step

LEMMA InvariantNext == IInv /\ [Next]_vars => IInv'
<1> SUFFICES ASSUME IInv, [Next]_vars PROVE IInv'
  OBVIOUS
<1>0. TypeOK' /\ now \in Tick
  BY TypeStep DEF IInv, TypeOK
<1>1. ASSUME NEW p \in OfferedPolicy(now), Open(p, now) PROVE IInv'
  <2>1. /\ state' = "PRIMING" /\ queue' = <<>> /\ policy' = p
        /\ horizon' = p.horizon_end_tick
        /\ accepted' = 0 /\ applied' = 0 /\ splices' = 0
    BY <1>1 DEF Open
  <2>2. ~outputValid'
    BY <1>1 DEF Open
  <2>3. Len(queue') = 0
    BY <2>1
  <2> QED
    BY <1>0, <2>1, <2>2, <2>3, ContractAssumption
       DEF IInv, PlanWithinLimits, MotionWithinLimits, QueueInOrder,
           SampleAccounting, StreamKindStable
<1>2. ASSUME NEW b \in OfferedBatch(now), Admit(b, now) PROVE IInv'
  BY <1>0, <1>2, InvariantAdmit, ExecutorAssumption
<1>3. ASSUME NEW pos \in AnchorPosition, Start(now, pos) PROVE IInv'
  <2>1. /\ pos \in Position /\ WithinLimits(pos)
        /\ anchor'.position_urad = pos /\ state = "PRIMING"
        /\ UNCHANGED <<session, output, outputValid, counters>>
    BY <1>3, ExecutorAssumption DEF Start, StartAllowed
  <2>2. InsideJointLimits(anchor'.position_urad)
    BY <2>1, WithinIsInside
  <2> QED
    BY <1>0, <2>1, <2>2
       DEF IInv, PlanWithinLimits, MotionWithinLimits, InsideJointLimits,
           QueueInOrder, SampleAccounting, StreamKindStable, session, counters
<1>4. CASE Step(now)
  BY <1>0, <1>4, InvariantStep
<1>5. ASSUME /\ UNCHANGED <<session, anchor, output, outputValid, counters>>
             /\ \/ state' = state
                \/ state # "CLOSED" /\ state' = "ABORTED"
      PROVE  IInv'
  <2>1. /\ state' = "RUNNING" => state = "RUNNING"
        /\ state' # "CLOSED" => state # "CLOSED"
    BY <1>5
  <2>2. StreamKindStable'
    BY <1>5, <2>1 DEF IInv, StreamKindStable, session
  <2> QED
    BY <1>0, <1>5, <2>1, <2>2
       DEF IInv, PlanWithinLimits, MotionWithinLimits, InsideJointLimits,
           QueueInOrder, SampleAccounting, session, counters
<1>6. CASE Advance \/ Refuse(now) \/ UNCHANGED vars
  BY <1>5, <1>6 DEF Advance, Refuse, vars, ending, motion
<1>7. ASSUME \/ \E j \in Joint, c, m \in Reading : CheckJointFeedback(j, c, m)
             \/ \E m \in AnchorPosition : CheckFeedback(m)
      PROVE  IInv'
  <2>1. state # "CLOSED" /\ TrackingFault
    BY <1>7 DEF CheckJointFeedback, CheckFeedback
  <2> QED
    BY <1>5, <2>1 DEF TrackingFault, Terminate, motion
<1> QED
  BY <1>1, <1>2, <1>3, <1>4, <1>6, <1>7 DEF Next

LEMMA InvariantHolds == Spec => []IInv
<1> QED
  BY InvariantInit, InvariantNext, PTL DEF Spec

\* Every posture handed to the servos lies inside the firmware's joint limits.
THEOREM MotionStaysWithinLimits == Spec => []MotionWithinLimits
<1>1. IInv => MotionWithinLimits
  BY DEF IInv
<1> QED
  BY InvariantHolds, <1>1, PTL

\* The queue neither overflows nor loses its strict tick order.
THEOREM QueueStaysInOrder == Spec => []QueueInOrder
<1>1. IInv => QueueInOrder
  BY DEF IInv
<1> QED
  BY InvariantHolds, <1>1, PTL

\* No sample is lost or applied twice.
THEOREM SamplesAreAccountedFor == Spec => []SampleAccounting
<1>1. IInv => SampleAccounting
  BY DEF IInv
<1> QED
  BY InvariantHolds, <1>1, PTL

\* No batch turns an open stream into a finite one, or the reverse.
THEOREM StreamKindNeverChanges == Spec => []StreamKindStable
<1>1. IInv => StreamKindStable
  BY DEF IInv
<1> QED
  BY InvariantHolds, <1>1, PTL

-----------------------------------------------------------------------------
(***************************************************************************)
(* The executor implements BoundedMotion.                                  *)
(***************************************************************************)
\* Every run of the executor, seen through Phase and its output, is a run of
\* BoundedMotion: it moves only after a start, only within the limits, and
\* never again after it ended until a new stream is opened.
THEOREM ExecutorKeepsPromise == Spec => ImplementsBoundedMotion
<1>1. Init => Promise!Init
  BY DEF Init, Promise!Init, Phase
<1>2. IInv /\ IInv' /\ [Next]_vars => [Promise!Next]_(Promise!vars)
  <2> SUFFICES ASSUME IInv, IInv', [Next]_vars
               PROVE  Promise!Next \/ UNCHANGED Promise!vars
    BY DEF Promise!vars
  <2>1. ASSUME NEW p \in OfferedPolicy(now), Open(p, now)
        PROVE  Promise!Prepare
    <3>1. state # "RUNNING" /\ state' = "PRIMING" /\ output' = output
      BY <2>1 DEF Open, OpenAllowed
    <3> QED
      BY <3>1 DEF Promise!Prepare, Phase
  <2>2. ASSUME NEW pos \in AnchorPosition, Start(now, pos)
        PROVE  Promise!Begin
    <3>1. state = "PRIMING" /\ state' = "RUNNING" /\ output' = output
      BY <2>2 DEF Start, StartAllowed
    <3> QED
      BY <3>1 DEF Promise!Begin, Phase
  <2>3. ASSUME state' = state, output' = output
        PROVE  UNCHANGED Promise!vars
    BY <2>3 DEF Promise!vars, Phase
  <2>4. CASE Step(now)
    <3>1. state = "RUNNING" /\ state' \in {"RUNNING", "SUCCEEDED", "HOLD", "ABORTED"}
      BY <2>4
         DEF Step, StepTimelineBroken, StepCommandTimeout, StepUnderflow,
             StepHold, StepMissed, StepApply, StepInterpolate, StepSpanBroken,
             StepHasSample, StepBegins, Terminate, ending
    <3>2. CASE outputValid'
      <4>1. InsideJointLimits(output')
        BY <3>2 DEF IInv, MotionWithinLimits, InsideJointLimits
      <4>2. /\ Phase = "moving"
            /\ Phase' \in {"moving", "finished", "stopped"}
        BY <3>1 DEF Phase
      <4> QED
        BY <4>1, <4>2 DEF Promise!Next, Promise!Move, InsideJointLimits
    <3>3. CASE ~outputValid'
      <4>1. state' = "ABORTED" /\ output' = output
        BY <2>4, <3>3
           DEF Step, StepTimelineBroken, StepCommandTimeout, StepUnderflow,
               StepHold, StepMissed, StepApply, StepInterpolate,
               StepSpanBroken, Terminate, Emit, motion
      <4> QED
        BY <3>1, <4>1 DEF Promise!Next, Promise!Stop, Phase
    <3> QED
      BY <3>2, <3>3
  <2>5. ASSUME \/ \E j \in Joint, c, m \in Reading : CheckJointFeedback(j, c, m)
               \/ \E m \in AnchorPosition : CheckFeedback(m)
        PROVE  Promise!Stop
    <3>1. /\ state \in {"RUNNING", "SUCCEEDED"} /\ state' = "ABORTED"
          /\ output' = output
      BY <2>5 DEF CheckJointFeedback, CheckFeedback, TrackingFault, Terminate,
                  motion
    <3> QED
      BY <3>1 DEF Promise!Stop, Phase
  <2>6. CASE \/ Advance \/ Refuse(now) \/ UNCHANGED vars
             \/ \E b \in OfferedBatch(now) : Admit(b, now)
    BY <2>3, <2>6 DEF Advance, Refuse, Admit, vars, ending, motion
  <2> QED
    BY <2>1, <2>2, <2>4, <2>5, <2>6 DEF Next, Promise!Next
<1> QED
  BY <1>1, <1>2, InvariantHolds, PTL
     DEF Spec, ImplementsBoundedMotion, Promise!Spec

-----------------------------------------------------------------------------
(***************************************************************************)
(* Success, endings and the silence of the host.                           *)
(*                                                                         *)
(* OpenOutputIsAuthorised compares the last batch with the last step, so   *)
(* the clock must not have moved half a turn since that step.              *)
(***************************************************************************)
NotYetMoving == state = "PRIMING" => ~outputValid

SteppedLately == state = "RUNNING" => Elapsed(now, lastStep) <= MaxSilence

Accountable ==
    /\ IInv
    /\ SuccessMeansWholePlan
    /\ NotYetMoving
    /\ SteppedLately
    /\ OpenOutputIsAuthorised

\* What the step at a tick does, whichever of its cases it takes.
LEMMA StepEffect ==
    ASSUME NEW tick, Step(tick)
    PROVE  /\ state = "RUNNING" /\ state' \in {"RUNNING", "SUCCEEDED", "HOLD", "ABORTED"}
           /\ UNCHANGED <<now, policy, horizon, lastCommand, accepted, splices, controlEpoch>>
           /\ state' = "RUNNING" =>
                /\ lastStep' = tick /\ ~CommandTimedOut(tick) /\ outputValid'
                /\ reason' = reason /\ safeStop' = safeStop
           /\ state' = "SUCCEEDED" => StepApply(tick) /\ PlanComplete /\ ~safeStop'
           /\ state' \in {"HOLD", "ABORTED"} => safeStop'
<1>1. CASE StepTimelineBroken(tick) \/ StepUnderflow(tick) \/ StepMissed(tick)
             \/ StepSpanBroken(tick)
  BY <1>1 DEF StepTimelineBroken, StepUnderflow, StepMissed, StepSpanBroken, StepHasSample,
     StepBegins, Terminate, session, motion, counters
<1>2. CASE StepCommandTimeout(tick)
  BY <1>2 DEF StepCommandTimeout, StepBegins, Terminate, session, counters
<1>3. CASE StepHold(tick) \/ StepInterpolate(tick)
  BY <1>3 DEF StepHold, StepInterpolate, StepHasSample, StepBegins, Emit, ending, session,
     counters
<1>4. CASE StepApply(tick)
  BY <1>4 DEF StepApply, StepHasSample, StepBegins, Emit, Terminate, ending
<1> QED
  BY <1>1, <1>2, <1>3, <1>4 DEF Step

LEMMA AccountableInit == Init => Accountable
<1> SUFFICES ASSUME Init PROVE Accountable
  OBVIOUS
<1>1. state = "CLOSED" /\ ~safeStop
  BY DEF Init
<1> QED
  BY <1>1, InvariantInit
     DEF Accountable, SuccessMeansWholePlan, NotYetMoving, SteppedLately, OpenOutputIsAuthorised

\* Success is the apply of the last sample of the plan.
LEMMA SuccessIsWhole ==
    ASSUME IInv, NEW tick, StepApply(tick), PlanComplete, state' = "SUCCEEDED"
    PROVE  /\ ~IsOpenEnded(horizon') /\ queue' = <<>>
           /\ anchor'.apply_tick = horizon'
           /\ outputValid' /\ output' = anchor'.position_urad
           /\ splices' = 0 => applied' = accepted'
<1>1. /\ queue \in Seq(Setpoint) /\ queue # <<>> /\ queue' = WithoutFirst /\ anchor' = queue[1]
      /\ output' = queue[1].position_urad /\ outputValid'
      /\ applied' = applied + 1 /\ accepted' = accepted /\ splices' = splices
      /\ horizon' = horizon
  BY DEF StepApply, StepHasSample, Emit, IInv, TypeOK
<1>2. ~IsOpenEnded(horizon) /\ queue[1].apply_tick = horizon /\ Len(queue) = 1
  BY DEF PlanComplete
<1>3. queue' = <<>>
  BY <1>1, <1>2 DEF WithoutFirst
<1>4. splices = 0 => applied + 1 = accepted
  BY <1>2 DEF IInv, SampleAccounting
<1> QED
  BY <1>1, <1>2, <1>3, <1>4

LEMMA AccountableStep ==
    ASSUME Accountable, IInv', Step(now)
    PROVE  Accountable'
<1>1. /\ now \in Tick /\ Elapsed(now, now) = 0 /\ MaxSilence \in Nat
      /\ safeStop \in BOOLEAN
  BY ElapsedUnfolded, ExecutorAssumption, HalfTurnIsLess DEF Accountable, IInv, TypeOK, Tick
<1>2. /\ state = "RUNNING" /\ state' \in {"RUNNING", "SUCCEEDED", "HOLD", "ABORTED"}
      /\ UNCHANGED <<now, policy, horizon, lastCommand, accepted, splices>>
      /\ state' = "RUNNING" =>
           lastStep' = now /\ ~CommandTimedOut(now) /\ safeStop' = safeStop
      /\ state' = "SUCCEEDED" => StepApply(now) /\ PlanComplete /\ ~safeStop'
      /\ state' \in {"HOLD", "ABORTED"} => safeStop'
  BY StepEffect
<1>3. SuccessMeansWholePlan'
  <2>1. ~safeStop
    BY <1>2 DEF Accountable, SuccessMeansWholePlan
  <2>2. safeStop' <=> state' \in {"HOLD", "ABORTED"}
    BY <1>2, <2>1
  <2>3. CASE state' = "SUCCEEDED"
    BY <1>2, <2>2, <2>3, SuccessIsWhole DEF Accountable, SuccessMeansWholePlan
  <2>4. CASE state' # "SUCCEEDED"
    BY <2>2, <2>4 DEF SuccessMeansWholePlan
  <2> QED
    BY <2>3, <2>4
<1>4. NotYetMoving' /\ SteppedLately'
  BY <1>1, <1>2 DEF NotYetMoving, SteppedLately
<1>5. OpenOutputIsAuthorised'
  <2>1. /\ Elapsed(now, lastCommand) \in Nat /\ policy.command_timeout_ms \in Nat
    BY <1>1, AgeIsBehind DEF Accountable, IInv, TypeOK, Policy
  <2> QED
    BY <1>2, <2>1 DEF OpenOutputIsAuthorised, CommandTimedOut
<1> QED
  BY <1>3, <1>4, <1>5 DEF Accountable

LEMMA AccountableNext == Accountable /\ [Next]_vars => Accountable'
<1> SUFFICES ASSUME Accountable, [Next]_vars PROVE Accountable'
  OBVIOUS
<1>0. /\ IInv' /\ IInv /\ TypeOK /\ now \in Tick /\ lastStep \in Tick
      /\ MaxSilence \in Nat /\ MaxSilence < HalfTurn
  BY InvariantNext, ExecutorAssumption, HalfTurnIsLess DEF Accountable, IInv, TypeOK
<1>1. CASE Advance
  <2>1. /\ now' = Plus(now, 1) /\ (state = "RUNNING" => Elapsed(now, lastStep) < MaxSilence)
        /\ UNCHANGED <<ending, session, motion, lastStep, lastCommand, counters>>
    BY <1>1 DEF Advance
  <2>2. SteppedLately'
    <3>1. Elapsed(now, lastStep) \in Nat
      BY <1>0, AgeIsBehind
    <3>2. state = "RUNNING" => Elapsed(now', lastStep) = Elapsed(now, lastStep) + 1
      BY <1>0, <2>1, <3>1, ReadingAges, HalfTurnIsLess, TickModulusAssumption
    <3> QED
      BY <1>0, <2>1, <3>1, <3>2 DEF SteppedLately, ending
  <2> QED
    BY <1>0, <2>1, <2>2 DEF Accountable, SuccessMeansWholePlan, NotYetMoving,
       OpenOutputIsAuthorised, ending, session, motion, counters
<1>2. ASSUME NEW p \in OfferedPolicy(now), Open(p, now) PROVE Accountable'
  BY <1>0, <1>2 DEF Open, Accountable, SuccessMeansWholePlan, NotYetMoving, SteppedLately,
     OpenOutputIsAuthorised
<1>3. ASSUME NEW b \in OfferedBatch(now), Admit(b, now) PROVE Accountable'
  <2>1. /\ state \in {"PRIMING", "RUNNING"} /\ lastCommand' = now
        /\ IsOpenEnded(horizon') = IsOpenEnded(horizon)
        /\ UNCHANGED <<now, ending, policy, motion, lastStep, applied>>
    BY <1>3 DEF Admit, Admissible, TransitionAcceptable, HorizonAcceptable, IsOpenEnded
  <2>2. state = "RUNNING" => IsAfter(now, lastStep) \/ Elapsed(lastStep, now) = 0
    <3>1. /\ Elapsed(now, lastStep) = IF now < lastStep THEN now - lastStep + TickModulus
                                      ELSE now - lastStep
          /\ Elapsed(lastStep, now) = IF lastStep < now THEN lastStep - now + TickModulus
                                      ELSE lastStep - now
      BY <1>0, ElapsedUnfolded
    <3>2. state = "RUNNING" => Elapsed(now, lastStep) < HalfTurn
      BY <1>0, HalfTurnIsLess, AgeIsBehind DEF Accountable, SteppedLately
    <3>3. now = lastStep \/ Elapsed(now, lastStep) > 0
      BY <1>0, <3>1, TickModulusAssumption DEF Tick
    <3>4. now = lastStep => Elapsed(lastStep, now) = 0
      BY <1>0, <3>1 DEF Tick
    <3> QED
      BY <3>2, <3>3, <3>4 DEF IsAfter
  <2>3. policy.command_timeout_ms \in Nat
    BY <1>0 DEF TypeOK, Policy
  <2>4. OpenOutputIsAuthorised'
    BY <2>1, <2>2, <2>3 DEF OpenOutputIsAuthorised, ending, motion
  <2> QED
    BY <1>0, <2>1, <2>4 DEF Accountable, SuccessMeansWholePlan, NotYetMoving, SteppedLately,
       ending, motion
<1>4. ASSUME NEW pos \in AnchorPosition, Start(now, pos) PROVE Accountable'
  <2>1. Elapsed(now, now) = 0
    BY <1>0, ElapsedUnfolded DEF Tick
  <2>2. /\ state = "PRIMING" /\ state' = "RUNNING" /\ lastStep' = now /\ now' = now
        /\ UNCHANGED <<safeStop, outputValid>>
    BY <1>4 DEF Start, StartAllowed
  <2> QED
    BY <1>0, <2>1, <2>2 DEF Accountable, SuccessMeansWholePlan, NotYetMoving, SteppedLately,
       OpenOutputIsAuthorised
<1>5. CASE Step(now)
  BY <1>0, <1>5, AccountableStep
<1>6. CASE TrackingFault
  BY <1>0, <1>6 DEF TrackingFault, Terminate, Accountable, SuccessMeansWholePlan, NotYetMoving,
     SteppedLately, OpenOutputIsAuthorised
<1>7. CASE UNCHANGED vars
  BY <1>0, <1>7 DEF vars, ending, session, motion, counters, Accountable, SuccessMeansWholePlan,
     NotYetMoving, SteppedLately, OpenOutputIsAuthorised
<1> QED
  BY <1>1, <1>2, <1>3, <1>4, <1>5, <1>6, <1>7
     DEF Next, Refuse, CheckJointFeedback, CheckFeedback

LEMMA AlwaysAccountable == Spec => []Accountable
<1> QED
  BY AccountableInit, AccountableNext, PTL DEF Spec

\* actuator_v2_stream_executor_step: a success is the whole plan, any other
\* ending of a started stream asks for a safe stop.
THEOREM SuccessIsEarned == Spec => []SuccessMeansWholePlan
<1>1. Accountable => SuccessMeansWholePlan
  BY DEF Accountable
<1> QED
  BY AlwaysAccountable, <1>1, PTL

\* actuator_v2_stream_executor_step: an open stream makes no output later than
\* command_timeout_ms after the last batch it admitted.
THEOREM SilenceStopsOutput == Spec => []OpenOutputIsAuthorised
<1>1. Accountable => OpenOutputIsAuthorised
  BY DEF Accountable
<1> QED
  BY AlwaysAccountable, <1>1, PTL
-----------------------------------------------------------------------------
(***************************************************************************)
(* The timeline.  Seen from the clock, the queue is a strictly increasing  *)
(* row of numbers, not far behind and less than a lead ahead; the anchor   *)
(* and its place on the control grid lie in the past.  A tick that is more *)
(* than half a turn away would change sides, so the invariant bounds how   *)
(* far each of them is: the queue by the lead and the last command, the    *)
(* anchor by the head of the queue or, when the stream has run dry, by the *)
(* time the stream is allowed to stay dry.                                 *)
(***************************************************************************)
Lead == HardCaps.maximum_lead_ms
Timeout == HardCaps.maximum_command_timeout_ms

\* How far apart the anchor and the head of the queue can be.
Gap == Lead + IF Timeout + MaxSilence > Slack THEN Timeout + MaxSilence ELSE Slack

At(i) == Ahead(queue[i].apply_tick, now)
AnchorAt == Ahead(anchor.apply_tick, now)
GridAt == Ahead(GridTick(anchor.apply_tick), now)
Idle == Elapsed(now, lastStep)
Age == Elapsed(now, lastCommand)
Wait == ControlTickMs - 1 + policy.maximum_apply_lateness_ms

PolicyCapped ==
    /\ policy.maximum_lead_ms <= Lead
    /\ policy.command_timeout_ms <= Timeout
    /\ policy.maximum_apply_lateness_ms <= HardCaps.maximum_apply_lateness_ms
    /\ state = "PRIMING" => policy.minimum_start_samples >= 1

QueueAhead ==
    state \in {"PRIMING", "RUNNING"} =>
        /\ \A i, j \in 1 .. Len(queue) : i < j => At(i) < At(j)
        /\ queue # <<>> => At(1) >= -Slack /\ At(Len(queue)) + Age \in 1 .. Lead

Primed ==
    state = "PRIMING" => ~outputValid /\ (queue # <<>> => At(1) >= -MaxSilence)

Running ==
    state = "RUNNING" =>
        /\ Idle <= MaxSilence
        /\ AnchorAt <= 0 /\ GridAt <= 0
        /\ IsOpenEnded(horizon) /\ outputValid => Age <= policy.command_timeout_ms + Idle
        /\ queue # <<>> => At(1) >= -Wait - Idle /\ At(1) - AnchorAt <= Gap
        /\ queue = <<>> =>
             /\ outputValid
             /\ IF IsOpenEnded(horizon) THEN AnchorAt >= 1 - Age ELSE AnchorAt >= -Wait - Idle

Timeline == TypeOK /\ PolicyCapped /\ QueueAhead /\ Primed /\ Running /\ TimelineNeverBreaks

\* The caps leave room on the clock.
LEMMA ClockBounds ==
    /\ Lead \in Nat /\ Timeout \in Nat /\ HardCaps.maximum_apply_lateness_ms \in Nat
    /\ MaxSilence \in Nat /\ MaxSilence >= 1
    /\ ControlTickMs \in Nat /\ ControlTickMs >= 1
    /\ Slack = ControlTickMs - 1 + HardCaps.maximum_apply_lateness_ms + MaxSilence
    /\ Slack \in Nat /\ Gap \in Nat
    /\ Lead + Slack <= Gap /\ Lead + Timeout + MaxSilence <= Gap
    /\ HalfTurn \in Nat /\ Gap + Slack < HalfTurn
<1>1. /\ Lead \in Nat /\ Timeout \in Nat /\ HardCaps.maximum_apply_lateness_ms \in Nat
      /\ ControlTickMs \in Nat /\ ControlTickMs >= 1
  BY ContractAssumption DEF Lead, Timeout
<1>2. HalfTurn \in Nat
  BY HalfTurnIsLess
<1>3. MaxSilence \in Nat /\ MaxSilence >= 1
  BY <1>2, ExecutorAssumption
<1>4. Slack = ControlTickMs - 1 + HardCaps.maximum_apply_lateness_ms + MaxSilence
  BY DEF Slack
<1>5. Slack \in Nat
  BY <1>1, <1>3, <1>4
<1>6. Lead + Timeout + MaxSilence + Slack < HalfTurn /\ Lead + 2 * Slack < HalfTurn
  BY ClockAssumption DEF Lead, Timeout
<1>7. CASE Timeout + MaxSilence > Slack
  <2>1. Gap = Lead + (Timeout + MaxSilence)
    BY <1>7 DEF Gap
  <2> QED
    BY <1>1, <1>2, <1>3, <1>4, <1>5, <1>6, <1>7, <2>1
<1>8. CASE ~(Timeout + MaxSilence > Slack)
  <2>1. Gap = Lead + Slack
    BY <1>8 DEF Gap
  <2> QED
    BY <1>1, <1>2, <1>3, <1>4, <1>5, <1>6, <1>8, <2>1
<1> QED
  BY <1>7, <1>8

\* The control grid is never more than a control tick less one away.
LEMMA GridWait ==
    ASSUME NEW t \in Tick, controlEpoch \in Tick
    PROVE  /\ GridTick(t) \in Tick
           /\ Ahead(GridTick(t), t) \in 0 .. ControlTickMs - 1
<1> DEFINE E == Elapsed(t, controlEpoch)
           C == ControlTickMs
           x == (E + C - 1) % TickModulus
           q == (x \div C) * C
           g == GridTick(t)
<1>1. /\ C \in Nat /\ C >= 1 /\ C - 1 < HalfTurn
      /\ HalfTurn \in Nat /\ HalfTurn < TickModulus /\ TickModulus \in Nat
  BY ClockBounds, HalfTurnIsLess, TickModulusAssumption
<1>2. /\ E = IF t < controlEpoch THEN t - controlEpoch + TickModulus ELSE t - controlEpoch
      /\ E \in Nat /\ E < TickModulus /\ t \in Int /\ controlEpoch \in Int
  BY ElapsedUnfolded, TickModulusAssumption DEF Tick
<1>3. g = Plus(controlEpoch, q)
  BY DEF GridTick
<1>4. x = IF E + C - 1 < TickModulus THEN E + C - 1 ELSE E + C - 1 - TickModulus
  <2> DEFINE y == E + C - 1
  <2>0. x = y % TickModulus
    OBVIOUS
  <2> HIDE DEF E, C, x
  <2>1. y \in Int /\ 0 <= y /\ -TickModulus <= y /\ y < 2 * TickModulus
    BY <1>1, <1>2
  <2> HIDE DEF y
  <2>2. y % TickModulus = IF y < 0 THEN y + TickModulus
                          ELSE IF y < TickModulus THEN y ELSE y - TickModulus
    BY <2>1, ModWithinATurn
  <2> QED
    BY <1>1, <1>2, <2>0, <2>1, <2>2 DEF y
<1> HIDE DEF E, C, x, g
<1>5. x \in Nat /\ x < TickModulus
  BY <1>1, <1>2, <1>4
<1>6. q \in Int /\ q <= x /\ x < q + C
  BY <1>1, <1>5, Z3
<1>7. q >= 0
  <2>1. x \div C \in Nat
    BY <1>1, <1>5, Z3
  <2> QED
    BY <1>1, <2>1, Z3
<1> HIDE DEF q
<1>8. g \in Tick /\ g = IF controlEpoch + q < TickModulus THEN controlEpoch + q
                        ELSE controlEpoch + q - TickModulus
  <2>1. q \in Tick
    BY <1>1, <1>5, <1>6, <1>7 DEF Tick
  <2> QED
    BY <1>2, <1>3, <1>6, <2>1, PlusUnfolded, ReadingsInTick
<1>9. PICK w \in 0 .. C - 1 : g - t = w \/ g - t = w + TickModulus \/ g - t = w - TickModulus
  <2>1. CASE E + C - 1 < TickModulus
    <3>1. q - E \in 0 .. C - 1
      BY <1>1, <1>2, <1>4, <1>6, <2>1
    <3>2. \/ g - t = q - E
          \/ g - t = q - E + TickModulus
          \/ g - t = q - E - TickModulus
      BY <1>1, <1>2, <1>6, <1>8
    <3> QED
      BY <3>1, <3>2
  <2>2. CASE ~(E + C - 1 < TickModulus)
    <3>1. x < C - 1
      BY <1>1, <1>2, <1>4, <2>2
    <3>2. x \div C = 0
      BY <1>1, <1>5, <3>1, Z3
    <3>3. q = 0
      BY <1>1, <3>2 DEF q
    <3>4. TickModulus - E \in 0 .. C - 1
      BY <1>1, <1>2, <2>2
    <3>5. g = controlEpoch
      BY <1>1, <1>2, <1>8, <3>3 DEF Tick
    <3>6. \/ g - t = TickModulus - E
          \/ g - t = TickModulus - E - TickModulus
      BY <1>1, <1>2, <3>5
    <3> QED
      BY <3>4, <3>6
  <2> QED
    BY <2>1, <2>2
<1>10. w \in Int /\ -HalfTurn < w /\ w < HalfTurn
  BY <1>1, <1>9
<1>11. Ahead(g, t) = w
  BY <1>8, <1>9, <1>10, AheadIs
<1> QED
  BY <1>8, <1>9, <1>11 DEF g, C

\* Its origin e lies on it.
LEMMA GridOfOrigin ==
    ASSUME NEW e \in Tick
    PROVE  Plus(e, (((Elapsed(e, e) + ControlTickMs - 1) % TickModulus)
                        \div ControlTickMs) * ControlTickMs) = e
<1>1. /\ ControlTickMs \in Nat /\ ControlTickMs >= 1 /\ ControlTickMs - 1 < TickModulus
      /\ TickModulus \in Nat
  BY ClockBounds, HalfTurnIsLess, TickModulusAssumption
<1>2. Elapsed(e, e) = 0
  BY ElapsedUnfolded, <1>1 DEF Tick
<1>3. (0 + ControlTickMs - 1) % TickModulus = ControlTickMs - 1
  BY <1>1, ModWithinATurn
<1>4. (ControlTickMs - 1) \div ControlTickMs = 0
  BY <1>1, Z3
<1>5. 0 * ControlTickMs = 0 /\ 0 \in Tick
  BY <1>1 DEF Tick
<1>6. Plus(e, 0) = e
  BY <1>1, <1>5, PlusUnfolded DEF Tick
<1> QED
  BY <1>2, <1>3, <1>4, <1>5, <1>6

\* Where a tick's place on the grid lies, seen from the clock.
LEMMA GridFromNow ==
    ASSUME NEW t \in Tick, controlEpoch \in Tick, now \in Tick,
           -HalfTurn < Ahead(t, now), Ahead(t, now) < HalfTurn - ControlTickMs + 1
    PROVE  /\ GridTick(t) \in Tick
           /\ Ahead(GridTick(t), now) - Ahead(t, now) \in 0 .. ControlTickMs - 1
<1>1. GridTick(t) \in Tick /\ Ahead(GridTick(t), t) \in 0 .. ControlTickMs - 1
  BY GridWait
<1>2. ControlTickMs \in Nat /\ HalfTurn \in Nat /\ Ahead(t, now) \in Int
  BY ClockBounds, AheadUnfolded
<1>3. /\ -HalfTurn < Ahead(GridTick(t), t) + Ahead(t, now)
      /\ Ahead(GridTick(t), t) + Ahead(t, now) < HalfTurn
  BY <1>1, <1>2
<1>4. Ahead(GridTick(t), now) = Ahead(GridTick(t), t) + Ahead(t, now)
  BY <1>1, <1>3, AheadAdds
<1> QED
  BY <1>1, <1>2, <1>4

LEMMA SampleTicks ==
    ASSUME NEW q \in Seq(Setpoint)
    PROVE  \A i \in 1 .. Len(q) : q[i].apply_tick \in Tick
<1> SUFFICES ASSUME NEW i \in 1 .. Len(q) PROVE q[i].apply_tick \in Tick
  OBVIOUS
<1>1. q[i] \in Setpoint
  OBVIOUS
<1> QED
  BY <1>1 DEF Setpoint

\* An admitted batch lies ahead of the clock, in order, within the lead.
LEMMA BatchAhead ==
    ASSUME Timeline, NEW b \in OfferedBatch(now), Admissible(b, now)
    PROVE  /\ b \in Batch /\ Len(b.samples) \in Nat /\ Len(b.samples) >= 1
           /\ \A i \in 1 .. Len(b.samples) :
                /\ b.samples[i].apply_tick \in Tick
                /\ Ahead(b.samples[i].apply_tick, now) \in 1 .. Lead
           /\ \A i, j \in 1 .. Len(b.samples) :
                i < j => Ahead(b.samples[i].apply_tick, now) < Ahead(b.samples[j].apply_tick, now)
<1> DEFINE m == Len(b.samples)
           s(i) == b.samples[i].apply_tick
           e(i) == Elapsed(s(i), s(1))
           f == Elapsed(s(1), now)
<1>1. /\ now \in Tick /\ b \in Batch /\ policy.maximum_lead_ms <= Lead
      /\ policy.maximum_lead_ms \in Nat
  BY ExecutorAssumption DEF Timeline, TypeOK, PolicyCapped, Policy
<1>2. m \in Nat /\ m >= 1 /\ 1 \in 1 .. m /\ m \in 1 .. m
  BY <1>1, ContractAssumption DEF Admissible, Decodes, Batch
<1>3. \A i \in 1 .. m : s(i) \in Tick
  <2>1. b.samples \in Seq(Setpoint)
    BY <1>1 DEF Batch
  <2> QED
    BY <2>1, SampleTicks
<1>4. \A i \in 1 .. m - 1 : IsAfter(s(i + 1), s(i))
  BY DEF Admissible, Decodes
<1>5. \A i \in 1 .. m : e(i) < HalfTurn
  BY <1>1, ClockAssumption
<1>6. IsAfter(s(1), now) /\ Elapsed(s(m), now) <= policy.maximum_lead_ms
  BY <1>1 DEF Admissible, TransitionAcceptable, AppendAcceptable, SpliceAcceptable, Batch
<1>7. /\ HalfTurn \in Nat /\ 2 * HalfTurn <= TickModulus /\ TickModulus \in Nat
      /\ Lead \in Nat /\ Lead < HalfTurn
  BY TwoHalves, ClockBounds, TickModulusAssumption
<1>8. f \in Nat /\ f >= 1 /\ f < HalfTurn
  BY <1>1, <1>2, <1>3, <1>6, AgeIsBehind DEF IsAfter
<1>9. \A i \in 1 .. m : e(i) \in Nat
  BY <1>2, <1>3, AgeIsBehind
<1> HIDE DEF m, s
\* Neighbours are in order seen from the first sample, so all are.
<1>10. ASSUME NEW i \in 1 .. m - 1 PROVE e(i) < e(i + 1)
  <2>1. /\ i \in 1 .. m /\ i + 1 \in 1 .. m
    BY <1>2
  <2>2. s(i) \in Tick /\ s(i + 1) \in Tick /\ s(1) \in Tick
    BY <1>2, <1>3, <2>1
  <2>3. 0 < Elapsed(s(i + 1), s(i)) /\ Elapsed(s(i + 1), s(i)) < HalfTurn
    BY <1>4 DEF IsAfter
  <2>4. Elapsed(s(i + 1), s(i)) \in Nat /\ e(i) \in Nat /\ e(i) < HalfTurn
    BY <1>5, <1>9, <2>1, <2>2, AgeIsBehind
  <2>5. Elapsed(s(i + 1), s(i)) + e(i) < TickModulus
    BY <1>7, <2>3, <2>4
  <2>6. e(i + 1) = Elapsed(s(i + 1), s(i)) + e(i)
    BY <2>2, <2>5, ElapsedAdds
  <2> QED
    BY <2>3, <2>4, <2>6
<1> HIDE DEF e
<1>11. ASSUME NEW i \in 1 .. m, NEW j \in 1 .. m, i < j PROVE e(i) < e(j)
  <2> DEFINE S == {k \in 1 .. m : i < k => e(i) < e(k)}
  <2>1. 1 \in S
    BY <1>2
  <2>2. ASSUME NEW k \in 1 .. m - 1, k \in S PROVE k + 1 \in S
    <3>1. k \in 1 .. m /\ k + 1 \in 1 .. m /\ e(k) < e(k + 1)
      BY <1>2, <1>10
    <3>2. e(i) \in Nat /\ e(k) \in Nat /\ e(k + 1) \in Nat
      BY <1>9, <3>1
    <3>3. i < k + 1 => i = k \/ i < k
      BY <1>2
    <3> QED
      BY <2>2, <3>1, <3>2, <3>3
  <2> HIDE DEF S
  <2>3. 1 .. m \subseteq S
    BY <1>2, <2>1, <2>2, IntervalInduction
  <2> QED
    BY <1>11, <2>3 DEF S
\* The last one is within the lead, so all are.
<1>12. \A i \in 1 .. m : e(i) <= e(m)
  BY <1>2, <1>9, <1>11
<1>13. e(m) + f <= Lead
  <2>1. s(m) \in Tick /\ s(1) \in Tick /\ e(m) \in Nat /\ e(m) < HalfTurn
    BY <1>2, <1>3, <1>5, <1>9
  <2>2. e(m) + f < TickModulus
    BY <1>7, <1>8, <2>1
  <2>3. Elapsed(s(m), now) = e(m) + f
    BY <1>1, <2>1, <2>2, ElapsedAdds DEF e
  <2> QED
    BY <1>1, <1>6, <1>7, <1>8, <2>1, <2>3
<1>14. ASSUME NEW i \in 1 .. m PROVE Ahead(s(i), now) = e(i) + f /\ e(i) + f \in 1 .. Lead
  <2>1. s(i) \in Tick /\ s(1) \in Tick /\ e(i) \in Nat /\ e(m) \in Nat
    BY <1>2, <1>3, <1>9
  <2>2. e(i) + f <= Lead
    BY <1>7, <1>8, <1>12, <1>13, <2>1
  <2>3. e(i) + f < TickModulus
    BY <1>7, <1>8, <2>1, <2>2
  <2>4. Elapsed(s(i), now) = e(i) + f
    BY <1>1, <2>1, <2>3, ElapsedAdds DEF e
  <2>5. Elapsed(s(i), now) < HalfTurn
    BY <1>7, <1>8, <2>1, <2>2, <2>4
  <2>6. Ahead(s(i), now) = e(i) + f
    BY <1>1, <2>1, <2>4, <2>5, AheadIsElapsed
  <2> QED
    BY <1>7, <1>8, <2>1, <2>2, <2>6
<1> HIDE DEF f
<1>15. \A i, j \in 1 .. m : i < j => Ahead(s(i), now) < Ahead(s(j), now)
  BY <1>8, <1>9, <1>11, <1>14
<1>16. \A i \in 1 .. m : s(i) \in Tick /\ Ahead(s(i), now) \in 1 .. Lead
  BY <1>3, <1>14
<1> QED
  BY <1>1, <1>2, <1>15, <1>16 DEF m, s

\* The places of the queue are bounded by its ends.
LEMMA QueueBounds ==
    ASSUME Timeline, state \in {"PRIMING", "RUNNING"}, queue # <<>>
    PROVE  /\ Len(queue) \in Nat /\ Len(queue) >= 1 /\ Age \in Nat
           /\ \A i \in 1 .. Len(queue) :
                /\ queue[i].apply_tick \in Tick /\ At(i) \in Int
                /\ At(1) <= At(i) /\ At(i) <= At(Len(queue))
                /\ -Slack <= At(i) /\ At(i) + Age <= Lead
<1>1. queue \in Seq(Setpoint) /\ now \in Tick /\ lastCommand \in Tick
  BY DEF Timeline, TypeOK
<1>2. Len(queue) \in Nat /\ Len(queue) >= 1
  BY <1>1
<1>3. \A i \in 1 .. Len(queue) : queue[i].apply_tick \in Tick
  BY <1>1, SampleTicks
<1>4. \A i \in 1 .. Len(queue) : At(i) \in Int
  BY <1>1, <1>3, AheadUnfolded DEF At
<1>5. Age \in Nat
  BY <1>1, AgeIsBehind DEF Age
<1>6. /\ \A i, j \in 1 .. Len(queue) : i < j => At(i) < At(j)
      /\ At(1) >= -Slack /\ At(Len(queue)) + Age \in 1 .. Lead
  BY DEF Timeline, QueueAhead
<1>7. 1 \in 1 .. Len(queue) /\ Len(queue) \in 1 .. Len(queue)
  BY <1>2
<1>8. \A i \in 1 .. Len(queue) : At(1) <= At(i) /\ At(i) <= At(Len(queue))
  BY <1>2, <1>4, <1>6, <1>7
<1>9. ASSUME NEW i \in 1 .. Len(queue) PROVE -Slack <= At(i) /\ At(i) + Age <= Lead
  <2>1. At(i) \in Int /\ At(1) \in Int /\ At(Len(queue)) \in Int /\ Slack \in Nat /\ Lead \in Nat
    BY <1>4, <1>7, ClockBounds
  <2> QED
    BY <1>5, <1>6, <1>8, <2>1
<1> QED
  BY <1>2, <1>3, <1>4, <1>5, <1>8, <1>9

\* The bounds a policy sets are within the caps.
LEMMA PolicyBounds ==
    ASSUME Timeline
    PROVE  /\ policy.command_timeout_ms \in Nat /\ policy.command_timeout_ms <= Timeout
           /\ policy.maximum_apply_lateness_ms \in Nat
           /\ Wait \in Nat /\ Wait + MaxSilence <= Slack
           /\ Wait = ControlTickMs - 1 + policy.maximum_apply_lateness_ms
<1>1. /\ policy.command_timeout_ms \in Nat /\ policy.command_timeout_ms <= Timeout
      /\ policy.maximum_apply_lateness_ms \in Nat
      /\ policy.maximum_apply_lateness_ms <= HardCaps.maximum_apply_lateness_ms
  BY DEF Timeline, TypeOK, PolicyCapped, Policy
<1> QED
  BY <1>1, ClockBounds DEF Wait

\* The readings the timeline compares are numbers, none half a turn away.
LEMMA RunningBounds ==
    ASSUME Timeline, state = "RUNNING"
    PROVE  /\ now \in Tick /\ lastStep \in Tick /\ lastCommand \in Tick
           /\ anchor.apply_tick \in Tick /\ controlEpoch \in Tick
           /\ Idle \in Nat /\ Idle <= MaxSilence /\ Age \in Nat
           /\ AnchorAt \in Int /\ -HalfTurn < AnchorAt /\ AnchorAt <= 0
           /\ Idle < MaxSilence => -HalfTurn + 1 < AnchorAt
           /\ GridTick(anchor.apply_tick) \in Tick
           /\ GridAt \in Int /\ GridAt - AnchorAt \in 0 .. ControlTickMs - 1 /\ GridAt <= 0
<1>1. /\ now \in Tick /\ lastStep \in Tick /\ lastCommand \in Tick
      /\ anchor.apply_tick \in Tick /\ controlEpoch \in Tick
  BY DEF Timeline, TypeOK, Setpoint
<1>2. Idle \in Nat /\ Idle <= MaxSilence /\ Age \in Nat
  BY <1>1, AgeIsBehind DEF Timeline, Running, Idle, Age
<1>3. AnchorAt \in Int /\ AnchorAt <= 0 /\ GridAt <= 0
  BY <1>1, AheadUnfolded DEF Timeline, Running, AnchorAt
<1>4. -HalfTurn < AnchorAt /\ (Idle < MaxSilence => -HalfTurn + 1 < AnchorAt)
  <2>1. CASE queue # <<>>
    <3>1. At(1) \in Int /\ At(1) >= -Wait - Idle /\ At(1) - AnchorAt <= Gap
      BY <2>1, QueueBounds DEF Timeline, Running
    <3> QED
      BY <1>2, <1>3, <3>1, PolicyBounds, ClockBounds
  <2>2. CASE queue = <<>> /\ IsOpenEnded(horizon)
    <3>1. AnchorAt >= 1 - Age /\ Age <= policy.command_timeout_ms + Idle
      BY <2>2 DEF Timeline, Running
    <3> QED
      BY <1>2, <1>3, <3>1, PolicyBounds, ClockBounds
  <2>3. CASE queue = <<>> /\ ~IsOpenEnded(horizon)
    <3>1. AnchorAt >= -Wait - Idle
      BY <2>3 DEF Timeline, Running
    <3> QED
      BY <1>2, <1>3, <3>1, PolicyBounds, ClockBounds
  <2> QED
    BY <2>1, <2>2, <2>3
<1>5. AnchorAt < HalfTurn - ControlTickMs + 1
  BY <1>3, ClockBounds
<1>6. GridTick(anchor.apply_tick) \in Tick /\ GridAt - AnchorAt \in 0 .. ControlTickMs - 1
  BY <1>1, <1>4, <1>5, GridFromNow DEF AnchorAt, GridAt
<1>7. GridAt \in Int
  BY <1>1, <1>6, AheadUnfolded DEF GridAt
<1> QED
  BY <1>1, <1>2, <1>3, <1>4, <1>6, <1>7

LEMMA TimelineInit == Init => Timeline
<1> SUFFICES ASSUME Init PROVE Timeline
  OBVIOUS
<1>1. TypeOK /\ state = "CLOSED" /\ reason = "NONE" /\ policy = ZeroPolicy
  BY TypeInit DEF Init
<1>2. PolicyCapped
  BY <1>1, ClockBounds DEF PolicyCapped, ZeroPolicy
<1> QED
  BY <1>1, <1>2 DEF Timeline, QueueAhead, Primed, Running, TimelineNeverBreaks

LEMMA TimelineOpen ==
    ASSUME NEW p \in OfferedPolicy(now), Timeline, TypeOK', Open(p, now)
    PROVE  Timeline'
<1>1. /\ state' = "PRIMING" /\ reason' = "NONE" /\ policy' = p /\ queue' = <<>>
      /\ ~outputValid'
  BY DEF Open
<1>2. p \in Policy
  BY ExecutorAssumption DEF Timeline, TypeOK
<1>3. PolicyCapped'
  BY <1>1, <1>2, ContractAssumption DEF PolicyCapped, Lead, Timeout, Open, OpenAllowed,
     PolicyAcceptable, Policy
<1>4. QueueAhead'
  <2>1. Len(queue') = 0
    BY <1>1
  <2> QED
    BY <1>1, <2>1 DEF QueueAhead
<1> QED
  BY <1>1, <1>3, <1>4 DEF Timeline, Primed, Running, TimelineNeverBreaks

\* The clock moves on.
LEMMA TimelineAdvance ==
    ASSUME Timeline, Advance, TypeOK'
    PROVE  Timeline'
<1>1. /\ now' = Plus(now, 1)
      /\ state' = state /\ reason' = reason /\ policy' = policy /\ horizon' = horizon
      /\ queue' = queue /\ anchor' = anchor /\ controlEpoch' = controlEpoch
      /\ outputValid' = outputValid /\ lastStep' = lastStep /\ lastCommand' = lastCommand
  BY DEF Advance, ending, session, motion
<1>2. PolicyCapped' /\ TimelineNeverBreaks'
  BY <1>1 DEF Timeline, PolicyCapped, TimelineNeverBreaks
<1>3. /\ now \in Tick /\ lastCommand \in Tick /\ lastStep \in Tick
      /\ Age \in Nat /\ TickModulus \in Nat /\ HalfTurn \in Nat /\ HalfTurn < TickModulus
  BY AgeIsBehind, HalfTurnIsLess, TickModulusAssumption DEF Timeline, TypeOK, Age
<1>4. Age + 1 < TickModulus => Age' = Age + 1
  BY <1>1, <1>3, ReadingAges DEF Age
<1>5. ASSUME state \in {"PRIMING", "RUNNING"}, queue # <<>>
      PROVE  /\ \A i \in 1 .. Len(queue) : At(i)' = At(i) - 1
             /\ Age' = Age + 1
  <2>1. /\ Len(queue) \in Nat /\ Len(queue) >= 1
        /\ \A i \in 1 .. Len(queue) :
             /\ queue[i].apply_tick \in Tick /\ At(i) \in Int
             /\ -Slack <= At(i) /\ At(i) + Age <= Lead
    BY <1>5, QueueBounds
  <2>2. ASSUME NEW i \in 1 .. Len(queue) PROVE At(i)' = At(i) - 1
    <3>1. -HalfTurn + 1 < At(i) /\ At(i)' = Ahead(queue[i].apply_tick, Plus(now, 1))
      <4>1. At(i) \in Int /\ -Slack <= At(i)
        BY <2>1
      <4>2. 1 + Slack < HalfTurn
        BY ClockBounds
      <4> QED
        BY <1>1, <4>1, <4>2, ClockBounds DEF At
    <3> QED
      BY <1>3, <2>1, <3>1, AheadAges DEF At
  <2>3. Age + 1 < TickModulus
    <3>1. At(1) \in Int /\ -Slack <= At(1) /\ At(1) + Age <= Lead
      BY <2>1
    <3> QED
      BY <1>3, <3>1, ClockBounds
  <2> QED
    BY <1>4, <2>2, <2>3
<1>6. ASSUME state = "PRIMING", queue # <<>> PROVE At(1) - 1 >= -MaxSilence
  <2>1. /\ At(1) \in Int /\ queue[1].apply_tick \in Tick /\ At(1) >= -MaxSilence
    BY <1>6, QueueBounds DEF Timeline, Primed
  <2>2. CASE IsAfter(queue[1].apply_tick, now)
    BY <1>3, <2>1, <2>2, AfterIsAhead, ClockBounds DEF At
  <2>3. CASE Elapsed(now, queue[1].apply_tick) < MaxSilence
    <3>1. At(1) = -Elapsed(now, queue[1].apply_tick) /\ Elapsed(now, queue[1].apply_tick) \in Nat
      <4>1. Elapsed(now, queue[1].apply_tick) \in Nat
        BY <1>3, <2>1, AgeIsBehind
      <4>2. Elapsed(now, queue[1].apply_tick) < HalfTurn
        BY <2>3, <4>1, ClockBounds
      <4> QED
        BY <1>3, <2>1, <4>1, <4>2, AgeIsBehind DEF At
    <3> QED
      BY <2>3, <3>1, ClockBounds
  <2> QED
    BY <1>6, <2>2, <2>3 DEF Advance
<1>7. state = "RUNNING" => Idle < MaxSilence
  BY DEF Advance, Idle
<1>8. ASSUME state = "RUNNING", queue # <<>> PROVE At(1) >= -Wait - Idle /\ At(1) - AnchorAt <= Gap
  BY <1>8 DEF Timeline, Running
<1>9. QueueAhead'
  <2> SUFFICES ASSUME state \in {"PRIMING", "RUNNING"} PROVE QueueAhead'
    BY <1>1 DEF QueueAhead
  <2>1. CASE queue = <<>>
    <3>1. Len(queue) = 0
      BY <2>1
    <3> QED
      BY <1>1, <2>1, <3>1 DEF QueueAhead
  <2>2. CASE queue # <<>>
    <3>1. /\ Len(queue) \in Nat /\ Len(queue) >= 1
          /\ \A i \in 1 .. Len(queue) : At(i) \in Int
      BY <2>2, QueueBounds
    <3>2. \A i, j \in 1 .. Len(queue) : i < j => At(i) < At(j)
      BY DEF Timeline, QueueAhead
    <3>3. \A i \in 1 .. Len(queue) : At(i)' = At(i) - 1
      BY <1>5, <2>2
    <3>4. \A i, j \in 1 .. Len(queue) : i < j => At(i)' < At(j)'
      BY <3>1, <3>2, <3>3
    <3>5. At(1)' >= -Slack
      <4>1. At(1) \in Int /\ At(1)' = At(1) - 1
        BY <3>1, <3>3
      <4>2. CASE state = "PRIMING"
        BY <1>6, <2>2, <4>1, <4>2, ClockBounds, SMTT(30)
      <4>3. CASE state = "RUNNING"
        <5>1. Idle \in Nat /\ Idle < MaxSilence
          BY <1>7, <4>3, RunningBounds
        <5>2. At(1) >= -Wait - Idle
          BY <1>8, <2>2, <4>3
        <5> QED
          BY <4>1, <5>1, <5>2, ClockBounds, PolicyBounds
      <4> QED
        BY <4>2, <4>3
    <3>6. At(Len(queue))' + Age' \in 1 .. Lead
      <4>1. At(Len(queue)) \in Int /\ At(Len(queue))' = At(Len(queue)) - 1
        <5>1. Len(queue) \in 1 .. Len(queue)
          BY <3>1
        <5> QED
          BY <1>1, <3>1, <3>3, <5>1 DEF At
      <4>2. At(Len(queue)) + Age \in 1 .. Lead
        BY <2>2 DEF Timeline, QueueAhead
      <4>3. Age' = Age + 1
        BY <1>5, <2>2
      <4> QED
        BY <1>3, <4>1, <4>2, <4>3
    <3> QED
      BY <1>1, <3>4, <3>5, <3>6 DEF QueueAhead
  <2> QED
    BY <2>1, <2>2
<1>10. Primed'
  <2> SUFFICES ASSUME state = "PRIMING" PROVE Primed'
    BY <1>1 DEF Primed
  <2>1. queue # <<>> => At(1)' >= -MaxSilence
    <3>1. queue # <<>> => Len(queue) \in Nat /\ Len(queue) >= 1
      BY QueueBounds
    <3> QED
      BY <1>5, <1>6, <3>1
  <2> QED
    BY <1>1, <2>1 DEF Timeline, Primed
<1>11. Running'
  <2> SUFFICES ASSUME state = "RUNNING" PROVE Running'
    BY <1>1 DEF Running
  <2>1. /\ Idle \in Nat /\ Idle < MaxSilence /\ AnchorAt \in Int /\ AnchorAt <= 0
        /\ -HalfTurn + 1 < AnchorAt /\ anchor.apply_tick \in Tick
        /\ GridTick(anchor.apply_tick) \in Tick /\ GridAt \in Int
        /\ GridAt - AnchorAt \in 0 .. ControlTickMs - 1 /\ GridAt <= 0
    BY <1>7, RunningBounds
  <2>2. Idle' = Idle + 1
    <3>1. Idle + 1 < TickModulus
      BY <1>3, <2>1, ClockBounds
    <3> QED
      BY <1>1, <1>3, <3>1, ReadingAges DEF Idle
  <2>3. AnchorAt' = AnchorAt - 1
    BY <1>1, <1>3, <2>1, AheadAges DEF AnchorAt
  <2>4. GridAt' = GridAt - 1
    <3>1. -HalfTurn + 1 < GridAt
      BY <1>3, <2>1, ClockBounds
    <3>2. GridTick(anchor.apply_tick)' = GridTick(anchor.apply_tick)
      BY <1>1 DEF GridTick
    <3> QED
      BY <1>1, <1>3, <2>1, <3>1, <3>2, AheadAges DEF GridAt
  <2>5. Wait' = Wait /\ Wait \in Nat /\ policy.command_timeout_ms \in Nat
    BY <1>1, PolicyBounds DEF Wait
  <2>6. ASSUME IsOpenEnded(horizon), outputValid
        PROVE  Age' = Age + 1 /\ Age' <= policy.command_timeout_ms + Idle'
    <3>1. Age <= policy.command_timeout_ms + Idle
      BY <2>6 DEF Timeline, Running
    <3>2. Age + 1 < TickModulus
      BY <1>3, <2>1, <2>5, <3>1, ClockBounds, PolicyBounds
    <3> QED
      BY <1>3, <1>4, <2>1, <2>2, <2>5, <3>1, <3>2
  <2>7. ASSUME queue # <<>> PROVE At(1)' >= -Wait - Idle' /\ At(1)' - AnchorAt' <= Gap
    <3>1. At(1) \in Int /\ At(1)' = At(1) - 1
      <4>1. Len(queue) \in Nat /\ Len(queue) >= 1 /\ \A i \in 1 .. Len(queue) : At(i) \in Int
        BY <2>7, QueueBounds
      <4> QED
        BY <1>5, <2>7, <4>1
    <3> QED
      BY <1>8, <2>1, <2>2, <2>3, <2>5, <2>7, <3>1, ClockBounds, SMTT(30)
  <2>8. ASSUME queue = <<>>
        PROVE  /\ outputValid
               /\ IF IsOpenEnded(horizon) THEN AnchorAt' >= 1 - Age' ELSE AnchorAt' >= -Wait - Idle'
    <3>1. /\ outputValid
          /\ IF IsOpenEnded(horizon) THEN AnchorAt >= 1 - Age ELSE AnchorAt >= -Wait - Idle
      BY <2>8 DEF Timeline, Running
    <3>2. CASE IsOpenEnded(horizon)
      BY <1>3, <2>1, <2>3, <2>6, <3>1, <3>2
    <3>3. CASE ~IsOpenEnded(horizon)
      BY <2>1, <2>2, <2>3, <2>5, <3>1, <3>3
    <3> QED
      BY <3>2, <3>3
  <2>9. Idle' <= MaxSilence /\ AnchorAt' <= 0 /\ GridAt' <= 0
    BY <2>1, <2>2, <2>3, <2>4, ClockBounds
  <2> QED
    BY <1>1, <2>5, <2>6, <2>7, <2>8, <2>9 DEF Running
<1> QED
  BY <1>2, <1>9, <1>10, <1>11 DEF Timeline

\* A batch joins the queue behind what it leaves there; if that is nothing, the
\* new head is ahead, and no further from the anchor than a head may be.
LEMMA TimelineAdmit ==
    ASSUME NEW b \in OfferedBatch(now), Timeline, TypeOK', Admit(b, now)
    PROVE  Timeline'
<1> DEFINE m == Len(b.samples)
           B(k) == Ahead(b.samples[k].apply_tick, now)
<1>1. /\ now' = now /\ state' = state /\ reason' = reason /\ policy' = policy
      /\ anchor' = anchor /\ controlEpoch' = controlEpoch /\ outputValid' = outputValid
      /\ lastStep' = lastStep /\ lastCommand' = now
      /\ queue' = Retained(b) \o b.samples
      /\ state \in {"PRIMING", "RUNNING"} /\ Admissible(b, now)
  BY DEF Admit, Admissible, ending, motion
<1>2. IsOpenEnded(horizon') = IsOpenEnded(horizon)
  BY DEF Admit, Admissible, TransitionAcceptable, HorizonAcceptable, IsOpenEnded
<1>3. /\ b \in Batch /\ m \in Nat /\ m >= 1
      /\ \A i \in 1 .. m : b.samples[i].apply_tick \in Tick /\ B(i) \in 1 .. Lead
      /\ \A i, j \in 1 .. m : i < j => B(i) < B(j)
  BY <1>1, BatchAhead
<1>4. PICK n \in 0 .. Len(queue) :
        /\ queue' \in Seq(Setpoint)
        /\ Len(queue') = n + m
        /\ \A i \in 1 .. n : queue'[i] = queue[i]
        /\ \A i \in 1 .. m : queue'[n + i] = b.samples[i]
        /\ b.kind = "APPEND" => n = Len(queue)
        /\ b.kind # "APPEND" =>
             /\ \A i \in 1 .. n : IsBefore(queue[i].apply_tick, b.splice_at_tick)
             /\ n = 0 /\ queue # <<>> =>
                  ~IsBefore(queue[1].apply_tick, b.splice_at_tick)
  BY <1>1, <1>3, AdmittedQueue DEF Timeline, TypeOK
<1>5. now \in Tick /\ queue \in Seq(Setpoint) /\ Len(queue) \in Nat /\ n \in Nat /\ n <= Len(queue)
  BY <1>4 DEF Timeline, TypeOK
<1>6. ASSUME queue # <<>>
      PROVE  \A i \in 1 .. Len(queue) :
               /\ queue[i].apply_tick \in Tick /\ At(i) \in Int
               /\ -Slack <= At(i) /\ At(i) <= Lead
  <2>1. /\ Age \in Nat /\ Lead \in Nat
        /\ \A i \in 1 .. Len(queue) :
             /\ queue[i].apply_tick \in Tick /\ At(i) \in Int
             /\ -Slack <= At(i) /\ At(i) + Age <= Lead
    BY <1>1, <1>6, QueueBounds, ClockBounds
  <2> QED
    BY <2>1
\* Which of two ticks is after the other is seen from the clock.
<1>7. ASSUME NEW i \in 1 .. Len(queue)
      PROVE  /\ At(i) \in Int /\ queue[i].apply_tick \in Tick
             /\ IsAfter(b.samples[1].apply_tick, queue[i].apply_tick) <=> B(1) > At(i)
  <2>0. queue # <<>>
    BY <1>5
  <2>1. /\ b.samples[1].apply_tick \in Tick /\ B(1) \in Int /\ B(1) >= 1 /\ B(1) <= Lead
    <3>1. 1 \in 1 .. m
      BY <1>3
    <3>2. b.samples[1].apply_tick \in Tick /\ B(1) \in 1 .. Lead
      BY <3>1, <1>3
    <3> HIDE DEF B
    <3> QED
      BY <3>2, ClockBounds
  <2>2. /\ queue[i].apply_tick \in Tick /\ At(i) \in Int /\ -Slack <= At(i) /\ At(i) <= Lead
    BY <1>6, <2>0
  <2>3. -HalfTurn < At(i) /\ -HalfTurn < B(1) - At(i) /\ B(1) - At(i) < HalfTurn
    <3> HIDE DEF B
    <3>1. Lead \in Nat /\ Slack \in Nat /\ HalfTurn \in Nat /\ Lead + Slack < HalfTurn
      BY ClockBounds
    <3> QED
      BY <2>1, <2>2, <3>1
  <2>4. Ahead(b.samples[1].apply_tick, queue[i].apply_tick) = B(1) - At(i)
    BY <1>5, <2>1, <2>2, <2>3, AheadCompares DEF At
  <2>5. IsAfter(b.samples[1].apply_tick, queue[i].apply_tick) <=> B(1) - At(i) > 0
    BY <2>1, <2>2, <2>4, AfterIsAhead
  <2> QED
    BY <2>1, <2>2, <2>5
<1> HIDE DEF m, B
<1>8. b.kind # "APPEND" => b.samples[1].apply_tick = b.splice_at_tick /\ queue # <<>>
  <2>1. ASSUME b.kind # "APPEND" PROVE b.kind = "SPLICE"
    BY <1>3, <2>1 DEF Batch
  <2> QED
    BY <1>1, <1>5, <2>1 DEF Admissible, TransitionAcceptable, SpliceAcceptable
\* The batch is after what it leaves in place.
<1>9. ASSUME n >= 1 PROVE At(n) \in Int /\ B(1) \in Int /\ At(n) < B(1)
  <2>1. n \in 1 .. Len(queue) /\ queue # <<>>
    BY <1>5, <1>9
  <2>2. IsAfter(b.samples[1].apply_tick, queue[n].apply_tick)
    <3>1. CASE b.kind = "APPEND"
      <4>1. n = Len(queue) /\ IsAfter(b.samples[1].apply_tick, LastTick(now))
        BY <1>1, <1>4, <3>1 DEF Admissible, TransitionAcceptable, AppendAcceptable
      <4> QED
        BY <2>1, <4>1 DEF LastTick
    <3>2. CASE b.kind # "APPEND"
      <4>1. n \in 1 .. n
        BY <1>5, <1>9
      <4> QED
        BY <1>4, <1>8, <3>2, <4>1 DEF IsBefore
    <3> QED
      BY <3>1, <3>2
  <2> QED
    BY <1>3, <1>7, <2>1, <2>2
\* A new head is not after the one it replaces.
<1>10. ASSUME n = 0, queue # <<>> PROVE At(1) \in Int /\ B(1) \in Int /\ B(1) <= At(1)
  <2>1. b.kind # "APPEND" /\ 1 \in 1 .. Len(queue)
    BY <1>4, <1>5, <1>10
  <2>2. ~IsAfter(b.samples[1].apply_tick, queue[1].apply_tick)
    BY <1>4, <1>8, <1>10, <2>1 DEF IsBefore
  <2>3. B(1) \in Int
    BY <1>3
  <2> QED
    BY <1>7, <2>1, <2>2, <2>3
<1>11. \A i \in 1 .. n : At(i)' = At(i) /\ i \in 1 .. Len(queue) /\ At(i) \in Int
  <2> SUFFICES ASSUME NEW i \in 1 .. n
               PROVE  At(i)' = At(i) /\ i \in 1 .. Len(queue) /\ At(i) \in Int
    OBVIOUS
  <2>1. i \in 1 .. Len(queue)
    BY <1>5
  <2>2. queue'[i] = queue[i]
    BY <1>4
  <2> QED
    BY <1>1, <1>7, <2>1, <2>2 DEF At
<1>12. \A k \in 1 .. m : At(n + k)' = B(k) /\ B(k) \in 1 .. Lead
  BY <1>1, <1>3, <1>4 DEF At, B
<1>13. QueueAhead'
  <2>1. ASSUME NEW i \in 1 .. Len(queue'), NEW j \in 1 .. Len(queue'), i < j
        PROVE  At(i)' < At(j)'
    <3>1. CASE j <= n
      <4>1. i \in 1 .. n /\ j \in 1 .. n
        BY <1>3, <1>4, <1>5, <2>1, <3>1
      <4>2. \A k, l \in 1 .. Len(queue) : k < l => At(k) < At(l)
        BY <1>1 DEF Timeline, QueueAhead
      <4> QED
        BY <1>11, <2>1, <4>1, <4>2
    <3>2. CASE i <= n /\ j > n
      <4>1. PICK l \in 1 .. m : j = n + l
        <5>1. j - n \in 1 .. m /\ j = n + (j - n)
          BY <1>3, <1>4, <1>5, <3>2
        <5> QED
          BY <5>1
      <4>2. i \in 1 .. n /\ n \in 1 .. n /\ n >= 1
        BY <1>3, <1>4, <1>5, <3>2
      <4>3. At(i) \in Int /\ At(n) \in Int /\ At(i) <= At(n)
        <5>1. \A k, h \in 1 .. Len(queue) : k < h => At(k) < At(h)
          BY <1>1 DEF Timeline, QueueAhead
        <5> QED
          BY <1>5, <1>11, <4>2, <5>1
      <4>4. B(1) \in Int /\ B(l) \in Int /\ B(1) <= B(l)
        BY <1>3, <4>1
      <4>5. At(i)' = At(i) /\ At(j)' = B(l)
        BY <1>11, <1>12, <4>1, <4>2
      <4> QED
        BY <1>9, <4>2, <4>3, <4>4, <4>5
    <3>3. CASE i > n
      <4>1. PICK k \in 1 .. m : i = n + k
        <5>1. i - n \in 1 .. m /\ i = n + (i - n)
          BY <1>3, <1>4, <1>5, <3>3
        <5> QED
          BY <5>1
      <4>2. PICK l \in 1 .. m : j = n + l
        <5>1. j - n \in 1 .. m /\ j = n + (j - n)
          BY <1>3, <1>4, <1>5, <2>1, <3>3
        <5> QED
          BY <5>1
      <4>3. k < l
        BY <1>3, <1>5, <2>1, <4>1, <4>2
      <4> QED
        BY <1>3, <1>12, <4>1, <4>2, <4>3
    <3> QED
      BY <1>3, <1>4, <1>5, <3>1, <3>2, <3>3
  <2>2. At(Len(queue))' + Age' \in 1 .. Lead
    <3>1. At(n + m)' = B(m) /\ B(m) \in 1 .. Lead
      BY <1>3, <1>12
    <3>2. Age' = 0
      <4>1. Elapsed(now, now) = 0
        BY <1>5, ElapsedUnfolded DEF Tick
      <4> QED
        BY <1>1, <4>1 DEF Age
    <3>3. At(Len(queue))' = B(m)
      BY <1>4, <3>1 DEF At
    <3> QED
      BY <3>1, <3>2, <3>3, ClockBounds, SMTT(30)
  <2>3. At(1)' >= -Slack
    <3>1. CASE n >= 1
      <4>1. At(1)' = At(1) /\ queue # <<>> /\ 1 \in 1 .. Len(queue)
        BY <1>5, <1>11, <3>1
      <4> QED
        BY <1>6, <4>1
    <3>2. CASE n = 0
      <4>1. At(1)' = B(1) /\ B(1) \in 1 .. Lead
        BY <1>3, <1>12, <3>2
      <4> QED
        BY <4>1, ClockBounds
    <3> QED
      BY <1>5, <3>1, <3>2
  <2> HIDE DEF At
  <2> QED
    BY <2>1, <2>2, <2>3 DEF QueueAhead
<1>14. ASSUME NEW x \in Int, x <= 1, queue # <<>> => At(1) >= x PROVE At(1)' >= x
  <2>1. CASE n >= 1
    <3>1. At(1)' = At(1) /\ queue # <<>>
      BY <1>5, <1>11, <2>1
    <3> QED
      BY <1>14, <3>1
  <2>2. CASE n = 0
    <3>1. At(1)' = B(1) /\ B(1) \in Int /\ B(1) >= 1
      BY <1>3, <1>12, <2>2
    <3> QED
      BY <1>14, <3>1
  <2> QED
    BY <1>5, <2>1, <2>2
<1>15. Primed'
  <2>1. state = "PRIMING" => At(1)' >= -MaxSilence
    BY <1>14, ClockBounds DEF Timeline, Primed
  <2> QED
    BY <1>1, <2>1 DEF Timeline, Primed
<1>16. Running'
  <2> SUFFICES ASSUME state = "RUNNING" PROVE Running'
    BY <1>1 DEF Running
  <2>1. /\ AnchorAt' = AnchorAt /\ GridAt' = GridAt /\ Idle' = Idle /\ Wait' = Wait
    BY <1>1 DEF AnchorAt, GridAt, GridTick, Idle, Wait
  <2>2. /\ Idle \in Nat /\ Idle <= MaxSilence /\ AnchorAt \in Int /\ AnchorAt <= 0 /\ GridAt <= 0
        /\ Wait \in Nat /\ policy.command_timeout_ms \in Nat /\ Age \in Nat
    BY RunningBounds, PolicyBounds
  <2>3. Age' = 0
    <3>1. Elapsed(now, now) = 0
      BY <1>5, ElapsedUnfolded DEF Tick
    <3> QED
      BY <1>1, <3>1 DEF Age
  <2>4. queue' # <<>>
    BY <1>3, <1>4, <1>5
  <2>5. At(1)' >= -Wait - Idle
    <3>1. queue # <<>> => At(1) >= -Wait - Idle
      BY DEF Timeline, Running
    <3> QED
      BY <1>14, <2>2, <3>1
  <2>6. At(1)' - AnchorAt <= Gap
    <3>1. CASE n >= 1
      <4>1. At(1)' = At(1) /\ queue # <<>>
        BY <1>5, <1>11, <3>1
      <4> QED
        BY <4>1 DEF Timeline, Running
    <3>2. CASE n = 0 /\ queue # <<>>
      <4>1. At(1)' = B(1) /\ B(1) \in Int /\ At(1) \in Int /\ B(1) <= At(1)
        BY <1>3, <1>10, <1>12, <3>2
      <4>2. At(1) - AnchorAt <= Gap
        BY <3>2 DEF Timeline, Running
      <4> QED
        BY <2>2, <4>1, <4>2, ClockBounds
    <3>3. CASE n = 0 /\ queue = <<>>
      <4>1. At(1)' = B(1) /\ B(1) \in 1 .. Lead
        BY <1>3, <1>12, <3>3
      <4>2. CASE IsOpenEnded(horizon)
        <5>1. AnchorAt >= 1 - Age /\ Age <= policy.command_timeout_ms + Idle
          BY <3>3, <4>2 DEF Timeline, Running
        <5>2. /\ policy.command_timeout_ms <= Timeout /\ Timeout \in Nat /\ MaxSilence \in Nat
              /\ Lead \in Nat /\ Gap \in Nat /\ Lead + Timeout + MaxSilence <= Gap
          BY PolicyBounds, ClockBounds
        <5> QED
          BY <2>2, <4>1, <5>1, <5>2
      <4>3. CASE ~IsOpenEnded(horizon)
        <5>1. AnchorAt >= -Wait - Idle
          BY <3>3, <4>3 DEF Timeline, Running
        <5> QED
          BY <2>2, <4>1, <5>1, PolicyBounds, ClockBounds, SMTT(30)
      <4> QED
        BY <4>2, <4>3
    <3> QED
      BY <1>5, <3>1, <3>2, <3>3
  <2> HIDE DEF At
  <2> QED
    BY <1>1, <2>1, <2>2, <2>3, <2>4, <2>5, <2>6 DEF Running
<1> QED
  BY <1>1, <1>13, <1>15, <1>16 DEF Timeline, PolicyCapped, TimelineNeverBreaks

\* The first sample is still ahead when a stream is started.
LEMMA TimelineStart ==
    ASSUME NEW pos \in AnchorPosition, Timeline, TypeOK', Start(now, pos)
    PROVE  Timeline'
<1>1. /\ state = "PRIMING" /\ state' = "RUNNING" /\ now' = now /\ reason' = reason
      /\ policy' = policy /\ horizon' = horizon /\ queue' = queue /\ lastCommand' = lastCommand
      /\ outputValid' = outputValid
      /\ anchor'.apply_tick = now /\ controlEpoch' = now /\ lastStep' = now
      /\ Len(queue) >= policy.minimum_start_samples
      /\ IsAfter(queue[1].apply_tick, now)
  BY DEF Start, StartAllowed, session
<1>2. /\ now \in Tick /\ queue \in Seq(Setpoint) /\ controlEpoch' \in Tick
      /\ policy.minimum_start_samples \in Nat /\ policy.minimum_start_samples >= 1 /\ ~outputValid
  BY <1>1 DEF Timeline, TypeOK, PolicyCapped, Primed, Policy
<1>3. queue # <<>>
  BY <1>1, <1>2
<1>4. /\ At(1) \in Int /\ queue[1].apply_tick \in Tick /\ At(1) <= Lead
  <2>1. /\ Len(queue) \in Nat /\ Len(queue) >= 1 /\ Age \in Nat
        /\ \A i \in 1 .. Len(queue) :
             queue[i].apply_tick \in Tick /\ At(i) \in Int /\ At(i) + Age <= Lead
    BY <1>1, <1>3, QueueBounds
  <2>2. 1 \in 1 .. Len(queue)
    BY <2>1
  <2> QED
    BY <2>1, <2>2, ClockBounds
<1>5. At(1) > 0
  BY <1>1, <1>2, <1>4, AfterIsAhead DEF At
<1>6. Elapsed(now, now) = 0 /\ Ahead(now, now) = 0
  <2>1. Elapsed(now, now) = 0
    BY <1>2, ElapsedUnfolded DEF Tick
  <2>2. Elapsed(now, now) < HalfTurn
    BY <2>1, ClockBounds
  <2> QED
    BY <1>2, <2>1, <2>2, AheadIsElapsed
<1>7. GridTick(anchor.apply_tick)' = now
  BY <1>1, <1>2, GridOfOrigin DEF GridTick
<1>8. /\ Idle' = 0 /\ AnchorAt' = 0 /\ GridAt' = 0 /\ At(1)' = At(1) /\ Wait' = Wait
  BY <1>1, <1>6, <1>7 DEF Idle, AnchorAt, GridAt, At, Wait
<1>9. QueueAhead'
  BY <1>1 DEF Timeline, QueueAhead, At, Age
<1>10. Running'
  <2>1. At(1) >= -Wait - 0 /\ At(1) - 0 <= Gap /\ 0 <= MaxSilence
    BY <1>4, <1>5, PolicyBounds, ClockBounds
  <2> QED
    BY <1>1, <1>2, <1>3, <1>8, <2>1 DEF Running
<1> QED
  BY <1>1, <1>9, <1>10 DEF Timeline, PolicyCapped, Primed, TimelineNeverBreaks

\* What a queued sample may be ahead of the clock, and behind it, fits half a
\* turn, with room for the wait for the control grid.
LEMMA LeadFits ==
    /\ Lead \in Nat /\ Slack \in Nat /\ HalfTurn \in Nat /\ ControlTickMs \in Nat
    /\ ControlTickMs - 1 <= Slack /\ Slack < HalfTurn
    /\ Lead < HalfTurn - ControlTickMs + 1
<1> DEFINE late == HardCaps.maximum_apply_lateness_ms
<1>1. /\ Lead \in Nat /\ Slack \in Nat /\ HalfTurn \in Nat /\ Gap \in Nat
      /\ ControlTickMs \in Nat /\ MaxSilence \in Nat /\ late \in Nat
      /\ Slack = ControlTickMs - 1 + late + MaxSilence
      /\ Lead + Slack <= Gap /\ Gap + Slack < HalfTurn
  BY ClockBounds
<1> HIDE DEF late
<1>2. ControlTickMs - 1 <= Slack
  BY <1>1
<1>3. Slack < HalfTurn /\ Lead + Slack < HalfTurn
  BY <1>1
<1>4. Lead < HalfTurn - ControlTickMs + 1
  BY <1>1, <1>2, <1>3
<1> QED
  BY <1>1, <1>2, <1>3, <1>4

\* Where the head of the queue is due.
LEMMA HeadOnGrid ==
    ASSUME Timeline, state = "RUNNING", queue # <<>>
    PROVE  /\ queue[1].apply_tick \in Tick /\ At(1) \in Int
           /\ -Slack <= At(1) /\ At(1) <= Lead
           /\ DueTick \in Tick /\ Ahead(DueTick, now) \in Int
           /\ Ahead(DueTick, now) - At(1) \in 0 .. ControlTickMs - 1
<1>1. /\ queue[1].apply_tick \in Tick /\ At(1) \in Int /\ -Slack <= At(1) /\ At(1) <= Lead
  <2>1. /\ Len(queue) \in Nat /\ Len(queue) >= 1 /\ Age \in Nat
        /\ \A i \in 1 .. Len(queue) : /\ queue[i].apply_tick \in Tick /\ At(i) \in Int
                                      /\ -Slack <= At(i) /\ At(i) + Age <= Lead
    BY QueueBounds
  <2>2. 1 \in 1 .. Len(queue)
    BY <2>1
  <2> QED
    BY <2>1, <2>2, ClockBounds
<1>2. -HalfTurn < At(1) /\ At(1) < HalfTurn - ControlTickMs + 1
  BY <1>1, LeadFits
<1>3. DueTick \in Tick /\ Ahead(DueTick, now) - At(1) \in 0 .. ControlTickMs - 1
  <2>1. now \in Tick /\ controlEpoch \in Tick
    BY DEF Timeline, TypeOK
  <2> QED
    BY <1>1, <1>2, <2>1, GridFromNow DEF DueTick, At
<1>4. Ahead(DueTick, now) \in Int
  BY <1>3, AheadUnfolded DEF Timeline, TypeOK
<1> QED
  BY <1>1, <1>3, <1>4

\* The clock is never behind the last step or the anchor.
LEMMA ClockInOrder ==
    ASSUME Timeline, state = "RUNNING"
    PROVE  ~TimelineBroken(now)
<1>1. /\ now \in Tick /\ lastStep \in Tick /\ anchor.apply_tick \in Tick
      /\ Idle \in Nat /\ Idle <= MaxSilence /\ AnchorAt \in Int /\ AnchorAt <= 0
  BY RunningBounds
<1>2. Idle < HalfTurn
  BY <1>1, ClockBounds
<1>3. Ahead(lastStep, now) = -Idle
  BY <1>1, <1>2, AgeIsBehind DEF Idle
<1>4. ~IsAfter(lastStep, now)
  BY <1>1, <1>3, AfterIsAhead
<1>5. ~IsAfter(anchor.apply_tick, now)
  BY <1>1, AfterIsAhead DEF AnchorAt
<1> QED
  BY <1>4, <1>5 DEF TimelineBroken, IsBefore

\* Before the head is due, the clock is between the anchor and the head.
LEMMA SpanInOrder ==
    ASSUME Timeline, state = "RUNNING", queue # <<>>, ~IsDue(now)
    PROVE  /\ Ahead(DueTick, now) > 0 /\ ~SpanBroken(now)
           /\ Span = Ahead(DueTick, now) - GridAt /\ Progress(now) = -GridAt
<1> DEFINE g == GridTick(anchor.apply_tick)
           d == Ahead(DueTick, now)
<1>1. /\ now \in Tick /\ g \in Tick /\ AnchorAt \in Int /\ -HalfTurn < AnchorAt
      /\ GridAt \in Int /\ GridAt - AnchorAt \in 0 .. ControlTickMs - 1 /\ GridAt <= 0
  BY RunningBounds
<1>2. /\ DueTick \in Tick /\ d \in Int /\ At(1) \in Int /\ d - At(1) \in 0 .. ControlTickMs - 1
  BY HeadOnGrid
<1>3. d > 0
  BY <1>1, <1>2, AfterIsAhead DEF IsDue, IsBefore
<1>4. At(1) - AnchorAt <= Gap
  BY DEF Timeline, Running
<1>5. -HalfTurn < GridAt /\ -HalfTurn < d - GridAt /\ d - GridAt < HalfTurn
  <2> HIDE DEF d
  <2>1. /\ ControlTickMs \in Nat /\ HalfTurn \in Nat /\ Gap \in Nat
        /\ Gap + ControlTickMs - 1 < HalfTurn
    BY ClockBounds
  <2> QED
    BY <1>1, <1>2, <1>3, <1>4, <2>1
<1>6. Ahead(DueTick, g) = d - GridAt
  BY <1>1, <1>2, <1>5, AheadCompares DEF GridAt
<1>7. Span = d - GridAt
  <2>1. Ahead(DueTick, g) >= 0
    <3> HIDE DEF d
    <3> QED
      BY <1>1, <1>2, <1>3, <1>6
  <2> QED
    BY <1>1, <1>2, <1>6, <2>1, AheadIsElapsed DEF Span
<1>8. Progress(now) = -GridAt
  BY <1>1, <1>5, AgeIsBehind DEF Progress, GridAt
<1> HIDE DEF d
<1>9. Span # 0 /\ ~(Progress(now) > Span)
  BY <1>1, <1>2, <1>3, <1>7, <1>8
<1> QED
  BY <1>3, <1>7, <1>8, <1>9 DEF SpanBroken, d

\* A step that holds or interpolates leaves the plan where it is.
LEMMA TimelineWaits ==
    ASSUME Timeline, TypeOK', StepHold(now) \/ StepInterpolate(now)
    PROVE  Timeline'
<1>1. /\ state = "RUNNING" /\ state' = "RUNNING" /\ now' = now /\ reason' = reason
      /\ policy' = policy /\ horizon' = horizon /\ queue' = queue /\ anchor' = anchor
      /\ controlEpoch' = controlEpoch /\ lastCommand' = lastCommand
      /\ outputValid' /\ lastStep' = now /\ ~CommandTimedOut(now)
  BY DEF StepHold, StepInterpolate, StepHasSample, StepBegins, Emit, ending, session
<1>2. now \in Tick /\ Elapsed(now, now) = 0
  BY ElapsedUnfolded DEF Timeline, TypeOK, Tick
<1>3. /\ Idle' = 0 /\ AnchorAt' = AnchorAt /\ GridAt' = GridAt /\ At(1)' = At(1)
      /\ Wait' = Wait /\ Age' = Age
  BY <1>1, <1>2 DEF Idle, AnchorAt, GridAt, GridTick, At, Wait, Age
<1>4. /\ Wait \in Nat /\ AnchorAt \in Int /\ AnchorAt <= 0 /\ GridAt <= 0 /\ Age \in Nat
      /\ policy.command_timeout_ms \in Nat
      /\ Wait = ControlTickMs - 1 + policy.maximum_apply_lateness_ms
      /\ policy.maximum_apply_lateness_ms \in Nat
  BY <1>1, RunningBounds, PolicyBounds
<1>5. IsOpenEnded(horizon) => Age <= policy.command_timeout_ms + 0
  BY <1>1, <1>4 DEF CommandTimedOut, Age
<1>6. ASSUME queue # <<>> PROVE At(1) >= -Wait - 0 /\ At(1) - AnchorAt <= Gap
  <2>1. StepInterpolate(now) /\ ~IsDue(now)
    BY <1>6 DEF StepHold, StepInterpolate
  <2>2. Ahead(DueTick, now) > 0
    BY <1>1, <1>6, <2>1, SpanInOrder
  <2>3. /\ At(1) \in Int /\ Ahead(DueTick, now) \in Int
        /\ Ahead(DueTick, now) - At(1) \in 0 .. ControlTickMs - 1
    BY <1>1, <1>6, HeadOnGrid
  <2>4. At(1) >= -Wait - 0
    BY <1>4, <2>2, <2>3, ClockBounds
  <2> QED
    BY <1>1, <1>6, <2>4 DEF Timeline, Running
<1>7. ASSUME queue = <<>> PROVE IsOpenEnded(horizon) /\ AnchorAt >= 1 - Age
  <2>1. IsOpenEnded(horizon)
    BY <1>7 DEF StepHold, StepInterpolate, StepHasSample
  <2> QED
    BY <1>1, <1>7, <2>1 DEF Timeline, Running
<1>8. Running'
  BY <1>1, <1>3, <1>4, <1>5, <1>6, <1>7, ClockBounds DEF Running
<1>9. QueueAhead'
  BY <1>1 DEF Timeline, QueueAhead, At, Age
<1> QED
  BY <1>1, <1>8, <1>9 DEF Timeline, PolicyCapped, Primed, TimelineNeverBreaks

\* An applied sample becomes the anchor, on time by the grid.
LEMMA TimelineApply ==
    ASSUME Timeline, TypeOK', StepApply(now)
    PROVE  Timeline'
<1>1. /\ state = "RUNNING" /\ now' = now /\ policy' = policy /\ horizon' = horizon
      /\ queue # <<>> /\ queue' = WithoutFirst /\ anchor' = queue[1]
      /\ controlEpoch' = controlEpoch /\ lastCommand' = lastCommand
      /\ outputValid' /\ lastStep' = now /\ ~CommandTimedOut(now)
      /\ IsDue(now) /\ Lateness(now) <= policy.maximum_apply_lateness_ms
      /\ state' \in {"RUNNING", "SUCCEEDED"} /\ reason' \in {reason, "PLANNED_HORIZON"}
  BY DEF StepApply, StepHasSample, StepBegins, Emit, Terminate, ending
<1>2. now \in Tick /\ Elapsed(now, now) = 0 /\ queue \in Seq(Setpoint)
  BY ElapsedUnfolded DEF Timeline, TypeOK, Tick
<1>3. /\ queue[1].apply_tick \in Tick /\ At(1) \in Int /\ -Slack <= At(1)
      /\ DueTick \in Tick /\ Ahead(DueTick, now) \in Int
      /\ Ahead(DueTick, now) - At(1) \in 0 .. ControlTickMs - 1
  BY <1>1, HeadOnGrid
<1>4. /\ Wait \in Nat /\ Age \in Nat /\ policy.command_timeout_ms \in Nat
      /\ Wait + MaxSilence <= Slack
      /\ Wait = ControlTickMs - 1 + policy.maximum_apply_lateness_ms
      /\ policy.maximum_apply_lateness_ms \in Nat
  BY <1>1, RunningBounds, PolicyBounds
<1>5. Ahead(DueTick, now) <= 0
  BY <1>1, <1>2, <1>3, AfterIsAhead DEF IsDue, IsBefore
<1>6. At(1) >= -Wait /\ At(1) <= 0
  <2>1. -HalfTurn < Ahead(DueTick, now)
    BY <1>3, ClockBounds
  <2>2. Lateness(now) = -Ahead(DueTick, now)
    BY <1>2, <1>3, <1>5, <2>1, AgeIsBehind DEF Lateness
  <2>3. ControlTickMs \in Nat
    BY ClockBounds
  <2> QED
    BY <1>1, <1>3, <1>4, <1>5, <2>2, <2>3
<1>7. /\ Idle' = 0 /\ AnchorAt' = At(1) /\ GridAt' = Ahead(DueTick, now)
      /\ Wait' = Wait /\ Age' = Age
  BY <1>1, <1>2 DEF Idle, AnchorAt, GridAt, GridTick, DueTick, At, Wait, Age
<1>8. /\ Len(queue) \in Nat /\ Len(queue) >= 1 /\ Len(queue') = Len(queue) - 1
      /\ \A i \in 1 .. Len(queue') : queue'[i] = queue[i + 1]
  BY <1>1, <1>2, ConsumedQueue
<1>9. \A i \in 1 .. Len(queue) - 1 : At(i)' = At(i + 1)
  BY <1>1, <1>8 DEF At
<1>10. /\ \A i \in 1 .. Len(queue) :
            At(i) \in Int /\ At(i) + Age <= Lead
       /\ \A i, j \in 1 .. Len(queue) : i < j => At(i) < At(j)
       /\ At(Len(queue)) + Age \in 1 .. Lead
  BY <1>1, QueueBounds DEF Timeline, QueueAhead
<1>11. queue' # <<>> => Len(queue) >= 2
  BY <1>2, <1>8 DEF TypeOK
<1>12. ASSUME queue' # <<>>
       PROVE  /\ At(1)' \in Int /\ At(1)' > At(1) /\ At(1)' + Age <= Lead
              /\ At(Len(queue))' = At(Len(queue))
  <2>1. 1 \in 1 .. Len(queue) - 1 /\ 2 \in 1 .. Len(queue) /\ 1 \in 1 .. Len(queue)
    BY <1>8, <1>11, <1>12
  <2>2. At(1)' = At(2)
    BY <1>9, <2>1
  <2>3. At(Len(queue))' = At(Len(queue))
    <3>1. /\ Len(queue) - 1 \in 1 .. Len(queue') /\ (Len(queue) - 1) + 1 = Len(queue)
      BY <1>8, <1>11, <1>12
    <3>2. queue'[Len(queue')] = queue[Len(queue)]
      BY <1>8, <3>1
    <3> QED
      BY <1>1, <3>2 DEF At
  <2> QED
    BY <1>10, <2>1, <2>2, <2>3
<1>13. QueueAhead'
  <2>1. ASSUME NEW i \in 1 .. Len(queue'), NEW j \in 1 .. Len(queue'), i < j
        PROVE  At(i)' < At(j)'
    <3>1. /\ i \in 1 .. Len(queue) - 1 /\ j \in 1 .. Len(queue) - 1
          /\ i + 1 \in 1 .. Len(queue) /\ j + 1 \in 1 .. Len(queue) /\ i + 1 < j + 1
      BY <1>8, <2>1
    <3> QED
      BY <1>9, <1>10, <3>1
  <2>2. queue' # <<>> => At(1)' >= -Slack
    BY <1>3, <1>12, ClockBounds
  <2>3. queue' # <<>> => At(Len(queue))' + Age' \in 1 .. Lead
    BY <1>7, <1>10, <1>12
  <2> HIDE DEF At
  <2> QED
    BY <2>1, <2>2, <2>3 DEF QueueAhead
<1>14. Running'
  <2>1. 0 <= MaxSilence /\ At(1) <= 0 /\ Ahead(DueTick, now) <= 0
    BY <1>5, <1>6, ClockBounds
  <2>2. IsOpenEnded(horizon) => Age <= policy.command_timeout_ms + 0
    BY <1>1, <1>4 DEF CommandTimedOut, Age
  <2>3. ASSUME queue' # <<>> PROVE At(1)' >= -Wait - 0 /\ At(1)' - At(1) <= Gap
    <3>1. At(1)' \in Int /\ At(1)' > At(1) /\ At(1)' + Age <= Lead
      BY <1>12, <2>3
    <3> HIDE DEF At
    <3>2. At(1)' >= -Wait - 0
      BY <1>3, <1>4, <1>6, <3>1
    <3>3. Lead \in Nat /\ Slack \in Nat /\ Gap \in Nat /\ Lead + Slack <= Gap /\ MaxSilence \in Nat
      BY ClockBounds
    <3> QED
      BY <1>3, <1>4, <1>6, <3>1, <3>2, <3>3
  <2>4. ASSUME queue' = <<>> PROVE At(1) >= 1 - Age /\ At(1) >= -Wait - 0
    <3>1. Len(queue) = 1
      <4>1. Len(queue') = 0
        BY <2>4
      <4> QED
        BY <1>8, <4>1
    <3>2. At(1) + Age \in 1 .. Lead
      BY <1>10, <3>1
    <3> QED
      BY <1>3, <1>4, <1>6, <3>2, ClockBounds
  <2> HIDE DEF At
  <2> QED
    BY <1>1, <1>7, <2>1, <2>2, <2>3, <2>4 DEF Running
<1> QED
  BY <1>1, <1>13, <1>14 DEF Timeline, PolicyCapped, Primed, TimelineNeverBreaks

LEMMA TimelineStep ==
    ASSUME Timeline, TypeOK', Step(now)
    PROVE  Timeline'
<1>1. CASE StepTimelineBroken(now)
  BY <1>1, ClockInOrder DEF StepTimelineBroken
<1>2. CASE StepSpanBroken(now)
  BY <1>2, SpanInOrder DEF StepSpanBroken, StepHasSample, StepBegins
<1>3. CASE StepCommandTimeout(now) \/ StepUnderflow(now) \/ StepMissed(now)
  <2>1. /\ state' \in {"HOLD", "ABORTED"} /\ policy' = policy
        /\ reason' \in {"COMMAND_TIMEOUT", "QUEUE_UNDERFLOW", "MISSED_APPLY_TICK"}
    BY <1>3 DEF StepCommandTimeout, StepUnderflow, StepMissed, Terminate, session
  <2> QED
    BY <2>1 DEF Timeline, PolicyCapped, QueueAhead, Primed, Running, TimelineNeverBreaks
<1>4. CASE StepHold(now) \/ StepInterpolate(now)
  BY <1>4, TimelineWaits
<1>5. CASE StepApply(now)
  BY <1>5, TimelineApply
<1> QED
  BY <1>1, <1>2, <1>3, <1>4, <1>5 DEF Step

LEMMA TimelineNext == Timeline /\ [Next]_vars => Timeline'
<1> SUFFICES ASSUME Timeline, [Next]_vars PROVE Timeline'
  OBVIOUS
<1>1. TypeOK'
  BY TypeStep DEF Timeline
<1>2. CASE TrackingFault
  <2>1. state' = "ABORTED" /\ reason' = "TRACKING_ERROR" /\ policy' = policy
    BY <1>2 DEF TrackingFault, Terminate, session
  <2> QED
    BY <1>1, <2>1 DEF Timeline, PolicyCapped, QueueAhead, Primed, Running, TimelineNeverBreaks
<1>3. CASE UNCHANGED vars
  BY <1>1, <1>3 DEF vars, ending, session, motion, counters, Timeline, PolicyCapped, QueueAhead,
     Primed, Running, TimelineNeverBreaks, At, AnchorAt, GridAt, GridTick, Idle, Age, Wait
<1> QED
  BY <1>1, <1>2, <1>3, TimelineAdvance, TimelineOpen, TimelineAdmit, TimelineStart, TimelineStep
     DEF Next, Refuse, CheckJointFeedback, CheckFeedback

LEMMA AlwaysInTime == Spec => []Timeline
<1> QED
  BY TimelineInit, TimelineNext, PTL DEF Spec

\* actuator_v2_stream_executor_step: a setpoint is never applied before its tick.
THEOREM NothingIsEarly == Spec => []NotAppliedEarly
<1>1. Timeline => NotAppliedEarly
  <2> SUFFICES ASSUME Timeline, state = "RUNNING" PROVE ~IsAfter(anchor.apply_tick, now)
    BY DEF NotAppliedEarly
  <2>1. now \in Tick /\ anchor.apply_tick \in Tick /\ AnchorAt \in Int /\ AnchorAt <= 0
    BY RunningBounds
  <2> QED
    BY <2>1, AfterIsAhead DEF AnchorAt
<1> QED
  BY AlwaysInTime, <1>1, PTL

\* INVALID_TIMELINE, the executor's own check of its anchor, grid and queue,
\* never ends a stream, across every wrap of the clock.
THEOREM TimelineHolds == Spec => []TimelineNeverBreaks
<1>1. Timeline => TimelineNeverBreaks
  BY DEF Timeline
<1> QED
  BY AlwaysInTime, <1>1, PTL

\* A deadline that is at most w in the past is not w before the clock.
LEMMA NotOverdue ==
    ASSUME NEW t \in Tick, now \in Tick, NEW w \in Nat, w < HalfTurn,
           Ahead(t, now) >= -w, Ahead(t, now) + w < HalfTurn
    PROVE  ~IsAfter(now, Plus(t, w))
<1>1. HalfTurn \in Nat /\ Ahead(t, now) \in Int
  BY ClockBounds, AheadUnfolded
<1>2. Plus(t, w) \in Tick /\ Ahead(Plus(t, w), t) = w
  BY <1>1, AheadOfPlus
<1>3. Ahead(Plus(t, w), now) = w + Ahead(t, now)
  BY <1>1, <1>2, AheadAdds
<1>4. Ahead(now, Plus(t, w)) = -(w + Ahead(t, now))
  BY <1>1, <1>2, <1>3, AheadReverses
<1> QED
  BY <1>1, <1>2, <1>4, AfterIsAhead

\* A moving stream is over in time after its plan ended or its host fell silent.
THEOREM StreamEndsOnTime == Spec => []EndsOnTime
<1>1. Timeline => EndsOnTime
  <2> DEFINE w == Wait + MaxSilence
  <2> SUFFICES ASSUME Timeline, state = "RUNNING", outputValid
               PROVE  ~IsAfter(now, Plus(PlanOver, w))
    BY DEF EndsOnTime, Wait
  <2>1. /\ now \in Tick /\ lastCommand \in Tick /\ anchor.apply_tick \in Tick
        /\ Idle \in Nat /\ Idle <= MaxSilence /\ Age \in Nat /\ AnchorAt \in Int /\ AnchorAt <= 0
    BY RunningBounds
  <2>2. /\ Wait \in Nat /\ policy.command_timeout_ms \in Nat /\ policy.command_timeout_ms <= Timeout
        /\ Wait + MaxSilence <= Slack
    BY PolicyBounds
  <2>3. /\ MaxSilence \in Nat /\ Lead \in Nat /\ Timeout \in Nat /\ Slack \in Nat
        /\ HalfTurn \in Nat /\ Lead + Slack < HalfTurn /\ Timeout + MaxSilence + Slack < HalfTurn
    BY ClockBounds
  <2>4. w \in Nat /\ w < HalfTurn
    BY <2>2, <2>3
  <2>5. PlanOver \in Tick /\ Ahead(PlanOver, now) >= -w /\ Ahead(PlanOver, now) + w < HalfTurn
    <3>1. CASE IsOpenEnded(horizon)
      <4>1. Age <= policy.command_timeout_ms + Idle
        BY <3>1 DEF Timeline, Running
      <4>2. Ahead(lastCommand, now) = -Age
        <5>1. Age < HalfTurn
          BY <2>1, <2>2, <2>3, <4>1
        <5> QED
          BY <2>1, <5>1, AgeIsBehind DEF Age
      <4>3. PlanOver \in Tick /\ Ahead(PlanOver, lastCommand) = policy.command_timeout_ms
        <5>1. -HalfTurn < policy.command_timeout_ms /\ policy.command_timeout_ms < HalfTurn
          BY <2>2, <2>3
        <5> QED
          BY <2>1, <2>2, <3>1, <5>1, AheadOfPlus DEF PlanOver
      <4>4. Ahead(PlanOver, now) = policy.command_timeout_ms - Age
        <5>1. /\ -HalfTurn < Ahead(PlanOver, lastCommand) + Ahead(lastCommand, now)
              /\ Ahead(PlanOver, lastCommand) + Ahead(lastCommand, now) < HalfTurn
          BY <2>1, <2>2, <2>3, <4>1, <4>2, <4>3
        <5>2. Ahead(PlanOver, now) = Ahead(PlanOver, lastCommand) + Ahead(lastCommand, now)
          BY <2>1, <4>3, <5>1, AheadAdds
        <5> QED
          BY <2>1, <2>2, <4>2, <4>3, <5>2
      <4> QED
        BY <2>1, <2>2, <2>3, <4>1, <4>3, <4>4
    <3>2. CASE ~IsOpenEnded(horizon) /\ queue = <<>>
      <4>1. PlanOver = anchor.apply_tick /\ AnchorAt >= -Wait - Idle
        BY <3>2 DEF PlanOver, Timeline, Running
      <4>2. Ahead(PlanOver, now) = AnchorAt
        BY <4>1 DEF AnchorAt
      <4> QED
        BY <2>1, <2>2, <2>3, <2>4, <4>1, <4>2
    <3>3. CASE ~IsOpenEnded(horizon) /\ queue # <<>>
      <4>1. /\ Len(queue) \in Nat /\ Len(queue) >= 1
            /\ \A i \in 1 .. Len(queue) :
                 /\ queue[i].apply_tick \in Tick /\ At(i) \in Int
                 /\ At(1) <= At(i) /\ At(i) + Age <= Lead
        BY <3>3, QueueBounds
      <4>2. At(1) >= -Wait - Idle
        BY <3>3 DEF Timeline, Running
      <4>3. PlanOver = queue[Len(queue)].apply_tick
        BY <3>3 DEF PlanOver
      <4>4. 1 \in 1 .. Len(queue) /\ Len(queue) \in 1 .. Len(queue)
        BY <4>1
      <4>5. PlanOver \in Tick /\ Ahead(PlanOver, now) = At(Len(queue))
        BY <4>1, <4>3, <4>4 DEF At
      <4>6. /\ At(1) \in Int /\ At(Len(queue)) \in Int /\ At(1) <= At(Len(queue))
            /\ At(Len(queue)) + Age <= Lead
        BY <4>1, <4>4
      <4> QED
        BY <2>1, <2>2, <2>3, <4>2, <4>5, <4>6
    <3> QED
      BY <3>1, <3>2, <3>3
  <2> HIDE DEF w
  <2> QED
    BY <2>1, <2>4, <2>5, NotOverdue
<1> QED
  BY AlwaysInTime, <1>1, PTL
-----------------------------------------------------------------------------
(***************************************************************************)
(* How far an interpolated posture moves.                                  *)
(***************************************************************************)
\* Two shares of a distance that is covered at no more than a step per control
\* tick c differ by no more than the steps of the ticks between them.
LEMMA ShareMoves ==
    ASSUME NEW d \in Nat, NEW step \in Nat, NEW c \in Nat \ {0}, NEW s \in Nat \ {0},
           NEW n \in Nat, NEW e \in Nat, NEW f \in Nat,
           e <= f, f <= e + n * c, d * c <= step * s
    PROVE  (d * f) \div s - (d * e) \div s \in 0 .. step * n
<1> DEFINE q == (d * e) \div s
           r == (d * f) \div s
           de == d * e
           df == d * f
           k == step * n
<1>1. /\ de \in Nat /\ df \in Nat /\ k \in Nat
      /\ n * c \in Nat /\ d * c \in Nat /\ step * s \in Nat
  BY Z3
<1>2. q \in Int /\ q * s <= de /\ de < (q + 1) * s
  BY <1>1, Z3
<1>3. r \in Int /\ r * s <= df /\ df < (r + 1) * s
  BY <1>1, Z3
<1>4. de <= df
  BY ProductMonotone, Z3
<1>5. df <= de + k * s
  <2>1. f * d <= (e + n * c) * d
    BY <1>1, ProductMonotone
  <2>2. (d * c) * n <= (step * s) * n
    BY <1>1, ProductMonotone
  <2>3. (e + n * c) * d = de + (d * c) * n /\ (step * s) * n = k * s /\ f * d = df
    BY Z3
  <2>4. /\ f * d \in Int /\ (e + n * c) * d \in Int /\ (d * c) * n \in Int
        /\ (step * s) * n \in Int /\ k * s \in Int
    BY Z3
  <2> QED
    BY <1>1, <2>1, <2>2, <2>3, <2>4
<1> HIDE DEF q, r, de, df, k
<1>6. q <= r
  <2> SUFFICES ASSUME r + 1 <= q PROVE FALSE
    BY <1>2, <1>3
  <2>1. (r + 1) * s <= q * s
    BY <1>2, <1>3, ProductMonotone
  <2>2. (r + 1) * s \in Int /\ q * s \in Int
    BY <1>2, <1>3
  <2> QED
    BY <1>1, <1>2, <1>3, <1>4, <2>1, <2>2
<1>7. r <= q + k
  <2> SUFFICES ASSUME (q + 1) + k <= r PROVE FALSE
    BY <1>1, <1>2, <1>3
  <2>1. ((q + 1) + k) * s <= r * s
    BY <1>1, <1>2, <1>3, ProductMonotone
  <2>2. ((q + 1) + k) * s = (q + 1) * s + k * s
    BY <1>1, <1>2, Z3
  <2>3. (q + 1) * s \in Int /\ k * s \in Int /\ r * s \in Int
    BY <1>1, <1>2, <1>3
  <2> QED
    BY <1>1, <1>2, <1>3, <1>5, <2>1, <2>2, <2>3
<1> QED
  BY <1>1, <1>2, <1>3, <1>6, <1>7 DEF q, r, k

\* A share of a distance in C, with the sign taken out.
LEMMA ShareSigned ==
    ASSUME NEW d \in Int, NEW e \in Nat, NEW s \in Nat \ {0}
    PROVE  CDiv(d * e, s) = IF d >= 0 THEN (d * e) \div s ELSE -(((-d) * e) \div s)
<1>1. CASE d >= 0
  <2>1. d * e >= 0
    BY <1>1, Z3
  <2> QED
    BY <1>1, <2>1 DEF CDiv
<1>2. CASE d < 0 /\ e = 0
  <2>1. d * e = 0 /\ (-d) * e = 0
    BY <1>2, Z3
  <2>2. 0 \div s = 0
    BY Z3
  <2> QED
    BY <1>2, <2>1, <2>2 DEF CDiv
<1>3. CASE d < 0 /\ e # 0
  <2>1. ~(d * e >= 0) /\ -(d * e) = (-d) * e
    BY <1>3, Z3
  <2> QED
    BY <1>3, <2>1 DEF CDiv
<1> QED
  BY <1>1, <1>2, <1>3

\* Between two setpoints a step per control tick apart, no joint moves further
\* than the steps of the control ticks between two points of the way.
LEMMA BetweenMoves ==
    ASSUME NEW from \in Position, NEW to \in Position, NEW j \in Joint, NEW step \in Nat,
           NEW s \in Nat \ {0}, NEW n \in Nat, NEW e \in Nat, NEW f \in Nat,
           e <= f, f <= e + n * ControlTickMs,
           Distance(from[j], to[j]) * ControlTickMs <= step * s
    PROVE  Distance(Between(from, to, e, s)[j], Between(from, to, f, s)[j]) <= step * n
<1> DEFINE x == from[j]
           y == to[j]
           d == Distance(x, y)
           u == (d * e) \div s
           v == (d * f) \div s
<1>1. x \in Int /\ y \in Int
  BY DEF Position
<1>2. d \in Nat /\ (y >= x => d = y - x) /\ (y < x => d = -(y - x) /\ y - x < 0)
  BY <1>1 DEF Distance
<1>3. ControlTickMs \in Nat \ {0}
  BY ContractAssumption
<1> HIDE DEF x, y, d
<1>4. v - u \in 0 .. step * n
  BY <1>2, <1>3, ShareMoves DEF x, y, d
<1>5. u \in Int /\ v \in Int /\ step * n \in Int
  <2>1. d * e \in Int /\ d * f \in Int
    BY <1>2, Z3
  <2> QED
    BY <2>1, Z3
<1>6. /\ Between(from, to, e, s)[j] = x + CDiv((y - x) * e, s)
      /\ Between(from, to, f, s)[j] = x + CDiv((y - x) * f, s)
  BY DEF Between, x, y
<1>7. CASE y >= x
  <2>1. y - x \in Int /\ y - x >= 0 /\ y - x = d
    BY <1>1, <1>2, <1>7
  <2>2. CDiv((y - x) * e, s) = u /\ CDiv((y - x) * f, s) = v
    BY <2>1, ShareSigned
  <2> HIDE DEF u, v
  <2> QED
    BY <1>1, <1>4, <1>5, <1>6, <2>2 DEF Distance
<1>8. CASE y < x
  <2>1. y - x \in Int /\ ~(y - x >= 0) /\ -(y - x) = d
    BY <1>1, <1>2, <1>8
  <2>2. CDiv((y - x) * e, s) = -u /\ CDiv((y - x) * f, s) = -v
    BY <2>1, ShareSigned
  <2> HIDE DEF u, v
  <2> QED
    BY <1>1, <1>4, <1>5, <1>6, <2>2 DEF Distance
<1> QED
  BY <1>1, <1>7, <1>8

\* The way begins at the one and ends at the other setpoint.
LEMMA BetweenEnds ==
    ASSUME NEW from \in Position, NEW to \in Position, NEW s \in Nat \ {0}
    PROVE  Between(from, to, 0, s) = from /\ Between(from, to, s, s) = to
<1>1. ASSUME NEW j \in Joint
      PROVE  /\ from[j] + CDiv((to[j] - from[j]) * 0, s) = from[j]
             /\ from[j] + CDiv((to[j] - from[j]) * s, s) = to[j]
  <2> DEFINE d == to[j] - from[j]
  <2>1. d \in Int /\ from[j] \in Int /\ to[j] \in Int /\ to[j] = from[j] + d
    BY DEF Position
  <2> HIDE DEF d
  <2>2. /\ CDiv(d * 0, s) = IF d >= 0 THEN (d * 0) \div s ELSE -(((-d) * 0) \div s)
        /\ CDiv(d * s, s) = IF d >= 0 THEN (d * s) \div s ELSE -(((-d) * s) \div s)
    BY <2>1, ShareSigned
  <2>3. d * 0 = 0 /\ (-d) * 0 = 0 /\ 0 \div s = 0
    BY <2>1, Z3
  <2>4. (d * s) \div s = d /\ ((-d) * s) \div s = -d
    BY <2>1, Z3
  <2>5. CDiv(d * 0, s) = 0 /\ CDiv(d * s, s) = d
    BY <2>1, <2>2, <2>3, <2>4
  <2> QED
    BY <2>1, <2>5 DEF d
<1>2. from = [j \in Joint |-> from[j]] /\ to = [j \in Joint |-> to[j]]
  BY DEF Position
<1> QED
  BY <1>1, <1>2 DEF Between

\* The control ticks a time takes cover it, and no more than one is not full.
LEMMA TicksCover ==
    ASSUME NEW x \in Nat
    PROVE  /\ TicksOver(x) \in Nat /\ TicksOver(x) * ControlTickMs \in Nat
           /\ x <= TicksOver(x) * ControlTickMs
           /\ TicksOver(x) * ControlTickMs <= x + ControlTickMs - 1
<1> DEFINE c == ControlTickMs
           z == x + c - 1
           q == z \div c
<1>1. c \in Nat /\ c >= 1
  BY ContractAssumption
<1> HIDE DEF c
<1>2. z \in Nat
  BY <1>1
<1> HIDE DEF z
<1>3. q \in Nat /\ q * c <= z /\ z < q * c + c /\ q * c \in Nat
  BY <1>1, <1>2, Z3
<1> HIDE DEF q
<1> QED
  BY <1>1, <1>2, <1>3 DEF TicksOver, c, z, q

-----------------------------------------------------------------------------
(***************************************************************************)
(* The step limit of the outputs.  Seen from the clock, the last step lies *)
(* somewhere on the way from the anchor to the head of the queue, and the  *)
(* output is the posture of a point of that way no more than a control     *)
(* tick behind (a sample may have been applied late).  The way is no       *)
(* shorter, in ticks of the control grid, than the step limit asks for:    *)
(* this is what fails when a plan is laid across the end of the turn of    *)
(* the clock that began with the start.                                    *)
(***************************************************************************)
Since == Elapsed(now, controlEpoch)

\* The length of the way on the grid, and where on it the last step was.
WayLength == Ahead(DueTick, now) - GridAt
LastProgress == -GridAt - Idle

\* Everything planned lies in the first turn of the clock.
FirstTurn ==
    state = "RUNNING" /\ ~gridAged =>
        /\ Since + Lead + ControlTickMs < TickModulus
        /\ \A i \in 1 .. Len(queue) : Since + At(i) >= 0

\* Neighbouring samples are whole control ticks apart, and within the limit.
Continues(from, to) ==
    LET gap == Elapsed(to.apply_tick, from.apply_tick)
    IN  /\ gap % ControlTickMs = 0
        /\ WithinSteps(policy, from.position_urad, to.position_urad, gap \div ControlTickMs)

PlanContinuous ==
    state \in {"PRIMING", "RUNNING"} /\ splices = 0 =>
        \A i \in 1 .. Len(queue) - 1 : Continues(queue[i], queue[i + 1])

Fed == state = "RUNNING" /\ splices = 0 /\ ~ranDry /\ ~gridAged

HeadInReach ==
    Fed /\ queue # <<>> =>
        /\ WayLength >= 1
        /\ \A j \in Joint :
             Distance(anchor.position_urad[j], queue[1].position_urad[j]) * ControlTickMs
               <= policy.maximum_step_urad_per_tick[j] * WayLength

OutputOnWay ==
    Fed /\ outputValid =>
        IF queue = <<>> THEN output = anchor.position_urad
        ELSE \E e \in 0 .. WayLength :
               /\ LastProgress - ControlTickMs <= e /\ e <= LastProgress
               /\ output = Between(anchor.position_urad, queue[1].position_urad, e, WayLength)

\* A policy in force allows no joint to move backwards.
StepsAllowed ==
    state \in {"PRIMING", "RUNNING"} =>
        \A j \in Joint : policy.maximum_step_urad_per_tick[j] \in Nat

StepLimited == StepsAllowed /\ FirstTurn /\ PlanContinuous /\ HeadInReach /\ OutputOnWay

\* The control grid that begins at o.
GridFrom(o, t) ==
    Plus(o, (((Elapsed(t, o) + ControlTickMs - 1) % TickModulus) \div ControlTickMs)
                * ControlTickMs)

\* The place of a tick of the first turn on the grid, seen from the clock u.
LEMMA GridInFirstTurn ==
    ASSUME NEW t \in Tick, NEW u \in Tick, NEW o \in Tick,
           -HalfTurn < Ahead(t, u), Ahead(t, u) < HalfTurn - ControlTickMs + 1,
           0 <= Elapsed(u, o) + Ahead(t, u),
           Elapsed(u, o) + Ahead(t, u) + ControlTickMs <= TickModulus
    PROVE  Ahead(GridFrom(o, t), u)
             = TicksOver(Elapsed(u, o) + Ahead(t, u)) * ControlTickMs - Elapsed(u, o)
<1> DEFINE a == Ahead(t, u)
           y == Elapsed(u, o)
           E == y + a
           c == ControlTickMs
           k == TicksOver(E) * c
           g == GridFrom(o, t)
<1>1. /\ c \in Nat /\ c >= 1 /\ TickModulus \in Nat /\ HalfTurn \in Nat
      /\ c - 1 < HalfTurn /\ HalfTurn < TickModulus
  BY ClockBounds, HalfTurnIsLess, TickModulusAssumption
<1>2. /\ y = IF u < o THEN u - o + TickModulus ELSE u - o
      /\ y \in Nat /\ y < TickModulus
      /\ u \in Nat /\ u < TickModulus /\ t \in Nat /\ t < TickModulus
      /\ o \in Nat /\ o < TickModulus
  BY ElapsedUnfolded, TickModulusAssumption DEF Tick
<1>3. a \in Int /\ (t - u = a \/ t - u = a + TickModulus \/ t - u = a - TickModulus)
  BY AheadUnfolded
<1>4. -HalfTurn < a /\ a < HalfTurn - c + 1 /\ 0 <= y + a /\ y + a + c <= TickModulus
  OBVIOUS
<1> HIDE DEF a, y, c, g
<1>5. E \in Nat /\ E + c <= TickModulus
  BY <1>1, <1>2, <1>3, <1>4
<1>6. Elapsed(t, o) = E
  <2>1. Elapsed(t, o) = IF t < o THEN t - o + TickModulus
                                   ELSE t - o
    BY <1>2, ElapsedUnfolded
  <2> QED
    BY <1>1, <1>2, <1>3, <1>5, <2>1
<1> HIDE DEF E
<1>7. k \in Nat /\ E <= k /\ k <= E + c - 1
  BY <1>5, TicksCover DEF c
<1>8. g = Plus(o, k)
  <2>1. (E + c - 1) % TickModulus = E + c - 1
    <3> DEFINE z == E + c - 1
    <3>1. z \in Int /\ 0 <= z /\ z < TickModulus /\ -TickModulus <= z /\ z < 2 * TickModulus
      BY <1>1, <1>5
    <3> HIDE DEF z
    <3>2. z % TickModulus = z
      BY <3>1, ModWithinATurn
    <3> QED
      BY <3>2 DEF z
  <2> QED
    BY <1>6, <2>1 DEF GridFrom, TicksOver, g, c
<1> HIDE DEF k
<1>9. g \in Tick /\ g = IF o + k < TickModulus THEN o + k
                        ELSE o + k - TickModulus
  <2>1. k \in Tick
    BY <1>1, <1>5, <1>7 DEF Tick
  <2> QED
    BY <1>2, <1>8, <2>1, PlusUnfolded, ReadingsInTick
<1>10. Ahead(g, u) = k - y
  <2> DEFINE w == k - y
  <2>1. w \in Int /\ -HalfTurn < w /\ w < HalfTurn
    BY <1>1, <1>2, <1>3, <1>4, <1>7 DEF E
  <2>2. g - u = w \/ g - u = w + TickModulus \/ g - u = w - TickModulus
    BY <1>1, <1>2, <1>7, <1>9
  <2> HIDE DEF w
  <2>3. Ahead(g, u) = w
    BY <1>9, <2>1, <2>2, AheadIs
  <2> QED
    BY <2>3 DEF w
<1> QED
  BY <1>10 DEF k, E, a, y, c, g

\* Samples a whole number of control ticks apart stay so on the grid.
LEMMA GridKeepsGaps ==
    ASSUME NEW x \in Nat, NEW gap \in Nat, gap % ControlTickMs = 0
    PROVE  TicksOver(x + gap) * ControlTickMs = TicksOver(x) * ControlTickMs + gap
<1> DEFINE c == ControlTickMs
           m == gap \div c
           q == TicksOver(x)
           r == TicksOver(x + gap)
<1>1. c \in Nat /\ c >= 1
  BY ContractAssumption
<1>2. m \in Nat /\ gap = m * c
  BY <1>1, Z3 DEF c
<1>3. /\ q \in Nat /\ q * c \in Nat /\ x <= q * c /\ q * c <= x + c - 1
      /\ r \in Nat /\ r * c \in Nat /\ x + gap <= r * c /\ r * c <= x + gap + c - 1
  BY TicksCover
<1> HIDE DEF c, m, q, r
<1>4. (q + m) * c = q * c + m * c /\ (q + m + 1) * c = (q + m) * c + c /\ (r + 1) * c = r * c + c
  BY <1>1, <1>2, <1>3, Z3
<1>5. r <= q + m
  <2> SUFFICES ASSUME q + m + 1 <= r PROVE FALSE
    BY <1>2, <1>3
  <2>1. (q + m + 1) * c <= r * c
    BY <1>1, <1>2, <1>3, ProductMonotone
  <2> QED
    BY <1>1, <1>2, <1>3, <1>4, <2>1
<1>6. q + m <= r
  <2> SUFFICES ASSUME r + 1 <= q + m PROVE FALSE
    BY <1>2, <1>3
  <2>1. (r + 1) * c <= (q + m) * c
    BY <1>1, <1>2, <1>3, ProductMonotone
  <2> QED
    BY <1>1, <1>2, <1>3, <1>4, <2>1
<1>7. r = q + m
  BY <1>2, <1>3, <1>5, <1>6
<1> QED
  BY <1>2, <1>4, <1>7 DEF c, q, r

\* Seen from the clock, everything moves back a tick when the clock moves on.
LEMMA AdvanceShifts ==
    ASSUME Timeline, Advance, state = "RUNNING"
    PROVE  /\ Idle' = Idle + 1 /\ GridAt' = GridAt - 1
           /\ \A i \in 1 .. Len(queue) : At(i)' = At(i) - 1
           /\ queue # <<>> => Ahead(DueTick, now)' = Ahead(DueTick, now) - 1
           /\ Since + 1 < TickModulus => Since' = Since + 1
<1>1. /\ now' = Plus(now, 1) /\ queue' = queue /\ anchor' = anchor
      /\ controlEpoch' = controlEpoch /\ lastStep' = lastStep
      /\ Idle < MaxSilence
  BY DEF Advance, session, motion, Idle
<1>2. /\ now \in Tick /\ lastStep \in Tick /\ controlEpoch \in Tick /\ Idle \in Nat
      /\ AnchorAt \in Int /\ -HalfTurn + 1 < AnchorAt
      /\ GridTick(anchor.apply_tick) \in Tick /\ GridAt \in Int
      /\ GridAt - AnchorAt \in 0 .. ControlTickMs - 1
  BY <1>1, RunningBounds
<1>3. /\ HalfTurn \in Nat /\ TickModulus \in Nat /\ HalfTurn < TickModulus
      /\ MaxSilence \in Nat /\ Slack \in Nat /\ MaxSilence <= Slack
      /\ Slack + 1 < HalfTurn /\ ControlTickMs \in Nat
  <2>1. /\ HardCaps.maximum_apply_lateness_ms \in Nat /\ Lead \in Nat /\ Gap \in Nat
        /\ MaxSilence \in Nat /\ MaxSilence >= 1 /\ Slack \in Nat /\ HalfTurn \in Nat
        /\ ControlTickMs \in Nat /\ ControlTickMs >= 1
        /\ Slack = ControlTickMs - 1 + HardCaps.maximum_apply_lateness_ms + MaxSilence
        /\ Lead + Slack <= Gap /\ Gap + Slack < HalfTurn
    BY ClockBounds
  <2>2. MaxSilence <= Slack
    BY <2>1
  <2>3. Slack + 1 < HalfTurn
    BY <2>1, <2>2
  <2> QED
    BY <2>1, <2>2, <2>3, HalfTurnIsLess, TickModulusAssumption
<1>4. Idle' = Idle + 1
  <2>1. Idle + 1 < TickModulus
    BY <1>1, <1>2, <1>3
  <2> QED
    BY <1>1, <1>2, <2>1, ReadingAges DEF Idle
<1>5. GridAt' = GridAt - 1
  <2>1. -HalfTurn + 1 < GridAt
    BY <1>2, <1>3
  <2>2. GridTick(anchor.apply_tick)' = GridTick(anchor.apply_tick)
    BY <1>1 DEF GridTick
  <2> QED
    BY <1>1, <1>2, <2>1, <2>2, AheadAges DEF GridAt
<1>6. ASSUME NEW i \in 1 .. Len(queue) PROVE At(i)' = At(i) - 1
  <2>1. queue # <<>>
    <3> SUFFICES ASSUME queue = <<>> PROVE FALSE
      OBVIOUS
    <3>1. Len(queue) = 0
      OBVIOUS
    <3> QED
      BY <1>6, <3>1
  <2>2. queue[i].apply_tick \in Tick /\ At(i) \in Int /\ -Slack <= At(i)
    BY <2>1, QueueBounds
  <2>3. -HalfTurn + 1 < At(i)
    BY <1>3, <2>2
  <2> QED
    BY <1>1, <1>2, <2>2, <2>3, AheadAges DEF At
<1>7. ASSUME queue # <<>> PROVE Ahead(DueTick, now)' = Ahead(DueTick, now) - 1
  <2>1. /\ At(1) \in Int /\ -Slack <= At(1) /\ DueTick \in Tick /\ Ahead(DueTick, now) \in Int
        /\ Ahead(DueTick, now) - At(1) \in 0 .. ControlTickMs - 1
    BY <1>7, HeadOnGrid
  <2>2. -HalfTurn + 1 < Ahead(DueTick, now)
    BY <1>3, <2>1
  <2>3. DueTick' = DueTick
    BY <1>1 DEF DueTick, GridTick
  <2> QED
    BY <1>1, <1>2, <2>1, <2>2, <2>3, AheadAges
<1>8. Since + 1 < TickModulus => Since' = Since + 1
  BY <1>1, <1>2, ReadingAges DEF Since
<1> QED
  BY <1>4, <1>5, <1>6, <1>7, <1>8

\* What is known before a step of a stream that is still comparable after it.
LEMMA StaysFed ==
    ASSUME FedNext, state = "RUNNING", state' = "RUNNING"
    PROVE  /\ ~gridAged' => ~gridAged /\ ~TurnEnds
           /\ ~ranDry' => ~ranDry /\ (queue = <<>> => queue' = <<>>)
BY DEF FedNext

\* Time passing keeps what bounds the steps.
LEMMA LimitedAdvance ==
    ASSUME Timeline, StepLimited, FedNext, Advance
    PROVE  StepLimited'
<1>1. /\ now' = Plus(now, 1) /\ state' = state /\ policy' = policy /\ queue' = queue
      /\ anchor' = anchor /\ output' = output /\ outputValid' = outputValid
      /\ controlEpoch' = controlEpoch /\ splices' = splices
  BY DEF Advance, ending, session, motion, counters
<1>2. StepsAllowed' /\ PlanContinuous'
  BY <1>1 DEF StepLimited, StepsAllowed, PlanContinuous, Continues, WithinSteps
<1>3. CASE state # "RUNNING"
  BY <1>1, <1>2, <1>3 DEF StepLimited, FirstTurn, HeadInReach, OutputOnWay, Fed
<1>4. CASE state = "RUNNING"
  <2>1. /\ Idle' = Idle + 1 /\ GridAt' = GridAt - 1
        /\ \A i \in 1 .. Len(queue) : At(i)' = At(i) - 1
        /\ queue # <<>> => Ahead(DueTick, now)' = Ahead(DueTick, now) - 1
        /\ Since + 1 < TickModulus => Since' = Since + 1
    BY <1>4, AdvanceShifts
  <2>2. /\ Idle \in Nat /\ GridAt \in Int
        /\ queue # <<>> => Ahead(DueTick, now) \in Int
        /\ \A i \in 1 .. Len(queue) : At(i) \in Int
    <3>1. \A i \in 1 .. Len(queue) : At(i) \in Int
      <4>1. now \in Tick /\ queue \in Seq(Setpoint)
        BY DEF Timeline, TypeOK
      <4> QED
        BY <4>1, SampleTicks, AheadUnfolded DEF At
    <3> QED
      BY <1>4, <3>1, RunningBounds, HeadOnGrid
  <2>3. Fed' => Fed
    BY <1>1, <1>4, StaysFed DEF Fed
  <2>4. /\ LastProgress' = LastProgress
        /\ queue # <<>> => WayLength' = WayLength
    BY <2>1, <2>2 DEF LastProgress, WayLength
  <2>5. HeadInReach' /\ OutputOnWay'
    BY <1>1, <2>3, <2>4 DEF StepLimited, HeadInReach, OutputOnWay
  <2>6. FirstTurn'
    <3> SUFFICES ASSUME ~gridAged'
                 PROVE  /\ Since' + Lead + ControlTickMs < TickModulus
                        /\ \A i \in 1 .. Len(queue) : Since' + At(i)' >= 0
      BY <1>1 DEF FirstTurn, Lead
    <3>1. ~gridAged /\ ~TurnEnds
      BY <1>1, <1>4, StaysFed
    <3>2. /\ Since + Lead + ControlTickMs < TickModulus
          /\ \A i \in 1 .. Len(queue) : Since + At(i) >= 0
      BY <1>4, <3>1 DEF StepLimited, FirstTurn
    <3>3. /\ Lead \in Nat /\ ControlTickMs \in Nat /\ ControlTickMs >= 1
          /\ TickModulus \in Nat
      BY ClockBounds, TickModulusAssumption
    <3>4. Since \in Nat
      BY AgeIsBehind DEF Since, Timeline, TypeOK
    <3>5. Since' = Since + 1
      BY <2>1, <3>2, <3>3, <3>4
    <3>6. Since' + Lead + ControlTickMs < TickModulus
      <4>1. Since' = Elapsed(now', controlEpoch)
        BY <1>1 DEF Since
      <4>2. ~(Since' + Lead + ControlTickMs >= TickModulus)
        BY <3>1, <4>1 DEF TurnEnds, Lead
      <4> QED
        BY <3>3, <3>4, <3>5, <4>2
    <3>7. \A i \in 1 .. Len(queue) : Since' + At(i)' >= 0
      BY <2>1, <2>2, <3>2, <3>4, <3>5
    <3> QED
      BY <3>6, <3>7
  <2> QED
    BY <1>2, <2>5, <2>6 DEF StepLimited
<1> QED
  BY <1>3, <1>4

\* A stream that is opened starts its way where it stands.
LEMMA LimitedOpen ==
    ASSUME StepLimited, NEW p \in OfferedPolicy(now), Open(p, now), p \in Policy
    PROVE  StepLimited'
<1>1. state' = "PRIMING" /\ queue' = <<>> /\ policy' = p /\ PolicyAcceptable(p, now)
  BY DEF Open, OpenAllowed
<1>2. \A j \in Joint : p.maximum_step_urad_per_tick[j] \in Nat
  <2>1. \A j \in Joint : /\ HardCaps.maximum_step_urad_per_tick[j] \in Int
                         /\ p.maximum_step_urad_per_tick[j] \in
                              1 .. HardCaps.maximum_step_urad_per_tick[j]
    BY <1>1, ContractAssumption DEF PolicyAcceptable
  <2> QED
    BY <2>1
<1>3. Len(queue') = 0
  BY <1>1
<1> QED
  BY <1>1, <1>2, <1>3 DEF StepLimited, StepsAllowed, FirstTurn, PlanContinuous, HeadInReach,
     OutputOnWay, Fed

\* An appended batch continues the plan behind its last sample.
LEMMA AppendContinues ==
    ASSUME Timeline, PlanContinuous, NEW b \in OfferedBatch(now), Admit(b, now), splices' = 0
    PROVE  /\ b.kind = "APPEND" /\ splices = 0
           /\ \A i \in 1 .. Len(queue') - 1 : Continues(queue'[i], queue'[i + 1])
           /\ queue # <<>> => queue'[1] = queue[1]
           /\ queue' # <<>>
<1>1. /\ now \in Tick /\ queue \in Seq(Setpoint) /\ splices \in Nat
      /\ b \in Batch /\ Admissible(b, now) /\ queue' = Retained(b) \o b.samples
  BY ExecutorAssumption DEF Timeline, TypeOK, Admit
<1>2. b.kind = "APPEND" /\ splices = 0
  <2>1. b.kind \in {"APPEND", "SPLICE"}
    BY <1>1 DEF Batch
  <2> QED
    BY <1>1, <2>1 DEF Admit
<1>3. state \in {"PRIMING", "RUNNING"}
  BY <1>1 DEF Admissible
<1>4. \E n \in 0 .. Len(queue) :
        /\ Len(queue') = n + Len(b.samples)
        /\ \A i \in 1 .. n : queue'[i] = queue[i]
        /\ \A i \in 1 .. Len(b.samples) : queue'[n + i] = b.samples[i]
        /\ b.kind = "APPEND" => n = Len(queue)
  BY <1>1, AdmittedQueue
<1> DEFINE n == Len(queue)
           m == Len(b.samples)
<1>5. n \in Nat /\ m \in Nat /\ m >= 1 /\ n + m = Len(queue')
  <2>1. m \in 1 .. WireMaxSamples /\ WireMaxSamples \in Nat
    BY <1>1, ContractAssumption DEF Admissible, Decodes
  <2> QED
    BY <1>1, <1>2, <1>4, <2>1
<1>6. /\ \A i \in 1 .. n : queue'[i] = queue[i]
      /\ \A i \in 1 .. m : queue'[n + i] = b.samples[i]
  BY <1>2, <1>4
<1>7. \A i \in 1 .. n - 1 : Continues(queue[i], queue[i + 1])
  BY <1>2, <1>3 DEF PlanContinuous
<1>8. \A i \in 1 .. m - 1 : Continues(b.samples[i], b.samples[i + 1])
  BY <1>1 DEF Admissible, TransitionAcceptable, SamplesContinuous, Continues
<1>9. queue # <<>> => Continues(queue[n], b.samples[1])
  <2> SUFFICES ASSUME queue # <<>> PROVE Continues(queue[n], b.samples[1])
    OBVIOUS
  <2>1. IsAfter(b.samples[1].apply_tick, queue[n].apply_tick)
    BY <1>1, <1>2 DEF Admissible, TransitionAcceptable, AppendAcceptable, LastTick
  <2> QED
    BY <1>1, <1>2, <2>1 DEF Admissible, BoundaryAcceptable, Continues
<1>10. queue = <<>> <=> n = 0
  BY <1>1
<1> HIDE DEF n, m
<1>11. ASSUME NEW i \in 1 .. Len(queue') - 1 PROVE Continues(queue'[i], queue'[i + 1])
  <2>1. CASE i < n
    <3>1. i \in 1 .. n - 1 /\ i \in 1 .. n /\ i + 1 \in 1 .. n
      BY <1>5, <2>1
    <3> QED
      BY <1>6, <1>7, <3>1
  <2>2. CASE i = n
    <3>1. i \in 1 .. n /\ 1 \in 1 .. m /\ queue # <<>>
      BY <1>5, <1>10, <2>2
    <3>2. queue'[i] = queue[n] /\ queue'[n + 1] = b.samples[1]
      BY <1>6, <2>2, <3>1
    <3> QED
      BY <1>9, <2>2, <3>1, <3>2
  <2>3. CASE i > n
    <3> DEFINE k == i - n
    <3>1. k \in 1 .. m - 1 /\ k \in 1 .. m /\ k + 1 \in 1 .. m /\ i = n + k /\ i + 1 = n + (k + 1)
      BY <1>5, <2>3
    <3> HIDE DEF k
    <3>2. queue'[n + k] = b.samples[k] /\ queue'[n + (k + 1)] = b.samples[k + 1]
      BY <1>6, <3>1
    <3> QED
      BY <1>8, <3>1, <3>2
  <2> QED
    BY <1>5, <2>1, <2>2, <2>3
<1>12. queue # <<>> => queue'[1] = queue[1]
  <2> SUFFICES ASSUME queue # <<>> PROVE queue'[1] = queue[1]
    OBVIOUS
  <2>1. 1 \in 1 .. n
    BY <1>5, <1>10
  <2> QED
    BY <1>6, <2>1
<1>13. queue' # <<>>
  <2> SUFFICES ASSUME queue' = <<>> PROVE FALSE
    OBVIOUS
  <2>1. Len(queue') = 0
    OBVIOUS
  <2> QED
    BY <1>5, <2>1
<1> QED
  BY <1>2, <1>11, <1>12, <1>13

\* A batch that follows what is queued keeps the way within its steps.
LEMMA LimitedAdmit ==
    ASSUME Timeline, StepLimited, FedNext, NEW b \in OfferedBatch(now), Admit(b, now)
    PROVE  StepLimited'
<1>1. /\ now' = now /\ state' = state /\ policy' = policy /\ anchor' = anchor
      /\ output' = output /\ outputValid' = outputValid /\ controlEpoch' = controlEpoch
      /\ lastStep' = lastStep
      /\ Admissible(b, now) /\ state \in {"PRIMING", "RUNNING"}
  BY DEF Admit, Admissible, ending, motion
<1>2. StepsAllowed'
  BY <1>1 DEF StepLimited, StepsAllowed
<1>3. PlanContinuous'
  <2>1. splices' = 0 =>
          \A i \in 1 .. Len(queue') - 1 : Continues(queue'[i], queue'[i + 1])
    BY AppendContinues DEF StepLimited
  <2> QED
    BY <1>1, <2>1 DEF PlanContinuous, Continues, WithinSteps
<1>4. FirstTurn'
  <2> SUFFICES ASSUME state = "RUNNING", ~gridAged'
               PROVE  /\ Since + Lead + ControlTickMs < TickModulus
                      /\ \A i \in 1 .. Len(queue') :
                           Since + Ahead(queue'[i].apply_tick, now) >= 0
    BY <1>1 DEF FirstTurn, Lead, Since, At
  <2>1. /\ Since + Lead + ControlTickMs < TickModulus
        /\ \A i \in 1 .. Len(queue) : Since + At(i) >= 0
    BY <1>1, StaysFed DEF StepLimited, FirstTurn
  <2>2. Since \in Nat
    BY AgeIsBehind DEF Since, Timeline, TypeOK
  <2>3. /\ Len(b.samples) \in Nat
        /\ \A i \in 1 .. Len(b.samples) : Ahead(b.samples[i].apply_tick, now) \in 1 .. Lead
    BY <1>1, BatchAhead
  <2>4. PICK n \in 0 .. Len(queue) :
          /\ Len(queue') = n + Len(b.samples)
          /\ \A i \in 1 .. n : queue'[i] = queue[i]
          /\ \A i \in 1 .. Len(b.samples) : queue'[n + i] = b.samples[i]
    <3>1. b \in Batch /\ now \in Tick /\ queue \in Seq(Setpoint)
          /\ queue' = Retained(b) \o b.samples
      BY ExecutorAssumption DEF Timeline, TypeOK, Admit
    <3> QED
      BY <1>1, <3>1, AdmittedQueue
  <2>5. Len(queue) \in Nat /\ n \in Nat /\ n <= Len(queue)
    BY <2>4 DEF Timeline, TypeOK
  <2>6. ASSUME NEW i \in 1 .. Len(queue')
        PROVE  Since + Ahead(queue'[i].apply_tick, now) >= 0
    <3>1. CASE i <= n
      <4>1. i \in 1 .. n /\ i \in 1 .. Len(queue)
        BY <2>3, <2>4, <2>5, <3>1
      <4> QED
        BY <2>1, <2>4, <4>1 DEF At
    <3>2. CASE i > n
      <4> DEFINE k == i - n
      <4>1. k \in 1 .. Len(b.samples) /\ i = n + k
        BY <2>3, <2>4, <2>5, <3>2
      <4> HIDE DEF k
      <4>2. queue'[i] = b.samples[k] /\ Ahead(b.samples[k].apply_tick, now) \in 1 .. Lead
        BY <2>3, <2>4, <4>1
      <4>3. Ahead(queue'[i].apply_tick, now) \in 1 .. Lead
        BY <4>2
      <4> QED
        BY <2>2, <4>3, ClockBounds
    <3> QED
      BY <2>3, <2>4, <2>5, <3>1, <3>2
  <2> QED
    BY <2>1, <2>6
<1>5. ASSUME Fed'
      PROVE  /\ Fed /\ queue # <<>> /\ queue' # <<>>
             /\ WayLength' = WayLength /\ LastProgress' = LastProgress
             /\ queue'[1] = queue[1]
  <2>1. state = "RUNNING" /\ state' = "RUNNING" /\ splices' = 0 /\ ~ranDry' /\ ~gridAged'
    BY <1>1, <1>5 DEF Fed
  <2>2. splices = 0 /\ queue' # <<>> /\ (queue # <<>> => queue'[1] = queue[1])
    BY <2>1, AppendContinues DEF StepLimited
  <2>3. ~ranDry /\ ~gridAged /\ queue # <<>>
    BY <2>1, <2>2, StaysFed
  <2>4. WayLength' = WayLength /\ LastProgress' = LastProgress
    BY <1>1, <2>2, <2>3 DEF WayLength, LastProgress, DueTick, GridTick, GridAt, Idle
  <2> QED
    BY <2>1, <2>2, <2>3, <2>4 DEF Fed
<1>6. HeadInReach' /\ OutputOnWay'
  <2>1. HeadInReach'
    <3> SUFFICES ASSUME Fed' PROVE HeadInReach'
      BY DEF HeadInReach
    <3> QED
      BY <1>1, <1>5 DEF StepLimited, HeadInReach
  <2>2. OutputOnWay'
    <3> SUFFICES ASSUME Fed', outputValid' PROVE OutputOnWay'
      BY DEF OutputOnWay
    <3>1. \E e \in 0 .. WayLength :
            /\ LastProgress - ControlTickMs <= e /\ e <= LastProgress
            /\ output = Between(anchor.position_urad, queue[1].position_urad, e, WayLength)
      BY <1>1, <1>5 DEF StepLimited, OutputOnWay
    <3> QED
      BY <1>1, <1>5, <3>1 DEF OutputOnWay, Between
  <2> QED
    BY <2>1, <2>2
<1> QED
  BY <1>2, <1>3, <1>4, <1>6 DEF StepLimited

\* A distance within the steps of some ticks, spread over those ticks.
LEMMA Spread ==
    ASSUME NEW d \in Nat, NEW step \in Nat, NEW n \in Nat, d <= step * n
    PROVE  d * ControlTickMs <= step * (n * ControlTickMs)
<1>1. ControlTickMs \in Nat
  BY ContractAssumption
<1>2. d * ControlTickMs <= (step * n) * ControlTickMs
  <2>1. step * n \in Int
    BY Z3
  <2> QED
    BY <1>1, <2>1, ProductMonotone
<1>3. (step * n) * ControlTickMs = step * (n * ControlTickMs)
  BY <1>1, Z3
<1> QED
  BY <1>2, <1>3

\* Distances are natural numbers.
LEMMA DistanceIsNat ==
    ASSUME NEW x \in Int, NEW y \in Int
    PROVE  Distance(x, y) \in Nat
BY DEF Distance

\* The check at the start bounds the way from the anchor to the first sample.
LEMMA LimitedStart ==
    ASSUME Timeline, StepLimited, FedNext, NEW pos \in Position, Start(now, pos)
    PROVE  StepLimited'
<1>1. /\ state = "PRIMING" /\ state' = "RUNNING" /\ now' = now /\ policy' = policy
      /\ queue' = queue /\ outputValid' = outputValid /\ splices' = splices
      /\ anchor' = [apply_tick |-> now, position_urad |-> pos]
      /\ controlEpoch' = now /\ lastStep' = now
      /\ Len(queue) >= policy.minimum_start_samples
      /\ IsAfter(queue[1].apply_tick, now)
      /\ WithinSteps(policy, pos, queue[1].position_urad,
                     TicksOver(Elapsed(queue[1].apply_tick, now)))
  BY DEF Start, StartAllowed, session, counters
<1>2. StepsAllowed' /\ PlanContinuous'
  BY <1>1 DEF StepLimited, StepsAllowed, PlanContinuous, Continues, WithinSteps
<1>3. now \in Tick /\ queue \in Seq(Setpoint) /\ ~outputValid
  BY <1>1 DEF Timeline, TypeOK, Primed
<1>4. queue # <<>> /\ Len(queue) \in Nat /\ Len(queue) >= 1
  <2>1. policy.minimum_start_samples >= 1 /\ policy.minimum_start_samples \in Nat
    BY <1>1 DEF Timeline, TypeOK, PolicyCapped, Policy
  <2>2. Len(queue) \in Nat
    BY <1>3
  <2>3. Len(queue) >= 1
    BY <1>1, <2>1, <2>2
  <2>4. queue = <<>> => Len(queue) = 0
    OBVIOUS
  <2> QED
    BY <2>2, <2>3, <2>4
<1>5. /\ Age \in Nat
      /\ \A i \in 1 .. Len(queue) :
           /\ queue[i].apply_tick \in Tick /\ At(i) \in Int
           /\ At(1) <= At(i) /\ At(i) + Age <= Lead
  BY <1>1, <1>4, QueueBounds
<1>6. 1 \in 1 .. Len(queue) /\ queue[1] \in Setpoint
  BY <1>3, <1>4
<1>7. At(1) \in Int /\ At(1) >= 1 /\ At(1) <= Lead
  <2>1. queue[1].apply_tick \in Tick /\ At(1) \in Int /\ At(1) + Age <= Lead
    BY <1>5, <1>6
  <2>2. At(1) > 0
    BY <1>1, <1>3, <2>1, AfterIsAhead DEF At
  <2>3. Age \in Nat /\ Lead \in Nat
    BY <1>5, ClockBounds
  <2> QED
    BY <2>1, <2>2, <2>3
<1>8. Elapsed(now, now) = 0 /\ Ahead(now, now) = 0
  <2>1. Elapsed(now, now) = 0
    BY <1>3, ElapsedUnfolded DEF Tick
  <2>2. 0 < HalfTurn
    BY <1>7, LeadFits
  <2> QED
    BY <1>3, <2>1, <2>2, AheadIsElapsed
<1>9. /\ ControlTickMs \in Nat /\ HalfTurn \in Nat /\ Lead \in Nat /\ TickModulus \in Nat
      /\ Lead < HalfTurn - ControlTickMs + 1 /\ HalfTurn < TickModulus
  BY LeadFits, HalfTurnIsLess, TickModulusAssumption
<1>10. FirstTurn'
  <2>1. Since' = 0
    BY <1>1, <1>8 DEF Since
  <2>2. 0 + Lead + ControlTickMs < TickModulus
    BY <1>9
  <2>3. \A i \in 1 .. Len(queue) : 0 + At(i) >= 0
    BY <1>5, <1>7
  <2>4. \A i \in 1 .. Len(queue) : At(i)' = At(i)
    BY <1>1 DEF At
  <2> QED
    BY <1>1, <2>1, <2>2, <2>3, <2>4 DEF FirstTurn, Lead
<1>11. WayLength' = TicksOver(At(1)) * ControlTickMs
  <2>1. GridAt' = 0
    <3>1. GridTick(anchor.apply_tick)' = GridFrom(now, now)
      BY <1>1 DEF GridTick, GridFrom
    <3>2. GridFrom(now, now) = now
      BY <1>3, GridOfOrigin DEF GridFrom
    <3> QED
      BY <1>1, <1>8, <3>1, <3>2 DEF GridAt
  <2>2. Ahead(DueTick, now)' = TicksOver(At(1)) * ControlTickMs
    <3> DEFINE t == queue[1].apply_tick
    <3>1. DueTick' = GridFrom(now, t)
      BY <1>1 DEF DueTick, GridTick, GridFrom
    <3>2. /\ t \in Tick /\ Ahead(t, now) = At(1)
          /\ -HalfTurn < Ahead(t, now) /\ Ahead(t, now) < HalfTurn - ControlTickMs + 1
          /\ 0 <= Elapsed(now, now) + Ahead(t, now)
          /\ Elapsed(now, now) + Ahead(t, now) + ControlTickMs <= TickModulus
      <4>1. t \in Tick /\ Ahead(t, now) = At(1)
        BY <1>5, <1>6 DEF At
      <4> HIDE DEF t
      <4> QED
        BY <1>7, <1>8, <1>9, <4>1
    <3> HIDE DEF t
    <3>3. Ahead(GridFrom(now, t), now)
            = TicksOver(Elapsed(now, now) + Ahead(t, now)) * ControlTickMs - Elapsed(now, now)
      BY <1>3, <3>2, GridInFirstTurn
    <3>4. 0 + At(1) = At(1) /\ At(1) \in Nat
      BY <1>7
    <3>5. TicksOver(At(1)) * ControlTickMs - 0 = TicksOver(At(1)) * ControlTickMs
      BY <3>4, TicksCover
    <3> QED
      BY <1>1, <1>8, <3>1, <3>2, <3>3, <3>4, <3>5
  <2>3. TicksOver(At(1)) * ControlTickMs \in Nat
    BY <1>7, TicksCover
  <2> QED
    BY <2>1, <2>2, <2>3 DEF WayLength
<1>12. WayLength' >= 1
  <2>1. At(1) \in Nat
    BY <1>7
  <2> QED
    BY <1>7, <1>11, <2>1, TicksCover
<1>13. ASSUME NEW j \in Joint
       PROVE  Distance(pos[j], queue[1].position_urad[j]) * ControlTickMs
                <= policy.maximum_step_urad_per_tick[j] * WayLength'
  <2>1. Elapsed(queue[1].apply_tick, now) = At(1)
    <3>1. queue[1].apply_tick \in Tick /\ At(1) >= 0
      BY <1>5, <1>6, <1>7
    <3> QED
      BY <1>3, <3>1, AheadIsElapsed DEF At
  <2>2. Distance(pos[j], queue[1].position_urad[j])
          <= policy.maximum_step_urad_per_tick[j] * TicksOver(At(1))
    BY <1>1, <2>1 DEF WithinSteps
  <2>3. policy.maximum_step_urad_per_tick[j] \in Nat
    BY <1>1 DEF StepLimited, StepsAllowed
  <2>4. TicksOver(At(1)) \in Nat
    <3>1. At(1) \in Nat
      BY <1>7
    <3> QED
      BY <3>1, TicksCover
  <2>5. Distance(pos[j], queue[1].position_urad[j]) \in Nat
    <3>1. pos[j] \in Int /\ queue[1].position_urad[j] \in Int
      BY <1>6 DEF Setpoint, Position
    <3> QED
      BY <3>1, DistanceIsNat
  <2> QED
    BY <1>11, <2>2, <2>3, <2>4, <2>5, Spread
<1>14. HeadInReach'
  <2>1. anchor'.position_urad = pos
    BY <1>1
  <2> QED
    BY <1>1, <1>12, <1>13, <2>1 DEF HeadInReach
<1>15. OutputOnWay'
  BY <1>1, <1>3 DEF OutputOnWay
<1> QED
  BY <1>2, <1>10, <1>14, <1>15 DEF StepLimited

\* A step that holds leaves the output, one that interpolates puts it where
\* the clock is on the way.
LEMMA LimitedWaits ==
    ASSUME Timeline, StepLimited, FedNext, StepHold(now) \/ StepInterpolate(now)
    PROVE  StepLimited'
<1>1. /\ state = "RUNNING" /\ state' = "RUNNING" /\ now' = now /\ policy' = policy
      /\ queue' = queue /\ anchor' = anchor /\ splices' = splices
      /\ controlEpoch' = controlEpoch /\ lastStep' = now
  BY DEF StepHold, StepInterpolate, StepHasSample, StepBegins, ending, session, counters
<1>2. Elapsed(now, now) = 0
  BY ElapsedUnfolded DEF Timeline, TypeOK, Tick
<1>3. /\ \A i \in 1 .. Len(queue) : At(i)' = At(i)
      /\ Since' = Since /\ WayLength' = WayLength /\ GridAt' = GridAt /\ Idle' = 0
      /\ GridAt \in Int
  BY <1>1, <1>2, RunningBounds DEF At, Since, WayLength, DueTick, GridTick, GridAt, Idle
<1>4. LastProgress' = -GridAt
  BY <1>3 DEF LastProgress
<1>5. Fed' => Fed
  BY <1>1, StaysFed DEF Fed
<1>6. StepsAllowed' /\ PlanContinuous'
  BY <1>1 DEF StepLimited, StepsAllowed, PlanContinuous, Continues, WithinSteps
<1>7. FirstTurn'
  BY <1>1, <1>3, StaysFed DEF StepLimited, FirstTurn, Lead
<1>8. HeadInReach'
  BY <1>1, <1>3, <1>5 DEF StepLimited, HeadInReach
<1>9. OutputOnWay'
  <2>1. CASE StepHold(now)
    <3>1. queue' = <<>> /\ output' = anchor'.position_urad
      BY <1>1, <2>1 DEF StepHold, Emit
    <3> QED
      BY <3>1 DEF OutputOnWay
  <2>2. CASE StepInterpolate(now)
    <3>1. /\ queue # <<>> /\ ~IsDue(now)
          /\ output' = Between(anchor.position_urad, queue[1].position_urad, Progress(now), Span)
      BY <2>2 DEF StepInterpolate, StepHasSample, Emit
    <3>2. Span = WayLength /\ Progress(now) = -GridAt /\ ~SpanBroken(now)
      BY <1>1, <3>1, SpanInOrder DEF WayLength
    <3>3. -GridAt \in 0 .. WayLength /\ WayLength \in Int
      <4>1. GridAt \in Int /\ GridAt <= 0
        BY <1>1, RunningBounds
      <4>2. WayLength \in Int
        BY <1>1, <3>1, <4>1, HeadOnGrid DEF WayLength
      <4>3. -GridAt <= WayLength
        BY <3>2, <4>1, <4>2 DEF SpanBroken
      <4> QED
        BY <4>1, <4>2, <4>3
    <3>4. /\ -GridAt - ControlTickMs <= -GridAt /\ -GridAt <= -GridAt
      BY <1>3, ClockBounds
    <3> DEFINE e == -GridAt
    <3>5. /\ e \in 0 .. WayLength' /\ LastProgress' - ControlTickMs <= e /\ e <= LastProgress'
          /\ output' = Between(anchor'.position_urad, queue'[1].position_urad, e, WayLength')
      BY <1>1, <1>3, <1>4, <3>1, <3>2, <3>3, <3>4
    <3> HIDE DEF e
    <3>6. \E x \in 0 .. WayLength' :
            /\ LastProgress' - ControlTickMs <= x /\ x <= LastProgress'
            /\ output' = Between(anchor'.position_urad, queue'[1].position_urad, x, WayLength')
      BY <3>5
    <3> QED
      BY <1>1, <3>1, <3>6 DEF OutputOnWay, Between
  <2> QED
    BY <2>1, <2>2
<1> QED
  BY <1>6, <1>7, <1>8, <1>9 DEF StepLimited

\* An applied sample becomes the anchor: the next way begins where this one
\* ended, and the output is its beginning.
LEMMA LimitedApply ==
    ASSUME Timeline, TypeOK', StepLimited, FedNext, StepApply(now), state' = "RUNNING"
    PROVE  StepLimited'
<1>1. /\ state = "RUNNING" /\ now' = now /\ policy' = policy /\ splices' = splices
      /\ queue # <<>> /\ queue' = WithoutFirst /\ anchor' = queue[1]
      /\ controlEpoch' = controlEpoch /\ lastStep' = now
      /\ output' = queue[1].position_urad
      /\ IsDue(now) /\ Lateness(now) <= policy.maximum_apply_lateness_ms
  BY DEF StepApply, StepHasSample, StepBegins, Emit
<1>2. now \in Tick /\ Elapsed(now, now) = 0 /\ queue \in Seq(Setpoint) /\ controlEpoch \in Tick
  BY ElapsedUnfolded DEF Timeline, TypeOK, Tick
<1>3. /\ Len(queue) \in Nat /\ Len(queue) >= 1 /\ Len(queue') = Len(queue) - 1
      /\ \A i \in 1 .. Len(queue') : queue'[i] = queue[i + 1]
  BY <1>1, <1>2, ConsumedQueue
<1>4. \A i \in 1 .. Len(queue') : i + 1 \in 1 .. Len(queue) /\ At(i)' = At(i + 1)
  BY <1>1, <1>3 DEF At
<1>5. /\ Since' = Since /\ Idle' = 0 /\ GridAt' = Ahead(DueTick, now) /\ Since \in Nat
  BY <1>1, <1>2, AgeIsBehind DEF Since, Idle, GridAt, GridTick, DueTick
<1>6. Fed' => Fed
  BY <1>1, StaysFed DEF Fed
<1>7. StepsAllowed' /\ PlanContinuous'
  <2>1. StepsAllowed'
    BY <1>1 DEF StepLimited, StepsAllowed
  <2>2. ASSUME splices = 0, NEW i \in 1 .. Len(queue') - 1
        PROVE  Continues(queue'[i], queue'[i + 1])
    <3>1. /\ i \in 1 .. Len(queue') /\ i + 1 \in 1 .. Len(queue')
          /\ i + 1 \in 1 .. Len(queue) - 1
      BY <1>3
    <3>2. queue'[i] = queue[i + 1] /\ queue'[i + 1] = queue[(i + 1) + 1]
      BY <1>3, <3>1
    <3> QED
      BY <1>1, <2>2, <3>1, <3>2 DEF StepLimited, PlanContinuous
  <2> QED
    BY <1>1, <2>1, <2>2 DEF PlanContinuous, Continues, WithinSteps
<1>8. FirstTurn'
  <2> SUFFICES ASSUME ~gridAged' PROVE FirstTurn'
    BY DEF FirstTurn
  <2>1. /\ Since + Lead + ControlTickMs < TickModulus
        /\ \A i \in 1 .. Len(queue) : Since + At(i) >= 0
    BY <1>1, StaysFed DEF StepLimited, FirstTurn
  <2> HIDE DEF At
  <2> QED
    BY <1>4, <1>5, <2>1 DEF FirstTurn, Lead
<1>9. /\ Ahead(DueTick, now) \in Int /\ Ahead(DueTick, now) <= 0
      /\ -Ahead(DueTick, now) <= ControlTickMs
  <2>1. /\ DueTick \in Tick /\ Ahead(DueTick, now) \in Int /\ At(1) \in Int /\ -Slack <= At(1)
        /\ Ahead(DueTick, now) - At(1) \in 0 .. ControlTickMs - 1
    BY <1>1, HeadOnGrid
  <2>2. Ahead(DueTick, now) <= 0
    BY <1>1, <1>2, <2>1, AfterIsAhead DEF IsDue, IsBefore
  <2>3. Lateness(now) = -Ahead(DueTick, now)
    <3>1. -HalfTurn < Ahead(DueTick, now)
      BY <2>1, LeadFits
    <3> QED
      BY <1>2, <2>1, <2>2, <3>1, AgeIsBehind DEF Lateness
  <2>4. /\ policy.maximum_apply_lateness_ms \in Nat /\ ControlTickMs \in Nat
        /\ HardCaps.maximum_apply_lateness_ms \in Nat
        /\ policy.maximum_apply_lateness_ms <= HardCaps.maximum_apply_lateness_ms
    BY PolicyBounds, ClockBounds DEF Timeline, PolicyCapped
  <2> QED
    BY <1>1, <2>1, <2>2, <2>3, <2>4, LatenessAssumption
<1>10. LastProgress' = -Ahead(DueTick, now)
  BY <1>5, <1>9 DEF LastProgress
<1>11. ASSUME Fed', queue' # <<>>
       PROVE  /\ queue'[1] = queue[2] /\ queue[1] \in Setpoint /\ queue[2] \in Setpoint
              /\ WayLength' \in Nat /\ WayLength' >= 1
              /\ \A j \in Joint :
                   Distance(queue[1].position_urad[j], queue[2].position_urad[j]) * ControlTickMs
                     <= policy.maximum_step_urad_per_tick[j] * WayLength'
  <2> DEFINE t == queue[1].apply_tick
             u == queue[2].apply_tick
             gap == Elapsed(u, t)
             n == gap \div ControlTickMs
  <2>1. 1 \in 1 .. Len(queue) /\ 2 \in 1 .. Len(queue) /\ 1 \in 1 .. Len(queue) - 1
        /\ 1 \in 1 .. Len(queue')
    <3>1. Len(queue') >= 1
      BY <1>3, <1>11 DEF TypeOK
    <3> QED
      BY <1>3, <3>1
  <2>2. queue'[1] = queue[2] /\ queue[1] \in Setpoint /\ queue[2] \in Setpoint
    BY <1>2, <1>3, <2>1
  <2>3. Continues(queue[1], queue[2])
    BY <1>1, <1>6, <1>11, <2>1 DEF StepLimited, PlanContinuous, Fed
  <2>4. gap % ControlTickMs = 0
    BY <2>3 DEF Continues
  <2>5. /\ t \in Tick /\ u \in Tick /\ At(1) \in Int /\ At(2) \in Int /\ At(1) < At(2)
        /\ -Slack <= At(1) /\ At(1) <= Lead /\ At(2) <= Lead
        /\ At(1) = Ahead(t, now) /\ At(2) = Ahead(u, now)
    <3>1. /\ Age \in Nat
          /\ \A i \in 1 .. Len(queue) :
               /\ queue[i].apply_tick \in Tick /\ At(i) \in Int
               /\ -Slack <= At(i) /\ At(i) + Age <= Lead
          /\ \A i, j \in 1 .. Len(queue) : i < j => At(i) < At(j)
      BY <1>1, QueueBounds DEF Timeline, QueueAhead
    <3>2. Lead \in Nat
      BY ClockBounds
    <3>3. At(1) = Ahead(t, now) /\ At(2) = Ahead(u, now)
      BY DEF At
    <3> HIDE DEF At, t, u
    <3>4. /\ At(1) \in Int /\ At(2) \in Int /\ At(1) < At(2) /\ -Slack <= At(1)
          /\ At(1) + Age <= Lead /\ At(2) + Age <= Lead
      BY <2>1, <3>1
    <3> QED
      BY <2>1, <3>1, <3>2, <3>3, <3>4 DEF t, u
  <2>6. /\ Since + At(1) >= 0 /\ Since + At(2) >= 0
        /\ Since + Lead + ControlTickMs < TickModulus
    BY <1>1, <1>6, <1>11, <2>1 DEF StepLimited, FirstTurn, Fed
  <2>7. /\ Lead \in Nat /\ Slack \in Nat /\ HalfTurn \in Nat /\ ControlTickMs \in Nat
        /\ ControlTickMs >= 1 /\ Slack < HalfTurn /\ Lead < HalfTurn - ControlTickMs + 1
        /\ Lead + Slack < HalfTurn /\ TickModulus \in Nat
    <3>1. Lead + Slack < HalfTurn
      <4>1. /\ Gap \in Nat /\ Slack \in Nat /\ Lead \in Nat /\ HalfTurn \in Nat
            /\ Lead + Slack <= Gap /\ Gap + Slack < HalfTurn
        BY ClockBounds
      <4> QED
        BY <4>1
    <3> QED
      BY <3>1, LeadFits, ClockBounds, TickModulusAssumption
  <2> HIDE DEF t, u, gap, n, At
  <2>8. gap = At(2) - At(1) /\ gap \in Nat /\ gap >= 1
    <3>1. /\ -HalfTurn < Ahead(t, now) /\ -HalfTurn < Ahead(u, now) - Ahead(t, now)
          /\ Ahead(u, now) - Ahead(t, now) < HalfTurn
      BY <2>5, <2>7
    <3>2. Ahead(u, t) = At(2) - At(1)
      BY <1>2, <2>5, <3>1, AheadCompares
    <3>3. Ahead(u, t) >= 0
      BY <2>5, <3>2
    <3>4. gap = Ahead(u, t)
      BY <2>5, <3>3, AheadIsElapsed DEF gap
    <3> QED
      BY <2>5, <3>2, <3>4
  <2>9. /\ Ahead(GridFrom(controlEpoch, t), now) = TicksOver(Since + At(1)) * ControlTickMs - Since
        /\ Ahead(GridFrom(controlEpoch, u), now) = TicksOver(Since + At(2)) * ControlTickMs - Since
    <3>1. /\ -HalfTurn < At(1) /\ At(1) < HalfTurn - ControlTickMs + 1
          /\ -HalfTurn < At(2) /\ At(2) < HalfTurn - ControlTickMs + 1
          /\ Since + At(1) + ControlTickMs <= TickModulus
          /\ Since + At(2) + ControlTickMs <= TickModulus
      BY <1>5, <2>5, <2>6, <2>7
    <3>2. Since = Elapsed(now, controlEpoch)
      BY DEF Since
    <3> QED
      BY <1>2, <2>5, <2>6, <3>1, <3>2, GridInFirstTurn
  <2>10. TicksOver(Since + At(2)) * ControlTickMs = TicksOver(Since + At(1)) * ControlTickMs + gap
    <3>1. Since + At(1) \in Nat /\ Since + At(2) = (Since + At(1)) + gap
      BY <1>5, <2>5, <2>6, <2>8
    <3> QED
      BY <2>4, <2>8, <3>1, GridKeepsGaps
  <2>11. WayLength' = gap
    <3>1. /\ DueTick = GridFrom(controlEpoch, t)
          /\ DueTick' = GridFrom(controlEpoch, u)
      BY <1>1, <2>2 DEF DueTick, GridTick, GridFrom, t, u
    <3>2. WayLength' = Ahead(DueTick', now) - Ahead(DueTick, now)
      BY <1>1, <1>5 DEF WayLength
    <3>3. TicksOver(Since + At(1)) * ControlTickMs \in Nat
      <4>1. Since + At(1) \in Nat
        BY <1>5, <2>5, <2>6
      <4> QED
        BY <4>1, TicksCover
    <3> QED
      BY <1>5, <2>8, <2>9, <2>10, <3>1, <3>2, <3>3
  <2>12. n \in Nat /\ gap = n * ControlTickMs
    BY <2>4, <2>7, <2>8, Z3 DEF n
  <2>13. ASSUME NEW j \in Joint
         PROVE  Distance(queue[1].position_urad[j], queue[2].position_urad[j]) * ControlTickMs
                  <= policy.maximum_step_urad_per_tick[j] * gap
    <3>1. Distance(queue[1].position_urad[j], queue[2].position_urad[j])
            <= policy.maximum_step_urad_per_tick[j] * n
      BY <2>3 DEF Continues, WithinSteps, n, gap, t, u
    <3>2. policy.maximum_step_urad_per_tick[j] \in Nat
      BY <1>1 DEF StepLimited, StepsAllowed
    <3>3. Distance(queue[1].position_urad[j], queue[2].position_urad[j]) \in Nat
      <4>1. queue[1].position_urad[j] \in Int /\ queue[2].position_urad[j] \in Int
        BY <2>2 DEF Setpoint, Position
      <4> QED
        BY <4>1, DistanceIsNat
    <3> QED
      BY <2>12, <3>1, <3>2, <3>3, Spread
  <2> QED
    BY <2>2, <2>8, <2>11, <2>13
<1>12. HeadInReach'
  BY <1>1, <1>11 DEF HeadInReach
<1>13. OutputOnWay'
  <2> SUFFICES ASSUME Fed' PROVE OutputOnWay'
    BY DEF OutputOnWay
  <2>1. CASE queue' = <<>>
    BY <1>1, <2>1 DEF OutputOnWay
  <2>2. CASE queue' # <<>>
    <3>1. /\ queue'[1] = queue[2] /\ queue[1] \in Setpoint /\ queue[2] \in Setpoint
          /\ WayLength' \in Nat /\ WayLength' >= 1
      BY <1>11, <2>2
    <3>2. Between(queue[1].position_urad, queue[2].position_urad, 0, WayLength')
            = queue[1].position_urad
      BY <3>1, BetweenEnds DEF Setpoint
    <3>3. /\ 0 \in 0 .. WayLength'
          /\ LastProgress' - ControlTickMs <= 0 /\ 0 <= LastProgress'
      BY <1>9, <1>10, <3>1, ClockBounds
    <3>4. \E e \in 0 .. WayLength' :
            /\ LastProgress' - ControlTickMs <= e /\ e <= LastProgress'
            /\ output' = Between(queue[1].position_urad, queue[2].position_urad, e, WayLength')
      BY <1>1, <3>2, <3>3
    <3> QED
      BY <1>1, <2>2, <3>1, <3>4 DEF OutputOnWay, Between
  <2> QED
    BY <2>1, <2>2
<1> QED
  BY <1>7, <1>8, <1>12, <1>13 DEF StepLimited

\* The bound holds at first, and every call keeps it.
LEMMA LimitedInit == FedInit => StepLimited
BY DEF FedInit, Init, StepLimited, StepsAllowed, FirstTurn, PlanContinuous, HeadInReach, OutputOnWay,
   Fed

LEMMA LimitedNext == Timeline /\ StepLimited /\ [FedNext]_fed_vars => StepLimited'
<1> SUFFICES ASSUME Timeline, StepLimited, [FedNext]_fed_vars PROVE StepLimited'
  OBVIOUS
<1>1. TypeOK'
  BY TypeStep DEF Timeline, FedNext, fed_vars
<1>2. CASE state' \notin {"PRIMING", "RUNNING"}
  BY <1>2 DEF StepLimited, StepsAllowed, FirstTurn, PlanContinuous, HeadInReach, OutputOnWay, Fed
<1>3. ASSUME UNCHANGED vars, (FedNext \/ UNCHANGED <<ranDry, gridAged>>) PROVE StepLimited'
  <2>1. /\ state' = state /\ policy' = policy /\ queue' = queue /\ anchor' = anchor
        /\ output' = output /\ outputValid' = outputValid /\ splices' = splices
    BY <1>3 DEF vars, ending, session, motion, counters
  <2>2. /\ Since' = Since /\ WayLength' = WayLength /\ LastProgress' = LastProgress
        /\ \A i \in 1 .. Len(queue) : At(i)' = At(i)
    BY <1>3 DEF vars, ending, session, motion, counters, Since, WayLength, LastProgress, DueTick,
       GridTick, GridAt, Idle, At
  <2>3. state = "RUNNING" => (~gridAged' => ~gridAged) /\ (~ranDry' => ~ranDry)
    BY <1>3, <2>1, StaysFed
  <2>4. Fed' => Fed
    BY <2>1, <2>3 DEF Fed
  <2>5. StepsAllowed' /\ PlanContinuous'
    BY <2>1 DEF StepLimited, StepsAllowed, PlanContinuous, Continues, WithinSteps
  <2>6. FirstTurn'
    BY <2>1, <2>2, <2>3 DEF StepLimited, FirstTurn, Lead
  <2>7. HeadInReach'
    BY <2>1, <2>2, <2>4 DEF StepLimited, HeadInReach
  <2>8. OutputOnWay'
    BY <2>1, <2>2, <2>4 DEF StepLimited, OutputOnWay, Between
  <2> QED
    BY <2>5, <2>6, <2>7, <2>8 DEF StepLimited
<1>4. ASSUME FedNext, Step(now), state' \in {"PRIMING", "RUNNING"} PROVE StepLimited'
  <2>1. \/ StepHold(now) \/ StepInterpolate(now)
        \/ StepApply(now) /\ state' = "RUNNING"
    BY <1>4, StepEffect DEF Step, StepTimelineBroken, StepCommandTimeout, StepUnderflow, StepMissed,
       StepSpanBroken, Terminate
  <2> QED
    BY <1>1, <1>4, <2>1, LimitedWaits, LimitedApply
<1>5. ASSUME FedNext PROVE StepLimited'
  <2>1. ASSUME NEW p \in OfferedPolicy(now), Open(p, now) PROVE StepLimited'
    <3>1. p \in Policy
      BY ExecutorAssumption DEF Timeline, TypeOK
    <3> QED
      BY <2>1, <3>1, LimitedOpen
  <2>2. ASSUME NEW pos \in AnchorPosition, Start(now, pos) PROVE StepLimited'
    <3>1. pos \in Position
      BY ExecutorAssumption
    <3> QED
      BY <1>5, <2>2, <3>1, LimitedStart
  <2>3. CASE Refuse(now)
    BY <1>3, <1>5, <2>3 DEF Refuse
  <2>4. CASE TrackingFault
    BY <1>2, <2>4 DEF TrackingFault, Terminate
  <2>5. CASE Advance
    BY <1>5, <2>5, LimitedAdvance
  <2>6. ASSUME NEW b \in OfferedBatch(now), Admit(b, now) PROVE StepLimited'
    BY <1>5, <2>6, LimitedAdmit
  <2>7. CASE Step(now)
    BY <1>2, <1>4, <1>5, <2>7
  <2>8. Next
    BY <1>5 DEF FedNext
  <2> QED
    BY <2>1, <2>2, <2>3, <2>4, <2>5, <2>6, <2>7, <2>8 DEF Next, CheckJointFeedback, CheckFeedback
<1> QED
  BY <1>3, <1>5 DEF fed_vars

\* A step that emits a posture: it is on the way the last one was on, and no
\* further along it than the time between the steps and a late apply explain.
LEMMA LimitedStep ==
    ASSUME Timeline, StepLimited, ~ranDry, ~gridAged, state = "RUNNING", outputValid, splices = 0,
           queue # <<>>, StepInterpolate(now) \/ StepApply(now)
    PROVE  WithinSteps(policy, output, output', TicksOver(Elapsed(lastStep', lastStep)) + 1)
<1> DEFINE a == anchor.position_urad
           b == queue[1].position_urad
           n == TicksOver(Idle) + 1
           due == Ahead(DueTick, now)
<1>1. /\ WayLength >= 1
      /\ \A j \in Joint : Distance(a[j], b[j]) * ControlTickMs
                            <= policy.maximum_step_urad_per_tick[j] * WayLength
  BY DEF StepLimited, HeadInReach, Fed
<1>2. PICK e \in 0 .. WayLength :
        /\ LastProgress - ControlTickMs <= e /\ e <= LastProgress
        /\ output = Between(a, b, e, WayLength)
  BY DEF StepLimited, OutputOnWay, Fed
<1>3. /\ Idle \in Nat /\ GridAt \in Int /\ GridAt <= 0 /\ due \in Int /\ now \in Tick
      /\ ControlTickMs \in Nat /\ DueTick \in Tick
  BY RunningBounds, HeadOnGrid, ClockBounds
<1>4. a \in Position /\ b \in Position
  <2>1. queue \in Seq(Setpoint) /\ anchor \in Setpoint
    BY DEF Timeline, TypeOK
  <2>2. queue[1] \in Setpoint
    BY <2>1
  <2> QED
    BY <2>1, <2>2 DEF Setpoint
<1>5. /\ n \in Nat /\ Idle + ControlTickMs <= n * ControlTickMs
      /\ Elapsed(lastStep', lastStep) = Idle
  <2>1. TicksOver(Idle) \in Nat /\ Idle <= TicksOver(Idle) * ControlTickMs
        /\ TicksOver(Idle) * ControlTickMs \in Nat
    BY <1>3, TicksCover
  <2>2. n * ControlTickMs = TicksOver(Idle) * ControlTickMs + ControlTickMs
    BY <1>3, <2>1, Z3
  <2>3. lastStep' = now
    BY DEF StepInterpolate, StepApply, StepHasSample, StepBegins
  <2> QED
    BY <1>3, <2>1, <2>2, <2>3 DEF Idle
<1>6. WayLength = due - GridAt /\ LastProgress = -GridAt - Idle
  BY DEF WayLength, LastProgress
<1>7. \E f \in Nat : /\ e <= f /\ f <= e + Idle + ControlTickMs
                      /\ output' = Between(a, b, f, WayLength)
  <2>1. CASE StepInterpolate(now)
    <3>1. /\ ~IsDue(now) /\ output' = Between(a, b, Progress(now), Span)
      BY <2>1 DEF StepInterpolate, Emit
    <3>2. Span = WayLength /\ Progress(now) = -GridAt
      BY <3>1, SpanInOrder DEF WayLength
    <3>3. /\ -GridAt \in Nat /\ e <= -GridAt /\ -GridAt <= e + Idle + ControlTickMs
      <4> HIDE DEF due
      <4> QED
        BY <1>2, <1>3, <1>6
    <3> QED
      BY <3>1, <3>2, <3>3
  <2>2. CASE StepApply(now)
    <3>1. IsDue(now) /\ output' = b
      BY <2>2 DEF StepApply, Emit
    <3>2. due <= 0
      BY <1>3, <3>1, AfterIsAhead DEF IsDue, IsBefore
    <3>3. WayLength \in Nat \ {0} /\ e <= WayLength /\ WayLength <= e + Idle + ControlTickMs
      <4> HIDE DEF due
      <4> QED
        BY <1>1, <1>2, <1>3, <1>6, <3>2
    <3>4. Between(a, b, WayLength, WayLength) = b
      BY <1>4, <3>3, BetweenEnds
    <3> QED
      BY <3>1, <3>3, <3>4
  <2> QED
    BY <2>1, <2>2
<1>8. PICK f \in Nat : /\ e <= f /\ f <= e + Idle + ControlTickMs
                       /\ output' = Between(a, b, f, WayLength)
  BY <1>7
<1>9. WayLength \in Nat \ {0} /\ e \in Nat
  <2> HIDE DEF due
  <2> QED
    BY <1>1, <1>2, <1>3, <1>6
<1> HIDE DEF a, b, n, due
<1>10. f <= e + n * ControlTickMs
  <2>1. n * ControlTickMs \in Nat
    BY <1>3, <1>5
  <2> QED
    BY <1>3, <1>5, <1>8, <1>9, <2>1
<1>11. ASSUME NEW j \in Joint
       PROVE  Distance(output[j], output'[j]) <= policy.maximum_step_urad_per_tick[j] * n
  <2>1. policy.maximum_step_urad_per_tick[j] \in Nat
    BY DEF StepLimited, StepsAllowed
  <2> QED
    BY <1>1, <1>2, <1>4, <1>5, <1>8, <1>9, <1>10, <2>1, BetweenMoves
<1> QED
  BY <1>5, <1>11 DEF WithinSteps, n

\* Until a splice, and as long as no batch comes after the queue ran empty and
\* the stream is younger than a turn of the clock, no output sent to the servos
\* is further from the one before than the step limit allows.
THEOREM OutputsKeepStepLimit == FedSpec => FedOutputStepBounded
<1>1. FedSpec => Spec
  <2>1. FedInit => Init
    BY DEF FedInit
  <2>2. [FedNext]_fed_vars => [Next]_vars
    BY DEF FedNext, fed_vars
  <2> QED
    BY <2>1, <2>2, PTL DEF FedSpec, Spec
<1>2. FedSpec => []Timeline
  BY <1>1, AlwaysInTime, PTL
<1>3. FedSpec => []StepLimited
  BY <1>2, LimitedInit, LimitedNext, PTL DEF FedSpec
<1>4. Timeline /\ StepLimited /\ [FedNext]_fed_vars => [~ranDry /\ ~gridAged => StepKeepsLimit]_vars
  <2> SUFFICES ASSUME Timeline, StepLimited, [Next]_vars, ~ranDry, ~gridAged,
                      state = "RUNNING", outputValid, output' # output, splices = 0, state' # "HOLD"
               PROVE  WithinSteps(policy, output, output',
                                  TicksOver(Elapsed(lastStep', lastStep)) + 1)
    BY DEF FedNext, fed_vars, StepKeepsLimit
  <2>1. Step(now)
    BY DEF Next, Advance, Open, Admit, Start, Refuse, CheckJointFeedback, CheckFeedback, TrackingFault,
       vars, motion
  <2>2. StepHold(now) \/ StepInterpolate(now) \/ StepApply(now)
    BY <2>1 DEF Step, StepTimelineBroken, StepCommandTimeout, StepUnderflow, StepMissed, StepSpanBroken,
       Terminate, motion
  <2>3. CASE StepHold(now)
    <3>1. queue = <<>> /\ output' = anchor.position_urad
      BY <2>3 DEF StepHold, Emit
    <3>2. output = anchor.position_urad
      BY <3>1 DEF StepLimited, OutputOnWay, Fed
    <3> QED
      BY <3>1, <3>2
  <2>4. CASE StepInterpolate(now) \/ StepApply(now)
    <3>1. queue # <<>>
      BY <2>4 DEF StepInterpolate, StepApply, StepHasSample
    <3> QED
      BY <2>4, <3>1, LimitedStep
  <2> QED
    BY <2>2, <2>3, <2>4
<1> QED
  BY <1>2, <1>3, <1>4, PTL DEF FedSpec, FedOutputStepBounded
=============================================================================

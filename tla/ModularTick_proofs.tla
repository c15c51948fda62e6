-------------------------- MODULE ModularTick_proofs -------------------------
(***************************************************************************)
(* Arithmetic of a clock that wraps, for every modulus.                    *)
(***************************************************************************)
EXTENDS ModularTick, TLAPS

\* A remainder lies below its divisor.
LEMMA RemainderBelow ==
    ASSUME NEW x \in Int, NEW d \in Nat \ {0}
    PROVE  x % d \in 0 .. d - 1
BY Z3

\* Reduction modulo M of a number less than one turn out of range.
LEMMA ModWithinATurn ==
    ASSUME NEW x \in Int, -TickModulus <= x, x < 2 * TickModulus
    PROVE  x % TickModulus =
             IF x < 0 THEN x + TickModulus
             ELSE IF x < TickModulus THEN x ELSE x - TickModulus
<1> DEFINE M == TickModulus
<1>0. M \in Nat \ {0} /\ -M <= x /\ x < 2 * M
  BY TickModulusAssumption
<1> SUFFICES x % M = IF x < 0 THEN x + M ELSE IF x < M THEN x ELSE x - M
  OBVIOUS
<1> HIDE DEF M
<1>1. x = M * (x \div M) + (x % M) /\ x \div M \in Int /\ x % M \in 0 .. M - 1
  BY <1>0, Z3
<1>2. x \div M < 2
  <2> SUFFICES ASSUME x \div M >= 2 PROVE FALSE
    BY <1>1
  <2>1. M * (x \div M) >= M * 2
    BY <1>0, <1>1, Z3
  <2> QED
    BY <2>1, <1>0, <1>1
<1>3. x \div M >= -1
  <2> SUFFICES ASSUME x \div M <= -2 PROVE FALSE
    BY <1>1
  <2>1. M * (x \div M) <= M * (-2)
    BY <1>0, <1>1, Z3
  <2> QED
    BY <2>1, <1>0, <1>1
<1>4. x \div M \in {-1, 0, 1}
  BY <1>1, <1>2, <1>3
<1>5. \/ x = -M + (x % M)
      \/ x = x % M
      \/ x = M + (x % M)
  BY <1>0, <1>1, <1>4, Z3
<1> QED
  BY <1>0, <1>1, <1>5

\* The sum and the difference of readings are readings.
LEMMA ReadingsInTick ==
    ASSUME NEW a \in Int, NEW b \in Int
    PROVE  Elapsed(a, b) \in Tick /\ Plus(a, b) \in Tick
BY TickModulusAssumption DEF Elapsed, Plus, Tick

\* The difference and the sum of two readings, without the modulus.
LEMMA ElapsedUnfolded ==
    ASSUME NEW a \in Tick, NEW b \in Tick
    PROVE  Elapsed(a, b) = IF a < b THEN a - b + TickModulus ELSE a - b
<1>1. a - b \in Int /\ TickModulus \in Nat \ {0}
  BY TickModulusAssumption DEF Tick
<1>2. -TickModulus <= a - b /\ a - b < 2 * TickModulus
  BY TickModulusAssumption DEF Tick
<1>3. (a - b) % TickModulus =
        IF a - b < 0 THEN a - b + TickModulus
        ELSE IF a - b < TickModulus THEN a - b ELSE a - b - TickModulus
  BY <1>1, <1>2, ModWithinATurn
<1> QED
  BY <1>3, TickModulusAssumption DEF Elapsed, Tick

LEMMA PlusUnfolded ==
    ASSUME NEW a \in Tick, NEW b \in Tick
    PROVE  Plus(a, b) = IF a + b < TickModulus THEN a + b ELSE a + b - TickModulus
<1> DEFINE x == a + b
<1>1. x \in Int /\ TickModulus \in Nat \ {0}
  BY TickModulusAssumption DEF Tick
<1>2. 0 <= x /\ -TickModulus <= x /\ x < 2 * TickModulus
  BY TickModulusAssumption DEF Tick
<1> HIDE DEF x
<1>3. x % TickModulus =
        IF x < 0 THEN x + TickModulus
        ELSE IF x < TickModulus THEN x ELSE x - TickModulus
  BY <1>1, <1>2, ModWithinATurn
<1> QED
  BY <1>2, <1>3, TickModulusAssumption DEF Plus, Tick, x

\* A reading taken d ago is d old.
LEMMA StampAge ==
    ASSUME NEW t \in Tick, NEW d \in Tick
    PROVE  Elapsed(t, Elapsed(t, d)) = d
<1> DEFINE u == Elapsed(t, d)
<1>1. u \in Tick
  BY ReadingsInTick DEF Tick
<1>2. u = IF t < d THEN t - d + TickModulus ELSE t - d
  BY ElapsedUnfolded
<1> HIDE DEF u
<1>3. Elapsed(t, u) = IF t < u THEN t - u + TickModulus ELSE t - u
  BY <1>1, ElapsedUnfolded
<1> QED
  BY <1>2, <1>3, TickModulusAssumption DEF Tick, u

\* A reading ages by one per tick of the clock, short of a whole turn.
LEMMA ReadingAges ==
    ASSUME NEW t \in Tick, NEW u \in Tick, Elapsed(t, u) + 1 < TickModulus
    PROVE  Elapsed(Plus(t, 1), u) = Elapsed(t, u) + 1
<1> DEFINE v == Plus(t, 1)
<1>1. 1 \in Tick /\ v \in Tick
  BY ReadingsInTick, TickModulusAssumption DEF Tick
<1>2. v = IF t + 1 < TickModulus THEN t + 1 ELSE t + 1 - TickModulus
  BY <1>1, PlusUnfolded
<1> HIDE DEF v
<1>3. Elapsed(v, u) = IF v < u THEN v - u + TickModulus ELSE v - u
  BY <1>1, ElapsedUnfolded
<1>4. Elapsed(t, u) = IF t < u THEN t - u + TickModulus ELSE t - u
  BY ElapsedUnfolded
<1> QED
  BY <1>2, <1>3, <1>4, TickModulusAssumption DEF Tick, v

\* A deadline lies as far ahead as it was set.
LEMMA DeadlineAhead ==
    ASSUME NEW t \in Tick, NEW d \in Tick
    PROVE  Elapsed(Plus(t, d), t) = d
<1> DEFINE v == Plus(t, d)
<1>1. v \in Tick /\ v = IF t + d < TickModulus THEN t + d ELSE t + d - TickModulus
  BY ReadingsInTick, PlusUnfolded DEF Tick
<1> HIDE DEF v
<1>2. Elapsed(v, t) = IF v < t THEN v - t + TickModulus ELSE v - t
  BY <1>1, ElapsedUnfolded
<1> QED
  BY <1>1, <1>2, TickModulusAssumption DEF Tick, v

\* Half a turn is a number of ticks less than a turn.
LEMMA HalfTurnIsLess == HalfTurn \in Nat /\ HalfTurn < TickModulus
<1> DEFINE h == TickModulus \div 2
<1>1. h \in Int /\ 2 * h <= TickModulus /\ TickModulus < 2 * h + 2
  BY TickModulusAssumption, Z3
<1> HIDE DEF h
<1> QED
  BY <1>1, TickModulusAssumption DEF HalfTurn, h

\* Two halves of a turn are not more than a turn.
LEMMA TwoHalves == 2 * HalfTurn <= TickModulus /\ HalfTurn \in Nat
<1> DEFINE h == TickModulus \div 2
<1>1. 2 * h <= TickModulus
  BY TickModulusAssumption, Z3
<1> QED
  BY <1>1, HalfTurnIsLess DEF HalfTurn

-----------------------------------------------------------------------------
(***************************************************************************)
(* Readings seen from another reading: how far ahead one is, as a signed   *)
(* number, which is what (int32_t)(t - u) computes.                        *)
(***************************************************************************)
Ahead(t, u) ==
    LET gap == Elapsed(t, u)
    IN  IF gap < HalfTurn THEN gap ELSE gap - TickModulus

\* Up to a turn of the clock it is the difference.
LEMMA AheadUnfolded ==
    ASSUME NEW t \in Tick, NEW u \in Tick
    PROVE  /\ Ahead(t, u) \in Int
           /\ HalfTurn - TickModulus <= Ahead(t, u) /\ Ahead(t, u) < HalfTurn
           /\ \/ t - u = Ahead(t, u)
              \/ t - u = Ahead(t, u) + TickModulus
              \/ t - u = Ahead(t, u) - TickModulus
<1>1. Elapsed(t, u) = IF t < u THEN t - u + TickModulus ELSE t - u
  BY ElapsedUnfolded
<1> QED
  BY <1>1, HalfTurnIsLess, TickModulusAssumption DEF Ahead, Tick

\* And no other number less than half a turn is.
LEMMA AheadIs ==
    ASSUME NEW t \in Tick, NEW u \in Tick, NEW d \in Int, -HalfTurn < d, d < HalfTurn,
           \/ t - u = d
           \/ t - u = d + TickModulus
           \/ t - u = d - TickModulus
    PROVE  Ahead(t, u) = d
<1>1. Elapsed(t, u) = IF t < u THEN t - u + TickModulus ELSE t - u
  BY ElapsedUnfolded
<1> QED
  BY <1>1, HalfTurnIsLess, TwoHalves, TickModulusAssumption DEF Ahead, Tick

LEMMA AheadAdds ==
    ASSUME NEW t \in Tick, NEW u \in Tick, NEW v \in Tick,
           -HalfTurn < Ahead(t, u) + Ahead(u, v), Ahead(t, u) + Ahead(u, v) < HalfTurn
    PROVE  Ahead(t, v) = Ahead(t, u) + Ahead(u, v)
<1> DEFINE a == Ahead(t, u)
           b == Ahead(u, v)
<1>1. a \in Int /\ (t - u = a \/ t - u = a + TickModulus \/ t - u = a - TickModulus)
  BY AheadUnfolded
<1>2. b \in Int /\ (u - v = b \/ u - v = b + TickModulus \/ u - v = b - TickModulus)
  BY AheadUnfolded
<1>3. -HalfTurn < a + b /\ a + b < HalfTurn
  OBVIOUS
<1> HIDE DEF a, b
<1>4. \/ t - v = a + b
      \/ t - v = a + b + TickModulus
      \/ t - v = a + b - TickModulus
  BY <1>1, <1>2, <1>3, HalfTurnIsLess, TwoHalves, TickModulusAssumption DEF Tick
<1> DEFINE c == a + b
<1>5. /\ c \in Int /\ -HalfTurn < c /\ c < HalfTurn
      /\ t - v = c \/ t - v = c + TickModulus \/ t - v = c - TickModulus
  BY <1>1, <1>2, <1>3, <1>4, HalfTurnIsLess, TickModulusAssumption DEF Tick
<1> HIDE DEF c
<1>6. Ahead(t, v) = c
  BY <1>5, AheadIs
<1> QED
  BY <1>6 DEF a, b, c

\* A reading d away from u is d ahead of it.
LEMMA AheadOfPlus ==
    ASSUME NEW u \in Tick, NEW d \in Int, -HalfTurn < d, d < HalfTurn
    PROVE  Plus(u, d) \in Tick /\ Ahead(Plus(u, d), u) = d
<1> DEFINE t == Plus(u, d)
<1>1. u \in Int
  BY TickModulusAssumption DEF Tick
<1>2. t \in Tick
  BY <1>1, ReadingsInTick
<1>3. t = IF u + d < 0 THEN u + d + TickModulus
          ELSE IF u + d < TickModulus THEN u + d ELSE u + d - TickModulus
  <2>1. /\ u + d \in Int /\ -TickModulus <= u + d /\ u + d < 2 * TickModulus
    BY <1>1, HalfTurnIsLess, TickModulusAssumption DEF Tick
  <2> DEFINE w == u + d
  <2>2. t = w % TickModulus
    BY DEF Plus
  <2>3. w \in Int /\ -TickModulus <= w /\ w < 2 * TickModulus
    BY <2>1
  <2> HIDE DEF w
  <2>4. t = IF w < 0 THEN w + TickModulus
            ELSE IF w < TickModulus THEN w ELSE w - TickModulus
    BY <2>2, <2>3, ModWithinATurn
  <2> QED
    BY <1>1, <2>4, TickModulusAssumption DEF w
<1> HIDE DEF t
<1>4. \/ t - u = d
      \/ t - u = d + TickModulus
      \/ t - u = d - TickModulus
  BY <1>1, <1>2, <1>3, TickModulusAssumption DEF Tick
<1> QED
  BY <1>2, <1>4, AheadIs DEF t

\* tick_is_after: the sign of the difference.
LEMMA AfterIsAhead ==
    ASSUME NEW t \in Tick, NEW u \in Tick
    PROVE  IsAfter(t, u) <=> Ahead(t, u) > 0
<1>1. Elapsed(t, u) = IF t < u THEN t - u + TickModulus ELSE t - u
  BY ElapsedUnfolded
<1> QED
  BY <1>1, HalfTurnIsLess, TickModulusAssumption DEF Ahead, IsAfter, Tick

LEMMA AheadReverses ==
    ASSUME NEW t \in Tick, NEW u \in Tick, -HalfTurn < Ahead(t, u)
    PROVE  Ahead(u, t) = -Ahead(t, u)
<1> DEFINE a == Ahead(t, u)
<1>1. /\ a \in Int /\ -HalfTurn < a /\ a < HalfTurn
      /\ (t - u = a \/ t - u = a + TickModulus \/ t - u = a - TickModulus)
  BY AheadUnfolded
<1> HIDE DEF a
<1>2. /\ -a \in Int /\ -HalfTurn < -a /\ -a < HalfTurn
      /\ (u - t = -a \/ u - t = -a + TickModulus \/ u - t = -a - TickModulus)
  BY <1>1, HalfTurnIsLess, TickModulusAssumption DEF Tick
<1> QED
  BY <1>2, AheadIs DEF a

\* The time since a reading of the last half turn.
LEMMA AgeIsBehind ==
    ASSUME NEW t \in Tick, NEW u \in Tick
    PROVE  /\ Elapsed(t, u) \in Nat
           /\ Elapsed(t, u) < HalfTurn => Ahead(u, t) = -Elapsed(t, u)
           /\ -HalfTurn < Ahead(u, t) /\ Ahead(u, t) <= 0 => Elapsed(t, u) = -Ahead(u, t)
<1>1. /\ Elapsed(t, u) = IF t < u THEN t - u + TickModulus ELSE t - u
      /\ Elapsed(u, t) = IF u < t THEN u - t + TickModulus ELSE u - t
  BY ElapsedUnfolded
<1> QED
  BY <1>1, HalfTurnIsLess, TwoHalves, TickModulusAssumption DEF Ahead, Tick

\* When the clock moves on, everything is one tick less ahead.
LEMMA AheadAges ==
    ASSUME NEW t \in Tick, NEW u \in Tick, -HalfTurn + 1 < Ahead(t, u)
    PROVE  Ahead(t, Plus(u, 1)) = Ahead(t, u) - 1
<1> DEFINE v == Plus(u, 1)
<1>1. HalfTurn \in Nat /\ HalfTurn > 1
  <2> DEFINE h == TickModulus \div 2
  <2>1. h \in Int /\ TickModulus < 2 * h + 2
    BY TickModulusAssumption, Z3
  <2> HIDE DEF h
  <2>2. h > 1
    BY <2>1, TickModulusAssumption
  <2> QED
    BY <2>2, HalfTurnIsLess DEF HalfTurn, h
<1>2. v \in Tick /\ Ahead(v, u) = 1
  BY <1>1, AheadOfPlus
<1>3. Ahead(u, v) = -1
  BY <1>1, <1>2, AheadReverses
<1>4. Ahead(t, u) \in Int /\ Ahead(t, u) < HalfTurn
  BY AheadUnfolded
<1> QED
  BY <1>1, <1>2, <1>3, <1>4, AheadAdds

\* Times add up within a turn.
LEMMA ElapsedAdds ==
    ASSUME NEW t \in Tick, NEW u \in Tick, NEW v \in Tick,
           Elapsed(t, u) + Elapsed(u, v) < TickModulus
    PROVE  Elapsed(t, v) = Elapsed(t, u) + Elapsed(u, v)
<1>1. /\ Elapsed(t, u) = IF t < u THEN t - u + TickModulus ELSE t - u
      /\ Elapsed(u, v) = IF u < v THEN u - v + TickModulus ELSE u - v
      /\ Elapsed(t, v) = IF t < v THEN t - v + TickModulus ELSE t - v
  BY ElapsedUnfolded
<1> QED
  BY <1>1, TickModulusAssumption DEF Tick

\* Two readings seen from the same third one.
LEMMA AheadCompares ==
    ASSUME NEW t \in Tick, NEW u \in Tick, NEW v \in Tick, -HalfTurn < Ahead(u, v),
           -HalfTurn < Ahead(t, v) - Ahead(u, v), Ahead(t, v) - Ahead(u, v) < HalfTurn
    PROVE  Ahead(t, u) = Ahead(t, v) - Ahead(u, v)
<1>1. Ahead(v, u) = -Ahead(u, v)
  BY AheadReverses
<1>2. Ahead(t, v) \in Int /\ Ahead(u, v) \in Int
  BY AheadUnfolded
<1>3. Ahead(t, v) + Ahead(v, u) = Ahead(t, v) - Ahead(u, v)
  BY <1>1, <1>2
<1> QED
  BY <1>3, AheadAdds

\* A reading ahead is the time until it.
LEMMA AheadIsElapsed ==
    ASSUME NEW t \in Tick, NEW u \in Tick
    PROVE  /\ Ahead(t, u) >= 0 => Elapsed(t, u) = Ahead(t, u)
           /\ Elapsed(t, u) < HalfTurn => Ahead(t, u) = Elapsed(t, u)
<1>1. Elapsed(t, u) = IF t < u THEN t - u + TickModulus ELSE t - u
  BY ElapsedUnfolded
<1> QED
  BY <1>1, HalfTurnIsLess, TickModulusAssumption DEF Ahead, Tick
=============================================================================

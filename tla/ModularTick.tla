---------------------------- MODULE ModularTick ----------------------------
(***************************************************************************)
(* The millisecond and microsecond clocks of the firmware are free-running *)
(* uint32_t counters.  Every comparison in the actuator core is made on    *)
(* the difference of two readings, so it stays meaningful when a counter   *)
(* wraps, as long as the two readings are less than half a turn apart.     *)
(***************************************************************************)
EXTENDS Integers

CONSTANT TickModulus  \* values of a clock reading: 2^32 in the firmware

ASSUME TickModulusAssumption == TickModulus \in Nat /\ TickModulus > 3

Tick == 0 .. TickModulus - 1

HalfTurn == TickModulus \div 2

\* later - earlier as the firmware computes it: unsigned, modulo 2^32.
Elapsed(later, earlier) == (later - earlier) % TickModulus

\* (int32_t)(candidate - reference) > 0
IsAfter(candidate, reference) ==
    LET gap == Elapsed(candidate, reference)
    IN  0 < gap /\ gap < HalfTurn

IsBefore(candidate, reference) == IsAfter(reference, candidate)

\* Mutant of Plus: the sum is kept in a wider integer than the clock.
PlusUnwrapped(t, d) == t + d

\* A reading d milliseconds after t.
Plus(t, d) == (t + d) % TickModulus
=============================================================================

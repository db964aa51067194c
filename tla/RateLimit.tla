------------------------------- MODULE RateLimit -------------------------------
(***************************************************************************)
(* What a throttle promises about the times at which a send loop runs,     *)
(* whatever the loop does between two sends.                               *)
(***************************************************************************)
EXTENDS Integers, Sequences

CONSTANTS Interval,   \* the time between two sends at the configured rate
          Horizon     \* the clock stops here (a bound for TLC)

ASSUME IntervalAssumption == Interval \in Nat \ {0}
ASSUME HorizonAssumption == Horizon \in Nat

\* The sends i..j (times in the sequence log) take at least Interval for each
\* send after the first two: a stall lets one send catch up, never more.
NoCatchUpBurst(log) ==
    \A i, j \in 1..Len(log) : i < j => log[j] - log[i] >= (j - i - 1) * Interval
=============================================================================

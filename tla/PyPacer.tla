-------------------------------- MODULE PyPacer --------------------------------
(***************************************************************************)
(* py-producer/pacing.py: Pacer.wait() under a positive rate, with the     *)
(* send loop around it; Interval is 1/rate.  Time is discrete; the work    *)
(* between two waits and the lateness of asyncio.sleep are arbitrary.      *)
(***************************************************************************)
EXTENDS Integers, Sequences, RateLimit

VARIABLES now,       \* time.monotonic()
          nextSlot,  \* Pacer._next
          slot,      \* the slot of the last wait()
          asleep,    \* wait() is suspended in sleep
          log,       \* the times at which wait() returned
          first,     \* the slot of the first wait() (history, for NoDrift)
          late       \* some wait() was called after its slot had passed (history)

vars == <<now, nextSlot, slot, asleep, log, first, late>>

\* The clock may read anything at the first wait.
Init == /\ now \in 0..Interval
        /\ nextSlot = 0
        /\ slot = 0
        /\ asleep = FALSE
        /\ log = << >>
        /\ first = 0
        /\ late = FALSE

Later(a, b) == IF a > b THEN a ELSE b

\* The wait for slot s, which leaves n in _next.
Sleep(s, n) == /\ ~asleep
               /\ slot' = s
               /\ nextSlot' = n
               /\ asleep' = TRUE
               /\ first' = IF log = << >> THEN s ELSE first
               /\ late' = (late \/ (log # << >> /\ now > nextSlot))
               /\ UNCHANGED <<now, log>>

\* Mutated form of Wait: no max after the first wait, so missed slots are caught up.
WaitCatchesUp == LET s == IF log = << >> THEN now ELSE nextSlot
                 IN  Sleep(s, s + Interval)

\* Mutated form of Wait: the next slot counts from now, not from the slot.
WaitDrifts == Sleep(Later(nextSlot, now), now + Interval)

\* wait() up to its sleep.
Wait == LET s == Later(nextSlot, now) IN Sleep(s, s + Interval)

\* sleep(slot - now) ends, at the slot or later, and the loop sends.
Wake == /\ asleep
        /\ now >= slot
        /\ log' = Append(log, now)
        /\ asleep' = FALSE
        /\ UNCHANGED <<now, nextSlot, slot, first, late>>

Advance == /\ now < Horizon
           /\ now' = now + 1
           /\ UNCHANGED <<nextSlot, slot, asleep, log, first, late>>

\* The end of the modelled time.
AtHorizon == now = Horizon /\ UNCHANGED vars

Next == Wait \/ Wake \/ Advance \/ AtHorizon

Spec == Init /\ [][Next]_vars
-----------------------------------------------------------------------------
(* Properties. *)

\* A stall of the loop or of the timer is not made up for by a burst, whatever
\* its length (the comment of lines 26-27 and test_no_catch_up_burst).
NoBurst == NoCatchUpBurst(log)

\* While the loop keeps up, the slots stay on the grid of the first one, so
\* work and late timers do not add up to a drift (test_schedule_does_not_drift).
Waits == Len(log) + (IF asleep THEN 1 ELSE 0)
NoDrift == (Waits > 0 /\ ~late) => slot = first + (Waits - 1) * Interval
=============================================================================

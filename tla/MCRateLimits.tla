----------------------------- MODULE MCRateLimits -----------------------------
(* Both throttles in small instances: which says whether a behaviour is one *)
(* of PyPacer or of GoThrottle.  An interval of three clock steps and room  *)
(* for four or five of them, so that a stall skips several slots or ticks.  *)
EXTENDS RateLimit

VARIABLES which, now, log,
          nextSlot, slot, asleep, first, late,         \* of PyPacer
          nextTick, ticks, waiting, ctxDone, returned  \* of GoThrottle

pyOnly == <<nextSlot, slot, asleep, first, late>>
goOnly == <<nextTick, ticks, waiting, ctxDone, returned>>

Py == INSTANCE PyPacer
Go == INSTANCE GoThrottle

Init == \/ /\ which = "py"
           /\ Py!Init
           /\ nextTick = 0 /\ ticks = 0 /\ waiting = FALSE /\ ctxDone = FALSE /\ returned = FALSE
        \/ /\ which = "go"
           /\ Go!Init
           /\ nextSlot = 0 /\ slot = 0 /\ asleep = FALSE /\ first = 0 /\ late = FALSE

Next == \/ which = "py" /\ Py!Next /\ UNCHANGED <<which, goOnly>>
        \/ which = "go" /\ Go!Next /\ UNCHANGED <<which, pyOnly>>

Spec == Init /\ [][Next]_<<which, now, log, pyOnly, goOnly>>
-----------------------------------------------------------------------------
\* Neither the asyncio pacer nor the Go ticker makes up for a stall with a burst.
PyNoBurst == which = "py" => Py!NoBurst
GoNoBurst == which = "go" => Go!NoBurst

\* The slots of the asyncio pacer do not drift while its loop keeps up.
PyNoDrift == which = "py" => Py!NoDrift
=============================================================================

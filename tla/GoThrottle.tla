------------------------------ MODULE GoThrottle ------------------------------
(***************************************************************************)
(* The throttle of the Go producers: a time.Ticker of period second/rate   *)
(* and the select of the send loop on its channel.  The ticker (Tick) is   *)
(* the Go library's: its channel holds one tick and a tick that finds it   *)
(* full is dropped; Interval is time.Second / time.Duration(rateLimit).    *)
(* Time is discrete; the work between two sends is arbitrary.              *)
(***************************************************************************)
EXTENDS Integers, Sequences, RateLimit

VARIABLES now,       \* the clock
          nextTick,  \* when the ticker fires next
          ticks,     \* ticks in the channel ticker.C
          waiting,   \* the loop is in the select
          ctxDone,   \* ctx is cancelled
          returned,  \* run has returned
          log        \* the times of the sends

vars == <<now, nextTick, ticks, waiting, ctxDone, returned, log>>

\* NewTicker: the first tick comes after one period.
Init == /\ now = 0
        /\ nextTick = Interval
        /\ ticks = 0
        /\ waiting = FALSE
        /\ ctxDone = FALSE
        /\ returned = FALSE
        /\ log = << >>

\* The head of the loop: return on a cancelled ctx, else enter the select.
LoopTop == /\ ~waiting /\ ~returned
           /\ returned' = ctxDone
           /\ waiting' = ~ctxDone
           /\ UNCHANGED <<now, nextTick, ticks, ctxDone, log>>

\* Mutated form of TakeTick: a select with a default case does not wait.
TakeNoWait == /\ waiting
              /\ ticks' = 0
              /\ waiting' = FALSE
              /\ log' = Append(log, now)
              /\ UNCHANGED <<now, nextTick, ctxDone, returned>>

\* The select takes a tick, and the loop sends.
TakeTick == /\ waiting
            /\ ticks > 0
            /\ ticks' = ticks - 1
            /\ waiting' = FALSE
            /\ log' = Append(log, now)
            /\ UNCHANGED <<now, nextTick, ctxDone, returned>>

\* The select takes ctx.Done().
TakeDone == /\ waiting
            /\ ctxDone
            /\ waiting' = FALSE
            /\ returned' = TRUE
            /\ UNCHANGED <<now, nextTick, ticks, ctxDone, log>>

Cancel == /\ ~ctxDone
          /\ ctxDone' = TRUE
          /\ UNCHANGED <<now, nextTick, ticks, waiting, returned, log>>

Tick == /\ ~returned
        /\ now = nextTick
        /\ ticks' = 1
        /\ nextTick' = nextTick + Interval
        /\ UNCHANGED <<now, waiting, ctxDone, returned, log>>

Advance == /\ now < Horizon
           /\ now < nextTick \/ returned
           /\ now' = now + 1
           /\ UNCHANGED <<nextTick, ticks, waiting, ctxDone, returned, log>>

\* The end of the modelled time.
AtHorizon == now = Horizon /\ UNCHANGED vars

Next == LoopTop \/ TakeTick \/ TakeDone \/ Cancel \/ Tick \/ Advance \/ AtHorizon

Spec == Init /\ [][Next]_vars
-----------------------------------------------------------------------------
(* Properties. *)

\* A stall of the loop lets one send catch up, never more: the promise that
\* pacing.py copies from the Go ticker (lines 26-27 of pacing.py).
NoBurst == NoCatchUpBurst(log)
=============================================================================

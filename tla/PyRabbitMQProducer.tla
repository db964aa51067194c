-------------------------- MODULE PyRabbitMQProducer --------------------------
(***************************************************************************)
(* py-producer/rabbitmq.py: the asyncio send loop over the rstream         *)
(* SuperStreamProducer.  An action of the program is the code between two  *)
(* awaits.  The client and the broker (Buffer, Store, Drop, Outage,        *)
(* Recover) are outside the program: send() buffers a message or raises,   *)
(* and the client calls on_confirm at most once per buffered message,      *)
(* never for one whose send() raised.  A confirmation that was on the wire *)
(* when the connection broke may never come (Drop).                        *)
(***************************************************************************)
EXTENDS Naturals, FiniteSets

CONSTANTS Messages,     \* the messages the run may send (a bound for TLC)
          MaxInFlight   \* pacing.MAX_IN_FLIGHT

ASSUME MaxInFlightAssumption == MaxInFlight \in Nat \ {0}

VARIABLES pc,         \* where the coroutine run() is suspended
          stop,       \* the asyncio.Event set by the signal handlers
          permits,    \* value of the in_flight semaphore
          phase,      \* phase[m]: how far message m has got
          produced,   \* produced[m]: increments of messages_produced for m
          errors,     \* errors[m]: increments of produce_errors for m
          persisted,  \* messages the broker has stored
          up          \* the broker answers

program == <<pc, stop, permits, produced, errors>>
broker == <<persisted, up>>
vars == <<program, phase, broker>>

PCs == {"connect", "starting", "retry", "loop", "pacing", "acquiring",
        "sending", "closing", "exited"}

\* fresh: never sent; sending: given to send(), not yet buffered; buffered:
\* the client owes its confirmation; dropped: no confirmation will come; done.
Phases == {"fresh", "sending", "buffered", "dropped", "done"}

In(ps) == {m \in Messages : phase[m] \in ps}

\* The messages that hold a permit of the semaphore.
Held == In({"sending", "buffered", "dropped"})

Fresh == In({"fresh"})

Init == /\ pc = "connect"
        /\ stop = FALSE
        /\ permits = MaxInFlight
        /\ phase = [m \in Messages |-> "fresh"]
        /\ produced = [m \in Messages |-> 0]
        /\ errors = [m \in Messages |-> 0]
        /\ persisted = {}
        /\ up \in BOOLEAN

\* A step of the coroutine that moves only its control.
Goto(from, to) == /\ pc = from
                  /\ pc' = to
                  /\ UNCHANGED <<stop, permits, phase, produced, errors, broker>>

\* Message m is finished: p and e are added to the counters of produced
\* messages and of errors, r permits are released.
Finish(m, p, e, r) == /\ phase' = [phase EXCEPT ![m] = "done"]
                      /\ produced' = [produced EXCEPT ![m] = @ + p]
                      /\ errors' = [errors EXCEPT ![m] = @ + e]
                      /\ permits' = permits + r
                      /\ UNCHANGED <<stop, broker>>
-----------------------------------------------------------------------------
(* The connect loop. *)

\* The loop condition; a stop seen here returns before the send loop.
ConnectTop == Goto("connect", IF stop THEN "exited" ELSE "starting")

\* producer.start() succeeds and the loop breaks.  A stop set meanwhile makes
\* run() return without the close() of the try block below.
Connected == up /\ Goto("starting", IF stop THEN "exited" ELSE "loop")

ConnectFails == ~up /\ Goto("starting", "retry")

\* The sleep of 3 s ends.
RetryConnect == Goto("retry", "connect")
-----------------------------------------------------------------------------
(* The send loop. *)

\* The loop condition, then pacer.wait() suspends the coroutine.  When the
\* messages of the model are used up the loop only waits for stop.
LoopTop == /\ stop \/ Fresh # {}
           /\ Goto("loop", IF stop THEN "closing" ELSE "pacing")

Paced == Goto("pacing", "acquiring")

\* in_flight.acquire() parks the coroutine while there is no permit; then the
\* message is built and send() is awaited.
Acquire(m) == /\ pc = "acquiring"
              /\ permits > 0
              /\ m \in Fresh
              /\ permits' = permits - 1
              /\ phase' = [phase EXCEPT ![m] = "sending"]
              /\ pc' = "sending"
              /\ UNCHANGED <<stop, produced, errors, broker>>

\* Mutated form of SendReturns: gives the permit back before the confirmation.
SendReturnsReleases == /\ pc = "sending" /\ In({"sending"}) = {}
                       /\ permits' = permits + 1
                       /\ pc' = "loop"
                       /\ UNCHANGED <<stop, phase, produced, errors, broker>>

\* send() returns.  The confirmation may have come before.
SendReturns == In({"sending"}) = {} /\ Goto("sending", "loop")

\* Mutated form of SendRaises: forgets to give the permit back.
SendRaisesKeepsPermit(m) == /\ pc = "sending" /\ phase[m] = "sending"
                            /\ Finish(m, 0, 1, 0)
                            /\ pc' = "loop"

\* send() raised: count the error and give the permit back.
SendRaises(m) == /\ pc = "sending"
                 /\ phase[m] = "sending"
                 /\ Finish(m, 0, 1, 1)
                 /\ pc' = "loop"

\* Mutated form of OnConfirm: counts a failed status as produced as well.
OnConfirmFallsThrough(m) == /\ pc # "exited" /\ up /\ phase[m] = "buffered"
                            /\ \/ m \in persisted /\ Finish(m, 1, 0, 1)
                               \/ Finish(m, 1, 1, 1)
                            /\ UNCHANGED pc

\* on_confirm(status): the client runs it for one message at a time.  Only a
\* stored message is confirmed; a stored one may still be reported as failed.
OnConfirm(m) == /\ pc # "exited"
                /\ up
                /\ phase[m] = "buffered"
                /\ \/ m \in persisted /\ Finish(m, 1, 0, 1)
                   \/ Finish(m, 0, 1, 1)
                /\ UNCHANGED pc

\* producer.close() returns; it owes nobody the confirmations still missing.
Closed == Goto("closing", "exited")

\* SIGTERM or SIGINT: the handler runs in the event loop, at any await.
Signal == /\ pc # "exited"
          /\ ~stop
          /\ stop' = TRUE
          /\ UNCHANGED <<pc, permits, phase, produced, errors, broker>>
-----------------------------------------------------------------------------
(* The client and the broker, which may go down and come back at any time. *)

Buffer(m) == /\ phase[m] = "sending"
             /\ phase' = [phase EXCEPT ![m] = "buffered"]
             /\ UNCHANGED <<program, broker>>

Store(m) == /\ up
            /\ phase[m] = "buffered"
            /\ m \notin persisted
            /\ persisted' = persisted \cup {m}
            /\ UNCHANGED <<program, phase, up>>

\* The connection broke: the message or its confirmation is gone.
Drop(m) == /\ ~up
           /\ phase[m] = "buffered"
           /\ phase' = [phase EXCEPT ![m] = "dropped"]
           /\ UNCHANGED <<program, broker>>

Outage == up /\ up' = FALSE /\ UNCHANGED <<program, phase, persisted>>

Recover == ~up /\ up' = TRUE /\ UNCHANGED <<program, phase, persisted>>
-----------------------------------------------------------------------------
Next == \/ ConnectTop \/ Connected \/ ConnectFails \/ RetryConnect
        \/ LoopTop \/ Paced \/ SendReturns \/ Closed \/ Signal
        \/ \E m \in Messages : Acquire(m) \/ SendRaises(m) \/ OnConfirm(m)
        \/ \E m \in Messages : Buffer(m) \/ Store(m) \/ Drop(m)
        \/ Outage \/ Recover

Spec == Init /\ [][Next]_vars

\* The event loop runs every runnable task and timer; the client settles every
\* send(); the broker does not stay down and confirms what it stores.
Fairness == /\ WF_vars(ConnectTop)
            /\ SF_vars(Connected) /\ WF_vars(ConnectFails) /\ WF_vars(RetryConnect)
            /\ WF_vars(LoopTop) /\ WF_vars(Paced)
            /\ WF_vars(\E m \in Messages : Acquire(m))
            /\ WF_vars(SendReturns)
            /\ \A m \in Messages : WF_vars(Buffer(m) \/ SendRaises(m))
            /\ WF_vars(Closed)
            /\ \A m \in Messages : SF_vars(OnConfirm(m))
            /\ WF_vars(Recover)

FairSpec == Spec /\ Fairness
-----------------------------------------------------------------------------
(* Properties. *)

\* Every variable has the type the code gives it.
TypeOK == /\ pc \in PCs
          /\ stop \in BOOLEAN
          /\ permits \in Nat
          /\ phase \in [Messages -> Phases]
          /\ produced \in [Messages -> Nat]
          /\ errors \in [Messages -> Nat]
          /\ persisted \subseteq Messages
          /\ up \in BOOLEAN

\* No permit is lost or invented: a permit missing from the semaphore is held
\* by one message that is being sent, awaits its confirmation, or will never
\* get one (lines 78, 95 and 105 of rabbitmq.py).
PermitConservation == /\ IsFiniteSet(Held)
                      /\ permits + Cardinality(Held) = MaxInFlight

\* After a signal the process ends, unless lost confirmations have used up
\* every permit: nothing gives back the permit of a confirmation that never
\* comes, and the loop then waits in acquire() for ever.
SignalEndsRun == stop ~> \/ pc = "exited"
                         \/ Cardinality(In({"dropped"})) = MaxInFlight

\* The ledger promise: attempts enter a window of MAX_IN_FLIGHT and leave it
\* through one counter.
Ledger == INSTANCE ProducerLedger WITH inflight <- Held, Window <- MaxInFlight
LedgerSpec == Ledger!Spec
=============================================================================

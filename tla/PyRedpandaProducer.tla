-------------------------- MODULE PyRedpandaProducer --------------------------
(***************************************************************************)
(* py-producer/redpanda.py: the asyncio send loop over AIOKafkaProducer.   *)
(* The event loop switches tasks only at an await, so every action of the  *)
(* program is the code between two awaits.  The client and the broker      *)
(* (Persist, ResolveOk, ResolveErr, Outage, Recover) are outside the       *)
(* program and modelled from how it uses them: send() queues a record and  *)
(* hands back a future that is resolved once, and stop() returns after the *)
(* queued records are resolved.                                            *)
(***************************************************************************)
EXTENDS Naturals, FiniteSets

CONSTANTS Messages,     \* the messages the run may send (a bound for TLC)
          MaxInFlight   \* pacing.MAX_IN_FLIGHT

ASSUME MaxInFlightAssumption == MaxInFlight \in Nat \ {0}

VARIABLES pc,         \* where the coroutine run() is suspended
          stop,       \* the asyncio.Event set by the signal handlers
          permits,    \* value of the in_flight semaphore
          phase,      \* phase[m]: how far message m has got
          produced,   \* produced[m]: increments of messages_produced for m
          errors,     \* errors[m]: increments of produce_errors for m
          persisted,  \* messages the broker has stored
          up          \* the broker answers

program == <<pc, stop, permits, produced, errors>>
broker == <<persisted, up>>
vars == <<program, phase, broker>>

PCs == {"ensure_topic", "start", "loop", "pacing", "acquiring", "sending",
        "stopping", "exited", "crashed"}

\* fresh: never sent; sending: inside send(); queued: its future is pending;
\* acked, failed: its future is resolved and on_ack is scheduled; done.
Phases == {"fresh", "sending", "queued", "acked", "failed", "done"}

In(ps) == {m \in Messages : phase[m] \in ps}

\* The messages that hold a permit of the semaphore.
Held == In({"sending", "queued", "acked", "failed"})

Fresh == In({"fresh"})
Alive == pc \notin {"exited", "crashed"}

Init == /\ pc = "ensure_topic"
        /\ stop = FALSE
        /\ permits = MaxInFlight
        /\ phase = [m \in Messages |-> "fresh"]
        /\ produced = [m \in Messages |-> 0]
        /\ errors = [m \in Messages |-> 0]
        /\ persisted = {}
        /\ up \in BOOLEAN

\* A step of the coroutine that moves only its control.
Goto(from, to) == /\ pc = from
                  /\ pc' = to
                  /\ UNCHANGED <<stop, permits, phase, produced, errors, broker>>

\* Message m is finished: p and e are added to the counters of produced
\* messages and of errors, r permits are released.
Finish(m, p, e, r) == /\ phase' = [phase EXCEPT ![m] = "done"]
                      /\ produced' = [produced EXCEPT ![m] = @ + p]
                      /\ errors' = [errors EXCEPT ![m] = @ + e]
                      /\ permits' = permits + r
                      /\ UNCHANGED <<stop, broker>>
-----------------------------------------------------------------------------
(* Startup.  An exception of create_topics is only logged; one of          *)
(* admin.start or producer.start leaves run() before its try block.        *)

EnsureTopic == Goto("ensure_topic", IF up THEN "start" ELSE "crashed")

StartProducer == Goto("start", IF up THEN "loop" ELSE "crashed")
-----------------------------------------------------------------------------
(* The send loop. *)

\* The loop condition, then pacer.wait() suspends the coroutine.  When the
\* messages of the model are used up the loop only waits for stop.
LoopTop == /\ stop \/ Fresh # {}
           /\ Goto("loop", IF stop THEN "stopping" ELSE "pacing")

Paced == Goto("pacing", "acquiring")

\* The permit is taken, the message is built and send() is awaited.
BeginSend(m) == /\ pc = "acquiring"
                /\ m \in Fresh
                /\ permits' = permits - 1
                /\ phase' = [phase EXCEPT ![m] = "sending"]
                /\ pc' = "sending"
                /\ UNCHANGED <<stop, produced, errors, broker>>

\* Mutated form of Acquire: goes on without a permit.
AcquireNoWait(m) == BeginSend(m)

\* in_flight.acquire() parks the coroutine while there is no permit.
Acquire(m) == permits > 0 /\ BeginSend(m)

\* Mutated form of SendQueued: gives the permit back before the ack.
SendQueuedReleases(m) == /\ pc = "sending" /\ phase[m] = "sending"
                         /\ phase' = [phase EXCEPT ![m] = "queued"]
                         /\ permits' = permits + 1
                         /\ pc' = "loop"
                         /\ UNCHANGED <<stop, produced, errors, broker>>

\* send() returned a future; add_done_callback follows with no await between.
SendQueued(m) == /\ pc = "sending"
                 /\ phase[m] = "sending"
                 /\ phase' = [phase EXCEPT ![m] = "queued"]
                 /\ pc' = "loop"
                 /\ UNCHANGED <<stop, permits, produced, errors, broker>>

\* Mutated form of SendRaises: forgets to give the permit back.
SendRaisesKeepsPermit(m) == /\ pc = "sending" /\ phase[m] = "sending"
                            /\ Finish(m, 0, 1, 0)
                            /\ pc' = "loop"

\* send() raised: count the error, give the permit back, continue.
SendRaises(m) == /\ pc = "sending"
                 /\ phase[m] = "sending"
                 /\ Finish(m, 0, 1, 1)
                 /\ pc' = "loop"

\* Mutated form of OnAck: no return after counting the error.
OnAckFallsThrough(m) == /\ Alive
                        /\ \/ phase[m] = "failed" /\ Finish(m, 1, 1, 1)
                           \/ phase[m] = "acked" /\ Finish(m, 1, 0, 1)
                        /\ UNCHANGED pc

\* Mutated form of OnAck: never looks at the outcome of the future.
OnAckIgnoresOutcome(m) == /\ Alive
                          /\ phase[m] \in {"acked", "failed"}
                          /\ Finish(m, 1, 0, 1)
                          /\ UNCHANGED pc

\* The done-callback of the future of m.
OnAck(m) == /\ Alive
            /\ \/ phase[m] = "failed" /\ Finish(m, 0, 1, 1)
               \/ phase[m] = "acked" /\ Finish(m, 1, 0, 1)
            /\ UNCHANGED pc

\* Mutated form of ProducerStopped: run() returns without waiting for stop().
ReturnWithoutStop == Goto("stopping", "exited")

\* producer.stop() returns once every record is resolved.  on_ack was added to
\* a future before stop() began to wait for it, so it runs before stop() resumes.
ProducerStopped == /\ In({"queued", "acked", "failed"}) = {}
                   /\ Goto("stopping", "exited")

\* SIGTERM or SIGINT: the handler runs in the event loop, at any await.
Signal == /\ Alive
          /\ ~stop
          /\ stop' = TRUE
          /\ UNCHANGED <<pc, permits, phase, produced, errors, broker>>
-----------------------------------------------------------------------------
(* The client and the broker, which may go down and come back at any time. *)

Persist(m) == /\ up
              /\ phase[m] = "queued"
              /\ m \notin persisted
              /\ persisted' = persisted \cup {m}
              /\ UNCHANGED <<program, phase, up>>

ResolveOk(m) == /\ up
                /\ phase[m] = "queued"
                /\ m \in persisted
                /\ phase' = [phase EXCEPT ![m] = "acked"]
                /\ UNCHANGED <<program, broker>>

\* A failed record may have been stored: only its acknowledgement is missing.
ResolveErr(m) == /\ phase[m] = "queued"
                 /\ phase' = [phase EXCEPT ![m] = "failed"]
                 /\ UNCHANGED <<program, broker>>

Outage == up /\ up' = FALSE /\ UNCHANGED <<program, phase, persisted>>

Recover == ~up /\ up' = TRUE /\ UNCHANGED <<program, phase, persisted>>
-----------------------------------------------------------------------------
Next == \/ EnsureTopic \/ StartProducer
        \/ LoopTop \/ Paced \/ ProducerStopped \/ Signal
        \/ \E m \in Messages : Acquire(m) \/ SendQueued(m) \/ SendRaises(m) \/ OnAck(m)
        \/ \E m \in Messages : Persist(m) \/ ResolveOk(m) \/ ResolveErr(m)
        \/ Outage \/ Recover

Spec == Init /\ [][Next]_vars

\* The event loop runs every runnable task and callback; the broker answers
\* what is queued while it is up, and does not stay down.
Fairness == /\ WF_vars(EnsureTopic) /\ WF_vars(StartProducer)
            /\ WF_vars(LoopTop) /\ WF_vars(Paced)
            /\ WF_vars(\E m \in Messages : Acquire(m))
            /\ WF_vars(\E m \in Messages : SendQueued(m) \/ SendRaises(m))
            /\ WF_vars(ProducerStopped)
            /\ \A m \in Messages : WF_vars(OnAck(m))
            /\ \A m \in Messages : SF_vars(Persist(m)) /\ SF_vars(ResolveOk(m))
            /\ WF_vars(Recover)

FairSpec == Spec /\ Fairness
-----------------------------------------------------------------------------
(* Properties. *)

\* Every variable has the type the code gives it.
TypeOK == /\ pc \in PCs
          /\ stop \in BOOLEAN
          /\ permits \in Nat
          /\ phase \in [Messages -> Phases]
          /\ produced \in [Messages -> Nat]
          /\ errors \in [Messages -> Nat]
          /\ persisted \subseteq Messages
          /\ up \in BOOLEAN

\* No permit is lost or invented: a permit missing from the semaphore is held
\* by exactly one message between acquire() and its ack, its error or the
\* exception of send() (lines 53, 81 and 90 of redpanda.py).
PermitConservation == /\ IsFiniteSet(Held)
                      /\ permits + Cardinality(Held) = MaxInFlight

\* Records handed to the client and not yet answered never exceed
\* MAX_IN_FLIGHT: the bound that keeps the memory flat when the broker is slow.
Unacked == In({"queued"})
InFlightBounded == Cardinality(Unacked) <= MaxInFlight

\* A message moves one counter, once: never both, never twice, whichever of
\* the exception of send() and the future reports it.
CountedOnce == \A m \in Messages :
                 produced[m] + errors[m] = (IF phase[m] = "done" THEN 1 ELSE 0)

\* messages_produced never overstates what the broker has stored.
ProducedIsPersisted == \A m \in Messages : produced[m] > 0 => m \in persisted

\* When run() returns, every message handed to send() has been counted: stop()
\* flushes, so the final acks still land in the metrics (line 94).
FinalAcksCounted == pc = "exited" => \A m \in Messages :
                                       phase[m] # "fresh" => produced[m] + errors[m] = 1

\* After a signal the process ends once the broker stays up, even when the
\* loop was parked in acquire() or in stop() during an outage.
SignalEndsRun == stop ~> (pc \in {"exited", "crashed"})

\* The ledger promise: attempts enter a window of MAX_IN_FLIGHT and leave it
\* through one counter.
Ledger == INSTANCE ProducerLedger WITH inflight <- Held, Window <- MaxInFlight
LedgerSpec == Ledger!Spec
=============================================================================

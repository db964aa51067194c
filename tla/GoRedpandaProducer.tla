-------------------------- MODULE GoRedpandaProducer --------------------------
(***************************************************************************)
(* producer/redpanda.go: the send loop over the franz-go client.  Produce  *)
(* buffers the record and calls the closure back once, from another        *)
(* goroutine, with or without an error; it blocks while the client's       *)
(* buffer is full, and gives up when ctx is cancelled.  The client and the *)
(* broker (Store, Outage, Recover and the choice of the callback's error)  *)
(* are outside the program.                                                *)
(***************************************************************************)
EXTENDS Naturals, FiniteSets

CONSTANTS Messages,     \* the messages the run may send (a bound for TLC)
          MaxBuffered   \* records the client buffers before Produce blocks

ASSUME MaxBufferedAssumption == MaxBuffered \in Nat \ {0}

VARIABLES pc,         \* where the goroutine of run() is
          ctxDone,    \* ctx is cancelled
          cur,        \* the record being produced, as a set of one
          buffered,   \* records in the client
          sent,       \* records the program has handed to Produce
          produced,   \* produced[m]: increments of messages_produced for m
          errors,     \* errors[m]: increments of produce_errors for m
          persisted,  \* records the broker has stored
          up          \* the broker answers

counters == <<produced, errors>>
broker == <<persisted, up>>
vars == <<pc, ctxDone, cur, buffered, sent, counters, broker>>

PCs == {"create", "loop", "throttle", "produce", "closing", "returned"}

Fresh == Messages \ sent

Init == /\ pc = "create"
        /\ ctxDone = FALSE
        /\ cur = {} /\ buffered = {} /\ sent = {}
        /\ produced = [m \in Messages |-> 0]
        /\ errors = [m \in Messages |-> 0]
        /\ persisted = {}
        /\ up \in BOOLEAN

\* A step of run() that moves only its control.
Goto(from, to) == /\ pc = from
                  /\ pc' = to
                  /\ UNCHANGED <<ctxDone, cur, buffered, sent, counters, broker>>

\* The callback of m: p and e are added to the counters.
Callback(m, p, e) == /\ pc # "returned"
                     /\ m \in buffered
                     /\ buffered' = buffered \ {m}
                     /\ produced' = [produced EXCEPT ![m] = @ + p]
                     /\ errors' = [errors EXCEPT ![m] = @ + e]
                     /\ UNCHANGED <<pc, ctxDone, cur, sent, broker>>
-----------------------------------------------------------------------------
\* newRedpandaProducer: creating the topic gives up after 30 s, and its error
\* is only logged.
Create == Goto("create", "loop")

\* The non-blocking look at ctx.Done().  When the messages of the model are
\* used up the loop only waits for ctx.
LoopTop == /\ ctxDone \/ Fresh # {}
           /\ Goto("loop", IF ctxDone THEN "closing" ELSE "throttle")

\* The throttle and the new record, handed to Produce.  A cancelled ctx may
\* win the select.
Throttle == \/ /\ pc = "throttle"
               /\ \E m \in Fresh : cur' = {m} /\ sent' = sent \cup {m}
               /\ pc' = "produce"
               /\ UNCHANGED <<ctxDone, buffered, counters, broker>>
            \/ ctxDone /\ Goto("throttle", "closing")

\* Produce buffers the record and returns.
Buffer == /\ pc = "produce"
          /\ Cardinality(buffered) < MaxBuffered
          /\ buffered' = buffered \cup cur
          /\ cur' = {}
          /\ pc' = "loop"
          /\ UNCHANGED <<ctxDone, sent, counters, broker>>

\* Mutated form of ProduceCancelled: Produce gets a ctx that nobody cancels.
ProduceIgnoresCtx(m) == FALSE

\* Produce gives up on a cancelled ctx: the callback gets the error.
ProduceCancelled(m) == /\ pc = "produce"
                       /\ ctxDone
                       /\ m \in cur
                       /\ errors' = [errors EXCEPT ![m] = @ + 1]
                       /\ cur' = {}
                       /\ pc' = "loop"
                       /\ UNCHANGED <<ctxDone, buffered, sent, produced, persisted, up>>

\* Mutated form of AckOk: forgets to count.
AckOkUncounted(m) == up /\ m \in persisted /\ Callback(m, 0, 0)

\* The callback of m without an error.
AckOk(m) == up /\ m \in persisted /\ Callback(m, 1, 0)

\* Mutated form of AckErr: no return after counting the error.
AckErrFallsThrough(m) == Callback(m, 1, 1)

\* The callback of m with an error: count it and return.
AckErr(m) == Callback(m, 0, 1)

\* The deferred client.Close(): it does not flush.  Then the process ends.
Close == Goto("closing", "returned")

\* main.go: SIGTERM or SIGINT cancels ctx.
Cancel == /\ pc # "returned"
          /\ ~ctxDone
          /\ ctxDone' = TRUE
          /\ UNCHANGED <<pc, cur, buffered, sent, counters, broker>>

Store(m) == /\ up
            /\ m \in buffered
            /\ m \notin persisted
            /\ persisted' = persisted \cup {m}
            /\ UNCHANGED <<pc, ctxDone, cur, buffered, sent, produced, errors, up>>

Outage == /\ up
          /\ up' = FALSE
          /\ UNCHANGED <<pc, ctxDone, cur, buffered, sent, produced, errors, persisted>>

Recover == /\ ~up
           /\ up' = TRUE
           /\ UNCHANGED <<pc, ctxDone, cur, buffered, sent, produced, errors, persisted>>

Next == \/ Create \/ LoopTop \/ Throttle \/ Buffer \/ Close
        \/ \E m \in Messages : ProduceCancelled(m) \/ AckOk(m) \/ AckErr(m)
        \/ Cancel
        \/ \E m \in Messages : Store(m)
        \/ Outage \/ Recover

Spec == Init /\ [][Next]_vars

\* The scheduler runs the loop; the client stores and acknowledges while the
\* broker answers.  Nothing says that the broker comes back.
Fairness == /\ WF_vars(Create) /\ WF_vars(LoopTop) /\ WF_vars(Throttle)
            /\ WF_vars(Buffer \/ \E m \in Messages : ProduceCancelled(m))
            /\ WF_vars(Close)
            /\ \A m \in Messages : SF_vars(Store(m)) /\ SF_vars(AckOk(m))

FairSpec == Spec /\ Fairness
-----------------------------------------------------------------------------
(* Properties. *)

\* Every variable has the type the code gives it.
TypeOK == /\ pc \in PCs
          /\ ctxDone \in BOOLEAN /\ up \in BOOLEAN
          /\ cur \subseteq Messages /\ buffered \subseteq Messages
          /\ sent \subseteq Messages /\ persisted \subseteq Messages
          /\ produced \in [Messages -> Nat] /\ errors \in [Messages -> Nat]

\* After a signal the process ends, even when the broker never comes back:
\* Produce has the cancelled ctx, so a full buffer does not hold the loop.
CancelEndsRun == ctxDone ~> (pc = "returned")

\* While the broker answers again and again, a buffered record is counted in
\* the end, or the process ends first.
BufferedIsCounted == ([]<>up) =>
    \A m \in Messages : m \in buffered ~> (produced[m] + errors[m] > 0 \/ pc = "returned")

\* The ledger promise, with the client's buffer and the record in Produce.
Ledger == INSTANCE ProducerLedger
            WITH inflight <- buffered \cup cur, Window <- MaxBuffered + 1
LedgerSpec == Ledger!Spec
=============================================================================

-------------------------- MODULE GoRabbitMQProducer --------------------------
(***************************************************************************)
(* producer/rabbitmq.go: a send loop and a confirmation goroutine share    *)
(* the maps sendTimes and msgBytes under the mutex mu.  The loop stores a  *)
(* message's send time and size before it hands the message to the stream  *)
(* client; the goroutine looks them up, deletes them and counts when the   *)
(* confirmation comes through chConfirm.  The client and the broker        *)
(* (Store, Publish, Outage, Recover) are outside the program: every        *)
(* message accepted by Send is answered once, confirmed or not (an answer  *)
(* that does not come in time is replaced by a negative one), in batches   *)
(* written to chConfirm, which blocks while the channel is full.           *)
(***************************************************************************)
EXTENDS Naturals, FiniteSets, Sequences

CONSTANTS Messages,           \* the messages the run may send (a bound for TLC)
          ConfirmSlots,       \* capacity of chConfirm, 10_000 in the code
          Reported            \* messages that the client may answer even if Send refused them

ASSUME ConfirmSlotsAssumption == ConfirmSlots \in Nat \ {0}
ASSUME ReportedAssumption == Reported \subseteq Messages

VARIABLES pc,           \* where the goroutine of run() is
          ctxDone,      \* ctx is cancelled
          cur,          \* the message of the iteration, as a set of one
          mu,           \* who holds the mutex
          sendTimes,    \* keys of p.sendTimes
          msgBytes,     \* keys of p.msgBytes
          cpc,          \* where the confirmation goroutine is
          batch,        \* the statuses of the received batch still to do
          item,         \* the status in work, as a set of one
          found,        \* which of t and sz the lookup found
          chConfirm,    \* the confirmation channel
          unconfirmed,  \* messages the client has not answered yet
          persisted,    \* messages the broker has stored
          up,           \* the broker answers
          attempted,    \* messages the loop has begun to send
          produced,     \* produced[m]: increments of messages_produced for m
          errors,       \* errors[m]: increments of produce_errors for m
          timed,        \* messages whose ack latency was observed
          sized         \* messages whose size was added to bytes_produced

loop == <<pc, cur, attempted>>
maps == <<sendTimes, msgBytes>>
confirmer == <<cpc, batch, item, found>>
counters == <<produced, errors, timed, sized>>
environment == <<chConfirm, unconfirmed, persisted, up>>
vars == <<loop, ctxDone, mu, maps, confirmer, counters, environment>>

PCs == {"connect", "create", "loop", "throttle", "lock_store", "store", "send",
        "lock_undo", "undo", "closing", "returned"}
CPCs == {"receive", "next", "lookup", "count"}

Status == [msg : Messages, ok : BOOLEAN]
Statuses(ms, ok) == {[msg |-> m, ok |-> ok] : m \in ms}

Fresh == Messages \ attempted
Running == pc # "returned"

Init == /\ pc = "connect"
        /\ ctxDone = FALSE
        /\ cur = {}
        /\ mu = "free"
        /\ sendTimes = {} /\ msgBytes = {}
        /\ cpc = "receive" /\ batch = {} /\ item = {} /\ found = {}
        /\ chConfirm = << >>
        /\ unconfirmed = {} /\ persisted = {}
        /\ up \in BOOLEAN
        /\ attempted = {}
        /\ produced = [m \in Messages |-> 0]
        /\ errors = [m \in Messages |-> 0]
        /\ timed = {} /\ sized = {}

\* A step of run() that moves only its control.
Goto(from, to) == /\ pc = from
                  /\ pc' = to
                  /\ UNCHANGED <<ctxDone, cur, attempted, mu, maps, confirmer,
                                 counters, environment>>

\* The status s is done: p and e are added to the counters, latency and bytes
\* only with a send time that the lookup found.
Finish(s, p, e) == /\ produced' = [produced EXCEPT ![s.msg] = @ + p]
                   /\ errors' = [errors EXCEPT ![s.msg] = @ + e]
                   /\ timed' = timed \cup (IF s.ok /\ "t" \in found THEN {s.msg} ELSE {})
                   /\ sized' = sized \cup (IF s.ok /\ {"t", "sz"} \subseteq found
                                           THEN {s.msg} ELSE {})
                   /\ item' = {}
                   /\ found' = {}
                   /\ cpc' = IF batch = {} THEN "receive" ELSE "next"
                   /\ UNCHANGED <<loop, ctxDone, mu, maps, batch, environment>>
-----------------------------------------------------------------------------
(* newRabbitMQProducer and the head of run. *)

\* connectRabbitMQEnv tries again every 3 s and never looks at ctx.
Connect == up /\ Goto("connect", "create")

\* NewSuperStreamProducer; on its error run returns.
CreateProducer == \/ up /\ Goto("create", "loop")
                  \/ Goto("create", "returned")
-----------------------------------------------------------------------------
(* The send loop. *)

\* The non-blocking look at ctx.Done().  When the messages of the model are
\* used up the loop only waits for ctx.
LoopTop == /\ ctxDone \/ Fresh # {}
           /\ Goto("loop", IF ctxDone THEN "closing" ELSE "throttle")

\* The throttle: a tick (or no throttle at all) lets the loop go on; a
\* cancelled ctx may win the select.
Throttle == \/ Goto("throttle", "lock_store")
            \/ ctxDone /\ Goto("throttle", "closing")

\* The message gets its id and the mutex is taken.
LockStore(m) == /\ pc = "lock_store"
                /\ m \in Fresh
                /\ mu = "free"
                /\ mu' = "loop"
                /\ cur' = {m}
                /\ attempted' = attempted \cup {m}
                /\ pc' = "store"
                /\ UNCHANGED <<ctxDone, maps, confirmer, counters, environment>>

StoreEntry == /\ pc = "store"
              /\ sendTimes' = sendTimes \cup cur
              /\ msgBytes' = msgBytes \cup cur
              /\ mu' = "free"
              /\ pc' = "send"
              /\ UNCHANGED <<ctxDone, cur, attempted, confirmer, counters, environment>>

\* producer.Send returns nil: the client owns the message.
SendAccepted == /\ pc = "send"
                /\ unconfirmed' = unconfirmed \cup cur
                /\ cur' = {}
                /\ pc' = "loop"
                /\ UNCHANGED <<ctxDone, attempted, mu, maps, confirmer, counters,
                               chConfirm, persisted, up>>

\* producer.Send returns an error, which is counted at once.
SendRefused(m) == /\ pc = "send"
                  /\ m \in cur
                  /\ errors' = [errors EXCEPT ![m] = @ + 1]
                  /\ unconfirmed' \in {unconfirmed} \cup
                        (IF m \in Reported THEN {unconfirmed \cup {m}} ELSE {})
                  /\ pc' = "lock_undo"
                  /\ UNCHANGED <<ctxDone, cur, attempted, mu, maps, confirmer,
                                 produced, timed, sized, chConfirm, persisted, up>>

LockUndo == /\ pc = "lock_undo"
            /\ mu = "free"
            /\ mu' = "loop"
            /\ pc' = "undo"
            /\ UNCHANGED <<ctxDone, cur, attempted, maps, confirmer, counters, environment>>

\* Mutated form of UndoEntry: leaves the size behind.
UndoTimeOnly == /\ pc = "undo"
                /\ sendTimes' = sendTimes \ cur
                /\ mu' = "free" /\ cur' = {} /\ pc' = "loop"
                /\ UNCHANGED <<ctxDone, attempted, msgBytes, confirmer, counters, environment>>

\* Mutated form of UndoEntry: forgets to unlock.
UndoKeepsLock == /\ pc = "undo"
                 /\ sendTimes' = sendTimes \ cur /\ msgBytes' = msgBytes \ cur
                 /\ cur' = {} /\ pc' = "loop"
                 /\ UNCHANGED <<ctxDone, attempted, mu, confirmer, counters, environment>>

UndoEntry == /\ pc = "undo"
             /\ sendTimes' = sendTimes \ cur
             /\ msgBytes' = msgBytes \ cur
             /\ mu' = "free"
             /\ cur' = {}
             /\ pc' = "loop"
             /\ UNCHANGED <<ctxDone, attempted, confirmer, counters, environment>>

\* The deferred Close calls; then main ends and the process with it.
Close == Goto("closing", "returned")

\* main.go: SIGTERM or SIGINT cancels ctx.
Cancel == /\ Running
          /\ ~ctxDone
          /\ ctxDone' = TRUE
          /\ UNCHANGED <<loop, mu, maps, confirmer, counters, environment>>
-----------------------------------------------------------------------------
(* The confirmation goroutine. *)

Receive == /\ Running
           /\ cpc = "receive"
           /\ chConfirm # << >>
           /\ batch' = Head(chConfirm)
           /\ chConfirm' = Tail(chConfirm)
           /\ cpc' = "next"
           /\ UNCHANGED <<loop, ctxDone, mu, maps, item, found, counters,
                          unconfirmed, persisted, up>>

\* Mutated form of LockLookup: reads the maps without the mutex.
LookupUnlocked(s) == /\ Running /\ cpc = "next" /\ s \in batch
                     /\ batch' = batch \ {s} /\ item' = {s} /\ cpc' = "lookup"
                     /\ UNCHANGED <<loop, ctxDone, mu, maps, found, counters, environment>>

\* Mutated form of LockLookup: handles the first status of a batch only.
LookupFirstOnly(s) == /\ Running /\ cpc = "next" /\ s \in batch
                      /\ mu = "free" /\ mu' = "confirmer"
                      /\ batch' = {} /\ item' = {s} /\ cpc' = "lookup"
                      /\ UNCHANGED <<loop, ctxDone, maps, found, counters, environment>>

\* The next status of the batch, and mu.Lock().
LockLookup(s) == /\ Running
                 /\ cpc = "next"
                 /\ s \in batch
                 /\ mu = "free"
                 /\ mu' = "confirmer"
                 /\ batch' = batch \ {s}
                 /\ item' = {s}
                 /\ cpc' = "lookup"
                 /\ UNCHANGED <<loop, ctxDone, maps, found, counters, environment>>

\* Mutated form of Lookup: deletes the entries before it reads them.
LookupAfterDelete(s) == /\ Running /\ cpc = "lookup" /\ s \in item
                        /\ found' = {}
                        /\ sendTimes' = sendTimes \ {s.msg}
                        /\ msgBytes' = msgBytes \ {s.msg}
                        /\ mu' = "free" /\ cpc' = "count"
                        /\ UNCHANGED <<loop, ctxDone, batch, item, counters, environment>>

\* Read t and sz, delete both entries, mu.Unlock().
Lookup(s) == /\ Running
             /\ cpc = "lookup"
             /\ s \in item
             /\ found' = (IF s.msg \in sendTimes THEN {"t"} ELSE {})
                           \cup (IF s.msg \in msgBytes THEN {"sz"} ELSE {})
             /\ sendTimes' = sendTimes \ {s.msg}
             /\ msgBytes' = msgBytes \ {s.msg}
             /\ mu' = "free"
             /\ cpc' = "count"
             /\ UNCHANGED <<loop, ctxDone, batch, item, counters, environment>>

\* Mutated form of Count: subtracts from the counter, which must only grow.
CountDown(s) == /\ Running /\ cpc = "count" /\ s \in item
                /\ IF s.ok THEN Finish(s, 0 - 1, 0) ELSE Finish(s, 0, 0 - 1)

\* Mutated form of Count: counts a negative status as produced as well.
CountFallsThrough(s) == /\ Running /\ cpc = "count" /\ s \in item
                        /\ IF s.ok THEN Finish(s, 1, 0) ELSE Finish(s, 1, 1)

\* cs.IsConfirmed() selects the counter.
Count(s) == /\ Running
            /\ cpc = "count"
            /\ s \in item
            /\ \/ s.ok /\ Finish(s, 1, 0)
               \/ ~s.ok /\ Finish(s, 0, 1)
-----------------------------------------------------------------------------
(* The client and the broker. *)

\* A refused message, whose error is already counted, is never sent.
Store(m) == /\ up
            /\ m \in unconfirmed
            /\ errors[m] = 0
            /\ m \notin persisted
            /\ persisted' = persisted \cup {m}
            /\ UNCHANGED <<loop, ctxDone, mu, maps, confirmer, counters,
                           chConfirm, unconfirmed, up>>

\* The client answers the messages of ms in one batch: those of oks are
\* confirmed, the others are not.
Publish(ms, oks) == /\ Running
                    /\ ms # {} /\ ms \subseteq unconfirmed
                    /\ oks \subseteq (ms \cap persisted)
                    /\ Len(chConfirm) < ConfirmSlots
                    /\ chConfirm' = Append(chConfirm, Statuses(oks, TRUE)
                                                        \cup Statuses(ms \ oks, FALSE))
                    /\ unconfirmed' = unconfirmed \ ms
                    /\ UNCHANGED <<loop, ctxDone, mu, maps, confirmer, counters, persisted, up>>

Outage == /\ up
          /\ up' = FALSE
          /\ UNCHANGED <<loop, ctxDone, mu, maps, confirmer, counters,
                         chConfirm, unconfirmed, persisted>>

Recover == /\ ~up
           /\ up' = TRUE
           /\ UNCHANGED <<loop, ctxDone, mu, maps, confirmer, counters,
                          chConfirm, unconfirmed, persisted>>
-----------------------------------------------------------------------------
PublishSome == \E ms, oks \in SUBSET Messages : Publish(ms, oks)

LoopNext == \/ Connect \/ CreateProducer \/ LoopTop \/ Throttle
            \/ \E m \in Messages : LockStore(m) \/ SendRefused(m)
            \/ StoreEntry \/ SendAccepted \/ LockUndo \/ UndoEntry \/ Close

ConfirmerNext == \/ Receive
                 \/ \E s \in Status : LockLookup(s) \/ Lookup(s) \/ Count(s)

Next == \/ LoopNext
        \/ Cancel
        \/ ConfirmerNext
        \/ \E m \in Messages : Store(m)
        \/ PublishSome
        \/ Outage \/ Recover

Spec == Init /\ [][Next]_vars

\* The scheduler runs both goroutines and sync.Mutex is starvation-free (it
\* hands the lock to a waiter after 1 ms); the client answers every message;
\* the broker does not stay down.
Fairness == /\ SF_vars(Connect) /\ WF_vars(CreateProducer)
            /\ WF_vars(LoopTop) /\ WF_vars(Throttle)
            /\ SF_vars(\E m \in Messages : LockStore(m))
            /\ WF_vars(StoreEntry)
            /\ WF_vars(SendAccepted \/ \E m \in Messages : SendRefused(m))
            /\ SF_vars(LockUndo) /\ WF_vars(UndoEntry) /\ WF_vars(Close)
            /\ WF_vars(Receive)
            /\ SF_vars(\E s \in Status : LockLookup(s))
            /\ WF_vars(\E s \in Status : Lookup(s) \/ Count(s))
            /\ \A m \in Messages :
                 WF_vars(\E ms, oks \in SUBSET Messages : m \in ms /\ Publish(ms, oks))
            /\ WF_vars(Recover)

FairSpec == Spec /\ Fairness
-----------------------------------------------------------------------------
(* Properties. *)

\* Every variable has the type the code gives it.
TypeOK == /\ pc \in PCs /\ cpc \in CPCs
          /\ ctxDone \in BOOLEAN /\ up \in BOOLEAN
          /\ mu \in {"free", "loop", "confirmer"}
          /\ cur \subseteq Messages /\ attempted \subseteq Messages
          /\ sendTimes \subseteq Messages /\ msgBytes \subseteq Messages
          /\ batch \subseteq Status /\ item \subseteq Status
          /\ found \subseteq {"t", "sz"}
          /\ chConfirm \in Seq(SUBSET Status)
          /\ unconfirmed \subseteq Messages /\ persisted \subseteq Messages
          /\ produced \in [Messages -> Nat] /\ errors \in [Messages -> Nat]
          /\ timed \subseteq Messages /\ sized \subseteq Messages

\* The two goroutines are never both inside a section that touches the maps: a
\* concurrent map access would end the process.
MapsExclusive == ~(pc \in {"store", "undo"} /\ cpc = "lookup")

\* Every counted message had its ack latency observed and its own size added:
\* the entry is stored before Send, so no confirmation can overtake it.
ProducedIsTimedAndSized == \A m \in Messages :
                             produced[m] > 0 => m \in timed /\ m \in sized

\* Statuses that the client has issued and the goroutine has not looked up.
Undelivered == {s.msg : s \in (UNION {chConfirm[i] : i \in 1..Len(chConfirm)})
                              \cup batch
                              \cup (IF cpc = "lookup" THEN item ELSE {})}

\* An entry of a map belongs to the message being sent or to one whose
\* confirmation is still to come: the maps do not leak.
NoStrandedEntry == sendTimes \cup msgBytes \subseteq cur \cup unconfirmed \cup Undelivered

\* No message is counted both as produced and as an error, and produced at
\* most once, even when refusals are reported twice.
ProducedXorError == \A m \in Messages : produced[m] <= 1 /\ (produced[m] = 0 \/ errors[m] = 0)

\* A message handed to the client is counted in the end, or the process ends:
\* the full channel and the mutex delay a confirmation but do not lose it.
AcceptedIsCounted == \A m \in Messages :
                       m \in unconfirmed ~> (produced[m] + errors[m] > 0 \/ pc = "returned")

\* After a signal the process ends once the broker has been reachable.
CancelEndsRun == ctxDone ~> (pc = "returned")

\* The ledger promise, with a window that never closes, for the messages whose
\* refusals the client does not report as well.
Once == Messages \ Reported
Ledger == INSTANCE ProducerLedger
            WITH Messages <- Once,
                 inflight <- {m \in attempted \cap Once : produced[m] + errors[m] = 0},
                 produced <- [m \in Once |-> produced[m]],
                 errors <- [m \in Once |-> errors[m]],
                 Window <- Cardinality(Once)
LedgerSpec == Ledger!Spec
=============================================================================

----------------------------- MODULE RedpandaGroup -----------------------------
(***************************************************************************)
(* A consumer group on Redpanda: the instances of py-consumer/redpanda.py, *)
(* or those of consumer/redpanda.go, that share CONSUMER_GROUP.  The two   *)
(* languages do not share a group (their clients offer no common           *)
(* assignment strategy), so lang is chosen once.                           *)
(*                                                                         *)
(* The Python loop has no await between getmany and the last record it     *)
(* counts, so a poll and its counting are one step.  In Go the commits and *)
(* rebalances of franz-go run beside the loop that counts a batch.         *)
(*                                                                         *)
(* Outside of the program: the partitions (a log that only grows, and read *)
(* positions), the coordinator that assigns them, and what the client      *)
(* library does by itself, which is to commit positions from time to time, *)
(* before it gives partitions up and when it is closed.  The commit is the *)
(* position of the last poll in aiokafka; franz-go commits by itself only  *)
(* what was polled before the batch in work.  Whether it commits that      *)
(* batch, too, when it gives partitions up is left open.                   *)
(***************************************************************************)
EXTENDS Integers, Sequences, FiniteSets, MessageCodec

CONSTANTS Consumers, Partitions,
          Value,       \* Value[p]: the values that p may get (a bound for TLC)
          MaxFaults    \* crashes, lost commits, failed fetches (a bound for TLC)

NoOne == "no one"

ASSUME ConsumersAssumption == NoOne \notin Consumers
ASSUME MaxFaultsAssumption == MaxFaults \in Nat
ASSUME ValueAssumption == Value \in [Partitions -> Seq(Values)]

Unknown == 0 - 1
Records == UNION {{p} \X (1..Len(Value[p])) : p \in Partitions}
Offsets == {Unknown, 0} \cup {r[2] : r \in Records}
ValueOf(r) == Value[r[1]][r[2]]

VARIABLES lang,       \* the language of the consumers
          stored,     \* stored[p]: records in partition p
          owner,      \* owner[p]: the consumer the partition is assigned to
          stable,     \* the assignment fits the members of the group
          position,   \* position[p]: records before the owner's next fetch
          head,       \* head[p]: position[p] before the batch in work
          committed,  \* committed[p]: the offset the group has committed
          pc, stop,   \* per consumer: where run() is, and the stop event or ctx
          batch,      \* batch[c]: records polled in Go and not counted yet
          consumed,   \* consumed[r]: increments of messages_consumed for r
          errors,     \* errors[r]: increments of consume_errors for r
          fetchErrors,\* increments of consume_errors for failed fetches
          start,      \* start[p]: where the group last began at the end (history)
          dropped,    \* records polled, and left uncounted by a stop or a crash (history)
          raised,     \* records polled, and left uncounted by an exception (history)
          torn,       \* records of a batch in work when their partition moved (history)
          faults      \* faults so far that an exact count does not survive (history)

group == <<owner, stable, position, head, committed>>
client == <<pc, stop, batch>>
counters == <<consumed, errors, fetchErrors>>
history == <<start, dropped, raised, torn, faults>>
vars == <<lang, stored, group, client, counters, history>>

PCs == {"start", "poll", "sleep", "handle", "stopping", "exited"}

Init == /\ lang \in {"py", "go"}
        /\ stored \in {f \in [Partitions -> {0, 1}] : \A p \in Partitions : f[p] <= Len(Value[p])}
        /\ owner = [p \in Partitions |-> NoOne]
        /\ stable = FALSE
        /\ position = [p \in Partitions |-> Unknown]
        /\ head = position /\ committed = position /\ start = position
        /\ pc = [c \in Consumers |-> "start"]
        /\ stop = [c \in Consumers |-> FALSE]
        /\ batch = [c \in Consumers |-> {}]
        /\ consumed = [r \in Records |-> 0]
        /\ errors = [r \in Records |-> 0]
        /\ fetchErrors = 0
        /\ dropped = {} /\ raised = {} /\ torn = {} /\ faults = 0

InHand == UNION {batch[c] : c \in Consumers}
InWork == {r \in Records : head[r[1]] < r[2] /\ r[2] <= position[r[1]]}
Reading == {c \in Consumers : pc[c] \in {"poll", "sleep", "handle"}}
Owned(c) == {p \in Partitions : owner[p] = c}

\* What has gone wrong so far, which MaxFaults bounds.
Troubles == faults + fetchErrors

\* Mutant: the loop does not look at stop.
LoopTopIgnoresStop(c) == "poll"

\* The head of the Python loop, which looks at stop.  The Go loop goes straight
\* into PollFetches.
LoopTop(c) == IF lang = "py" /\ stop[c] THEN "stopping" ELSE "poll"

\* Mutant: the handler goes on after a decode error.
CountRecordsFallsThrough(rs) ==
    /\ consumed' = [r \in Records |-> consumed[r] + (IF r \in rs THEN 1 ELSE 0)]
    /\ errors' = [r \in Records |-> errors[r] +
                      (IF r \in rs /\ CountsError(lang, ValueOf(r)) THEN 1 ELSE 0)]

\* The handler of one record, for every record of rs.
CountRecords(rs) ==
    /\ consumed' = [r \in Records |-> consumed[r] +
                      (IF r \in rs /\ CountsConsumed(lang, ValueOf(r)) THEN 1 ELSE 0)]
    /\ errors' = [r \in Records |-> errors[r] +
                      (IF r \in rs /\ CountsError(lang, ValueOf(r)) THEN 1 ELSE 0)]

\* The offset of p that the client gives to the coordinator: an unknown position
\* is not committed.
Offset(from, p) == IF from[p] = Unknown THEN committed[p] ELSE from[p]

\* The client gives up the partitions of ps: their positions are committed, or
\* the commit fails.
GiveUp(ps) == \/ /\ \E from \in {position, head} :
                      committed' = [p \in Partitions |->
                                      IF p \in ps THEN Offset(from, p) ELSE committed[p]]
                 /\ UNCHANGED faults
              \/ /\ Troubles < MaxFaults
                 /\ faults' = faults + 1
                 /\ UNCHANGED committed
-----------------------------------------------------------------------------
(* The life of a consumer. *)

\* Python: consumer.start() joins the group.  Go: NewClient, which joins in the
\* background.
Start(c) == /\ pc[c] = "start"
            /\ pc' = [pc EXCEPT ![c] = LoopTop(c)]
            /\ stable' = FALSE
            /\ UNCHANGED <<lang, stored, owner, position, head, committed, stop, batch,
                           counters, history>>

\* The process has ended: docker starts it again (restart: unless-stopped), but
\* not after a stop.
Ended(c) == pc' = [pc EXCEPT ![c] = IF stop[c] THEN "exited" ELSE "start"]

\* consumer.start() raises while the broker cannot be reached: run() never
\* gets to its try.
StartFails(c) == /\ lang = "py"
                 /\ pc[c] = "start"
                 /\ Troubles < MaxFaults
                 /\ faults' = faults + 1
                 /\ Ended(c)
                 /\ UNCHANGED <<lang, stored, group, stop, batch, counters,
                                start, dropped, raised, torn>>

\* SIGTERM or SIGINT: the stop event of Python, the cancelled ctx of Go.
Signal(c) == /\ pc[c] # "exited"
             /\ ~stop[c]
             /\ stop' = [stop EXCEPT ![c] = TRUE]
             /\ UNCHANGED <<lang, stored, group, pc, batch, counters, history>>

\* What the partitions of c are once it has left the group.
Leave(c) == /\ owner' = [p \in Partitions |-> IF owner[p] = c THEN NoOne ELSE owner[p]]
            /\ position' = [p \in Partitions |-> IF owner[p] = c THEN Unknown ELSE position[p]]
            /\ head' = [p \in Partitions |-> IF owner[p] = c THEN Unknown ELSE head[p]]
            /\ stable' = FALSE
            /\ batch' = [batch EXCEPT ![c] = {}]

\* The finally of Python and the deferred Close of Go: the client commits and
\* leaves the group; then the process ends, of itself or with the exception.
Close(c) == /\ pc[c] = "stopping"
            /\ GiveUp(Owned(c))
            /\ Leave(c)
            /\ Ended(c)
            /\ UNCHANGED <<lang, stored, stop, counters, start, dropped, raised, torn>>

\* The process is killed; the coordinator finds out before the next Rebalance.
Crash(c) == /\ pc[c] # "exited"
            /\ Troubles < MaxFaults
            /\ faults' = faults + 1
            /\ Leave(c)
            /\ Ended(c)
            /\ dropped' = dropped \cup batch[c]
            /\ UNCHANGED <<lang, stored, committed, stop, counters, start, raised, torn>>

-----------------------------------------------------------------------------
(* The loop. *)

\* What a poll of c may leave as the positions, and the records it then returns.
Reach(c) == {hi \in [Partitions -> Offsets] :
               \A p \in Partitions :
                 IF owner[p] = c /\ position[p] # Unknown
                 THEN hi[p] \in position[p]..stored[p]
                 ELSE hi[p] = position[p]}
Taken(hi) == {r \in Records : position[r[1]] < r[2] /\ r[2] <= hi[r[1]]}

Bad(rs) == {r \in rs : Escapes(lang, ValueOf(r))}

\* Mutant: only the batch of one partition is handled.
PyPollOneBatch(c, hi) == /\ lang = "py"
                         /\ pc[c] = "poll"
                         /\ Bad(Taken(hi)) = {}
                         /\ position' = hi
                         /\ head' = hi
                         /\ \E p \in Partitions : CountRecords({r \in Taken(hi) : r[1] = p})
                         /\ pc' = [pc EXCEPT ![c] = LoopTop(c)]
                         /\ UNCHANGED <<lang, stored, owner, stable, committed, stop, batch,
                                        fetchErrors, history>>

\* getmany returns, possibly nothing after 500 ms, and all is counted.
PyPoll(c, hi) == /\ lang = "py"
                 /\ pc[c] = "poll"
                 /\ Bad(Taken(hi)) = {}
                 /\ position' = hi
                 /\ head' = hi
                 /\ CountRecords(Taken(hi))
                 /\ pc' = [pc EXCEPT ![c] = LoopTop(c)]
                 /\ UNCHANGED <<lang, stored, owner, stable, committed, stop, batch,
                                fetchErrors, history>>

\* An exception other than ValueError leaves the loop at the record e, after
\* the records before it and all those of the partitions of ps.
PyRaise(c, hi, e, ps) ==
    LET done == {r \in Taken(hi) : r[1] \in ps \/ (r[1] = e[1] /\ r[2] <= e[2])}
    IN  /\ lang = "py"
        /\ pc[c] = "poll"
        /\ e \in Bad(Taken(hi))
        /\ e[1] \notin ps
        /\ Bad(done) = {e}
        /\ position' = hi
        /\ head' = hi
        /\ CountRecords(done)
        /\ raised' = raised \cup {r \in Taken(hi) : r \notin done \/
                                     (r = e /\ ~CountsConsumed(lang, ValueOf(e)))}
        /\ pc' = [pc EXCEPT ![c] = "stopping"]
        /\ UNCHANGED <<lang, stored, owner, stable, committed, stop, batch,
                       fetchErrors, start, dropped, torn, faults>>

\* Mutant: a failed fetch leaves run() without the finally.
FetchErrorReturns(c) == /\ pc[c] = "poll"
                        /\ lang = "py" \/ ~stop[c]
                        /\ Troubles < MaxFaults
                        /\ fetchErrors' = fetchErrors + 1
                        /\ pc' = [pc EXCEPT ![c] = "exited"]
                        /\ UNCHANGED <<lang, stored, group, stop, batch, consumed, errors, history>>

\* A failed fetch: counted, and Python sleeps for a second before it goes on.
FetchError(c) == /\ pc[c] = "poll"
                 /\ lang = "py" \/ ~stop[c]
                 /\ Troubles < MaxFaults
                 /\ fetchErrors' = fetchErrors + 1
                 /\ pc' = [pc EXCEPT ![c] = IF lang = "py" THEN "sleep" ELSE "poll"]
                 /\ UNCHANGED <<lang, stored, group, stop, batch, consumed, errors, history>>

Wake(c) == /\ pc[c] = "sleep"
           /\ pc' = [pc EXCEPT ![c] = LoopTop(c)]
           /\ UNCHANGED <<lang, stored, group, stop, batch, counters, history>>

\* PollFetches returns records.
GoPoll(c, hi) == /\ lang = "go"
                 /\ pc[c] = "poll"
                 /\ ~stop[c]
                 /\ Taken(hi) # {}
                 /\ batch' = [batch EXCEPT ![c] = Taken(hi)]
                 /\ position' = hi
                 /\ pc' = [pc EXCEPT ![c] = "handle"]
                 /\ UNCHANGED <<lang, stored, owner, stable, head, committed, stop,
                                counters, history>>

\* PollFetches returns because ctx is cancelled; what it has fetched is dropped.
GoPollCancelled(c, hi) == /\ lang = "go"
                          /\ pc[c] = "poll"
                          /\ stop[c]
                          /\ position' = hi
                          /\ dropped' = dropped \cup Taken(hi)
                          /\ pc' = [pc EXCEPT ![c] = "stopping"]
                          /\ UNCHANGED <<lang, stored, owner, stable, head, committed, stop,
                                         batch, counters, start, raised, torn, faults>>

\* EachRecord.  The loop calls PollFetches again after the last record, which
\* makes the batch committable.
GoCount(c, r) == /\ pc[c] = "handle"
                 /\ r \in batch[c]
                 /\ \A s \in batch[c] : s[1] = r[1] => r[2] <= s[2]
                 /\ CountRecords({r})
                 /\ batch' = [batch EXCEPT ![c] = @ \ {r}]
                 /\ \/ /\ batch[c] = {r}
                       /\ pc' = [pc EXCEPT ![c] = "poll"]
                       /\ head' = [p \in Partitions |->
                                     IF owner[p] = c THEN position[p] ELSE head[p]]
                    \/ batch[c] # {r} /\ UNCHANGED <<pc, head>>
                 /\ UNCHANGED <<lang, stored, owner, stable, position, committed, stop,
                                fetchErrors, history>>
-----------------------------------------------------------------------------
(* The client library, the coordinator and the producers. *)

AutoCommit(c) == /\ c \in Reading
                 /\ committed' = [p \in Partitions |->
                                    IF owner[p] = c THEN Offset(head, p) ELSE committed[p]]
                 /\ UNCHANGED <<lang, stored, owner, stable, position, head, client,
                                counters, history>>

\* A new assignment.  aiokafka gives every partition up first, franz-go the
\* ones that move.
Rebalance(assignment) ==
    LET moved == IF lang = "py" THEN Partitions
                 ELSE {p \in Partitions : assignment[p] # owner[p]}
    IN  /\ ~stable
        /\ \A c \in Consumers : pc[c] # "stopping"
        /\ GiveUp({p \in moved : owner[p] # NoOne})
        /\ owner' = assignment
        /\ position' = [p \in Partitions |-> IF p \in moved THEN Unknown ELSE position[p]]
        /\ head' = [p \in Partitions |-> IF p \in moved THEN Unknown ELSE head[p]]
        /\ stable' = TRUE
        /\ torn' = torn \cup {r \in InWork : r[1] \in moved}
        /\ UNCHANGED <<lang, stored, client, counters, start, dropped, raised>>

\* The new owner begins at the committed offset, or at the end of the partition
\* ("latest", AtEnd) when the group has none.
Resolve(p) == /\ owner[p] # NoOne
              /\ position[p] = Unknown
              /\ LET o == IF committed[p] = Unknown THEN stored[p] ELSE committed[p]
                 IN  /\ position' = [position EXCEPT ![p] = o]
                     /\ head' = [head EXCEPT ![p] = o]
              /\ start' = [start EXCEPT ![p] = IF committed[p] = Unknown THEN stored[p] ELSE @]
              /\ UNCHANGED <<lang, stored, owner, stable, committed, client, counters,
                             dropped, raised, torn, faults>>

Produce(p) == /\ stored[p] < Len(Value[p])
              /\ stored' = [stored EXCEPT ![p] = @ + 1]
              /\ UNCHANGED <<lang, group, client, counters, history>>
-----------------------------------------------------------------------------
PollTo(c, hi) == \/ PyPoll(c, hi) \/ GoPoll(c, hi) \/ GoPollCancelled(c, hi)
                 \/ \E e \in Bad(Taken(hi)), ps \in SUBSET Partitions : PyRaise(c, hi, e, ps)
Poll(c) == pc[c] = "poll" /\ \E hi \in Reach(c) : PollTo(c, hi)

\* A poll that takes records of p.
PollsFrom(p) == \E c \in Consumers :
                  /\ owner[p] = c /\ pc[c] = "poll"
                  /\ \E hi \in Reach(c) : hi[p] > position[p] /\ PollTo(c, hi)

Handle(c) == \E r \in batch[c] : GoCount(c, r)

Consumer(c) == \/ Start(c) \/ StartFails(c) \/ Poll(c) \/ Handle(c)
               \/ FetchError(c) \/ Wake(c) \/ Close(c)

\* What the strategies of both clients do with one topic: no member has two
\* partitions more than another.
Share(assignment, c) == Cardinality({p \in Partitions : assignment[p] = c})
Balanced == {assignment \in [Partitions -> Reading] :
               \A c, d \in Reading : Share(assignment, c) <= Share(assignment, d) + 1}

Assign == \E assignment \in Balanced : Rebalance(assignment)

\* Every consumer was told to stop, and nothing restarts them.
AllExited == (\A c \in Consumers : pc[c] = "exited") /\ UNCHANGED vars

Next == \/ \E c \in Consumers : Consumer(c) \/ Signal(c) \/ Crash(c) \/ AutoCommit(c)
        \/ Assign \/ AllExited
        \/ \E p \in Partitions : Resolve(p) \/ Produce(p)

Spec == Init /\ [][Next]_vars

\* The event loop and the Go scheduler run what is ready, docker restarts what
\* ended without being told to, the coordinator answers, and a fetch does not
\* pass over a partition for ever.
Fairness == /\ \A c \in Consumers :
                 WF_vars(\/ Start(c) \/ Wake(c) \/ Close(c) \/ Handle(c)
                         \/ (stop[c] /\ Poll(c)))
            /\ WF_vars(Assign)
            /\ \A p \in Partitions : WF_vars(Resolve(p)) /\ WF_vars(PollsFrom(p))

FairSpec == Spec /\ Fairness
-----------------------------------------------------------------------------
(* Properties. *)

TypeOK == /\ lang \in {"py", "go"}
          /\ stored \in [Partitions -> Offsets \ {Unknown}]
          /\ owner \in [Partitions -> Consumers \cup {NoOne}]
          /\ stable \in BOOLEAN
          /\ position \in [Partitions -> Offsets]
          /\ head \in [Partitions -> Offsets]
          /\ committed \in [Partitions -> Offsets]
          /\ start \in [Partitions -> Offsets]
          /\ pc \in [Consumers -> PCs] /\ stop \in [Consumers -> BOOLEAN]
          /\ batch \in [Consumers -> SUBSET Records]
          /\ consumed \in [Records -> Nat] /\ errors \in [Records -> Nat]
          /\ fetchErrors \in Nat /\ faults \in Nat
          /\ dropped \subseteq Records /\ raised \subseteq Records /\ torn \subseteq Records

Count(r) == consumed[r] + errors[r]
Reached(p) == IF position[p] # Unknown THEN position[p] ELSE committed[p]
From(p, o) == {r \in Records : r[1] = p /\ start[p] # Unknown /\ start[p] < r[2] /\ r[2] <= o}

\* Whatever the members of the group and however the partitions move between
\* them, every record the group has read is counted exactly once and no other
\* is, unless a crash or a lost commit came between (or the record is in hand
\* or was left by an exception; in Go, those of the batch in work when the
\* partition moves, or when a stop drops it, may be counted once more or later).
ExactUnlessDisturbed ==
    faults = 0 => \A r \in Records \ (torn \cup dropped) :
                    Count(r) = IF r \in From(r[1], Reached(r[1])) \ (InHand \cup raised)
                               THEN 1 ELSE 0

\* Whatever fails, the group commits no record that nobody counted, except
\* those in hand, left by a stop or a crash, or left by an exception.
CommittedIsCounted == \A p \in Partitions :
                        \A r \in From(p, committed[p]) :
                          Count(r) > 0 \/ r \in InHand \cup dropped \cup raised

\* A signal ends a consumer, in every phase.
StopEndsRun == \A c \in Consumers : stop[c] ~> pc[c] = "exited"

\* A record stored while the group has a position before it is counted in the
\* end, across every handover, if a consumer is left to do it.
RecordIsCounted ==
    \A r \in Records :
      r \in From(r[1], stored[r[1]])
        ~> (\/ Count(r) > 0 \/ r \in dropped \cup raised
            \/ start[r[1]] >= r[2]
            \/ \A c \in Consumers : pc[c] = "exited")

\* docs/superpowers/plans, Review Focus: a malformed message body never
\* crashes the loop, so only a stop ends it.
OnlyStopEndsLoop == \A c \in Consumers : pc[c] = "stopping" => stop[c]
=============================================================================

----------------------------- MODULE RabbitMQGroup -----------------------------
(***************************************************************************)
(* The instances of py-consumer/rabbitmq.py and consumer/rabbitmq.go on a  *)
(* super stream.  Each subscribes to every partition under the name        *)
(* benchmark-consumer; the broker makes one subscription per partition     *)
(* active, and whoever becomes active asks for offset NEXT.                *)
(*                                                                         *)
(* Outside of the program: the streams, the broker's choice of the active  *)
(* subscription and its delivery, and the client libraries, which queue    *)
(* what is delivered for the handler and come back by themselves after an  *)
(* outage.                                                                 *)
(***************************************************************************)
EXTENDS Integers, Sequences, MessageCodec

CONSTANTS Consumers,
          GoConsumers,   \* those of Consumers that are written in Go
          Partitions,
          Value,         \* Value[p]: the values that p may get (a bound for TLC)
          MaxSubs,       \* subscriptions of a consumer to a partition (a bound for TLC)
          MaxFaults      \* failed subscribes, crashes and outages (a bound for TLC)

ASSUME GoConsumersAssumption == GoConsumers \subseteq Consumers
ASSUME ValueAssumption == Value \in [Partitions -> Seq(Values)]
ASSUME BoundsAssumption == MaxSubs \in Nat \ {0} /\ MaxFaults \in Nat

Messages == UNION {{p} \X (1..Len(Value[p])) : p \in Partitions}
ValueOf(m) == Value[m[1]][m[2]]
Subscriptions == Consumers \X (1..MaxSubs)
Nothing == <<>>
Lang(c) == IF c \in GoConsumers THEN "go" ELSE "py"

VARIABLES pc, stop,    \* per consumer: where run() is, and the stop event or ctx
          pending,     \* pending[c]: partitions the running subscribe has yet to do
          stored,      \* stored[p]: messages in partition p
          subs,        \* subs[p]: the subscriptions to p
          chosen,      \* chosen[p]: the subscription the broker wants active
          active,      \* active[p]: the one that is active, or Nothing
          next,        \* next[p]: messages of p before the next delivery
          inbox,       \* inbox[p][s]: delivered to s from p and not handled yet
          broken,      \* <<p, s>> whose task an exception has ended
          up,          \* the broker answers
          faults,      \* faults so far
          consumed,    \* consumed[m]: increments of messages_consumed for m
          errors       \* errors[m]: increments of consume_errors for m

program == <<pc, stop, pending>>
broker == <<stored, subs, chosen, active, next, up>>
client == <<inbox, broken>>
counters == <<consumed, errors>>
vars == <<program, broker, client, counters, faults>>

PCs == {"connect", "subscribe", "subscribing", "wait", "exited"}

Init == /\ pc = [c \in Consumers |-> "connect"]
        /\ stop = [c \in Consumers |-> FALSE]
        /\ pending = [c \in Consumers |-> {}]
        /\ stored \in {f \in [Partitions -> {0, 1}] : \A p \in Partitions : f[p] <= Len(Value[p])}
        /\ subs = [p \in Partitions |-> {}]
        /\ chosen = [p \in Partitions |-> Nothing]
        /\ active = [p \in Partitions |-> Nothing]
        /\ next = [p \in Partitions |-> 0]
        /\ inbox = [p \in Partitions |-> [s \in Subscriptions |-> {}]]
        /\ broken = {}
        /\ up \in BOOLEAN
        /\ faults = 0
        /\ consumed = [m \in Messages |-> 0]
        /\ errors = [m \in Messages |-> 0]

Fault == faults < MaxFaults /\ faults' = faults + 1

\* The broker may choose anew, among the subscriptions of after, for the
\* partitions of ps; the choice for the others stays.
Choose(ps, after) ==
    chosen' \in {ch \in [Partitions -> Subscriptions \cup {Nothing}] :
                  \A p \in Partitions :
                    IF p \notin ps THEN ch[p] = chosen[p]
                    ELSE IF after[p] = {} THEN ch[p] = Nothing
                    ELSE ch[p] \in after[p]}
-----------------------------------------------------------------------------
(* run(). *)

\* Python: consumer.start() returns; that it has connected is not sure.
Started(c) == /\ c \notin GoConsumers
              /\ pc[c] = "connect"
              /\ pc' = [pc EXCEPT ![c] = "subscribe"]
              /\ UNCHANGED <<stop, pending, broker, client, counters, faults>>

\* Python: the head of the loop finds no stop, at first or 3 s after a failure.
\* Go: connectRabbitMQEnv, which tries every 3 s and never looks at ctx, is done.
BeginSubscribe(c) == /\ \/ pc[c] = "subscribe" /\ ~stop[c]
                        \/ pc[c] = "connect" /\ c \in GoConsumers /\ up
                     /\ pending' = [pending EXCEPT ![c] = Partitions]
                     /\ pc' = [pc EXCEPT ![c] = "subscribing"]
                     /\ UNCHANGED <<stop, broker, client, counters, faults>>

Mine(c, p) == {s \in subs[p] : s[1] = c}

\* subscribe does the partition p.  After a failure halfway the subscription of
\* the attempt before is still there, and the client may add a second one.
SubscribeOne(c, p) ==
    /\ pc[c] = "subscribing"
    /\ up
    /\ p \in pending[c]
    /\ \/ /\ \E k \in 1..MaxSubs : /\ \A s \in Mine(c, p) : s[2] < k
                                  /\ subs' = [subs EXCEPT ![p] = @ \cup {<<c, k>>}]
          /\ Choose({p}, subs')
       \/ Mine(c, p) # {} /\ UNCHANGED <<subs, chosen>>
    /\ pending' = [pending EXCEPT ![c] = @ \ {p}]
    /\ UNCHANGED <<pc, stop, stored, active, next, up, client, counters, faults>>

\* subscribe returns.
Subscribed(c) == /\ pc[c] = "subscribing"
                 /\ pending[c] = {}
                 /\ pc' = [pc EXCEPT ![c] = "wait"]
                 /\ UNCHANGED <<stop, pending, broker, client, counters, faults>>

\* The subscriptions of c are gone, with what was delivered to them; docker
\* starts the process again (restart: unless-stopped) unless it was told to stop.
Gone(c) ==
    /\ subs' = [p \in Partitions |-> subs[p] \ Mine(c, p)]
    /\ active' = [p \in Partitions |-> IF active[p] \in Mine(c, p) THEN Nothing ELSE active[p]]
    /\ Choose({p \in Partitions : Mine(c, p) # {}}, subs')
    /\ inbox' = [p \in Partitions |-> [s \in Subscriptions |->
                                         IF s[1] = c THEN {} ELSE inbox[p][s]]]
    /\ broken' = {b \in broken : b[2][1] # c}
    /\ pending' = [pending EXCEPT ![c] = {}]
    /\ pc' = [pc EXCEPT ![c] = IF stop[c] THEN "exited" ELSE "connect"]
    /\ UNCHANGED <<stop, stored, next, up, counters>>

\* consumer.start() raises while the broker is away, before the try of run().
StartFails(c) == /\ c \notin GoConsumers
                 /\ pc[c] = "connect"
                 /\ ~up
                 /\ Gone(c)
                 /\ UNCHANGED faults

\* subscribe raises, perhaps after some or all of the partitions were done, and
\* Python tries again in 3 s; in Go run returns the error.
SubscribeFails(c) == /\ pc[c] = "subscribing"
                     /\ \/ ~up /\ UNCHANGED faults
                        \/ up /\ Fault
                     /\ \/ c \in GoConsumers /\ Gone(c)
                        \/ /\ c \notin GoConsumers
                           /\ pc' = [pc EXCEPT ![c] = "subscribe"]
                           /\ pending' = [pending EXCEPT ![c] = {}]
                           /\ UNCHANGED <<stop, broker, client, counters>>

\* The finally of Python and the deferred Close calls of Go, after stop.wait() or
\* <-ctx.Done(), which return at once when the head of the loop has seen stop.
Close(c) == /\ pc[c] \in {"subscribe", "wait"}
            /\ stop[c]
            /\ Gone(c)
            /\ UNCHANGED faults

\* The process is killed.
Crash(c) == pc[c] # "exited" /\ Gone(c) /\ Fault

\* SIGTERM or SIGINT.
Signal(c) == /\ pc[c] # "exited"
             /\ ~stop[c]
             /\ stop' = [stop EXCEPT ![c] = TRUE]
             /\ UNCHANGED <<pc, pending, broker, client, counters, faults>>
-----------------------------------------------------------------------------
(* The callbacks. *)

\* on_message returns at once for a message without a body; Go asks whether
\* there is a data section, Python whether it has any bytes.
Ignores(lang, v) == v = "no_body" \/ (lang = "py" /\ v = "empty")

\* Mutant: every failed decode leaves the handler as an exception.
OnMessageRaises(p, s, m) ==
    LET lang == Lang(s[1])
        v == ValueOf(m)
    IN  /\ m \in inbox[p][s]
        /\ \A n \in inbox[p][s] : m[2] <= n[2]
        /\ <<p, s>> \notin broken
        /\ inbox' = [inbox EXCEPT ![p][s] = @ \ {m}]
        /\ consumed' = [consumed EXCEPT ![m] = @ + (IF CountsConsumed(lang, v) THEN 1 ELSE 0)]
        /\ broken' = IF CountsConsumed(lang, v) THEN broken ELSE broken \cup {<<p, s>>}
        /\ UNCHANGED <<program, broker, errors, faults>>

\* The client hands the next message to the handler, which does not yield.
\* What the client does with an exception of it is not known: the task of the
\* subscription may end.
OnMessage(p, s, m) ==
    LET lang == Lang(s[1])
        v == ValueOf(m)
        plus(b) == IF b /\ ~Ignores(lang, v) THEN 1 ELSE 0
    IN  /\ m \in inbox[p][s]
        /\ \A n \in inbox[p][s] : m[2] <= n[2]
        /\ <<p, s>> \notin broken
        /\ inbox' = [inbox EXCEPT ![p][s] = @ \ {m}]
        /\ consumed' = [consumed EXCEPT ![m] = @ + plus(CountsConsumed(lang, v))]
        /\ errors' = [errors EXCEPT ![m] = @ + plus(CountsError(lang, v))]
        /\ broken' \in {broken} \cup (IF Escapes(lang, v) THEN {broken \cup {<<p, s>>}} ELSE {})
        /\ UNCHANGED <<program, broker, faults>>

\* Mutant: an instance that becomes active asks for the first offset.
ActivateFirst(p) == /\ up
                    /\ active[p] = Nothing
                    /\ chosen[p] # Nothing
                    /\ active' = [active EXCEPT ![p] = chosen[p]]
                    /\ next' = [next EXCEPT ![p] = 0]
                    /\ UNCHANGED <<program, stored, subs, chosen, up, client, counters, faults>>

\* on_consumer_update of an instance that becomes active: always offset NEXT.
Activate(p) == /\ up
               /\ active[p] = Nothing
               /\ chosen[p] # Nothing
               /\ active' = [active EXCEPT ![p] = chosen[p]]
               /\ next' = [next EXCEPT ![p] = stored[p]]
               /\ UNCHANGED <<program, stored, subs, chosen, up, client, counters, faults>>

\* on_consumer_update of the instance that was active; its answer is not used.
Deactivate(p) == /\ up
                 /\ active[p] \notin {Nothing, chosen[p]}
                 /\ active' = [active EXCEPT ![p] = Nothing]
                 /\ UNCHANGED <<program, stored, subs, chosen, next, up, client, counters, faults>>
-----------------------------------------------------------------------------
(* The broker and the producers. *)

Deliver(p) == /\ up
              /\ active[p] # Nothing
              /\ next[p] < stored[p]
              /\ next' = [next EXCEPT ![p] = @ + 1]
              /\ inbox' = [inbox EXCEPT ![p][active[p]] = @ \cup {<<p, next[p] + 1>>}]
              /\ UNCHANGED <<program, stored, subs, chosen, active, up, broken, counters, faults>>

Produce(p) == /\ up
              /\ stored[p] < Len(Value[p])
              /\ stored' = [stored EXCEPT ![p] = @ + 1]
              /\ UNCHANGED <<program, subs, chosen, active, next, up, client, counters, faults>>

\* Nothing is active without the broker; the clients recover their
\* subscriptions when it is back, and the broker chooses anew.
Outage == /\ up
          /\ Fault
          /\ up' = FALSE
          /\ active' = [p \in Partitions |-> Nothing]
          /\ UNCHANGED <<program, stored, subs, chosen, next, client, counters>>

Recover == /\ ~up
           /\ up' = TRUE
           /\ Choose(Partitions, subs)
           /\ UNCHANGED <<program, stored, subs, active, next, client, counters, faults>>
-----------------------------------------------------------------------------
Run(c) == \/ Started(c) \/ StartFails(c) \/ BeginSubscribe(c) \/ Subscribed(c)
          \/ SubscribeFails(c) \/ Close(c)
          \/ \E p \in Partitions : SubscribeOne(c, p)

Handler(p, s) == \E m \in inbox[p][s] : OnMessage(p, s, m)

\* Every consumer was told to stop, and nothing restarts them.
AllExited == (\A c \in Consumers : pc[c] = "exited") /\ UNCHANGED vars

Next == \/ \E c \in Consumers : Run(c) \/ Crash(c) \/ Signal(c)
        \/ \E p \in Partitions : \/ Activate(p) \/ Deactivate(p) \/ Deliver(p) \/ Produce(p)
                               \/ \E s \in Subscriptions : Handler(p, s)
        \/ Outage \/ Recover \/ AllExited

Spec == Init /\ [][Next]_vars

\* The event loop and the Go scheduler run what is ready, the broker comes back,
\* answers, and delivers to the active subscription.
Fairness == /\ \A c \in Consumers : WF_vars(Run(c))
            /\ \A p \in Partitions :
                 /\ WF_vars(Activate(p) \/ Deactivate(p) \/ Deliver(p))
                 /\ \A s \in Subscriptions : WF_vars(Handler(p, s))
            /\ WF_vars(Recover)

FairSpec == Spec /\ Fairness
-----------------------------------------------------------------------------
(* Properties. *)

\* Every variable has the type the code gives it.
TypeOK == /\ pc \in [Consumers -> PCs] /\ stop \in [Consumers -> BOOLEAN]
          /\ pending \in [Consumers -> SUBSET Partitions]
          /\ stored \in [Partitions -> Nat] /\ next \in [Partitions -> Nat]
          /\ subs \in [Partitions -> SUBSET Subscriptions]
          /\ chosen \in [Partitions -> Subscriptions \cup {Nothing}]
          /\ active \in [Partitions -> Subscriptions \cup {Nothing}]
          /\ inbox \in [Partitions -> [Subscriptions -> SUBSET Messages]]
          /\ broken \subseteq Partitions \X Subscriptions
          /\ up \in BOOLEAN /\ faults \in Nat
          /\ consumed \in [Messages -> Nat] /\ errors \in [Messages -> Nat]

\* At most one counter moves for a message, once: not after a handover between
\* instances, a second subscription of one instance, an outage or a restart.
Ledger == INSTANCE ConsumerLedger
AtMostOnce == Ledger!Spec

\* A good message that is stored while a subscription is active is counted in
\* the end, unless the subscription ceases to be active or an earlier message of
\* the partition has raised an exception that decode lets through.
BacklogIsConsumed ==
    \A m \in Messages :
      LET p == m[1]
          waits == active[p] # Nothing /\ next[p] < m[2] /\ m[2] <= stored[p]
          raisedBy(n) == n[1] = p /\ n[2] < m[2] /\ Escapes(Lang(active[p][1]), ValueOf(n))
      IN  (waits /\ ValueOf(m) = "valid")
            ~> \/ consumed[m] = 1 \/ active[p] = Nothing
               \/ (<<p, active[p]>> \in broken /\ \E n \in Messages : raisedBy(n))
=============================================================================

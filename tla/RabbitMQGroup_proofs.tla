-------------------------- MODULE RabbitMQGroup_proofs --------------------------
(***************************************************************************)
(* Proofs about RabbitMQGroup, for every set of consumers, of either       *)
(* language, every set of partitions and every values stored in them: no   *)
(* message is counted twice.  What makes it true is that a partition has   *)
(* one read position, which never goes back, and that a delivered message  *)
(* is in one queue only.                                                   *)
(***************************************************************************)
EXTENDS RabbitMQGroup, TLAPS

Uncounted(m) == consumed[m] = 0 /\ errors[m] = 0

\* The read position stays inside the partition.
PositionInv == \A p \in Partitions : next[p] <= stored[p] /\ stored[p] <= Len(Value[p])

\* A queued message is one that was delivered, is in no other queue and has not
\* been counted, and so has one that is still to be delivered.
QueueInv ==
    /\ \A p \in Partitions, s \in Subscriptions :
         \A m \in inbox[p][s] : m[1] = p /\ m[2] <= next[p] /\ Uncounted(m)
    /\ \A p \in Partitions, s, t \in Subscriptions :
         s # t => inbox[p][s] \cap inbox[p][t] = {}
    /\ \A m \in Messages : next[m[1]] < m[2] => Uncounted(m)
-----------------------------------------------------------------------------
\* What a message is: a place in a partition, with a value of a known class.
LEMMA MessagesType ==
  /\ \A p \in Partitions : Len(Value[p]) \in Nat
  /\ \A m \in Messages : m[1] \in Partitions /\ m[2] \in 1..Len(Value[m[1]])
  /\ \A p \in Partitions : \A i \in 1..Len(Value[p]) : <<p, i>> \in Messages
  /\ \A m \in Messages : ValueOf(m) \in Values
<1>1. \A p \in Partitions : Value[p] \in Seq(Values)
  BY ValueAssumption
<1>2. \A p \in Partitions : Len(Value[p]) \in Nat
  BY <1>1
<1>3. \A m \in Messages : \E p \in Partitions : m \in {p} \X (1..Len(Value[p]))
  BY DEF Messages
<1>4. \A m \in Messages : m[1] \in Partitions /\ m[2] \in 1..Len(Value[m[1]])
  BY <1>3
<1>5. \A p \in Partitions : \A i \in 1..Len(Value[p]) : <<p, i>> \in Messages
  BY DEF Messages
<1>6. \A m \in Messages : ValueOf(m) \in Values
  BY <1>1, <1>4 DEF ValueOf
<1> QED
  BY <1>2, <1>4, <1>5, <1>6

\* No handler counts one value both as consumed and as an error.
LEMMA CountsOne ==
  ASSUME NEW lang, NEW v \in Values
  PROVE  ~(CountsConsumed(lang, v) /\ CountsError(lang, v))
BY DEF CountsConsumed, CountsError, PyDecode, GoDecode, Values

-----------------------------------------------------------------------------
\* The steps of run() that leave the broker, the queues and the counters alone.
Quiet(c) == Started(c) \/ BeginSubscribe(c) \/ Subscribed(c) \/ Signal(c)

\* The steps after which a process has lost all of its subscriptions.
Leaves(c) == Gone(c) /\ (UNCHANGED faults \/ Fault)

\* The failed subscribe of a Python consumer, which keeps them.
Retries(c) == /\ c \notin GoConsumers
              /\ pc' = [pc EXCEPT ![c] = "subscribe"]
              /\ pending' = [pending EXCEPT ![c] = {}]
              /\ UNCHANGED <<stop, broker, client, counters>>
              /\ UNCHANGED faults \/ Fault

\* Every step is of one of the kinds that the proofs below tell apart.
LEMMA StepKinds ==
  ASSUME [Next]_vars
  PROVE  \/ \E c \in Consumers : \/ Quiet(c) \/ Leaves(c) \/ Retries(c)
                                \/ \E p \in Partitions : SubscribeOne(c, p)
         \/ \E p \in Partitions : \/ Activate(p) \/ Deactivate(p) \/ Deliver(p) \/ Produce(p)
                                 \/ \E s \in Subscriptions : Handler(p, s)
         \/ Outage \/ Recover \/ UNCHANGED vars
<1>1. ASSUME NEW c \in Consumers, Run(c)
      PROVE  \/ Quiet(c) \/ Leaves(c) \/ Retries(c)
             \/ \E p \in Partitions : SubscribeOne(c, p)
  <2>1. CASE StartFails(c) \/ Close(c)
    BY <2>1 DEF StartFails, Close, Leaves
  <2>2. CASE SubscribeFails(c)
    BY <2>2 DEF SubscribeFails, Leaves, Retries
  <2> QED
    BY <1>1, <2>1, <2>2 DEF Run, Quiet
<1>2. ASSUME NEW c \in Consumers, Crash(c) PROVE Leaves(c)
  BY <1>2 DEF Crash, Leaves
<1>3. CASE Next
  <2>1. CASE \E c \in Consumers : Run(c) \/ Crash(c) \/ Signal(c)
    BY <2>1, <1>1, <1>2 DEF Quiet
  <2>2. CASE AllExited
    BY <2>2 DEF AllExited
  <2> QED
    BY <1>3, <2>1, <2>2 DEF Next
<1> QED
  BY <1>3
-----------------------------------------------------------------------------
TypeInv == TypeOK /\ PositionInv

\* A step keeps every variable in its type and every position in its partition.
LEMMA TypeInvStep ==
  ASSUME TypeInv, [Next]_vars
  PROVE  TypeInv'
<1> USE DEF TypeInv, TypeOK
<1>1. ASSUME UNCHANGED <<stored, next>> PROVE PositionInv'
  BY <1>1 DEF PositionInv
<1>2. ASSUME NEW c \in Consumers, Quiet(c) PROVE TypeInv'
  <2>1. TypeOK'
    BY <1>2 DEF Quiet, Started, BeginSubscribe, Subscribed, Signal, PCs, broker, client, counters
  <2>2. UNCHANGED <<stored, next>>
    BY <1>2 DEF Quiet, Started, BeginSubscribe, Subscribed, Signal, broker
  <2> QED
    BY <2>1, <2>2, <1>1
<1>3. ASSUME NEW c \in Consumers, NEW p \in Partitions, SubscribeOne(c, p) PROVE TypeInv'
  <2>1. subs' \in [Partitions -> SUBSET Subscriptions]
    BY <1>3 DEF SubscribeOne, Subscriptions
  <2>2. chosen' \in [Partitions -> Subscriptions \cup {Nothing}]
    BY <1>3 DEF SubscribeOne, Choose
  <2>3. pending' \in [Consumers -> SUBSET Partitions]
    BY <1>3 DEF SubscribeOne
  <2> QED
    BY <1>1, <1>3, <2>1, <2>2, <2>3 DEF SubscribeOne, client, counters
<1>4. ASSUME NEW c \in Consumers, Leaves(c) PROVE TypeInv'
  <2> USE <1>4 DEF Leaves, Gone
  <2>1. chosen' \in [Partitions -> Subscriptions \cup {Nothing}]
    BY DEF Choose
  <2>2. inbox' \in [Partitions -> [Subscriptions -> SUBSET Messages]]
    OBVIOUS
  <2>3. active' \in [Partitions -> Subscriptions \cup {Nothing}]
    OBVIOUS
  <2>4. subs' \in [Partitions -> SUBSET Subscriptions]
    OBVIOUS
  <2>5. broken' \subseteq Partitions \X Subscriptions
    OBVIOUS
  <2>6. pc' \in [Consumers -> PCs] /\ pending' \in [Consumers -> SUBSET Partitions]
    BY DEF PCs
  <2>7. faults' \in Nat
    BY DEF Fault
  <2>8. UNCHANGED <<stop, stored, next, up, counters>>
    OBVIOUS
  <2> HIDE <1>4 DEF Leaves, Gone
  <2> QED
    BY <1>1, <2>1, <2>2, <2>3, <2>4, <2>5, <2>6, <2>7, <2>8 DEF counters
<1>5. ASSUME NEW c \in Consumers, Retries(c) PROVE TypeInv'
  <2>1. pc' \in [Consumers -> PCs] /\ pending' \in [Consumers -> SUBSET Partitions]
    BY <1>5 DEF Retries, PCs
  <2>2. faults' \in Nat
    BY <1>5 DEF Retries, Fault
  <2>3. UNCHANGED <<stop, broker, client, counters>>
    BY <1>5 DEF Retries
  <2> QED
    BY <1>1, <2>1, <2>2, <2>3 DEF broker, client, counters
<1>6. ASSUME NEW p \in Partitions, NEW s \in Subscriptions, Handler(p, s) PROVE TypeInv'
  <2>1. PICK m \in inbox[p][s] : OnMessage(p, s, m)
    BY <1>6 DEF Handler
  <2>2. m \in Messages
    OBVIOUS
  <2>3. inbox' \in [Partitions -> [Subscriptions -> SUBSET Messages]]
    BY <2>1 DEF OnMessage
  <2>4. broken' \subseteq Partitions \X Subscriptions
    BY <2>1 DEF OnMessage
  <2>5. consumed' \in [Messages -> Nat] /\ errors' \in [Messages -> Nat]
    BY <2>1, <2>2 DEF OnMessage
  <2> QED
    BY <1>1, <2>1, <2>3, <2>4, <2>5 DEF OnMessage, program, broker
<1>7. ASSUME NEW p \in Partitions, Activate(p) PROVE TypeInv'
  BY <1>7, MessagesType DEF Activate, PositionInv, program, client, counters
<1>8. ASSUME NEW p \in Partitions, Deactivate(p) PROVE TypeInv'
  BY <1>1, <1>8 DEF Deactivate, program, client, counters
<1>9. ASSUME NEW p \in Partitions, Deliver(p) PROVE TypeInv'
  <2>1. active[p] \in Subscriptions
    BY <1>9 DEF Deliver
  <2>2. next[p] + 1 \in 1..Len(Value[p])
    BY <1>9, MessagesType DEF Deliver, PositionInv
  <2>3. <<p, next[p] + 1>> \in Messages
    BY <2>2, MessagesType
  <2>4. inbox' \in [Partitions -> [Subscriptions -> SUBSET Messages]]
    BY <1>9, <2>1, <2>3 DEF Deliver
  <2>5. next' \in [Partitions -> Nat] /\ PositionInv'
    BY <1>9, MessagesType DEF Deliver, PositionInv
  <2> QED
    BY <1>9, <2>4, <2>5 DEF Deliver, program, counters
<1>10. ASSUME NEW p \in Partitions, Produce(p) PROVE TypeInv'
  <2>1. stored' \in [Partitions -> Nat] /\ PositionInv'
    BY <1>10, MessagesType DEF Produce, PositionInv
  <2> QED
    BY <1>10, <2>1 DEF Produce, program, client, counters
<1>11. CASE Outage
  <2>1. active' \in [Partitions -> Subscriptions \cup {Nothing}] /\ up' \in BOOLEAN
    BY <1>11 DEF Outage
  <2>2. faults' \in Nat
    BY <1>11 DEF Outage, Fault
  <2>3. UNCHANGED <<program, stored, subs, chosen, next, client, counters>>
    BY <1>11 DEF Outage
  <2> QED
    BY <1>1, <2>1, <2>2, <2>3 DEF program, client, counters
<1>12. CASE Recover
  <2>1. chosen' \in [Partitions -> Subscriptions \cup {Nothing}]
    BY <1>12 DEF Recover, Choose
  <2> QED
    BY <1>1, <1>12, <2>1 DEF Recover, program, client, counters
<1>13. CASE UNCHANGED vars
  BY <1>1, <1>13 DEF vars, program, broker, client, counters
<1> QED
  BY <1>2, <1>3, <1>4, <1>5, <1>6, <1>7, <1>8, <1>9, <1>10, <1>11, <1>12, <1>13, StepKinds

\* Every variable has its type in every reachable state, and no position is
\* beyond the end of its partition.
THEOREM TypeCorrect == Spec => []TypeInv
<1>1. Init => TypeInv
  <2> SUFFICES ASSUME Init PROVE TypeInv
    OBVIOUS
  <2>1. stored \in [Partitions -> Nat] /\ PositionInv
    BY MessagesType DEF Init, PositionInv
  <2> QED
    BY <2>1 DEF Init, TypeInv, TypeOK, PCs
<1> QED
  BY <1>1, TypeInvStep, PTL DEF Spec
-----------------------------------------------------------------------------
\* What a handler does to the counters and to its queue.
LEMMA HandlerStep ==
  ASSUME TypeInv, QueueInv, NEW p \in Partitions, NEW s \in Subscriptions,
         NEW m \in inbox[p][s], OnMessage(p, s, m)
  PROVE  /\ m \in Messages /\ m[1] = p /\ m[2] <= next[p] /\ Uncounted(m)
         /\ inbox' = [inbox EXCEPT ![p][s] = @ \ {m}]
         /\ UNCHANGED <<stored, next>>
         /\ \/ Ledger!CountConsumed(m) \/ Ledger!CountError(m) \/ UNCHANGED counters
<1>1. m \in Messages
  BY DEF TypeInv, TypeOK
<1>2. m[1] = p /\ m[2] <= next[p] /\ Uncounted(m)
  BY DEF QueueInv
<1>3. inbox' = [inbox EXCEPT ![p][s] = @ \ {m}] /\ UNCHANGED <<stored, next>>
  BY DEF OnMessage, broker
<1>4. consumed \in [Messages -> Nat] /\ errors \in [Messages -> Nat]
  BY DEF TypeInv, TypeOK
<1> DEFINE lang == Lang(s[1])
           v == ValueOf(m)
           C == CountsConsumed(lang, v) /\ ~Ignores(lang, v)
           E == CountsError(lang, v) /\ ~Ignores(lang, v)
<1>5. /\ consumed' = [consumed EXCEPT ![m] = @ + (IF C THEN 1 ELSE 0)]
      /\ errors' = [errors EXCEPT ![m] = @ + (IF E THEN 1 ELSE 0)]
  BY Zenon DEF OnMessage
<1>6. ~(C /\ E)
  BY <1>1, MessagesType, CountsOne
<1>7. \/ Ledger!CountConsumed(m) \/ Ledger!CountError(m) \/ UNCHANGED counters
  <2> HIDE DEF C, E
  <2>1. CASE C
    BY <2>1, <1>1, <1>2, <1>4, <1>5, <1>6
    DEF Ledger!CountConsumed, Ledger!Uncounted, Uncounted
  <2>2. CASE E
    BY <2>2, <1>1, <1>2, <1>4, <1>5, <1>6
    DEF Ledger!CountError, Ledger!Uncounted, Uncounted
  <2>3. CASE ~C /\ ~E
    BY <2>3, <1>1, <1>4, <1>5 DEF counters
  <2> QED
    BY <2>1, <2>2, <2>3
<1> QED
  BY <1>1, <1>2, <1>3, <1>7

\* A step keeps every delivered and every undelivered message uncounted, and
\* every delivered one in a single queue.
LEMMA QueueInvStep ==
  ASSUME TypeInv, QueueInv, [Next]_vars
  PROVE  QueueInv'
<1> USE DEF QueueInv, Uncounted
<1>1. ASSUME UNCHANGED <<next, inbox, consumed, errors>> PROVE QueueInv'
  BY <1>1
<1>2. ASSUME NEW c \in Consumers, Quiet(c) PROVE QueueInv'
  BY <1>1, <1>2 DEF Quiet, Started, BeginSubscribe, Subscribed, Signal, broker, client, counters
<1>3. ASSUME NEW c \in Consumers, NEW p \in Partitions, SubscribeOne(c, p) PROVE QueueInv'
  BY <1>1, <1>3 DEF SubscribeOne, client, counters
<1>4. ASSUME NEW c \in Consumers, Leaves(c) PROVE QueueInv'
  <2>1. UNCHANGED <<next, consumed, errors>>
    BY <1>4 DEF Leaves, Gone, counters
  <2>2. \A p \in Partitions, s \in Subscriptions : inbox'[p][s] \in {{}, inbox[p][s]}
    BY <1>4 DEF Leaves, Gone
  <2> QED
    BY <2>1, <2>2
<1>5. ASSUME NEW c \in Consumers, Retries(c) PROVE QueueInv'
  BY <1>1, <1>5 DEF Retries, broker, client, counters
<1>6. ASSUME NEW p \in Partitions, NEW s \in Subscriptions, Handler(p, s) PROVE QueueInv'
  <2>1. PICK m \in inbox[p][s] : OnMessage(p, s, m)
    BY <1>6 DEF Handler
  <2>2. m \in Messages /\ m[1] = p /\ m[2] <= next[p]
    BY <2>1, HandlerStep
  <2>3. inbox' = [inbox EXCEPT ![p][s] = @ \ {m}] /\ next' = next
    BY <2>1, HandlerStep
  <2>4. \A n \in Messages : n # m /\ Uncounted(n) => Uncounted(n)'
    <3>1. Ledger!CountConsumed(m) \/ Ledger!CountError(m) \/ UNCHANGED counters
      BY <2>1, HandlerStep
    <3> QED
      BY <3>1, <2>2 DEF Ledger!CountConsumed, Ledger!CountError, counters, TypeInv, TypeOK
  <2>5. inbox \in [Partitions -> [Subscriptions -> SUBSET Messages]]
    BY DEF TypeInv, TypeOK
  <2>6. \A q \in Partitions, t \in Subscriptions :
          /\ inbox'[q][t] \subseteq inbox[q][t]
          /\ m \notin inbox'[q][t]
    <3> TAKE q \in Partitions, t \in Subscriptions
    <3>1. CASE q = p /\ t = s
      BY <3>1, <2>3, <2>5
    <3>2. CASE q = p /\ t # s
      BY <3>2, <2>3, <2>5
    <3>3. CASE q # p
      BY <3>3, <2>2, <2>3, <2>5
    <3> QED
      BY <3>1, <3>2, <3>3
  <2>7. \A q \in Partitions, t \in Subscriptions :
          \A n \in inbox'[q][t] : n[1] = q /\ n[2] <= next'[q] /\ Uncounted(n)'
    BY <2>3, <2>4, <2>5, <2>6
  <2>8. \A q \in Partitions, t, u \in Subscriptions :
          t # u => inbox'[q][t] \cap inbox'[q][u] = {}
    BY <2>6
  <2>9. \A n \in Messages : next'[n[1]] < n[2] => Uncounted(n)'
    <3> SUFFICES ASSUME NEW n \in Messages, next[n[1]] < n[2] PROVE Uncounted(n)'
      BY <2>3
    <3>1. n # m
      BY <2>2, MessagesType DEF TypeInv, TypeOK
    <3> QED
      BY <3>1, <2>4
  <2> QED
    BY <2>7, <2>8, <2>9
<1>7. ASSUME NEW p \in Partitions, Activate(p) PROVE QueueInv'
  <2>1. UNCHANGED <<inbox, consumed, errors>>
    BY <1>7 DEF Activate, client, counters
  <2>2. \A q \in Partitions : next[q] \in Nat /\ next'[q] \in Nat /\ next[q] <= next'[q]
    BY <1>7 DEF Activate, TypeInv, TypeOK, PositionInv
  <2>3. \A q \in Partitions, t \in Subscriptions :
          \A n \in inbox[q][t] : n[2] <= next'[q]
    BY <2>2, MessagesType DEF TypeInv, TypeOK
  <2>4. \A n \in Messages : next'[n[1]] < n[2] => next[n[1]] < n[2]
    BY <2>2, MessagesType
  <2> QED
    BY <2>1, <2>3, <2>4
<1>8. ASSUME NEW p \in Partitions, Deactivate(p) PROVE QueueInv'
  BY <1>1, <1>8 DEF Deactivate, client, counters
<1>9. ASSUME NEW p \in Partitions, Deliver(p) PROVE QueueInv'
  <2> DEFINE m == <<p, next[p] + 1>>
  <2>1. active[p] \in Subscriptions
    BY <1>9 DEF Deliver, TypeInv, TypeOK
  <2>2. m \in Messages
    <3>1. next[p] + 1 \in 1..Len(Value[p])
      BY <1>9, MessagesType DEF Deliver, TypeInv, TypeOK, PositionInv
    <3> QED
      BY <3>1, MessagesType
  <2>3. /\ inbox' = [inbox EXCEPT ![p][active[p]] = @ \cup {m}]
        /\ next' = [next EXCEPT ![p] = @ + 1]
        /\ UNCHANGED <<consumed, errors>>
    BY <1>9 DEF Deliver, counters
  <2>4. Uncounted(m)
    BY <2>2 DEF TypeInv, TypeOK
  <2>5. \A q \in Partitions : /\ next[q] \in Nat /\ next'[q] \in Nat
                             /\ next'[q] = IF q = p THEN next[q] + 1 ELSE next[q]
    BY <2>3 DEF TypeInv, TypeOK
  <2>6. \A q \in Partitions, t \in Subscriptions :
          \A n \in inbox'[q][t] : n \in inbox[q][t] \/ (q = p /\ t = active[p] /\ n = m)
    <3> TAKE q \in Partitions, t \in Subscriptions
    <3>1. CASE q = p /\ t = active[p]
      BY <3>1, <2>1, <2>3 DEF TypeInv, TypeOK
    <3>2. CASE ~(q = p /\ t = active[p])
      <4>1. inbox'[q][t] = inbox[q][t]
        BY <3>2, <2>1, <2>3 DEF TypeInv, TypeOK
      <4> QED
        BY <4>1
    <3> QED
      BY <3>1, <3>2
  <2>7. \A t \in Subscriptions : m \notin inbox[p][t]
    BY <2>5
  <2> HIDE DEF m
  <2>8. \A q \in Partitions, t \in Subscriptions :
          \A n \in inbox'[q][t] : n[1] = q /\ n[2] <= next'[q] /\ Uncounted(n)'
    <3> TAKE q \in Partitions, t \in Subscriptions
    <3> TAKE n \in inbox'[q][t]
    <3>0. (n = m /\ q = p) \/ n \in inbox[q][t]
      BY <2>6
    <3>1. CASE n = m /\ q = p
      BY <3>1, <2>3, <2>4, <2>5 DEF m
    <3>2. CASE n \in inbox[q][t]
      <4>1. n \in Messages
        BY <3>2 DEF TypeInv, TypeOK
      <4>2. n[2] \in Nat
        BY <4>1, MessagesType
      <4> QED
        BY <3>2, <4>2, <2>3, <2>5
    <3> QED
      BY <3>0, <3>1, <3>2
  <2>9. \A q \in Partitions, t, u \in Subscriptions :
          t # u => inbox'[q][t] \cap inbox'[q][u] = {}
    <3> TAKE q \in Partitions, t, u \in Subscriptions
    <3>1. inbox[q][t] \cap inbox[q][u] = {} \/ t = u
      OBVIOUS
    <3>2. q = p => m \notin inbox[q][t] /\ m \notin inbox[q][u]
      BY <2>7
    <3> QED
      BY <2>6, <3>1, <3>2
  <2>10. \A n \in Messages : next'[n[1]] < n[2] => next[n[1]] < n[2]
    BY <2>5, MessagesType
  <2> QED
    BY <2>3, <2>8, <2>9, <2>10
<1>10. ASSUME NEW p \in Partitions, Produce(p) PROVE QueueInv'
  BY <1>1, <1>10 DEF Produce, client, counters
<1>11. CASE Outage
  BY <1>1, <1>11 DEF Outage, client, counters
<1>12. CASE Recover
  BY <1>1, <1>12 DEF Recover, client, counters
<1>13. CASE UNCHANGED vars
  BY <1>1, <1>13 DEF vars, broker, client, counters
<1> QED
  BY <1>2, <1>3, <1>4, <1>5, <1>6, <1>7, <1>8, <1>9, <1>10, <1>11, <1>12, <1>13, StepKinds

\* A delivered message is in one queue only and, like one that is still to be
\* delivered, has not been counted, in every reachable state.
THEOREM QueuedIsUncounted == Spec => []QueueInv
<1>1. Init => QueueInv
  <2> SUFFICES ASSUME Init PROVE QueueInv
    OBVIOUS
  <2> QED
    BY DEF Init, QueueInv, Uncounted
<1> QED
  BY <1>1, QueueInvStep, TypeCorrect, PTL DEF Spec

\* No message moves both counters, or one of them twice: not after a handover
\* between instances, a second subscription of one instance, an outage or a
\* restart.
THEOREM CountedAtMostOnce == Spec => AtMostOnce
<1>1. Init => Ledger!Init
  BY DEF Init, Ledger!Init
<1>2. TypeInv /\ QueueInv /\ [Next]_vars => [Ledger!Next]_(Ledger!vars)
  <2> SUFFICES ASSUME TypeInv, QueueInv, [Next]_vars
               PROVE  Ledger!Next \/ UNCHANGED counters
    BY DEF Ledger!vars, counters
  <2>1. ASSUME NEW p \in Partitions, NEW s \in Subscriptions, Handler(p, s)
        PROVE  Ledger!Next \/ UNCHANGED counters
    <3>1. PICK m \in inbox[p][s] : OnMessage(p, s, m)
      BY <2>1 DEF Handler
    <3>2. m \in Messages /\ (Ledger!CountConsumed(m) \/ Ledger!CountError(m) \/ UNCHANGED counters)
      BY <3>1, HandlerStep
    <3> QED
      BY <3>2 DEF Ledger!Next
  <2>2. ASSUME NEW c \in Consumers,
               \/ Quiet(c) \/ Leaves(c) \/ Retries(c)
               \/ \E p \in Partitions : SubscribeOne(c, p)
        PROVE  UNCHANGED counters
    BY <2>2 DEF Quiet, Started, BeginSubscribe, Subscribed, Signal, Leaves, Gone, Retries,
                SubscribeOne
  <2>3. ASSUME NEW p \in Partitions, Activate(p) \/ Deactivate(p) \/ Deliver(p) \/ Produce(p)
        PROVE  UNCHANGED counters
    BY <2>3 DEF Activate, Deactivate, Deliver, Produce
  <2>4. CASE Outage \/ Recover \/ UNCHANGED vars
    BY <2>4 DEF Outage, Recover, vars
  <2> QED
    BY <2>1, <2>2, <2>3, <2>4, StepKinds
<1> QED
  BY <1>1, <1>2, TypeCorrect, QueuedIsUncounted, PTL DEF Spec, AtMostOnce, Ledger!Spec
=============================================================================

----------------------- MODULE GoRabbitMQProducer_proofs -----------------------
(***************************************************************************)
(* Proofs about GoRabbitMQProducer, for every set of messages, every       *)
(* capacity of the confirmation channel and every set of messages whose    *)
(* refusal the client also reports.                                        *)
(***************************************************************************)
EXTENDS GoRabbitMQProducer, FiniteSetTheorems, TLAPS

\* The program counters of the two critical sections agree with the holder of
\* the mutex: MapsExclusive alone is not inductive.
MutexInv == /\ pc \in {"store", "undo"} <=> mu = "loop"
            /\ cpc = "lookup" <=> mu = "confirmer"
-----------------------------------------------------------------------------
\* The statuses that the client reports are well formed.
LEMMA StatusesType ==
  ASSUME NEW ms \in SUBSET Messages, NEW b \in BOOLEAN
  PROVE  Statuses(ms, b) \subseteq Status
<1>1. \A m \in ms : [msg |-> m, ok |-> b] \in Status
  BY DEF Status
<1> QED
  BY <1>1, Zenon DEF Statuses

\* Every variable of GoRabbitMQProducer keeps its type.
THEOREM TypeCorrect == Spec => []TypeOK
<1>1. Init => TypeOK
  <2> SUFFICES ASSUME Init PROVE TypeOK
    OBVIOUS
  <2>1. ctxDone \in BOOLEAN /\ up \in BOOLEAN
    BY Zenon DEF Init
  <2> QED
    BY <2>1 DEF Init, TypeOK, PCs, CPCs, Status
<1>2. TypeOK /\ [Next]_vars => TypeOK'
  <2> SUFFICES ASSUME TypeOK, [Next]_vars
               PROVE  TypeOK'
    OBVIOUS
  <2> USE DEF TypeOK, PCs, CPCs, loop, maps, confirmer, counters, environment
  <2>1. CASE Connect
    BY <2>1 DEF Connect, Goto
  <2>2. CASE CreateProducer
    BY <2>2 DEF CreateProducer, Goto
  <2>3. CASE LoopTop
    BY <2>3 DEF LoopTop, Goto
  <2>4. CASE Throttle
    BY <2>4 DEF Throttle, Goto
  <2>5. ASSUME NEW m \in Messages, LockStore(m) PROVE TypeOK'
    BY <2>5 DEF LockStore
  <2>6. ASSUME NEW m \in Messages, SendRefused(m) PROVE TypeOK'
    BY <2>6 DEF SendRefused
  <2>7. CASE StoreEntry
    BY <2>7 DEF StoreEntry
  <2>8. CASE SendAccepted
    BY <2>8 DEF SendAccepted
  <2>9. CASE LockUndo
    BY <2>9 DEF LockUndo
  <2>10. CASE UndoEntry
    BY <2>10 DEF UndoEntry
  <2>11. CASE Close
    BY <2>11 DEF Close, Goto
  <2>12. CASE Cancel
    BY <2>12 DEF Cancel
  <2>13. CASE Receive
    BY <2>13 DEF Receive
  <2>14. ASSUME NEW s \in Status, LockLookup(s) PROVE TypeOK'
    BY <2>14 DEF LockLookup
  <2>15. ASSUME NEW s \in Status, Lookup(s) PROVE TypeOK'
    BY <2>15 DEF Lookup, Status
  <2>16. ASSUME NEW s \in Status, Count(s) PROVE TypeOK'
    <3>1. s.msg \in Messages
      BY DEF Status
    <3>2. produced' \in [Messages -> Nat] /\ errors' \in [Messages -> Nat]
      <4>1. Finish(s, 1, 0) \/ Finish(s, 0, 1)
        BY <2>16, Zenon DEF Count
      <4> QED
        BY <4>1, <3>1 DEF Finish
    <3>3. timed' \subseteq Messages /\ sized' \subseteq Messages
      BY <2>16, <3>1 DEF Count, Finish
    <3>4. /\ cpc' \in CPCs /\ item' = {} /\ found' = {}
          /\ UNCHANGED <<loop, ctxDone, mu, maps, batch, environment>>
      BY <2>16, Zenon DEF Count, Finish
    <3> QED
      BY <3>2, <3>3, <3>4
  <2>17. ASSUME NEW m \in Messages, Store(m) PROVE TypeOK'
    BY <2>17 DEF Store
  <2>18. ASSUME NEW ms \in SUBSET Messages, NEW oks \in SUBSET Messages,
                Publish(ms, oks)
         PROVE  TypeOK'
    <3> DEFINE b == Statuses(oks, TRUE) \cup Statuses(ms \ oks, FALSE)
    <3>1. b \in SUBSET Status
      <4>1. Statuses(oks, TRUE) \subseteq Status
        BY StatusesType
      <4>2. Statuses(ms \ oks, FALSE) \subseteq Status
        BY StatusesType
      <4> QED
        BY <4>1, <4>2
    <3>2. chConfirm' = Append(chConfirm, b)
      BY <2>18 DEF Publish
    <3> HIDE DEF b
    <3>3. chConfirm' \in Seq(SUBSET Status)
      BY <3>1, <3>2
    <3> QED
      BY <2>18, <3>3 DEF Publish
  <2>19. CASE Outage
    BY <2>19 DEF Outage
  <2>20. CASE Recover
    BY <2>20 DEF Recover
  <2>21. CASE UNCHANGED vars
    BY <2>21 DEF vars
  <2> QED
    BY <2>1, <2>2, <2>3, <2>4, <2>5, <2>6, <2>7, <2>8, <2>9, <2>10, <2>11,
       <2>12, <2>13, <2>14, <2>15, <2>16, <2>17, <2>18, <2>19, <2>20, <2>21
    DEF Next, LoopNext, ConfirmerNext, PublishSome
<1> QED
  BY <1>1, <1>2, PTL DEF Spec

\* The mutex is held where the code holds it.
LEMMA MutexHeld == Spec => []MutexInv
<1>1. Init => MutexInv
  BY DEF Init, MutexInv
<1>2. MutexInv /\ [Next]_vars => MutexInv'
  <2> SUFFICES ASSUME MutexInv, [Next]_vars
               PROVE  MutexInv'
    OBVIOUS
  <2> USE DEF MutexInv, loop, maps, confirmer, counters, environment
  <2>1. CASE Connect \/ CreateProducer \/ LoopTop \/ Throttle \/ Close
    BY <2>1 DEF Connect, CreateProducer, LoopTop, Throttle, Close, Goto
  <2>2. ASSUME NEW m \in Messages, LockStore(m) \/ SendRefused(m) PROVE MutexInv'
    BY <2>2 DEF LockStore, SendRefused
  <2>3. CASE StoreEntry \/ SendAccepted \/ LockUndo \/ UndoEntry
    BY <2>3 DEF StoreEntry, SendAccepted, LockUndo, UndoEntry
  <2>4. CASE Receive \/ Cancel \/ Outage \/ Recover \/ UNCHANGED vars
    BY <2>4 DEF Receive, Cancel, Outage, Recover, vars
  <2>5. ASSUME NEW s \in Status, LockLookup(s) PROVE MutexInv'
    BY <2>5 DEF LockLookup
  <2>6. ASSUME NEW s \in Status, Lookup(s) \/ Count(s) PROVE MutexInv'
    BY <2>6 DEF Lookup, Count, Finish
  <2>7. ASSUME NEW m \in Messages, Store(m) PROVE MutexInv'
    BY <2>7 DEF Store
  <2>8. ASSUME NEW ms, NEW oks, Publish(ms, oks) PROVE MutexInv'
    BY <2>8 DEF Publish
  <2> QED
    BY <2>1, <2>2, <2>3, <2>4, <2>5, <2>6, <2>7, <2>8
    DEF Next, LoopNext, ConfirmerNext, PublishSome
<1> QED
  BY <1>1, <1>2, PTL DEF Spec

\* The send loop and the confirmation goroutine never touch sendTimes and
\* msgBytes at the same time.
THEOREM MapsAreExclusive == Spec => []MapsExclusive
<1>1. MutexInv => MapsExclusive
  BY DEF MutexInv, MapsExclusive
<1> QED
  BY <1>1, MutexHeld, PTL
-----------------------------------------------------------------------------
(* What becomes of the statuses in the channel. *)

\* The statuses in a sequence of batches, and that no message has two of them.
In(q) == UNION {q[i] : i \in 1..Len(q)}
Distinct(q) == \A i, j \in 1..Len(q) : \A s \in q[i], t \in q[j] :
                   s.msg = t.msg => i = j /\ s = t


\* The elements of a channel to which a batch is written.
LEMMA WrittenChannel ==
  ASSUME NEW q \in Seq(SUBSET Status), NEW b \in SUBSET Status
  PROVE  /\ In(Append(q, b)) = In(q) \cup b
         /\ (/\ Distinct(q)
             /\ \A s, t \in b : s.msg = t.msg => s = t
             /\ \A s \in In(q), t \in b : s.msg # t.msg)
            => Distinct(Append(q, b))
<1> DEFINE p == Append(q, b)
           n == Len(q)
<1>1. /\ n \in Nat /\ Len(p) = n + 1 /\ p[n + 1] = b
      /\ \A i \in 1..n : p[i] = q[i]
  OBVIOUS
<1>2. \A i \in 1..(n + 1) : i \in 1..n \/ i = n + 1
  BY <1>1
<1>3. \A i \in 1..n : i \in 1..(n + 1)
  BY <1>1
<1>4. n + 1 \in 1..(n + 1)
  BY <1>1
<1> HIDE DEF p
<1>5. In(p) = In(q) \cup b
  <2>1. ASSUME NEW s \in In(p) PROVE s \in In(q) \cup b
    BY <1>1, <1>2 DEF In
  <2>2. ASSUME NEW s \in In(q) PROVE s \in In(p)
    BY <1>1, <1>3 DEF In
  <2>3. ASSUME NEW s \in b PROVE s \in In(p)
    BY <1>1, <1>4 DEF In
  <2> QED
    BY <2>1, <2>2, <2>3
<1>6. ASSUME Distinct(q),
             \A s, t \in b : s.msg = t.msg => s = t,
             \A s \in In(q), t \in b : s.msg # t.msg
      PROVE  Distinct(p)
  <2> SUFFICES ASSUME NEW i \in 1..Len(p), NEW j \in 1..Len(p),
                      NEW s \in p[i], NEW t \in p[j], s.msg = t.msg
               PROVE  i = j /\ s = t
    BY DEF Distinct
  <2>1. CASE i \in 1..n /\ j \in 1..n
    BY <2>1, <1>1, <1>6 DEF Distinct
  <2>2. CASE i = n + 1 /\ j = n + 1
    BY <2>2, <1>1, <1>6
  <2>3. CASE i \in 1..n /\ j = n + 1
    <3>1. s \in In(q) /\ t \in b
      BY <2>3, <1>1 DEF In
    <3> QED
      BY <3>1, <1>6
  <2>4. CASE j \in 1..n /\ i = n + 1
    <3>1. t \in In(q) /\ s \in b
      BY <2>4, <1>1 DEF In
    <3> QED
      BY <3>1, <1>6
  <2> QED
    BY <2>1, <2>2, <2>3, <2>4, <1>1, <1>2
<1> QED
  BY <1>5, <1>6 DEF p

\* The elements of a channel from which a batch is read.
LEMMA ReadChannel ==
  ASSUME NEW q \in Seq(SUBSET Status), q # << >>
  PROVE  /\ Head(q) \in SUBSET Status
         /\ In(q) = In(Tail(q)) \cup Head(q)
         /\ Distinct(q) => /\ Distinct(Tail(q))
                           /\ \A s, t \in Head(q) : s.msg = t.msg => s = t
                           /\ \A s \in In(Tail(q)), t \in Head(q) : s.msg # t.msg
<1> DEFINE p == Tail(q)
           n == Len(q)
<1>1. /\ n \in Nat \ {0} /\ Len(p) = n - 1 /\ Head(q) = q[1]
      /\ Head(q) \in SUBSET Status
      /\ \A i \in 1..(n - 1) : p[i] = q[i + 1]
  OBVIOUS
<1>2. \A i \in 1..n : i = 1 \/ i - 1 \in 1..(n - 1)
  BY <1>1
<1>3. \A i \in 1..(n - 1) : i + 1 \in 1..n /\ i + 1 # 1
  BY <1>1
<1>4. 1 \in 1..n
  BY <1>1
<1>5. \A i \in 1..n : i - 1 + 1 = i
  BY <1>1
<1>6. \A i, j \in 1..(n - 1) : i + 1 = j + 1 => i = j
  BY <1>1
<1> HIDE DEF p, n
<1>7. In(q) = In(p) \cup Head(q)
  <2>1. ASSUME NEW s \in In(q) PROVE s \in In(p) \cup Head(q)
    <3>1. PICK i \in 1..n : s \in q[i]
      BY DEF In, n
    <3>2. CASE i = 1
      BY <3>1, <3>2, <1>1
    <3>3. CASE i - 1 \in 1..(n - 1)
      <4>1. p[i - 1] = q[i]
        BY <3>3, <1>1, <1>5
      <4> QED
        BY <4>1, <3>1, <3>3, <1>1 DEF In
    <3> QED
      BY <3>2, <3>3, <1>2
  <2>2. ASSUME NEW s \in In(p) PROVE s \in In(q)
    BY <1>1, <1>3 DEF In, n
  <2>3. ASSUME NEW s \in Head(q) PROVE s \in In(q)
    BY <1>1, <1>4 DEF In, n
  <2> QED
    BY <2>1, <2>2, <2>3
<1>8. ASSUME Distinct(q)
      PROVE  /\ Distinct(p)
             /\ \A s, t \in Head(q) : s.msg = t.msg => s = t
             /\ \A s \in In(p), t \in Head(q) : s.msg # t.msg
  <2>1. ASSUME NEW i \in 1..(n - 1), NEW j \in 1..(n - 1),
               NEW s \in p[i], NEW t \in p[j], s.msg = t.msg
        PROVE  i = j /\ s = t
    <3>1. i + 1 \in 1..n /\ j + 1 \in 1..n /\ s \in q[i + 1] /\ t \in q[j + 1]
      BY <2>1, <1>1, <1>3
    <3>2. i + 1 = j + 1 /\ s = t
      BY <3>1, <2>1, <1>8, Zenon DEF Distinct, n
    <3> QED
      BY <3>2, <1>6
  <2>2. Distinct(p)
    BY <2>1, <1>1 DEF Distinct
  <2>3. \A s, t \in Head(q) : s.msg = t.msg => s = t
    BY <1>1, <1>4, <1>8 DEF Distinct, n
  <2>4. ASSUME NEW s \in In(p), NEW t \in Head(q) PROVE s.msg # t.msg
    <3>1. PICK i \in 1..(n - 1) : s \in p[i]
      BY <1>1 DEF In
    <3>2. s \in q[i + 1] /\ i + 1 \in 1..n /\ i + 1 # 1 /\ t \in q[1]
      BY <3>1, <1>1, <1>3
    <3> QED
      BY <3>2, <1>4, <1>8 DEF Distinct, n
  <2> QED
    BY <2>2, <2>3, <2>4
<1> QED
  BY <1>1, <1>7, <1>8 DEF p
-----------------------------------------------------------------------------
(* The inductive invariant. *)

\* The messages that the client has answered and Count has not yet done, and
\* those that still have an answer to come or to be counted.
Answers == In(chConfirm) \cup batch \cup item
Answered == {s.msg : s \in Answers}
Pending == unconfirmed \cup Answered

\* A message is in one place at a time.
PlaceInv ==
    /\ Distinct(chConfirm)
    /\ unconfirmed \cap Answered = {}
    /\ \A s \in In(chConfirm), t \in batch \cup item : s.msg # t.msg
    /\ \A s, t \in batch \cup item : s.msg = t.msg => s = t
    /\ batch \cap item = {}
    /\ \A s, t \in item : s = t
    /\ item # {} <=> cpc \in {"lookup", "count"}
    /\ cpc = "receive" => batch = {}

\* The message of the iteration: not handed over before send, refused after.
CurInv ==
    /\ cur # {} <=> pc \in {"store", "send", "lock_undo", "undo"}
    /\ \A m, k \in cur : m = k
    /\ cur \cup Pending \cup persisted \subseteq attempted
    /\ \A m \in Messages \ attempted : produced[m] = 0 /\ errors[m] = 0
    /\ \A m \in cur :
         IF pc \in {"store", "send"}
         THEN m \notin Pending \cup persisted /\ produced[m] = 0 /\ errors[m] = 0
         ELSE errors[m] > 0 /\ (m \in Pending => m \in Reported)

\* A message with an answer to come is not counted, except as a refusal that the
\* client reports as well; and such a message is never stored.
CountInv ==
    /\ \A s \in Answers : s.ok => s.msg \in persisted
    /\ \A m \in Pending : /\ produced[m] = 0
                          /\ m \in persisted \/ m \notin Reported => errors[m] = 0
    /\ ProducedXorError

\* A message with no error and no answer looked up has both its entries.
MapInv ==
    /\ NoStrandedEntry
    /\ pc = "send" => cur \subseteq sendTimes \cap msgBytes
    /\ \A m \in unconfirmed \cup Undelivered :
          errors[m] = 0 => m \in sendTimes /\ m \in msgBytes
    /\ cpc = "count" => \A s \in item : errors[s.msg] = 0 => {"t", "sz"} \subseteq found
    /\ ProducedIsTimedAndSized

Inv == PlaceInv /\ CurInv /\ CountInv /\ MapInv

\* What a report of the client says of each message.
LEMMA StatusesOf ==
  ASSUME NEW ms, NEW b
  PROVE  \A s \in Statuses(ms, b) :
            s.msg \in ms /\ s.ok = b /\ s = [msg |-> s.msg, ok |-> b]
<1> SUFFICES ASSUME NEW s \in Statuses(ms, b)
             PROVE  s.msg \in ms /\ s.ok = b /\ s = [msg |-> s.msg, ok |-> b]
  OBVIOUS
<1>1. PICK m \in ms : s = [msg |-> m, ok |-> b]
  BY DEF Statuses
<1> QED
  BY <1>1

\* The answers are statuses of messages.
LEMMA AnswersInStatus ==
  ASSUME TypeOK
  PROVE  In(chConfirm) \subseteq Status /\ Answers \subseteq Status
<1>1. ASSUME NEW i \in 1..Len(chConfirm) PROVE chConfirm[i] \subseteq Status
  BY DEF TypeOK
<1> QED
  BY <1>1 DEF In, Answers, TypeOK

\* Every step keeps a message in one place.
LEMMA PlaceStep ==
  ASSUME TypeOK, PlaceInv, CurInv, [Next]_vars
  PROVE  PlaceInv'
<1> USE DEF loop, maps, confirmer, counters, environment
<1> DEFINE Q == In(chConfirm)
<1>0. /\ Q \subseteq Status /\ batch \subseteq Status /\ item \subseteq Status
      /\ unconfirmed \subseteq Messages /\ cur \subseteq Messages
  BY AnswersInStatus DEF TypeOK
<1>a. /\ \A s \in Q \cup batch \cup item : s.msg \notin unconfirmed
      /\ \A s \in Q, t \in batch \cup item : s.msg # t.msg
      /\ \A s, t \in batch \cup item : s.msg = t.msg => s = t
      /\ batch \cap item = {}
      /\ \A s, t \in item : s = t
      /\ item # {} <=> cpc \in {"lookup", "count"}
      /\ cpc = "receive" => batch = {}
      /\ Distinct(chConfirm)
  BY DEF PlaceInv, Answered, Answers
<1>b. (/\ \A s \in Q' \cup batch' \cup item' : s.msg \notin unconfirmed'
       /\ \A s \in Q', t \in batch' \cup item' : s.msg # t.msg
       /\ \A s, t \in batch' \cup item' : s.msg = t.msg => s = t
       /\ batch' \cap item' = {}
       /\ \A s, t \in item' : s = t
       /\ item' # {} <=> cpc' \in {"lookup", "count"}
       /\ cpc' = "receive" => batch' = {}
       /\ Distinct(chConfirm'))
      => PlaceInv'
  BY DEF PlaceInv, Answered, Answers
<1>1. ASSUME UNCHANGED <<chConfirm, batch, item, unconfirmed, cpc>> PROVE PlaceInv'
  BY <1>1 DEF PlaceInv, Answered, Answers
<1>2. CASE Connect \/ CreateProducer \/ LoopTop \/ Throttle \/ Close
  BY <1>1, <1>2 DEF Connect, CreateProducer, LoopTop, Throttle, Close, Goto
<1>3. CASE StoreEntry \/ LockUndo \/ UndoEntry \/ Cancel \/ Outage \/ Recover \/ UNCHANGED vars
  BY <1>1, <1>3 DEF StoreEntry, LockUndo, UndoEntry, Cancel, Outage, Recover, vars
<1>4. ASSUME NEW m \in Messages, LockStore(m) \/ Store(m) PROVE PlaceInv'
  BY <1>1, <1>4 DEF LockStore, Store
<1>5. ASSUME SendAccepted \/ \E m \in Messages : SendRefused(m) PROVE PlaceInv'
  <2>1. /\ pc = "send" /\ unconfirmed' \subseteq unconfirmed \cup cur
        /\ UNCHANGED <<chConfirm, batch, item, cpc>>
    BY <1>5 DEF SendAccepted, SendRefused
  <2>2. \A s \in Q \cup batch \cup item : s.msg \notin cur
    BY <2>1 DEF CurInv, Pending, Answered, Answers
  <2>3. Q' = Q
    BY <2>1
  <2> QED
    BY <2>1, <2>2, <2>3, <1>a, <1>b
<1>6. CASE Receive
  <2>1. /\ chConfirm # << >> /\ chConfirm' = Tail(chConfirm) /\ batch' = Head(chConfirm)
        /\ cpc = "receive" /\ cpc' = "next" /\ UNCHANGED <<item, unconfirmed>>
    BY <1>6 DEF Receive
  <2>2. item = {}
    BY <2>1, <1>a
  <2>3. chConfirm \in Seq(SUBSET Status)
    BY DEF TypeOK
  <2>4. /\ Q = Q' \cup batch' /\ Distinct(chConfirm')
        /\ \A s, t \in batch' : s.msg = t.msg => s = t
        /\ \A s \in Q', t \in batch' : s.msg # t.msg
    BY <2>1, <2>3, <1>a, ReadChannel
  <2> HIDE DEF Q
  <2> QED
    BY <2>1, <2>2, <2>4, <1>a, <1>b
<1>7. ASSUME NEW s \in Status, LockLookup(s) PROVE PlaceInv'
  <2>1. /\ cpc = "next" /\ s \in batch /\ batch' = batch \ {s} /\ item' = {s}
        /\ cpc' = "lookup" /\ UNCHANGED <<unconfirmed, chConfirm>>
    BY <1>7 DEF LockLookup
  <2>2. Q' = Q
    BY <2>1
  <2> HIDE DEF Q
  <2> QED
    BY <2>1, <2>2, <1>a, <1>b
<1>8. ASSUME NEW s \in Status, Lookup(s) PROVE PlaceInv'
  <2>1. /\ cpc = "lookup" /\ cpc' = "count" /\ UNCHANGED <<unconfirmed, chConfirm, batch, item>>
    BY <1>8 DEF Lookup
  <2>2. Q' = Q
    BY <2>1
  <2> HIDE DEF Q
  <2> QED
    BY <2>1, <2>2, <1>a, <1>b
<1>9. ASSUME NEW s \in Status, Count(s) PROVE PlaceInv'
  <2>1. /\ item' = {} /\ cpc' = (IF batch = {} THEN "receive" ELSE "next")
        /\ UNCHANGED <<unconfirmed, chConfirm, batch>>
    BY <1>9, Zenon DEF Count, Finish
  <2>2. Q' = Q
    BY <2>1
  <2> HIDE DEF Q
  <2> QED
    BY <2>1, <2>2, <1>a, <1>b
<1>10. ASSUME NEW ms \in SUBSET Messages, NEW oks \in SUBSET Messages, Publish(ms, oks)
       PROVE  PlaceInv'
  <2> DEFINE b == Statuses(oks, TRUE) \cup Statuses(ms \ oks, FALSE)
  <2>1. /\ ms \subseteq unconfirmed /\ oks \subseteq ms
        /\ chConfirm' = Append(chConfirm, b) /\ unconfirmed' = unconfirmed \ ms
        /\ UNCHANGED <<batch, item, cpc>>
    BY <1>10 DEF Publish
  <2>2. /\ \A s \in Statuses(oks, TRUE) : s.msg \in oks /\ s = [msg |-> s.msg, ok |-> TRUE]
        /\ \A s \in Statuses(ms \ oks, FALSE) :
              s.msg \in ms \ oks /\ s = [msg |-> s.msg, ok |-> FALSE]
    BY StatusesOf, Zenon
  <2>3. \A s \in b : s.msg \in ms
    BY <2>1, <2>2
  <2>3a. \A s, t \in b : s.msg = t.msg => s = t
    <3> SUFFICES ASSUME NEW s \in b, NEW t \in b, s.msg = t.msg PROVE s = t
      OBVIOUS
    <3>1. s \in Statuses(oks, TRUE) \/ s \in Statuses(ms \ oks, FALSE)
      OBVIOUS
    <3>2. t \in Statuses(oks, TRUE) \/ t \in Statuses(ms \ oks, FALSE)
      OBVIOUS
    <3> HIDE DEF b
    <3> QED
      BY <3>1, <3>2, <2>2
  <2>4. b \in SUBSET Status
    <3>1. Statuses(oks, TRUE) \subseteq Status
      BY StatusesType
    <3>2. Statuses(ms \ oks, FALSE) \subseteq Status
      BY StatusesType
    <3> QED
      BY <3>1, <3>2
  <2> HIDE DEF b
  <2>5. chConfirm \in Seq(SUBSET Status)
    BY DEF TypeOK
  <2>6. \A s \in Q, t \in b : s.msg # t.msg
    BY <2>1, <2>3, <1>a
  <2>7. Q' = Q \cup b /\ Distinct(chConfirm')
    BY <2>1, <2>4, <2>5, <2>6, <2>3a, <1>a, WrittenChannel
  <2> HIDE DEF Q
  <2>8. \A s \in Q', t \in batch' \cup item' : s.msg # t.msg
    BY <2>1, <2>3, <2>7, <1>a
  <2>9. \A s \in Q' \cup batch' \cup item' : s.msg \notin unconfirmed'
    BY <2>1, <2>3, <2>7, <1>a
  <2> QED
    BY <2>1, <2>7, <2>8, <2>9, <1>a, <1>b
<1> QED
  BY <1>2, <1>3, <1>4, <1>5, <1>6, <1>7, <1>8, <1>9, <1>10
  DEF Next, LoopNext, ConfirmerNext, PublishSome

\* The answers of the client: reading them changes none, Count takes one away,
\* Publish adds some.
LEMMA AnswersStep ==
  ASSUME TypeOK, PlaceInv
  PROVE  /\ Receive => Answers' = Answers
         /\ \A s \in Status : LockLookup(s) \/ Lookup(s) => Answers' = Answers
         /\ \A s \in Status : Count(s) =>
               /\ s \in Answers /\ Answers' = Answers \ {s}
               /\ \A t \in Answers : t.msg = s.msg => t = s
         /\ \A ms, oks \in SUBSET Messages : Publish(ms, oks) =>
               Answers' = Answers \cup Statuses(oks, TRUE) \cup Statuses(ms \ oks, FALSE)
<1>0. chConfirm \in Seq(SUBSET Status) /\ item \subseteq Status
  BY DEF TypeOK
<1>1. ASSUME Receive PROVE Answers' = Answers
  <2>1. /\ chConfirm # << >> /\ chConfirm' = Tail(chConfirm) /\ batch' = Head(chConfirm)
        /\ cpc = "receive" /\ item' = item
    BY <1>1 DEF Receive
  <2>2. batch = {}
    BY <2>1 DEF PlaceInv
  <2>3. In(chConfirm) = In(chConfirm') \cup batch'
    BY <2>1, <1>0, ReadChannel
  <2> QED
    BY <2>1, <2>2, <2>3 DEF Answers
<1>2. ASSUME NEW s \in Status, LockLookup(s) \/ Lookup(s) PROVE Answers' = Answers
  <2>1. chConfirm' = chConfirm
    BY <1>2 DEF LockLookup, Lookup, environment
  <2>2. CASE LockLookup(s)
    <3>1. /\ s \in batch /\ batch' = batch \ {s} /\ item' = {s} /\ cpc = "next"
      BY <2>2 DEF LockLookup
    <3>2. item = {}
      BY <3>1 DEF PlaceInv
    <3> QED
      BY <2>1, <3>1, <3>2 DEF Answers
  <2>3. CASE Lookup(s)
    BY <2>1, <2>3 DEF Lookup, Answers
  <2> QED
    BY <1>2, <2>2, <2>3
<1>3. ASSUME NEW s \in Status, Count(s)
      PROVE  /\ s \in Answers /\ Answers' = Answers \ {s}
             /\ \A t \in Answers : t.msg = s.msg => t = s
  <2>1. s \in item /\ item' = {} /\ UNCHANGED <<chConfirm, batch>>
    BY <1>3, Zenon DEF Count, Finish, environment
  <2>2. item = {s}
    BY <2>1 DEF PlaceInv
  <2>3. s \notin In(chConfirm) /\ s \notin batch
    BY <2>1 DEF PlaceInv
  <2>4. \A t \in Answers : t.msg = s.msg => t = s
    BY <2>1 DEF PlaceInv, Answers
  <2> QED
    BY <2>1, <2>2, <2>3, <2>4 DEF Answers
<1>4. ASSUME NEW ms \in SUBSET Messages, NEW oks \in SUBSET Messages, Publish(ms, oks)
      PROVE  Answers' = Answers \cup Statuses(oks, TRUE) \cup Statuses(ms \ oks, FALSE)
  <2> DEFINE b == Statuses(oks, TRUE) \cup Statuses(ms \ oks, FALSE)
  <2>1. chConfirm' = Append(chConfirm, b) /\ UNCHANGED <<batch, item>>
    BY <1>4 DEF Publish, confirmer
  <2>2. b \in SUBSET Status
    <3>1. Statuses(oks, TRUE) \subseteq Status
      BY StatusesType
    <3>2. Statuses(ms \ oks, FALSE) \subseteq Status
      BY StatusesType
    <3> QED
      BY <3>1, <3>2
  <2>3. In(chConfirm') = In(chConfirm) \cup b
    <3> HIDE DEF b
    <3> QED
      BY <2>1, <2>2, <1>0, WrittenChannel
  <2> QED
    BY <2>1, <2>3 DEF Answers
<1> QED
  BY <1>1, <1>2, <1>3, <1>4

\* Every step keeps the invariants of the message in hand and of the counters.
LEMMA CountStep ==
  ASSUME TypeOK, PlaceInv, CurInv, CountInv, [Next]_vars
  PROVE  CurInv' /\ CountInv'
<1> USE DEF loop, maps, confirmer, counters, environment
<1>0. /\ cur \subseteq Messages /\ attempted \subseteq Messages /\ persisted \subseteq Messages
      /\ unconfirmed \subseteq Messages
      /\ produced \in [Messages -> Nat] /\ errors \in [Messages -> Nat]
  BY DEF TypeOK
<1>a. ASSUME Answers' = Answers, UNCHANGED <<cur, attempted, unconfirmed, persisted, produced, errors>>,
             pc \in {"store", "send"} <=> pc' \in {"store", "send"},
             pc \in {"lock_undo", "undo"} <=> pc' \in {"lock_undo", "undo"}
      PROVE  CurInv' /\ CountInv'
  <2>1. Pending' = Pending
    BY <1>a DEF Pending, Answered
  <2>2. CountInv'
    BY <1>a, <2>1 DEF CountInv, ProducedXorError
  <2>3. CurInv'
    BY <1>a, <2>1 DEF CurInv
  <2> QED
    BY <2>2, <2>3
<1>1. CASE Connect \/ CreateProducer \/ LoopTop \/ Throttle \/ Close
  BY <1>1, <1>a DEF Connect, CreateProducer, LoopTop, Throttle, Close, Goto, Answers
<1>2. CASE StoreEntry \/ LockUndo \/ Cancel \/ Outage \/ Recover \/ UNCHANGED vars
  BY <1>2, <1>a DEF StoreEntry, LockUndo, Cancel, Outage, Recover, vars, Answers
<1>3. CASE Receive \/ \E s \in Status : LockLookup(s) \/ Lookup(s)
  <2>1. Answers' = Answers
    BY <1>3, AnswersStep
  <2> QED
    BY <1>3, <2>1, <1>a DEF Receive, LockLookup, Lookup
<1>4. ASSUME NEW m \in Messages, LockStore(m) PROVE CurInv' /\ CountInv'
  <2>1. /\ m \notin attempted /\ cur' = {m} /\ attempted' = attempted \cup {m} /\ pc' = "store"
        /\ UNCHANGED <<produced, errors, persisted>>
        /\ Pending' = Pending /\ Answers' = Answers
    BY <1>4 DEF LockStore, Fresh, Pending, Answered, Answers
  <2>2. m \notin Pending /\ m \notin persisted /\ produced[m] = 0 /\ errors[m] = 0
    BY <2>1 DEF CurInv
  <2>3. CountInv'
    BY <2>1 DEF CountInv, ProducedXorError
  <2>4. CurInv'
    BY <2>1, <2>2 DEF CurInv
  <2> QED
    BY <2>3, <2>4
<1>5. CASE SendAccepted
  <2>1. /\ pc = "send" /\ unconfirmed' = unconfirmed \cup cur /\ cur' = {} /\ pc' = "loop"
        /\ UNCHANGED <<attempted, produced, errors, persisted>> /\ Answers' = Answers
    BY <1>5 DEF SendAccepted, Answers
  <2>2. Pending' = Pending \cup cur
    BY <2>1 DEF Pending, Answered
  <2>3. \A m \in cur : produced[m] = 0 /\ errors[m] = 0
    BY <2>1 DEF CurInv
  <2>4. CurInv'
    BY <2>1, <2>2 DEF CurInv
  <2>5. CountInv'
    BY <2>1, <2>2, <2>3 DEF CountInv, ProducedXorError
  <2> QED
    BY <2>4, <2>5
<1>6. ASSUME NEW m \in Messages, SendRefused(m) PROVE CurInv' /\ CountInv'
  <2>1. /\ pc = "send" /\ m \in cur /\ errors' = [errors EXCEPT ![m] = @ + 1]
        /\ unconfirmed \subseteq unconfirmed' /\ unconfirmed' \subseteq unconfirmed \cup {m}
        /\ m \in Reported \/ unconfirmed' = unconfirmed
        /\ pc' = "lock_undo"
        /\ UNCHANGED <<cur, attempted, produced, persisted>> /\ Answers' = Answers
    BY <1>6 DEF SendRefused, Answers
  <2>2. Pending \subseteq Pending' /\ Pending' \subseteq Pending \cup {m}
    BY <2>1 DEF Pending, Answered
  <2>3. m \notin Pending \cup persisted /\ produced[m] = 0 /\ errors[m] = 0 /\ cur = {m}
    BY <2>1 DEF CurInv
  <2>4. /\ errors'[m] = 1
        /\ \A k \in Messages \ {m} : errors'[k] = errors[k]
    BY <2>1, <2>3, <1>0
  <2>5. m \in Pending' => m \in Reported
    BY <2>1, <2>3 DEF Pending, Answered
  <2>6. m \in attempted
    BY <2>1 DEF CurInv
  <2>7. CurInv'
    BY <2>1, <2>2, <2>3, <2>4, <2>5, <2>6 DEF CurInv
  <2>8. CountInv'
    <3>1. \A k \in Pending' : /\ produced'[k] = 0
                              /\ k \in persisted' \/ k \notin Reported => errors'[k] = 0
      BY <2>1, <2>2, <2>3, <2>4, <2>5, <2>6, <1>0 DEF CountInv, CurInv
    <3>2. ProducedXorError'
      BY <2>1, <2>3, <2>4 DEF CountInv, ProducedXorError
    <3> QED
      BY <2>1, <3>1, <3>2 DEF CountInv
  <2> QED
    BY <2>7, <2>8
<1>7. CASE UndoEntry
  <2>1. /\ pc' = "loop" /\ cur' = {} /\ UNCHANGED <<attempted, produced, errors, persisted>>
        /\ Pending' = Pending /\ Answers' = Answers
    BY <1>7 DEF UndoEntry, Pending, Answered, Answers
  <2> QED
    BY <2>1 DEF CurInv, CountInv, ProducedXorError
<1>8. ASSUME NEW m \in Messages, Store(m) PROVE CurInv' /\ CountInv'
  <2>1. /\ m \in unconfirmed /\ errors[m] = 0 /\ persisted' = persisted \cup {m}
        /\ UNCHANGED <<pc, cur, attempted, produced, errors>>
        /\ Pending' = Pending /\ Answers' = Answers
    BY <1>8 DEF Store, Pending, Answered, Answers
  <2>2. m \in Pending
    BY <2>1 DEF Pending
  <2> QED
    BY <2>1, <2>2 DEF CurInv, CountInv, ProducedXorError
<1>9. ASSUME NEW ms \in SUBSET Messages, NEW oks \in SUBSET Messages, Publish(ms, oks)
      PROVE  CurInv' /\ CountInv'
  <2>1. /\ ms \subseteq unconfirmed /\ oks \subseteq ms /\ oks \subseteq persisted
        /\ unconfirmed' = unconfirmed \ ms
        /\ UNCHANGED <<pc, cur, attempted, produced, errors, persisted>>
    BY <1>9 DEF Publish
  <2>2. Answers' = Answers \cup Statuses(oks, TRUE) \cup Statuses(ms \ oks, FALSE)
    BY <1>9, AnswersStep
  <2>3. /\ \A s \in Statuses(oks, TRUE) : s.msg \in oks
        /\ \A s \in Statuses(ms \ oks, FALSE) : s.msg \in ms \ oks /\ s.ok = FALSE
    BY StatusesOf, Zenon
  <2>4. Pending' \subseteq Pending
    BY <2>1, <2>2, <2>3 DEF Pending, Answered
  <2>5. CurInv'
    BY <2>1, <2>4 DEF CurInv
  <2>6. \A s \in Answers' : s.ok => s.msg \in persisted
    BY <2>1, <2>2, <2>3 DEF CountInv
  <2>7. CountInv'
    BY <2>1, <2>4, <2>6 DEF CountInv, ProducedXorError
  <2> QED
    BY <2>5, <2>7
<1>10. ASSUME NEW s \in Status, Count(s) PROVE CurInv' /\ CountInv'
  <2>1. /\ s \in Answers /\ Answers' = Answers \ {s}
        /\ \A t \in Answers : t.msg = s.msg => t = s
    BY <1>10, AnswersStep
  <2>2. UNCHANGED <<pc, cur, attempted, unconfirmed, persisted>>
    BY <1>10, Zenon DEF Count, Finish
  <2> DEFINE m == s.msg
  <2>3. m \in Messages /\ m \in Pending /\ m \notin unconfirmed
    BY <2>1 DEF Status, PlaceInv, Answered, Pending
  <2>4. Pending' = Pending \ {m}
    BY <2>1, <2>2, <2>3 DEF Pending, Answered
  <2>5. /\ \/ s.ok /\ produced'[m] = produced[m] + 1 /\ errors'[m] = errors[m]
           \/ produced'[m] = produced[m] /\ errors'[m] = errors[m] + 1
        /\ \A k \in Messages \ {m} : produced'[k] = produced[k] /\ errors'[k] = errors[k]
    BY <1>10, <2>3, <1>0 DEF Count, Finish
  <2>6. produced[m] = 0 /\ (s.ok => errors[m] = 0)
    BY <2>1, <2>3 DEF CountInv
  <2>7. m \in attempted /\ (m \in cur => errors[m] > 0 /\ m \in Reported)
    BY <2>3 DEF CurInv
  <2> HIDE DEF m
  <2>8. CurInv'
    BY <2>2, <2>3, <2>4, <2>5, <2>6, <2>7, <1>0 DEF CurInv
  <2>9. ProducedXorError'
    BY <2>5, <2>6, <1>0 DEF CountInv, ProducedXorError
  <2>10. CountInv'
    BY <2>1, <2>2, <2>4, <2>5, <2>9, <1>0 DEF CountInv, CurInv
  <2> QED
    BY <2>8, <2>10
<1> QED
  BY <1>1, <1>2, <1>3, <1>4, <1>5, <1>6, <1>7, <1>8, <1>9, <1>10
  DEF Next, LoopNext, ConfirmerNext, PublishSome

\* The statuses not yet looked up.
Waiting == In(chConfirm) \cup batch \cup (IF cpc = "lookup" THEN item ELSE {})

\* The statuses not yet looked up: Lookup takes one away, Publish adds some.
LEMMA WaitingStep ==
  ASSUME TypeOK, PlaceInv
  PROVE  /\ Undelivered = {s.msg : s \in Waiting}
         /\ Undelivered' = {s.msg : s \in Waiting'}
         /\ Waiting \subseteq Answers
         /\ Receive => Waiting' = Waiting
         /\ \A s \in Status : LockLookup(s) \/ Count(s) => Waiting' = Waiting
         /\ \A s \in Status : Lookup(s) => s \in Waiting /\ Waiting' = Waiting \ {s}
         /\ \A ms, oks \in SUBSET Messages : Publish(ms, oks) =>
               Waiting' = Waiting \cup Statuses(oks, TRUE) \cup Statuses(ms \ oks, FALSE)
<1>0. chConfirm \in Seq(SUBSET Status) /\ item \subseteq Status
  BY DEF TypeOK
<1>1. Undelivered = {s.msg : s \in Waiting} /\ Undelivered' = {s.msg : s \in Waiting'}
  BY DEF Undelivered, Waiting, In
<1>2. Waiting \subseteq Answers
  BY DEF Waiting, Answers
<1>3. ASSUME Receive PROVE Waiting' = Waiting
  <2>1. /\ chConfirm # << >> /\ chConfirm' = Tail(chConfirm) /\ batch' = Head(chConfirm)
        /\ cpc = "receive" /\ cpc' = "next"
    BY <1>3 DEF Receive
  <2>2. batch = {}
    BY <2>1 DEF PlaceInv
  <2>3. In(chConfirm) = In(chConfirm') \cup batch'
    BY <2>1, <1>0, ReadChannel
  <2> QED
    BY <2>1, <2>2, <2>3 DEF Waiting
<1>4. ASSUME NEW s \in Status, LockLookup(s) PROVE Waiting' = Waiting
  <2>1. /\ s \in batch /\ batch' = batch \ {s} /\ item' = {s} /\ cpc = "next" /\ cpc' = "lookup"
        /\ chConfirm' = chConfirm
    BY <1>4 DEF LockLookup, environment
  <2> QED
    BY <2>1 DEF Waiting
<1>5. ASSUME NEW s \in Status, Count(s) PROVE Waiting' = Waiting
  <2>1. cpc = "count" /\ cpc' # "lookup" /\ UNCHANGED <<chConfirm, batch>>
    BY <1>5 DEF Count, Finish, environment
  <2> QED
    BY <2>1 DEF Waiting
<1>6. ASSUME NEW s \in Status, Lookup(s) PROVE s \in Waiting /\ Waiting' = Waiting \ {s}
  <2>1. s \in item /\ cpc = "lookup" /\ cpc' = "count" /\ UNCHANGED <<chConfirm, batch>>
    BY <1>6 DEF Lookup, environment
  <2>2. item = {s}
    BY <2>1 DEF PlaceInv
  <2>3. s \notin In(chConfirm) /\ s \notin batch
    BY <2>1 DEF PlaceInv
  <2> QED
    BY <2>1, <2>2, <2>3 DEF Waiting
<1>7. ASSUME NEW ms \in SUBSET Messages, NEW oks \in SUBSET Messages, Publish(ms, oks)
      PROVE  Waiting' = Waiting \cup Statuses(oks, TRUE) \cup Statuses(ms \ oks, FALSE)
  <2> DEFINE b == Statuses(oks, TRUE) \cup Statuses(ms \ oks, FALSE)
  <2>1. chConfirm' = Append(chConfirm, b) /\ UNCHANGED <<batch, item, cpc>>
    BY <1>7 DEF Publish, confirmer
  <2>2. b \in SUBSET Status
    <3>1. Statuses(oks, TRUE) \subseteq Status
      BY StatusesType
    <3>2. Statuses(ms \ oks, FALSE) \subseteq Status
      BY StatusesType
    <3> QED
      BY <3>1, <3>2
  <2>3. In(chConfirm') = In(chConfirm) \cup b
    <3> HIDE DEF b
    <3> QED
      BY <2>1, <2>2, <1>0, WrittenChannel
  <2> QED
    BY <2>1, <2>3 DEF Waiting
<1> QED
  BY <1>1, <1>2, <1>3, <1>4, <1>5, <1>6, <1>7

\* Every step keeps the invariant of the two maps.
LEMMA MapStep ==
  ASSUME TypeOK, PlaceInv, CurInv, CountInv, MapInv, [Next]_vars
  PROVE  MapInv'
<1> USE DEF loop, maps, confirmer, counters, environment
<1>0. /\ cur \subseteq Messages /\ unconfirmed \subseteq Messages
      /\ sendTimes \subseteq Messages /\ msgBytes \subseteq Messages
      /\ item \subseteq Status
      /\ produced \in [Messages -> Nat] /\ errors \in [Messages -> Nat]
  BY DEF TypeOK
<1>a. ASSUME UNCHANGED <<sendTimes, msgBytes, cur, unconfirmed, errors, produced, timed, sized>>,
             Undelivered' = Undelivered, pc' = "send" => pc = "send",
             cpc' = "count" => cpc = "count" /\ UNCHANGED <<item, found>>
      PROVE  MapInv'
  BY <1>a DEF MapInv, NoStrandedEntry, ProducedIsTimedAndSized
<1>b. ASSUME UNCHANGED <<chConfirm, batch, item, cpc>> PROVE Undelivered' = Undelivered
  BY <1>b DEF Undelivered
<1>c. ASSUME Waiting' = Waiting PROVE Undelivered' = Undelivered
  BY <1>c, WaitingStep
<1>1. CASE Connect \/ CreateProducer \/ LoopTop \/ Throttle \/ Close
  BY <1>1, <1>a, <1>b DEF Connect, CreateProducer, LoopTop, Throttle, Close, Goto
<1>2. CASE LockUndo \/ Cancel \/ Outage \/ Recover \/ UNCHANGED vars
  BY <1>2, <1>a, <1>b DEF LockUndo, Cancel, Outage, Recover, vars
<1>3. ASSUME NEW m \in Messages, Store(m) PROVE MapInv'
  BY <1>3, <1>a, <1>b DEF Store
<1>4. CASE Receive
  <2>1. Undelivered' = Undelivered
    BY <1>4, <1>c, WaitingStep
  <2> QED
    BY <1>4, <2>1, <1>a DEF Receive
<1>5. ASSUME NEW s \in Status, LockLookup(s) PROVE MapInv'
  <2>1. Undelivered' = Undelivered
    BY <1>5, <1>c, WaitingStep
  <2> QED
    BY <1>5, <2>1, <1>a DEF LockLookup
<1>6. ASSUME NEW m \in Messages, LockStore(m) PROVE MapInv'
  <2>1. /\ pc = "lock_store" /\ pc' = "store" /\ cur' = {m}
        /\ UNCHANGED <<sendTimes, msgBytes, unconfirmed, errors, produced, timed, sized,
                       cpc, item, found>>
        /\ Undelivered' = Undelivered
    BY <1>6, <1>b DEF LockStore
  <2>2. cur = {}
    BY <2>1 DEF CurInv
  <2> QED
    BY <2>1, <2>2 DEF MapInv, NoStrandedEntry, ProducedIsTimedAndSized
<1>7. CASE StoreEntry
  <2>1. /\ sendTimes' = sendTimes \cup cur /\ msgBytes' = msgBytes \cup cur
        /\ UNCHANGED <<cur, unconfirmed, errors, produced, timed, sized, cpc, item, found>>
        /\ Undelivered' = Undelivered
    BY <1>7, <1>b DEF StoreEntry
  <2> QED
    BY <2>1 DEF MapInv, NoStrandedEntry, ProducedIsTimedAndSized
<1>8. CASE SendAccepted
  <2>1. /\ pc = "send" /\ pc' = "loop" /\ cur' = {} /\ unconfirmed' = unconfirmed \cup cur
        /\ UNCHANGED <<sendTimes, msgBytes, errors, produced, timed, sized, cpc, item, found>>
        /\ Undelivered' = Undelivered
    BY <1>8, <1>b DEF SendAccepted
  <2> QED
    BY <2>1 DEF MapInv, NoStrandedEntry, ProducedIsTimedAndSized
<1>9. ASSUME NEW m \in Messages, SendRefused(m) PROVE MapInv'
  <2>1. /\ pc = "send" /\ pc' = "lock_undo" /\ m \in cur
        /\ errors' = [errors EXCEPT ![m] = @ + 1]
        /\ unconfirmed \subseteq unconfirmed' /\ unconfirmed' \subseteq unconfirmed \cup {m}
        /\ UNCHANGED <<cur, sendTimes, msgBytes, produced, timed, sized, cpc, item, found>>
        /\ Undelivered' = Undelivered
    BY <1>9, <1>b DEF SendRefused
  <2>2. \A k \in Messages : errors'[k] = 0 => errors[k] = 0 /\ k # m
    BY <2>1, <1>0
  <2>3. Undelivered \subseteq Messages
    BY <1>0, TypeOK, WaitingStep, AnswersInStatus DEF Status
  <2>4. \A k \in unconfirmed' \cup Undelivered' :
          errors'[k] = 0 => k \in sendTimes' /\ k \in msgBytes'
    BY <2>1, <2>2, <2>3, <1>0 DEF MapInv
  <2>5. cpc' = "count" => \A s \in item' : errors'[s.msg] = 0 => {"t", "sz"} \subseteq found'
    BY <2>1, <2>2, <1>0 DEF MapInv, Status
  <2>6. NoStrandedEntry'
    BY <2>1 DEF MapInv, NoStrandedEntry
  <2> QED
    BY <2>1, <2>4, <2>5, <2>6 DEF MapInv, ProducedIsTimedAndSized
<1>10. CASE UndoEntry
  <2>1. /\ pc = "undo" /\ pc' = "loop" /\ cur' = {}
        /\ sendTimes' = sendTimes \ cur /\ msgBytes' = msgBytes \ cur
        /\ UNCHANGED <<unconfirmed, errors, produced, timed, sized, cpc, item, found>>
        /\ Undelivered' = Undelivered
    BY <1>10, <1>b DEF UndoEntry
  <2>2. \A m \in cur : errors[m] # 0
    BY <2>1, <1>0 DEF CurInv
  <2> QED
    BY <2>1, <2>2 DEF MapInv, NoStrandedEntry, ProducedIsTimedAndSized
<1>11. ASSUME NEW ms \in SUBSET Messages, NEW oks \in SUBSET Messages, Publish(ms, oks)
       PROVE  MapInv'
  <2>1. /\ ms \subseteq unconfirmed /\ oks \subseteq ms /\ unconfirmed' = unconfirmed \ ms
        /\ UNCHANGED <<pc, cur, sendTimes, msgBytes, errors, produced, timed, sized, cpc, item, found>>
    BY <1>11 DEF Publish
  <2>2. Waiting' = Waiting \cup Statuses(oks, TRUE) \cup Statuses(ms \ oks, FALSE)
    BY <1>11, WaitingStep
  <2>3. /\ \A s \in Statuses(oks, TRUE) : s.msg \in oks
        /\ \A s \in Statuses(ms \ oks, FALSE) : s.msg \in ms \ oks
    BY StatusesOf, Zenon
  <2>4. ASSUME NEW m \in ms
        PROVE  \E s \in Statuses(oks, TRUE) \cup Statuses(ms \ oks, FALSE) : s.msg = m
    <3>1. CASE m \in oks
      <4>1. [msg |-> m, ok |-> TRUE] \in Statuses(oks, TRUE)
        BY <3>1, Zenon DEF Statuses
      <4>2. [msg |-> m, ok |-> TRUE].msg = m
        OBVIOUS
      <4> QED
        BY <4>1, <4>2, Zenon
    <3>2. CASE m \notin oks
      <4>1. [msg |-> m, ok |-> FALSE] \in Statuses(ms \ oks, FALSE)
        BY <3>2, Zenon DEF Statuses
      <4>2. [msg |-> m, ok |-> FALSE].msg = m
        OBVIOUS
      <4> QED
        BY <4>1, <4>2, Zenon
    <3> QED
      BY <3>1, <3>2
  <2>5. unconfirmed' \cup Undelivered' = unconfirmed \cup Undelivered
    <3>1. /\ Undelivered = {s.msg : s \in Waiting}
          /\ Undelivered' = {s.msg : s \in Waiting'}
      BY WaitingStep
    <3>2. \A m \in ms : m \in Undelivered'
      BY <3>1, <2>2, <2>4
    <3>3. Undelivered \subseteq Undelivered' /\ Undelivered' \subseteq Undelivered \cup ms
      BY <3>1, <2>1, <2>2, <2>3
    <3> QED
      BY <2>1, <3>2, <3>3
  <2> QED
    BY <2>1, <2>5 DEF MapInv, NoStrandedEntry, ProducedIsTimedAndSized
<1>12. ASSUME NEW s \in Status, Lookup(s) PROVE MapInv'
  <2> DEFINE m == s.msg
  <2>1. /\ s \in item
        /\ found' = (IF m \in sendTimes THEN {"t"} ELSE {})
                      \cup (IF m \in msgBytes THEN {"sz"} ELSE {})
        /\ sendTimes' = sendTimes \ {m} /\ msgBytes' = msgBytes \ {m}
        /\ UNCHANGED <<pc, cur, unconfirmed, errors, produced, timed, sized, item>>
    BY <1>12 DEF Lookup
  <2>2. s \in Waiting /\ Waiting' = Waiting \ {s} /\ s \in Answers
    BY <1>12, WaitingStep
  <2>3. m \in Undelivered /\ m \in Pending /\ m \notin unconfirmed
    <3>1. m \in Undelivered
      BY <2>2, WaitingStep
    <3>2. m \in Answered
      BY <2>2 DEF Answered
    <3> QED
      BY <3>1, <3>2 DEF Pending, PlaceInv
  <2>4. \A t \in Answers : t.msg = m => t = s
    BY <2>1 DEF PlaceInv, Answers
  <2>5. Undelivered' = Undelivered \ {m}
    BY <2>2, <2>4, WaitingStep
  <2>6. item = {s}
    BY <2>1 DEF PlaceInv
  <2>7. pc = "send" => m \notin cur
    BY <2>3 DEF CurInv
  <2>8. errors[m] = 0 => m \in sendTimes /\ m \in msgBytes
    BY <2>3 DEF MapInv
  <2> HIDE DEF m
  <2>9. NoStrandedEntry'
    BY <2>1, <2>3, <2>5 DEF MapInv, NoStrandedEntry
  <2>10. \A t \in item' : errors'[t.msg] = 0 => {"t", "sz"} \subseteq found'
    BY <2>1, <2>6, <2>8 DEF m
  <2> QED
    BY <2>1, <2>3, <2>5, <2>7, <2>9, <2>10 DEF MapInv, ProducedIsTimedAndSized
<1>13. ASSUME NEW s \in Status, Count(s) PROVE MapInv'
  <2> DEFINE m == s.msg
  <2>1. Undelivered' = Undelivered
    BY <1>13, <1>c, WaitingStep
  <2>2. UNCHANGED <<pc, cur, unconfirmed, sendTimes, msgBytes>>
    BY <1>13, Zenon DEF Count, Finish
  <2>3. cpc = "count" /\ cpc' # "count" /\ s \in item
    BY <1>13 DEF Count, Finish
  <2>4. m \in Messages /\ s \in Answers /\ m \in Pending
    BY <2>3 DEF Status, Answers, Answered, Pending
  <2>5. m \notin unconfirmed \cup Undelivered
    <3>1. m \notin unconfirmed
      BY <2>4 DEF PlaceInv, Answered
    <3>2. \A t \in Waiting : t.msg # m
      BY <2>3 DEF Waiting, PlaceInv
    <3> QED
      BY <3>1, <3>2, WaitingStep
  <2>6. /\ \A k \in Messages \ {m} : produced'[k] = produced[k] /\ errors'[k] = errors[k]
        /\ timed \subseteq timed' /\ sized \subseteq sized'
        /\ ~s.ok => produced'[m] = produced[m]
    BY <1>13, <2>4, <1>0 DEF Count, Finish
  <2>7. produced[m] = 0 /\ (s.ok => errors[m] = 0)
    BY <2>4 DEF CountInv
  <2>8. s.ok => m \in timed' /\ m \in sized'
    <3>1. s.ok => {"t", "sz"} \subseteq found
      BY <2>3, <2>7 DEF MapInv
    <3> QED
      BY <1>13, <3>1 DEF Count, Finish
  <2>9. Undelivered \subseteq Messages
    BY <1>0, TypeOK, WaitingStep, AnswersInStatus DEF Status
  <2> HIDE DEF m
  <2>10. NoStrandedEntry'
    BY <2>1, <2>2 DEF MapInv, NoStrandedEntry
  <2>11. ProducedIsTimedAndSized'
    BY <2>4, <2>6, <2>7, <2>8 DEF MapInv, ProducedIsTimedAndSized
  <2>12. \A k \in unconfirmed' \cup Undelivered' :
           errors'[k] = 0 => k \in sendTimes' /\ k \in msgBytes'
    BY <2>1, <2>2, <2>5, <2>6, <2>9, <1>0 DEF MapInv
  <2> QED
    BY <2>2, <2>3, <2>10, <2>11, <2>12 DEF MapInv
<1> QED
  BY <1>1, <1>2, <1>3, <1>4, <1>5, <1>6, <1>7, <1>8, <1>9, <1>10, <1>11, <1>12, <1>13
  DEF Next, LoopNext, ConfirmerNext, PublishSome

\* The invariant holds of every behaviour.
LEMMA Invariant == Spec => []Inv
<1>1. Init => Inv
  <2> SUFFICES ASSUME Init PROVE Inv
    OBVIOUS
  <2>1. In(chConfirm) = {} /\ Distinct(chConfirm)
    BY DEF Init, In, Distinct
  <2>2. Answers = {} /\ Pending = {} /\ Answered = {} /\ Undelivered = {}
    BY <2>1 DEF Init, Answers, Answered, Pending, Undelivered, In
  <2>3. PlaceInv /\ CurInv
    BY <2>1, <2>2 DEF Init, PlaceInv, CurInv
  <2>4. CountInv /\ MapInv
    BY <2>2 DEF Init, CountInv, MapInv, ProducedXorError, NoStrandedEntry, ProducedIsTimedAndSized
  <2> QED
    BY <2>3, <2>4 DEF Inv
<1>2. TypeOK /\ Inv /\ [Next]_vars => Inv'
  BY PlaceStep, CountStep, MapStep DEF Inv
<1> QED
  BY <1>1, <1>2, TypeCorrect, PTL DEF Spec

\* No message is counted both as produced and as an error, and produced at most
\* once, even when the client reports a refusal that Send has returned as well.
THEOREM CountedOneWay == Spec => []ProducedXorError
<1>1. Inv => ProducedXorError
  BY DEF Inv, CountInv
<1> QED
  BY <1>1, Invariant, PTL

\* The entries of sendTimes and msgBytes belong to the message in hand or to one
\* whose confirmation is still to come: neither map leaks.
THEOREM MapsDoNotLeak == Spec => []NoStrandedEntry
<1>1. Inv => NoStrandedEntry
  BY DEF Inv, MapInv
<1> QED
  BY <1>1, Invariant, PTL

\* Every message counted as produced had its latency observed and its size added:
\* no confirmation overtakes the entry stored before Send.
THEOREM NoConfirmationOvertakes == Spec => []ProducedIsTimedAndSized
<1>1. Inv => ProducedIsTimedAndSized
  BY DEF Inv, MapInv
<1> QED
  BY <1>1, Invariant, PTL
-----------------------------------------------------------------------------
(* Who waits for whom.  What each side can do is written out as the guards of *)
(* its actions.                                                              *)

\* run() has a step to take.
LoopCan == \/ pc \in {"create", "throttle", "store", "send", "undo", "closing"}
           \/ pc = "connect" /\ up
           \/ pc = "loop" /\ (ctxDone \/ Fresh # {})
           \/ pc = "lock_store" /\ mu = "free" /\ Fresh # {}
           \/ pc = "lock_undo" /\ mu = "free"

\* So has the confirmation goroutine.
ConfirmerCan == \/ cpc = "receive" /\ chConfirm # << >>
                \/ cpc = "next" /\ batch # {} /\ mu = "free"
                \/ cpc \in {"lookup", "count"} /\ item # {}

\* The client has a message to answer and room in the channel for the answer.
ClientCan == unconfirmed # {} /\ Len(chConfirm) < ConfirmSlots

\* A goroutine that has no step waits for one that has, or for the broker to
\* come up, or for ctx with nothing left to send; and a message that the client
\* owns, or whose answer is on its way, always has someone who can move it on: the
\* full channel, the mutex and the two goroutines never wait for each other.
NoMutualWaiting ==
    Running => /\ \/ LoopCan \/ ConfirmerCan
                  \/ pc = "connect" /\ ~up
                  \/ pc = "loop" /\ ~ctxDone /\ Fresh = {}
               /\ mu = "loop" => LoopCan
               /\ mu = "confirmer" => ConfirmerCan
               /\ Pending # {} => ConfirmerCan \/ ClientCan \/ (mu = "loop" /\ LoopCan)

\* What each place of the goroutines has in hand; no batch is empty.
HandInv == /\ pc \in {"throttle", "lock_store"} => Fresh # {}
           /\ cpc = "receive" => batch = {} /\ item = {}
           /\ cpc = "next" => batch # {} /\ item = {}
           /\ cpc \in {"lookup", "count"} => item # {}
           /\ \A i \in 1..Len(chConfirm) : chConfirm[i] # {}

\* Every step of the program and of the client keeps it.
LEMMA HandStep ==
  ASSUME TypeOK, HandInv, [Next]_vars
  PROVE  HandInv'
<1> USE DEF HandInv, loop, maps, confirmer, counters, environment, Fresh
<1>1. CASE Connect \/ CreateProducer \/ LoopTop \/ Throttle \/ Close
  BY <1>1 DEF Connect, CreateProducer, LoopTop, Throttle, Close, Goto
<1>2. ASSUME NEW m \in Messages, LockStore(m) \/ SendRefused(m) PROVE HandInv'
  BY <1>2 DEF LockStore, SendRefused
<1>3. CASE StoreEntry \/ SendAccepted \/ LockUndo \/ UndoEntry
  BY <1>3 DEF StoreEntry, SendAccepted, LockUndo, UndoEntry
<1>4. CASE Cancel \/ Outage \/ Recover \/ UNCHANGED vars
  BY <1>4 DEF Cancel, Outage, Recover, vars
<1>5. CASE Receive
  <2>1. chConfirm \in Seq(SUBSET Status) /\ chConfirm # << >>
    BY <1>5 DEF Receive, TypeOK
  <2>2. Head(chConfirm) = chConfirm[1] /\ 1 \in 1..Len(chConfirm)
    BY <2>1
  <2>3. \A i \in 1..Len(Tail(chConfirm)) : /\ i + 1 \in 1..Len(chConfirm)
                                           /\ Tail(chConfirm)[i] = chConfirm[i + 1]
    BY <2>1
  <2>4. \A i \in 1..Len(chConfirm') : chConfirm'[i] # {}
    BY <1>5, <2>3 DEF Receive
  <2>5. batch' # {} /\ item' = {} /\ cpc' = "next" /\ UNCHANGED loop
    BY <1>5, <2>2 DEF Receive
  <2> QED
    BY <2>4, <2>5
<1>6. ASSUME NEW s \in Status, LockLookup(s) PROVE HandInv'
  BY <1>6 DEF LockLookup
<1>7. ASSUME NEW s \in Status, Lookup(s) PROVE HandInv'
  BY <1>7 DEF Lookup
<1>8. ASSUME NEW s \in Status, Count(s) PROVE HandInv'
  <2>1. /\ item' = {} /\ cpc' = (IF batch = {} THEN "receive" ELSE "next")
        /\ UNCHANGED <<loop, batch, chConfirm>>
    BY <1>8, Zenon DEF Count, Finish
  <2> QED
    BY <2>1
<1>9. ASSUME NEW m \in Messages, Store(m) PROVE HandInv'
  BY <1>9 DEF Store
<1>10. ASSUME NEW ms \in SUBSET Messages, NEW oks \in SUBSET Messages, Publish(ms, oks)
       PROVE  HandInv'
  <2> DEFINE b == Statuses(oks, TRUE) \cup Statuses(ms \ oks, FALSE)
  <2>1. b # {}
    <3>1. PICK m \in ms : TRUE
      BY <1>10 DEF Publish
    <3>2. CASE m \in oks
      BY <3>2 DEF Statuses
    <3>3. CASE m \notin oks
      BY <3>1, <3>3 DEF Statuses
    <3> QED
      BY <3>2, <3>3
  <2>2. chConfirm' = Append(chConfirm, b) /\ UNCHANGED <<loop, cpc, batch, item>>
    BY <1>10 DEF Publish
  <2> HIDE DEF b
  <2>3. \A i \in 1..Len(chConfirm') : chConfirm'[i] # {}
    BY <2>1, <2>2 DEF TypeOK
  <2> QED
    BY <2>2, <2>3
<1> QED
  BY <1>1, <1>2, <1>3, <1>4, <1>5, <1>6, <1>7, <1>8, <1>9, <1>10
  DEF Next, LoopNext, ConfirmerNext, PublishSome

\* The guards that the two goroutines, the mutex and the channel wait on are never
\* all closed before run() has returned.
THEOREM NobodyWaitsInACircle == Spec => []NoMutualWaiting
<1>1. Init => HandInv
  BY DEF Init, HandInv
<1>2. TypeOK /\ MutexInv /\ HandInv => NoMutualWaiting
  <2> SUFFICES ASSUME TypeOK, MutexInv, HandInv, Running PROVE NoMutualWaiting
    BY DEF NoMutualWaiting
  <2>1. mu = "loop" => LoopCan
    BY DEF MutexInv, LoopCan
  <2>2. mu = "confirmer" => ConfirmerCan
    BY DEF MutexInv, HandInv, ConfirmerCan
  <2>3. mu \in {"free", "loop", "confirmer"} /\ pc \in PCs /\ cpc \in CPCs
    BY DEF TypeOK
  <2>4. \/ LoopCan \/ ConfirmerCan
        \/ pc = "connect" /\ ~up
        \/ pc = "loop" /\ ~ctxDone /\ Fresh = {}
    BY <2>1, <2>2, <2>3 DEF HandInv, LoopCan, Running, PCs
  <2>5. chConfirm # << >> => ConfirmerCan \/ (mu = "loop" /\ LoopCan)
    BY <2>1, <2>2, <2>3 DEF HandInv, ConfirmerCan, CPCs
  <2>6. batch \cup item # {} => ConfirmerCan \/ (mu = "loop" /\ LoopCan)
    BY <2>1, <2>2, <2>3 DEF HandInv, ConfirmerCan, CPCs
  <2>7. Pending # {} => unconfirmed # {} \/ chConfirm # << >> \/ batch \cup item # {}
    BY DEF Pending, Answered, Answers, In
  <2>8. unconfirmed # {} /\ chConfirm = << >> => ClientCan
    BY ConfirmSlotsAssumption DEF ClientCan
  <2> QED
    BY <2>1, <2>2, <2>4, <2>5, <2>6, <2>7, <2>8 DEF NoMutualWaiting
<1> QED
  BY <1>1, <1>2, HandStep, TypeCorrect, MutexHeld, PTL DEF Spec
-----------------------------------------------------------------------------
(* The ledger: an attempt enters the window under the mutex and leaves it by *)
(* the refusal of Send or by Count.                                          *)

\* The attempts that no counter has recorded, as the ledger sees them.
Open == {m \in attempted \cap Once : produced[m] + errors[m] = 0}

\* A step that counts for one message: it leaves the window by one counter.
LEMMA CountsLeave ==
  ASSUME TypeOK, NEW m \in Open, attempted' = attempted,
         \/ /\ produced' = [produced EXCEPT ![m] = @ + 1]
            /\ errors' = [errors EXCEPT ![m] = @ + 0]
         \/ /\ produced' = [produced EXCEPT ![m] = @ + 0]
            /\ errors' = [errors EXCEPT ![m] = @ + 1]
  PROVE  Ledger!CountProduced(m) \/ Ledger!CountError(m)
<1> DEFINE P == [k \in Once |-> produced[k]]
           E == [k \in Once |-> errors[k]]
<1>1. /\ produced \in [Messages -> Nat] /\ errors \in [Messages -> Nat]
      /\ m \in Once /\ Once \subseteq Messages
      /\ produced[m] + errors[m] = 0
  BY DEF TypeOK, Once, Open
<1>2. \A k \in Messages \ {m} : produced'[k] = produced[k] /\ errors'[k] = errors[k]
  BY <1>1
<1>3. Open' = Open \ {m}
  <2>1. produced'[m] + errors'[m] # 0
    BY <1>1
  <2> QED
    BY <1>1, <1>2, <2>1 DEF Open
<1>4. CASE produced' = [produced EXCEPT ![m] = @ + 1] /\ errors' = [errors EXCEPT ![m] = @ + 0]
  <2>1. \A k \in Once : /\ produced'[k] = IF k = m THEN produced[k] + 1 ELSE produced[k]
                        /\ errors'[k] = errors[k]
    BY <1>1, <1>2, <1>4
  <2>2. P' = [P EXCEPT ![m] = @ + 1] /\ E' = E
    BY <1>1, <2>1
  <2> QED
    BY <1>3, <2>2 DEF Ledger!CountProduced, Open
<1>5. CASE produced' = [produced EXCEPT ![m] = @ + 0] /\ errors' = [errors EXCEPT ![m] = @ + 1]
  <2>1. \A k \in Once : /\ produced'[k] = produced[k]
                        /\ errors'[k] = IF k = m THEN errors[k] + 1 ELSE errors[k]
    BY <1>1, <1>2, <1>5
  <2>2. P' = P /\ E' = [E EXCEPT ![m] = @ + 1]
    BY <1>1, <2>1
  <2> QED
    BY <1>3, <2>2 DEF Ledger!CountError, Open
<1> QED
  BY <1>4, <1>5

\* What is counted for the other messages does not show in the ledger.
LEMMA OtherMessage ==
  ASSUME TypeOK, NEW m \in Messages \ Once, attempted' = attempted, NEW p, NEW e,
         produced' = produced \/ produced' = [produced EXCEPT ![m] = p],
         errors' = errors \/ errors' = [errors EXCEPT ![m] = e]
  PROVE  UNCHANGED Ledger!vars
<1>1. \A k \in Once : k # m /\ produced'[k] = produced[k] /\ errors'[k] = errors[k]
  BY DEF TypeOK, Once
<1> QED
  BY <1>1 DEF Ledger!vars

\* For a finite set of messages (the ids are 128-bit UUIDs) the producer implements
\* the ledger for the messages whose refusal the client does not also report: each
\* leaves the window by one increment of one counter.
THEOREM ImplementsLedger == ASSUME IsFiniteSet(Messages) PROVE Spec => LedgerSpec
<1> USE DEF loop, maps, confirmer, counters, environment
<1>1. Init => Ledger!Init
  BY DEF Init, Ledger!Init, Once
<1>2. TypeOK /\ Inv /\ [Next]_vars => [Ledger!Next]_(Ledger!vars)
  <2> SUFFICES ASSUME TypeOK, Inv, [Next]_vars
               PROVE  Ledger!Next \/ UNCHANGED Ledger!vars
    OBVIOUS
  <2>0. /\ produced \in [Messages -> Nat] /\ errors \in [Messages -> Nat]
        /\ Once \subseteq Messages
    BY DEF TypeOK, Once
  <2>a. ASSUME UNCHANGED <<attempted, produced, errors>> PROVE UNCHANGED Ledger!vars
    BY <2>a DEF Ledger!vars
  <2>1. CASE Connect \/ CreateProducer \/ LoopTop \/ Throttle \/ Close
    BY <2>1, <2>a DEF Connect, CreateProducer, LoopTop, Throttle, Close, Goto
  <2>2. CASE StoreEntry \/ SendAccepted \/ LockUndo \/ UndoEntry \/ Cancel \/ Receive
    BY <2>2, <2>a DEF StoreEntry, SendAccepted, LockUndo, UndoEntry, Cancel, Receive
  <2>3. CASE Outage \/ Recover \/ PublishSome \/ UNCHANGED vars
    BY <2>3, <2>a DEF Outage, Recover, PublishSome, Publish, vars
  <2>4. CASE \E s \in Status : LockLookup(s) \/ Lookup(s)
    BY <2>4, <2>a DEF LockLookup, Lookup
  <2>5. CASE \E m \in Messages : Store(m)
    BY <2>5, <2>a DEF Store
  <2>6. ASSUME NEW m \in Messages, LockStore(m)
        PROVE  (\E k \in Once : Ledger!Attempt(k)) \/ UNCHANGED Ledger!vars
    <3>1. m \notin attempted /\ attempted' = attempted \cup {m} /\ UNCHANGED <<produced, errors>>
      BY <2>6 DEF LockStore, Fresh
    <3>2. produced[m] = 0 /\ errors[m] = 0
      BY <3>1 DEF Inv, CurInv
    <3>3. CASE m \notin Once
      BY <3>1, <3>3 DEF Ledger!vars
    <3>4. CASE m \in Once
      <4>1. Open' = Open \cup {m} /\ m \notin Open
        BY <3>1, <3>2, <3>4 DEF Open
      <4>2. Cardinality(Open) < Cardinality(Once)
        <5>1. IsFiniteSet(Once) /\ IsFiniteSet(Once \ {m})
          BY FS_Subset, FS_RemoveElement DEF Once
        <5>2. Cardinality(Once \ {m}) = Cardinality(Once) - 1
          BY <5>1, <3>4, FS_RemoveElement
        <5>3. Open \subseteq Once \ {m}
          BY <4>1 DEF Open
        <5>4. Cardinality(Open) <= Cardinality(Once \ {m})
          BY <5>1, <5>3, FS_Subset
        <5>5. Cardinality(Once) \in Nat /\ Cardinality(Open) \in Nat
          BY <5>1, <5>3, FS_Subset, FS_CardinalityType
        <5> QED
          BY <5>2, <5>4, <5>5
      <4>3. Ledger!Cardinality(Open) = Cardinality(Open)
        BY DEF Ledger!Cardinality, Cardinality
      <4>4. m \notin Ledger!Attempted
        BY <4>1, <3>2, <3>4 DEF Ledger!Attempted, Open
      <4>5. Ledger!Attempt(m)
        BY <3>1, <4>1, <4>2, <4>3, <4>4 DEF Ledger!Attempt, Open
      <4> QED
        BY <3>4, <4>5
    <3> QED
      BY <3>3, <3>4
  <2>7. ASSUME NEW m \in Messages, SendRefused(m)
        PROVE  Ledger!Next \/ UNCHANGED Ledger!vars
    <3>1. /\ pc = "send" /\ m \in cur /\ errors' = [errors EXCEPT ![m] = @ + 1]
          /\ UNCHANGED <<attempted, produced>>
      BY <2>7 DEF SendRefused
    <3>2. m \in attempted /\ produced[m] = 0 /\ errors[m] = 0
      BY <3>1 DEF Inv, CurInv
    <3>3. CASE m \notin Once
      BY <3>1, <3>3, <2>0, OtherMessage
    <3>4. CASE m \in Once
      <4>1. m \in Open
        BY <3>2, <3>4 DEF Open
      <4>2. produced' = [produced EXCEPT ![m] = @ + 0]
        BY <3>1, <2>0
      <4> QED
        BY <3>1, <3>4, <4>1, <4>2, CountsLeave DEF Ledger!Next
    <3> QED
      BY <3>3, <3>4
  <2>8. ASSUME NEW s \in Status, Count(s)
        PROVE  Ledger!Next \/ UNCHANGED Ledger!vars
    <3> DEFINE m == s.msg
    <3>1. /\ attempted' = attempted
          /\ \/ /\ produced' = [produced EXCEPT ![m] = @ + 1]
                /\ errors' = [errors EXCEPT ![m] = @ + 0]
             \/ /\ produced' = [produced EXCEPT ![m] = @ + 0]
                /\ errors' = [errors EXCEPT ![m] = @ + 1]
      BY <2>8, Zenon DEF Count, Finish
    <3>2. m \in Pending /\ m \in Messages
      BY <2>8, AnswersStep DEF Inv, Pending, Answered, Status
    <3>3. m \in attempted /\ (m \in Once => produced[m] = 0 /\ errors[m] = 0)
      BY <3>2 DEF Inv, CurInv, CountInv, Once
    <3> HIDE DEF m
    <3>4. CASE m \notin Once
      BY <3>1, <3>2, <3>4, <2>0, OtherMessage
    <3>5. CASE m \in Once
      <4>1. m \in Open
        BY <3>3, <3>5 DEF Open
      <4> QED
        BY <3>1, <3>5, <4>1, CountsLeave DEF Ledger!Next
    <3> QED
      BY <3>4, <3>5
  <2> QED
    BY <2>1, <2>2, <2>3, <2>4, <2>5, <2>6, <2>7, <2>8
    DEF Next, LoopNext, ConfirmerNext, Ledger!Next
<1> QED
  BY <1>1, <1>2, TypeCorrect, Invariant, PTL DEF Spec, LedgerSpec, Ledger!Spec
=============================================================================

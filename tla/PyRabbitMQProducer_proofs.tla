----------------------- MODULE PyRabbitMQProducer_proofs -----------------------
(***************************************************************************)
(* Proofs about PyRabbitMQProducer, for every set of messages and every    *)
(* MAX_IN_FLIGHT: the semaphore and the messages in flight add up, dropped *)
(* confirmations included, and the producer implements the ledger.  The    *)
(* inductive invariant adds that a message has been counted exactly if it  *)
(* is done.                                                                *)
(***************************************************************************)
EXTENDS PyRabbitMQProducer, FiniteSetTheorems, TLAPS

CountedOnce == \A m \in Messages :
                 produced[m] + errors[m] = (IF phase[m] = "done" THEN 1 ELSE 0)

\* The steps that touch neither a message nor a permit.
Control == \/ ConnectTop \/ Connected \/ ConnectFails \/ RetryConnect \/ LoopTop \/ Paced
           \/ SendReturns \/ Closed \/ Signal \/ Outage \/ Recover
           \/ (\E m \in Messages : Store(m))
           \/ UNCHANGED vars

\* A message moves on with its permit.
Moves(m) == Buffer(m) \/ Drop(m)

\* A message is counted and its permit given back.
Returns(m) == SendRaises(m) \/ OnConfirm(m)

\* Every step is of one of the four kinds.
LEMMA StepKinds ==
  ASSUME [Next]_vars
  PROVE  Control \/ \E m \in Messages : Acquire(m) \/ Moves(m) \/ Returns(m)
BY DEF Next, Control, Moves, Returns

\* A step of control touches neither permits, messages nor counters.
LEMMA ControlKeeps ==
  ASSUME Control
  PROVE  UNCHANGED <<permits, phase, produced, errors>>
BY DEF Control, ConnectTop, Connected, ConnectFails, RetryConnect, LoopTop, Paced, SendReturns,
       Closed, Goto, Signal, Outage, Recover, Store, program, vars

\* A message that moves on keeps its permit, and nothing is counted.
LEMMA MovesKeeps ==
  ASSUME TypeOK, NEW m \in Messages, Moves(m)
  PROVE  /\ Held' = Held /\ UNCHANGED <<permits, produced, errors>>
         /\ \E p \in {"buffered", "dropped"} : phase' = [phase EXCEPT ![m] = p]
         /\ phase[m] # "done"
BY DEF Moves, Buffer, Drop, program, Held, In, TypeOK, Phases

\* A message that is counted moves one counter and gives its permit back.
LEMMA ReturnsCounts ==
  ASSUME TypeOK, NEW m \in Messages, Returns(m)
  PROVE  /\ m \in Held /\ Held' = Held \ {m} /\ permits' = permits + 1
         /\ phase' = [phase EXCEPT ![m] = "done"]
         /\ \/ produced' = [produced EXCEPT ![m] = @ + 1] /\ UNCHANGED errors
            \/ errors' = [errors EXCEPT ![m] = @ + 1] /\ UNCHANGED produced
<1>1. Finish(m, 1, 0, 1) \/ Finish(m, 0, 1, 1)
  BY DEF Returns, SendRaises, OnConfirm
<1>2. phase[m] \in {"sending", "buffered"}
  BY DEF Returns, SendRaises, OnConfirm
<1>3. phase' = [phase EXCEPT ![m] = "done"] /\ permits' = permits + 1
  BY <1>1 DEF Finish
<1>4. m \in Held /\ Held' = Held \ {m}
  BY <1>2, <1>3 DEF TypeOK, Phases, Held, In
<1>5. ASSUME NEW f \in [Messages -> Nat] PROVE [f EXCEPT ![m] = @ + 0] = f
  <2>1. f[m] + 0 = f[m]
    OBVIOUS
  <2> QED
    BY <2>1
<1>6. \/ produced' = [produced EXCEPT ![m] = @ + 1] /\ UNCHANGED errors
      \/ errors' = [errors EXCEPT ![m] = @ + 1] /\ UNCHANGED produced
  BY <1>1, <1>5, Zenon DEF Finish, TypeOK
<1> QED
  BY <1>3, <1>4, <1>6

\* A message given to send() was fresh and takes one permit.
LEMMA AcquireTakes ==
  ASSUME TypeOK, NEW m \in Messages, Acquire(m)
  PROVE  /\ m \notin Held /\ Held' = Held \cup {m}
         /\ permits > 0 /\ permits' = permits - 1
         /\ phase[m] = "fresh" /\ phase' = [phase EXCEPT ![m] = "sending"]
         /\ UNCHANGED <<produced, errors>>
BY DEF Acquire, Fresh, TypeOK, Phases, Held, In
-----------------------------------------------------------------------------
\* Every variable of PyRabbitMQProducer keeps its type.
THEOREM TypeCorrect == Spec => []TypeOK
<1>1. Init => TypeOK
  <2> SUFFICES ASSUME Init PROVE TypeOK
    OBVIOUS
  <2>1. stop \in BOOLEAN /\ up \in BOOLEAN
    BY Zenon DEF Init
  <2>2. permits \in Nat
    BY MaxInFlightAssumption DEF Init
  <2> QED
    BY <2>1, <2>2 DEF Init, TypeOK, PCs, Phases
<1>2. TypeOK /\ [Next]_vars => TypeOK'
  <2> SUFFICES ASSUME TypeOK, [Next]_vars
               PROVE  TypeOK'
    OBVIOUS
  <2>1. ASSUME Control PROVE TypeOK'
    <3>1. UNCHANGED <<permits, phase, produced, errors>>
      BY <2>1, ControlKeeps
    <3>2. pc' \in PCs
      BY <2>1 DEF Control, ConnectTop, Connected, ConnectFails, RetryConnect, LoopTop, Paced,
                  SendReturns, Closed, Goto, Signal, Outage, Recover, Store, program, vars, PCs, TypeOK
    <3>3. stop' \in BOOLEAN /\ up' \in BOOLEAN
      BY <2>1, Zenon DEF Control, ConnectTop, Connected, ConnectFails, RetryConnect, LoopTop, Paced,
                  SendReturns, Closed, Goto, Signal, Outage, Recover, Store, program, broker, vars, TypeOK
    <3>4. persisted' \subseteq Messages
      BY <2>1 DEF Control, ConnectTop, Connected, ConnectFails, RetryConnect, LoopTop, Paced,
                  SendReturns, Closed, Goto, Signal, Outage, Recover, Store, program, broker, vars, TypeOK
    <3> QED
      BY <3>1, <3>2, <3>3, <3>4 DEF TypeOK
  <2>2. ASSUME NEW m \in Messages, Acquire(m) PROVE TypeOK'
    BY <2>2 DEF Acquire, broker, TypeOK, PCs, Phases
  <2>3. ASSUME NEW m \in Messages, Moves(m) PROVE TypeOK'
    BY <2>3 DEF Moves, Buffer, Drop, program, broker, TypeOK, Phases
  <2>4. ASSUME NEW m \in Messages, Returns(m) PROVE TypeOK'
    <3>1. pc' \in PCs /\ UNCHANGED <<stop, broker>>
      BY <2>4 DEF Returns, SendRaises, OnConfirm, Finish, TypeOK, PCs
    <3> QED
      BY <3>1, <2>4, ReturnsCounts DEF TypeOK, Phases, broker
  <2> QED
    BY <2>1, <2>2, <2>3, <2>4, StepKinds
<1> QED
  BY <1>1, <1>2, PTL DEF Spec

\* Permits are neither lost nor invented: the semaphore and the messages that
\* are sent, unconfirmed or never to be confirmed add up to MAX_IN_FLIGHT.
THEOREM PermitsConserved == Spec => []PermitConservation
<1>1. Init => PermitConservation
  <2> SUFFICES ASSUME Init PROVE PermitConservation
    OBVIOUS
  <2>1. Held = {}
    BY DEF Init, Held, In
  <2> QED
    BY <2>1, FS_EmptySet, MaxInFlightAssumption DEF Init, PermitConservation
<1>2. TypeOK /\ PermitConservation /\ [Next]_vars => PermitConservation'
  <2> SUFFICES ASSUME TypeOK, PermitConservation, [Next]_vars
               PROVE  PermitConservation'
    OBVIOUS
  <2> USE DEF PermitConservation
  <2>1. Cardinality(Held) \in Nat /\ permits \in Nat /\ MaxInFlight \in Nat
    BY FS_CardinalityType, MaxInFlightAssumption DEF TypeOK
  <2>2. CASE Control
    BY <2>2, ControlKeeps DEF Held, In
  <2>3. ASSUME NEW m \in Messages, Acquire(m) PROVE PermitConservation'
    <3>1. IsFiniteSet(Held') /\ Cardinality(Held') = Cardinality(Held) + 1
      BY <2>3, AcquireTakes, FS_AddElement
    <3> QED
      BY <2>1, <2>3, <3>1, AcquireTakes
  <2>4. ASSUME NEW m \in Messages, Moves(m) PROVE PermitConservation'
    BY <2>4, MovesKeeps
  <2>5. ASSUME NEW m \in Messages, Returns(m) PROVE PermitConservation'
    <3>1. IsFiniteSet(Held') /\ Cardinality(Held') = Cardinality(Held) - 1
      BY <2>5, ReturnsCounts, FS_RemoveElement
    <3> QED
      BY <2>1, <2>5, <3>1, ReturnsCounts
  <2> QED
    BY <2>2, <2>3, <2>4, <2>5, StepKinds
<1> QED
  BY <1>1, <1>2, TypeCorrect, PTL DEF Spec

\* A message has been counted, by one counter and once, exactly if it is done.
THEOREM EveryMessageCountedOnce == Spec => []CountedOnce
<1>1. Init => CountedOnce
  BY DEF Init, CountedOnce
<1>2. TypeOK /\ CountedOnce /\ [Next]_vars => CountedOnce'
  <2> SUFFICES ASSUME TypeOK, CountedOnce, [Next]_vars
               PROVE  CountedOnce'
    OBVIOUS
  <2> USE DEF TypeOK, CountedOnce, Phases
  <2>1. CASE Control
    BY <2>1, ControlKeeps
  <2>2. ASSUME NEW m \in Messages, Acquire(m) PROVE CountedOnce'
    BY <2>2, AcquireTakes
  <2>3. ASSUME NEW m \in Messages, Moves(m) PROVE CountedOnce'
    BY <2>3, MovesKeeps
  <2>4. ASSUME NEW m \in Messages, Returns(m) PROVE CountedOnce'
    <3>1. phase[m] # "done"
      BY <2>4, ReturnsCounts DEF Held, In
    <3> QED
      BY <2>4, <3>1, ReturnsCounts
  <2> QED
    BY <2>1, <2>2, <2>3, <2>4, StepKinds
<1> QED
  BY <1>1, <1>2, TypeCorrect, PTL DEF Spec

\* Only the coroutine that awaits send() has a message there, and only one.
SendInv == /\ \A m \in Messages : phase[m] = "sending" => pc = "sending"
           /\ \A m, n \in Messages : phase[m] = "sending" /\ phase[n] = "sending" => m = n

\* Each step keeps it.
LEMMA SendsOne == Spec => []SendInv
<1>1. Init => SendInv
  BY DEF Init, SendInv
<1>2. TypeOK /\ SendInv /\ [Next]_vars => SendInv'
  <2> SUFFICES ASSUME TypeOK, SendInv, [Next]_vars
               PROVE  SendInv'
    OBVIOUS
  <2> USE DEF TypeOK, SendInv, Phases, In
  <2>1. CASE ConnectTop \/ Connected \/ ConnectFails \/ RetryConnect \/ LoopTop \/ Paced
             \/ SendReturns \/ Closed
    BY <2>1 DEF ConnectTop, Connected, ConnectFails, RetryConnect, LoopTop, Paced,
                SendReturns, Closed, Goto
  <2>2. CASE Signal \/ Outage \/ Recover \/ UNCHANGED vars
    BY <2>2 DEF Signal, Outage, Recover, program, vars
  <2>3. ASSUME NEW m \in Messages, Acquire(m) PROVE SendInv'
    BY <2>3 DEF Acquire
  <2>4. ASSUME NEW m \in Messages, SendRaises(m) PROVE SendInv'
    BY <2>4 DEF SendRaises, Finish
  <2>5. ASSUME NEW m \in Messages, OnConfirm(m) PROVE SendInv'
    BY <2>5 DEF OnConfirm, Finish
  <2>6. ASSUME NEW m \in Messages, Buffer(m) \/ Store(m) \/ Drop(m) PROVE SendInv'
    BY <2>6 DEF Buffer, Store, Drop, program
  <2> QED
    BY <2>1, <2>2, <2>3, <2>4, <2>5, <2>6 DEF Next
<1> QED
  BY <1>1, <1>2, TypeCorrect, PTL DEF Spec

\* A send loop that is parked without a permit waits for MAX_IN_FLIGHT
\* confirmations; if none of them is still to come, that many have been lost.
ParkedByConfirmations ==
    pc = "acquiring" /\ permits = 0 =>
      /\ Cardinality(In({"buffered", "dropped"})) = MaxInFlight
      /\ In({"buffered"}) = {} => Cardinality(In({"dropped"})) = MaxInFlight

\* Nothing else keeps the loop from going on: a refused send, a confirmation in
\* any order and a signal all give back what they took, so fewer than
\* MAX_IN_FLIGHT lost confirmations never stop the producer.
THEOREM OnlyLostConfirmationsBlock == Spec => []ParkedByConfirmations
<1>1. TypeOK /\ PermitConservation /\ SendInv => ParkedByConfirmations
  <2> SUFFICES ASSUME TypeOK, PermitConservation, SendInv, pc = "acquiring", permits = 0
               PROVE  /\ Cardinality(In({"buffered", "dropped"})) = MaxInFlight
                      /\ In({"buffered"}) = {} => Cardinality(In({"dropped"})) = MaxInFlight
    BY DEF ParkedByConfirmations
  <2>1. Cardinality(Held) \in Nat
    BY FS_CardinalityType DEF PermitConservation
  <2>2. Cardinality(Held) = MaxInFlight
    BY <2>1, MaxInFlightAssumption DEF PermitConservation
  <2>3. Held = In({"buffered", "dropped"})
    BY DEF SendInv, Held, In
  <2>4. In({"buffered"}) = {} => Held = In({"dropped"})
    BY <2>3 DEF In
  <2> QED
    BY <2>2, <2>3, <2>4
<1> QED
  BY <1>1, TypeCorrect, PermitsConserved, SendsOne, PTL

\* The producer implements the ledger: every step is one of the ledger's, on
\* the set of permit holders, or changes nothing the ledger sees.
THEOREM ImplementsLedger == Spec => LedgerSpec
<1> DEFINE J == TypeOK /\ PermitConservation /\ CountedOnce
<1>1. Init => Ledger!Init
  BY DEF Init, Ledger!Init, Held, In
<1>2. J /\ [Next]_vars => [Ledger!Next]_(Ledger!vars)
  <2> SUFFICES ASSUME J, [Next]_vars
               PROVE  Ledger!Next \/ UNCHANGED Ledger!vars
    OBVIOUS
  <2>1. ASSUME Control PROVE UNCHANGED Ledger!vars
    BY <2>1, ControlKeeps DEF Ledger!vars, Held, In
  <2>2. ASSUME NEW m \in Messages, Acquire(m) PROVE Ledger!Attempt(m)
    <3>1. m \notin Ledger!Attempted
      BY <2>2, AcquireTakes DEF CountedOnce, TypeOK, Ledger!Attempted
    <3>2. Cardinality(Held) < MaxInFlight
      BY <2>2, AcquireTakes, FS_CardinalityType, MaxInFlightAssumption
      DEF PermitConservation, TypeOK
    <3>3. Ledger!Cardinality(Held) = Cardinality(Held)
      BY DEF Ledger!Cardinality, Cardinality
    <3> QED
      BY <2>2, <3>1, <3>2, <3>3, AcquireTakes DEF Ledger!Attempt
  <2>3. ASSUME NEW m \in Messages, Moves(m) PROVE UNCHANGED Ledger!vars
    BY <2>3, MovesKeeps DEF Ledger!vars
  <2>4. ASSUME NEW m \in Messages, Returns(m)
        PROVE  Ledger!CountProduced(m) \/ Ledger!CountError(m)
    BY <2>4, ReturnsCounts DEF Ledger!CountProduced, Ledger!CountError
  <2> QED
    BY <2>1, <2>2, <2>3, <2>4, StepKinds DEF Ledger!Next
<1> QED
  BY <1>1, <1>2, TypeCorrect, PermitsConserved, EveryMessageCountedOnce, PTL
  DEF Spec, LedgerSpec, Ledger!Spec
=============================================================================

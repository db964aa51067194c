----------------------- MODULE PyRedpandaProducer_proofs -----------------------
(***************************************************************************)
(* Proofs about PyRedpandaProducer, for every set of messages and every    *)
(* MAX_IN_FLIGHT.  The inductive invariants add to the properties what     *)
(* they lean on: at which program point a message may be inside send(),    *)
(* that an acknowledged record is stored, and that no record is in the     *)
(* client after run() returned.                                            *)
(***************************************************************************)
EXTENDS PyRedpandaProducer, FiniteSetTheorems, TLAPS

\* Only the coroutine that awaits send() has a message there, and only one.
SendInv == /\ \A m \in Messages : phase[m] = "sending" => pc = "sending"
           /\ \A m, n \in Messages : phase[m] = "sending" /\ phase[n] = "sending" => m = n

AckedIsPersisted == \A m \in Messages :
                      phase[m] = "acked" \/ produced[m] > 0 => m \in persisted

DrainedAtExit == pc = "exited" => \A m \in Messages : phase[m] \in {"fresh", "done"}
-----------------------------------------------------------------------------
\* Every variable of PyRedpandaProducer keeps its type.
THEOREM TypeCorrect == Spec => []TypeOK
<1>1. Init => TypeOK
  <2> SUFFICES ASSUME Init PROVE TypeOK
    OBVIOUS
  <2>1. stop \in BOOLEAN /\ up \in BOOLEAN
    BY Zenon DEF Init
  <2>2. permits \in Nat
    BY MaxInFlightAssumption DEF Init
  <2> QED
    BY <2>1, <2>2 DEF Init, TypeOK, PCs, Phases
<1>2. TypeOK /\ [Next]_vars => TypeOK'
  <2> SUFFICES ASSUME TypeOK, [Next]_vars
               PROVE  TypeOK'
    OBVIOUS
  <2> USE DEF TypeOK, PCs, Phases
  <2>1. CASE EnsureTopic
    BY <2>1 DEF EnsureTopic, Goto, broker
  <2>2. CASE StartProducer
    BY <2>2 DEF StartProducer, Goto, broker
  <2>3. CASE LoopTop
    BY <2>3 DEF LoopTop, Goto, broker
  <2>4. CASE Paced
    BY <2>4 DEF Paced, Goto, broker
  <2>5. CASE ProducerStopped
    BY <2>5 DEF ProducerStopped, Goto, broker
  <2>6. CASE Signal
    BY <2>6 DEF Signal, broker
  <2>7. ASSUME NEW m \in Messages, Acquire(m) PROVE TypeOK'
    BY <2>7 DEF Acquire, BeginSend, broker
  <2>8. ASSUME NEW m \in Messages, SendQueued(m) PROVE TypeOK'
    BY <2>8 DEF SendQueued, broker
  <2>9. ASSUME NEW m \in Messages, SendRaises(m) PROVE TypeOK'
    BY <2>9 DEF SendRaises, Finish, broker
  <2>10. ASSUME NEW m \in Messages, OnAck(m) PROVE TypeOK'
    BY <2>10 DEF OnAck, Alive, Finish, broker
  <2>11. ASSUME NEW m \in Messages, Persist(m) PROVE TypeOK'
    BY <2>11 DEF Persist, program, broker
  <2>12. ASSUME NEW m \in Messages, ResolveOk(m) PROVE TypeOK'
    BY <2>12 DEF ResolveOk, program, broker
  <2>13. ASSUME NEW m \in Messages, ResolveErr(m) PROVE TypeOK'
    BY <2>13 DEF ResolveErr, program, broker
  <2>14. CASE Outage
    BY <2>14 DEF Outage, program, broker
  <2>15. CASE Recover
    BY <2>15 DEF Recover, program, broker
  <2>16. CASE UNCHANGED vars
    BY <2>16 DEF vars, program, broker
  <2> QED
    BY <2>1, <2>2, <2>3, <2>4, <2>5, <2>6, <2>7, <2>8, <2>9, <2>10, <2>11,
       <2>12, <2>13, <2>14, <2>15, <2>16 DEF Next
<1> QED
  BY <1>1, <1>2, PTL DEF Spec
-----------------------------------------------------------------------------
(* The set of permit holders and the semaphore. *)

\* Taking a permit: a fresh message joins the holders.
LEMMA HeldGrows ==
  ASSUME TypeOK, NEW m \in Messages, phase[m] = "fresh",
         phase' = [phase EXCEPT ![m] = "sending"]
  PROVE  m \notin Held /\ Held' = Held \cup {m}
BY DEF TypeOK, Phases, Held, In

\* Giving a permit back: a holder leaves.
LEMMA HeldShrinks ==
  ASSUME TypeOK, NEW m \in Messages, phase[m] \in {"sending", "acked", "failed"},
         phase' = [phase EXCEPT ![m] = "done"]
  PROVE  m \in Held /\ Held' = Held \ {m}
BY DEF TypeOK, Phases, Held, In

\* A holder that moves on without its permit changing hands.
LEMMA HeldStays ==
  ASSUME TypeOK, NEW m \in Messages, NEW p \in {"queued", "acked", "failed"},
         phase[m] \in {"sending", "queued"},
         phase' = [phase EXCEPT ![m] = p]
  PROVE  Held' = Held
BY DEF TypeOK, Phases, Held, In

\* One permit less, one holder more.
LEMMA PermitTaken ==
  ASSUME PermitConservation, NEW m, m \notin Held, Held' = Held \cup {m},
         permits \in Nat, permits > 0, permits' = permits - 1
  PROVE  PermitConservation'
<1>1. IsFiniteSet(Held') /\ Cardinality(Held') = Cardinality(Held) + 1
  BY FS_AddElement DEF PermitConservation
<1>2. Cardinality(Held) \in Nat
  BY FS_CardinalityType DEF PermitConservation
<1> QED
  BY <1>1, <1>2, MaxInFlightAssumption DEF PermitConservation

\* One permit more, one holder less.
LEMMA PermitReturned ==
  ASSUME PermitConservation, NEW m, m \in Held, Held' = Held \ {m},
         permits \in Nat, permits' = permits + 1
  PROVE  PermitConservation'
<1>1. IsFiniteSet(Held') /\ Cardinality(Held') = Cardinality(Held) - 1
  BY FS_RemoveElement DEF PermitConservation
<1>2. Cardinality(Held) \in Nat
  BY FS_CardinalityType DEF PermitConservation
<1> QED
  BY <1>1, <1>2, MaxInFlightAssumption DEF PermitConservation

\* Permits are neither lost nor invented: the semaphore and the messages in
\* flight always add up to MAX_IN_FLIGHT.
THEOREM PermitsConserved == Spec => []PermitConservation
<1>1. Init => PermitConservation
  <2> SUFFICES ASSUME Init PROVE PermitConservation
    OBVIOUS
  <2>1. Held = {}
    BY DEF Init, Held, In
  <2> QED
    BY <2>1, FS_EmptySet, MaxInFlightAssumption DEF Init, PermitConservation
<1>2. TypeOK /\ PermitConservation /\ [Next]_vars => PermitConservation'
  <2> SUFFICES ASSUME TypeOK, PermitConservation, [Next]_vars
               PROVE  PermitConservation'
    OBVIOUS
  <2>1. ASSUME UNCHANGED <<permits, phase>> PROVE PermitConservation'
    BY <2>1 DEF PermitConservation, Held, In
  <2>2. ASSUME NEW m \in Messages, Acquire(m) PROVE PermitConservation'
    BY <2>2, HeldGrows, PermitTaken DEF Acquire, BeginSend, broker, Fresh, In, TypeOK
  <2>3. ASSUME NEW m \in Messages, SendQueued(m) PROVE PermitConservation'
    BY <2>3, HeldStays DEF SendQueued, broker, PermitConservation
  <2>4. ASSUME NEW m \in Messages, SendRaises(m) PROVE PermitConservation'
    BY <2>4, HeldShrinks, PermitReturned DEF SendRaises, Finish, broker, TypeOK
  <2>5. ASSUME NEW m \in Messages, OnAck(m) PROVE PermitConservation'
    BY <2>5, HeldShrinks, PermitReturned DEF OnAck, Alive, Finish, broker, TypeOK
  <2>6. ASSUME NEW m \in Messages, ResolveOk(m) PROVE PermitConservation'
    BY <2>6, HeldStays DEF ResolveOk, program, broker, PermitConservation
  <2>7. ASSUME NEW m \in Messages, ResolveErr(m) PROVE PermitConservation'
    BY <2>7, HeldStays DEF ResolveErr, program, broker, PermitConservation
  <2>8. ASSUME NEW m \in Messages, Persist(m) PROVE PermitConservation'
    BY <2>1, <2>8 DEF Persist, program, broker
  <2>9. CASE EnsureTopic \/ StartProducer \/ LoopTop \/ Paced \/ ProducerStopped
    BY <2>1, <2>9 DEF EnsureTopic, StartProducer, LoopTop, Paced, ProducerStopped, Goto, broker
  <2>10. CASE Signal \/ Outage \/ Recover \/ UNCHANGED vars
    BY <2>1, <2>10 DEF Signal, Outage, Recover, program, broker, vars
  <2> QED
    BY <2>2, <2>3, <2>4, <2>5, <2>6, <2>7, <2>8, <2>9, <2>10 DEF Next
<1> QED
  BY <1>1, <1>2, TypeCorrect, PTL DEF Spec

\* At most MAX_IN_FLIGHT records are unanswered at any time, for every
\* MAX_IN_FLIGHT and however long the broker stays silent.
THEOREM InFlightIsBounded == Spec => []InFlightBounded
<1>1. TypeOK /\ PermitConservation => InFlightBounded
  <2> SUFFICES ASSUME TypeOK, PermitConservation PROVE InFlightBounded
    OBVIOUS
  <2>1. Unacked \subseteq Held
    BY DEF Unacked, Held, In
  <2>2. Cardinality(Unacked) <= Cardinality(Held) /\ Cardinality(Unacked) \in Nat
    BY <2>1, FS_Subset, FS_CardinalityType DEF PermitConservation
  <2>3. Cardinality(Held) \in Nat
    BY FS_CardinalityType DEF PermitConservation
  <2> QED
    BY <2>2, <2>3, MaxInFlightAssumption
    DEF PermitConservation, InFlightBounded, TypeOK
<1> QED
  BY <1>1, TypeCorrect, PermitsConserved, PTL
-----------------------------------------------------------------------------
\* What a message's phase says: who is in send(), what is stored, what exit means.
LEMMA PhasesInvariant == Spec => [](SendInv /\ AckedIsPersisted /\ DrainedAtExit)
<1> DEFINE J == SendInv /\ AckedIsPersisted /\ DrainedAtExit
<1> USE DEF SendInv, AckedIsPersisted, DrainedAtExit
<1>1. Init => J
  BY DEF Init
<1>2. TypeOK /\ J /\ [Next]_vars => J'
  <2> SUFFICES ASSUME TypeOK, J, [Next]_vars
               PROVE  J'
    OBVIOUS
  <2> USE DEF TypeOK, Phases
  <2>1. CASE EnsureTopic
    BY <2>1 DEF EnsureTopic, Goto, broker
  <2>2. CASE StartProducer
    BY <2>2 DEF StartProducer, Goto, broker
  <2>3. CASE LoopTop
    BY <2>3 DEF LoopTop, Goto, broker
  <2>4. CASE Paced
    BY <2>4 DEF Paced, Goto, broker
  <2>5. CASE ProducerStopped
    BY <2>5 DEF ProducerStopped, Goto, broker, In
  <2>6. CASE Signal
    BY <2>6 DEF Signal, broker
  <2>7. ASSUME NEW m \in Messages, Acquire(m) PROVE J'
    BY <2>7 DEF Acquire, BeginSend, broker
  <2>8. ASSUME NEW m \in Messages, SendQueued(m) PROVE J'
    BY <2>8 DEF SendQueued, broker
  <2>9. ASSUME NEW m \in Messages, SendRaises(m) PROVE J'
    BY <2>9 DEF SendRaises, Finish, broker
  <2>10. ASSUME NEW m \in Messages, OnAck(m) PROVE J'
    BY <2>10 DEF OnAck, Alive, Finish, broker
  <2>11. ASSUME NEW m \in Messages, Persist(m) PROVE J'
    BY <2>11 DEF Persist, program, broker
  <2>12. ASSUME NEW m \in Messages, ResolveOk(m) PROVE J'
    BY <2>12 DEF ResolveOk, program, broker
  <2>13. ASSUME NEW m \in Messages, ResolveErr(m) PROVE J'
    BY <2>13 DEF ResolveErr, program, broker
  <2>14. CASE Outage \/ Recover \/ UNCHANGED vars
    BY <2>14 DEF Outage, Recover, program, broker, vars
  <2> QED
    BY <2>1, <2>2, <2>3, <2>4, <2>5, <2>6, <2>7, <2>8, <2>9, <2>10, <2>11,
       <2>12, <2>13, <2>14 DEF Next
<1> QED
  BY <1>1, <1>2, TypeCorrect, PTL DEF Spec

\* A send loop that is parked without a permit waits for MAX_IN_FLIGHT records
\* whose future is pending or whose on_ack is scheduled.
ParkedByAcks ==
    pc = "acquiring" /\ permits = 0 =>
      Cardinality(In({"queued", "acked", "failed"})) = MaxInFlight

\* Nothing else keeps the loop from going on: every missing permit belongs to a
\* record that on_ack has still to see.
THEOREM OnlyAcksBlock == Spec => []ParkedByAcks
<1>1. TypeOK /\ PermitConservation /\ SendInv => ParkedByAcks
  <2> SUFFICES ASSUME TypeOK, PermitConservation, SendInv, pc = "acquiring", permits = 0
               PROVE  Cardinality(In({"queued", "acked", "failed"})) = MaxInFlight
    BY DEF ParkedByAcks
  <2>1. Cardinality(Held) \in Nat
    BY FS_CardinalityType DEF PermitConservation
  <2>2. Cardinality(Held) = MaxInFlight
    BY <2>1, MaxInFlightAssumption DEF PermitConservation
  <2>3. Held = In({"queued", "acked", "failed"})
    BY DEF SendInv, Held, In
  <2> QED
    BY <2>2, <2>3
<1> QED
  BY <1>1, TypeCorrect, PermitsConserved, PhasesInvariant, PTL

\* messages_produced only ever counts records that the broker has stored.
THEOREM ProducedArePersisted == Spec => []ProducedIsPersisted
<1>1. AckedIsPersisted => ProducedIsPersisted
  BY DEF AckedIsPersisted, ProducedIsPersisted
<1> QED
  BY <1>1, PhasesInvariant, PTL

\* Every message moves exactly one counter, exactly once.
THEOREM EveryMessageCountedOnce == Spec => []CountedOnce
<1>1. Init => CountedOnce
  BY DEF Init, CountedOnce
<1>2. TypeOK /\ CountedOnce /\ [Next]_vars => CountedOnce'
  <2> SUFFICES ASSUME TypeOK, CountedOnce, [Next]_vars
               PROVE  CountedOnce'
    OBVIOUS
  <2> USE DEF TypeOK, CountedOnce, Phases
  <2>1. ASSUME UNCHANGED <<phase, produced, errors>> PROVE CountedOnce'
    BY <2>1
  <2>2. ASSUME NEW m \in Messages, Acquire(m) PROVE CountedOnce'
    BY <2>2 DEF Acquire, BeginSend, broker, Fresh, In
  <2>3. ASSUME NEW m \in Messages, SendQueued(m) PROVE CountedOnce'
    BY <2>3 DEF SendQueued, broker
  <2>4. ASSUME NEW m \in Messages, SendRaises(m) PROVE CountedOnce'
    BY <2>4 DEF SendRaises, Finish, broker
  <2>5. ASSUME NEW m \in Messages, OnAck(m) PROVE CountedOnce'
    BY <2>5 DEF OnAck, Alive, Finish, broker
  <2>6. ASSUME NEW m \in Messages, ResolveOk(m) \/ ResolveErr(m) PROVE CountedOnce'
    BY <2>6 DEF ResolveOk, ResolveErr, program, broker
  <2>7. ASSUME NEW m \in Messages, Persist(m) PROVE CountedOnce'
    BY <2>1, <2>7 DEF Persist, program, broker
  <2>8. CASE EnsureTopic \/ StartProducer \/ LoopTop \/ Paced \/ ProducerStopped
    BY <2>1, <2>8 DEF EnsureTopic, StartProducer, LoopTop, Paced, ProducerStopped, Goto, broker
  <2>9. CASE Signal \/ Outage \/ Recover \/ UNCHANGED vars
    BY <2>1, <2>9 DEF Signal, Outage, Recover, program, broker, vars
  <2> QED
    BY <2>2, <2>3, <2>4, <2>5, <2>6, <2>7, <2>8, <2>9 DEF Next
<1> QED
  BY <1>1, <1>2, TypeCorrect, PTL DEF Spec

\* When run() has returned, every message that was handed to send() has been
\* counted: the final acks are not lost.
THEOREM FinalAcksAreCounted == Spec => []FinalAcksCounted
<1>1. DrainedAtExit /\ CountedOnce => FinalAcksCounted
  BY DEF DrainedAtExit, CountedOnce, FinalAcksCounted
<1> QED
  BY <1>1, PhasesInvariant, EveryMessageCountedOnce, PTL
-----------------------------------------------------------------------------
\* What Finish does for one counter and no other.
LEMMA FinishCounts ==
  ASSUME TypeOK, NEW m \in Messages, NEW r
  PROVE  /\ Finish(m, 1, 0, r) => /\ produced' = [produced EXCEPT ![m] = @ + 1]
                                  /\ UNCHANGED errors
         /\ Finish(m, 0, 1, r) => /\ errors' = [errors EXCEPT ![m] = @ + 1]
                                  /\ UNCHANGED produced
<1>1. ASSUME NEW f \in [Messages -> Nat] PROVE [f EXCEPT ![m] = @ + 0] = f
  <2>1. f[m] + 0 = f[m]
    OBVIOUS
  <2> QED
    BY <2>1
<1> QED
  BY <1>1, Zenon DEF Finish, TypeOK

\* The producer implements the ledger: every step is one of the ledger's, on
\* the set of permit holders, or changes nothing the ledger sees.
THEOREM ImplementsLedger == Spec => LedgerSpec
<1> DEFINE J == TypeOK /\ PermitConservation /\ CountedOnce
<1>1. Init => Ledger!Init
  BY DEF Init, Ledger!Init, Held, In
<1>2. J /\ [Next]_vars => [Ledger!Next]_(Ledger!vars)
  <2> SUFFICES ASSUME J, [Next]_vars
               PROVE  [Ledger!Next]_(Ledger!vars)
    OBVIOUS
  <2>1. ASSUME UNCHANGED <<phase, produced, errors>> PROVE UNCHANGED Ledger!vars
    BY <2>1 DEF Ledger!vars, Held, In
  <2>2. ASSUME NEW m \in Messages, Acquire(m) PROVE Ledger!Attempt(m)
    <3>1. m \notin Held /\ Held' = Held \cup {m}
      BY <2>2, HeldGrows DEF Acquire, BeginSend, broker, Fresh, In
    <3>2. m \notin Ledger!Attempted
      BY <2>2, <3>1 DEF Acquire, BeginSend, broker, Fresh, In, CountedOnce, TypeOK, Ledger!Attempted
    <3>3. Cardinality(Held) < MaxInFlight
      BY <2>2, FS_CardinalityType, MaxInFlightAssumption
      DEF Acquire, BeginSend, broker, PermitConservation, TypeOK
    <3>4. Ledger!Cardinality(Held) = Cardinality(Held)
      BY DEF Ledger!Cardinality, Cardinality
    <3> QED
      BY <2>2, <3>1, <3>2, <3>3, <3>4 DEF Acquire, BeginSend, broker, Ledger!Attempt
  <2>3. ASSUME NEW m \in Messages, SendQueued(m) \/ ResolveOk(m) \/ ResolveErr(m)
        PROVE  UNCHANGED Ledger!vars
    BY <2>3, HeldStays DEF SendQueued, broker, ResolveOk, ResolveErr, program, broker, Ledger!vars
  <2>4. ASSUME NEW m \in Messages, SendRaises(m) PROVE Ledger!CountError(m)
    <3>1. m \in Held /\ Held' = Held \ {m}
      BY <2>4, HeldShrinks DEF SendRaises, Finish
    <3> QED
      BY <2>4, <3>1, FinishCounts DEF SendRaises, Ledger!CountError
  <2>5. ASSUME NEW m \in Messages, OnAck(m)
        PROVE  Ledger!CountProduced(m) \/ Ledger!CountError(m)
    <3>1. m \in Held /\ Held' = Held \ {m}
      BY <2>5, HeldShrinks DEF OnAck, Finish
    <3> QED
      BY <2>5, <3>1, FinishCounts DEF OnAck, Ledger!CountProduced, Ledger!CountError
  <2>6. ASSUME NEW m \in Messages, Persist(m) PROVE UNCHANGED Ledger!vars
    BY <2>1, <2>6 DEF Persist, program, broker
  <2>7. CASE EnsureTopic \/ StartProducer \/ LoopTop \/ Paced \/ ProducerStopped
    BY <2>1, <2>7 DEF EnsureTopic, StartProducer, LoopTop, Paced, ProducerStopped, Goto, broker
  <2>8. CASE Signal \/ Outage \/ Recover \/ UNCHANGED vars
    BY <2>1, <2>8 DEF Signal, Outage, Recover, program, broker, vars
  <2> QED
    BY <2>2, <2>3, <2>4, <2>5, <2>6, <2>7, <2>8 DEF Next, Ledger!Next
<1> QED
  BY <1>1, <1>2, TypeCorrect, PermitsConserved, EveryMessageCountedOnce, PTL
  DEF Spec, LedgerSpec, Ledger!Spec
=============================================================================

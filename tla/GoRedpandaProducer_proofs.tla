----------------------- MODULE GoRedpandaProducer_proofs -----------------------
(***************************************************************************)
(* Proofs about GoRedpandaProducer, for every set of messages and every    *)
(* size of the client's buffer: the producer implements the ledger.  The   *)
(* inductive invariant says where the record in Produce is, that the       *)
(* buffer is never overfull, and that a record which is still on its way   *)
(* or was never sent has moved no counter.                                 *)
(***************************************************************************)
EXTENDS GoRedpandaProducer, FiniteSetTheorems, TLAPS

CurInv == IF pc = "produce" THEN \E m \in Messages : cur = {m} ELSE cur = {}

BufferInv == /\ IsFiniteSet(buffered)
             /\ Cardinality(buffered) <= MaxBuffered
             /\ buffered \cap cur = {}

CountInv == \A m \in Messages :
              /\ m \notin sent => m \notin buffered \cup cur
              /\ m \notin sent \/ m \in buffered \cup cur => produced[m] = 0 /\ errors[m] = 0

Inv == TypeOK /\ CurInv /\ BufferInv /\ CountInv
-----------------------------------------------------------------------------
\* The steps that touch neither a record nor a counter.
Control == \/ Create \/ LoopTop \/ (ctxDone /\ Goto("throttle", "closing")) \/ Close
           \/ Cancel \/ (\E m \in Messages : Store(m)) \/ Outage \/ Recover \/ UNCHANGED vars

\* The loop takes the next record.
Take(m) == /\ pc = "throttle"
           /\ m \in Fresh
           /\ cur' = {m} /\ sent' = sent \cup {m}
           /\ pc' = "produce"
           /\ UNCHANGED <<ctxDone, buffered, counters, broker>>

\* Every step is of one of these kinds.
LEMMA StepKinds ==
  ASSUME [Next]_vars
  PROVE  \/ Control \/ Buffer
         \/ \E m \in Messages : Take(m) \/ ProduceCancelled(m) \/ AckOk(m) \/ AckErr(m)
<1>1. ASSUME Throttle
      PROVE  (ctxDone /\ Goto("throttle", "closing")) \/ \E m \in Messages : Take(m)
  BY <1>1 DEF Throttle, Take, Fresh
<1> QED
  BY <1>1 DEF Next, Control

\* A step of control moves no record and no counter.
LEMMA ControlKeeps ==
  ASSUME Control
  PROVE  UNCHANGED <<cur, buffered, sent, produced, errors>>
BY DEF Control, Create, LoopTop, Close, Goto, Cancel, Store, Outage, Recover, counters, broker, vars

\* What a callback does to the buffer and the counters.
LEMMA CallbackCounts ==
  ASSUME TypeOK, NEW m \in Messages, AckOk(m) \/ AckErr(m)
  PROVE  /\ m \in buffered /\ buffered' = buffered \ {m}
         /\ UNCHANGED <<pc, ctxDone, cur, sent, broker>>
         /\ \/ produced' = [produced EXCEPT ![m] = @ + 1] /\ UNCHANGED errors
            \/ errors' = [errors EXCEPT ![m] = @ + 1] /\ UNCHANGED produced
<1>1. Callback(m, 1, 0) \/ Callback(m, 0, 1)
  BY DEF AckOk, AckErr
<1>2. ASSUME NEW f \in [Messages -> Nat] PROVE [f EXCEPT ![m] = @ + 0] = f
  <2>1. f[m] + 0 = f[m]
    OBVIOUS
  <2> QED
    BY <2>1
<1>3. \/ produced' = [produced EXCEPT ![m] = @ + 1] /\ UNCHANGED errors
      \/ errors' = [errors EXCEPT ![m] = @ + 1] /\ UNCHANGED produced
  BY <1>1, <1>2, Zenon DEF Callback, TypeOK
<1>4. /\ m \in buffered /\ buffered' = buffered \ {m}
      /\ UNCHANGED <<pc, ctxDone, cur, sent, broker>>
  BY <1>1 DEF Callback
<1> QED
  BY <1>3, <1>4

\* A step keeps every variable in its type.
LEMMA TypeStep ==
  ASSUME TypeOK, [Next]_vars
  PROVE  TypeOK'
<1>1. CASE Control
  <2>1. UNCHANGED <<cur, buffered, sent, produced, errors>>
    BY <1>1, ControlKeeps
  <2>2. pc' \in PCs
    BY <1>1 DEF Control, Create, LoopTop, Close, Goto, Cancel, Store, Outage, Recover, vars, TypeOK, PCs
  <2>3. ctxDone' \in BOOLEAN /\ up' \in BOOLEAN
    BY <1>1, Zenon DEF Control, Create, LoopTop, Close, Goto, Cancel, Store, Outage, Recover, broker,
                vars, TypeOK
  <2>4. persisted' \subseteq Messages
    BY <1>1 DEF Control, Create, LoopTop, Close, Goto, Cancel, Store, Outage, Recover, broker,
                vars, TypeOK
  <2> QED
    BY <2>1, <2>2, <2>3, <2>4 DEF TypeOK
<1>2. CASE Buffer
  BY <1>2 DEF Buffer, counters, broker, TypeOK, PCs
<1>3. ASSUME NEW m \in Messages, Take(m) PROVE TypeOK'
  BY <1>3 DEF Take, Fresh, counters, broker, TypeOK, PCs
<1>4. ASSUME NEW m \in Messages, ProduceCancelled(m) PROVE TypeOK'
  BY <1>4 DEF ProduceCancelled, TypeOK, PCs
<1>5. ASSUME NEW m \in Messages, AckOk(m) \/ AckErr(m) PROVE TypeOK'
  BY <1>5, CallbackCounts DEF broker, TypeOK
<1> QED
  BY <1>1, <1>2, <1>3, <1>4, <1>5, StepKinds

\* A step keeps the record in Produce out of the buffer, the buffer within its
\* size, and what is on its way uncounted.
LEMMA InvStep ==
  ASSUME Inv, [Next]_vars
  PROVE  CurInv' /\ BufferInv' /\ CountInv'
<1> USE DEF Inv
<1>1. CASE Control
  <2>1. UNCHANGED <<cur, buffered, sent, produced, errors>>
    BY <1>1, ControlKeeps
  <2>2. pc' = pc \/ (pc # "produce" /\ pc' # "produce")
    BY <1>1 DEF Control, Create, LoopTop, Close, Goto, Cancel, Store, Outage, Recover, vars
  <2> QED
    BY <2>1, <2>2 DEF CurInv, BufferInv, CountInv
<1>2. CASE Buffer
  <2>1. PICK m \in Messages : cur = {m}
    BY <1>2 DEF Buffer, CurInv
  <2>2. /\ buffered' = buffered \cup {m} /\ cur' = {} /\ pc' = "loop"
        /\ Cardinality(buffered) < MaxBuffered
        /\ UNCHANGED <<sent, produced, errors>>
    BY <1>2, <2>1 DEF Buffer, counters
  <2>3. /\ IsFiniteSet(buffered')
        /\ Cardinality(buffered') = Cardinality(buffered) + 1
    BY <2>1, <2>2, FS_AddElement DEF BufferInv
  <2>4. BufferInv'
    BY <2>2, <2>3, FS_CardinalityType, MaxBufferedAssumption DEF BufferInv
  <2> QED
    BY <2>1, <2>2, <2>4 DEF CurInv, CountInv
<1>3. ASSUME NEW m \in Messages, Take(m) PROVE CurInv' /\ BufferInv' /\ CountInv'
  BY <1>3 DEF Take, Fresh, counters, CurInv, BufferInv, CountInv
<1>4. ASSUME NEW m \in Messages, ProduceCancelled(m) PROVE CurInv' /\ BufferInv' /\ CountInv'
  <2>1. cur = {m}
    BY <1>4 DEF ProduceCancelled, CurInv
  <2>2. /\ cur' = {} /\ pc' = "loop" /\ UNCHANGED <<buffered, sent, produced>>
        /\ errors' = [errors EXCEPT ![m] = @ + 1]
    BY <1>4 DEF ProduceCancelled
  <2>3. m \in sent /\ m \notin buffered
    BY <2>1 DEF CountInv, BufferInv
  <2> QED
    BY <2>1, <2>2, <2>3 DEF CurInv, BufferInv, CountInv, TypeOK
<1>5. ASSUME NEW m \in Messages, AckOk(m) \/ AckErr(m) PROVE CurInv' /\ BufferInv' /\ CountInv'
  <2>1. /\ m \in buffered /\ buffered' = buffered \ {m} /\ UNCHANGED <<pc, cur, sent>>
        /\ \/ produced' = [produced EXCEPT ![m] = @ + 1] /\ UNCHANGED errors
           \/ errors' = [errors EXCEPT ![m] = @ + 1] /\ UNCHANGED produced
    BY <1>5, CallbackCounts
  <2>2. m \in sent /\ m \notin cur
    BY <2>1 DEF CountInv, BufferInv
  <2>3. IsFiniteSet(buffered') /\ Cardinality(buffered') = Cardinality(buffered) - 1
    BY <2>1, FS_RemoveElement DEF BufferInv
  <2>4. BufferInv'
    BY <2>1, <2>3, FS_CardinalityType, MaxBufferedAssumption DEF BufferInv
  <2> QED
    BY <2>1, <2>2, <2>4 DEF CurInv, CountInv, TypeOK
<1> QED
  BY <1>1, <1>2, <1>3, <1>4, <1>5, StepKinds

\* The invariant holds in every reachable state.
LEMMA InvHolds == Spec => []Inv
<1>1. Init => Inv
  <2> SUFFICES ASSUME Init PROVE Inv
    OBVIOUS
  <2>1. ctxDone \in BOOLEAN /\ up \in BOOLEAN
    BY Zenon DEF Init
  <2>2. TypeOK
    BY <2>1 DEF Init, TypeOK, PCs
  <2>3. BufferInv
    BY FS_EmptySet, MaxBufferedAssumption DEF Init, BufferInv
  <2> QED
    BY <2>2, <2>3 DEF Init, Inv, CurInv, CountInv
<1>2. Inv /\ [Next]_vars => Inv'
  BY TypeStep, InvStep DEF Inv
<1> QED
  BY <1>1, <1>2, PTL DEF Spec

\* Every variable of GoRedpandaProducer keeps its type.
THEOREM TypeCorrect == Spec => []TypeOK
<1>1. Inv => TypeOK
  BY DEF Inv
<1> QED
  BY <1>1, InvHolds, PTL

\* The producer implements the ledger with a window of the client's buffer and
\* the record in Produce: Produce blocks, or gives up, but never lets the loop
\* go further ahead of the broker.
THEOREM ImplementsLedger == Spec => LedgerSpec
<1>1. Init => Ledger!Init
  BY DEF Init, Ledger!Init
<1>2. Inv /\ [Next]_vars => [Ledger!Next]_(Ledger!vars)
  <2> SUFFICES ASSUME Inv, [Next]_vars
               PROVE  Ledger!Next \/ UNCHANGED Ledger!vars
    OBVIOUS
  <2> USE DEF Inv
  <2>1. CASE Control
    BY <2>1, ControlKeeps DEF Ledger!vars
  <2>2. CASE Buffer
    BY <2>2 DEF Buffer, counters, Ledger!vars
  <2>3. ASSUME NEW m \in Messages, Take(m) PROVE Ledger!Attempt(m)
    <3>1. cur = {} /\ m \notin sent
      BY <2>3 DEF Take, Fresh, CurInv
    <3>2. m \notin Ledger!Attempted
      BY <3>1 DEF CountInv, Ledger!Attempted
    <3>3. Ledger!Cardinality(buffered \cup cur) = Cardinality(buffered)
      BY <3>1 DEF Ledger!Cardinality, Cardinality
    <3>4. Cardinality(buffered) < MaxBuffered + 1
      BY FS_CardinalityType, MaxBufferedAssumption DEF BufferInv
    <3>5. buffered' \cup cur' = (buffered \cup cur) \cup {m} /\ UNCHANGED <<produced, errors>>
      BY <2>3, <3>1 DEF Take, counters
    <3> QED
      BY <3>2, <3>3, <3>4, <3>5 DEF Ledger!Attempt
  <2>4. ASSUME NEW m \in Messages, ProduceCancelled(m) PROVE Ledger!CountError(m)
    <3>1. cur = {m} /\ m \notin buffered
      BY <2>4 DEF ProduceCancelled, CurInv, BufferInv
    <3> QED
      BY <2>4, <3>1 DEF ProduceCancelled, Ledger!CountError
  <2>5. ASSUME NEW m \in Messages, AckOk(m) \/ AckErr(m)
        PROVE  Ledger!CountProduced(m) \/ Ledger!CountError(m)
    <3>1. m \notin cur
      BY <2>5, CallbackCounts DEF BufferInv
    <3> QED
      BY <2>5, <3>1, CallbackCounts DEF Ledger!CountProduced, Ledger!CountError
  <2> QED
    BY <2>1, <2>2, <2>3, <2>4, <2>5, StepKinds DEF Ledger!Next
<1> QED
  BY <1>1, <1>2, InvHolds, PTL DEF Spec, LedgerSpec, Ledger!Spec
=============================================================================

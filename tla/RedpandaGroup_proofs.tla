-------------------------- MODULE RedpandaGroup_proofs --------------------------
(***************************************************************************)
(* Proofs about RedpandaGroup, for every number of consumers of either     *)
(* language, every set of partitions, every values stored in them and any  *)
(* number of failures.  The group commits no record that nobody counted: a *)
(* record is settled when the position passes it, and stays so, and only   *)
(* positions are ever committed.  Until something fails, every record read *)
(* is counted exactly once: what a batch in work may lose or repeat is     *)
(* lost or repeated only when its partition moves or a stop drops it.  And *)
(* no committed offset is ever taken back.                                 *)
(***************************************************************************)
EXTENDS RedpandaGroup, TLAPS

\* A record that no one has to count any more, or that is being counted.
Settled(r) == Count(r) > 0 \/ r \in InHand \cup dropped \cup raised

\* Only the handler of Go has a batch.
BatchInv == \A c \in Consumers : /\ batch[c] # {} => pc[c] = "handle"
                                 /\ pc[c] = "handle" => lang = "go"

\* Whatever a position has passed is settled.
SettledInv == \A p \in Partitions :
                \A r \in From(p, position[p]) \cup From(p, head[p]) \cup From(p, committed[p]) :
                  Settled(r)

\* Where the places of a partition lie: a position is known only while a
\* consumer has the partition, and none is before the place where the group
\* began.
PlacesInv ==
    \A p \in Partitions :
      /\ owner[p] = NoOne => position[p] = Unknown
      /\ position[p] = Unknown <=> head[p] = Unknown
      /\ position[p] # Unknown =>
            start[p] # Unknown /\ start[p] <= head[p] /\ head[p] <= position[p]
      /\ committed[p] # Unknown => start[p] # Unknown /\ start[p] <= committed[p]

\* A batch is work of the owner of its partitions, unless they have moved; only
\* a handler has work, or a consumer that drops it on its way out; and only
\* Python leaves records by an exception.
AtWork(r) == \/ pc[owner[r[1]]] = "handle"
             \/ pc[owner[r[1]]] = "stopping" /\ r \in dropped
WorkInv ==
    /\ \A c \in Consumers : \A r \in batch[c] :
          r \in torn \/ (owner[r[1]] = c /\ r \in InWork)
    /\ \A r \in InWork : r \in torn \/ AtWork(r)
    /\ lang = "go" => raised = {}

\* The group has read the record.
Read(r) == r \in From(r[1], Reached(r[1]))

\* The count of a record that nothing has disturbed, and that one left by an
\* exception had been read.
ExactFor(r) == /\ r \in raised => Read(r)
               /\ Count(r) = IF Read(r) /\ r \notin InHand \cup raised THEN 1 ELSE 0
ExactInv == faults = 0 => \A r \in Records \ (torn \cup dropped) : ExactFor(r)
-----------------------------------------------------------------------------
\* What a record is, and which places of a partition are offsets.
LEMMA RecordsType ==
  /\ \A p \in Partitions : Len(Value[p]) \in Nat
  /\ \A r \in Records : r[1] \in Partitions /\ r[2] \in 1..Len(Value[r[1]])
  /\ \A r \in Records : ValueOf(r) \in Values
  /\ \A p \in Partitions : 0..Len(Value[p]) \subseteq Offsets \ {Unknown}
  /\ \A o \in Offsets : o \in Int /\ (o # Unknown => o \in Nat)
<1>1. \A p \in Partitions : Value[p] \in Seq(Values)
  BY ValueAssumption
<1>2. \A p \in Partitions : Len(Value[p]) \in Nat
  BY <1>1
<1>3. \A r \in Records : \E p \in Partitions : r \in {p} \X (1..Len(Value[p]))
  BY DEF Records
<1>4. \A r \in Records : r[1] \in Partitions /\ r[2] \in 1..Len(Value[r[1]])
  BY <1>3
<1>5. \A r \in Records : ValueOf(r) \in Values
  BY <1>1, <1>4 DEF ValueOf
<1>6. ASSUME NEW p \in Partitions, NEW o \in 0..Len(Value[p]) PROVE o \in Offsets \ {Unknown}
  <2>1. CASE o = 0
    BY <2>1 DEF Offsets, Unknown
  <2>2. CASE o \in 1..Len(Value[p])
    <3>1. <<p, o>> \in Records
      BY <2>2 DEF Records
    <3>2. <<p, o>>[2] \in Offsets
      BY <3>1 DEF Offsets
    <3> QED
      BY <2>2, <3>2, <1>2 DEF Unknown
  <2> QED
    BY <2>1, <2>2, <1>2
<1>7. \A o \in Offsets : o \in Int /\ (o # Unknown => o \in Nat)
  BY <1>4, <1>2 DEF Offsets, Unknown
<1> QED
  BY <1>2, <1>4, <1>5, <1>6, <1>7

\* A handler counts every value that does not escape it.
LEMMA CountsAll ==
  ASSUME NEW l \in {"py", "go"}, NEW v \in Values, ~Escapes(l, v)
  PROVE  CountsConsumed(l, v) \/ CountsError(l, v)
BY DEF Escapes, CountsConsumed, CountsError, PyDecode, GoDecode, Values

\* Counting takes nothing back.
LEMMA CountRecordsStep ==
  ASSUME TypeOK, NEW rs, CountRecords(rs)
  PROVE  /\ consumed' \in [Records -> Nat] /\ errors' \in [Records -> Nat]
         /\ \A r \in Records : Count(r) > 0 => Count(r)' > 0
         /\ \A r \in Records \cap rs :
              CountsConsumed(lang, ValueOf(r)) \/ CountsError(lang, ValueOf(r)) => Count(r)' > 0
<1> DEFINE C(r) == r \in rs /\ CountsConsumed(lang, ValueOf(r))
           E(r) == r \in rs /\ CountsError(lang, ValueOf(r))
<1>1. /\ consumed' = [r \in Records |-> consumed[r] + (IF C(r) THEN 1 ELSE 0)]
      /\ errors' = [r \in Records |-> errors[r] + (IF E(r) THEN 1 ELSE 0)]
  BY Zenon DEF CountRecords
<1>2. consumed \in [Records -> Nat] /\ errors \in [Records -> Nat]
  BY DEF TypeOK
<1> HIDE DEF C, E
<1>3. consumed' \in [Records -> Nat] /\ errors' \in [Records -> Nat]
  BY <1>1, <1>2
<1>4. \A r \in Records : /\ Count(r) > 0 => Count(r)' > 0
                         /\ C(r) \/ E(r) => Count(r)' > 0
  BY <1>1, <1>2 DEF Count
<1> QED
  BY <1>3, <1>4 DEF C, E

\* A poll settles what it passes.
LEMMA ReachSettles ==
  ASSUME TypeOK, NEW c \in Consumers, NEW hi \in Reach(c),
         NEW p \in Partitions, NEW r \in From(p, hi[p])
  PROVE  r \in From(p, position[p]) \/ r \in Taken(hi)
<1>1. r \in Records /\ r[1] = p /\ r[2] \in Int
  BY RecordsType DEF From
<1>2. position[p] \in Int
  BY RecordsType DEF TypeOK
<1> QED
  BY <1>1, <1>2 DEF From, Taken

Stay == \A r \in Records : Settled(r) => Settled(r)'

\* No record is before the first offset.
LEMMA NothingBeforeStart == \A p \in Partitions : From(p, Unknown) = {}
BY RecordsType DEF From, Unknown

\* A step that only moves places about keeps what they have passed settled.
LEMMA MovesSettle ==
  ASSUME TypeOK, SettledInv, Stay, UNCHANGED start,
         \A p \in Partitions :
           /\ position'[p] \in {position[p], head[p], committed[p], Unknown}
           /\ head'[p] \in {position[p], head[p], committed[p], Unknown}
           /\ committed'[p] \in {position[p], head[p], committed[p], Unknown}
  PROVE  SettledInv'
<1> DEFINE Good(p, o) == \A r \in From(p, o) : Settled(r)
<1>1. \A p \in Partitions :
        Good(p, position[p]) /\ Good(p, head[p]) /\ Good(p, committed[p]) /\ Good(p, Unknown)
  BY NothingBeforeStart DEF SettledInv
<1>2. ASSUME NEW p \in Partitions, NEW o \in {position'[p], head'[p], committed'[p]},
             NEW r \in {x \in Records : x[1] = p /\ start'[p] # Unknown /\ start'[p] < x[2] /\ x[2] <= o}
      PROVE  Settled(r)'
  <2>1. Good(p, o)
    BY <1>1
  <2>2. r \in From(p, o)
    BY DEF From
  <2>3. r \in Records
    OBVIOUS
  <2> QED
    BY <2>1, <2>2, <2>3 DEF Stay
<1> QED
  BY <1>2 DEF SettledInv, From

\* So does a poll that settles what it takes.
LEMMA PollSettles ==
  ASSUME TypeOK, SettledInv, Stay, UNCHANGED <<start, committed>>,
         NEW c \in Consumers, NEW hi \in Reach(c),
         position' = hi, head' \in {head, hi},
         \A r \in Taken(hi) : Settled(r)'
  PROVE  SettledInv'
<1> SUFFICES ASSUME NEW p \in Partitions, NEW r \in From(p, hi[p]) \cup From(p, head[p])
                                                   \cup From(p, committed[p])
             PROVE  Settled(r)'
  BY DEF SettledInv, From
<1>1. r \in Records
  BY DEF From
<1>2. CASE r \in Taken(hi)
  BY <1>2
<1>3. CASE r \notin Taken(hi)
  <2>1. Settled(r)
    BY <1>3, ReachSettles DEF SettledInv
  <2> QED
    BY <2>1, <1>1 DEF Stay
<1> QED
  BY <1>2, <1>3
-----------------------------------------------------------------------------
\* A step that neither counts nor drops a record.
Quiet == UNCHANGED <<position, head, committed, start, batch, consumed, errors, dropped, raised>>

\* Such a step leaves settled what was.
LEMMA QuietStays ==
  ASSUME UNCHANGED <<batch, consumed, errors, dropped, raised>>
  PROVE  Stay
BY DEF Stay, Settled, Count, InHand

\* So it preserves the invariant.
LEMMA QuietSettles ==
  ASSUME TypeOK, SettledInv, Quiet
  PROVE  SettledInv'
BY QuietStays, MovesSettle DEF Quiet

\* The four ways in which a poll ends.
LEMMA PollStep ==
  ASSUME TypeOK, BatchInv, SettledInv, NEW c \in Consumers, NEW hi \in Reach(c), PollTo(c, hi)
  PROVE  SettledInv'
<1>1. ASSUME PyPoll(c, hi) PROVE SettledInv'
  <2>1. UNCHANGED <<batch, dropped, raised, start, committed>> /\ position' = hi /\ head' = hi
    BY <1>1 DEF PyPoll, history
  <2>2. CountRecords(Taken(hi)) /\ lang = "py" /\ Bad(Taken(hi)) = {}
    BY <1>1 DEF PyPoll
  <2>3. Stay
    BY <2>1, <2>2, CountRecordsStep DEF Stay, Settled, InHand
  <2>4. \A r \in Taken(hi) : Settled(r)'
    <3> SUFFICES ASSUME NEW r \in Taken(hi) PROVE Settled(r)'
      OBVIOUS
    <3>1. r \in Records /\ ~Escapes(lang, ValueOf(r))
      BY <2>2 DEF Bad, Taken
    <3>2. CountsConsumed(lang, ValueOf(r)) \/ CountsError(lang, ValueOf(r))
      BY <2>2, <3>1, CountsAll, RecordsType
    <3> QED
      BY <2>2, <3>1, <3>2, CountRecordsStep DEF Settled
  <2> QED
    BY <2>1, <2>3, <2>4, PollSettles
<1>2. ASSUME NEW e \in Bad(Taken(hi)), NEW ps \in SUBSET Partitions, PyRaise(c, hi, e, ps)
      PROVE  SettledInv'
  <2> DEFINE done == {r \in Taken(hi) : r[1] \in ps \/ (r[1] = e[1] /\ r[2] <= e[2])}
  <2>1. UNCHANGED <<batch, dropped, start, committed>> /\ position' = hi /\ head' = hi
    BY <1>2 DEF PyRaise
  <2>2. /\ CountRecords(done) /\ lang = "py" /\ Bad(done) = {e}
        /\ raised' = raised \cup {r \in Taken(hi) : r \notin done \/
                                     (r = e /\ ~CountsConsumed(lang, ValueOf(e)))}
    BY <1>2 DEF PyRaise
  <2>3. Stay
    BY <2>1, <2>2, CountRecordsStep DEF Stay, Settled, InHand
  <2>4. \A r \in Taken(hi) : Settled(r)'
    <3> SUFFICES ASSUME NEW r \in Taken(hi), r \notin raised' PROVE Settled(r)'
      BY DEF Settled
    <3>1. r \in Records /\ r \in done
      BY <2>2 DEF Taken
    <3>2. CountsConsumed(lang, ValueOf(r)) \/ CountsError(lang, ValueOf(r))
      <4>1. CASE r = e
        BY <4>1, <2>2
      <4>2. CASE r # e
        <5>1. ~Escapes(lang, ValueOf(r))
          BY <4>2, <3>1, <2>2 DEF Bad
        <5> QED
          BY <5>1, <2>2, <3>1, CountsAll, RecordsType
      <4> QED
        BY <4>1, <4>2
    <3> QED
      BY <2>2, <3>1, <3>2, CountRecordsStep DEF Settled
  <2> QED
    BY <2>1, <2>3, <2>4, PollSettles
<1>3. ASSUME GoPoll(c, hi) PROVE SettledInv'
  <2>1. /\ UNCHANGED <<head, start, committed, consumed, errors, dropped, raised>>
        /\ position' = hi
        /\ batch' = [batch EXCEPT ![c] = Taken(hi)]
    BY <1>3 DEF GoPoll, counters, history
  <2>2. batch[c] = {} /\ batch \in [Consumers -> SUBSET Records]
    BY <1>3 DEF GoPoll, BatchInv, TypeOK
  <2>3. InHand \subseteq InHand' /\ Taken(hi) \subseteq InHand'
    BY <2>1, <2>2 DEF InHand
  <2>4. Stay /\ \A r \in Taken(hi) : Settled(r)'
    BY <2>1, <2>3 DEF Stay, Settled, Count
  <2> QED
    BY <2>1, <2>4, PollSettles
<1>4. ASSUME GoPollCancelled(c, hi) PROVE SettledInv'
  <2>1. /\ UNCHANGED <<head, start, committed, batch, consumed, errors, raised>>
        /\ position' = hi
        /\ dropped' = dropped \cup Taken(hi)
    BY <1>4 DEF GoPollCancelled, counters
  <2>2. Stay /\ \A r \in Taken(hi) : Settled(r)'
    BY <2>1 DEF Stay, Settled, Count, InHand
  <2> QED
    BY <2>1, <2>2, PollSettles
<1> QED
  BY <1>1, <1>2, <1>3, <1>4 DEF PollTo

\* Giving partitions up moves nothing but committed offsets, to places that a
\* position has been at.
LEMMA GiveUpStep ==
  ASSUME TypeOK, NEW ps \in SUBSET Partitions, GiveUp(ps)
  PROVE  /\ committed' \in [Partitions -> Offsets] /\ faults' \in Nat
         /\ \A p \in Partitions : committed'[p] \in {position[p], head[p], committed[p]}
<1>1. CASE UNCHANGED committed /\ faults' = faults + 1
  BY <1>1 DEF TypeOK
<1>2. ASSUME NEW from \in {position, head}, UNCHANGED faults,
             committed' = [p \in Partitions |-> IF p \in ps THEN Offset(from, p) ELSE committed[p]]
      PROVE  /\ committed' \in [Partitions -> Offsets] /\ faults' \in Nat
             /\ \A p \in Partitions : committed'[p] \in {position[p], head[p], committed[p]}
  BY <1>2 DEF TypeOK, Offset
<1> QED
  BY <1>1, <1>2 DEF GiveUp

\* What a step of Next can be.
LEMMA StepKinds ==
  ASSUME [Next]_vars
  PROVE  \/ \E c \in Consumers :
              \/ Start(c) \/ StartFails(c) \/ FetchError(c) \/ Wake(c) \/ Close(c)
              \/ Signal(c) \/ Crash(c) \/ AutoCommit(c)
              \/ \E hi \in Reach(c) : pc[c] = "poll" /\ PollTo(c, hi)
              \/ \E r \in batch[c] : GoCount(c, r)
         \/ \E assignment \in Balanced : Rebalance(assignment)
         \/ \E p \in Partitions : Resolve(p) \/ Produce(p)
         \/ UNCHANGED vars
BY DEF Next, Consumer, Poll, Handle, Assign, AllExited

\* A step keeps every variable in its type.
LEMMA TypeStep ==
  ASSUME TypeOK, [Next]_vars
  PROVE  TypeOK'
<1> USE DEF TypeOK
<1>1. ASSUME NEW c \in Consumers, Start(c) \/ FetchError(c) \/ Wake(c) \/ Signal(c)
      PROVE  TypeOK'
  <2>1. /\ pc' \in [Consumers -> PCs] /\ stop' \in [Consumers -> BOOLEAN]
        /\ stable' \in BOOLEAN /\ fetchErrors' \in Nat
    <3>1. CASE Start(c)
      BY <3>1 DEF Start, LoopTop, PCs, counters
    <3>2. CASE FetchError(c)
      BY <3>2 DEF FetchError, PCs, group
    <3>3. CASE Wake(c)
      BY <3>3 DEF Wake, LoopTop, PCs, group, counters
    <3>4. CASE Signal(c)
      BY <3>4 DEF Signal, group, counters
    <3> QED
      BY <1>1, <3>1, <3>2, <3>3, <3>4
  <2>2. UNCHANGED <<lang, stored, owner, position, head, committed, batch, consumed, errors, history>>
    BY <1>1 DEF Start, FetchError, Wake, Signal, group, counters
  <2> QED
    BY <2>1, <2>2 DEF history
<1>2. ASSUME NEW c \in Consumers, StartFails(c) PROVE TypeOK'
  <2>1. pc' \in [Consumers -> PCs] /\ faults' \in Nat
    BY <1>2 DEF StartFails, Ended, PCs
  <2> QED
    BY <1>2, <2>1 DEF StartFails, group, counters
<1>3. ASSUME NEW c \in Consumers, Close(c) \/ Crash(c) PROVE TypeOK'
  <2>1. committed' \in [Partitions -> Offsets] /\ faults' \in Nat
    BY <1>3, GiveUpStep DEF Close, Crash, Owned
  <2>2. pc' \in [Consumers -> PCs]
    BY <1>3 DEF Close, Crash, Ended, PCs
  <2>3. /\ owner' \in [Partitions -> Consumers \cup {NoOne}] /\ stable' \in BOOLEAN
        /\ position' \in [Partitions -> Offsets] /\ head' \in [Partitions -> Offsets]
        /\ batch' \in [Consumers -> SUBSET Records]
    <3>1. Leave(c)
      BY <1>3 DEF Close, Crash
    <3>2. Unknown \in Offsets
      BY DEF Offsets
    <3> QED
      BY <3>1, <3>2 DEF Leave
  <2>4. dropped' \subseteq Records
    BY <1>3 DEF Close, Crash
  <2>5. UNCHANGED <<lang, stored, stop, counters, start, raised, torn>>
    BY <1>3 DEF Close, Crash
  <2> QED
    BY <2>1, <2>2, <2>3, <2>4, <2>5 DEF counters
<1>4. ASSUME NEW c \in Consumers, AutoCommit(c) PROVE TypeOK'
  <2>1. committed' \in [Partitions -> Offsets]
    BY <1>4 DEF AutoCommit, Offset
  <2> QED
    BY <1>4, <2>1 DEF AutoCommit, client, counters, history
<1>5. ASSUME NEW c \in Consumers, NEW hi \in Reach(c), PollTo(c, hi) PROVE TypeOK'
  <2>1. hi \in [Partitions -> Offsets] /\ Taken(hi) \subseteq Records
    BY DEF Reach, Taken
  <2>2. position' \in [Partitions -> Offsets] /\ head' \in [Partitions -> Offsets]
    BY <1>5, <2>1 DEF PollTo, PyPoll, PyRaise, GoPoll, GoPollCancelled
  <2>3. pc' \in [Consumers -> PCs]
    BY <1>5 DEF PollTo, PyPoll, PyRaise, GoPoll, GoPollCancelled, LoopTop, PCs
  <2>4. batch' \in [Consumers -> SUBSET Records]
    BY <1>5, <2>1 DEF PollTo, PyPoll, PyRaise, GoPoll, GoPollCancelled
  <2>5. consumed' \in [Records -> Nat] /\ errors' \in [Records -> Nat]
    <3>1. (\E rs : CountRecords(rs)) \/ UNCHANGED <<consumed, errors>>
      BY <1>5 DEF PollTo, PyPoll, PyRaise, GoPoll, GoPollCancelled, counters
    <3> QED
      BY <3>1, CountRecordsStep
  <2>6. dropped' \subseteq Records /\ raised' \subseteq Records
    BY <1>5, <2>1 DEF PollTo, PyPoll, PyRaise, GoPoll, GoPollCancelled, history
  <2>7. UNCHANGED <<lang, stored, owner, stable, committed, stop, fetchErrors, start, torn, faults>>
    BY <1>5 DEF PollTo, PyPoll, PyRaise, GoPoll, GoPollCancelled, counters, history
  <2> QED
    BY <2>2, <2>3, <2>4, <2>5, <2>6, <2>7
<1>6. ASSUME NEW c \in Consumers, NEW r \in batch[c], GoCount(c, r) PROVE TypeOK'
  <2>1. pc' \in [Consumers -> PCs] /\ head' \in [Partitions -> Offsets]
    BY <1>6 DEF GoCount, PCs
  <2>2. batch' \in [Consumers -> SUBSET Records]
    BY <1>6 DEF GoCount
  <2>3. consumed' \in [Records -> Nat] /\ errors' \in [Records -> Nat]
    BY <1>6, CountRecordsStep DEF GoCount
  <2>4. UNCHANGED <<lang, stored, owner, stable, position, committed, stop, fetchErrors, history>>
    BY <1>6 DEF GoCount
  <2> QED
    BY <2>1, <2>2, <2>3, <2>4 DEF history
<1>7. ASSUME NEW assignment \in Balanced, Rebalance(assignment) PROVE TypeOK'
  <2>1. committed' \in [Partitions -> Offsets] /\ faults' \in Nat
    BY <1>7, GiveUpStep DEF Rebalance
  <2>2. owner' \in [Partitions -> Consumers \cup {NoOne}] /\ stable' \in BOOLEAN
    BY <1>7 DEF Rebalance, Balanced, Reading
  <2>3. position' \in [Partitions -> Offsets] /\ head' \in [Partitions -> Offsets]
    BY <1>7 DEF Rebalance, Offsets
  <2>4. torn' \subseteq Records
    BY <1>7 DEF Rebalance, InWork
  <2>5. UNCHANGED <<lang, stored, client, counters, start, dropped, raised>>
    BY <1>7 DEF Rebalance
  <2> QED
    BY <2>1, <2>2, <2>3, <2>4, <2>5 DEF client, counters
<1>8. ASSUME NEW p \in Partitions, Resolve(p) PROVE TypeOK'
  <2>1. /\ position' \in [Partitions -> Offsets] /\ head' \in [Partitions -> Offsets]
        /\ start' \in [Partitions -> Offsets]
    BY <1>8 DEF Resolve
  <2> QED
    BY <1>8, <2>1 DEF Resolve, client, counters
<1>9. ASSUME NEW p \in Partitions, Produce(p) PROVE TypeOK'
  <2>1. stored[p] + 1 \in 0..Len(Value[p])
    BY <1>9, RecordsType DEF Produce
  <2>2. stored' \in [Partitions -> Offsets \ {Unknown}]
    BY <1>9, <2>1, RecordsType DEF Produce
  <2> QED
    BY <1>9, <2>2 DEF Produce, group, client, counters, history
<1>10. CASE UNCHANGED vars
  BY <1>10 DEF vars, group, client, counters, history
<1> QED
  BY <1>1, <1>2, <1>3, <1>4, <1>5, <1>6, <1>7, <1>8, <1>9, <1>10, StepKinds

\* Every variable keeps its type in every reachable state.
THEOREM TypeCorrect == Spec => []TypeOK
<1>1. Init => TypeOK
  <2> SUFFICES ASSUME Init PROVE TypeOK
    OBVIOUS
  <2>1. stored \in [Partitions -> Offsets \ {Unknown}]
    BY RecordsType DEF Init
  <2>2. position \in [Partitions -> Offsets]
    BY DEF Init, Offsets
  <2> QED
    BY <2>1, <2>2 DEF Init, TypeOK, PCs
<1> QED
  BY <1>1, TypeStep, PTL DEF Spec
-----------------------------------------------------------------------------
\* A step leaves a batch to the handler of Go.
LEMMA BatchStep ==
  ASSUME TypeOK, BatchInv, [Next]_vars
  PROVE  BatchInv'
<1> USE DEF TypeOK, BatchInv
<1>1. ASSUME NEW c \in Consumers,
             Start(c) \/ StartFails(c) \/ FetchError(c) \/ Wake(c) \/ Signal(c) \/ AutoCommit(c)
      PROVE  BatchInv'
  <2>1. UNCHANGED <<batch, lang>>
    BY <1>1 DEF Start, StartFails, FetchError, Wake, Signal, AutoCommit, client
  <2>2. \A d \in Consumers : pc'[d] = pc[d] \/ (pc[d] # "handle" /\ pc'[d] # "handle")
    BY <1>1 DEF Start, StartFails, FetchError, Wake, Signal, AutoCommit, client, Ended, LoopTop
  <2> QED
    BY <2>1, <2>2
<1>2. ASSUME NEW c \in Consumers, Close(c) \/ Crash(c) PROVE BatchInv'
  <2>1. batch' = [batch EXCEPT ![c] = {}] /\ UNCHANGED lang
    BY <1>2 DEF Close, Crash, Leave
  <2>2. \A d \in Consumers : IF d = c THEN pc'[d] # "handle" ELSE pc'[d] = pc[d]
    BY <1>2 DEF Close, Crash, Ended
  <2> QED
    BY <2>1, <2>2
<1>3. ASSUME NEW c \in Consumers, NEW hi \in Reach(c), pc[c] = "poll", PollTo(c, hi)
      PROVE  BatchInv'
  <2>1. \A d \in Consumers \ {c} : pc'[d] = pc[d] /\ batch'[d] = batch[d]
    BY <1>3 DEF PollTo, PyPoll, PyRaise, GoPoll, GoPollCancelled
  <2>2. \/ pc'[c] = "handle" /\ lang = "go"
        \/ pc'[c] # "handle" /\ batch'[c] = batch[c]
    BY <1>3 DEF PollTo, PyPoll, PyRaise, GoPoll, GoPollCancelled, LoopTop
  <2>3. UNCHANGED lang
    BY <1>3 DEF PollTo, PyPoll, PyRaise, GoPoll, GoPollCancelled
  <2> QED
    BY <1>3, <2>1, <2>2, <2>3
<1>4. ASSUME NEW c \in Consumers, NEW r \in batch[c], GoCount(c, r) PROVE BatchInv'
  BY <1>4 DEF GoCount
<1>5. CASE \/ \E assignment \in Balanced : Rebalance(assignment)
           \/ \E p \in Partitions : Resolve(p) \/ Produce(p)
           \/ UNCHANGED vars
  <2>1. UNCHANGED <<lang, pc, batch>>
    BY <1>5 DEF Rebalance, Resolve, Produce, vars, client
  <2> QED
    BY <2>1
<1> QED
  BY <1>1, <1>2, <1>3, <1>4, <1>5, StepKinds

\* A step settles what it passes.
LEMMA SettledStep ==
  ASSUME TypeOK, BatchInv, SettledInv, [Next]_vars
  PROVE  SettledInv'
<1>1. ASSUME NEW c \in Consumers, Start(c) \/ StartFails(c) \/ FetchError(c) \/ Wake(c) \/ Signal(c)
      PROVE  SettledInv'
  BY <1>1, QuietSettles
  DEF Quiet, Start, StartFails, FetchError, Wake, Signal, group, counters, history
<1>2. ASSUME NEW c \in Consumers, Close(c) \/ Crash(c) PROVE SettledInv'
  <2>1. /\ UNCHANGED <<consumed, errors, raised, start>>
        /\ batch' = [batch EXCEPT ![c] = {}]
        /\ batch[c] \subseteq dropped' /\ dropped \subseteq dropped'
    BY <1>2 DEF Close, Crash, Leave, BatchInv, counters
  <2>2. Stay
    BY <2>1 DEF Stay, Settled, Count, InHand, TypeOK
  <2>3. \A p \in Partitions : /\ position'[p] \in {position[p], Unknown}
                             /\ head'[p] \in {head[p], Unknown}
                             /\ committed'[p] \in {position[p], head[p], committed[p]}
    BY <1>2, GiveUpStep DEF Close, Crash, Leave, Owned
  <2> QED
    BY <2>1, <2>2, <2>3, MovesSettle
<1>3. ASSUME NEW c \in Consumers, AutoCommit(c) PROVE SettledInv'
  <2>1. UNCHANGED <<batch, consumed, errors, dropped, raised, start, position, head>>
    BY <1>3 DEF AutoCommit, client, counters, history
  <2>2. \A p \in Partitions : committed'[p] \in {head[p], committed[p]}
    BY <1>3 DEF AutoCommit, Offset
  <2> QED
    BY <2>1, <2>2, QuietStays, MovesSettle
<1>4. ASSUME NEW c \in Consumers, NEW hi \in Reach(c), PollTo(c, hi) PROVE SettledInv'
  BY <1>4, PollStep
<1>5. ASSUME NEW c \in Consumers, NEW r \in batch[c], GoCount(c, r) PROVE SettledInv'
  <2>1. /\ UNCHANGED <<dropped, raised, start, position, committed>>
        /\ batch' = [batch EXCEPT ![c] = @ \ {r}]
        /\ CountRecords({r})
        /\ lang = "go" /\ r \in Records
    BY <1>5 DEF GoCount, BatchInv, TypeOK, history
  <2>2. CountsConsumed(lang, ValueOf(r)) \/ CountsError(lang, ValueOf(r))
    <3>1. ~Escapes(lang, ValueOf(r))
      BY <2>1 DEF Escapes
    <3> QED
      BY <2>1, <3>1, CountsAll, RecordsType
  <2>3. Stay
    <3> SUFFICES ASSUME NEW s \in Records, Settled(s) PROVE Settled(s)'
      BY DEF Stay
    <3>1. CASE s = r
      BY <3>1, <2>1, <2>2, CountRecordsStep DEF Settled
    <3>2. CASE s # r
      <4>1. s \in InHand => s \in InHand'
        BY <3>2, <2>1 DEF InHand, TypeOK
      <4> QED
        BY <4>1, <2>1, CountRecordsStep DEF Settled
    <3> QED
      BY <3>1, <3>2
  <2>4. \A p \in Partitions : head'[p] \in {position[p], head[p]}
    BY <1>5 DEF GoCount
  <2> QED
    BY <2>1, <2>3, <2>4, MovesSettle
<1>6. ASSUME NEW assignment \in Balanced, Rebalance(assignment) PROVE SettledInv'
  <2>1. UNCHANGED <<batch, consumed, errors, dropped, raised, start>>
    BY <1>6 DEF Rebalance, client, counters
  <2>2. \A p \in Partitions : committed'[p] \in {position[p], head[p], committed[p]}
    BY <1>6, GiveUpStep DEF Rebalance
  <2>3. \A p \in Partitions : /\ position'[p] \in {position[p], Unknown}
                             /\ head'[p] \in {head[p], Unknown}
    BY <1>6 DEF Rebalance
  <2> QED
    BY <2>1, <2>2, <2>3, QuietStays, MovesSettle
<1>7. ASSUME NEW p \in Partitions, Resolve(p) PROVE SettledInv'
  <2>1. UNCHANGED <<batch, consumed, errors, dropped, raised, committed>>
    BY <1>7 DEF Resolve, client, counters
  <2>2. CASE committed[p] # Unknown
    <3>1. UNCHANGED start
      BY <1>7, <2>2 DEF Resolve, TypeOK
    <3>2. \A q \in Partitions : /\ position'[q] \in {position[q], committed[q]}
                               /\ head'[q] \in {head[q], committed[q]}
      BY <1>7, <2>2 DEF Resolve, TypeOK
    <3> QED
      BY <2>1, <3>1, <3>2, QuietStays, MovesSettle
  <2>3. CASE committed[p] = Unknown
    <3>1. \A q \in Partitions \ {p} : /\ position'[q] = position[q] /\ head'[q] = head[q]
                                     /\ start'[q] = start[q]
      BY <1>7, <2>3 DEF Resolve, TypeOK
    <3>2. position'[p] = start'[p] /\ head'[p] = start'[p] /\ start'[p] \in Int
      BY <1>7, <2>3, RecordsType DEF Resolve, TypeOK
    <3>3. \A r \in Records : ~(start'[p] < r[2] /\ (r[2] <= position'[p] \/ r[2] <= head'[p]
                                                   \/ r[2] <= committed'[p]))
      BY <2>1, <2>3, <3>2, RecordsType DEF Unknown
    <3>4. Stay
      BY <2>1, QuietStays
    <3> QED
      BY <2>1, <3>1, <3>3, <3>4 DEF SettledInv, From, Stay
  <2> QED
    BY <2>2, <2>3
<1>8. ASSUME NEW p \in Partitions, Produce(p) PROVE SettledInv'
  BY <1>8, QuietSettles DEF Quiet, Produce, group, client, counters, history
<1>9. CASE UNCHANGED vars
  BY <1>9, QuietSettles DEF Quiet, vars, group, client, counters, history
<1> QED
  BY <1>1, <1>2, <1>3, <1>4, <1>5, <1>6, <1>7, <1>8, <1>9, StepKinds

\* Whatever fails, the group commits no record that nobody has counted, except
\* those in hand, left by a stop or a crash, or left by an exception.
THEOREM CommittedOnlyCounted == Spec => []CommittedIsCounted
<1>1. Init => BatchInv /\ SettledInv
  <2> SUFFICES ASSUME Init PROVE BatchInv /\ SettledInv
    OBVIOUS
  <2>1. BatchInv
    BY DEF Init, BatchInv
  <2>2. SettledInv
    BY DEF Init, SettledInv, From
  <2> QED
    BY <2>1, <2>2
<1>2. SettledInv => CommittedIsCounted
  BY DEF SettledInv, CommittedIsCounted, Settled
<1> QED
  BY <1>1, <1>2, TypeCorrect, BatchStep, SettledStep, PTL DEF Spec
-----------------------------------------------------------------------------
\* A handler counts no value twice, and none as an error that escapes it.
LEMMA CountsOnce ==
  ASSUME NEW l \in {"py", "go"}, NEW v \in Values
  PROVE  /\ ~(CountsConsumed(l, v) /\ CountsError(l, v))
         /\ Escapes(l, v) => ~CountsError(l, v)
BY DEF Escapes, CountsConsumed, CountsError, PyDecode, PyLatency, GoDecode, Values

\* By how much a handler counts a record.
LEMMA CountRecordsExact ==
  ASSUME TypeOK, NEW rs, CountRecords(rs)
  PROVE  \A r \in Records :
           Count(r)' = Count(r) +
             IF /\ r \in rs
                /\ CountsConsumed(lang, ValueOf(r)) \/ CountsError(lang, ValueOf(r))
             THEN 1 ELSE 0
<1> DEFINE C(r) == r \in rs /\ CountsConsumed(lang, ValueOf(r))
           E(r) == r \in rs /\ CountsError(lang, ValueOf(r))
<1>1. /\ consumed' = [r \in Records |-> consumed[r] + (IF C(r) THEN 1 ELSE 0)]
      /\ errors' = [r \in Records |-> errors[r] + (IF E(r) THEN 1 ELSE 0)]
  BY Zenon DEF CountRecords
<1>2. consumed \in [Records -> Nat] /\ errors \in [Records -> Nat] /\ lang \in {"py", "go"}
  BY DEF TypeOK
<1>3. \A r \in Records : ~(C(r) /\ E(r))
  BY <1>2, RecordsType, CountsOnce
<1> HIDE DEF C, E
<1>4. \A r \in Records : Count(r)' = Count(r) + IF C(r) \/ E(r) THEN 1 ELSE 0
  BY <1>1, <1>2, <1>3 DEF Count
<1> QED
  BY <1>4 DEF C, E

\* The places of one partition: what the steps below have to know of them.
LEMMA Places ==
  ASSUME TypeOK, NEW p \in Partitions
  PROVE  /\ position[p] \in Int /\ head[p] \in Int /\ committed[p] \in Int
         /\ start[p] \in Int /\ stored[p] \in Nat /\ Unknown = -1
         /\ position[p] # Unknown => position[p] >= 0
         /\ head[p] # Unknown => head[p] >= 0
         /\ committed[p] # Unknown => committed[p] >= 0
<1>1. /\ position[p] \in Offsets /\ head[p] \in Offsets /\ committed[p] \in Offsets
      /\ start[p] \in Offsets /\ stored[p] \in Offsets \ {Unknown}
  BY DEF TypeOK
<1> QED
  BY <1>1, RecordsType DEF Unknown

\* A record has a place in a partition.
LEMMA RecordPlace ==
  ASSUME NEW r \in Records
  PROVE  r[1] \in Partitions /\ r[2] \in Int /\ r[2] >= 1
BY RecordsType

\* What it means that the group has read a record.
LEMMA ReadIs ==
  ASSUME TypeOK, PlacesInv, NEW r \in Records
  PROVE  Read(r) <=> IF position[r[1]] # Unknown
                     THEN start[r[1]] < r[2] /\ r[2] <= position[r[1]]
                     ELSE /\ committed[r[1]] # Unknown
                          /\ start[r[1]] < r[2] /\ r[2] <= committed[r[1]]
<1> DEFINE p == r[1]
<1>1. p \in Partitions /\ r[2] \in Int /\ r[2] >= 1
  BY RecordPlace
<1>2. Read(r) <=> start[p] # Unknown /\ start[p] < r[2] /\ r[2] <= Reached(p)
  BY DEF Read, From
<1>3. CASE position[p] # Unknown
  BY <1>1, <1>2, <1>3 DEF PlacesInv, Reached
<1>4. CASE position[p] = Unknown
  <2>1. Reached(p) = committed[p]
    BY <1>4 DEF Reached
  <2>2. committed[p] # Unknown => start[p] # Unknown
    BY <1>1 DEF PlacesInv
  <2>3. committed[p] = Unknown => ~(r[2] <= committed[p])
    BY <1>1 DEF Unknown
  <2> QED
    BY <1>2, <1>4, <2>1, <2>2, <2>3
<1> QED
  BY <1>3, <1>4

\* A step that moves nothing of a partition leaves its records as they are.
LEMMA ReadStays ==
  ASSUME NEW r, Reached(r[1])' = Reached(r[1]), start'[r[1]] = start[r[1]]
  PROVE  Read(r)' <=> Read(r)
BY DEF Read, From

\* What a poll reads: the records it takes, which nobody has read before.
LEMMA PollReads ==
  ASSUME TypeOK, PlacesInv, NEW c \in Consumers, NEW hi \in Reach(c),
         position' = hi, UNCHANGED <<start, committed>>, NEW r \in Records
  PROVE  /\ Read(r)' <=> Read(r) \/ r \in Taken(hi)
         /\ r \in Taken(hi) => ~Read(r)
<1> DEFINE p == r[1]
<1>1. /\ p \in Partitions /\ r[2] \in Int /\ r[2] >= 1
      /\ position[p] \in Int /\ hi[p] \in Int /\ start[p] \in Int /\ Unknown = -1
      /\ position[p] # Unknown => position[p] >= 0
  <2>1. p \in Partitions
    BY RecordPlace
  <2>2. hi[p] \in Offsets
    BY <2>1 DEF Reach
  <2> QED
    BY <2>1, <2>2, RecordPlace, Places, RecordsType
<1>2. r \in Taken(hi) <=> position[p] < r[2] /\ r[2] <= hi[p]
  BY DEF Taken
<1>3. CASE position[p] = Unknown
  <2>1. hi[p] = Unknown
    BY <1>1, <1>3 DEF Reach
  <2>2. r \notin Taken(hi)
    BY <1>1, <1>2, <2>1
  <2>3. Reached(p)' = Reached(p)
    BY <1>3, <2>1 DEF Reached
  <2> QED
    BY <2>2, <2>3, ReadStays
<1>4. CASE position[p] # Unknown
  <2>1. hi[p] >= position[p] /\ hi[p] # Unknown
    <3>1. hi[p] = position[p] \/ hi[p] \in position[p]..stored[p]
      BY <1>1, <1>4 DEF Reach
    <3> QED
      BY <1>1, <1>4, <3>1, Places
  <2>2. start[p] # Unknown /\ start[p] <= position[p]
    <3>1. start[p] # Unknown /\ start[p] <= head[p] /\ head[p] <= position[p]
      BY <1>1, <1>4 DEF PlacesInv
    <3> QED
      BY <1>1, <3>1, Places
  <2>3. Read(r) <=> start[p] < r[2] /\ r[2] <= position[p]
    BY <1>4, ReadIs
  <2>4. Read(r)' <=> start[p] < r[2] /\ r[2] <= hi[p]
    BY <2>1, <2>2 DEF Read, From, Reached
  <2> QED
    BY <1>1, <1>2, <2>1, <2>2, <2>3, <2>4
<1> QED
  BY <1>3, <1>4

\* What giving up partitions does to a record: nothing, unless it is of the
\* batch in work, or the commit fails.
LEMMA GiveUpReads ==
  ASSUME TypeOK, PlacesInv, NEW ps \in SUBSET Partitions, GiveUp(ps),
         UNCHANGED <<faults, start>>,
         \A p \in Partitions : position'[p] = IF p \in ps THEN Unknown ELSE position[p],
         NEW r \in Records, r \in InWork => r[1] \notin ps
  PROVE  Read(r)' <=> Read(r)
<1> DEFINE p == r[1]
<1>1. p \in Partitions
  BY RecordPlace
<1>2. PICK from \in {position, head} :
        committed' = [q \in Partitions |-> IF q \in ps THEN Offset(from, q) ELSE committed[q]]
  <2>1. faults' # faults + 1
    BY DEF TypeOK
  <2> QED
    BY <2>1 DEF GiveUp
<1>3. CASE p \notin ps
  <2>1. Reached(p)' = Reached(p)
    BY <1>1, <1>2, <1>3 DEF Reached
  <2> QED
    BY <2>1, ReadStays
<1>4. CASE p \in ps
  <2>1. Reached(p)' = Offset(from, p)
    BY <1>1, <1>2, <1>4 DEF Reached
  <2>2. CASE position[p] = Unknown
    <3>1. from[p] = Unknown
      BY <1>1, <2>2 DEF PlacesInv
    <3>2. Reached(p)' = Reached(p)
      BY <2>1, <2>2, <3>1 DEF Reached, Offset
    <3> QED
      BY <3>2, ReadStays
  <2>3. CASE position[p] # Unknown
    <3>1. /\ from[p] # Unknown /\ start[p] # Unknown
          /\ start[p] <= head[p] /\ head[p] <= position[p]
      BY <1>1, <2>3 DEF PlacesInv
    <3>2. Read(r)' <=> start[p] < r[2] /\ r[2] <= from[p]
      BY <2>1, <3>1 DEF Read, From, Offset
    <3>3. Read(r) <=> start[p] < r[2] /\ r[2] <= position[p]
      BY <2>3, ReadIs
    <3>4. ~(head[p] < r[2] /\ r[2] <= position[p])
      BY <1>4 DEF InWork
    <3> QED
      BY <1>1, <3>1, <3>2, <3>3, <3>4, Places, RecordPlace
  <2> QED
    BY <2>2, <2>3
<1> QED
  BY <1>3, <1>4
-----------------------------------------------------------------------------
\* A step keeps the places of a partition in order.
LEMMA PlacesStep ==
  ASSUME TypeOK, PlacesInv, [Next]_vars
  PROVE  PlacesInv'
<1>1. ASSUME NEW c \in Consumers,
             Start(c) \/ StartFails(c) \/ FetchError(c) \/ Wake(c) \/ Signal(c)
      PROVE  PlacesInv'
  BY <1>1 DEF Start, StartFails, FetchError, Wake, Signal, group, history, PlacesInv
<1>2. ASSUME NEW c \in Consumers, Close(c) \/ Crash(c) PROVE PlacesInv'
  <2>1. UNCHANGED start /\ Leave(c)
    BY <1>2 DEF Close, Crash
  <2>2. \A p \in Partitions : committed'[p] \in {position[p], head[p], committed[p]}
    BY <1>2, GiveUpStep DEF Close, Crash, Owned
  <2> SUFFICES ASSUME NEW p \in Partitions
               PROVE  /\ owner'[p] = NoOne => position'[p] = Unknown
                      /\ position'[p] = Unknown <=> head'[p] = Unknown
                      /\ position'[p] # Unknown => /\ start'[p] # Unknown /\ start'[p] <= head'[p]
                                                   /\ head'[p] <= position'[p]
                      /\ committed'[p] # Unknown => start'[p] # Unknown /\ start'[p] <= committed'[p]
    BY DEF PlacesInv
  <2>3. CASE owner[p] = c
    BY <2>1, <2>2, <2>3, Places DEF Leave, PlacesInv
  <2>4. CASE owner[p] # c
    BY <2>1, <2>2, <2>4, Places DEF Leave, PlacesInv
  <2> QED
    BY <2>3, <2>4
<1>3. ASSUME NEW c \in Consumers, AutoCommit(c) PROVE PlacesInv'
  <2>1. UNCHANGED <<owner, position, head, start>>
    BY <1>3 DEF AutoCommit, history
  <2>2. \A p \in Partitions : committed'[p] \in {head[p], committed[p]}
    BY <1>3 DEF AutoCommit, Offset
  <2> QED
    BY <2>1, <2>2 DEF PlacesInv
<1>4. ASSUME NEW c \in Consumers, NEW hi \in Reach(c), PollTo(c, hi) PROVE PlacesInv'
  <2>1. /\ UNCHANGED <<owner, committed, start>>
        /\ position' = hi /\ head' \in {head, hi}
    BY <1>4 DEF PollTo, PyPoll, PyRaise, GoPoll, GoPollCancelled, history
  <2>2. ASSUME NEW p \in Partitions
        PROVE  /\ owner[p] = NoOne => hi[p] = Unknown
               /\ hi[p] = Unknown <=> head'[p] = Unknown
               /\ hi[p] # Unknown => /\ start[p] # Unknown /\ start[p] <= head'[p]
                                     /\ head'[p] <= hi[p]
    <3>1. CASE position[p] = Unknown
      BY <2>1, <3>1 DEF Reach, PlacesInv
    <3>2. CASE position[p] # Unknown
      <4>1. hi[p] = position[p] \/ hi[p] \in position[p]..stored[p]
        BY <3>2 DEF Reach
      <4>2. /\ owner[p] # NoOne /\ head[p] # Unknown /\ start[p] # Unknown
            /\ start[p] <= head[p] /\ head[p] <= position[p]
        BY <3>2 DEF PlacesInv
      <4>3. hi[p] \in Int /\ position[p] <= hi[p] /\ hi[p] # Unknown
        BY <3>2, <4>1, Places
      <4> QED
        BY <2>1, <4>2, <4>3, Places
    <3> QED
      BY <3>1, <3>2
  <2> QED
    BY <2>1, <2>2 DEF PlacesInv
<1>5. ASSUME NEW c \in Consumers, NEW r \in batch[c], GoCount(c, r) PROVE PlacesInv'
  <2>1. UNCHANGED <<owner, position, committed, start>>
    BY <1>5 DEF GoCount, history
  <2>2. \A p \in Partitions : head'[p] \in {position[p], head[p]}
    BY <1>5 DEF GoCount, TypeOK
  <2>3. \A p \in Partitions : position[p] <= position[p]
    BY Places
  <2>4. \A p \in Partitions : /\ position[p] \in Int /\ head[p] \in Int /\ start[p] \in Int
    BY Places
  <2> QED
    BY <2>1, <2>2, <2>3, <2>4 DEF PlacesInv
<1>6. ASSUME NEW assignment \in Balanced, Rebalance(assignment) PROVE PlacesInv'
  <2>1. UNCHANGED start /\ owner' = assignment
    BY <1>6 DEF Rebalance
  <2>2. \A p \in Partitions : assignment[p] # NoOne
    BY ConsumersAssumption DEF Balanced, Reading
  <2>3. \A p \in Partitions : committed'[p] \in {position[p], head[p], committed[p]}
    BY <1>6, GiveUpStep DEF Rebalance
  <2>4. \A p \in Partitions : \/ (position'[p] = position[p] /\ head'[p] = head[p])
                              \/ (position'[p] = Unknown /\ head'[p] = Unknown)
    BY <1>6 DEF Rebalance
  <2>5. \A p \in Partitions : /\ position[p] \in Int /\ head[p] \in Int /\ start[p] \in Int
    BY Places
  <2> QED
    BY <2>1, <2>2, <2>3, <2>4, <2>5 DEF PlacesInv
<1>7. ASSUME NEW p \in Partitions, Resolve(p) PROVE PlacesInv'
  <2>1. UNCHANGED <<owner, committed>> /\ owner[p] # NoOne
    BY <1>7 DEF Resolve
  <2>2. \A q \in Partitions \ {p} : /\ position'[q] = position[q] /\ head'[q] = head[q]
                                   /\ start'[q] = start[q]
    BY <1>7 DEF Resolve, TypeOK
  <2>3. CASE committed[p] = Unknown
    <3>1. position'[p] = stored[p] /\ head'[p] = stored[p] /\ start'[p] = stored[p]
      BY <1>7, <2>3 DEF Resolve, TypeOK
    <3> QED
      BY <2>1, <2>2, <2>3, <3>1, Places DEF PlacesInv
  <2>4. CASE committed[p] # Unknown
    <3>1. position'[p] = committed[p] /\ head'[p] = committed[p] /\ start'[p] = start[p]
      BY <1>7, <2>4 DEF Resolve, TypeOK
    <3> QED
      BY <2>1, <2>2, <2>4, <3>1, Places DEF PlacesInv
  <2> QED
    BY <2>3, <2>4
<1>8. ASSUME NEW p \in Partitions, Produce(p) PROVE PlacesInv'
  BY <1>8 DEF Produce, group, history, PlacesInv
<1>9. CASE UNCHANGED vars
  BY <1>9 DEF vars, group, history, PlacesInv
<1> QED
  BY <1>1, <1>2, <1>3, <1>4, <1>5, <1>6, <1>7, <1>8, <1>9, StepKinds

\* Only a partition with a consumer has work.
LEMMA WorkHasOwner ==
  ASSUME TypeOK, PlacesInv, NEW r \in InWork
  PROVE  /\ r \in Records /\ r[1] \in Partitions /\ owner[r[1]] \in Consumers
         /\ position[r[1]] # Unknown /\ head[r[1]] # Unknown
<1>1. r \in Records /\ head[r[1]] < r[2] /\ r[2] <= position[r[1]]
  BY DEF InWork
<1>2. position[r[1]] # Unknown
  BY <1>1, RecordPlace, Places
<1> QED
  BY <1>1, <1>2, RecordPlace DEF PlacesInv, TypeOK

\* A step keeps the work with the owner of its partition.
LEMMA WorkStep ==
  ASSUME TypeOK, BatchInv, PlacesInv, WorkInv, [Next]_vars
  PROVE  WorkInv'
<1>t. /\ owner \in [Partitions -> Consumers \cup {NoOne}]
      /\ batch \in [Consumers -> SUBSET Records] /\ pc \in [Consumers -> PCs]
      /\ NoOne \notin Consumers
  BY ConsumersAssumption DEF TypeOK
<1>w. /\ \A c \in Consumers : \A r \in batch[c] :
           r \in torn \/ (owner[r[1]] = c /\ r \in InWork)
      /\ \A r \in InWork : r \in torn \/ AtWork(r)
      /\ lang = "go" => raised = {}
  BY DEF WorkInv
<1>1. ASSUME NEW c \in Consumers, \/ Start(c) \/ StartFails(c) \/ FetchError(c) \/ Wake(c)
                                  \/ Signal(c) \/ AutoCommit(c)
      PROVE  WorkInv'
  <2>1. UNCHANGED <<lang, owner, position, head, batch, torn, dropped, raised>>
    BY <1>1 DEF Start, StartFails, FetchError, Wake, Signal, AutoCommit, group, client, history
  <2>2. \/ pc' = pc
        \/ pc[c] \notin {"handle", "stopping"} /\ \E l \in PCs : pc' = [pc EXCEPT ![c] = l]
    BY <1>1 DEF Start, StartFails, FetchError, Wake, Signal, AutoCommit, client, Ended, LoopTop, PCs
  <2>3. \A r \in InWork : owner[r[1]] \in Consumers
    BY WorkHasOwner
  <2>4. \A d \in Consumers : pc[d] \in {"handle", "stopping"} => pc'[d] = pc[d]
    BY <2>2, <1>t
  <2>5. InWork' = InWork
    BY <2>1 DEF InWork
  <2> QED
    BY <1>w, <2>1, <2>3, <2>4, <2>5 DEF WorkInv, AtWork
<1>2. ASSUME NEW c \in Consumers, Close(c) \/ Crash(c) PROVE WorkInv'
  <2>1. /\ Leave(c) /\ UNCHANGED <<lang, torn, raised>>
        /\ dropped \subseteq dropped'
        /\ \A d \in Consumers \ {c} : pc'[d] = pc[d]
    BY <1>2, <1>t DEF Close, Crash, Ended
  <2>2. \A p \in Partitions :
          IF owner[p] = c
          THEN owner'[p] = NoOne /\ position'[p] = Unknown /\ head'[p] = Unknown
          ELSE owner'[p] = owner[p] /\ position'[p] = position[p] /\ head'[p] = head[p]
    BY <2>1 DEF Leave
  <2>3. ASSUME NEW r \in Records
        PROVE  /\ r \in InWork' => r \in InWork /\ owner[r[1]] # c
               /\ r \in InWork /\ owner[r[1]] # c => r \in InWork'
    BY <2>2, RecordPlace DEF InWork, Unknown
  <2>4. ASSUME NEW d \in Consumers, NEW r \in batch'[d], r \notin torn'
        PROVE  owner'[r[1]] = d /\ r \in InWork'
    <3>1. d # c /\ r \in batch[d]
      BY <2>1, <1>t DEF Leave
    <3>2. owner[r[1]] = d /\ r \in InWork
      BY <1>w, <2>1, <2>4, <3>1
    <3> QED
      BY <2>2, <2>3, <3>1, <3>2, WorkHasOwner
  <2>5. ASSUME NEW r \in InWork', r \notin torn'
        PROVE  AtWork(r)'
    <3>1. r \in InWork /\ owner[r[1]] # c
      BY <2>3 DEF InWork
    <3>2. owner[r[1]] \in Consumers /\ r[1] \in Partitions
      BY <3>1, WorkHasOwner
    <3> QED
      BY <1>w, <2>1, <2>2, <2>5, <3>1, <3>2 DEF AtWork
  <2> QED
    BY <1>w, <2>1, <2>4, <2>5 DEF WorkInv
<1>3. ASSUME NEW c \in Consumers, NEW hi \in Reach(c), pc[c] = "poll", lang = "py",
             position' = hi, head' = hi, UNCHANGED <<lang, owner, batch, torn>>
      PROVE  WorkInv'
  <2>1. \A d \in Consumers : batch[d] = {}
    BY <1>3 DEF BatchInv
  <2>2. InWork' = {}
    <3>1. ASSUME NEW r \in Records PROVE ~(hi[r[1]] < r[2] /\ r[2] <= hi[r[1]])
      <4>1. hi[r[1]] \in Int
        BY RecordPlace, RecordsType DEF Reach
      <4> QED
        BY <4>1, RecordPlace
    <3> QED
      BY <1>3, <3>1 DEF InWork
  <2> QED
    BY <1>3, <2>1, <2>2 DEF WorkInv
<1>4. ASSUME NEW c \in Consumers, NEW hi \in Reach(c), GoPoll(c, hi) \/ GoPollCancelled(c, hi)
      PROVE  WorkInv'
  <2>1. /\ UNCHANGED <<lang, owner, head, torn, raised>> /\ position' = hi
        /\ dropped \subseteq dropped' /\ pc[c] = "poll"
        /\ \A d \in Consumers \ {c} : pc'[d] = pc[d] /\ batch'[d] = batch[d]
        /\ batch'[c] \subseteq Taken(hi)
        /\ \/ batch'[c] = Taken(hi) /\ pc'[c] = "handle"
           \/ Taken(hi) \subseteq dropped' /\ batch'[c] = {} /\ pc'[c] = "stopping"
    BY <1>4, <1>t DEF GoPoll, GoPollCancelled, BatchInv, history
  <2>2. ASSUME NEW r \in Records
        PROVE  /\ r \in Taken(hi) => owner[r[1]] = c /\ r \in InWork'
               /\ r \in InWork => r \in InWork'
               /\ r \in InWork' => r \in InWork \/ r \in Taken(hi)
    <3> DEFINE p == r[1]
    <3>1. /\ p \in Partitions /\ r[2] \in Int /\ r[2] >= 1
          /\ position[p] \in Int /\ head[p] \in Int /\ hi[p] \in Int /\ Unknown = -1
      <4>1. hi[p] \in Offsets
        BY RecordPlace DEF Reach
      <4> QED
        BY <4>1, RecordPlace, Places, RecordsType
    <3>2. /\ hi[p] = position[p] \/ (owner[p] = c /\ position[p] # Unknown /\ position[p] <= hi[p])
      BY <3>1, Places DEF Reach
    <3>3. position[p] # Unknown => head[p] <= position[p]
      BY <3>1 DEF PlacesInv
    <3>4. /\ r \in Taken(hi) <=> position[p] < r[2] /\ r[2] <= hi[p]
          /\ r \in InWork <=> head[p] < r[2] /\ r[2] <= position[p]
          /\ r \in InWork' <=> head[p] < r[2] /\ r[2] <= hi[p]
      BY <2>1 DEF Taken, InWork
    <3> QED
      BY <3>1, <3>2, <3>3, <3>4
  <2>3. ASSUME NEW d \in Consumers, NEW r \in batch'[d], r \notin torn'
        PROVE  owner'[r[1]] = d /\ r \in InWork'
    <3>1. CASE d = c
      <4>1. r \in Taken(hi) /\ r \in Records
        BY <2>1, <2>3, <3>1 DEF Taken
      <4> QED
        BY <2>1, <2>2, <3>1, <4>1
    <3>2. CASE d # c
      <4>1. r \in batch[d] /\ r \in Records
        BY <2>1, <2>3, <3>2, <1>t
      <4> QED
        BY <1>w, <2>1, <2>2, <2>3, <4>1
    <3> QED
      BY <3>1, <3>2
  <2>4. ASSUME NEW r \in InWork', r \notin torn'
        PROVE  AtWork(r)'
    <3>1. r \in Records
      BY DEF InWork
    <3>2. CASE r \in Taken(hi)
      BY <2>1, <2>2, <2>4, <3>1, <3>2 DEF AtWork
    <3>3. CASE r \in InWork
      <4>1. owner[r[1]] \in Consumers /\ AtWork(r)
        BY <1>w, <2>1, <2>4, <3>3, WorkHasOwner
      <4>2. owner[r[1]] # c
        BY <2>1, <4>1 DEF AtWork
      <4> QED
        BY <2>1, <4>1, <4>2 DEF AtWork
    <3> QED
      BY <2>2, <3>1, <3>2, <3>3
  <2> QED
    BY <1>w, <2>1, <2>3, <2>4 DEF WorkInv
<1>5. ASSUME NEW c \in Consumers, NEW r \in batch[c], GoCount(c, r) PROVE WorkInv'
  <2>1. /\ UNCHANGED <<lang, owner, position, torn, dropped, raised>>
        /\ batch' = [batch EXCEPT ![c] = @ \ {r}] /\ pc[c] = "handle"
    BY <1>5 DEF GoCount, history
  <2>2. CASE batch[c] # {r}
    <3>1. UNCHANGED <<pc, head>>
      BY <1>5, <2>2 DEF GoCount
    <3>2. InWork' = InWork
      BY <2>1, <3>1 DEF InWork
    <3>3. \A d \in Consumers : batch'[d] \subseteq batch[d]
      BY <2>1, <1>t
    <3> QED
      BY <1>w, <2>1, <3>1, <3>2, <3>3 DEF WorkInv, AtWork
  <2>3. CASE batch[c] = {r}
    <3>1. /\ \A d \in Consumers \ {c} : pc'[d] = pc[d] /\ batch'[d] = batch[d]
          /\ batch'[c] = {}
          /\ \A p \in Partitions : head'[p] = IF owner[p] = c THEN position[p] ELSE head[p]
      BY <1>5, <2>1, <2>3, <1>t DEF GoCount
    <3>2. ASSUME NEW s \in Records
          PROVE  s \in InWork' <=> s \in InWork /\ owner[s[1]] # c
      <4>1. s[1] \in Partitions /\ position[s[1]] \in Int /\ s[2] \in Int
        BY RecordPlace, Places
      <4> QED
        BY <2>1, <3>1, <4>1 DEF InWork
    <3>3. ASSUME NEW d \in Consumers, NEW s \in batch'[d], s \notin torn
          PROVE  owner[s[1]] = d /\ s \in InWork'
      <4>1. d # c /\ s \in batch[d] /\ s \in Records
        BY <3>1, <3>3, <1>t
      <4> QED
        BY <1>w, <3>2, <3>3, <4>1
    <3>4. ASSUME NEW s \in InWork', s \notin torn
          PROVE  AtWork(s)'
      <4>1. s \in InWork /\ owner[s[1]] # c
        BY <3>2 DEF InWork
      <4> QED
        BY <1>w, <2>1, <3>1, <3>4, <4>1, WorkHasOwner DEF AtWork
    <3> QED
      BY <1>w, <2>1, <3>3, <3>4 DEF WorkInv
  <2> QED
    BY <2>2, <2>3
<1>6. ASSUME NEW assignment \in Balanced, Rebalance(assignment) PROVE WorkInv'
  <2> DEFINE moved == IF lang = "py" THEN Partitions
                      ELSE {p \in Partitions : assignment[p] # owner[p]}
  <2>1. /\ UNCHANGED <<lang, pc, batch, dropped, raised>> /\ owner' = assignment
        /\ position' = [p \in Partitions |-> IF p \in moved THEN Unknown ELSE position[p]]
        /\ head' = [p \in Partitions |-> IF p \in moved THEN Unknown ELSE head[p]]
        /\ torn' = torn \cup {r \in InWork : r[1] \in moved}
    BY <1>6 DEF Rebalance, client
  <2>2. \A p \in Partitions \ moved : assignment[p] = owner[p]
    OBVIOUS
  <2> HIDE DEF moved
  <2>3. ASSUME NEW r \in Records
        PROVE  r \in InWork' <=> r \in InWork /\ r[1] \notin moved
    BY <2>1, RecordPlace DEF InWork, Unknown
  <2>4. ASSUME NEW d \in Consumers, NEW r \in batch[d], r \notin torn'
        PROVE  owner'[r[1]] = d /\ r \in InWork'
    <3>1. owner[r[1]] = d /\ r \in InWork
      BY <1>w, <2>1, <2>4
    <3>2. r[1] \in Partitions \ moved /\ r \in Records
      BY <2>1, <2>4, <3>1, WorkHasOwner
    <3> QED
      BY <2>1, <2>2, <2>3, <3>1, <3>2
  <2>5. ASSUME NEW r \in InWork', r \notin torn'
        PROVE  AtWork(r)'
    <3>1. r \in InWork /\ r[1] \notin moved
      BY <2>3 DEF InWork
    <3>2. r[1] \in Partitions
      BY <3>1, WorkHasOwner
    <3> QED
      BY <1>w, <2>1, <2>2, <2>5, <3>1, <3>2 DEF AtWork
  <2> QED
    BY <1>w, <2>1, <2>4, <2>5 DEF WorkInv
<1>7. ASSUME NEW p \in Partitions, Resolve(p) PROVE WorkInv'
  <2>1. UNCHANGED <<lang, owner, pc, batch, torn, dropped, raised>> /\ position[p] = Unknown
    BY <1>7 DEF Resolve, client
  <2>2. /\ \A q \in Partitions \ {p} : position'[q] = position[q] /\ head'[q] = head[q]
        /\ position'[p] = head'[p] /\ position'[p] \in Int
    BY <1>7, Places DEF Resolve, TypeOK
  <2>3. ASSUME NEW r \in Records PROVE r \in InWork' <=> r \in InWork
    <3>1. CASE r[1] = p
      <4>1. r \notin InWork
        BY <2>1, <3>1, WorkHasOwner
      <4>2. r \notin InWork'
        BY <2>2, <3>1, RecordPlace DEF InWork
      <4> QED
        BY <4>1, <4>2
    <3>2. CASE r[1] # p
      BY <2>2, <3>2, RecordPlace DEF InWork
    <3> QED
      BY <3>1, <3>2
  <2>4. InWork' = InWork
    BY <2>3 DEF InWork
  <2> QED
    BY <1>w, <2>1, <2>4 DEF WorkInv, AtWork
<1>8. ASSUME UNCHANGED <<lang, owner, position, head, pc, batch, torn, dropped, raised>>
      PROVE  WorkInv'
  BY <1>w, <1>8 DEF WorkInv, AtWork, InWork
<1>9. ASSUME NEW p \in Partitions, Produce(p) PROVE WorkInv'
  BY <1>8, <1>9 DEF Produce, group, client, history
<1>10. CASE UNCHANGED vars
  BY <1>8, <1>10 DEF vars, group, client, history
<1>11. ASSUME NEW c \in Consumers, NEW hi \in Reach(c), pc[c] = "poll", PollTo(c, hi)
       PROVE  WorkInv'
  <2>1. CASE \/ PyPoll(c, hi)
             \/ \E e \in Bad(Taken(hi)), ps \in SUBSET Partitions : PyRaise(c, hi, e, ps)
    BY <1>3, <1>11, <2>1 DEF PyPoll, PyRaise, history
  <2> QED
    BY <1>4, <1>11, <2>1 DEF PollTo
<1> QED
  BY <1>1, <1>2, <1>5, <1>6, <1>7, <1>9, <1>10, <1>11, StepKinds
-----------------------------------------------------------------------------
\* A step that counts nothing, and reads nothing but of what it disturbs.
LEMMA ExactStays ==
  ASSUME ExactInv, faults' = 0 => faults = 0,
         torn \subseteq torn', dropped \subseteq dropped',
         UNCHANGED <<consumed, errors, raised>>,
         faults' = 0 => \A r \in Records \ (torn' \cup dropped') :
                          /\ r \in InHand' <=> r \in InHand
                          /\ Read(r)' <=> Read(r)
  PROVE  ExactInv'
<1> SUFFICES ASSUME faults' = 0, NEW r \in Records, r \notin torn' \cup dropped'
             PROVE  ExactFor(r)'
  BY DEF ExactInv
<1>1. ExactFor(r)
  BY DEF ExactInv
<1>2. Count(r)' = Count(r)
  BY DEF Count
<1> QED
  BY <1>1, <1>2 DEF ExactFor

\* Nobody has counted a record that a poll takes.
LEMMA TakenIsNew ==
  ASSUME TypeOK, PlacesInv, ExactInv, faults = 0, NEW c \in Consumers, NEW hi \in Reach(c),
         position' = hi, UNCHANGED <<start, committed>>,
         NEW r \in Taken(hi), r \notin torn \cup dropped
  PROVE  r \in Records /\ ~Read(r) /\ r \notin raised /\ Count(r) = 0 /\ Read(r)'
<1>1. r \in Records
  BY DEF Taken
<1>2. ~Read(r) /\ Read(r)'
  BY <1>1, PollReads
<1>3. ExactFor(r)
  BY <1>1 DEF ExactInv
<1> QED
  BY <1>1, <1>2, <1>3 DEF ExactFor

\* A poll of Python counts all that it takes, once, up to an exception.
LEMMA ExactPyPoll ==
  ASSUME TypeOK, BatchInv, PlacesInv, ExactInv, lang = "py",
         NEW c \in Consumers, NEW hi \in Reach(c), NEW done \in SUBSET Taken(hi),
         NEW left \in SUBSET Taken(hi),
         position' = hi, UNCHANGED <<lang, batch, start, committed, dropped, torn, faults>>,
         CountRecords(done), raised' = raised \cup left,
         \A r \in Taken(hi) :
           r \notin left <=> /\ r \in done
                             /\ CountsConsumed(lang, ValueOf(r)) \/ CountsError(lang, ValueOf(r))
  PROVE  ExactInv'
<1> SUFFICES ASSUME faults = 0, NEW r \in Records, r \notin torn \cup dropped
             PROVE  ExactFor(r)'
  BY DEF ExactInv
<1>1. r \notin InHand /\ r \notin InHand'
  BY DEF BatchInv, InHand
<1>2. Count(r)' = Count(r) +
        IF /\ r \in done
           /\ CountsConsumed(lang, ValueOf(r)) \/ CountsError(lang, ValueOf(r))
        THEN 1 ELSE 0
  BY CountRecordsExact
<1>3. CASE r \in Taken(hi)
  <2>1. ~Read(r) /\ r \notin raised /\ Count(r) = 0 /\ Read(r)'
    BY <1>3, TakenIsNew
  <2> QED
    BY <1>1, <1>2, <1>3, <2>1 DEF ExactFor
<1>4. CASE r \notin Taken(hi)
  <2>1. Read(r)' <=> Read(r)
    BY <1>4, PollReads
  <2>2. ExactFor(r) /\ r \notin done /\ (r \in raised' <=> r \in raised)
    BY <1>4 DEF ExactInv
  <2>3. Count(r) \in Nat
    BY DEF Count, TypeOK
  <2>4. Count(r)' = Count(r)
    BY <1>2, <2>2, <2>3
  <2> QED
    BY <1>1, <2>1, <2>2, <2>4 DEF ExactFor
<1> QED
  BY <1>3, <1>4

\* A step keeps every undisturbed record counted exactly as often as it was
\* read.
LEMMA ExactStep ==
  ASSUME TypeOK, BatchInv, PlacesInv, WorkInv, ExactInv, [Next]_vars
  PROVE  ExactInv'
<1>t. /\ lang \in {"py", "go"} /\ faults \in Nat
      /\ owner \in [Partitions -> Consumers \cup {NoOne}]
      /\ batch \in [Consumers -> SUBSET Records]
  BY DEF TypeOK
<1>1. ASSUME UNCHANGED <<position, committed, start, batch, consumed, errors,
                         dropped, raised, torn, faults>>
      PROVE  ExactInv'
  BY <1>1 DEF ExactInv, ExactFor, Read, From, Reached, Count, InHand
<1>2. ASSUME NEW c \in Consumers, Start(c) \/ FetchError(c) \/ Wake(c) \/ Signal(c)
      PROVE  ExactInv'
  BY <1>1, <1>2 DEF Start, FetchError, Wake, Signal, group, counters, history
<1>3. ASSUME NEW c \in Consumers, StartFails(c) \/ Crash(c) PROVE ExactInv'
  <2>1. faults' # 0
    BY <1>3, <1>t DEF StartFails, Crash
  <2> QED
    BY <2>1 DEF ExactInv
<1>4. ASSUME NEW c \in Consumers, Close(c) PROVE ExactInv'
  <2>1. /\ UNCHANGED <<consumed, errors, start, dropped, raised, torn>>
        /\ pc[c] = "stopping" /\ GiveUp(Owned(c)) /\ Leave(c)
    BY <1>4 DEF Close, counters
  <2>2. faults' = 0 => faults = 0
    BY <2>1, <1>t DEF GiveUp
  <2>3. batch[c] = {}
    BY <2>1 DEF BatchInv
  <2>4. InHand' = InHand
    <3>1. \A d \in Consumers : batch'[d] = batch[d]
      BY <2>1, <2>3, <1>t DEF Leave
    <3> QED
      BY <3>1 DEF InHand
  <2>5. ASSUME faults' = 0, NEW r \in Records, r \notin torn \cup dropped
        PROVE  Read(r)' <=> Read(r)
    <3>1. r \in InWork => r[1] \notin Owned(c)
      BY <2>1, <2>5 DEF WorkInv, AtWork, Owned
    <3>2. \A p \in Partitions :
            position'[p] = IF p \in Owned(c) THEN Unknown ELSE position[p]
      BY <2>1 DEF Leave, Owned
    <3>3. Owned(c) \in SUBSET Partitions
      BY DEF Owned
    <3> QED
      BY <2>1, <2>2, <2>5, <3>1, <3>2, <3>3, GiveUpReads
  <2> QED
    BY <2>1, <2>2, <2>4, <2>5, ExactStays
<1>5. ASSUME NEW c \in Consumers, AutoCommit(c) PROVE ExactInv'
  <2>1. /\ UNCHANGED <<position, start, batch, consumed, errors, dropped, raised, torn, faults>>
        /\ committed' = [p \in Partitions |->
                           IF owner[p] = c THEN Offset(head, p) ELSE committed[p]]
    BY <1>5 DEF AutoCommit, client, counters, history
  <2>2. \A p \in Partitions : Reached(p)' = Reached(p)
    BY <2>1 DEF Reached, Offset, PlacesInv
  <2>3. \A r \in Records : Read(r)' <=> Read(r)
    BY <2>1, <2>2, ReadStays, RecordPlace
  <2>4. InHand' = InHand
    BY <2>1 DEF InHand
  <2> QED
    BY <2>1, <2>3, <2>4, ExactStays
<1>6. ASSUME NEW c \in Consumers, NEW hi \in Reach(c), pc[c] = "poll", PyPoll(c, hi)
      PROVE  ExactInv'
  <2>1. /\ UNCHANGED <<lang, batch, start, committed, dropped, raised, torn, faults>>
        /\ position' = hi /\ lang = "py" /\ CountRecords(Taken(hi)) /\ Bad(Taken(hi)) = {}
    BY <1>6 DEF PyPoll, history
  <2>2. ASSUME NEW r \in Taken(hi)
        PROVE  CountsConsumed(lang, ValueOf(r)) \/ CountsError(lang, ValueOf(r))
    <3>1. r \in Records /\ ~Escapes(lang, ValueOf(r))
      BY <2>1 DEF Bad, Taken
    <3> QED
      BY <3>1, <1>t, CountsAll, RecordsType
  <2> QED
    BY <2>1, <2>2, ExactPyPoll
<1>7. ASSUME NEW c \in Consumers, NEW hi \in Reach(c),
             NEW e \in Bad(Taken(hi)), NEW ps \in SUBSET Partitions, PyRaise(c, hi, e, ps)
      PROVE  ExactInv'
  <2> DEFINE done == {r \in Taken(hi) : r[1] \in ps \/ (r[1] = e[1] /\ r[2] <= e[2])}
             left == {r \in Taken(hi) : r \notin done \/
                                        (r = e /\ ~CountsConsumed(lang, ValueOf(e)))}
  <2>1. /\ UNCHANGED <<lang, batch, start, committed, dropped, torn, faults>>
        /\ position' = hi /\ lang = "py" /\ CountRecords(done) /\ Bad(done) = {e}
        /\ raised' = raised \cup left
    BY <1>7 DEF PyRaise
  <2>2. done \in SUBSET Taken(hi) /\ left \in SUBSET Taken(hi)
    OBVIOUS
  <2>3. ASSUME NEW r \in Taken(hi)
        PROVE  r \notin left <=>
                 /\ r \in done
                 /\ CountsConsumed(lang, ValueOf(r)) \/ CountsError(lang, ValueOf(r))
    <3>1. r \in Records /\ ValueOf(r) \in Values
      BY RecordsType DEF Taken
    <3>2. CASE r = e
      <4>1. Escapes(lang, ValueOf(r)) /\ r \in done
        BY <2>1, <3>2 DEF Bad
      <4>2. ~CountsError(lang, ValueOf(r))
        BY <1>t, <3>1, <4>1, CountsOnce
      <4> QED
        BY <3>2, <4>1, <4>2
    <3>3. CASE r # e
      <4>1. r \in done => ~Escapes(lang, ValueOf(r))
        BY <2>1, <3>3 DEF Bad
      <4>2. r \in done => CountsConsumed(lang, ValueOf(r)) \/ CountsError(lang, ValueOf(r))
        BY <1>t, <3>1, <4>1, CountsAll
      <4> QED
        BY <3>3, <4>2
    <3> QED
      BY <3>2, <3>3
  <2> HIDE DEF done, left
  <2> QED
    BY <2>1, <2>2, <2>3, ExactPyPoll
<1>8. ASSUME NEW c \in Consumers, NEW hi \in Reach(c), GoPoll(c, hi) PROVE ExactInv'
  <2>1. /\ UNCHANGED <<start, committed, consumed, errors, dropped, raised, torn, faults>>
        /\ position' = hi /\ batch' = [batch EXCEPT ![c] = Taken(hi)]
    BY <1>8 DEF GoPoll, counters, history
  <2>2. batch[c] = {}
    BY <1>8 DEF GoPoll, BatchInv
  <2>3. \A r : r \in InHand' <=> r \in InHand \/ r \in Taken(hi)
    BY <2>1, <2>2, <1>t DEF InHand
  <2> SUFFICES ASSUME faults = 0, NEW r \in Records, r \notin torn \cup dropped
               PROVE  ExactFor(r)'
    BY <2>1 DEF ExactInv
  <2>4. ExactFor(r) /\ Count(r)' = Count(r)
    BY <2>1 DEF ExactInv, Count
  <2>5. CASE r \in Taken(hi)
    BY <2>1, <2>3, <2>4, <2>5, TakenIsNew DEF ExactFor
  <2>6. CASE r \notin Taken(hi)
    <3>1. Read(r)' <=> Read(r)
      BY <2>1, <2>6, PollReads
    <3> QED
      BY <2>1, <2>3, <2>4, <2>6, <3>1 DEF ExactFor
  <2> QED
    BY <2>5, <2>6
<1>9. ASSUME NEW c \in Consumers, NEW hi \in Reach(c), GoPollCancelled(c, hi) PROVE ExactInv'
  <2>1. /\ UNCHANGED <<start, committed, batch, consumed, errors, raised, torn, faults>>
        /\ position' = hi /\ dropped' = dropped \cup Taken(hi)
    BY <1>9 DEF GoPollCancelled, counters
  <2>2. InHand' = InHand
    BY <2>1 DEF InHand
  <2>3. \A r \in Records \ (torn' \cup dropped') : Read(r)' <=> Read(r)
    BY <2>1, PollReads
  <2> QED
    BY <2>1, <2>2, <2>3, ExactStays
<1>10. ASSUME NEW c \in Consumers, NEW r \in batch[c], GoCount(c, r) PROVE ExactInv'
  <2>1. /\ UNCHANGED <<position, committed, start, dropped, raised, torn, faults>>
        /\ batch' = [batch EXCEPT ![c] = @ \ {r}] /\ CountRecords({r})
        /\ lang = "go" /\ r \in Records
    BY <1>10, <1>t DEF GoCount, BatchInv, history
  <2>2. \A s \in Records : Read(s)' <=> Read(s)
    BY <2>1 DEF Read, From, Reached
  <2> SUFFICES ASSUME faults = 0, NEW s \in Records, s \notin torn \cup dropped
               PROVE  ExactFor(s)'
    BY <2>1 DEF ExactInv
  <2>3. ExactFor(s) /\ Count(s) \in Nat
    BY DEF ExactInv, Count, TypeOK
  <2>4. CASE s # r
    <3>1. s \in InHand' <=> s \in InHand
      BY <2>1, <2>4, <1>t DEF InHand
    <3>2. Count(s)' = Count(s)
      BY <2>1, <2>3, <2>4, CountRecordsExact
    <3> QED
      BY <2>1, <2>2, <2>3, <3>1, <3>2 DEF ExactFor
  <2>5. CASE s = r
    <3>1. owner[r[1]] = c /\ r \in InWork /\ raised = {}
      BY <2>1, <2>5 DEF WorkInv
    <3>2. r \notin InHand'
      <4>1. \A d \in Consumers \ {c} : r \notin batch[d]
        BY <2>5, <3>1 DEF WorkInv
      <4> QED
        BY <2>1, <4>1, <1>t DEF InHand
    <3>3. r \in InHand
      BY DEF InHand
    <3>4. Read(r)
      <4>1. /\ position[r[1]] # Unknown /\ head[r[1]] < r[2] /\ r[2] <= position[r[1]]
        BY <3>1, WorkHasOwner DEF InWork
      <4>2. start[r[1]] <= head[r[1]]
        BY <2>1, <4>1, RecordPlace DEF PlacesInv
      <4> QED
        BY <2>1, <4>1, <4>2, ReadIs, Places, RecordPlace
    <3>5. Count(r)' = Count(r) + 1
      <4>1. CountsConsumed(lang, ValueOf(r)) \/ CountsError(lang, ValueOf(r))
        BY <2>1, <1>t, CountsAll, RecordsType DEF Escapes
      <4> QED
        BY <2>1, <4>1, CountRecordsExact
    <3> QED
      BY <2>1, <2>2, <2>3, <2>5, <3>1, <3>2, <3>3, <3>4, <3>5 DEF ExactFor
  <2> QED
    BY <2>4, <2>5
<1>11. ASSUME NEW assignment \in Balanced, Rebalance(assignment) PROVE ExactInv'
  <2> DEFINE moved == IF lang = "py" THEN Partitions
                      ELSE {p \in Partitions : assignment[p] # owner[p]}
             ps == {p \in moved : owner[p] # NoOne}
  <2>1. /\ UNCHANGED <<batch, consumed, errors, start, dropped, raised>>
        /\ GiveUp(ps)
        /\ position' = [p \in Partitions |-> IF p \in moved THEN Unknown ELSE position[p]]
        /\ torn' = torn \cup {r \in InWork : r[1] \in moved}
    BY <1>11 DEF Rebalance, client, counters
  <2>2. ps \in SUBSET Partitions
    OBVIOUS
  <2>3. \A p \in Partitions : position'[p] = IF p \in ps THEN Unknown ELSE position[p]
    BY <2>1 DEF PlacesInv
  <2>4. \A r \in InWork : r \notin torn' => r[1] \notin ps
    BY <2>1
  <2> HIDE DEF moved, ps
  <2>5. faults' = 0 => faults = 0
    BY <2>1, <1>t DEF GiveUp
  <2>6. InHand' = InHand
    BY <2>1 DEF InHand
  <2>7. faults' = 0 => \A r \in Records \ (torn' \cup dropped') : Read(r)' <=> Read(r)
    BY <2>1, <2>2, <2>3, <2>4, <2>5, GiveUpReads
  <2> QED
    BY <2>1, <2>5, <2>6, <2>7, ExactStays
<1>12. ASSUME NEW p \in Partitions, Resolve(p) PROVE ExactInv'
  <2>1. /\ UNCHANGED <<committed, batch, consumed, errors, dropped, raised, torn, faults>>
        /\ position[p] = Unknown
        /\ \A q \in Partitions \ {p} : position'[q] = position[q] /\ start'[q] = start[q]
    BY <1>12 DEF Resolve, client, counters, TypeOK
  <2>2. InHand' = InHand
    BY <2>1 DEF InHand
  <2>3. ASSUME NEW r \in Records PROVE Read(r)' <=> Read(r)
    <3>1. CASE r[1] # p
      BY <2>1, <3>1, RecordPlace, ReadStays DEF Reached
    <3>2. CASE r[1] = p /\ committed[p] # Unknown
      <4>1. position'[p] = committed[p] /\ start'[p] = start[p]
        BY <1>12, <3>2 DEF Resolve, TypeOK
      <4> QED
        BY <2>1, <3>2, <4>1, ReadStays DEF Reached
    <3>3. CASE r[1] = p /\ committed[p] = Unknown
      <4>1. position'[p] = stored[p] /\ start'[p] = stored[p]
        BY <1>12, <3>3 DEF Resolve, TypeOK
      <4>2. ~Read(r)'
        BY <3>3, <4>1, Places, RecordPlace DEF Read, From, Reached
      <4>3. ~Read(r)
        BY <2>1, <3>3, ReadIs
      <4> QED
        BY <4>2, <4>3
    <3> QED
      BY <3>1, <3>2, <3>3
  <2> QED
    BY <2>1, <2>2, <2>3, ExactStays
<1>13. ASSUME NEW p \in Partitions, Produce(p) PROVE ExactInv'
  BY <1>1, <1>13 DEF Produce, group, client, counters, history
<1>14. CASE UNCHANGED vars
  BY <1>1, <1>14 DEF vars, group, client, counters, history
<1> QED
  BY <1>2, <1>3, <1>4, <1>5, <1>6, <1>7, <1>8, <1>9, <1>10, <1>11, <1>12, <1>13, <1>14, StepKinds
  DEF PollTo

\* The initial states have the places in order, and no work.
LEMMA InitPlaces == Init => BatchInv /\ PlacesInv /\ WorkInv
<1> SUFFICES ASSUME Init PROVE BatchInv /\ PlacesInv /\ WorkInv
  OBVIOUS
<1>1. BatchInv
  BY DEF Init, BatchInv
<1>2. PlacesInv
  BY DEF Init, PlacesInv
<1>3. \A r \in Records : ~(position[r[1]] < r[2] /\ r[2] <= position[r[1]])
  BY RecordPlace DEF Init, Unknown
<1>4. WorkInv
  BY <1>3 DEF Init, WorkInv, InWork
<1> QED
  BY <1>1, <1>2, <1>4

\* However many consumers of either language share the group, and however the
\* partitions move between them: until something fails, a record that the group
\* has read is counted exactly once, and no other is.
THEOREM ExactWhileUndisturbed == Spec => []ExactUnlessDisturbed
<1>1. Init => BatchInv /\ PlacesInv /\ WorkInv /\ ExactInv
  <2>1. Init => ExactInv
    BY RecordPlace DEF Init, ExactInv, ExactFor, Count, Read, From, Reached
  <2> QED
    BY <2>1, InitPlaces
<1>2. ExactInv => ExactUnlessDisturbed
  BY DEF ExactInv, ExactFor, ExactUnlessDisturbed, Read
<1> QED
  BY <1>1, <1>2, TypeCorrect, BatchStep, PlacesStep, WorkStep, ExactStep, PTL DEF Spec
-----------------------------------------------------------------------------
(* How often a record may be counted when something has failed. *)

\* The group is through with a record, as long as nothing fails: it has read it,
\* and neither is it in a batch nor does its consumer drop it on the way out.
Dropping(r) == r \in InWork /\ pc[owner[r[1]]] = "stopping"
Done(r) == Read(r) /\ r \notin InHand /\ ~Dropping(r)

\* A record has been counted at most once per fault, and once more when the
\* group is through with it.
CountInv == \A r \in Records \ torn : Count(r) <= faults + IF Done(r) THEN 1 ELSE 0

\* A record is counted at most once for each crash and each lost commit, and
\* once more.
CountedOncePerFault == \A r \in Records \ torn : Count(r) <= 1 + faults

\* A step that counts nothing: what the group is through with stays so, unless
\* something fails.
LEMMA CountStays ==
  ASSUME TypeOK, CountInv, torn \subseteq torn', UNCHANGED <<consumed, errors>>,
         \/ faults' = faults + 1
         \/ faults' = faults /\ \A r \in Records \ torn' : Done(r) => Done(r)'
  PROVE  CountInv'
<1> SUFFICES ASSUME NEW r \in Records \ torn'
             PROVE  Count(r)' <= faults' + IF Done(r)' THEN 1 ELSE 0
  BY DEF CountInv
<1>1. Count(r)' = Count(r) /\ Count(r) \in Nat /\ faults \in Nat
  BY DEF Count, TypeOK
<1>2. Count(r) <= faults + IF Done(r) THEN 1 ELSE 0
  BY DEF CountInv
<1> HIDE DEF Done, Count
<1>3. CASE Done(r)
  BY <1>1, <1>2, <1>3
<1>4. CASE ~Done(r)
  BY <1>1, <1>2, <1>4
<1> QED
  BY <1>3, <1>4

\* A step that counts some records, which the group is through with then and was
\* not before.
LEMMA CountGrows ==
  ASSUME TypeOK, CountInv, UNCHANGED <<lang, torn, faults>>, NEW rs, CountRecords(rs),
         \A r \in Records \ torn : Done(r) => Done(r)',
         \A r \in (Records \ torn) \cap rs : Done(r)' /\ ~Done(r)
  PROVE  CountInv'
<1> SUFFICES ASSUME NEW r \in Records \ torn
             PROVE  Count(r)' <= faults + IF Done(r)' THEN 1 ELSE 0
  BY DEF CountInv
<1>1. Count(r) \in Nat /\ faults \in Nat
  BY DEF Count, TypeOK
<1>2. Count(r) <= faults + IF Done(r) THEN 1 ELSE 0
  BY DEF CountInv
<1>3. Count(r)' = Count(r) \/ (r \in rs /\ Count(r)' = Count(r) + 1)
  BY <1>1, CountRecordsExact
<1>4. Done(r) => Done(r)'
  OBVIOUS
<1>5. r \in rs => Done(r)' /\ ~Done(r)
  OBVIOUS
<1> HIDE DEF Done, Count
<1>6. CASE r \in rs
  BY <1>1, <1>2, <1>3, <1>5, <1>6
<1>7. CASE r \notin rs /\ Done(r)
  BY <1>1, <1>2, <1>3, <1>4, <1>7
<1>8. CASE r \notin rs /\ ~Done(r)
  BY <1>1, <1>2, <1>3, <1>8
<1> QED
  BY <1>6, <1>7, <1>8

\* A step keeps the count of every record within what its faults allow.
LEMMA CountStep ==
  ASSUME TypeOK, BatchInv, PlacesInv, WorkInv, CountInv, [Next]_vars
  PROVE  CountInv'
<1>t. /\ lang \in {"py", "go"} /\ faults \in Nat
      /\ owner \in [Partitions -> Consumers \cup {NoOne}]
      /\ batch \in [Consumers -> SUBSET Records] /\ pc \in [Consumers -> PCs]
      /\ NoOne \notin Consumers
  BY ConsumersAssumption DEF TypeOK
<1>w. \A r \in InWork \ torn : owner[r[1]] \in Consumers /\ pc[owner[r[1]]] \in {"handle", "stopping"}
  BY WorkHasOwner DEF WorkInv, AtWork
<1>1. ASSUME UNCHANGED <<owner, position, head, committed, start, batch, consumed, errors,
                         torn>>,
             faults' \in {faults, faults + 1}, NEW c \in Consumers,
             \A d \in Consumers \ {c} : pc'[d] = pc[d],
             pc'[c] = pc[c] \/ pc[c] \notin {"handle", "stopping"}
      PROVE  CountInv'
  <2>1. \A r \in Records : Read(r)' <=> Read(r)
    BY <1>1 DEF Read, From, Reached
  <2>2. InHand' = InHand /\ InWork' = InWork
    BY <1>1 DEF InHand, InWork
  <2>3. \A r \in Records \ torn : Dropping(r)' => Dropping(r)
    BY <1>1, <1>w, <2>2 DEF Dropping
  <2>4. \A r \in Records \ torn : Done(r) => Done(r)'
    BY <2>1, <2>2, <2>3 DEF Done
  <2> QED
    BY <1>1, <2>4, CountStays
<1>2. ASSUME NEW c \in Consumers, \/ Start(c) \/ StartFails(c) \/ FetchError(c) \/ Wake(c)
                                  \/ Signal(c)
      PROVE  CountInv'
  <2>1. /\ UNCHANGED <<owner, position, head, committed, start, batch, consumed, errors, torn>>
        /\ faults' \in {faults, faults + 1}
    BY <1>2 DEF Start, StartFails, FetchError, Wake, Signal, group, counters, history
  <2>2. /\ \A d \in Consumers \ {c} : pc'[d] = pc[d]
        /\ pc'[c] = pc[c] \/ pc[c] \notin {"handle", "stopping"}
    BY <1>2, <1>t DEF Start, StartFails, FetchError, Wake, Signal, Ended
  <2> QED
    BY <1>1, <2>1, <2>2
<1>3. ASSUME NEW c \in Consumers, Crash(c) PROVE CountInv'
  BY <1>3, CountStays DEF Crash, counters
<1>4. ASSUME NEW c \in Consumers, Close(c) PROVE CountInv'
  <2>1. /\ UNCHANGED <<consumed, errors, start, torn>>
        /\ pc[c] = "stopping" /\ GiveUp(Owned(c)) /\ Leave(c)
        /\ \A d \in Consumers \ {c} : pc'[d] = pc[d]
    BY <1>4, <1>t DEF Close, counters, Ended
  <2>2. faults' \in {faults, faults + 1}
    BY <2>1 DEF GiveUp
  <2>3. InHand' = InHand
    <3>1. \A d \in Consumers : batch'[d] = batch[d]
      BY <2>1, <1>t DEF Leave, BatchInv
    <3> QED
      BY <3>1 DEF InHand
  <2>4. /\ \A p \in Partitions :
             position'[p] = IF p \in Owned(c) THEN Unknown ELSE position[p]
        /\ \A p \in Partitions :
             IF owner[p] = c
             THEN owner'[p] = NoOne /\ position'[p] = Unknown /\ head'[p] = Unknown
             ELSE owner'[p] = owner[p] /\ position'[p] = position[p] /\ head'[p] = head[p]
    BY <2>1 DEF Leave, Owned
  <2>5. ASSUME NEW r \in Records \ torn, Done(r), faults' = faults PROVE Done(r)'
    <3>1. r \in InWork => r[1] \notin Owned(c)
      BY <2>1, <2>5 DEF Done, Dropping, Owned
    <3>2. Read(r)'
      BY <2>1, <2>4, <2>5, <3>1, GiveUpReads DEF Owned, Done
    <3>3. ASSUME r \in InWork' PROVE ~Dropping(r)'
      <4>1. r \in InWork /\ owner[r[1]] # c
        BY <2>4, <3>3, RecordPlace DEF InWork, Unknown
      <4>2. owner'[r[1]] = owner[r[1]] /\ pc'[owner[r[1]]] = pc[owner[r[1]]]
        BY <1>w, <2>1, <2>4, <4>1, RecordPlace
      <4> QED
        BY <2>5, <4>1, <4>2 DEF Done, Dropping
    <3> QED
      BY <2>3, <2>5, <3>2, <3>3 DEF Done, Dropping
  <2> QED
    BY <2>1, <2>2, <2>5, CountStays
<1>5. ASSUME NEW c \in Consumers, AutoCommit(c) PROVE CountInv'
  <2>1. /\ UNCHANGED <<owner, position, head, start, pc, batch, consumed, errors, torn, faults>>
        /\ committed' = [p \in Partitions |->
                           IF owner[p] = c THEN Offset(head, p) ELSE committed[p]]
    BY <1>5 DEF AutoCommit, client, counters, history
  <2>2. \A p \in Partitions : Reached(p)' = Reached(p)
    BY <2>1 DEF Reached, Offset, PlacesInv
  <2>3. \A r \in Records : Read(r)' <=> Read(r)
    BY <2>1, <2>2, ReadStays, RecordPlace
  <2>4. InHand' = InHand /\ InWork' = InWork
    BY <2>1 DEF InHand, InWork
  <2>5. \A r \in Records \ torn : Done(r) => Done(r)'
    BY <2>1, <2>3, <2>4 DEF Done, Dropping
  <2> QED
    BY <2>1, <2>5, CountStays
<1>6. ASSUME NEW c \in Consumers, NEW hi \in Reach(c), NEW done \in SUBSET Taken(hi),
             lang = "py", position' = hi, head' = hi, CountRecords(done),
             UNCHANGED <<lang, batch, start, committed, torn, faults>>
      PROVE  CountInv'
  <2>1. InHand = {} /\ InHand' = {}
    BY <1>6 DEF BatchInv, InHand
  <2>2. InWork' = {}
    <3>1. ASSUME NEW r \in Records PROVE ~(hi[r[1]] < r[2] /\ r[2] <= hi[r[1]])
      <4>1. hi[r[1]] \in Int
        BY RecordPlace, RecordsType DEF Reach
      <4> QED
        BY <4>1, RecordPlace
    <3> QED
      BY <1>6, <3>1 DEF InWork
  <2>3. \A r \in Records : Done(r)' <=> Read(r)'
    BY <2>1, <2>2 DEF Done, Dropping
  <2>4. ASSUME NEW r \in Records
        PROVE  /\ Done(r) => Done(r)'
               /\ r \in done => Done(r)' /\ ~Done(r)
    <3>1. /\ Read(r)' <=> Read(r) \/ r \in Taken(hi)
          /\ r \in Taken(hi) => ~Read(r)
      BY <1>6, PollReads
    <3> QED
      BY <2>3, <3>1 DEF Done
  <2> QED
    BY <1>6, <2>4, CountGrows
<1>7. ASSUME NEW c \in Consumers, NEW hi \in Reach(c), GoPoll(c, hi) \/ GoPollCancelled(c, hi)
      PROVE  CountInv'
  <2>1. /\ UNCHANGED <<owner, head, start, committed, consumed, errors, torn, faults>>
        /\ position' = hi /\ pc[c] = "poll"
        /\ \A d \in Consumers \ {c} : pc'[d] = pc[d] /\ batch'[d] = batch[d]
        /\ batch'[c] \subseteq Taken(hi)
    BY <1>7, <1>t DEF GoPoll, GoPollCancelled, BatchInv, counters, history
  <2>2. ASSUME NEW r \in Records \ torn, Done(r) PROVE Done(r)'
    <3>1. Read(r)' /\ r \notin Taken(hi)
      BY <2>1, <2>2, PollReads DEF Done
    <3>2. r \notin InHand'
      BY <2>1, <2>2, <3>1, <1>t DEF Done, InHand
    <3>3. ASSUME Dropping(r)' PROVE FALSE
      <4>1. r \in InWork
        BY <2>1, <3>1, <3>3, RecordPlace, Places, RecordsType DEF Dropping, InWork, Taken, Reach
      <4>2. pc'[owner[r[1]]] = pc[owner[r[1]]]
        BY <1>w, <2>1, <4>1
      <4> QED
        BY <2>1, <2>2, <3>3, <4>1, <4>2 DEF Done, Dropping
    <3> QED
      BY <3>1, <3>2, <3>3 DEF Done
  <2> QED
    BY <2>1, <2>2, CountStays
<1>8. ASSUME NEW c \in Consumers, NEW r \in batch[c], GoCount(c, r) PROVE CountInv'
  <2>1. /\ UNCHANGED <<lang, owner, position, committed, start, torn, faults>>
        /\ batch' = [batch EXCEPT ![c] = @ \ {r}] /\ CountRecords({r})
        /\ pc[c] = "handle" /\ r \in Records
        /\ \A d \in Consumers : pc'[d] = pc[d] \/ pc'[d] = "poll"
        /\ \A p \in Partitions : head'[p] = head[p] \/ head'[p] = position[p]
    BY <1>8, <1>t DEF GoCount, history, TypeOK
  <2>2. \A s \in Records : Read(s)' <=> Read(s)
    BY <2>1 DEF Read, From, Reached
  <2>3. ASSUME NEW s \in Records \ torn, Dropping(s)' PROVE Dropping(s)
    <3>1. s \in InWork
      <4>1. s[1] \in Partitions /\ position[s[1]] \in Int /\ s[2] \in Int
        BY RecordPlace, Places
      <4> QED
        BY <2>1, <2>3, <4>1 DEF Dropping, InWork
    <3> QED
      BY <1>w, <2>1, <2>3, <3>1 DEF Dropping
  <2>4. ASSUME NEW s \in Records \ torn, Done(s) PROVE Done(s)'
    <3>1. s \notin InHand'
      BY <2>1, <2>4, <1>t DEF Done, InHand
    <3> QED
      BY <2>2, <2>3, <2>4, <3>1 DEF Done
  <2>5. ASSUME r \notin torn PROVE Done(r)' /\ ~Done(r)
    <3>1. owner[r[1]] = c /\ r \in InWork
      BY <2>5 DEF WorkInv
    <3>2. r \notin InHand'
      <4>1. \A d \in Consumers \ {c} : r \notin batch[d]
        BY <2>5, <3>1 DEF WorkInv
      <4> QED
        BY <2>1, <4>1, <1>t DEF InHand
    <3>3. r \in InHand
      BY DEF InHand
    <3>4. Read(r)
      <4>1. /\ position[r[1]] # Unknown /\ head[r[1]] < r[2] /\ r[2] <= position[r[1]]
        BY <3>1, WorkHasOwner DEF InWork
      <4>2. start[r[1]] <= head[r[1]]
        BY <2>1, <4>1, RecordPlace DEF PlacesInv
      <4> QED
        BY <2>1, <4>1, <4>2, ReadIs, Places, RecordPlace
    <3>5. ~Dropping(r)
      BY <2>1, <3>1 DEF Dropping
    <3> QED
      BY <2>1, <2>2, <2>3, <2>5, <3>2, <3>3, <3>4, <3>5 DEF Done
  <2> QED
    BY <2>1, <2>4, <2>5, CountGrows
<1>9. ASSUME NEW assignment \in Balanced, Rebalance(assignment) PROVE CountInv'
  <2> DEFINE moved == IF lang = "py" THEN Partitions
                      ELSE {p \in Partitions : assignment[p] # owner[p]}
             ps == {p \in moved : owner[p] # NoOne}
  <2>1. /\ UNCHANGED <<pc, batch, consumed, errors, start>>
        /\ GiveUp(ps) /\ owner' = assignment
        /\ position' = [p \in Partitions |-> IF p \in moved THEN Unknown ELSE position[p]]
        /\ torn' = torn \cup {r \in InWork : r[1] \in moved}
        /\ \A c \in Consumers : pc[c] # "stopping"
    BY <1>9 DEF Rebalance, client, counters
  <2>2. ps \in SUBSET Partitions
    OBVIOUS
  <2>3. \A p \in Partitions : position'[p] = IF p \in ps THEN Unknown ELSE position[p]
    BY <2>1 DEF PlacesInv
  <2>4. \A r \in InWork : r \notin torn' => r[1] \notin ps
    BY <2>1
  <2>a. assignment \in [Partitions -> Consumers]
    BY DEF Balanced, Reading
  <2> HIDE DEF moved, ps
  <2>5. faults' \in {faults, faults + 1}
    BY <2>1 DEF GiveUp
  <2>6. InHand' = InHand
    BY <2>1 DEF InHand
  <2>7. ASSUME NEW r \in Records \ torn', Done(r), faults' = faults PROVE Done(r)'
    <3>1. Read(r)'
      BY <2>1, <2>2, <2>3, <2>4, <2>7, GiveUpReads DEF Done
    <3>2. ~Dropping(r)'
      BY <2>1, <2>a, RecordPlace DEF Dropping
    <3> QED
      BY <2>6, <2>7, <3>1, <3>2 DEF Done
  <2> QED
    BY <2>1, <2>5, <2>7, CountStays
<1>10. ASSUME NEW p \in Partitions, Resolve(p) PROVE CountInv'
  <2>1. /\ UNCHANGED <<owner, pc, committed, batch, consumed, errors, torn, faults>>
        /\ position[p] = Unknown /\ position'[p] = head'[p] /\ position'[p] \in Int
        /\ \A q \in Partitions \ {p} :
             position'[q] = position[q] /\ start'[q] = start[q] /\ head'[q] = head[q]
    BY <1>10, Places DEF Resolve, client, counters, TypeOK
  <2>2. InHand' = InHand
    BY <2>1 DEF InHand
  <2>3. ASSUME NEW r \in Records, Read(r) PROVE Read(r)'
    <3>1. CASE r[1] # p
      BY <2>1, <2>3, <3>1, RecordPlace, ReadStays DEF Reached
    <3>2. CASE r[1] = p
      <4>1. committed[p] # Unknown
        BY <2>1, <2>3, <3>2, ReadIs
      <4>2. position'[p] = committed[p] /\ start'[p] = start[p]
        BY <1>10, <4>1 DEF Resolve, TypeOK
      <4> QED
        BY <2>1, <2>3, <3>2, <4>2, ReadStays DEF Reached
    <3> QED
      BY <3>1, <3>2
  <2>4. ASSUME NEW r \in Records, r \in InWork' PROVE r \in InWork
    <3>1. r[1] # p
      BY <2>1, <2>4, RecordPlace DEF InWork
    <3> QED
      BY <2>1, <2>4, <3>1, RecordPlace DEF InWork
  <2>5. \A r \in Records \ torn : Done(r) => Done(r)'
    BY <2>1, <2>2, <2>3, <2>4 DEF Done, Dropping
  <2> QED
    BY <2>1, <2>5, CountStays
<1>11. ASSUME UNCHANGED <<owner, position, head, committed, start, pc, batch, consumed, errors,
                          torn, faults>>
       PROVE  CountInv'
  BY <1>11 DEF CountInv, Done, Dropping, Read, From, Reached, Count, InHand, InWork
<1>12. ASSUME NEW p \in Partitions, Produce(p) PROVE CountInv'
  BY <1>11, <1>12 DEF Produce, group, client, counters, history
<1>13. CASE UNCHANGED vars
  BY <1>11, <1>13 DEF vars, group, client, counters, history
<1>14. ASSUME NEW c \in Consumers, NEW hi \in Reach(c), pc[c] = "poll", PollTo(c, hi)
       PROVE  CountInv'
  <2>1. CASE PyPoll(c, hi)
    BY <1>6, <1>14, <2>1 DEF PyPoll, history
  <2>2. ASSUME NEW e \in Bad(Taken(hi)), NEW ps \in SUBSET Partitions, PyRaise(c, hi, e, ps)
        PROVE  CountInv'
    <3> DEFINE done == {r \in Taken(hi) : r[1] \in ps \/ (r[1] = e[1] /\ r[2] <= e[2])}
    <3>1. /\ UNCHANGED <<lang, batch, start, committed, torn, faults>>
          /\ position' = hi /\ head' = hi /\ lang = "py" /\ CountRecords(done)
      BY <2>2 DEF PyRaise
    <3>2. done \in SUBSET Taken(hi)
      OBVIOUS
    <3> HIDE DEF done
    <3> QED
      BY <1>6, <3>1, <3>2
  <2> QED
    BY <1>7, <1>14, <2>1, <2>2 DEF PollTo
<1> QED
  BY <1>2, <1>3, <1>4, <1>5, <1>8, <1>9, <1>10, <1>12, <1>13, <1>14, StepKinds

\* However the partitions move and whoever crashes: a record is counted at most
\* once for each crash or lost commit, and once more, unless it was in a batch in
\* work of Go when its partition moved.
THEOREM DuplicatesAreBounded == Spec => []CountedOncePerFault
<1>1. Init => BatchInv /\ PlacesInv /\ WorkInv
  BY InitPlaces
<1>2. Init => CountInv
  BY DEF Init, CountInv, Count
<1>3. TypeOK /\ CountInv => CountedOncePerFault
  <2> SUFFICES ASSUME TypeOK, CountInv, NEW r \in Records \ torn PROVE Count(r) <= 1 + faults
    BY DEF CountedOncePerFault
  <2>1. Count(r) \in Nat /\ faults \in Nat /\ Count(r) <= faults + IF Done(r) THEN 1 ELSE 0
    BY DEF CountInv, Count, TypeOK
  <2> HIDE DEF Done, Count
  <2> QED
    BY <2>1
<1> QED
  BY <1>1, <1>2, <1>3, TypeCorrect, BatchStep, PlacesStep, WorkStep, CountStep, PTL DEF Spec
-----------------------------------------------------------------------------
(* The committed offsets. *)

\* What the group has committed is not beyond the batch in work, so that no
\* consumer is ever about to commit less.
CommitInv == \A p \in Partitions :
               position[p] # Unknown /\ committed[p] # Unknown => committed[p] <= head[p]

\* A committed offset only grows, and once a partition has one the group does
\* not begin at its end again.
CommitStands(p) == committed[p] # Unknown => /\ committed[p] <= committed'[p]
                                             /\ start'[p] = start[p]
CommitsStand == \A p \in Partitions : CommitStands(p)

\* What a consumer gives to the coordinator is a place that it is at.
LEMMA OfferedGrows ==
  ASSUME TypeOK, PlacesInv, CommitInv, NEW from \in {position, head}, NEW p \in Partitions
  PROVE  /\ committed[p] # Unknown => committed[p] <= Offset(from, p)
         /\ Offset(from, p) \in {from[p], committed[p]}
<1>1. CASE from[p] = Unknown
  BY <1>1, Places DEF Offset
<1>2. CASE from[p] # Unknown
  <2>1. position[p] # Unknown /\ head[p] <= from[p]
    BY <1>2, Places DEF PlacesInv
  <2>2. committed[p] # Unknown => committed[p] <= head[p]
    BY <2>1 DEF CommitInv
  <2> QED
    BY <1>2, <2>1, <2>2, Places DEF Offset
<1> QED
  BY <1>1, <1>2

\* So giving partitions up takes no committed offset back.
LEMMA GiveUpGrows ==
  ASSUME TypeOK, PlacesInv, CommitInv, NEW ps \in SUBSET Partitions, GiveUp(ps),
         NEW p \in Partitions
  PROVE  /\ committed[p] # Unknown => committed[p] <= committed'[p]
         /\ p \notin ps => committed'[p] = committed[p]
<1>1. CASE UNCHANGED committed
  BY <1>1, Places
<1>2. ASSUME NEW from \in {position, head},
             committed' = [q \in Partitions |-> IF q \in ps THEN Offset(from, q) ELSE committed[q]]
      PROVE  /\ committed[p] # Unknown => committed[p] <= committed'[p]
             /\ p \notin ps => committed'[p] = committed[p]
  BY <1>2, OfferedGrows, Places
<1> QED
  BY <1>1, <1>2 DEF GiveUp

\* A step takes no committed offset back, and leaves none beyond the batch in
\* work.
LEMMA CommitStep ==
  ASSUME TypeOK, PlacesInv, CommitInv, [Next]_vars
  PROVE  CommitInv' /\ CommitsStand
<1> SUFFICES ASSUME NEW p \in Partitions
             PROVE  /\ position'[p] # Unknown /\ committed'[p] # Unknown
                          => committed'[p] <= head'[p]
                    /\ committed[p] # Unknown => committed[p] <= committed'[p]
                                                 /\ start'[p] = start[p]
  BY DEF CommitInv, CommitsStand, CommitStands
<1> DEFINE Goal == /\ position'[p] # Unknown /\ committed'[p] # Unknown
                        => committed'[p] <= head'[p]
                   /\ committed[p] # Unknown => committed[p] <= committed'[p]
                                                /\ start'[p] = start[p]
<1>1. ASSUME UNCHANGED <<position, head, committed, start>> PROVE Goal
  BY <1>1, Places DEF CommitInv
<1>2. ASSUME NEW c \in Consumers, Close(c) \/ Crash(c) PROVE Goal
  <2>1. UNCHANGED start /\ Leave(c)
    BY <1>2 DEF Close, Crash
  <2>2. /\ committed[p] # Unknown => committed[p] <= committed'[p]
        /\ owner[p] # c => committed'[p] = committed[p]
    <3>1. CASE Close(c)
      BY <3>1, GiveUpGrows DEF Close, Owned
    <3>2. CASE Crash(c)
      BY <3>2, Places DEF Crash
    <3> QED
      BY <1>2, <3>1, <3>2
  <2>3. CASE owner[p] = c
    BY <2>1, <2>2, <2>3 DEF Leave
  <2>4. CASE owner[p] # c
    BY <2>1, <2>2, <2>4 DEF Leave, CommitInv
  <2> QED
    BY <2>3, <2>4
<1>3. ASSUME NEW c \in Consumers, AutoCommit(c) PROVE Goal
  <2>1. UNCHANGED <<position, head, start>>
    BY <1>3 DEF AutoCommit, history
  <2>2. committed'[p] \in {Offset(head, p), committed[p]}
    BY <1>3 DEF AutoCommit
  <2>3. position[p] # Unknown => head[p] # Unknown
    BY DEF PlacesInv
  <2> QED
    BY <2>1, <2>2, <2>3, OfferedGrows, Places DEF CommitInv, Offset
<1>4. ASSUME NEW c \in Consumers, NEW hi \in Reach(c), PollTo(c, hi) PROVE Goal
  <2>1. /\ UNCHANGED <<committed, start>>
        /\ position' = hi /\ head' \in {head, hi}
    BY <1>4 DEF PollTo, PyPoll, PyRaise, GoPoll, GoPollCancelled, history
  <2>2. CASE position[p] = Unknown
    BY <2>1, <2>2, Places DEF Reach
  <2>3. CASE position[p] # Unknown
    <3>1. hi[p] = position[p] \/ hi[p] \in position[p]..stored[p]
      BY <2>3 DEF Reach
    <3>2. hi[p] \in Int /\ position[p] <= hi[p] /\ head[p] <= position[p]
      BY <2>3, <3>1, Places DEF PlacesInv
    <3>3. committed[p] # Unknown => committed[p] <= head[p]
      BY <2>3 DEF CommitInv
    <3> QED
      BY <2>1, <3>2, <3>3, Places
  <2> QED
    BY <2>2, <2>3
<1>5. ASSUME NEW c \in Consumers, NEW r \in batch[c], GoCount(c, r) PROVE Goal
  <2>1. UNCHANGED <<position, committed, start>>
    BY <1>5 DEF GoCount, history
  <2>2. head'[p] \in {position[p], head[p]}
    BY <1>5 DEF GoCount, TypeOK
  <2>3. position[p] # Unknown => head[p] <= position[p]
    BY DEF PlacesInv
  <2> QED
    BY <2>1, <2>2, <2>3, Places DEF CommitInv
<1>6. ASSUME NEW assignment \in Balanced, Rebalance(assignment) PROVE Goal
  <2> DEFINE moved == IF lang = "py" THEN Partitions
                      ELSE {q \in Partitions : assignment[q] # owner[q]}
             given == {q \in moved : owner[q] # NoOne}
  <2>1. /\ UNCHANGED start /\ GiveUp(given)
        /\ p \in moved => position'[p] = Unknown
        /\ p \notin moved => position'[p] = position[p] /\ head'[p] = head[p]
    BY <1>6 DEF Rebalance
  <2>2. given \in SUBSET Partitions /\ (p \notin moved => p \notin given)
    OBVIOUS
  <2> HIDE DEF moved, given
  <2>3. /\ committed[p] # Unknown => committed[p] <= committed'[p]
        /\ p \notin moved => committed'[p] = committed[p]
    BY <2>1, <2>2, GiveUpGrows
  <2> QED
    BY <2>1, <2>3 DEF CommitInv
<1>7. ASSUME NEW q \in Partitions, Resolve(q) PROVE Goal
  <2>1. UNCHANGED committed
    BY <1>7 DEF Resolve
  <2>2. CASE p # q
    <3>1. position'[p] = position[p] /\ head'[p] = head[p] /\ start'[p] = start[p]
      BY <1>7, <2>2 DEF Resolve, TypeOK
    <3> QED
      BY <2>1, <3>1, Places DEF CommitInv
  <2>3. CASE p = q
    <3>1. committed[p] # Unknown => head'[p] = committed[p] /\ start'[p] = start[p]
      BY <1>7, <2>3 DEF Resolve, TypeOK
    <3> QED
      BY <2>1, <3>1, Places
  <2> QED
    BY <2>2, <2>3
<1> QED
  <2>1. ASSUME NEW c \in Consumers, Start(c) \/ StartFails(c) \/ FetchError(c) \/ Wake(c) \/ Signal(c)
        PROVE  UNCHANGED <<position, head, committed, start>>
    BY <2>1 DEF Start, StartFails, FetchError, Wake, Signal, group, history
  <2>2. ASSUME NEW q \in Partitions, Produce(q)
        PROVE  UNCHANGED <<position, head, committed, start>>
    BY <2>2 DEF Produce, group, history
  <2>3. ASSUME UNCHANGED vars PROVE UNCHANGED <<position, head, committed, start>>
    BY <2>3 DEF vars, group, history
  <2> HIDE DEF Goal
  <2>4. Goal
    BY <1>1, <1>2, <1>3, <1>4, <1>5, <1>6, <1>7, <2>1, <2>2, <2>3, StepKinds
  <2> QED
    BY <2>4 DEF Goal

\* Whatever crashes, whichever commit is lost and however the partitions move:
\* the group takes no committed offset back, so that no more than the records
\* since the last commit are ever read again, and the end of a partition
\* ("latest") is a place to begin at only until the first commit.
THEOREM CommitsNeverGoBack == Spec => [][CommitsStand]_vars
<1>1. Init => PlacesInv /\ CommitInv
  BY InitPlaces DEF Init, CommitInv
<1>2. TypeOK /\ PlacesInv /\ CommitInv /\ [Next]_vars => CommitInv' /\ [CommitsStand]_vars
  BY CommitStep
<1> QED
  BY <1>1, <1>2, TypeCorrect, PlacesStep, PTL DEF Spec
=============================================================================

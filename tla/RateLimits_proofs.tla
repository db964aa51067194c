--------------------------- MODULE RateLimits_proofs ---------------------------
(***************************************************************************)
(* Proofs about PyPacer and GoThrottle, for every interval, every length   *)
(* of the work between two sends and every lateness of a timer.            *)
(***************************************************************************)
EXTENDS MCRateLimits, TLAPS

\* The products of the invariants are by the one constant Interval: all that is
\* needed of them is how they grow by one.
LEMMA OneMore == \A n \in Int : /\ n * Interval \in Int
                                /\ (n + 1) * Interval = n * Interval + Interval
BY IntervalAssumption

\* No interval at all takes no time.
LEMMA Zero == 0 * Interval = 0
BY IntervalAssumption

\* A log of times to which one more time is appended.
LEMMA LongerLog ==
  ASSUME NEW s \in Seq(Int), NEW t \in Int
  PROVE  /\ Append(s, t) \in Seq(Int)
         /\ Len(s) \in Nat /\ Len(Append(s, t)) = Len(s) + 1
         /\ Append(s, t)[Len(s) + 1] = t
         /\ \A i \in 1..Len(s) : Append(s, t)[i] = s[i] /\ s[i] \in Int
OBVIOUS

\* If the log keeps the promise and the new time keeps it with each send before,
\* the longer log keeps it.
LEMMA LongerLogKeepsPromise ==
  ASSUME NEW s \in Seq(Int), NEW t \in Int, NoCatchUpBurst(s),
         \A i \in 1..Len(s) : t >= s[i] + (Len(s) - i) * Interval
  PROVE  NoCatchUpBurst(Append(s, t))
<1> DEFINE l == Append(s, t)
           n == Len(s)
<1> SUFFICES ASSUME NEW i \in 1..Len(l), NEW j \in 1..Len(l), i < j
             PROVE  l[j] - l[i] >= (j - i - 1) * Interval
  BY DEF NoCatchUpBurst
<1>1. i \in 1..n /\ l[i] = s[i] /\ s[i] \in Int
  BY LongerLog
<1>2. CASE j = n + 1
  <2>1. j - i - 1 = n - i
    BY <1>2, LongerLog
  <2>2. l[j] = t
    BY <1>2, LongerLog
  <2>3. t >= s[i] + (n - i) * Interval
    BY <1>1
  <2>4. n - i \in Int
    BY LongerLog
  <2>5. (n - i) * Interval \in Int
    BY <2>4, OneMore
  <2> HIDE DEF l, n
  <2> QED
    BY <1>1, <2>1, <2>2, <2>3, <2>5
<1>3. CASE j \in 1..n
  BY <1>1, <1>3, LongerLog DEF NoCatchUpBurst
<1>4. j \in 1..n \/ j = n + 1
  <2>1. n \in Nat /\ Len(l) = n + 1
    BY LongerLog
  <2> HIDE DEF l, n
  <2> QED
    BY <2>1
<1> QED
  BY <1>2, <1>3, <1>4
-----------------------------------------------------------------------------
(* The asyncio pacer. *)

PyType == /\ now \in Int /\ nextSlot \in Int /\ slot \in Int /\ first \in Int
          /\ asleep \in BOOLEAN /\ late \in BOOLEAN
          /\ log \in Seq(Int)

\* What the slot of the next send is at least, seen from each send before it: a
\* slot is never before the clock, so the clock stands for the slot that
\* follows a late send.
SlotInv ==
    /\ asleep => /\ nextSlot = slot + Interval
                 /\ \A i \in 1..Len(log) : slot >= log[i] + (Len(log) - i) * Interval
    /\ ~asleep => \A i \in 1..Len(log) :
                    /\ log[i] <= now
                    /\ i < Len(log) => nextSlot >= log[i] + (Len(log) - i) * Interval

PyBurstInv == PyType /\ SlotInv /\ NoCatchUpBurst(log)

\* Every step of the pacer keeps its variables in their types.
LEMMA PyTypeStep ==
  ASSUME PyType, [Py!Next]_(Py!vars)
  PROVE  PyType'
<1> USE DEF PyType
<1>1. CASE Py!Wait
  <2>1. late' \in BOOLEAN /\ asleep' \in BOOLEAN
    BY <1>1, Zenon DEF Py!Wait, Py!Sleep
  <2>2. /\ slot' \in {nextSlot, now} /\ nextSlot' = slot' + Interval
        /\ first' \in {slot', first} /\ UNCHANGED <<now, log>>
    BY <1>1, Zenon DEF Py!Wait, Py!Sleep, Py!Later
  <2> QED
    BY <2>1, <2>2, IntervalAssumption
<1>2. CASE Py!Wake
  <2>1. log' = Append(log, now) /\ UNCHANGED <<now, nextSlot, slot, first>>
    BY <1>2 DEF Py!Wake
  <2>2. asleep' \in BOOLEAN /\ late' \in BOOLEAN
    BY <1>2, Zenon DEF Py!Wake
  <2>3. log' \in Seq(Int)
    BY <2>1, LongerLog
  <2> QED
    BY <2>1, <2>2, <2>3
<1>3. CASE Py!Advance
  BY <1>3 DEF Py!Advance
<1>4. CASE Py!AtHorizon \/ UNCHANGED Py!vars
  BY <1>4 DEF Py!AtHorizon, Py!vars
<1> QED
  BY <1>1, <1>2, <1>3, <1>4 DEF Py!Next

\* Every step of the pacer keeps the invariant of the burst bound.
LEMMA PyBurstStep ==
  ASSUME PyBurstInv, [Py!Next]_(Py!vars)
  PROVE  PyBurstInv'
<1> DEFINE n == Len(log)
<1>0. PyType /\ SlotInv /\ NoCatchUpBurst(log) /\ PyType'
  BY PyTypeStep DEF PyBurstInv
<1>n. n \in Nat /\ \A i \in 1..n : log[i] \in Int /\ n - i \in Int /\ (n - i) * Interval \in Int
  <2>1. n \in Nat /\ \A i \in 1..n : log[i] \in Int
    BY <1>0 DEF PyType
  <2>2. \A i \in 1..n : n - i \in Int
    BY <2>1
  <2> QED
    BY <2>1, <2>2, OneMore
<1>1. CASE Py!Wait
  <2>1. /\ ~asleep /\ asleep' = TRUE /\ UNCHANGED <<now, log>>
        /\ nextSlot' = slot' + Interval
        /\ slot' >= now /\ slot' >= nextSlot
    BY <1>1, <1>0 DEF Py!Wait, Py!Sleep, Py!Later, PyType
  <2>2. ASSUME NEW i \in 1..n PROVE slot' >= log[i] + (n - i) * Interval
    <3>1. log[i] <= now /\ (i < n => nextSlot >= log[i] + (n - i) * Interval)
      BY <2>1, <1>0 DEF SlotInv
    <3>2. CASE i = n
      <4>1. n - i = 0
        BY <3>2, <1>n
      <4>2. (n - i) * Interval = 0
        BY <4>1, Zero
      <4> QED
        BY <3>1, <4>2, <2>1, <1>n, <1>0 DEF PyType
    <3>3. CASE i < n
      BY <3>1, <3>3, <2>1, <1>n, <1>0 DEF PyType
    <3> QED
      BY <3>2, <3>3, <1>n
  <2>3. SlotInv'
    BY <2>1, <2>2 DEF SlotInv
  <2> QED
    BY <1>0, <2>1, <2>3 DEF PyBurstInv, NoCatchUpBurst
<1>2. CASE Py!Wake
  <2>1. /\ asleep /\ ~asleep' /\ now >= slot /\ log' = Append(log, now)
        /\ UNCHANGED <<now, nextSlot, slot>>
    BY <1>2 DEF Py!Wake
  <2>2. \A i \in 1..n : slot >= log[i] + (n - i) * Interval
    BY <2>1, <1>0 DEF SlotInv
  <2>3. now \in Int /\ slot \in Int /\ log \in Seq(Int)
    BY <1>0 DEF PyType
  <2>4. NoCatchUpBurst(log')
    <3>1. \A i \in 1..n : now >= log[i] + (n - i) * Interval
      BY <2>1, <2>2, <2>3, <1>n
    <3> QED
      BY <3>1, <2>1, <2>3, <1>0, LongerLogKeepsPromise
  <2>5. /\ Len(log') = n + 1 /\ log'[n + 1] = now
        /\ \A i \in 1..n : log'[i] = log[i]
    BY <2>1, <2>3, LongerLog
  <2>6. ASSUME NEW i \in 1..Len(log')
        PROVE  /\ log'[i] <= now'
               /\ i < Len(log') => nextSlot' >= log'[i] + (Len(log') - i) * Interval
    <3>1. CASE i = n + 1
      <4>1. log'[i] = now /\ ~(i < Len(log'))
        BY <3>1, <2>5, <1>n
      <4>2. now' = now /\ now \in Int
        BY <2>1, <2>3
      <4> HIDE DEF n
      <4> QED
        BY <4>1, <4>2
    <3>2. CASE i \in 1..n
      <4>1. nextSlot' = slot + Interval
        BY <2>1, <1>0 DEF SlotInv
      <4>2. Len(log') - i = (n - i) + 1
        BY <2>5, <1>n
      <4>3. (Len(log') - i) * Interval = (n - i) * Interval + Interval
        BY <4>2, <1>n, <3>2, OneMore
      <4>4. slot >= log[i] + (n - i) * Interval /\ log'[i] = log[i]
        BY <2>2, <2>5, <3>2
      <4>5. (n - i) * Interval >= 0
        BY <3>2, <1>n, IntervalAssumption
      <4>6. log[i] \in Int /\ (n - i) * Interval \in Int /\ Interval \in Int
        BY <3>2, <1>n, IntervalAssumption
      <4>7. log'[i] <= now'
        <5> DEFINE a == (n - i) * Interval
        <5>1. a \in Int /\ a >= 0 /\ slot >= log[i] + a
          BY <4>4, <4>5, <4>6
        <5> HIDE DEF a
        <5> QED
          BY <5>1, <4>4, <4>6, <2>1, <2>3
      <4>8. nextSlot' >= log'[i] + (Len(log') - i) * Interval
        <5> DEFINE a == (n - i) * Interval
                   b == (Len(log') - i) * Interval
        <5>1. a \in Int /\ b = a + Interval /\ slot >= log[i] + a
          BY <4>3, <4>4, <4>6
        <5> HIDE DEF a, b
        <5>2. nextSlot' >= log'[i] + b
          BY <5>1, <4>1, <4>4, <4>6, <2>1, <2>3
        <5> QED
          BY <5>2 DEF b
      <4> QED
        BY <4>7, <4>8
    <3> QED
      BY <3>1, <3>2, <2>5, <1>n
  <2>7. SlotInv'
    BY <2>1, <2>6 DEF SlotInv
  <2> QED
    BY <1>0, <2>4, <2>7 DEF PyBurstInv, NoCatchUpBurst
<1>3. CASE Py!Advance
  <2>1. now' = now + 1 /\ UNCHANGED <<nextSlot, slot, asleep, log>>
    BY <1>3 DEF Py!Advance
  <2>2. SlotInv'
    BY <2>1, <1>0, <1>n DEF SlotInv, PyType
  <2> QED
    BY <1>0, <2>1, <2>2 DEF PyBurstInv, NoCatchUpBurst
<1>4. CASE Py!AtHorizon \/ UNCHANGED Py!vars
  BY <1>0, <1>4 DEF PyBurstInv, SlotInv, NoCatchUpBurst, Py!AtHorizon, Py!vars
<1> QED
  BY <1>1, <1>2, <1>3, <1>4 DEF Py!Next
\* What the length of the log says about the slots: once there was a wait, the
\* next slot is one interval after the last; while none was called late, the last
\* is as many intervals after the first as there were waits in between.
SlotGrid ==
    /\ Py!Waits > 0 => nextSlot = slot + Interval
    /\ (Py!Waits > 0 /\ ~late) => slot = first + (Py!Waits - 1) * Interval

PyInv == PyBurstInv /\ SlotGrid

\* Every step of the pacer keeps the slots on the grid.
LEMMA SlotGridStep ==
  ASSUME PyInv, [Py!Next]_(Py!vars)
  PROVE  SlotGrid'
<1>0. PyType /\ SlotGrid /\ Interval \in Int
  BY IntervalAssumption DEF PyInv, PyBurstInv
<1>n. Len(log) \in Nat
  BY <1>0 DEF PyType
<1>1. CASE Py!Wait
  <2>1. /\ ~asleep /\ asleep' /\ UNCHANGED <<now, log>>
        /\ slot' = Py!Later(nextSlot, now) /\ nextSlot' = slot' + Interval
        /\ first' = (IF log = << >> THEN slot' ELSE first)
    BY <1>1, Zenon DEF Py!Wait, Py!Sleep
  <2>2. late' = (late \/ (log # << >> /\ now > nextSlot))
    BY <1>1, Zenon DEF Py!Wait, Py!Sleep
  <2>3. Py!Waits = Len(log) /\ Py!Waits' = Len(log) + 1
    BY <2>1, <1>n DEF Py!Waits
  <2>4. nextSlot' = slot' + Interval
    BY <2>1
  <2>5. ASSUME ~late' PROVE slot' = first' + (Py!Waits' - 1) * Interval
    <3>1. CASE log = << >>
      <4>1. Len(log) = 0 /\ Py!Waits' - 1 = 0
        BY <3>1, <2>3
      <4>2. slot' = first' /\ slot' \in Int
        BY <3>1, <2>1, <1>0 DEF Py!Later, PyType
      <4>3. (Py!Waits' - 1) * Interval = 0
        BY <4>1, Zero
      <4> QED
        BY <4>2, <4>3
    <3>2. CASE log # << >>
      <4>1. Len(log) > 0 /\ first' = first
        BY <3>2, <2>1, <1>0 DEF PyType
      <4>2. ~late /\ ~(now > nextSlot)
        BY <2>2, <2>5, <3>2, Zenon
      <4>3. slot' = nextSlot
        BY <4>2, <2>1, <1>0 DEF Py!Later, PyType
      <4>4. nextSlot = slot + Interval /\ slot = first + (Len(log) - 1) * Interval
        BY <4>1, <4>2, <2>3, <1>0 DEF SlotGrid
      <4>5. Len(log) * Interval = (Len(log) - 1) * Interval + Interval
        BY <1>n, OneMore
      <4>6. /\ Py!Waits' - 1 = Len(log) /\ (Len(log) - 1) * Interval \in Int
            /\ first \in Int /\ slot \in Int
        BY <2>3, <1>0, <1>n, OneMore DEF PyType
      <4> QED
        BY <4>1, <4>3, <4>4, <4>5, <4>6, <1>0
    <3> QED
      BY <3>1, <3>2
  <2> QED
    BY <2>4, <2>5 DEF SlotGrid
<1>2. CASE Py!Wake
  <2>1. asleep /\ ~asleep' /\ log' = Append(log, now)
    BY <1>2 DEF Py!Wake
  <2>2. UNCHANGED <<nextSlot, slot, first>> /\ late' = late
    BY <1>2, Zenon DEF Py!Wake
  <2>3. Len(log') = Len(log) + 1
    BY <2>1, <1>0, LongerLog DEF PyType
  <2>4. Py!Waits = Len(log) + 1 /\ Py!Waits' = Len(log') + 0
    BY <2>1, Zenon DEF Py!Waits
  <2>5. Py!Waits' = Py!Waits
    BY <2>3, <2>4, <1>n
  <2> QED
    BY <2>2, <2>5, <1>0, Zenon DEF SlotGrid
<1>3. CASE Py!Advance \/ Py!AtHorizon \/ UNCHANGED Py!vars
  <2>1. UNCHANGED <<nextSlot, slot, first, log>> /\ asleep' = asleep /\ late' = late
    BY <1>3, Zenon DEF Py!Advance, Py!AtHorizon, Py!vars
  <2>2. Py!Waits' = Py!Waits
    BY <2>1, Zenon DEF Py!Waits
  <2> QED
    BY <2>1, <2>2, <1>0, Zenon DEF SlotGrid
<1> QED
  BY <1>1, <1>2, <1>3, Zenon DEF Py!Next
-----------------------------------------------------------------------------
(* The ticker. *)

GoType == /\ now \in Int /\ nextTick \in Int
          /\ ticks \in {0, 1}
          /\ log \in Seq(Int)

\* Each send lies as many intervals before the last tick of the ticker as there
\* are sends and ticks in the channel after it, less the one that may have waited.
TickInv ==
    /\ nextTick - Interval <= now
    /\ waiting => ~returned
    /\ ~returned => now <= nextTick
    /\ \A i \in 1..Len(log) :
           /\ log[i] <= now
           /\ nextTick >= log[i] + (Len(log) - i + ticks) * Interval

GoInv == GoType /\ TickInv /\ NoCatchUpBurst(log)

\* Every step of the throttle keeps the invariant of its bound.
LEMMA GoInvStep ==
  ASSUME GoInv, [Go!Next]_(Go!vars)
  PROVE  GoInv'
<1> DEFINE n == Len(log)
<1>0. GoType /\ TickInv /\ NoCatchUpBurst(log) /\ Interval \in Nat /\ Interval > 0
  BY IntervalAssumption DEF GoInv
<1>n. /\ n \in Nat /\ ticks \in Int
      /\ \A i \in 1..n : /\ log[i] \in Int
                         /\ n - i + ticks \in Int /\ (n - i + ticks) * Interval \in Int
  <2>1. n \in Nat /\ ticks \in Int /\ \A i \in 1..n : log[i] \in Int
    BY <1>0 DEF GoType
  <2>2. \A i \in 1..n : n - i + ticks \in Int
    BY <2>1
  <2> QED
    BY <2>1, <2>2, OneMore
<1>1. CASE Go!LoopTop
  <2>1. UNCHANGED <<now, nextTick, ticks, log>>
    BY <1>1 DEF Go!LoopTop
  <2>2. ~returned /\ (waiting' => ~returned')
    BY <1>1, Zenon DEF Go!LoopTop
  <2> QED
    BY <1>0, <2>1, <2>2 DEF GoInv, GoType, TickInv, NoCatchUpBurst
<1>2. CASE Go!TakeTick
  <2>1. /\ waiting /\ ~returned /\ ticks = 1 /\ ticks' = 0
        /\ log' = Append(log, now) /\ UNCHANGED <<now, nextTick>>
    BY <1>2, <1>0 DEF Go!TakeTick, TickInv, GoType
  <2>2. ~waiting' /\ now <= nextTick
    BY <1>2, <1>0, <2>1 DEF Go!TakeTick, TickInv
  <2>3. now \in Int /\ nextTick \in Int /\ log \in Seq(Int)
    BY <1>0 DEF GoType
  <2>4. /\ log' \in Seq(Int) /\ Len(log') = n + 1 /\ log'[n + 1] = now
        /\ \A i \in 1..n : log'[i] = log[i]
    BY <2>1, <2>3, LongerLog
  <2>5. ASSUME NEW i \in 1..n
        PROVE  /\ log[i] <= now
               /\ nextTick >= log[i] + (n - i) * Interval + Interval
    <3>1. log[i] <= now /\ nextTick >= log[i] + (n - i + ticks) * Interval
      BY <1>0 DEF TickInv
    <3>2. n - i \in Int /\ n - i + ticks = (n - i) + 1
      BY <2>1, <1>n
    <3>3. (n - i + ticks) * Interval = (n - i) * Interval + Interval
      BY <3>2, OneMore
    <3>4. (n - i) * Interval \in Int /\ log[i] \in Int
      BY <3>2, <1>n, OneMore
    <3> DEFINE a == (n - i) * Interval
               b == (n - i + ticks) * Interval
    <3>5. a \in Int /\ b = a + Interval /\ nextTick >= log[i] + b
      BY <3>1, <3>3, <3>4
    <3> HIDE DEF a, b
    <3>6. nextTick >= log[i] + a + Interval
      BY <3>4, <3>5, <2>3, <1>0
    <3> QED
      BY <3>1, <3>6 DEF a
  <2>6. NoCatchUpBurst(log')
    <3>1. ASSUME NEW i \in 1..n PROVE now >= log[i] + (n - i) * Interval
      <4> DEFINE a == (n - i) * Interval
      <4>1. n - i \in Int /\ log[i] \in Int
        BY <1>n
      <4>2. a \in Int /\ nextTick >= log[i] + a + Interval
        BY <4>1, <2>5, OneMore
      <4>3. nextTick - Interval <= now
        BY <1>0 DEF TickInv
      <4> HIDE DEF a, n
      <4>4. now >= log[i] + a
        BY <4>1, <4>2, <4>3, <2>3, <1>0
      <4> QED
        BY <4>4 DEF a
    <3> QED
      BY <3>1, <2>1, <2>3, <1>0, LongerLogKeepsPromise
  <2>7. ASSUME NEW i \in 1..Len(log')
        PROVE  log'[i] <= now' /\ nextTick' >= log'[i] + (Len(log') - i + ticks') * Interval
    <3>1. CASE i = n + 1
      <4>1. Len(log') - i + ticks' = 0
        BY <3>1, <2>1, <2>4, <1>n
      <4>2. (Len(log') - i + ticks') * Interval = 0
        BY <4>1, Zero
      <4>3. log'[i] = now
        BY <3>1, <2>4
      <4> QED
        BY <4>2, <4>3, <2>1, <2>2, <2>3
    <3>2. CASE i \in 1..n
      <4>1. n - i \in Int /\ Len(log') - i + ticks' = (n - i) + 1
        BY <3>2, <2>1, <2>4, <1>n
      <4>2. (Len(log') - i + ticks') * Interval = (n - i) * Interval + Interval
        BY <4>1, OneMore
      <4> DEFINE a == (n - i) * Interval
                 b == (Len(log') - i + ticks') * Interval
      <4>3. /\ a \in Int /\ b = a + Interval /\ log[i] \in Int /\ log[i] <= now
            /\ log'[i] = log[i] /\ nextTick >= log[i] + a + Interval
        BY <3>2, <4>1, <4>2, <2>4, <2>5, <1>n, OneMore
      <4> HIDE DEF a, b
      <4>4. log'[i] <= now' /\ nextTick' >= log'[i] + b
        BY <4>3, <2>1, <2>3, <1>0
      <4> QED
        BY <4>4 DEF b
    <3> QED
      BY <3>1, <3>2, <2>4, <1>n
  <2>8. GoType'
    BY <2>1, <2>3, <2>4 DEF GoType
  <2>9. nextTick' - Interval <= now' /\ now' <= nextTick'
    BY <1>0, <2>1, <2>2 DEF TickInv
  <2>10. TickInv'
    BY <2>2, <2>7, <2>9 DEF TickInv
  <2> QED
    BY <2>6, <2>8, <2>10 DEF GoInv, NoCatchUpBurst
<1>3. CASE Go!TakeDone
  <2>1. UNCHANGED <<now, nextTick, ticks, log>>
    BY <1>3 DEF Go!TakeDone
  <2>2. ~waiting' /\ returned'
    BY <1>3, Zenon DEF Go!TakeDone
  <2> QED
    BY <1>0, <2>1, <2>2 DEF GoInv, GoType, TickInv, NoCatchUpBurst
<1>4. CASE Go!Tick
  <2>1. /\ now = nextTick /\ ticks' = 1 /\ nextTick' = nextTick + Interval
        /\ UNCHANGED <<now, log>> /\ now \in Int /\ nextTick \in Int /\ ticks \in {0, 1}
    BY <1>4, <1>0 DEF Go!Tick, GoType
  <2>2. (waiting' => ~returned') /\ ~returned'
    BY <1>4, <1>0, Zenon DEF Go!Tick, TickInv
  <2>3. nextTick' - Interval <= now' /\ now' <= nextTick'
    BY <1>0, <2>1
  <2>4. ASSUME NEW i \in 1..n
        PROVE  log[i] <= now /\ nextTick' >= log[i] + (n - i + ticks') * Interval
    <3>1. log[i] <= now /\ nextTick >= log[i] + (n - i + ticks) * Interval
      BY <1>0 DEF TickInv
    <3>2. n - i + ticks' \in Int /\ log[i] \in Int
      BY <2>1, <1>n
    <3> DEFINE a == (n - i + ticks) * Interval
               b == (n - i + ticks') * Interval
    <3>3. CASE ticks = 1
      <4>1. a = b /\ b \in Int
        BY <3>2, <3>3, <2>1, OneMore
      <4> HIDE DEF a, b, n
      <4>2. nextTick >= log[i] + b
        BY <3>1, <4>1 DEF a
      <4>3. nextTick' >= log[i] + b
        BY <4>1, <4>2, <3>2, <2>1, <1>0
      <4> QED
        BY <3>1, <4>3 DEF b
    <3>4. CASE ticks = 0
      <4>1. n - i + ticks \in Int /\ n - i + ticks' = (n - i + ticks) + 1
        BY <3>4, <2>1, <1>n
      <4>2. a \in Int /\ b = a + Interval
        BY <4>1, OneMore
      <4>3. nextTick >= log[i] + a
        BY <3>1
      <4> HIDE DEF a, b, n
      <4>4. nextTick' >= log[i] + b
        BY <4>2, <4>3, <3>2, <2>1, <1>0
      <4> QED
        BY <3>1, <4>4 DEF b
    <3> QED
      BY <3>3, <3>4, <2>1
  <2>5. GoType'
    BY <2>1, <1>0 DEF GoType
  <2>6. TickInv'
    BY <2>1, <2>2, <2>3, <2>4 DEF TickInv
  <2> QED
    BY <1>0, <2>1, <2>5, <2>6 DEF GoInv, NoCatchUpBurst
<1>5. CASE Go!Advance
  <2>1. now' = now + 1 /\ UNCHANGED <<nextTick, ticks, log>>
    BY <1>5 DEF Go!Advance
  <2>2. now < nextTick \/ returned'
    BY <1>5 DEF Go!Advance
  <2>3. (waiting' => ~returned')
    BY <1>5, <1>0, Zenon DEF Go!Advance, TickInv
  <2>4. TickInv'
    BY <2>1, <2>2, <2>3, <1>0, <1>n DEF TickInv, GoType
  <2> QED
    BY <1>0, <2>1, <2>4 DEF GoInv, GoType, NoCatchUpBurst
<1>6. CASE Go!Cancel \/ Go!AtHorizon \/ UNCHANGED Go!vars
  <2>1. UNCHANGED <<now, nextTick, ticks, log, waiting, returned>>
    BY <1>6 DEF Go!Cancel, Go!AtHorizon, Go!vars
  <2> QED
    BY <1>0, <2>1 DEF GoInv, GoType, TickInv, NoCatchUpBurst
<1> QED
  BY <1>1, <1>2, <1>3, <1>4, <1>5, <1>6 DEF Go!Next
-----------------------------------------------------------------------------
(* The two throttles under MCRateLimits. *)

Inv == (which = "py" => PyInv) /\ (which = "go" => GoInv)

\* The invariant holds of every behaviour of either throttle.
LEMMA Invariant == Spec => []Inv
<1> DEFINE all == <<which, now, log, pyOnly, goOnly>>
<1>1. Init => Inv
  <2>1. ASSUME Init, which = "py" PROVE PyInv
    <3>1. Py!Init
      BY <2>1 DEF Init
    <3>2. now \in Int /\ nextSlot = 0 /\ slot = 0 /\ first = 0 /\ log = << >>
      BY <3>1, IntervalAssumption DEF Py!Init
    <3>3. asleep = FALSE /\ late = FALSE
      BY <3>1 DEF Py!Init
    <3>4. Py!Waits = 0
      BY <3>2, <3>3 DEF Py!Waits
    <3>5. PyType
      <4>1. asleep \in BOOLEAN /\ late \in BOOLEAN
        BY <3>3, Zenon
      <4> QED
        BY <3>2, <4>1 DEF PyType
    <3>6. SlotInv /\ NoCatchUpBurst(log)
      BY <3>2, <3>3 DEF SlotInv, NoCatchUpBurst
    <3>7. SlotGrid
      BY <3>4 DEF SlotGrid
    <3> QED
      BY <3>5, <3>6, <3>7 DEF PyInv, PyBurstInv
  <2>2. ASSUME Init, which = "go" PROVE GoInv
    <3>1. now = 0 /\ nextTick = Interval /\ ticks = 0 /\ ~waiting /\ log = << >>
      BY <2>2 DEF Init, Go!Init
    <3> QED
      BY <3>1, IntervalAssumption DEF GoInv, GoType, TickInv, NoCatchUpBurst
  <2> QED
    BY <2>1, <2>2 DEF Inv
<1>2. Inv /\ [Next]_all => Inv'
  <2> SUFFICES ASSUME Inv, [Next]_all PROVE Inv'
    OBVIOUS
  <2>0. which' = which
    BY DEF Next
  <2>1. ASSUME which = "py" PROVE PyInv'
    <3>1. [Py!Next]_(Py!vars)
      BY <2>1 DEF Next, Py!vars, pyOnly
    <3> QED
      BY <2>1, <3>1, PyBurstStep, SlotGridStep DEF Inv, PyInv
  <2>2. ASSUME which = "go" PROVE GoInv'
    <3>1. [Go!Next]_(Go!vars)
      BY <2>2 DEF Next, Go!vars, goOnly
    <3> QED
      BY <2>2, <3>1, GoInvStep DEF Inv
  <2> QED
    BY <2>0, <2>1, <2>2 DEF Inv
<1> QED
  BY <1>1, <1>2, PTL DEF Spec

\* Whatever the stalls of the loop and the lateness of asyncio.sleep, the pacer
\* lets one send catch up, never more (Pacer.wait, pacing.py).
THEOREM PacerNoBurst == Spec => []PyNoBurst
<1>1. Inv => PyNoBurst
  BY DEF Inv, PyInv, PyBurstInv, PyNoBurst, Py!NoBurst,
         NoCatchUpBurst, Py!NoCatchUpBurst
<1> QED
  BY <1>1, Invariant, PTL

\* While no wait is called after its slot, the slots stay on the grid of the first
\* one, however late the timers are (Pacer.wait, pacing.py).
THEOREM PacerNoDrift == Spec => []PyNoDrift
<1>1. Inv => PyNoDrift
  BY DEF Inv, PyInv, SlotGrid, PyNoDrift, Py!NoDrift
<1> QED
  BY <1>1, Invariant, PTL

\* Whatever the stalls of the send loop, the ticker lets one send catch up, never
\* more (the select on ticker.C in run, both Go producers).
THEOREM TickerNoBurst == Spec => []GoNoBurst
<1>1. Inv => GoNoBurst
  BY DEF Inv, GoInv, GoNoBurst, Go!NoBurst, NoCatchUpBurst, Go!NoCatchUpBurst
<1> QED
  BY <1>1, Invariant, PTL
=============================================================================

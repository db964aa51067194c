# Verification of the RabbitMQ / Redpanda benchmark

TLA+ models of the benchmark programs in this repository, TLC configurations
that check them on small instances, and TLAPS proofs for the producers, the
throttles, the consumer groups, the script that runs the benchmark and the
report over its log.

The program under study is a load generator in two languages. A producer sends
messages to Redpanda or to a RabbitMQ super stream as fast as a rate limit
allows; consumers read them back; both export Prometheus counters. A shell
script runs a plan of tests against the containers and a Python script turns its
log and the counters into a report. What makes such a benchmark *correct* is
that its counters say what happened: a message is counted once, under the right
heading, whatever the order of confirmations, errors, outages and signals; that
the memory of a producer stays bounded; that a fixed rate is that rate; and that
a producer stops when it is told to.

## Inventory

| Component | Source | State it keeps | Operations | What is hard about it |
|---|---|---|---|---|
| Python Redpanda producer | `py-producer/redpanda.py`, `main.py` | semaphore of `MAX_IN_FLIGHT` permits, one future per message, stop event, counters | start-up, send loop, `on_ack`, shutdown | callbacks interleave with the loop at every `await`; three ways to finish a message, each has to release one permit |
| Python RabbitMQ producer | `py-producer/rabbitmq.py` | the same, and a connect loop | connect/retry, send loop, `on_confirm`, `close` | a confirmation may run while its own `send()` is suspended, and may never come |
| Go RabbitMQ producer | `producer/rabbitmq.go`, `main.go` | maps `sendTimes` and `msgBytes` under `mu`, channel `chConfirm`, `ctx` | connect/retry, send loop, confirmation goroutine | two goroutines on two maps, a bounded channel, an undo when `Send` refuses |
| Go Redpanda producer | `producer/redpanda.go` | franz-go's record buffer, `ctx` | topic creation, send loop, produce callback | callback on another goroutine; `Produce` blocks on a full buffer |
| Python pacing | `py-producer/pacing.py` | the next slot | `Pacer.wait` | stalls, late timers |
| Go throttle | send loops of `producer/*.go` | `time.Ticker` and its channel of one tick | the `select` of the loop | stale tick after a stall, tick racing with `ctx.Done()` |
| Redpanda consumers | `consumer/redpanda.go`, `py-consumer/redpanda.py`, `main` | read position and committed offset (in the client library and the broker), counters | start, poll, count, failed fetch, close; commit in the background | crash and rebalance between counting and commit; start at the end; an exception in the middle of a batch |
| RabbitMQ consumers | `consumer/rabbitmq.go`, `py-consumer/rabbitmq.py`, `main` | subscriptions, who is active (in the broker), counters | connect, subscribe/retry, message handler, consumer update | hand-over of the single active consumer, retry of a subscribe that failed halfway |
| Message codec | `*/message.go`, `*/message.py` | none | encode, decode, latency | which malformed input is an error, which is read as a message, which escapes |
| Suite runner | `testplan/run-benchmark-suite.sh` | containers up, run log, ramp position | fixed test, ramp test, signal cleanup | `set -e` in the middle of a test, stale or missing Prometheus series, traps |
| Report generator | `testplan/generate_report.py` | parsed run log | parse, query, average, tables | a log that several suites and dry runs have appended to; unreadable samples; groups that the plan interleaves |
| Metrics, environment | `*/metrics.*`, `*/env.py` | Prometheus series | increments | none of its own; the counters are variables of the modules |
| Deployment, dashboards, docs | compose files, `grafana/`, `docs/` | - | - | configuration |

**How they interact.** Producers and consumers meet only in the broker, and all
four kinds of process meet the rest of the system only through their counters,
which Prometheus scrapes. The suite runner starts and stops them as containers
(SIGTERM reaches the `stop` event or cancels `ctx`) and reads the counters back
to decide when to end a ramp. The report generator reads the run log for the
time windows and the counters for the numbers. So the counters are the interface
of the producers and the consumers, and `ProducerLedger` and `ConsumerLedger`
are its specifications. What producers and consumers share is the codec: the
producers write values of the class `valid` only, and the consumer modules let
other values into the topic as well, since nothing keeps other programs from
writing there.

**What makes each component correct**

- *Producers*: each message moves exactly one of `messages_produced` and
  `produce_errors`, once; a message counted as produced is in the broker; the
  unanswered messages are bounded where the code means to bound them; permits
  and map entries are neither lost nor duplicated; a signal ends the process.
- *Throttles*: no burst after a stall beyond one send, no drift.
- *Consumers*: a message delivered is counted once as consumed or as an error,
  the loop survives any message, a signal ends it, and what a hand-over, a crash
  or a commit skips or repeats is known: on Redpanda no record is committed that
  nobody counted, on RabbitMQ no message is counted twice.
- *Codec*: `decode` accepts what `encode` produced and turns everything else
  into the one error the consumers handle.
- *Suite runner*: one broker at a time, no test leaves containers behind, a ramp
  ends, the log brackets the time that a broker stack is up.
- *Report*: the windows it reads are those of the suite it reports and do not
  overlap, a test that was broken off has no numbers, an average is that of the
  good samples, every test has one row, and the abort of a ramp is shown where
  the ramp ended.

`PROJECT.json` lists the hazards of the code line by line, each with the
properties that would catch it.

## Modules

```
ProducerLedger   <-implements-  PyRedpandaProducer   PyRabbitMQProducer
                                GoRabbitMQProducer   GoRedpandaProducer
RateLimit        <-uses-        PyPacer              GoThrottle
MessageCodec     <-extended by- RedpandaGroup        RabbitMQGroup
ConsumerLedger   <-implements-  RabbitMQGroup
SuiteRunner      <-extended by- SuiteReport
ReportTables     <-extended by- SuiteReport
<module>_proofs                 extends its module and TLAPS
Suite_proofs                    extends SuiteReport, and so the other two
RateLimits_proofs               extends MCRateLimits, for both throttles
MC<module>                      instance for TLC
MCRateLimits                    instance of both throttles
MCSuite                         instance of SuiteReport
```

Each component module has the same parts in the same order: the constants with
their assumptions, the state, the program's actions in the order of the source,
the actions of the libraries and the broker, `Next`, the fairness, the
properties. Operators commented "Mutated form of ..." are what a plausible
mistake would make of the definition that follows them; no specification uses
them, they are there to see each property fail.

### ProducerLedger: what a producer promises

Three variables: the attempts in flight, and the increments of the two counters
for each message. `Attempt` puts a message into a window of bounded size,
`CountProduced` and `CountError` take it out with one increment. Every producer
is checked to implement it (`LedgerSpec`), with these mappings:

| Producer | `inflight` | `Window` |
|---|---|---|
| Python Redpanda | `Held`: messages that hold a permit | `MaxInFlight` |
| Python RabbitMQ | `Held`, lost confirmations included | `MaxInFlight` |
| Go RabbitMQ | attempted and not counted | all messages: nothing bounds it |
| Go Redpanda | the client's buffer and the record in `Produce` | `MaxBuffered + 1` |

### PyRedpandaProducer (`py-producer/redpanda.py`)

asyncio switches tasks only at an `await`, so an action is the code between two
of them and `pc` names the `await` at which `run()` is suspended: `EnsureTopic`
and `StartProducer` (an exception leaves `run()` before its `try`, `crashed`),
`LoopTop` (the `while` condition), `Paced`, `Acquire` (the permit), `SendQueued`
or `SendRaises` (the two outcomes of `await producer.send`), `ProducerStopped`
(`await producer.stop()`). `OnAck` is the done-callback and `Signal` the handler
installed by `main.py`; both run at any `await`. `phase[m]` is the life of one
message: the future and its callback are not separate variables because there is
one of each per message.

The client and the broker: `Persist`, `ResolveOk`, `ResolveErr` settle a queued
record; one reported as failed may have been stored. `Outage` and `Recover`
toggle the broker at any time, without a bound.

### PyRabbitMQProducer (`py-producer/rabbitmq.py`)

The same loop with the connect loop in front (`ConnectTop`, `Connected`,
`ConnectFails`, `RetryConnect`). rstream buffers a message inside `send()`
(`Buffer`), so `OnConfirm` may run before `SendReturns`. `Drop` is a
confirmation lost with its connection: rstream forgets it and nobody gives the
permit back. `close()` (`Closed`) owes nobody the confirmations still missing,
so there is no counterpart of `FinalAcksCounted` here.

### GoRabbitMQProducer (`producer/rabbitmq.go`)

Two program counters, `pc` for the send loop and `cpc` for the confirmation
goroutine; a step is the code up to the next point where the other goroutine can
see or change something: the mutex, the channel, the client. The mutex is a
variable, so that a section that forgot it could be expressed. `LockStore`,
`StoreEntry`, `SendAccepted`/`SendRefused`, `LockUndo`, `UndoEntry` are lines
145-177; `Receive`, `LockLookup`, `Lookup`, `Count` are the goroutine. `found`
is what the lookup returned, used after the mutex is released, as in the code.
`timed` and `sized` record which messages reached the latency histogram and the
byte counter. A batch is a set of statuses: the order inside one batch is left
open. `Publish` is the client writing a batch to `chConfirm`, and blocks while
the channel is full.

`Reported` is the set of messages that the client may answer even though `Send`
refused them. The code has no protection against it (line 171 counts, and the
goroutine would count again), and nothing in it tells that the client never
does, so the instance has one such message: the ledger is promised for the
others, and the rest of the properties for all.

### GoRedpandaProducer (`producer/redpanda.go`)

One goroutine and the closure that franz-go calls back. `Produce` blocks on a
full buffer (`Buffer` is not enabled) until `ctx` is cancelled
(`ProduceCancelled`). `Close` does not flush: what is still buffered then is not
counted, and stays in the ledger's window.

### PyPacer, GoThrottle, RateLimit

Discrete time, arbitrary work between two sends and arbitrary lateness of the
timer. `RateLimit!NoCatchUpBurst` is the common promise over the log of send
times. `Wait` is `Pacer.wait` up to its `sleep`, with `nextSlot` for `_next`;
`GoThrottle` has the ticker with its channel of one tick, and the `select`. The
first wait of the Python class and the first tick of the Go ticker differ (now,
and one period later), which the promise leaves open.

### MessageCodec (`py-consumer/message.py`, `consumer/message.go`)

`Values` are the classes of values that the decoders tell apart, `PyDecode`,
`PyLatency` and `GoDecode` what becomes of each. The two languages differ: a
JSON `null`, a missing key or a null time is a message of time 0 in Go and an
error in Python; a number inside quotes or a fraction is a message in Python and
an error in Go. Two classes leave the Python handler as an exception
(`Escapes`): an infinite time raises `OverflowError` in `decode`, and an integer
that no float can hold raises it in `latency_seconds`, after the message has
been counted.

### RedpandaGroup (`py-consumer/redpanda.py`, `consumer/redpanda.go`)

A group of consumers of one language, chosen in `Init`. `Start`, `PyPoll`,
`PyRaise`, `FetchError`, `Wake`, `Close` are `run()` of Python: there is no
`await` between `getmany` and the last record, so a poll and its counting are
one step, and `PyRaise` is the same step cut off at the record `e` whose
exception leaves the loop for the `finally`. `GoPoll`, `GoPollCancelled` and
`GoCount` are the loop of `consumer/redpanda.go`, where rebalances and commits
run beside the batch; the cancelled poll returns before `EachRecord` (line 49)
and drops what it fetched. `Signal` is SIGTERM, `Crash` a kill, and `Ended` what
the compose files' `restart: unless-stopped` does then.

The coordinator and the clients: `Rebalance` gives the partitions to the reading
members in balance (`Balanced`), `GiveUp` commits for the partitions that move,
`Resolve` begins at the committed offset or else at the end of the partition,
`AutoCommit` commits now and then. `head` is the position before the batch in
work, which is what franz-go commits by itself; aiokafka commits the position of
the last poll, which is the same as `head` there, a poll being one step.

History variables: `start` (where the group last began at the end), `dropped`,
`raised`, `torn` (records left uncounted by a stop or a crash, by an exception,
or in work while their partition moved) and `faults` say what the properties
have to except, and no action reads them except to bound `faults`.

### RabbitMQGroup (`py-consumer/rabbitmq.py`, `consumer/rabbitmq.go`), ConsumerLedger

A group of both languages on one super stream. `Started`, `StartFails`,
`BeginSubscribe`, `SubscribeOne`, `Subscribed`, `SubscribeFails`, `Close` are
`run()`: Python retries a subscribe that failed (line 64) without undoing the
partitions it had done, so `subs[p]` may hold two subscriptions of one consumer,
while Go returns the error and is started again. `OnMessage` is the handler and
`Activate`/`Deactivate` the consumer-update callback, which always answers with
offset NEXT. `inbox` holds what was delivered to a subscription and not handled
yet; it survives the loss of activity but not the process. `broken` marks a
subscription whose task an exception ended.

`ConsumerLedger` is the promise: a message moves at most one of the two
counters, once. It promises nothing about messages that nobody receives, since
offset NEXT skips what is stored during a hand-over.

### SuiteRunner (`testplan/run-benchmark-suite.sh`)

An action is one external command and the shell code up to the next one, so a
signal, a failing command or a dying container can come between any two. `pc`
says which command is next; `up` is the set of stacks with containers, and both
it and `log` outlive an invocation (`Invoke`). `BeginTest`, `RunFixed`,
`TearDown`, `EndTest`, `Cooldown` are `run_fixed_test`; `RampStep`, `RunStep`,
`CheckBroker`, `Evaluate` and `PrintStep` (its dry-run form) are the loop of
`run_ramp_test`. `Compose` is a docker command, only printed with `--dry-run`;
`Fail` is the same command failing under `set -e`, with or without its effect,
and the script then ends where it is, since the trap is for signals only.
`Signal` and `TearDownAll` are that trap, which does not look at `--dry-run`.
`Line` keeps of a log line what the report reads.

Abstractions: argument parsing is done; the three thresholds of a ramp step are
one choice (`degraded`), the throughput one of a few numbers, compared without
the four decimals of `bc`; of the two `RAMP` lines of a step the one with the
results is kept; a second signal inside the trap is left out. `clean` and
`faulted` are history: whether the invocation began without a broker stack, and
whether a command has failed in it.

### SuiteReport (`testplan/generate_report.py`)

State functions of the log: `SuiteLines` are the lines `parse_run_log` reads,
`Window` and `Tests` the START and END it keeps per test, `ShownAborts` the rows
of `build_ramp_table` that show an abort, `Queried` the tests for which
Prometheus is asked. The time of a line is its index. The report is generated
while no script runs, so its properties are about `Ended`.

### ReportTables (`testplan/generate_report.py`)

The pure parts of the report. `Average` folds the series of an answer, and
`AddSeries` the samples of a series, as the two loops of `prom_query_range` do;
`MeanOfGood` says with quantifiers what that is: the sum and the number of the
good samples. The loops of `build_report` append rows, so each is a `Joined` of
tables or a `Kept` of the entries at some places: `GroupOrder` keeps the group
of a test when `seen` does not have it, `Group` the tests of one group,
`Averaged` the groups that are not a ramp (`continue`), `ResourceRows` the tests
of type `fixed`, and `RowsOf` joins the tables of the groups. `OneRowFor` says
which rows those are, by the order `Above` and the set of the tests. The two
invariants `AverageIsSound` and `RowsOnce` put small inputs through them; they
stand in SuiteReport, to be evaluated where the log is empty.

## Runs

| Run | Instance | Question | Distinct states |
|---|---|---|---|
| `py_redpanda` | 3 messages, 2 permits | permits, counting, shutdown, ledger | 6172 |
| `py_rabbitmq` | 3 messages, 2 permits | the same with lost confirmations | 7312 |
| `go_rabbitmq` | 3 messages, one of them in `Reported`, 1 channel slot | mutex, maps, channel, counting, shutdown, ledger | 80362 |
| `go_redpanda` | 3 records, buffer of 2 | blocked `Produce`, shutdown, counting, ledger | 2464 |
| `rate_limits` | interval 3, clock to 14, both throttles | burst and drift | 99607 |
| `redpanda_group` | 2 consumers, 2 partitions with 2 and 1 records (valid, infinite time; not JSON), 1 fault | exact counting, commits | 1802092 |
| `redpanda_group_live` | 2 consumers, 1 partition of 2 records, 1 fault | is every record counted, does a signal end the loop | 99645 |
| `redpanda_escape` | the same | is a stop all that ends the loop? No | (violation) |
| `rabbitmq_group` | a Python and a Go consumer, 1 partition of 2 messages, 2 subscriptions each, 2 faults | at most once, progress of the backlog | 160457 |
| `suite` | a ramp of 2 steps, a fixed test, one of an unknown type; 2 invocations | stacks, windows, clean-up, end, report | 42962 |
| `suite_report_dry_run` | the same | are the windows those of the last real suite? Not after a dry run | (violation) |
| `suite_broker_gone` | the same | does a ramp end when its broker is gone? It need not | (violation) |

**Properties worth a comment**

- `PermitConservation` relates the semaphore to the phases of all messages. It
  fails if any of the three ways to finish a message forgets its `release`.
- `LedgerSpec` of each producer says that one step moves at most one counter of
  one message, and only while the message is in flight: a second answer, an
  error after a success or a message counted before it was attempted all violate
  it.
- `NoStrandedEntry` says who may own a map entry. The interesting case is a
  confirmation read before `Send` has returned: the entry is already there,
  since the code stores it first.
- `ProducedIsTimedAndSized` is the same race seen from the metrics.
- `SignalEndsRun` of the RabbitMQ producer has an exception: when lost
  confirmations hold every permit, the loop is parked in `acquire()` for ever
  and never looks at `stop`. The property is the strongest that holds; TLC
  refutes it without the exception.
- `CancelEndsRun` of the Go RabbitMQ producer needs the broker to be reachable
  once: `connectRabbitMQEnv` does not look at `ctx`. That of the Go Redpanda
  producer needs nothing of the broker.
- `ExactUnlessDisturbed` is an equation for every record: counted once if the
  group has read it, not at all otherwise. Joins, leaves, stops, rebalances and
  failed fetches do not disturb it; a crash or a lost commit does, and so does
  the batch in work of a Go consumer when its partition moves (`torn`). A stop
  that interrupts the poll drops records (`dropped`).
- `CommittedIsCounted` needs no such exception for faults: it is what makes a
  restart lose nothing but the records it names.
- `RecordIsCounted` begins only when the group has a position: a group that
  never committed starts at the end of the partition, and what was stored before
  is nobody's.
- `AtMostOnce` is a refinement of `ConsumerLedger`. It rests on three things at
  once: one subscription is active per partition, what is delivered is never
  delivered again (offset NEXT moves forward only), and the handler moves one
  counter.
- `BacklogIsConsumed` holds while the subscription stays active; if an exception
  has ended its task, an instance that reads nothing stays the active one.
- `OneBrokerAtATime` and `UpInsideWindow` hold for an invocation that began
  without a broker stack (`clean`). A failed command leaves its stack behind,
  and the next invocation does not look for it: it then measures beside that
  stack.
- `LeavesNothing` says what a script leaves that ended by itself or by the trap;
  a failed one (`faulted`) has no clean-up at all, and `tear_down_all` ignores
  errors.
- `UnfinishedHasNoNumbers` relates the log to the report: a test that the last
  real suite did not finish must not be queried with a window put together from
  parts.
- `WindowsDisjoint` and `ReportsLastUnlessDry` range over logs with whole and
  broken-off suites: a START without END must not borrow the END of a later run.
- `AbortMarksLastRow` says *or on no row*: the abort of a ramp whose containers
  are gone comes before its step has a line with results (line 281 of the
  script), so the table shows every row as OK. With the broker container alone
  gone the script does not get there at all, see the findings.

**Bounds.** In the consumer runs `Value` bounds the partitions and what they may
hold: `valid` and `infinite_time` in one partition put a good record before and
after the exception, `not_json` in the other one makes a batch of two partitions
with an error. `MaxFaults` bounds crashes, lost commits, failed fetches, failed
subscribes and outages together; joins, leaves, signals and rebalances are not
bounded. Two consumers are what a hand-over needs, and `MaxSubs = 2` what a
retry on top of a half-done subscribe needs. Consumers are symmetric in
`redpanda_group`, which has invariants only; the runs with liveness use no
symmetry.

In `suite`, two invocations are what it takes for a leftover to meet a later
test and for two suites to share a log; a ramp of two steps has a first step
without and a second one with a throughput to compare; two tests on different
brokers are what could be up together. The tables of the report are run on every
plan of up to four tests in three groups, so that a group can be interrupted by
another one and resume; the theorems about them have no such bound.

`Messages` is finite only for TLC: when
they are used up, `LoopTop` waits for the stop. Three messages and two permits
are the smallest instance in which the loop parks in `acquire()` with two
messages in different phases and a third one pending; two messages and one
channel slot are the smallest in which a batch waits for a full channel while
the goroutine waits for the mutex that the loop holds for the next message, and
the third one is the one whose refusal is reported. `Horizon` bounds the clock:
with an interval of 3 it leaves room for four intervals, so a stall can skip
several. The producers are symmetric in their messages, but they have liveness
properties, so no symmetry reduction is used.

**Fairness.** The event loop runs every runnable task and callback, and the Go
scheduler every runnable goroutine (weak fairness). `sync.Mutex` is
starvation-free by its documentation, hence strong fairness on the three lock
steps. The broker may fail and come back for ever; where a property needs it,
`Recover` is fair (it does not stay down) and what it answers infinitely often
enabled is done eventually (strong fairness). Every command of the script
returns (weak fairness). A consumer that can go on does, docker restarts what it
should, and the coordinator answers; a fetch does not pass over a partition with
records for ever (`WF(PollsFrom(p))`, as both clients take turns), and the
broker delivers to the active subscription. A failed fetch that recurred for
ever would starve a consumer, which `MaxFaults` rules out. No fairness is put on
failures, signals, commits or outages. `GoRedpandaProducer` has none on
`Recover`: its shutdown does not need the broker, and `BufferedIsCounted` states
its assumption itself.

**Assumptions about the libraries**, modelled from how the code uses them:
aiokafka resolves each future once and `stop()` returns when all are resolved;
`on_ack` was added before `stop()` began to wait, so it runs first; rstream
never confirms a message whose `send()` raised; the Go stream client answers
every accepted message once (its timeout produces a negative answer); `Produce`
gives up on a cancelled `ctx`; brokers store a message before they acknowledge
it, and may store one they never acknowledge. For the consumers: aiokafka
commits the position of the last poll, in the background, when it gives
partitions up and in `stop()`; franz-go commits by itself what was polled before
the batch in work, and what it commits when partitions move or at `Close` is
that or the position itself, which is left open, as the code does not ask for
`BlockRebalanceOnPoll`; the two clients cannot share a group, having no
assignment strategy in common. rstream and the Go stream client come back by
themselves after an outage and hand messages to the handler one after the other;
the broker has exactly one active subscription per partition, or none while it
changes. Whether an exception of the handler ends rstream's task is not known,
so both happen.

**Deadlock** is checked in every passing run but `suite`, whose script ends. A
process that has ended leaves the broker toggling, consumers end in `AllExited`,
and the pacing models in `AtHorizon`.

### Findings

`redpanda_escape`: `decode` of `py-consumer/message.py` "raises ValueError for
anything that is not a valid message" (line 16), and the plan of the Python
programs asks to "never crash the loop" on a malformed body. But `json.loads`
accepts `Infinity` and `1e999`, and `int()` of those raises `OverflowError`,
which is no `ValueError`: it leaves the loop, `consumer.stop()` commits past the
whole batch, and the records behind the bad one are counted by nobody.

`suite_report_dry_run`: `parse_run_log` promises the windows of "the last
non-dry-run suite" but reads from its first line to the end of the file. A dry
run afterwards logs START and END of every test within a second, and these
replace the real windows, so the report queries Prometheus for the wrong time.

`suite_broker_gone`: "The ramp also stops if the broker container disappears"
(`testplan/README.md`, line 84), but `docker ps --filter name=redpanda` matches
`redpanda-producer` and `redpanda-consumer` as well, which restart by
themselves. The check passes and the step is evaluated without a broker.

Not a run of its own: `testplan/README.md`, line 50, makes `cooldown_seconds`
optional, but a missing field is read as `null`, on which `sleep` fails and `set
-e` ends the suite after that test; the model has it as the failure of
`Cooldown`.

Seen while modelling, and not contradicted by a line that a run could refute:

- The comment over `MAX_IN_FLIGHT` (`py-producer/pacing.py`, lines 4-6) says the
  confirmation channel of the Go RabbitMQ producer gives backpressure when the
  broker is slow. The channel buffers confirmations already received and the
  loop never waits on it, so nothing bounds the unanswered messages and the two
  maps; its ledger window is the whole run.
- `py-consumer/rabbitmq.py` (lines 41-42) ignores a message with an empty body
  and counts nothing, while the same plan wants an empty body in
  `consume_errors`. The Go handler ignores a message without a data section, and
  counts an empty one.
- The CPU and memory tables of the report take every test whose type is `fixed`,
  soak tests included; a ramp is known by the prefix of its name in the report
  and by its type in the runner, so a ramp of another name has no steps in the
  report.
- The rate table prints no efficiency for an achieved rate of exactly 0.

## Proofs

TLAPS proves for every set of messages and every `MaxInFlight > 0`
(`MaxInFlightAssumption`), for every `ConfirmSlots` and `Reported`, for every
client buffer (`MaxBufferedAssumption`), for every plan whose tests have numbers
where the plan has numbers (`PlanAssumption`, and the three assumptions after
it), for every interval of the throttles (`IntervalAssumption`), and for every
set of consumers and partitions and every sequence of values in a partition
(`ValueAssumption`; `ConsumersAssumption` says that `NoOne` is no consumer),
whatever the number of faults:

| Theorem | Statement |
|---|---|
| `PyRedpandaProducer_proofs!TypeCorrect` | `Spec => []TypeOK` |
| `PermitsConserved` | `Spec => []PermitConservation` |
| `InFlightIsBounded` | `Spec => []InFlightBounded` |
| `ProducedArePersisted` | `Spec => []ProducedIsPersisted` |
| `EveryMessageCountedOnce` | `Spec => []CountedOnce` |
| `FinalAcksAreCounted` | `Spec => []FinalAcksCounted` |
| `OnlyAcksBlock` | `Spec => []ParkedByAcks` |
| `ImplementsLedger` | `Spec => LedgerSpec` |
| `PyRabbitMQProducer_proofs!TypeCorrect` | `Spec => []TypeOK` |
| `PermitsConserved` | `Spec => []PermitConservation` |
| `EveryMessageCountedOnce` | `Spec => []CountedOnce` |
| `OnlyLostConfirmationsBlock` | `Spec => []ParkedByConfirmations` |
| `ImplementsLedger` | `Spec => LedgerSpec` |
| `GoRabbitMQProducer_proofs!TypeCorrect` | `Spec => []TypeOK` |
| `MapsAreExclusive` | `Spec => []MapsExclusive` |
| `CountedOneWay` | `Spec => []ProducedXorError` |
| `MapsDoNotLeak` | `Spec => []NoStrandedEntry` |
| `NoConfirmationOvertakes` | `Spec => []ProducedIsTimedAndSized` |
| `NobodyWaitsInACircle` | `Spec => []NoMutualWaiting` |
| `ImplementsLedger` | `Spec => LedgerSpec`, if `Messages` is finite |
| `GoRedpandaProducer_proofs!TypeCorrect` | `Spec => []TypeOK` |
| `ImplementsLedger` | `Spec => LedgerSpec` |
| `RedpandaGroup_proofs!TypeCorrect` | `Spec => []TypeOK` |
| `CommittedOnlyCounted` | `Spec => []CommittedIsCounted` |
| `ExactWhileUndisturbed` | `Spec => []ExactUnlessDisturbed` |
| `DuplicatesAreBounded` | `Spec => []CountedOncePerFault` |
| `CommitsNeverGoBack` | `Spec => [][CommitsStand]_vars` |
| `RabbitMQGroup_proofs!TypeCorrect` | `Spec => []TypeInv` |
| `QueuedIsUncounted` | `Spec => []QueueInv` |
| `CountedAtMostOnce` | `Spec => AtMostOnce` |
| `Suite_proofs!TypeCorrect` | `Spec => []TypeOK` |
| `StacksInvariant` | `Spec => [](StackInv /\ MonitoringInv)` |
| `OneBrokerIsUp` | `Spec => []OneBrokerAtATime` |
| `NothingIsLeft` | `Spec => []LeavesNothing` |
| `StacksRunInWindows` | `Spec => []UpInsideWindow` |
| `WindowsDoNotOverlap` | `Spec => []WindowsDisjoint` |
| `ReportIsOfLastSuite` | `Spec => []ReportsLastUnlessDry` |
| `OnlyFinishedHaveNumbers` | `Spec => []UnfinishedHasNoNumbers` |
| `AbortIsOnLastRow` | `DistinctNames => (Spec => []AbortMarksLastRow)` |
| `RampHasNoGap` | `DistinctNames => (Spec => []RowsHaveNoGap)` |
| `RampIsWhole` | `DistinctNames => (Spec => []RampTableIsWhole)` |
| `InvocationGoesForward` | `Spec => NeverGoesBack` |
| `InvocationIsBounded` | `Spec => []WithinBounds` |
| `AverageIsMean` | `Average(answer) = MeanOfGood(answer)`, for every answer |
| `AverageIsRight` | `Spec => []AverageIsSound` |
| `EveryPlanHasItsRows` | `OneRowFor(plan)`, for every plan over any groups |
| `EveryTestHasOneRow` | `Spec => []RowsOnce` |
| `RateLimits_proofs!PacerNoBurst` | `Spec => []PyNoBurst` |
| `PacerNoDrift` | `Spec => []PyNoDrift` |
| `TickerNoBurst` | `Spec => []GoNoBurst` |

Four theorems have a hypothesis of their own. `IsFiniteSet(Messages)`: the Go
RabbitMQ producer has no bound on what is unanswered, so the window of its
ledger is the number of messages, and there are finitely many since an id is a
128-bit uuid (`uuid.New`). `DistinctNames`, of the three about ramps: no two
tests of the plan have one name, as in `testplan.json`. It cannot be dropped:
with two ramps of one name TLC finds the abort of the second shown on a row of
the first, since the report matches rows, aborts and windows by name. The plans
of `EveryPlanHasItsRows` are those whose tests are called by their place, so
that a name says which of two tests comes first, and in which the group `RAMP`
is that of the ramps.

The argument for the Python Redpanda producer has two layers. The permits:
`TypeOK` and `PermitConservation` are inductive together. Each action moves at
most one message into or out of `Held`, so the lemmas `HeldGrows`, `HeldShrinks`
and `HeldStays` say what happens to the set, and `PermitTaken` and
`PermitReturned` what happens to its cardinality; finiteness of `Held` is part
of the invariant because `Messages` may be infinite. `InFlightBounded` follows
since what is queued is a subset of `Held`. The phases: `CountedOnce` alone is
inductive, but `ProducedIsPersisted` is not (an acked record that is not stored
would be counted), nor is `FinalAcksCounted` (nothing in it rules out a message
left in flight when `run()` returns), so `PhasesInvariant` adds that an acked
record is persisted, that a message in `sending` implies `pc = "sending"`, and
that an ended run has none in flight. The refinement follows: `Acquire` maps to
`Attempt`, `SendRaises` and `OnAck` to a count, everything else to a stutter,
and the window guard of `Attempt` is `PermitConservation` with a permit left.
`ParkedByAcks`, what a loop parked in `acquire()` waits for, is what
`PermitConservation` and the message in `sending` come to at `permits = 0`.

The Python RabbitMQ producer goes the same way. Its actions fall into four kinds
(`StepKinds`): those that touch no message, those that move a message that keeps
its permit, those that return a permit with one increment, and `Acquire`; each
theorem has one case per kind. `ParkedByConfirmations` is the safety half of
`SignalEndsRun`: fewer than `MAX_IN_FLIGHT` lost confirmations never park the
loop for good. It needs `SendInv`, that one message at most is in `send()`.

The Go Redpanda producer has no permits. Its window is bounded by the client's
buffer, so the invariant is about sets: the buffer is finite and not over its
limit, the record in `Produce` is not in it (`BufferInv`), there is one exactly
at `pc = "produce"` (`CurInv`), and a record that is waiting has no increment
(`CountInv`).

`CommittedIsCounted` is not inductive: a commit takes over a position, so the
positions must be as good as the commits. `SettledInv` says that each record
before `position`, `head` or `committed`, and after `start`, is settled, that
is, counted, in hand, or one of those left uncounted. `MovesSettle` then covers
every action that copies an offset from one to another or forgets it,
`PollSettles` the ones that advance it, and `QuietSettles` the rest. A crash
settles the batch it loses by `dropped`; a rebalance moves no record out of a
hand. `BatchInv` says that only a consumer in `handle`, of Go, has a batch.

`ExactUnlessDisturbed` says nothing of where the places of a partition lie, and
so cannot be inductive: a poll that moved `position` back would count again.
`PlacesInv` orders `start`, `head`, `position` and `committed` where they are
known; `WorkInv` says that a record in a batch is work of the owner of its
partition, that only a handler has work, or a stopping consumer that drops it,
and that only Python leaves records by an exception; both hold under any fault,
for records that no rebalance has torn from their handler. `ExactFor` adds to
the equation that a record an exception left had been read. A poll of Python
counts each record between the old position and the new one once
(`CountRecordsExact`), one of Go moves them into a batch, where they are in
hand, and the handler counts the batch; a rebalance while a batch is out tears
its records, which the property excludes, and otherwise restarts at `committed`,
which is what was read as long as `faults = 0`.

`CountedOncePerFault` is what is left of that under faults: a record is counted
no more often than once for each crash or lost commit and once more. `CountInv`
makes it inductive by spending the "once more" only on records that the group is
through with (`Done`: read, and neither in a hand nor dropped on the way out).
A count takes a record out of a hand (`CountGrows`); a step that makes the group
read again what it was through with is a fault (`CountStays`), since a rebalance
of untorn records restarts where it had read to. In the instance of the run it
is not vacuous: TLC finds a record counted twice after one fault.

That no committed offset is taken back needs `CommitInv`: what is committed of a
partition with a position is not beyond `head`, so neither of the two places
that a client may commit is before it (`OfferedGrows`). A partition whose commit
is lost is given up in the same step, and its next owner begins at what is
committed, which gives `CommitInv` again. TLC finds both to hold on the instance
of `redpanda_group`.

For the super stream `QueueInv` is the invariant: a queued message is before
`next` of its partition, has moved no counter, and is in no other queue; a
message not before `next` has moved no counter either. Delivery needs the second
part, `OnMessage` the first, and hand-overs only move `next` forward, which
`PositionInv` (`next <= stored`) gives. `CountsOne`, that no value is both
counted and an error, makes `OnMessage` one step of the ledger; every other
action is a stutter.

For the Go RabbitMQ producer `MutexInv` adds to `MapsExclusive` who holds `mu`
at each program counter; mutual exclusion follows. The three properties of its
counters and maps rest on one invariant of four parts. `PlaceInv`: a message has
at most one answer, in one of the client, `chConfirm`, `batch` and `item`.
`CurInv`: the message of the iteration has none before `Send` and, if it was
refused, one only if the client reports refusals too. `CountInv`: a message with
an answer to come is not counted, except as such a refusal. `MapInv`: one with
no error and no answer looked up still has both its entries, which is why a
confirmation never finds them missing; `NoStrandedEntry` is the converse. `Send`
may be refused at any point and the mutex taken by either goroutine first, so
each part needs the others. The refinement leaves out the messages that the
client may answer after refusing them (`Reported`), which the code may count
twice as errors: `LockStore`, which takes the message and the mutex, maps to
`Attempt`, `SendRefused` and `Count` to a count.

`NoMutualWaiting` is the safety half of `AcceptedIsCounted` and `CancelEndsRun`.
`LoopCan`, `ConfirmerCan` and `ClientCan` write out the guards of the three
sides, as ENABLED is beyond the provers; on the instance of the run TLC finds
each equal to ENABLED of its actions. The holder of the mutex always has a step
(`MutexInv`), and a side that waits for the mutex or the channel waits for one
that has: `HandInv` says that a batch in work is not empty, that a lookup has
its status, that the channel holds no empty batch, and that nothing is in hand
where the goroutine receives.

For the suite runner `OneBrokerAtATime` is not inductive: a state with one stack
up and the script about to bring up the other satisfies it. `StackInv` says by
`pc` what may be up (only the current test's stack inside a test, none outside,
none in a dry run, none after the trap unless a command failed) and
`MonitoringInv` adds the two ends of `stop_monitoring`; both are preserved by
each action, with one step for each, and the two theorems follow. `TypeOK` needs
`InTest`, that a test index used inside a test is one of the plan.
`UpInsideWindow` follows from `StackInv` with `WindowInv`, that inside a test the
last line of the log is one of that test.

For the report over that log, `LogInv` says what any log of any number of
invocations is like, whole or broken off: the lines are in the order of the
invocations, each invocation has its suite line first (`Ordered`, `Headed`), and
every `END` has its `START` with no test or suite begun between (`Closed`); and
of the script, that inside a test its `START` is still open. `GoodAppend` shows
that a line keeps all that, so each action has only to say which line it writes.
The lines from the last real suite on that are not of a dry run are then that
suite's own (`RealLinesAreOwn`), `WindowIs` and `WindowHasOneTest` say what the
two `Max` of a window find, and the three theorems about windows follow.
`AbortMarksLastRow` needs more: `RampInv` says that a row with the producers of
an abort of the same test and invocation is the last of its ramp (`AbortsLast`),
which holds because the rows of the ramp that runs have fewer producers than it
has now, and because a test not begun has no rows, which is where
`DistinctNames` comes in. `MaxIs`, that a set of line numbers has its maximum, is
drawn from the well-foundedness of the natural numbers.

That a ramp table has no gap is about neighbouring lines: `ChainInv` says which
line may follow which (`Follows`), and what the script, where it is, may write
after the last one (`Place`). So every row of a ramp is its first or one step
above another (`RowsClimb`), and such a set is a beginning of the `Ladder` of
initial, step and maximum (`RowsAreRungs`); an `END` that is neither dry nor
after an `ABORT` follows a row from which the next would pass the maximum, so
then it is all of it (`LadderIsWhole`).

`InvocationEnds` itself stays with TLC, but the measure behind it is proved:
with `Part`, `test`, `Stage`, `producers` and `Rank` taken in this order, every
step but a new invocation and a broker that dies is `Further`, and
`WithinBounds` bounds the tests by the plan and the producers of a ramp by its
maximum. So an invocation has finitely many steps, and fairness is needed only
to take them.

For the numbers of the report the provers have to be told what a fold computes.
They cannot use an induction theorem whose hypothesis is an operator, so
`CountingUp` states induction for a set of natural numbers, from the least
number outside it, and `FoldExists` and `FoldInduction` do the same for the
subsets of a finite set. `LeftToRight` then says that a `FoldLeft` has a partial
result after each place; `SeriesAddUp`, `AnswerAddsUp` and `TablesJoin` say it
of the three folds, with the defining equation of the library's fold. The mean
of the good samples grows by one sample as `Add` does (`MeanOfSeries`), which
gives `AverageIsMean`. For the tables `Listing` keeps of each row its table and
its place in it, in order (`ListingGrows`, `JoinedLists`); `KeepsPlaces` is that
for tables of at most one row. `GroupOrderBegins` then finds every group at its
first test, `AveragedBegins` says that leaving out the ramps keeps their order,
and `TablesInOrder` that the tables of such groups have each test once, in the
order of `Above`.

For the throttles `NoCatchUpBurst` relates two entries of a log that grows, so
the invariants bound the next entry by each one before it. `SlotInv`: the slot
of the pacer lies `Len(log) - i` intervals after send `i` or later. `SlotGrid`:
while no wait was late, the slots lie on the grid of the first. `TickInv`: the
next tick lies as many intervals after send `i` as there were sends since,
counting the tick in the channel. All that is used of the products is how they
grow by one (`OneMore`).

**Only model-checked:** the liveness properties (`SignalEndsRun`,
`CancelEndsRun`, `AcceptedIsCounted`, `BufferedIsCounted`, `RecordIsCounted`,
`StopEndsRun`, `BacklogIsConsumed`, `InvocationEnds`), since fairness and ENABLED
are out of the prover's reach. Every other property of a passing run is a
theorem. `InFlightBounded`, `CountedOnce`, `QueueInv`, `ParkedByAcks`,
`ParkedByConfirmations`, `NoMutualWaiting`, `CountedOncePerFault`,
`CommitsStand`, `RowsHaveNoGap`, `RampTableIsWhole`, `NeverGoesBack`,
`WithinBounds` and the type invariants of four modules are not part of a run:
they are proved. The three properties that the code violates are TLC's alone. No
module that has theorems declares or reaches a RECURSIVE operator.

## Not modelled, and the plan

Modelled first: the producers, since their counters are what every result of the
benchmark is computed from, then the script that measures with them, then the
consumers with the codec, and the tables of the report; then the proofs of all
their safety properties, and the safety half of what must end. What stays open:

1. The liveness properties for every instance. What they rest on is proved for
   four of them (`NoMutualWaiting`, `ParkedByAcks`, `ParkedByConfirmations`,
   `NeverGoesBack` with `WithinBounds`); the consumers and the Go Redpanda
   producer have no such theorem.
2. How often a torn record may be counted: `CountedOncePerFault` leaves it out,
   as its old handler may finish after the new one has begun.

Not modelled, with the hazards that stay without a property:

- PromQL and the three thresholds of a ramp step are one choice, so an
  expression over a series that does not exist yet, or 0/0, is outside (listed).
- One invocation of the script runs at a time, so a signal to a dry run beside a
  real suite is outside (listed).
- A ramp test whose containers are gone shows no abort in the report: the model
  has it, `AbortMarksLastRow` allows it, and no document promises otherwise
  (listed).
- The Go producers bound nothing of what is unanswered (listed).

Left out for good: payload bytes and padding, formatting, headings and logging,
the histograms' buckets, HTTP serving of metrics, the environment, the
conversion of `RATE_LIMIT` to a period (a rate above 10^9 would make the Go
ticker panic at start-up, which no plan comes near), compose files, dashboards
and documents, which hold no logic. Of the report generator that is the greater
part of its lines: of the code that decides something, the parsing, the windows,
the averages and the rows are modelled.

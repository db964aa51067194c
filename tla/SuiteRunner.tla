------------------------------ MODULE SuiteRunner ------------------------------
(***************************************************************************)
(* testplan/run-benchmark-suite.sh: an invocation of the script runs the   *)
(* tests of a plan one after the other, each on a broker stack that it     *)
(* brings up and tears down, and appends to run.log.  An action is one     *)
(* external command with the shell code up to the next one.  Under set -e  *)
(* a failing command ends the script where it is (Failed); a signal starts *)
(* the cleanup trap between two commands.  The containers and the log      *)
(* outlive the script, which may be invoked again.                         *)
(***************************************************************************)
EXTENDS Naturals, Sequences, FiniteSets

CONSTANTS Plan,            \* the tests of the plan file, in order
          Options,         \* the command lines a user may give
          Throughputs,     \* what Prometheus may answer for the throughput
          MaxInvocations   \* invocations of the script (a bound for TLC)

Brokers == {"redpanda", "rabbitmq"}
Names == {Plan[k].name : k \in 1..Len(Plan)}

TestSpecs == [name: STRING, type: {"fixed", "ramp", "other"}, broker: Brokers,
              initial: Nat, max: Nat, step: Nat \ {0}]
ASSUME PlanAssumption == Plan \in Seq(TestSpecs)
ASSUME OptionsAssumption ==
    \A o \in Options : o.dryRun \in BOOLEAN /\ o.noTeardown \in BOOLEAN
ASSUME ThroughputsAssumption == Throughputs \subseteq Nat
ASSUME MaxInvocationsAssumption == MaxInvocations \in Nat

VARIABLES pc,          \* where the script is, or how it ended
          opts,        \* the options of the invocation
          test,        \* index of the test in the plan
          producers,   \* producers of the ramp step
          previousTp,  \* throughput of the step before
          up,          \* stacks with running containers
          gone,        \* the broker container died, the clients still run
          log,         \* the lines of run.log that the report generator reads
          invocation,  \* number of this invocation (history)
          clean,       \* no broker stack was up when it began (history)
          faulted      \* an external command has failed in it (history)

history == <<invocation, clean, faulted>>
vars == <<pc, opts, test, producers, previousTp, up, gone, log, history>>

Running == {"monitoring", "ready", "cadvisor", "next", "fixed_up", "cooldown",
            "ramp", "ramp_up", "observe", "query", "down", "end", "stop",
            "trap", "trap_stop"}
Ended == {"idle", "completed", "failed", "signalled"}

T == Plan[test]
Selected == opts.only \in {"all", T.name}

Line(kind, name, n) == [kind |-> kind, name |-> name, n |-> n,
                        dry |-> opts.dryRun, run |-> invocation]
Write(kind) == log' = Append(log, Line(kind, T.name, producers))

Init == /\ pc = "idle"
        /\ opts \in Options
        /\ test = 1
        /\ producers = 0 /\ previousTp = 0
        /\ up = {} /\ gone = FALSE
        /\ log = << >>
        /\ invocation = 0 /\ clean = TRUE /\ faulted = FALSE

\* A step that moves only the control.
Goto(from, to) == /\ pc = from
                  /\ pc' = to
                  /\ UNCHANGED <<opts, test, producers, previousTp, up, gone, log, history>>

\* A docker compose command that leaves the stacks s running.  With --dry-run
\* it is only printed.
Compose(from, to, s) == /\ pc = from
                        /\ pc' = to
                        /\ up' = IF opts.dryRun THEN up ELSE s
                        /\ UNCHANGED <<opts, test, producers, previousTp, log, history>>

\* set -e: an external command fails, having left one of the sets ss running.
Fail(from, ss) == /\ pc = from
                  /\ ~opts.dryRun
                  /\ pc' = "failed"
                  /\ up' \in ss
                  /\ faulted' = TRUE
                  /\ UNCHANGED <<opts, test, producers, previousTp, gone, log, invocation, clean>>
-----------------------------------------------------------------------------
(* The head of the script. *)

Invoke(o) == /\ pc \in Ended
             /\ invocation < MaxInvocations
             /\ opts' = o
             /\ invocation' = invocation + 1
             /\ clean' = (up \cap Brokers = {})
             /\ faulted' = FALSE
             /\ test' = 1
             /\ producers' = 0 /\ previousTp' = 0
             /\ log' = Append(log, [kind |-> "suite", name |-> "", n |-> 0,
                                    dry |-> o.dryRun, run |-> invocation + 1])
             /\ pc' = "monitoring"
             /\ UNCHANGED <<up, gone>>

StartMonitoring == \/ /\ Compose("monitoring", IF opts.dryRun THEN "cadvisor" ELSE "ready",
                                 up \cup {"monitoring"})
                      /\ UNCHANGED gone
                   \/ Fail("monitoring", {up, up \cup {"monitoring"}})

\* Prometheus answers within 30 tries, or the script gives up.
AwaitPrometheus == Goto("ready", "cadvisor") \/ Fail("ready", {up})

StartCadvisor == \/ /\ Compose("cadvisor", "next", up \cup {"cadvisor"})
                    /\ UNCHANGED gone
                 \/ Fail("cadvisor", {up, up \cup {"cadvisor"}})
-----------------------------------------------------------------------------
(* The loop over the plan. *)

\* --only names another test, or the type is unknown.
SkipTest == /\ pc = "next"
            /\ test <= Len(Plan)
            /\ ~Selected \/ T.type = "other"
            /\ test' = test + 1
            /\ UNCHANGED <<pc, opts, producers, previousTp, up, gone, log, history>>

BeginTest == /\ pc = "next"
             /\ test <= Len(Plan)
             /\ Selected
             /\ \/ T.type = "fixed" /\ pc' = "fixed_up"
                \/ T.type = "ramp" /\ pc' = "ramp"
             /\ producers' = T.initial
             /\ previousTp' = 0
             /\ log' = Append(log, Line("START", T.name, T.initial))
             /\ UNCHANGED <<opts, test, up, gone, history>>

\* A stopped broker container is started again.
BringUp(from, to) == \/ Compose(from, to, up \cup {T.broker}) /\ gone' = FALSE
                     \/ Fail(from, {up, up \cup {T.broker}})

\* run_fixed_test up to the end of its sleep.
RunFixed == BringUp("fixed_up", "down")

\* Mutated form of TearDown: a ramp, whose last step may have been aborted,
\* returns without tearing down.
TearDownFixedOnly == \/ pc = "down" /\ T.type = "ramp" /\ Goto("down", "end")
                     \/ /\ pc = "down" /\ T.type # "ramp"
                        /\ Compose("down", "end", up \ {T.broker}) /\ gone' = FALSE
                     \/ Fail("down", {up, up \ {T.broker}})

\* docker compose down -v.
TearDown == \/ Compose("down", "end", up \ {T.broker}) /\ gone' = FALSE
            \/ Fail("down", {up, up \ {T.broker}})

\* The END line.  A ramp has no cooldown.
EndTest == /\ pc = "end"
           /\ Write("END")
           /\ \/ T.type = "fixed" /\ pc' = "cooldown" /\ UNCHANGED test
              \/ T.type = "ramp" /\ pc' = "next" /\ test' = test + 1
           /\ UNCHANGED <<opts, producers, previousTp, up, gone, history>>

\* sleep $cooldown.  For a test without the field jq prints null, which sleep
\* refuses.
Cooldown == \/ /\ pc = "cooldown"
               /\ pc' = "next" /\ test' = test + 1
               /\ UNCHANGED <<opts, producers, previousTp, up, gone, log, history>>
            \/ Fail("cooldown", {up})
-----------------------------------------------------------------------------
(* The loop of run_ramp_test. *)

RampStep == \/ Goto("ramp", "ramp_up") /\ producers <= T.max
            \/ Goto("ramp", "down") /\ producers > T.max

RunStep == BringUp("ramp_up", "observe")

\* With --dry-run the step is not evaluated.
PrintStep == /\ pc = "observe"
             /\ opts.dryRun
             /\ producers' = producers + T.step
             /\ pc' = "ramp"
             /\ UNCHANGED <<opts, test, previousTp, up, gone, log, history>>

\* broker_is_healthy: some container has the broker in its name, which those
\* of the producers and consumers have too.  A docker ps that fails counts as
\* no container.
CheckBroker == /\ pc = "observe"
               /\ ~opts.dryRun
               /\ \/ T.broker \in up /\ pc' = "query" /\ UNCHANGED <<log, faulted>>
                  \/ pc' = "down" /\ Write("ABORT") /\ faulted' = TRUE
               /\ UNCHANGED <<opts, test, producers, previousTp, up, gone, invocation, clean>>

\* Mutated form of Evaluate: the ramp goes on with the same producers.
EvaluateNoStep(tp, degraded) ==
    /\ pc = "query"
    /\ previousTp' = tp /\ pc' = "ramp"
    /\ UNCHANGED <<opts, test, producers, up, gone, log, history>>

\* Mutated form of Evaluate: takes producers away.
EvaluateScalesDown(tp, degraded) ==
    /\ pc = "query"
    /\ producers' = producers - T.step
    /\ previousTp' = tp /\ pc' = "ramp"
    /\ UNCHANGED <<opts, test, up, gone, log, history>>

\* The four queries; degraded stands for a breach of error rate, latency or
\* consumer lag.  The first step has no throughput to compare with.
Evaluate(tp, degraded) ==
    LET abort == degraded \/ (previousTp # 0 /\ tp < previousTp)
        row == Append(log, Line("RAMP", T.name, producers))
    IN  /\ pc = "query"
        /\ \/ /\ abort
              /\ log' = Append(row, Line("ABORT", T.name, producers))
              /\ pc' = "down"
              /\ UNCHANGED <<producers, previousTp>>
           \/ /\ ~abort
              /\ log' = row
              /\ previousTp' = tp
              /\ producers' = producers + T.step
              /\ pc' = "ramp"
        /\ UNCHANGED <<opts, test, up, gone, history>>

\* A failing curl or jq inside $(...) ends the script.
QueryFails == Fail("query", {up})
-----------------------------------------------------------------------------
(* The end of the script, and the trap. *)

CompleteSuite == /\ pc = "next"
                 /\ test > Len(Plan)
                 /\ log' = Append(log, Line("complete", "", 0))
                 /\ pc' = "stop"
                 /\ UNCHANGED <<opts, test, producers, previousTp, up, gone, history>>

\* stop_monitoring, and stop_cadvisor with it.
StopMonitoring(from, to) ==
    \/ opts.noTeardown /\ Goto(from, to)
    \/ /\ ~opts.noTeardown
       /\ \/ Compose(from, to, up \ {"monitoring", "cadvisor"}) /\ UNCHANGED gone
          \/ Fail(from, {up, up \ {"cadvisor"}})

\* SIGINT or SIGTERM, once: cleanup begins.
Signal == \E from \in Running \ {"trap", "trap_stop"} : Goto(from, "trap")

\* Mutated form of TearDownAll: takes down one of the two stacks only.
TearDownRedpanda == /\ pc = "trap"
                    /\ up' = up \ {"redpanda"}
                    /\ gone' = FALSE
                    /\ pc' = "trap_stop"
                    /\ UNCHANGED <<opts, test, producers, previousTp, log, history>>

\* tear_down_all ignores failures, and --dry-run.
TearDownAll == /\ pc = "trap"
               /\ up' \in {up \ bs : bs \in SUBSET Brokers}
               /\ faulted' = (faulted \/ up' \cap Brokers # {})
               /\ gone' = FALSE
               /\ pc' = "trap_stop"
               /\ UNCHANGED <<opts, test, producers, previousTp, log, invocation, clean>>

\* The broker container dies while a step is observed.  The producers and
\* consumers restart by themselves (restart: unless-stopped), it does not.
BrokerDies == /\ pc = "observe"
              /\ T.broker \in up
              /\ ~gone
              /\ gone' = TRUE
              /\ UNCHANGED <<pc, opts, test, producers, previousTp, up, log, history>>
-----------------------------------------------------------------------------
ScriptNext == \/ StartMonitoring \/ AwaitPrometheus \/ StartCadvisor
              \/ SkipTest \/ BeginTest \/ RunFixed \/ TearDown \/ EndTest \/ Cooldown
              \/ RampStep \/ RunStep \/ PrintStep \/ CheckBroker
              \/ \E tp \in Throughputs, degraded \in BOOLEAN : Evaluate(tp, degraded)
              \/ QueryFails
              \/ CompleteSuite
              \/ StopMonitoring("stop", "completed")
              \/ TearDownAll
              \/ StopMonitoring("trap_stop", "signalled")

Next == \/ \E o \in Options : Invoke(o)
        \/ ScriptNext
        \/ Signal
        \/ BrokerDies

Spec == Init /\ [][Next]_vars

\* Every command returns.
FairSpec == Spec /\ WF_vars(ScriptNext)
-----------------------------------------------------------------------------
(* Properties. *)

\* Every variable has the type the code gives it.
TypeOK == /\ pc \in Running \cup Ended
          /\ opts \in Options
          /\ test \in 1..(Len(Plan) + 1)
          /\ producers \in Nat /\ previousTp \in Nat
          /\ up \subseteq Brokers \cup {"monitoring", "cadvisor"}
          /\ gone \in BOOLEAN /\ clean \in BOOLEAN /\ faulted \in BOOLEAN
          /\ invocation \in 0..MaxInvocations

\* The two brokers never run side by side, which would skew the measurements
\* (README.md, line 94), unless a stack was left running before the script.
OneBrokerAtATime == clean => Cardinality(up \cap Brokers) <= 1

\* A broker stack runs only inside the window that START and END of one of its
\* tests put in the log, so that the report's windows contain all of its load.
\* The trap and a failed command leave the window open.
LastLine == log[Len(log)]
UpInsideWindow ==
    \A b \in up \cap Brokers :
      (clean /\ pc \in Running) =>
        /\ LastLine.kind \in {"START", "RAMP", "ABORT"}
        /\ \E k \in 1..Len(Plan) : Plan[k].name = LastLine.name /\ Plan[k].broker = b

\* A script that a signal ended, or that came to its end and had begun without
\* a broker stack, has left none behind, and no other container except what
\* --no-teardown keeps and --dry-run does not touch, unless a command failed.
LeavesNothing ==
    (pc = "signalled" \/ (pc = "completed" /\ clean)) /\ ~faulted =>
       /\ up \cap Brokers = {}
       /\ ~opts.noTeardown /\ ~opts.dryRun => up = {}

\* An invocation ends: a ramp stops at its bound and a retry at its limit.
InvocationEnds == pc \in Running ~> pc \in Ended

\* testplan/README.md, line 84: the ramp also stops if the broker container
\* disappears.  The metrics are queried only after that check.
BrokerGoneEndsRamp == pc = "query" => ~gone
=============================================================================

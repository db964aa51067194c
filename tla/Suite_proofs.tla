----------------------------- MODULE Suite_proofs -----------------------------
(***************************************************************************)
(* Proofs about SuiteRunner and the report over its log, for every plan    *)
(* and every command line.  The inductive invariant StackInv says where in *)
(* the script which broker stack may be up, MonitoringInv the same of the  *)
(* monitoring stacks, LogInv what the log holds of the current invocation  *)
(* and of those before it, and RampInv the order of the rows and aborts of *)
(* a ramp; the windows and rows of the report follow from the last two.    *)
(* The last sections are about the averages and the tables of the report.  *)
(***************************************************************************)
EXTENDS SuiteReport, FiniteSetTheorems, WellFoundedInduction, TLAPS

Inside == {"fixed_up", "ramp", "ramp_up", "observe", "query", "down"}
Outside == {"monitoring", "ready", "cadvisor", "next", "end", "cooldown", "stop", "completed"}
BrokersUp == up \cap Brokers

\* After a start without a broker stack, only the stack of the current test is
\* up, and none outside of a test; a dry run changes nothing of that.  The stacks
\* that the trap has taken down stay down.
StackInv ==
    /\ clean => /\ \A a, b \in BrokersUp : a = b
                /\ pc \in Outside => BrokersUp = {}
                /\ pc \in Inside => BrokersUp \subseteq {T.broker}
                /\ opts.dryRun => BrokersUp = {}
    /\ pc \in {"trap_stop", "signalled"} /\ ~faulted => BrokersUp = {}

\* The two ends of the script that stop_monitoring leads to.
MonitoringInv ==
    pc \in {"completed", "signalled"} /\ ~opts.noTeardown /\ ~opts.dryRun
      => up \cap {"monitoring", "cadvisor"} = {}
-----------------------------------------------------------------------------
\* The names that a line may have.
Texts == Names \cup {""}

\* The fields of the current test.
LEMMA TestFields ==
  ASSUME test \in 1..Len(Plan)
  PROVE  /\ T.broker \in Brokers /\ T.name \in Names /\ T.name \in Texts
         /\ T.initial \in Nat /\ T.step \in Nat
<1>1. T \in TestSpecs
  BY PlanAssumption DEF T
<1> QED
  BY <1>1 DEF TestSpecs, Names, Texts, T

\* A ramp goes up.
LEMMA StepPositive ==
  ASSUME test \in 1..Len(Plan)
  PROVE  T.step \in Nat /\ T.step # 0
<1>1. T \in TestSpecs
  BY PlanAssumption DEF T
<1> QED
  BY <1>1 DEF TestSpecs, T

\* The plan has a length.
LEMMA PlanLength == Len(Plan) \in Nat
BY PlanAssumption

\* Inside a test there is a current one: the part of the typing that the guards
\* of the loop establish.
InTest == pc \in Inside \cup {"end", "cooldown"} => test \in 1..Len(Plan)

\* The lines of run.log.
Kinds == {"suite", "START", "RAMP", "ABORT", "END", "complete"}
LineType == [kind : Kinds, name : Texts, n : Nat, dry : BOOLEAN, run : Nat]

\* Invocations are counted from 1.
LEMMA InvocationType == TypeOK => invocation \in Nat
BY MaxInvocationsAssumption, SMT DEF TypeOK

\* A line that the script writes.
LEMMA LineOfType ==
  ASSUME TypeOK, NEW k \in Kinds, NEW name \in Texts, NEW n \in Nat
  PROVE  Line(k, name, n) \in LineType
<1>1. opts.dryRun \in BOOLEAN
  BY OptionsAssumption, Zenon DEF TypeOK
<1>2. invocation \in Nat
  BY InvocationType
<1> QED
  BY <1>1, <1>2 DEF Line, LineType

\* A line about no test has no name.
LEMMA BlankText == "" \in Texts
BY Zenon DEF Texts

\* The last line of a suite.
LEMMA CompleteLine ==
  ASSUME TypeOK
  PROVE  Line("complete", "", 0) \in LineType
<1>1. "complete" \in Kinds
  BY DEF Kinds
<1>2. 0 \in Nat
  OBVIOUS
<1> QED
  BY <1>1, <1>2, BlankText, LineOfType, Zenon

\* The typing that is inductive.
LEMMA Typing == Spec => [](TypeOK /\ InTest)
<1>1. Init => TypeOK /\ InTest
  <2> SUFFICES ASSUME Init PROVE TypeOK /\ InTest
    OBVIOUS
  <2>1. gone \in BOOLEAN /\ clean \in BOOLEAN /\ faulted \in BOOLEAN
    BY Zenon DEF Init
  <2> QED
    BY <2>1, PlanLength, MaxInvocationsAssumption DEF Init, TypeOK, InTest, Inside, Ended
<1>2. TypeOK /\ InTest /\ [Next]_vars => TypeOK' /\ InTest'
  <2> SUFFICES ASSUME TypeOK, InTest, [Next]_vars
               PROVE  TypeOK' /\ InTest'
    OBVIOUS
  <2> USE PlanLength DEF TypeOK, InTest, Inside, Running, Ended
  <2>1. ASSUME NEW o \in Options, Invoke(o) PROVE TypeOK' /\ InTest'
    <3>1. gone' \in BOOLEAN /\ clean' \in BOOLEAN /\ faulted' \in BOOLEAN
      BY <2>1, Zenon DEF Invoke
    <3>2. /\ pc' = "monitoring" /\ opts' = o /\ test' = 1
          /\ producers' = 0 /\ previousTp' = 0 /\ up' = up
          /\ invocation < MaxInvocations /\ invocation' = invocation + 1
      BY <2>1, Zenon DEF Invoke
    <3> QED
      BY <3>1, <3>2, MaxInvocationsAssumption
  <2>2. CASE StartMonitoring
    BY <2>2 DEF StartMonitoring, Compose, Fail, history
  <2>3. CASE AwaitPrometheus
    BY <2>3 DEF AwaitPrometheus, Goto, Fail, history
  <2>4. CASE StartCadvisor
    BY <2>4 DEF StartCadvisor, Compose, Fail, history
  <2>5. CASE SkipTest
    BY <2>5 DEF SkipTest, history
  <2>6. CASE BeginTest
    BY <2>6, TestFields DEF BeginTest, history
  <2>7. CASE RunFixed
    BY <2>7, TestFields DEF RunFixed, BringUp, Compose, Fail, history
  <2>8. CASE TearDown
    BY <2>8 DEF TearDown, Compose, Fail, history
  <2>9. CASE EndTest
    BY <2>9 DEF EndTest, history
  <2>10. CASE Cooldown
    <3>1. CASE Fail("cooldown", {up})
      BY <3>1 DEF Fail
    <3>2. CASE /\ pc = "cooldown" /\ pc' = "next" /\ test' = test + 1
               /\ UNCHANGED <<opts, producers, previousTp, up, gone, log, history>>
      BY <3>2 DEF history
    <3> QED
      BY <2>10, <3>1, <3>2 DEF Cooldown
  <2>11. CASE RampStep
    BY <2>11 DEF RampStep, Goto, history
  <2>12. CASE RunStep
    BY <2>12, TestFields DEF RunStep, BringUp, Compose, Fail, history
  <2>13. CASE PrintStep
    BY <2>13, TestFields DEF PrintStep, history
  <2>14. CASE CheckBroker
    BY <2>14 DEF CheckBroker
  <2>15. ASSUME NEW tp \in Throughputs, NEW degraded \in BOOLEAN, Evaluate(tp, degraded)
         PROVE  TypeOK' /\ InTest'
    BY <2>15, TestFields, ThroughputsAssumption DEF Evaluate, history
  <2>16. CASE QueryFails
    BY <2>16 DEF QueryFails, Fail
  <2>17. CASE CompleteSuite
    BY <2>17 DEF CompleteSuite, history
  <2>18. CASE StopMonitoring("stop", "completed") \/ StopMonitoring("trap_stop", "signalled")
    BY <2>18 DEF StopMonitoring, Compose, Goto, Fail, history
  <2>19. CASE TearDownAll
    <3>1. gone' \in BOOLEAN /\ clean' \in BOOLEAN /\ faulted' \in BOOLEAN
      BY <2>19, Zenon DEF TearDownAll
    <3> QED
      BY <2>19, <3>1 DEF TearDownAll
  <2>20. CASE Signal
    BY <2>20 DEF Signal, Goto, history
  <2>21. CASE BrokerDies
    BY <2>21 DEF BrokerDies, history
  <2>22. CASE UNCHANGED vars
    BY <2>22 DEF vars, history, T
  <2> QED
    BY <2>1, <2>2, <2>3, <2>4, <2>5, <2>6, <2>7, <2>8, <2>9, <2>10, <2>11, <2>12,
       <2>13, <2>14, <2>15, <2>16, <2>17, <2>18, <2>19, <2>20, <2>21, <2>22
    DEF Next, ScriptNext
<1> QED
  BY <1>1, <1>2, PTL DEF Spec

\* Every variable of SuiteRunner keeps its type.
THEOREM TypeCorrect == Spec => []TypeOK
BY Typing, PTL
-----------------------------------------------------------------------------
(* Which broker stacks are up. *)

\* No step of the script, of a signal or of docker breaks StackInv.
LEMMA StacksStep ==
  ASSUME StackInv, [Next]_vars
  PROVE  StackInv'
<1> USE DEF StackInv, BrokersUp, Inside, Outside, T
<1>1. ASSUME NEW o \in Options, Invoke(o) PROVE StackInv'
  BY <1>1 DEF Invoke
<1>2. CASE StartMonitoring
  BY <1>2 DEF StartMonitoring, Compose, Fail, history, Brokers
<1>3. CASE AwaitPrometheus
  BY <1>3 DEF AwaitPrometheus, Goto, Fail, history
<1>4. CASE StartCadvisor
  BY <1>4 DEF StartCadvisor, Compose, Fail, history, Brokers
<1>5. CASE SkipTest
  BY <1>5 DEF SkipTest, history
<1>6. CASE BeginTest
  BY <1>6 DEF BeginTest, history
<1>7. CASE RunFixed
  BY <1>7 DEF RunFixed, BringUp, Compose, Fail, history
<1>8. CASE TearDown
  BY <1>8 DEF TearDown, Compose, Fail, history
<1>9. CASE EndTest
  BY <1>9 DEF EndTest, history
<1>10. CASE Cooldown
  BY <1>10 DEF Cooldown, Fail, history
<1>11. CASE RampStep
  BY <1>11 DEF RampStep, Goto, history
<1>12. CASE RunStep
  BY <1>12 DEF RunStep, BringUp, Compose, Fail, history
<1>13. CASE PrintStep
  BY <1>13 DEF PrintStep, history
<1>14. CASE CheckBroker
  BY <1>14 DEF CheckBroker
<1>15. ASSUME NEW tp \in Throughputs, NEW degraded \in BOOLEAN, Evaluate(tp, degraded)
       PROVE  StackInv'
  BY <1>15 DEF Evaluate, history
<1>16. CASE QueryFails
  BY <1>16 DEF QueryFails, Fail
<1>17. CASE CompleteSuite
  BY <1>17 DEF CompleteSuite, history
<1>18. CASE StopMonitoring("stop", "completed") \/ StopMonitoring("trap_stop", "signalled")
  BY <1>18 DEF StopMonitoring, Compose, Goto, Fail, history
<1>19. CASE TearDownAll
  BY <1>19 DEF TearDownAll
<1>20. CASE Signal
  BY <1>20 DEF Signal, Goto, history
<1>21. CASE BrokerDies
  BY <1>21 DEF BrokerDies, history
<1>22. CASE UNCHANGED vars
  BY <1>22 DEF vars, history
<1> QED
  BY <1>1, <1>2, <1>3, <1>4, <1>5, <1>6, <1>7, <1>8, <1>9, <1>10, <1>11, <1>12,
     <1>13, <1>14, <1>15, <1>16, <1>17, <1>18, <1>19, <1>20, <1>21, <1>22
  DEF Next, ScriptNext

\* What stop_monitoring takes down is down when the script has ended by itself
\* or by the trap.
LEMMA MonitoringStep ==
  ASSUME MonitoringInv, [Next]_vars
  PROVE  MonitoringInv'
<1> USE DEF MonitoringInv, Running, Ended
<1>1. ASSUME NEW o \in Options, Invoke(o) PROVE MonitoringInv'
  BY <1>1 DEF Invoke
<1>2. CASE StartMonitoring
  BY <1>2 DEF StartMonitoring, Compose, Fail, history
<1>3. CASE AwaitPrometheus
  BY <1>3 DEF AwaitPrometheus, Goto, Fail, history
<1>4. CASE StartCadvisor
  BY <1>4 DEF StartCadvisor, Compose, Fail, history
<1>5. CASE SkipTest
  BY <1>5 DEF SkipTest, history
<1>6. CASE BeginTest
  BY <1>6 DEF BeginTest, history
<1>7. CASE RunFixed
  BY <1>7 DEF RunFixed, BringUp, Compose, Fail, history
<1>8. CASE TearDown
  BY <1>8 DEF TearDown, Compose, Fail, history
<1>9. CASE EndTest
  BY <1>9 DEF EndTest, history
<1>10. CASE Cooldown
  BY <1>10 DEF Cooldown, Fail, history
<1>11. CASE RampStep
  BY <1>11 DEF RampStep, Goto, history
<1>12. CASE RunStep
  BY <1>12 DEF RunStep, BringUp, Compose, Fail, history
<1>13. CASE PrintStep
  BY <1>13 DEF PrintStep, history
<1>14. CASE CheckBroker
  BY <1>14 DEF CheckBroker
<1>15. ASSUME NEW tp \in Throughputs, NEW degraded \in BOOLEAN, Evaluate(tp, degraded)
       PROVE  MonitoringInv'
  BY <1>15 DEF Evaluate, history
<1>16. CASE QueryFails
  BY <1>16 DEF QueryFails, Fail
<1>17. CASE CompleteSuite
  BY <1>17 DEF CompleteSuite, history
<1>18. CASE StopMonitoring("stop", "completed") \/ StopMonitoring("trap_stop", "signalled")
  BY <1>18 DEF StopMonitoring, Compose, Goto, Fail, history
<1>19. CASE TearDownAll
  BY <1>19 DEF TearDownAll
<1>20. CASE Signal
  BY <1>20 DEF Signal, Goto, history
<1>21. CASE BrokerDies
  BY <1>21 DEF BrokerDies, history
<1>22. CASE UNCHANGED vars
  BY <1>22 DEF vars, history
<1> QED
  BY <1>1, <1>2, <1>3, <1>4, <1>5, <1>6, <1>7, <1>8, <1>9, <1>10, <1>11, <1>12,
     <1>13, <1>14, <1>15, <1>16, <1>17, <1>18, <1>19, <1>20, <1>21, <1>22
  DEF Next, ScriptNext

\* The stacks hold in every state.
THEOREM StacksInvariant == Spec => [](StackInv /\ MonitoringInv)
<1>1. Init => StackInv /\ MonitoringInv
  BY DEF Init, StackInv, MonitoringInv, BrokersUp, Inside, Outside
<1>2. StackInv /\ MonitoringInv /\ [Next]_vars => (StackInv /\ MonitoringInv)'
  BY StacksStep, MonitoringStep
<1> QED
  BY <1>1, <1>2, PTL DEF Spec

\* The two brokers never run side by side in a suite that began with neither
\* (tear_down at the end of every test, lines 237 and 326).
THEOREM OneBrokerIsUp == Spec => []OneBrokerAtATime
<1>1. StackInv => OneBrokerAtATime
  <2> SUFFICES ASSUME StackInv, clean PROVE Cardinality(BrokersUp) <= 1
    BY DEF OneBrokerAtATime, BrokersUp
  <2>1. CASE BrokersUp = {}
    BY <2>1, FS_EmptySet
  <2>2. CASE BrokersUp # {}
    <3>1. PICK b \in BrokersUp : TRUE
      BY <2>2
    <3>2. BrokersUp = {b}
      BY <3>1 DEF StackInv
    <3> QED
      BY <3>2, FS_Singleton
  <2> QED
    BY <2>1, <2>2
<1> QED
  BY <1>1, StacksInvariant, PTL

\* A script that came to its end, or that a signal ended, has left no stack but
\* those it was told to keep (cleanup, lines 331-337, and line 390).
THEOREM NothingIsLeft == Spec => []LeavesNothing
<1>1. TypeOK /\ StackInv /\ MonitoringInv => LeavesNothing
  BY DEF TypeOK, StackInv, MonitoringInv, LeavesNothing, BrokersUp, Outside, Brokers
<1> QED
  BY <1>1, TypeCorrect, StacksInvariant, PTL
-----------------------------------------------------------------------------
(* The windows that the log has opened. *)

\* A line appended to the log is its last.
LEMMA LastOfAppend ==
  ASSUME NEW q \in Seq(LineType), NEW e \in LineType
  PROVE  /\ Append(q, e) \in Seq(LineType)
         /\ Append(q, e)[Len(Append(q, e))] = e
OBVIOUS

\* Inside a test the last line is one of that test; UpInsideWindow alone does not
\* say that of the states in which its stack is not up yet.
WindowInv ==
    /\ log \in Seq(LineType)
    /\ clean /\ pc \in Inside => /\ LastLine.kind \in {"START", "RAMP", "ABORT"}
                                 /\ LastLine.name = T.name
    /\ UpInsideWindow

\* Lines are written as lines, and each that is written inside a test is one of
\* that test.
LEMMA LinesStep ==
  ASSUME TypeOK, InTest, WindowInv, [Next]_vars
  PROVE  /\ log' \in Seq(LineType)
         /\ clean' /\ pc' \in Inside => /\ LastLine'.kind \in {"START", "RAMP", "ABORT"}
                                        /\ LastLine'.name = T'.name
         /\ pc' \in {"trap", "trap_stop"} =>
               /\ pc \in Running /\ log' = log /\ clean' = clean
               /\ BrokersUp' \subseteq BrokersUp
<1> DEFINE Goal == /\ log' \in Seq(LineType)
                   /\ clean' /\ pc' \in Inside =>
                         /\ LastLine'.kind \in {"START", "RAMP", "ABORT"}
                         /\ LastLine'.name = T'.name
                   /\ pc' \in {"trap", "trap_stop"} =>
                         /\ pc \in Running /\ log' = log /\ clean' = clean
                         /\ BrokersUp' \subseteq BrokersUp
<1> SUFFICES Goal
  OBVIOUS
<1>0. log \in Seq(LineType) /\ producers \in Nat
  BY DEF WindowInv, TypeOK
<1>a. ASSUME UNCHANGED <<log, clean, test>>, pc' \in Inside => pc \in Inside,
             pc' \notin {"trap", "trap_stop"}
      PROVE  Goal
  BY <1>a DEF WindowInv, LastLine, T
<1>b. ASSUME NEW e \in LineType, log' = Append(log, e), pc' \notin Inside \cup {"trap", "trap_stop"}
      PROVE  Goal
  BY <1>b, <1>0, LastOfAppend
<1>c. ASSUME NEW k \in {"START", "RAMP", "ABORT"}, NEW n \in Nat, NEW q \in Seq(LineType),
             log' = Append(q, Line(k, T.name, n)), T.name \in Texts,
             test' = test, pc' \notin {"trap", "trap_stop"}
      PROVE  Goal
  <2>1. Line(k, T.name, n) \in LineType
    <3>1. k \in Kinds
      BY DEF Kinds
    <3> QED
      BY <3>1, <1>c, LineOfType
  <2>2. log' \in Seq(LineType) /\ LastLine' = Line(k, T.name, n)
    BY <1>c, <2>1, LastOfAppend DEF LastLine
  <2> QED
    BY <1>c, <2>2 DEF Line, T
<1> HIDE DEF Goal
<1> USE DEF Inside, history
<1>1. ASSUME NEW o \in Options, Invoke(o) PROVE Goal
  <2> DEFINE e == [kind |-> "suite", name |-> "", n |-> 0, dry |-> o.dryRun, run |-> invocation + 1]
  <2>1. log' = Append(log, e) /\ pc' = "monitoring"
    BY <1>1, Zenon DEF Invoke
  <2>2. e \in LineType
    <3>1. o.dryRun \in BOOLEAN
      BY OptionsAssumption, Zenon
    <3>2. invocation + 1 \in Nat
      BY MaxInvocationsAssumption DEF TypeOK
    <3> QED
      BY <3>1, <3>2, BlankText, Zenon DEF LineType, Kinds
  <2> HIDE DEF e
  <2> QED
    BY <2>1, <2>2, <1>b
<1>2. CASE StartMonitoring \/ StartCadvisor
  BY <1>2, <1>a DEF StartMonitoring, StartCadvisor, Compose, Fail
<1>3. CASE AwaitPrometheus \/ RampStep
  BY <1>3, <1>a DEF AwaitPrometheus, RampStep, Goto, Fail
<1>4. CASE SkipTest
  <2>1. log' = log /\ pc' = "next"
    BY <1>4 DEF SkipTest
  <2> QED
    BY <2>1, <1>0 DEF Goal
<1>5. CASE BeginTest
  <2>1. /\ test \in 1..Len(Plan) /\ log' = Append(log, Line("START", T.name, T.initial))
        /\ test' = test /\ pc' \notin {"trap", "trap_stop"}
    BY <1>5, PlanLength DEF BeginTest, TypeOK
  <2> QED
    BY <2>1, <1>0, <1>c, TestFields
<1>6. CASE RunFixed \/ RunStep
  BY <1>6, <1>a DEF RunFixed, RunStep, BringUp, Compose, Fail
<1>7. CASE TearDown \/ QueryFails \/ PrintStep \/ BrokerDies
  BY <1>7, <1>a DEF TearDown, Compose, QueryFails, Fail, PrintStep, BrokerDies
<1>8. CASE EndTest
  <2>1. /\ test \in 1..Len(Plan) /\ log' = Append(log, Line("END", T.name, producers))
        /\ pc' \in {"cooldown", "next"}
    BY <1>8 DEF EndTest, Write, InTest
  <2>2. Line("END", T.name, producers) \in LineType
    BY <2>1, <1>0, TestFields, LineOfType DEF Kinds
  <2> QED
    BY <2>1, <2>2, <1>b
<1>9. CASE Cooldown
  <2>1. log' = log /\ pc' \in {"next", "failed"}
    BY <1>9 DEF Cooldown, Fail
  <2> QED
    BY <2>1, <1>0 DEF Goal
<1>10. CASE CheckBroker
  <2>1. CASE log' = log
    BY <1>10, <2>1, <1>a DEF CheckBroker
  <2>2. CASE log' = Append(log, Line("ABORT", T.name, producers))
    <3>1. test \in 1..Len(Plan) /\ test' = test /\ pc' \notin {"trap", "trap_stop"}
      BY <1>10 DEF CheckBroker, InTest
    <3> QED
      BY <2>2, <3>1, <1>0, <1>c, TestFields
  <2> QED
    BY <1>10, <2>1, <2>2 DEF CheckBroker, Write
<1>11. ASSUME NEW tp \in Throughputs, NEW degraded \in BOOLEAN, Evaluate(tp, degraded)
       PROVE  Goal
  <2> DEFINE row == Append(log, Line("RAMP", T.name, producers))
  <2>1. /\ log' = row \/ log' = Append(row, Line("ABORT", T.name, producers))
        /\ test \in 1..Len(Plan) /\ test' = test /\ pc' \in {"down", "ramp"}
    BY <1>11 DEF Evaluate, InTest
  <2>2. row \in Seq(LineType)
    <3>1. Line("RAMP", T.name, producers) \in LineType
      BY <2>1, <1>0, TestFields, LineOfType DEF Kinds
    <3> QED
      BY <3>1, <1>0, LastOfAppend
  <2>3. CASE log' = row
    BY <2>1, <2>3, <1>0, <1>c, TestFields
  <2>4. CASE log' = Append(row, Line("ABORT", T.name, producers))
    <3> HIDE DEF row
    <3> QED
      BY <2>1, <2>2, <2>4, <1>0, <1>c, TestFields
  <2> QED
    BY <2>1, <2>3, <2>4
<1>12. CASE CompleteSuite
  <2>1. log' = Append(log, Line("complete", "", 0)) /\ pc' = "stop"
    BY <1>12 DEF CompleteSuite
  <2>2. Line("complete", "", 0) \in LineType
    BY CompleteLine
  <2> QED
    BY <2>1, <2>2, <1>b
<1>13. CASE StopMonitoring("stop", "completed") \/ StopMonitoring("trap_stop", "signalled")
  BY <1>13, <1>0 DEF StopMonitoring, Compose, Goto, Fail, Goal
<1>14. CASE TearDownAll
  BY <1>14, <1>0 DEF TearDownAll, Goal, BrokersUp, Running
<1>15. CASE Signal
  BY <1>15, <1>0 DEF Signal, Goto, Goal, BrokersUp, Running
<1>16. CASE UNCHANGED vars
  BY <1>16, <1>0 DEF vars, Goal, BrokersUp, Running, WindowInv, LastLine, T
<1> QED
  BY <1>1, <1>2, <1>3, <1>4, <1>5, <1>6, <1>7, <1>8, <1>9, <1>10, <1>11, <1>12,
     <1>13, <1>14, <1>15, <1>16
  DEF Next, ScriptNext

\* A stack is up only between START and END of one of its tests.
LEMMA WindowStep ==
  ASSUME TypeOK, InTest, StackInv, WindowInv, [Next]_vars,
         TypeOK', InTest', StackInv'
  PROVE  WindowInv'
<1>1. CASE pc' \in {"trap", "trap_stop"}
  BY <1>1, LinesStep DEF WindowInv, UpInsideWindow, LastLine, BrokersUp, Inside
<1>2. CASE pc' \in Outside
  BY <1>2, LinesStep DEF WindowInv, UpInsideWindow, StackInv, BrokersUp, Inside, Outside
<1>3. CASE pc' \in Inside
  <2>1. clean' => /\ LastLine'.kind \in {"START", "RAMP", "ABORT"}
                  /\ LastLine'.name = T'.name
    BY <1>3, LinesStep
  <2>2. test' \in 1..Len(Plan) /\ T' = Plan[test']
    BY <1>3 DEF InTest, T
  <2>3. \A b \in BrokersUp' : clean' => b = T'.broker
    BY <1>3 DEF StackInv
  <2>4. UpInsideWindow'
    BY <2>1, <2>2, <2>3 DEF UpInsideWindow, BrokersUp
  <2> QED
    BY <1>3, <2>1, <2>4, LinesStep DEF WindowInv
<1>4. CASE pc' \notin Running
  BY <1>4, LinesStep DEF WindowInv, UpInsideWindow, Running, Inside
<1> QED
  BY <1>1, <1>2, <1>3, <1>4 DEF TypeOK, Running, Inside, Outside

\* A broker stack runs only inside the window that START and END of one of its
\* tests put in the log, in a suite that began with no stack (log START, line 365,
\* and tear_down before log END).
THEOREM StacksRunInWindows == Spec => []UpInsideWindow
<1>1. Init => WindowInv
  BY DEF Init, WindowInv, UpInsideWindow, Inside, Running
<1>2. /\ TypeOK /\ InTest /\ StackInv /\ WindowInv /\ [Next]_vars
      /\ TypeOK' /\ InTest' /\ StackInv'
      => WindowInv'
  BY WindowStep
<1>3. WindowInv => UpInsideWindow
  BY DEF WindowInv
<1> QED
  BY <1>1, <1>2, <1>3, Typing, StacksInvariant, PTL DEF Spec
-----------------------------------------------------------------------------
(* The log, as the report reads it. *)

\* Lines are in the order of the invocations, and a suite line is the first of
\* its invocation.
Ordered(l) == \A i, j \in DOMAIN l :
                i < j => /\ l[i].run <= l[j].run
                         /\ l[j].kind = "suite" => l[i].run < l[j].run

\* The suite line i is the head of a line of run, which is dry if that line is.
Heads(l, i, run, dry) == l[i].kind = "suite" /\ l[i].run = run /\ l[i].dry = dry
Headed(l) == \A j \in DOMAIN l : \E i \in DOMAIN l : i <= j /\ Heads(l, i, l[j].run, l[j].dry)

\* The line i is the START of name in run, and no test or suite has begun
\* between it and the place j.
Opens(l, i, name, run, j) ==
    /\ i < j
    /\ l[i].kind = "START" /\ l[i].name = name /\ l[i].run = run
    /\ \A k \in DOMAIN l : i < k /\ k < j => l[k].kind \notin {"START", "suite"}

\* Every END line has its START.
Closed(l) == \A j \in DOMAIN l :
               l[j].kind = "END" => \E i \in DOMAIN l : Opens(l, i, l[j].name, l[j].run, j)

\* Only a real suite writes the lines of a ramp.
RampLines == {"RAMP", "ABORT"}
RampsAreReal(l) == \A i \in DOMAIN l : l[i].kind \in RampLines => ~l[i].dry

\* What the log is like at any time, and what the script has written of it.
LogInv ==
    /\ log \in Seq(LineType)
    /\ Ordered(log) /\ Headed(log) /\ Closed(log) /\ RampsAreReal(log)
    /\ \A i \in DOMAIN log : log[i].run <= invocation
    /\ pc \in Running => \E i \in DOMAIN log : Heads(log, i, invocation, opts.dryRun)
    /\ pc \in Inside \cup {"end"} =>
          \E i \in DOMAIN log : Opens(log, i, T.name, invocation, Len(log) + 1)
    /\ pc = "query" => ~opts.dryRun
-----------------------------------------------------------------------------
(* Line numbers. *)

\* A set of natural numbers has a least element.
LEMMA LeastExists ==
  ASSUME NEW S, S \subseteq Nat, S # {}
  PROVE  \E x \in S : \A y \in S : x <= y
<1> DEFINE R == OpToRel(<, Nat)
<1>1. IsWellFoundedOn(R, Nat)
  BY NatLessThanWellFounded
<1>2. \A x, y \in Nat : <<x, y>> \in R <=> x < y
  BY DEF OpToRel
<1> HIDE DEF R
<1>3. PICK x \in S : \A y \in S : ~(<<y, x>> \in R)
  BY <1>1, WFMin
<1>4. \A y \in S : y \in Nat /\ x \in Nat /\ ~(y < x)
  BY <1>2, <1>3
<1>5. \A y \in S : x <= y
  BY <1>4
<1> QED
  BY <1>5

\* Max is what it says, of a set of line numbers.
LEMMA MaxIs ==
  ASSUME NEW n \in Nat, NEW S, S \subseteq 1..n, S # {}
  PROVE  Max(S) \in S /\ \A y \in S : y <= Max(S)
<1> DEFINE D == {d \in Nat : n - d \in S}
<1>1. \A y \in S : y \in Int /\ y <= n /\ n - y \in D
  <2> SUFFICES ASSUME NEW y \in S PROVE y \in Int /\ y <= n /\ n - y \in D
    OBVIOUS
  <2>1. y \in 1..n
    OBVIOUS
  <2>2. y \in Int /\ y <= n /\ n - y \in Nat /\ n - (n - y) = y
    BY <2>1
  <2> QED
    BY <2>2
<1>2. PICK d \in D : \A e \in D : d <= e
  <2>1. D # {} /\ D \subseteq Nat
    BY <1>1
  <2> QED
    BY <2>1, LeastExists
<1>3. d \in Nat /\ n - d \in S
  OBVIOUS
<1>4. \A y \in S : d <= n - y
  BY <1>1, <1>2
<1> HIDE DEF D
<1>5. \A y \in S : n - d >= y
  BY <1>1, <1>3, <1>4
<1>6. Max(S) \in S /\ \A y \in S : Max(S) >= y
  BY <1>3, <1>5 DEF Max
<1>7. Max(S) \in Int
  BY <1>1, <1>6
<1> QED
  BY <1>1, <1>6, <1>7
-----------------------------------------------------------------------------
(* A log with a line appended to it. *)

\* What Append does to a log.
LEMMA AppendLine ==
  ASSUME NEW l \in Seq(LineType), NEW x \in LineType
  PROVE  LET m == Append(l, x)
         IN  /\ m \in Seq(LineType) /\ Len(l) \in Nat /\ Len(m) = Len(l) + 1
             /\ DOMAIN l = 1..Len(l) /\ DOMAIN m = 1..(Len(l) + 1)
             /\ m[Len(l) + 1] = x
             /\ \A i \in DOMAIN l : m[i] = l[i] /\ l[i] \in LineType
             /\ \A i \in DOMAIN m : i \in DOMAIN l \/ i = Len(l) + 1
OBVIOUS

\* Numbers of the fields of a line.
LEMMA LineFields ==
  ASSUME NEW x \in LineType
  PROVE  /\ x.run \in Nat /\ x.n \in Nat /\ x.dry \in BOOLEAN
         /\ x.kind \in Kinds
BY DEF LineType

\* A line keeps the START that it has.
LEMMA OpensAppend ==
  ASSUME NEW l \in Seq(LineType), NEW x \in LineType, NEW i \in DOMAIN l,
         NEW name, NEW run, NEW j \in 1..(Len(l) + 1), Opens(l, i, name, run, j)
  PROVE  /\ Opens(Append(l, x), i, name, run, j)
         /\ j = Len(l) + 1 /\ x.kind \notin {"START", "suite"}
              => Opens(Append(l, x), i, name, run, Len(Append(l, x)) + 1)
<1> DEFINE m == Append(l, x)
<1>1. /\ Len(l) \in Nat /\ Len(m) = Len(l) + 1 /\ DOMAIN l = 1..Len(l)
      /\ m[Len(l) + 1] = x /\ \A k \in DOMAIN l : m[k] = l[k]
      /\ \A k \in DOMAIN m : k \in DOMAIN l \/ k = Len(l) + 1
  BY AppendLine
<1> HIDE DEF m
<1>2. /\ i < j /\ l[i].kind = "START" /\ l[i].name = name /\ l[i].run = run
      /\ \A k \in DOMAIN l : i < k /\ k < j => l[k].kind \notin {"START", "suite"}
  BY DEF Opens
<1>3. i \in Int /\ j \in Int /\ i < Len(l) + 1 /\ i < Len(l) + 2 /\ j <= Len(l) + 1
  BY <1>1
<1>4. Opens(m, i, name, run, j)
  <2>1. \A k \in DOMAIN m : i < k /\ k < j => m[k].kind \notin {"START", "suite"}
    BY <1>1, <1>2, <1>3
  <2> QED
    BY <1>1, <1>2, <2>1 DEF Opens
<1>5. ASSUME j = Len(l) + 1, x.kind \notin {"START", "suite"}
      PROVE  Opens(m, i, name, run, Len(m) + 1)
  <2>1. \A k \in DOMAIN m : i < k => m[k].kind \notin {"START", "suite"}
    <3> SUFFICES ASSUME NEW k \in DOMAIN m, i < k PROVE m[k].kind \notin {"START", "suite"}
      OBVIOUS
    <3>1. CASE k \in DOMAIN l
      BY <1>1, <1>2, <1>5, <3>1
    <3>2. CASE k = Len(l) + 1
      BY <1>1, <1>5, <3>2
    <3> QED
      BY <1>1, <3>1, <3>2
  <2>2. i < Len(m) + 1
    BY <1>1, <1>3
  <2> QED
    BY <1>1, <1>2, <2>1, <2>2 DEF Opens
<1> QED
  BY <1>4, <1>5 DEF m

\* A log in which the report can find its way.
GoodLog(l) == l \in Seq(LineType) /\ Ordered(l) /\ Headed(l) /\ Closed(l) /\ RampsAreReal(l)

\* A log stays good when an invocation writes a line, or begins.
LEMMA GoodAppend ==
  ASSUME NEW l, GoodLog(l), NEW x \in LineType,
         x.kind \in RampLines => ~x.dry,
         \/ x.kind = "suite" /\ \A i \in DOMAIN l : l[i].run < x.run
         \/ /\ x.kind # "suite" /\ \A i \in DOMAIN l : l[i].run <= x.run
            /\ \E i \in DOMAIN l : Heads(l, i, x.run, x.dry)
            /\ x.kind = "END" => \E i \in DOMAIN l : Opens(l, i, x.name, x.run, Len(l) + 1)
  PROVE  /\ GoodLog(Append(l, x))
         /\ \A i \in DOMAIN Append(l, x) : Append(l, x)[i].run <= x.run
         /\ \E i \in DOMAIN Append(l, x) : Heads(Append(l, x), i, x.run, x.dry)
<1> DEFINE m == Append(l, x)
<1>1. /\ m \in Seq(LineType) /\ Len(l) \in Nat /\ Len(m) = Len(l) + 1
      /\ DOMAIN l = 1..Len(l) /\ DOMAIN m = 1..(Len(l) + 1)
      /\ m[Len(l) + 1] = x
      /\ \A i \in DOMAIN l : m[i] = l[i] /\ l[i] \in LineType
      /\ \A i \in DOMAIN m : i \in DOMAIN l \/ i = Len(l) + 1
  BY AppendLine DEF GoodLog
<1>2. x.run \in Nat /\ \A i \in DOMAIN l : l[i].run \in Nat
  BY <1>1, LineFields
<1>3. Len(l) + 1 \in DOMAIN m /\ DOMAIN l \subseteq DOMAIN m
  BY <1>1
<1> HIDE DEF m
<1>4. \A i \in DOMAIN l : /\ l[i].run <= x.run
                          /\ x.kind = "suite" => l[i].run < x.run
  BY <1>2
<1>5. \A i \in DOMAIN m : m[i].run <= x.run
  BY <1>1, <1>2, <1>4
<1>6. \E i \in DOMAIN m : i <= Len(l) + 1 /\ Heads(m, i, x.run, x.dry)
  <2>1. CASE x.kind = "suite"
    BY <1>1, <1>3, <2>1 DEF Heads
  <2>2. CASE x.kind # "suite"
    <3>1. PICK i \in DOMAIN l : Heads(l, i, x.run, x.dry)
      BY <2>2
    <3>2. i \in DOMAIN m /\ i <= Len(l) + 1 /\ Heads(m, i, x.run, x.dry)
      BY <1>1, <1>3, <3>1 DEF Heads
    <3> QED
      BY <3>2
  <2> QED
    BY <2>1, <2>2
<1>7. Ordered(m)
  <2> SUFFICES ASSUME NEW i \in DOMAIN m, NEW j \in DOMAIN m, i < j
               PROVE  m[i].run <= m[j].run /\ (m[j].kind = "suite" => m[i].run < m[j].run)
    BY DEF Ordered
  <2>1. i \in DOMAIN l
    BY <1>1
  <2>2. CASE j \in DOMAIN l
    <3>1. m[i] = l[i] /\ m[j] = l[j]
      BY <1>1, <2>1, <2>2
    <3>2. l[i].run <= l[j].run /\ (l[j].kind = "suite" => l[i].run < l[j].run)
      BY <2>1, <2>2 DEF GoodLog, Ordered
    <3> QED
      BY <3>1, <3>2
  <2>3. CASE j = Len(l) + 1
    <3>1. m[i] = l[i] /\ m[j] = x
      BY <1>1, <2>1, <2>3
    <3>2. l[i].run <= x.run /\ (x.kind = "suite" => l[i].run < x.run)
      BY <1>4, <2>1
    <3> QED
      BY <3>1, <3>2
  <2> QED
    BY <1>1, <2>2, <2>3
<1>8. Headed(m)
  <2> SUFFICES ASSUME NEW j \in DOMAIN m
               PROVE  \E i \in DOMAIN m : i <= j /\ Heads(m, i, m[j].run, m[j].dry)
    BY DEF Headed
  <2>1. CASE j \in DOMAIN l
    <3>1. PICK i \in DOMAIN l : i <= j /\ Heads(l, i, l[j].run, l[j].dry)
      BY <2>1 DEF GoodLog, Headed
    <3>2. i \in DOMAIN m /\ Heads(m, i, m[j].run, m[j].dry)
      BY <1>1, <1>3, <2>1, <3>1 DEF Heads
    <3> QED
      BY <3>1, <3>2
  <2>2. CASE j = Len(l) + 1
    BY <1>1, <1>6, <2>2
  <2> QED
    BY <1>1, <2>1, <2>2
<1>9. Closed(m)
  <2> SUFFICES ASSUME NEW j \in DOMAIN m, m[j].kind = "END"
               PROVE  \E i \in DOMAIN m : Opens(m, i, m[j].name, m[j].run, j)
    BY DEF Closed
  <2>1. m[j] = IF j = Len(l) + 1 THEN x ELSE l[j]
    BY <1>1
  <2>2. PICK i \in DOMAIN l : Opens(l, i, m[j].name, m[j].run, j)
    BY <1>1, <2>1 DEF GoodLog, Closed
  <2>3. l \in Seq(LineType) /\ j \in 1..(Len(l) + 1)
    BY <1>1 DEF GoodLog
  <2>4. Opens(m, i, m[j].name, m[j].run, j)
    BY <2>2, <2>3, OpensAppend DEF m
  <2> QED
    BY <1>3, <2>4
<1>10. RampsAreReal(m)
  BY <1>1 DEF GoodLog, RampsAreReal
<1> QED
  BY <1>1, <1>5, <1>6, <1>7, <1>8, <1>9, <1>10 DEF GoodLog, m
-----------------------------------------------------------------------------
(* The invariant of the log. *)

\* A log to which the invocation may add lines, and one in which the current
\* test is open.
Writable(l) == /\ GoodLog(l)
               /\ \A i \in DOMAIN l : l[i].run <= invocation
               /\ \E i \in DOMAIN l : Heads(l, i, invocation, opts.dryRun)
TestOpen(l) == \E i \in DOMAIN l : Opens(l, i, T.name, invocation, Len(l) + 1)

\* What a line of the script does to such a log.
LEMMA WriteLine ==
  ASSUME TypeOK, NEW l, Writable(l),
         NEW k \in Kinds, NEW name \in Texts, NEW n \in Nat,
         k # "suite",
         k \in RampLines => ~opts.dryRun,
         k = "END" => name = T.name /\ TestOpen(l)
  PROVE  /\ Writable(Append(l, Line(k, name, n)))
         /\ \/ k = "START" /\ name = T.name
            \/ k # "START" /\ TestOpen(l)
            => TestOpen(Append(l, Line(k, name, n)))
<1> DEFINE x == Line(k, name, n)
           m == Append(l, x)
<1>1. x \in LineType
  BY LineOfType
<1>2. x.kind = k /\ x.name = name /\ x.run = invocation /\ x.dry = opts.dryRun
  BY DEF Line
<1>3. /\ l \in Seq(LineType) /\ GoodLog(l)
      /\ \A i \in DOMAIN l : l[i].run <= invocation
      /\ \E i \in DOMAIN l : Heads(l, i, invocation, opts.dryRun)
  BY DEF Writable, GoodLog
<1>5. /\ Len(l) \in Nat /\ Len(m) = Len(l) + 1 /\ DOMAIN l = 1..Len(l)
      /\ DOMAIN m = 1..(Len(l) + 1) /\ m[Len(l) + 1] = x
  BY <1>1, <1>3, AppendLine
<1> HIDE DEF x, m
<1>4. Writable(m)
  <2>1. x.kind = "END" => \E i \in DOMAIN l : Opens(l, i, x.name, x.run, Len(l) + 1)
    BY <1>2 DEF TestOpen
  <2>2. /\ GoodLog(m)
        /\ \A i \in DOMAIN m : m[i].run <= x.run
        /\ \E i \in DOMAIN m : Heads(m, i, x.run, x.dry)
    BY <1>1, <1>2, <1>3, <2>1, GoodAppend DEF m
  <2> QED
    BY <1>2, <2>2 DEF Writable
<1>6. ASSUME k = "START", name = T.name PROVE TestOpen(m)
  <2>1. Opens(m, Len(l) + 1, T.name, invocation, Len(m) + 1)
    BY <1>2, <1>5, <1>6 DEF Opens
  <2> QED
    BY <1>5, <2>1 DEF TestOpen
<1>7. ASSUME k # "START", TestOpen(l) PROVE TestOpen(m)
  <2>1. PICK i \in DOMAIN l : Opens(l, i, T.name, invocation, Len(l) + 1)
    BY <1>7 DEF TestOpen
  <2>2. Opens(m, i, T.name, invocation, Len(m) + 1)
    <3>1. Len(l) + 1 \in 1..(Len(l) + 1)
      BY <1>5
    <3> QED
      BY <1>1, <1>2, <1>3, <1>7, <2>1, <3>1, OpensAppend DEF m
  <2>3. i \in DOMAIN m
    BY <1>5
  <2> QED
    BY <2>2, <2>3 DEF TestOpen
<1> QED
  BY <1>4, <1>6, <1>7 DEF x, m

\* What of the invariant a running script may use.
LEMMA LogOfRunning ==
  ASSUME LogInv
  PROVE  /\ GoodLog(log) /\ \A i \in DOMAIN log : log[i].run <= invocation
         /\ pc \in Running => Writable(log)
         /\ pc \in Inside \cup {"end"} => TestOpen(log)
BY DEF LogInv, GoodLog, Writable, TestOpen

\* When the log holds the invariant again.
LEMMA LogHolds ==
  ASSUME UNCHANGED <<opts, invocation>>, Writable(log'),
         pc' \in Inside \cup {"end"} => test' = test /\ TestOpen(log'),
         pc' = "query" => ~opts.dryRun
  PROVE  LogInv'
BY DEF LogInv, Writable, GoodLog, TestOpen, T

\* A step that writes nothing.
LEMMA LogStays ==
  ASSUME LogInv, UNCHANGED <<log, opts, invocation>>,
         pc' \in Running => pc \in Running,
         pc' \in Inside \cup {"end"} => test' = test /\ pc \in Inside \cup {"end"},
         pc' = "query" => ~opts.dryRun
  PROVE  LogInv'
<1>1. GoodLog(log) /\ \A i \in DOMAIN log : log[i].run <= invocation
  BY LogOfRunning
<1>2. CASE pc' \in Running
  <2>1. Writable(log')
    BY <1>2, LogOfRunning DEF Writable, GoodLog, Ordered, Headed, Closed, RampsAreReal, Heads, Opens
  <2>2. pc' \in Inside \cup {"end"} => test' = test /\ TestOpen(log')
    BY LogOfRunning DEF TestOpen, Opens
  <2> QED
    BY <2>1, <2>2, LogHolds
<1>3. CASE pc' \notin Running
  <2>1. pc' \notin Inside \cup {"end", "query"}
    BY <1>3 DEF Running, Inside
  <2> QED
    BY <1>1, <1>3, <2>1
    DEF LogInv, GoodLog, Ordered, Headed, Closed, RampsAreReal, Heads, Opens
<1> QED
  BY <1>2, <1>3

\* A step keeps the log in order.
LEMMA LogStep ==
  ASSUME TypeOK, InTest, LogInv, [Next]_vars
  PROVE  LogInv'
<1> USE DEF Running, Inside, history
<1>0. producers \in Nat
  BY DEF TypeOK
<1>1. ASSUME NEW o \in Options, Invoke(o) PROVE LogInv'
  <2> DEFINE x == [kind |-> "suite", name |-> "", n |-> 0, dry |-> o.dryRun, run |-> invocation + 1]
  <2>1. /\ log' = Append(log, x) /\ pc' = "monitoring" /\ opts' = o
        /\ invocation' = invocation + 1 /\ invocation \in Nat
    BY <1>1, InvocationType, Zenon DEF Invoke
  <2>2. x \in LineType
    <3>1. o.dryRun \in BOOLEAN
      BY OptionsAssumption, Zenon
    <3>2. invocation + 1 \in Nat
      BY InvocationType
    <3> QED
      BY <3>1, <3>2, BlankText, Zenon DEF LineType, Kinds
  <2>3. x.kind = "suite" /\ x.run = invocation + 1 /\ x.dry = o.dryRun
    OBVIOUS
  <2> HIDE DEF x
  <2>4. GoodLog(log) /\ \A i \in DOMAIN log : log[i].run < x.run
    <3>1. GoodLog(log) /\ \A i \in DOMAIN log : log[i].run <= invocation
      BY LogOfRunning
    <3>2. \A i \in DOMAIN log : log[i].run \in Nat
      BY <3>1, LineFields, <2>2, AppendLine DEF GoodLog
    <3> QED
      BY <2>1, <2>3, <3>1, <3>2
  <2>5. /\ GoodLog(log') /\ \A i \in DOMAIN log' : log'[i].run <= invocation'
        /\ \E i \in DOMAIN log' : Heads(log', i, invocation', opts'.dryRun)
    BY <2>1, <2>2, <2>3, <2>4, GoodAppend DEF RampLines
  <2> QED
    BY <2>1, <2>5 DEF LogInv, GoodLog
<1>2. CASE StartMonitoring \/ StartCadvisor
  BY <1>2, LogStays DEF StartMonitoring, StartCadvisor, Compose, Fail
<1>3. CASE AwaitPrometheus \/ RampStep
  BY <1>3, LogStays DEF AwaitPrometheus, RampStep, Goto, Fail
<1>4. CASE SkipTest \/ Cooldown
  BY <1>4, LogStays DEF SkipTest, Cooldown, Fail
<1>5. CASE BeginTest
  <2>1. /\ test \in 1..Len(Plan) /\ log' = Append(log, Line("START", T.name, T.initial))
        /\ UNCHANGED <<opts, test, invocation>> /\ pc = "next" /\ pc' # "query"
    BY <1>5, PlanLength DEF BeginTest, TypeOK
  <2>2. Writable(log) /\ T.name \in Texts /\ T.initial \in Nat
    BY <2>1, LogOfRunning, TestFields
  <2>3. Writable(log') /\ TestOpen(log')
    BY <2>1, <2>2, WriteLine DEF Kinds, RampLines
  <2> QED
    BY <2>1, <2>3, LogHolds
<1>6. CASE RunFixed \/ RunStep
  BY <1>6, LogStays DEF RunFixed, RunStep, BringUp, Compose, Fail
<1>7. CASE TearDown \/ QueryFails \/ PrintStep \/ BrokerDies
  BY <1>7, LogStays DEF TearDown, Compose, QueryFails, Fail, PrintStep, BrokerDies
<1>8. CASE EndTest
  <2>1. /\ test \in 1..Len(Plan) /\ log' = Append(log, Line("END", T.name, producers))
        /\ UNCHANGED <<opts, invocation>> /\ pc = "end" /\ pc' \in {"cooldown", "next"}
    BY <1>8 DEF EndTest, Write, InTest
  <2>2. Writable(log) /\ TestOpen(log) /\ T.name \in Texts
    BY <2>1, LogOfRunning, TestFields
  <2>3. Writable(log')
    BY <1>0, <2>1, <2>2, WriteLine DEF Kinds, RampLines
  <2> QED
    BY <2>1, <2>3, LogHolds
<1>9. CASE CheckBroker
  <2>1. CASE log' = log
    BY <1>9, <2>1, LogStays DEF CheckBroker
  <2>2. CASE log' = Append(log, Line("ABORT", T.name, producers)) /\ pc' = "down"
    <3>1. /\ test \in 1..Len(Plan) /\ UNCHANGED <<opts, test, invocation>> /\ pc = "observe"
          /\ ~opts.dryRun
      BY <1>9 DEF CheckBroker, InTest
    <3>2. Writable(log) /\ TestOpen(log) /\ T.name \in Texts
      BY <3>1, LogOfRunning, TestFields
    <3>3. Writable(log') /\ TestOpen(log')
      BY <1>0, <2>2, <3>1, <3>2, WriteLine DEF Kinds
    <3> QED
      BY <2>2, <3>1, <3>3, LogHolds
  <2> QED
    BY <1>9, <2>1, <2>2 DEF CheckBroker, Write
<1>10. ASSUME NEW tp \in Throughputs, NEW degraded \in BOOLEAN, Evaluate(tp, degraded)
       PROVE  LogInv'
  <2> DEFINE row == Append(log, Line("RAMP", T.name, producers))
  <2>1. /\ log' = row \/ log' = Append(row, Line("ABORT", T.name, producers))
        /\ test \in 1..Len(Plan) /\ UNCHANGED <<opts, test, invocation>>
        /\ pc = "query" /\ pc' \in {"down", "ramp"}
    BY <1>10 DEF Evaluate, InTest
  <2>2. Writable(log) /\ TestOpen(log) /\ T.name \in Texts /\ ~opts.dryRun
    BY <2>1, LogOfRunning, TestFields DEF LogInv
  <2>3. Writable(row) /\ TestOpen(row)
    BY <1>0, <2>2, WriteLine DEF Kinds
  <2> HIDE DEF row
  <2>4. Writable(Append(row, Line("ABORT", T.name, producers)))
        /\ TestOpen(Append(row, Line("ABORT", T.name, producers)))
    BY <1>0, <2>2, <2>3, WriteLine DEF Kinds
  <2>5. Writable(log') /\ TestOpen(log')
    BY <2>1, <2>3, <2>4
  <2> QED
    BY <2>1, <2>5, LogHolds
<1>11. CASE CompleteSuite
  <2>1. /\ log' = Append(log, Line("complete", "", 0)) /\ pc = "next" /\ pc' = "stop"
        /\ UNCHANGED <<opts, invocation>>
    BY <1>11 DEF CompleteSuite
  <2>2. Writable(log')
    <3>1. "complete" \in Kinds /\ "complete" \notin RampLines \cup {"suite", "END"} /\ 0 \in Nat
      BY DEF Kinds, RampLines
    <3>2. Writable(log)
      BY <2>1, LogOfRunning
    <3>3. Writable(Append(log, Line("complete", "", 0)))
      BY <3>1, <3>2, BlankText, WriteLine, Zenon
    <3> QED
      BY <2>1, <3>3, Zenon
  <2> QED
    BY <2>1, <2>2, LogHolds
<1>12. CASE StopMonitoring("stop", "completed") \/ StopMonitoring("trap_stop", "signalled")
  BY <1>12, LogStays DEF StopMonitoring, Compose, Goto, Fail
<1>13. CASE TearDownAll \/ Signal
  BY <1>13, LogStays DEF TearDownAll, Signal, Goto
<1>14. CASE UNCHANGED vars
  <2>1. pc = "query" => ~opts.dryRun
    BY DEF LogInv
  <2> QED
    BY <1>14, <2>1, LogStays DEF vars
<1> QED
  BY <1>1, <1>2, <1>3, <1>4, <1>5, <1>6, <1>7, <1>8, <1>9, <1>10, <1>11, <1>12,
     <1>13, <1>14
  DEF Next, ScriptNext

\* The log is in order in every reachable state.
LEMMA LogInvariant == Spec => []LogInv
<1>1. Init => LogInv
  BY DEF Init, LogInv, Ordered, Headed, Closed, RampsAreReal, Running, Inside
<1> QED
  BY <1>1, Typing, LogStep, PTL DEF Spec
-----------------------------------------------------------------------------
(* What the report reads from such a log. *)

\* The last real suite.
RealHead == Max(RealSuites)

\* The lines of the report begin with the last suite line that is not dry.
LEMMA RealHeadIs ==
  ASSUME log \in Seq(LineType), NEW i \in SuiteLines
  PROVE  /\ RealHead \in DOMAIN log /\ log[RealHead].kind = "suite" /\ ~log[RealHead].dry
         /\ \A j \in RealSuites : j <= RealHead
         /\ i \in DOMAIN log /\ RealHead <= i
         /\ SuiteLines = {j \in DOMAIN log : RealHead <= j}
<1>1. Len(log) \in Nat /\ DOMAIN log = 1..Len(log)
  OBVIOUS
<1>2. RealSuites # {} /\ RealSuites \subseteq 1..Len(log)
  BY DEF SuiteLines, RealSuites, Lines
<1>3. RealHead \in RealSuites /\ \A j \in RealSuites : j <= RealHead
  BY <1>1, <1>2, MaxIs DEF RealHead
<1>4. SuiteLines = RealHead..Len(log)
  BY <1>2 DEF SuiteLines, RealHead
<1>5. RealHead \in 1..Len(log) /\ log[RealHead].kind = "suite" /\ ~log[RealHead].dry
  BY <1>3 DEF RealSuites, Lines
<1>6. SuiteLines = {j \in DOMAIN log : RealHead <= j}
  BY <1>1, <1>4, <1>5
<1> QED
  BY <1>1, <1>3, <1>5, <1>6

\* Of these lines, those that are not of a dry run are of that suite.
LEMMA RealLinesAreOwn ==
  ASSUME LogInv, NEW i \in SuiteLines, ~log[i].dry
  PROVE  log[i].run = log[RealHead].run
<1>1. /\ RealHead \in DOMAIN log /\ i \in DOMAIN log /\ RealHead <= i
      /\ \A j \in RealSuites : j <= RealHead
      /\ log \in Seq(LineType) /\ Ordered(log) /\ Headed(log)
  BY RealHeadIs DEF LogInv
<1>2. PICK j \in DOMAIN log : j <= i /\ Heads(log, j, log[i].run, log[i].dry)
  BY <1>1 DEF Headed
<1>3. j \in RealSuites
  BY <1>1, <1>2 DEF Heads, RealSuites, Lines
<1>4. j \in Int /\ i \in Int /\ RealHead \in Int /\ j <= RealHead
  BY <1>1, <1>3
<1>5. \A k \in DOMAIN log : log[k].run \in Nat
  BY <1>1, LineFields
<1>6. log[j].run <= log[RealHead].run
  <2>1. CASE j < RealHead
    BY <1>1, <2>1 DEF Ordered
  <2>2. CASE j = RealHead
    BY <1>1, <1>5, <2>2
  <2> QED
    BY <1>4, <2>1, <2>2
<1>7. log[RealHead].run <= log[i].run
  <2>1. CASE RealHead < i
    BY <1>1, <2>1 DEF Ordered
  <2>2. CASE RealHead = i
    BY <1>1, <1>5, <2>2
  <2> QED
    BY <1>1, <1>4, <2>1, <2>2
<1>8. log[j].run = log[i].run
  BY <1>2 DEF Heads
<1> QED
  BY <1>1, <1>5, <1>6, <1>7, <1>8

\* So the lines of the report are those of the last real suite, if no dry run
\* came after it.
LEMMA LinesAreOwn ==
  ASSUME LogInv, ~(\E i \in SuiteLines : log[i].dry)
  PROVE  SuiteLines = OwnLines
<1>1. CASE RealSuites = {}
  BY <1>1 DEF SuiteLines, OwnLines
<1>2. CASE RealSuites # {}
  <2>1. log \in Seq(LineType) /\ Ordered(log) /\ DOMAIN log = Lines
    BY DEF LogInv, Lines
  <2>2. Len(log) \in Nat /\ RealSuites \subseteq 1..Len(log)
    BY <2>1 DEF RealSuites, Lines
  <2>3. RealHead \in RealSuites
    BY <1>2, <2>2, MaxIs DEF RealHead
  <2>4. SuiteLines = RealHead..Len(log) /\ RealHead \in 1..Len(log)
    BY <1>2, <2>2, <2>3 DEF SuiteLines, RealHead
  <2>5. RealHead \in DOMAIN log /\ log[RealHead].kind = "suite"
    BY <2>1, <2>3 DEF RealSuites
  <2>6. OwnLines = {i \in Lines : log[i].run = log[RealHead].run}
    BY <1>2 DEF OwnLines, RealHead
  <2>7. ASSUME NEW i \in SuiteLines PROVE i \in OwnLines
    BY <2>1, <2>6, <2>7, RealLinesAreOwn, RealHeadIs
  <2>8. ASSUME NEW i \in OwnLines PROVE i \in SuiteLines
    <3>1. i \in 1..Len(log) /\ i \in DOMAIN log /\ log[i].run = log[RealHead].run
      BY <2>1, <2>6 DEF Lines
    <3>2. log[i].run \in Nat
      BY <2>1, <3>1, LineFields
    <3>3. ~(i < RealHead)
      <4>1. i < RealHead => log[i].run < log[RealHead].run
        BY <2>1, <2>5, <3>1 DEF Ordered
      <4> QED
        BY <3>1, <3>2, <4>1
    <3> QED
      BY <2>2, <2>4, <3>1, <3>3
  <2> QED
    BY <2>7, <2>8
<1> QED
  BY <1>1, <1>2

\* The window of a test begins at its last START and, if it ends, ends at an END
\* after that.
LEMMA WindowIs ==
  ASSUME log \in Seq(LineType), NEW name, NEW ls \in SUBSET (DOMAIN log),
         Of("START", name, ls) # {}
  PROVE  LET w == Window(name, ls)
         IN  /\ w.start \in Of("START", name, ls)
             /\ \A i \in Of("START", name, ls) : i <= w.start
             /\ w.end = 0 \/ (w.end \in Of("END", name, ls) /\ w.start < w.end)
<1> DEFINE first == Max(Of("START", name, ls))
           ends == {i \in Of("END", name, ls) : i > first}
<1>1. Len(log) \in Nat /\ DOMAIN log = 1..Len(log)
  OBVIOUS
<1>2. Of("START", name, ls) \subseteq 1..Len(log) /\ ends \subseteq 1..Len(log)
  BY <1>1 DEF Of
<1>3. first \in Of("START", name, ls) /\ \A i \in Of("START", name, ls) : i <= first
  BY <1>1, <1>2, MaxIs
<1>4. ends # {} => Max(ends) \in ends
  BY <1>1, <1>2, MaxIs
<1>5. Window(name, ls) = [start |-> first, end |-> IF ends = {} THEN 0 ELSE Max(ends)]
  BY DEF Window
<1>6. first \in Nat /\ \A i \in ends : i \in Nat /\ i \in Of("END", name, ls) /\ first < i
  BY <1>1, <1>2, <1>3
<1> HIDE DEF first, ends
<1>7. Window(name, ls).start = first /\ Window(name, ls).end = IF ends = {} THEN 0 ELSE Max(ends)
  BY <1>5
<1> QED
  BY <1>3, <1>4, <1>6, <1>7

\* No test or suite begins inside a window of the report, and its two ends are
\* of one invocation.
LEMMA WindowHasOneTest ==
  ASSUME LogInv, NEW name, Of("START", name, SuiteLines) # {},
         Window(name, SuiteLines).end # 0
  PROVE  LET w == Window(name, SuiteLines)
         IN  /\ w.start \in SuiteLines /\ w.end \in SuiteLines
             /\ log[w.end].kind = "END" /\ log[w.end].name = name
             /\ Opens(log, w.start, name, log[w.end].run, w.end)
<1> DEFINE s == Window(name, SuiteLines).start
           e == Window(name, SuiteLines).end
<1>1. log \in Seq(LineType) /\ Closed(log)
  BY DEF LogInv
<1>2. PICK x : x \in SuiteLines
  BY DEF Of
<1>3. /\ RealHead \in DOMAIN log /\ log[RealHead].kind = "suite"
      /\ SuiteLines = {j \in DOMAIN log : RealHead <= j}
  BY <1>1, <1>2, RealHeadIs
<1>4. SuiteLines \in SUBSET (DOMAIN log)
  BY <1>3
<1>5. /\ s \in Of("START", name, SuiteLines)
      /\ \A i \in Of("START", name, SuiteLines) : i <= s
      /\ e \in Of("END", name, SuiteLines) /\ s < e
  BY <1>1, <1>4, WindowIs
<1> HIDE DEF s, e
<1>6. /\ s \in SuiteLines /\ e \in SuiteLines /\ s \in DOMAIN log /\ e \in DOMAIN log
      /\ log[s].kind = "START" /\ log[e].kind = "END" /\ log[e].name = name
  BY <1>4, <1>5 DEF Of
<1>7. PICK i \in DOMAIN log : Opens(log, i, log[e].name, log[e].run, e)
  BY <1>1, <1>6 DEF Closed
<1>8. /\ i < e /\ log[i].kind = "START" /\ log[i].name = name
      /\ \A k \in DOMAIN log : i < k /\ k < e => log[k].kind \notin {"START", "suite"}
  BY <1>6, <1>7 DEF Opens
<1>9. i \in Int /\ s \in Int /\ e \in Int /\ RealHead \in Int /\ RealHead <= s
  BY <1>1, <1>3, <1>6
<1>10. RealHead <= i
  <2>1. ~(i < RealHead /\ RealHead < e)
    BY <1>3, <1>8
  <2> QED
    BY <1>5, <1>9, <2>1
<1>11. i \in Of("START", name, SuiteLines)
  BY <1>3, <1>8, <1>10 DEF Of
<1>12. i = s
  <2>1. i <= s
    BY <1>5, <1>11
  <2>2. ~(i < s /\ s < e)
    BY <1>6, <1>8
  <2> QED
    BY <1>5, <1>9, <2>1, <2>2
<1> QED
  BY <1>6, <1>7, <1>12 DEF s, e

\* The windows of one report do not overlap: no test is charged with the load of
\* another (the main loop of parse_run_log).
THEOREM WindowsDoNotOverlap == Spec => []WindowsDisjoint
<1>1. LogInv => WindowsDisjoint
  <2> DEFINE w == Tests(SuiteLines)
  <2> SUFFICES ASSUME LogInv, NEW a \in DOMAIN w, NEW b \in DOMAIN w,
                      w[a].start < w[b].start, w[b].start < w[a].end
               PROVE  FALSE
    BY DEF WindowsDisjoint
  <2>1. \A n \in DOMAIN w : Of("START", n, SuiteLines) # {} /\ w[n] = Window(n, SuiteLines)
    BY DEF Tests
  <2> HIDE DEF w
  <2>2. log \in Seq(LineType) /\ SuiteLines \in SUBSET (DOMAIN log)
    <3>1. log \in Seq(LineType)
      BY DEF LogInv
    <3> QED
      BY <3>1, RealHeadIs
  <2>3. /\ w[b].start \in DOMAIN log /\ log[w[b].start].kind = "START"
        /\ w[a].start \in DOMAIN log
    <3>1. /\ w[b].start \in Of("START", b, SuiteLines)
          /\ w[a].start \in Of("START", a, SuiteLines)
      BY <2>1, <2>2, WindowIs
    <3> QED
      BY <2>2, <3>1 DEF Of
  <2>4. w[a].end # 0
    BY <2>2, <2>3
  <2>5. Opens(log, w[a].start, a, log[w[a].end].run, w[a].end)
    BY <2>1, <2>4, WindowHasOneTest
  <2> QED
    BY <2>3, <2>5 DEF Opens
<1> QED
  BY <1>1, LogInvariant, PTL

\* The windows of the report are those of the last real suite, unless a dry run
\* came after it.
THEOREM ReportIsOfLastSuite == Spec => []ReportsLastUnlessDry
<1>1. LogInv => ReportsLastUnlessDry
  BY LinesAreOwn DEF ReportsLastUnlessDry, ReportsLastRealSuite
<1> QED
  BY <1>1, LogInvariant, PTL

\* Only a test that the last real suite has finished gets numbers, unless a dry
\* run came after it.
THEOREM OnlyFinishedHaveNumbers == Spec => []UnfinishedHasNoNumbers
<1>1. LogInv => UnfinishedHasNoNumbers
  <2> SUFFICES ASSUME LogInv, ~(\E i \in SuiteLines : log[i].dry),
                      NEW name \in Queried(SuiteLines)
               PROVE  \E i, j \in OwnLines :
                        /\ i < j /\ log[i].name = name /\ log[j].name = name
                        /\ log[i].kind = "START" /\ log[j].kind = "END"
                        /\ ~\E k \in i + 1..j : log[k].kind = "START"
    BY DEF UnfinishedHasNoNumbers
  <2> DEFINE s == Window(name, SuiteLines).start
             e == Window(name, SuiteLines).end
  <2>1. Of("START", name, SuiteLines) # {} /\ e # 0
    BY DEF Queried, Tests
  <2>2. /\ s \in SuiteLines /\ e \in SuiteLines
        /\ log[e].kind = "END" /\ log[e].name = name
        /\ Opens(log, s, name, log[e].run, e)
    BY <2>1, WindowHasOneTest
  <2> HIDE DEF s, e
  <2>3. log \in Seq(LineType) /\ s \in DOMAIN log /\ e \in DOMAIN log
    <3>1. log \in Seq(LineType)
      BY DEF LogInv
    <3> QED
      BY <2>2, <3>1, RealHeadIs
  <2>4. /\ s < e /\ log[s].kind = "START" /\ log[s].name = name
        /\ \A k \in DOMAIN log : s < k /\ k < e => log[k].kind # "START"
    BY <2>2 DEF Opens
  <2>5. ~\E k \in s + 1..e : log[k].kind = "START"
    <3> SUFFICES ASSUME NEW k \in s + 1..e PROVE log[k].kind # "START"
      OBVIOUS
    <3>1. CASE k = e
      BY <2>2, <3>1
    <3>2. CASE k # e
      <4>1. k \in DOMAIN log /\ s < k /\ k < e
        BY <2>3, <3>2
      <4> QED
        BY <2>4, <4>1
    <3> QED
      BY <3>1, <3>2
  <2> QED
    BY <2>2, <2>4, <2>5, LinesAreOwn
<1> QED
  BY <1>1, LogInvariant, PTL
-----------------------------------------------------------------------------
\* Two lines of one test of one invocation.
SameTest(a, b) == a.run = b.run /\ a.name = b.name

\* A row with the producers of an abort is the last row of its ramp.
AbortsLast(l) ==
    \A i, j, k \in DOMAIN l :
      /\ l[i].kind = "ABORT" /\ l[j].kind = "RAMP" /\ l[k].kind = "RAMP"
      /\ SameTest(l[j], l[i]) /\ SameTest(l[k], l[i]) /\ l[j].n = l[i].n
      => k <= j

\* The tests of the plan that the invocation has not begun.
NotBegun == IF pc \in {"monitoring", "ready", "cadvisor", "next"} THEN test..Len(Plan)
            ELSE IF pc \in Inside \cup {"end", "cooldown"} THEN (test + 1)..Len(Plan)
            ELSE {}

\* The rows of the ramp that runs have fewer producers than it has now, it has
\* not been aborted, and the tests to come have no rows.
RampInv ==
    /\ AbortsLast(log)
    /\ \A i \in DOMAIN log :
         log[i].kind \in RampLines /\ log[i].run = invocation =>
           /\ pc \in {"ramp", "ramp_up", "observe", "query"} /\ log[i].name = T.name =>
                log[i].kind = "RAMP" /\ log[i].n < producers
           /\ \A k \in NotBegun : log[i].name # Plan[k].name

\* The names of the tests in testplan.json are distinct.
DistinctNames == \A i, j \in 1..Len(Plan) : Plan[i].name = Plan[j].name => i = j
-----------------------------------------------------------------------------
\* A line of a ramp leaves the rows and aborts of the log in order.
LEMMA AbortsAppend ==
  ASSUME NEW l \in Seq(LineType), AbortsLast(l), NEW x \in LineType,
         x.kind = "RAMP" => \A i \in DOMAIN l : l[i].kind = "ABORT" => ~SameTest(x, l[i]),
         x.kind = "ABORT" => \A j, k \in DOMAIN l :
                               /\ l[j].kind = "RAMP" /\ l[k].kind = "RAMP"
                               /\ SameTest(l[j], x) /\ SameTest(l[k], x) /\ l[j].n = x.n
                               => k <= j
  PROVE  AbortsLast(Append(l, x))
<1> DEFINE m == Append(l, x)
<1>1. /\ Len(l) \in Nat /\ m[Len(l) + 1] = x
      /\ \A i \in DOMAIN l : m[i] = l[i]
      /\ \A i \in DOMAIN m : i \in DOMAIN l \/ i = Len(l) + 1
      /\ DOMAIN l = 1..Len(l)
  BY AppendLine
<1> HIDE DEF m
<1> SUFFICES ASSUME NEW i \in DOMAIN m, NEW j \in DOMAIN m, NEW k \in DOMAIN m,
                    m[i].kind = "ABORT", m[j].kind = "RAMP", m[k].kind = "RAMP",
                    SameTest(m[j], m[i]), SameTest(m[k], m[i]), m[j].n = m[i].n
             PROVE  k <= j
  BY DEF AbortsLast, m
<1>2. CASE i \in DOMAIN l
  <2>1. m[i] = l[i]
    BY <1>1, <1>2
  <2>2. x.kind # "RAMP" \/ (~SameTest(m[j], m[i]) \/ j # Len(l) + 1)
    BY <1>1, <1>2, <2>1
  <2>3. j \in DOMAIN l /\ k \in DOMAIN l
    BY <1>1, <1>2, <2>1
  <2> QED
    BY <1>1, <1>2, <2>1, <2>3 DEF AbortsLast
<1>3. CASE i = Len(l) + 1
  <2>1. m[i] = x
    BY <1>1, <1>3
  <2>2. j \in DOMAIN l /\ k \in DOMAIN l
    BY <1>1, <2>1
  <2> QED
    BY <1>1, <2>1, <2>2
<1> QED
  BY <1>1, <1>2, <1>3

\* The rows of the ramp that runs are below its producers, and the tests to
\* come have none.
RowsBelow(l, n) ==
    \A i \in DOMAIN l :
      l[i].kind \in RampLines /\ l[i].run = invocation /\ l[i].name = T.name =>
        l[i].kind = "RAMP" /\ l[i].n < n
NoRowsOf(l, ks) ==
    \A i \in DOMAIN l :
      l[i].kind \in RampLines /\ l[i].run = invocation =>
        \A k \in ks : l[i].name # Plan[k].name

Ramping == {"ramp", "ramp_up", "observe", "query"}

\* The invariant in these terms.
LEMMA RampIs ==
  RampInv <=> /\ AbortsLast(log)
              /\ pc \in Ramping => RowsBelow(log, producers)
              /\ NoRowsOf(log, NotBegun)
BY DEF RampInv, RowsBelow, NoRowsOf, Ramping

\* What a step of an invocation has to show to preserve it.
LEMMA RampHolds ==
  ASSUME AbortsLast(log'), UNCHANGED invocation,
         pc' \in Ramping => test' = test /\ RowsBelow(log', producers'),
         NoRowsOf(log', NotBegun')
  PROVE  RampInv'
BY DEF RampInv, RowsBelow, NoRowsOf, Ramping, T

\* A step that writes nothing.
LEMMA RampStays ==
  ASSUME TypeOK, log \in Seq(LineType), RampInv, UNCHANGED <<log, invocation>>,
         NotBegun' \subseteq NotBegun,
         pc' \in Ramping => /\ pc \in Ramping /\ test' = test
                            /\ producers' \in Nat /\ producers <= producers'
  PROVE  RampInv'
<1>1. AbortsLast(log') /\ NoRowsOf(log', NotBegun')
  BY RampIs DEF NoRowsOf, AbortsLast, SameTest
<1>2. ASSUME pc' \in Ramping PROVE test' = test /\ RowsBelow(log', producers')
  <2>1. RowsBelow(log, producers) /\ producers \in Nat
    BY <1>2, RampIs DEF TypeOK
  <2>2. \A i \in DOMAIN log : log[i] \in LineType /\ log[i].n \in Nat
    BY LineFields
  <2> QED
    BY <1>2, <2>1, <2>2 DEF RowsBelow
<1> QED
  BY <1>1, <1>2, RampHolds

\* A line that is not of a ramp changes nothing of it.
LEMMA PlainAppend ==
  ASSUME TypeOK, NEW l \in Seq(LineType), NEW k \in Kinds \ RampLines, NEW name \in Texts,
         NEW n \in Nat
  PROVE  LET m == Append(l, Line(k, name, n))
         IN  /\ AbortsLast(l) => AbortsLast(m)
             /\ \A b : RowsBelow(l, b) => RowsBelow(m, b)
             /\ \A ks : NoRowsOf(l, ks) => NoRowsOf(m, ks)
<1> DEFINE x == Line(k, name, n)
           m == Append(l, x)
<1>1. x \in LineType /\ x.kind = k
  BY LineOfType DEF Line
<1> HIDE DEF x
<1>2. /\ m[Len(l) + 1] = x
      /\ \A i \in DOMAIN l : m[i] = l[i]
      /\ \A i \in DOMAIN m : i \in DOMAIN l \/ i = Len(l) + 1
  BY <1>1, AppendLine
<1>3. AbortsLast(l) => AbortsLast(m)
  BY <1>1, AbortsAppend DEF RampLines
<1> HIDE DEF m
<1>4. \A i \in DOMAIN m : m[i].kind \in RampLines => i \in DOMAIN l /\ m[i] = l[i]
  BY <1>1, <1>2
<1> QED
  BY <1>3, <1>4 DEF RowsBelow, NoRowsOf, x, m

\* A line of the current test is none of a test to come.
LEMMA LaterAppend ==
  ASSUME TypeOK, DistinctNames, test \in 1..Len(Plan),
         NEW l \in Seq(LineType), NEW x \in LineType, x.name = T.name,
         NoRowsOf(l, (test + 1)..Len(Plan))
  PROVE  NoRowsOf(Append(l, x), (test + 1)..Len(Plan))
<1> DEFINE m == Append(l, x)
<1>1. /\ m[Len(l) + 1] = x
      /\ \A i \in DOMAIN l : m[i] = l[i]
      /\ \A i \in DOMAIN m : i \in DOMAIN l \/ i = Len(l) + 1
  BY AppendLine
<1>2. \A k \in (test + 1)..Len(Plan) : T.name # Plan[k].name
  <2> SUFFICES ASSUME NEW k \in (test + 1)..Len(Plan) PROVE Plan[test].name # Plan[k].name
    BY DEF T
  <2>1. k \in 1..Len(Plan) /\ k # test
    BY PlanLength
  <2> QED
    BY <2>1 DEF DistinctNames
<1> HIDE DEF m
<1> SUFFICES ASSUME NEW i \in DOMAIN m, m[i].kind \in RampLines, m[i].run = invocation,
                    NEW k \in (test + 1)..Len(Plan)
             PROVE  m[i].name # Plan[k].name
  BY DEF NoRowsOf, m
<1>3. CASE i \in DOMAIN l
  <2>1. m[i] = l[i]
    BY <1>1, <1>3
  <2> QED
    BY <1>3, <2>1 DEF NoRowsOf
<1>4. CASE i = Len(l) + 1
  <2>1. m[i] = x
    BY <1>1, <1>4
  <2> QED
    BY <1>2, <2>1
<1> QED
  BY <1>1, <1>3, <1>4

\* A row of the ramp that runs with n producers is its last row.
LastWith(l, n) ==
    \A j, k \in DOMAIN l :
      /\ l[j].kind = "RAMP" /\ l[j].run = invocation /\ l[j].name = T.name /\ l[j].n = n
      /\ l[k].kind = "RAMP" /\ l[k].run = invocation /\ l[k].name = T.name
      => k <= j

\* The ramp writes a row for its producers, more than any row before.
LEMMA RowAppend ==
  ASSUME TypeOK, test \in 1..Len(Plan),
         NEW l \in Seq(LineType), AbortsLast(l), RowsBelow(l, producers)
  PROVE  LET m == Append(l, Line("RAMP", T.name, producers))
         IN  /\ AbortsLast(m) /\ LastWith(m, producers)
             /\ \A c \in Nat : producers < c => RowsBelow(m, c)
<1> DEFINE x == Line("RAMP", T.name, producers)
           m == Append(l, x)
<1>1. producers \in Nat /\ x \in LineType
  BY TestFields, LineOfType DEF Kinds, TypeOK
<1>2. x.kind = "RAMP" /\ x.name = T.name /\ x.run = invocation /\ x.n = producers
  BY DEF Line
<1> HIDE DEF x
<1>3. /\ Len(l) \in Nat /\ DOMAIN l = 1..Len(l) /\ m[Len(l) + 1] = x
      /\ \A i \in DOMAIN l : m[i] = l[i] /\ l[i] \in LineType
      /\ \A i \in DOMAIN m : i \in DOMAIN l \/ i = Len(l) + 1
  BY <1>1, AppendLine
<1>4. \A i \in DOMAIN l :
        l[i].kind \in RampLines /\ l[i].run = invocation /\ l[i].name = T.name =>
          l[i].kind = "RAMP" /\ l[i].n < producers
  BY DEF RowsBelow
<1>5. AbortsLast(m)
  <2>1. \A i \in DOMAIN l : l[i].kind = "ABORT" => ~SameTest(x, l[i])
    BY <1>2, <1>4 DEF SameTest, RampLines
  <2> QED
    BY <1>1, <1>2, <2>1, AbortsAppend
<1> HIDE DEF m
<1>6. LastWith(m, producers)
  <2> SUFFICES ASSUME NEW j \in DOMAIN m, NEW k \in DOMAIN m,
                      m[j].kind = "RAMP", m[j].run = invocation, m[j].name = T.name,
                      m[j].n = producers
               PROVE  k <= j
    BY DEF LastWith
  <2>1. j \notin DOMAIN l
    <3>1. ASSUME j \in DOMAIN l PROVE FALSE
      <4>1. m[j] = l[j]
        BY <1>3, <3>1
      <4>2. l[j].n < producers
        BY <1>4, <3>1, <4>1 DEF RampLines
      <4> QED
        BY <1>1, <4>1, <4>2
    <3> QED
      BY <3>1
  <2> QED
    BY <1>3, <2>1
<1>7. ASSUME NEW c \in Nat, producers < c PROVE RowsBelow(m, c)
  <2> SUFFICES ASSUME NEW i \in DOMAIN m, m[i].kind \in RampLines, m[i].run = invocation,
                      m[i].name = T.name
               PROVE  m[i].kind = "RAMP" /\ m[i].n < c
    BY DEF RowsBelow
  <2>1. CASE i \in DOMAIN l
    <3>1. m[i] = l[i] /\ l[i].n \in Nat
      BY <1>3, <2>1, LineFields
    <3>2. l[i].kind = "RAMP" /\ l[i].n < producers
      BY <1>4, <2>1, <3>1
    <3> QED
      BY <1>1, <1>7, <3>1, <3>2
  <2>2. CASE i = Len(l) + 1
    BY <1>2, <1>3, <1>7, <2>2
  <2> QED
    BY <1>3, <2>1, <2>2
<1> QED
  BY <1>5, <1>6, <1>7 DEF m, x

\* The ramp aborts: the row with its producers, if it has one, is its last.
LEMMA AbortAppend ==
  ASSUME TypeOK, test \in 1..Len(Plan),
         NEW l \in Seq(LineType), AbortsLast(l), LastWith(l, producers)
  PROVE  AbortsLast(Append(l, Line("ABORT", T.name, producers)))
<1> DEFINE x == Line("ABORT", T.name, producers)
<1>1. x \in LineType
  BY TestFields, LineOfType DEF Kinds, TypeOK
<1>2. x.kind = "ABORT" /\ x.name = T.name /\ x.run = invocation /\ x.n = producers
  BY DEF Line
<1> HIDE DEF x
<1>3. \A j, k \in DOMAIN l :
        /\ l[j].kind = "RAMP" /\ l[k].kind = "RAMP"
        /\ SameTest(l[j], x) /\ SameTest(l[k], x) /\ l[j].n = x.n
        => k <= j
  BY <1>2 DEF LastWith, SameTest
<1>4. AbortsLast(Append(l, x))
  BY <1>1, <1>2, <1>3, AbortsAppend
<1> QED
  BY <1>4 DEF x

\* A step keeps the rows of a ramp below its producers, and its abort last.
LEMMA RampLinesStep ==
  ASSUME DistinctNames, TypeOK, InTest, LogInv, RampInv, [Next]_vars, TypeOK'
  PROVE  RampInv'
<1> USE DEF Inside, Ramping, history
<1>0. log \in Seq(LineType) /\ producers \in Nat /\ producers' \in Nat /\ Len(Plan) \in Nat
  BY PlanLength DEF LogInv, TypeOK
<1>t. test \in Nat /\ test <= Len(Plan) + 1
  BY <1>0 DEF TypeOK
<1>r. /\ AbortsLast(log)
      /\ pc \in Ramping => RowsBelow(log, producers)
      /\ NoRowsOf(log, NotBegun)
  BY RampIs
<1>1. ASSUME NEW o \in Options, Invoke(o) PROVE RampInv'
  <2> DEFINE x == [kind |-> "suite", name |-> "", n |-> 0, dry |-> o.dryRun, run |-> invocation + 1]
  <2>1. /\ log' = Append(log, x) /\ pc' = "monitoring"
        /\ invocation' = invocation + 1 /\ invocation \in Nat
    BY <1>1, InvocationType, Zenon DEF Invoke
  <2>2. x.kind = "suite" /\ x \in LineType
    <3>1. o.dryRun \in BOOLEAN
      BY OptionsAssumption, Zenon
    <3>2. invocation + 1 \in Nat
      BY InvocationType
    <3> QED
      BY <3>1, <3>2, BlankText, Zenon DEF LineType, Kinds
  <2> HIDE DEF x
  <2>3. AbortsLast(log')
    BY <1>0, <1>r, <2>1, <2>2, AbortsAppend
  <2>4. \A i \in DOMAIN log : log[i].run # invocation + 1
    <3>1. \A i \in DOMAIN log : log[i].run <= invocation /\ log[i].run \in Nat
      BY <1>0, LineFields DEF LogInv
    <3> QED
      BY <2>1, <3>1
  <2>5. \A i \in DOMAIN log' : ~(log'[i].kind \in RampLines /\ log'[i].run = invocation')
    <3>1. /\ log'[Len(log) + 1] = x
          /\ \A i \in DOMAIN log : log'[i] = log[i]
          /\ \A i \in DOMAIN log' : i \in DOMAIN log \/ i = Len(log) + 1
      BY <1>0, <2>1, <2>2, AppendLine
    <3> QED
      BY <2>1, <2>2, <2>4, <3>1 DEF RampLines
  <2> QED
    BY <2>1, <2>3, <2>5 DEF RampInv
<1>2. CASE StartMonitoring \/ StartCadvisor
  BY <1>0, <1>2, RampStays DEF StartMonitoring, StartCadvisor, Compose, Fail, NotBegun
<1>3. CASE AwaitPrometheus \/ RampStep
  BY <1>0, <1>3, RampStays DEF AwaitPrometheus, RampStep, Goto, Fail, NotBegun
<1>4. CASE SkipTest \/ Cooldown
  <2>1. NotBegun' \subseteq NotBegun
    BY <1>0, <1>t, <1>4 DEF SkipTest, Cooldown, Fail, NotBegun
  <2> QED
    BY <1>0, <1>4, <2>1, RampStays DEF SkipTest, Cooldown, Fail
<1>5. CASE BeginTest
  <2>1. /\ test \in 1..Len(Plan) /\ log' = Append(log, Line("START", T.name, T.initial))
        /\ UNCHANGED <<opts, test, invocation>> /\ pc = "next" /\ pc' \in {"fixed_up", "ramp"}
    BY <1>5, PlanLength DEF BeginTest, TypeOK
  <2>2. NoRowsOf(log, test..Len(Plan)) /\ NotBegun' \subseteq test..Len(Plan)
    BY <1>0, <1>t, <1>r, <2>1 DEF NotBegun
  <2>3. NoRowsOf(log, NotBegun')
    BY <2>2 DEF NoRowsOf
  <2>4. RowsBelow(log, producers')
    BY <2>1, <2>2 DEF NoRowsOf, RowsBelow, T
  <2>5. "START" \in Kinds \ RampLines
    BY DEF Kinds, RampLines
  <2>6. /\ AbortsLast(log') /\ RowsBelow(log', producers') /\ NoRowsOf(log', NotBegun')
    BY <1>0, <1>r, <2>1, <2>3, <2>4, <2>5, PlainAppend, TestFields
  <2> QED
    BY <2>1, <2>6, RampHolds
<1>6. CASE RunFixed \/ RunStep
  BY <1>0, <1>6, RampStays DEF RunFixed, RunStep, BringUp, Compose, Fail, NotBegun
<1>7. CASE TearDown \/ QueryFails \/ BrokerDies
  BY <1>0, <1>7, RampStays DEF TearDown, Compose, QueryFails, Fail, BrokerDies, NotBegun
<1>8. CASE PrintStep
  <2>1. /\ UNCHANGED <<log, invocation, test>> /\ pc = "observe" /\ pc' = "ramp"
        /\ producers' = producers + T.step
    BY <1>8 DEF PrintStep
  <2>2. producers <= producers'
    <3>1. T.step \in Nat
      BY <2>1, TestFields DEF InTest
    <3> QED
      BY <1>0, <2>1, <3>1
  <2> QED
    BY <1>0, <2>1, <2>2, RampStays DEF NotBegun
<1>9. CASE EndTest
  <2>1. /\ test \in 1..Len(Plan) /\ log' = Append(log, Line("END", T.name, producers))
        /\ UNCHANGED <<opts, invocation>> /\ pc = "end"
        /\ \/ pc' = "cooldown" /\ test' = test
           \/ pc' = "next" /\ test' = test + 1
    BY <1>9 DEF EndTest, Write, InTest
  <2>2. NotBegun' = NotBegun
    BY <2>1 DEF NotBegun
  <2>3. "END" \in Kinds \ RampLines
    BY DEF Kinds, RampLines
  <2>4. AbortsLast(log') /\ NoRowsOf(log', NotBegun')
    BY <1>0, <1>r, <2>1, <2>2, <2>3, PlainAppend, TestFields
  <2> QED
    BY <2>1, <2>4, RampHolds
<1>10. CASE CheckBroker
  <2>1. CASE log' = log
    BY <1>0, <1>10, <2>1, RampStays DEF CheckBroker, NotBegun
  <2>2. CASE log' = Append(log, Line("ABORT", T.name, producers)) /\ pc' = "down"
    <3>1. /\ test \in 1..Len(Plan) /\ UNCHANGED <<opts, test, invocation>> /\ pc = "observe"
      BY <1>10 DEF CheckBroker, InTest
    <3>2. NotBegun = (test + 1)..Len(Plan) /\ NotBegun' = NotBegun
      BY <2>2, <3>1 DEF NotBegun
    <3>3. AbortsLast(log')
      <4>1. RowsBelow(log, producers) /\ \A i \in DOMAIN log : log[i].n \in Nat
        BY <1>0, <1>r, <3>1, LineFields
      <4>2. LastWith(log, producers)
        BY <1>0, <4>1 DEF RowsBelow, LastWith, RampLines
      <4> QED
        BY <1>0, <1>r, <2>2, <3>1, <4>2, AbortAppend
    <3>4. NoRowsOf(log', NotBegun')
      <4>1. Line("ABORT", T.name, producers) \in LineType
        BY <1>0, <3>1, TestFields, LineOfType DEF Kinds
      <4>2. Line("ABORT", T.name, producers).name = T.name
        BY DEF Line
      <4> QED
        BY <1>0, <1>r, <2>2, <3>1, <3>2, <4>1, <4>2, LaterAppend
    <3> QED
      BY <2>2, <3>1, <3>3, <3>4, RampHolds
  <2> QED
    BY <1>10, <2>1, <2>2 DEF CheckBroker, Write
<1>11. ASSUME NEW tp \in Throughputs, NEW degraded \in BOOLEAN, Evaluate(tp, degraded)
       PROVE  RampInv'
  <2> DEFINE x == Line("RAMP", T.name, producers)
             y == Line("ABORT", T.name, producers)
             row == Append(log, x)
  <2>1. /\ \/ log' = row /\ pc' = "ramp" /\ producers' = producers + T.step
           \/ log' = Append(row, y) /\ pc' = "down"
        /\ test \in 1..Len(Plan) /\ UNCHANGED <<opts, test, invocation>>
        /\ pc = "query"
    BY <1>11 DEF Evaluate, InTest
  <2>2. NotBegun = (test + 1)..Len(Plan) /\ NotBegun' = NotBegun
    BY <2>1 DEF NotBegun
  <2>3. /\ x \in LineType /\ y \in LineType /\ x.name = T.name /\ y.name = T.name
    <3>1. x \in LineType /\ y \in LineType
      BY <1>0, <2>1, TestFields, LineOfType DEF Kinds
    <3> QED
      BY <3>1 DEF Line
  <2>4. RowsBelow(log, producers)
    BY <1>r, <2>1
  <2>5. /\ AbortsLast(row) /\ LastWith(row, producers)
        /\ \A c \in Nat : producers < c => RowsBelow(row, c)
    BY <1>0, <1>r, <2>1, <2>4, RowAppend
  <2>6. row \in Seq(LineType)
    BY <1>0, <2>3, AppendLine
  <2> HIDE DEF x, y
  <2>7. NoRowsOf(row, NotBegun')
    BY <1>0, <1>r, <2>1, <2>2, <2>3, LaterAppend
  <2> HIDE DEF row
  <2>8. CASE log' = row /\ pc' = "ramp" /\ producers' = producers + T.step
    <3>1. producers < producers'
      <4>1. T.step \in Nat /\ T.step # 0
        BY <2>1, StepPositive
      <4> QED
        BY <1>0, <2>8, <4>1
    <3>2. RowsBelow(log', producers')
      BY <1>0, <2>5, <2>8, <3>1
    <3> QED
      BY <2>1, <2>5, <2>7, <2>8, <3>2, RampHolds
  <2>9. CASE log' = Append(row, y) /\ pc' = "down"
    <3>1. AbortsLast(log')
      BY <2>1, <2>5, <2>6, <2>9, AbortAppend DEF y
    <3>2. NoRowsOf(log', NotBegun')
      BY <2>1, <2>2, <2>3, <2>6, <2>7, <2>9, LaterAppend
    <3> QED
      BY <2>1, <2>9, <3>1, <3>2, RampHolds
  <2> QED
    BY <2>1, <2>8, <2>9
<1>12. CASE CompleteSuite
  <2>1. /\ log' = Append(log, Line("complete", "", 0)) /\ pc' = "stop"
        /\ UNCHANGED <<opts, invocation>>
    BY <1>12 DEF CompleteSuite
  <2>2. "complete" \in Kinds \ RampLines /\ 0 \in Nat
    BY DEF Kinds, RampLines
  <2>3. AbortsLast(Append(log, Line("complete", "", 0)))
    BY <1>0, <1>r, <2>2, BlankText, PlainAppend, Zenon
  <2>4. AbortsLast(log')
    BY <2>1, <2>3, Zenon
  <2>5. NotBegun' = {} /\ pc' \notin Ramping
    BY <2>1 DEF NotBegun
  <2> QED
    BY <2>1, <2>4, <2>5, RampHolds DEF NoRowsOf
<1>13. CASE StopMonitoring("stop", "completed") \/ StopMonitoring("trap_stop", "signalled")
  BY <1>0, <1>13, RampStays DEF StopMonitoring, Compose, Goto, Fail, NotBegun
<1>14. CASE TearDownAll \/ Signal
  BY <1>0, <1>14, RampStays DEF TearDownAll, Signal, Goto, NotBegun
<1>15. CASE UNCHANGED vars
  BY <1>0, <1>15, RampStays DEF vars, NotBegun
<1> QED
  BY <1>1, <1>2, <1>3, <1>4, <1>5, <1>6, <1>7, <1>8, <1>9, <1>10, <1>11, <1>12,
     <1>13, <1>14, <1>15
  DEF Next, ScriptNext

\* The abort that the report shows in the table of a ramp is on its last row, if
\* the plan names no two tests alike (evaluate_ramp_step and build_ramp_table).
THEOREM AbortIsOnLastRow == DistinctNames => (Spec => []AbortMarksLastRow)
<1> SUFFICES ASSUME DistinctNames PROVE Spec => []AbortMarksLastRow
  OBVIOUS
<1>1. Init => RampInv
  BY DEF Init, RampInv, AbortsLast
<1>2. TypeOK /\ InTest /\ LogInv /\ RampInv /\ [Next]_vars /\ TypeOK' => RampInv'
  BY RampLinesStep
<1>3. LogInv /\ RampInv => AbortMarksLastRow
  <2> SUFFICES ASSUME LogInv, RampInv, NEW name \in Names, NEW n \in ShownAborts(name, SuiteLines)
               PROVE  n \in {log[i].n : i \in LastRow(name, SuiteLines)}
    BY DEF AbortMarksLastRow
  <2> DEFINE rows == Of("RAMP", name, SuiteLines)
             aborts == Of("ABORT", name, SuiteLines)
  <2>1. PICK j \in rows : n = log[j].n
    BY DEF ShownAborts, Rows
  <2>2. aborts # {} /\ n = log[Max(aborts)].n
    BY DEF ShownAborts, AbortsAt
  <2>3. log \in Seq(LineType) /\ SuiteLines \in SUBSET (DOMAIN log) /\ Len(log) \in Nat
    <3>1. log \in Seq(LineType)
      BY DEF LogInv
    <3> QED
      BY <3>1, RealHeadIs
  <2>4. rows \subseteq 1..Len(log) /\ aborts \subseteq 1..Len(log)
    BY <2>3 DEF Of
  <2>5. Max(aborts) \in aborts /\ Max(rows) \in rows /\ j <= Max(rows)
    BY <2>1, <2>2, <2>3, <2>4, MaxIs
  <2>6. \A i \in rows \cup aborts : /\ i \in DOMAIN log /\ log[i].run = log[RealHead].run
                                   /\ log[i].name = name
    <3> SUFFICES ASSUME NEW i \in rows \cup aborts
                 PROVE  i \in DOMAIN log /\ log[i].run = log[RealHead].run /\ log[i].name = name
      OBVIOUS
    <3>1. /\ i \in SuiteLines /\ i \in DOMAIN log /\ log[i].name = name
          /\ log[i].kind \in RampLines
      BY <2>3 DEF Of, RampLines
    <3>2. ~log[i].dry
      BY <3>1 DEF LogInv, RampsAreReal
    <3> QED
      BY <3>1, <3>2, RealLinesAreOwn
  <2>7. /\ \A i \in rows : log[i].kind = "RAMP"
        /\ \A i \in aborts : log[i].kind = "ABORT"
    BY DEF Of
  <2>8. LastRow(name, SuiteLines) = {Max(rows)}
    BY <2>1 DEF LastRow
  <2> HIDE DEF rows, aborts
  <2>9. Max(rows) <= j
    <3> DEFINE i == Max(aborts)
    <3>1. j \in rows /\ Max(rows) \in rows /\ i \in aborts
      BY <2>1, <2>5
    <3> HIDE DEF i
    <3>2. i \in DOMAIN log /\ j \in DOMAIN log /\ Max(rows) \in DOMAIN log
      BY <3>1, <2>6
    <3>3. log[j].kind = "RAMP" /\ log[Max(rows)].kind = "RAMP" /\ log[i].kind = "ABORT"
      BY <3>1, <2>7
    <3>4. SameTest(log[j], log[i]) /\ SameTest(log[Max(rows)], log[i])
      BY <3>1, <2>6 DEF SameTest
    <3>5. log[j].n = log[i].n
      BY <2>1, <2>2 DEF i
    <3>6. AbortsLast(log)
      BY DEF RampInv
    <3> QED
      BY <3>2, <3>3, <3>4, <3>5, <3>6 DEF AbortsLast
  <2>10. Max(rows) = j
    <3>1. Max(rows) \in 1..Len(log) /\ j \in 1..Len(log)
      BY <2>1, <2>4, <2>5
    <3> HIDE DEF rows
    <3> QED
      BY <3>1, <2>3, <2>5, <2>9
  <2> QED
    BY <2>1, <2>8, <2>10
<1> QED
  BY <1>1, <1>2, <1>3, Typing, LogInvariant, PTL DEF Spec
-----------------------------------------------------------------------------
(* The rows of a ramp, step by step. *)

\* The producers of the step after the line p of the ramp t.
NextRow(t, p, n) == \/ p.kind = "START" /\ p.n = t.initial /\ n = p.n
                    \/ p.kind = "RAMP" /\ n = p.n + t.step

\* The lines of a test after its START, and which line x of the test t may come
\* right after the line p.
TestLines == {"RAMP", "ABORT", "END"}
Follows(t, p, x) ==
    /\ x.name = t.name /\ SameTest(p, x) /\ p.dry = x.dry
    /\ \/ x.kind = "RAMP" /\ t.type = "ramp" /\ x.n <= t.max /\ NextRow(t, p, x.n)
       \/ x.kind = "ABORT" /\ ((p.kind = "RAMP" /\ p.n = x.n) \/ NextRow(t, p, x.n))
       \/ x.kind = "END" /\ t.type = "fixed" /\ p.kind = "START"
       \/ x.kind = "END" /\ t.type = "ramp" /\ \/ p.kind = "ABORT"
                                               \/ x.dry /\ p.kind = "START"
                                               \/ NextRow(t, p, x.n) /\ x.n > t.max

\* The lines of every test follow one another without a gap.
Chained(l) ==
    \A i \in DOMAIN l : l[i].kind \in TestLines =>
      i - 1 \in DOMAIN l /\ \E k \in 1..Len(Plan) : Follows(Plan[k], l[i - 1], l[i])

\* What the script may write next after the line p, where it is.
Place(p) ==
    /\ p.run = invocation /\ p.name = T.name /\ p.dry = opts.dryRun
    /\ pc = "fixed_up" => T.type = "fixed" /\ p.kind = "START"
    /\ pc \in Ramping =>
         /\ T.type = "ramp"
         /\ IF opts.dryRun THEN p.kind = "START" ELSE NextRow(T, p, producers)
         /\ pc # "ramp" => producers <= T.max
    /\ pc \in {"down", "end"} =>
         \/ T.type = "fixed" /\ p.kind = "START"
         \/ T.type = "ramp" /\ \/ p.kind = "ABORT"
                               \/ opts.dryRun /\ p.kind = "START"
                               \/ NextRow(T, p, producers) /\ producers > T.max

ChainInv ==
    /\ Chained(log)
    /\ pc \in Inside \cup {"end"} => Len(log) \in DOMAIN log /\ Place(LastLine)

\* A line that follows the last one keeps the lines chained.
LEMMA ChainAppend ==
  ASSUME NEW l \in Seq(LineType), Chained(l), NEW x \in LineType,
         x.kind \in TestLines => /\ Len(l) \in DOMAIN l
                                 /\ \E k \in 1..Len(Plan) : Follows(Plan[k], l[Len(l)], x)
  PROVE  /\ Chained(Append(l, x))
         /\ Len(Append(l, x)) \in DOMAIN Append(l, x)
         /\ Append(l, x)[Len(Append(l, x))] = x
<1> DEFINE m == Append(l, x)
<1>1. /\ Len(l) \in Nat /\ Len(m) = Len(l) + 1 /\ m[Len(l) + 1] = x
      /\ DOMAIN l = 1..Len(l) /\ DOMAIN m = 1..(Len(l) + 1)
      /\ \A i \in DOMAIN l : m[i] = l[i]
      /\ \A i \in DOMAIN m : i \in DOMAIN l \/ i = Len(l) + 1
  BY AppendLine
<1> HIDE DEF m
<1>2. ASSUME NEW i \in DOMAIN m, m[i].kind \in TestLines
      PROVE  i - 1 \in DOMAIN m /\ \E k \in 1..Len(Plan) : Follows(Plan[k], m[i - 1], m[i])
  <2>1. CASE i \in DOMAIN l
    <3>1. m[i] = l[i]
      BY <1>1, <2>1
    <3>2. i - 1 \in DOMAIN l /\ \E k \in 1..Len(Plan) : Follows(Plan[k], l[i - 1], l[i])
      BY <1>2, <2>1, <3>1 DEF Chained
    <3>3. m[i - 1] = l[i - 1] /\ i - 1 \in DOMAIN m
      BY <1>1, <3>2
    <3> QED
      BY <3>1, <3>2, <3>3
  <2>2. CASE i = Len(l) + 1
    <3>1. m[i] = x /\ i - 1 = Len(l)
      BY <1>1, <2>2
    <3>2. Len(l) \in DOMAIN l /\ \E k \in 1..Len(Plan) : Follows(Plan[k], l[Len(l)], x)
      BY <1>2, <3>1
    <3>3. m[Len(l)] = l[Len(l)] /\ Len(l) \in DOMAIN m
      BY <1>1, <3>2
    <3> QED
      BY <3>1, <3>2, <3>3
  <2> QED
    BY <1>1, <1>2, <2>1, <2>2
<1>3. Len(m) \in DOMAIN m /\ m[Len(m)] = x
  BY <1>1
<1> QED
  BY <1>2, <1>3 DEF Chained, m

\* A step that writes nothing.
LEMMA ChainStays ==
  ASSUME ChainInv, log' = log,
         pc' \in Inside \cup {"end"} =>
           pc \in Inside \cup {"end"} /\ (Place(LastLine) => Place(LastLine)')
  PROVE  ChainInv'
BY DEF ChainInv, Chained, LastLine

\* The script writes the line k of the current test.
LEMMA ChainWrites ==
  ASSUME TypeOK, NEW l \in Seq(LineType), Chained(l),
         test \in 1..Len(Plan), NEW k \in Kinds, NEW n \in Nat,
         k \in TestLines => /\ Len(l) \in DOMAIN l
                            /\ Follows(T, l[Len(l)], Line(k, T.name, n))
  PROVE  LET m == Append(l, Line(k, T.name, n))
         IN  /\ m \in Seq(LineType) /\ Chained(m)
             /\ Len(m) \in DOMAIN m /\ m[Len(m)] = Line(k, T.name, n)
<1> DEFINE x == Line(k, T.name, n)
           m == Append(l, x)
<1>1. x \in LineType /\ x.kind = k
  <2>1. x \in LineType
    BY TestFields, LineOfType
  <2> QED
    BY <2>1 DEF Line
<1>2. x.kind \in TestLines => /\ Len(l) \in DOMAIN l
                              /\ \E j \in 1..Len(Plan) : Follows(Plan[j], l[Len(l)], x)
  BY <1>1 DEF T
<1> HIDE DEF x
<1>3. Chained(m) /\ Len(m) \in DOMAIN m /\ m[Len(m)] = x
  BY <1>1, <1>2, ChainAppend
<1>4. m \in Seq(LineType)
  BY <1>1, AppendLine
<1> QED
  BY <1>3, <1>4 DEF x

\* The line at the end of a suite is of no test.
LEMMA CompletesPlainly ==
  ASSUME TypeOK, CompleteSuite
  PROVE  \E x \in LineType : log' = Append(log, x) /\ x.kind \notin TestLines
<1>1. log' = Append(log, Line("complete", "", 0))
  BY Zenon DEF CompleteSuite
<1>2. "complete" \notin TestLines
  BY DEF TestLines
<1>3. Line("complete", "", 0).kind \notin TestLines
  BY <1>2, Zenon DEF Line
<1> QED
  BY <1>1, <1>3, CompleteLine, Zenon

\* Nor is the line at its head.
LEMMA InvokesPlainly ==
  ASSUME NEW o \in Options, Invoke(o), invocation \in Nat
  PROVE  \E x \in LineType : /\ log' = Append(log, x) /\ x.kind = "suite"
                             /\ x.kind \notin TestLines
<1> DEFINE x == [kind |-> "suite", name |-> "", n |-> 0, dry |-> o.dryRun, run |-> invocation + 1]
<1>1. log' = Append(log, x)
  BY Zenon DEF Invoke
<1>2. "suite" \notin TestLines /\ "suite" \in Kinds /\ 0 \in Nat /\ invocation + 1 \in Nat
  BY DEF TestLines, Kinds
<1>3. o.dryRun \in BOOLEAN
  BY OptionsAssumption, Zenon
<1>4. x \in LineType
  BY <1>2, <1>3, BlankText, Zenon DEF LineType
<1>5. x.kind = "suite" /\ x.kind \notin TestLines
  BY <1>2, Zenon
<1> QED
  BY <1>1, <1>4, <1>5, Zenon

\* A step keeps the lines of every test chained.
LEMMA ChainStep ==
  ASSUME TypeOK, InTest, LogInv, ChainInv, [Next]_vars
  PROVE  ChainInv'
<1> USE DEF Inside, Ramping, history
<1>0. log \in Seq(LineType) /\ producers \in Nat /\ Chained(log)
  BY DEF LogInv, TypeOK, ChainInv
<1>p. pc \in Inside \cup {"end"} => Len(log) \in DOMAIN log /\ Place(LastLine)
  BY DEF ChainInv
<1>w. ASSUME log' \in Seq(LineType), Chained(log'), Len(log') \in DOMAIN log',
             pc' \in Inside \cup {"end"} => Place(LastLine)'
      PROVE  ChainInv'
  BY <1>w DEF ChainInv, Chained
<1>1. ASSUME NEW o \in Options, Invoke(o) PROVE ChainInv'
  <2>1. pc' = "monitoring" /\ invocation \in Nat
    BY <1>1, InvocationType, Zenon DEF Invoke
  <2>2. PICK x \in LineType : log' = Append(log, x) /\ x.kind \notin TestLines
    BY <1>1, <2>1, InvokesPlainly, Zenon
  <2>3. Chained(log') /\ Len(log') \in DOMAIN log'
    BY <1>0, <2>2, ChainAppend
  <2>4. log' \in Seq(LineType)
    BY <1>0, <2>2, AppendLine
  <2> QED
    BY <1>w, <2>1, <2>3, <2>4
<1>2. CASE StartMonitoring \/ StartCadvisor
  BY <1>2, ChainStays DEF StartMonitoring, StartCadvisor, Compose, Fail
<1>3. CASE AwaitPrometheus
  BY <1>3, ChainStays DEF AwaitPrometheus, Goto, Fail
<1>4. CASE SkipTest \/ Cooldown
  BY <1>4, ChainStays DEF SkipTest, Cooldown, Fail
<1>5. CASE RampStep
  BY <1>5, ChainStays DEF RampStep, Goto, Place, LastLine, T
<1>6. CASE BeginTest
  <2>1. /\ test \in 1..Len(Plan) /\ log' = Append(log, Line("START", T.name, T.initial))
        /\ UNCHANGED <<opts, test, invocation>> /\ producers' = T.initial
        /\ \/ T.type = "fixed" /\ pc' = "fixed_up"
           \/ T.type = "ramp" /\ pc' = "ramp"
    BY <1>6, PlanLength DEF BeginTest, TypeOK
  <2>2. /\ log' \in Seq(LineType) /\ Chained(log') /\ Len(log') \in DOMAIN log'
        /\ log'[Len(log')] = Line("START", T.name, T.initial)
    <3>1. "START" \in Kinds /\ "START" \notin TestLines /\ T.initial \in Nat
      BY <2>1, TestFields DEF Kinds, TestLines
    <3> QED
      BY <1>0, <2>1, <3>1, ChainWrites
  <2>3. Place(LastLine)'
    BY <2>1, <2>2 DEF Place, LastLine, T, Line, NextRow
  <2> QED
    BY <1>w, <2>2, <2>3
<1>7. CASE RunFixed \/ RunStep
  BY <1>7, ChainStays DEF RunFixed, RunStep, BringUp, Compose, Fail, Place, LastLine, T
<1>8. CASE TearDown
  BY <1>8, ChainStays DEF TearDown, Compose, Fail, Place, LastLine, T
<1>9. CASE QueryFails \/ BrokerDies
  BY <1>9, ChainStays DEF QueryFails, Fail, BrokerDies, Place, LastLine, T
<1>10. CASE PrintStep
  BY <1>10, ChainStays DEF PrintStep, Place, LastLine, T
<1>11. CASE EndTest
  <2>1. /\ test \in 1..Len(Plan) /\ log' = Append(log, Line("END", T.name, producers))
        /\ pc = "end" /\ pc' \in {"cooldown", "next"}
    BY <1>11 DEF EndTest, Write, InTest
  <2>2. Len(log) \in DOMAIN log /\ Follows(T, log[Len(log)], Line("END", T.name, producers))
    BY <1>p, <2>1 DEF Place, LastLine, Follows, Line, SameTest
  <2>3. "END" \in Kinds
    BY DEF Kinds
  <2>4. log' \in Seq(LineType) /\ Chained(log') /\ Len(log') \in DOMAIN log'
    BY <1>0, <2>1, <2>2, <2>3, ChainWrites
  <2> QED
    BY <1>w, <2>1, <2>4
<1>12. CASE CheckBroker
  <2>1. CASE log' = log
    <3>1. pc' \in {"query", "down"} /\ UNCHANGED <<opts, test, producers, invocation>> /\ pc = "observe"
      BY <1>12 DEF CheckBroker
    <3>2. pc' = "query"
      <4>1. CASE Write("ABORT")
        <5>1. log' = Append(log, Line("ABORT", T.name, producers)) /\ Len(log) \in Nat
          BY <1>0, <4>1 DEF Write
        <5>2. Len(Append(log, Line("ABORT", T.name, producers))) = Len(log) + 1
          <6>1. Line("ABORT", T.name, producers) \in LineType
            BY <1>0, <3>1, TestFields, LineOfType DEF Kinds, InTest
          <6> QED
            BY <1>0, <6>1, AppendLine
        <5> QED
          BY <2>1, <5>1, <5>2
      <4> QED
        BY <1>12, <4>1 DEF CheckBroker
    <3> QED
      BY <2>1, <3>1, <3>2, ChainStays DEF Place, LastLine, T
  <2>2. CASE log' = Append(log, Line("ABORT", T.name, producers)) /\ pc' = "down"
    <3>1. /\ test \in 1..Len(Plan) /\ UNCHANGED <<opts, test, producers, invocation>>
          /\ pc = "observe" /\ ~opts.dryRun
      BY <1>12 DEF CheckBroker, InTest
    <3>2. Len(log) \in DOMAIN log /\ Follows(T, log[Len(log)], Line("ABORT", T.name, producers))
      BY <1>p, <3>1 DEF Place, LastLine, Follows, Line, SameTest
    <3>3. "ABORT" \in Kinds
      BY DEF Kinds
    <3>4. /\ log' \in Seq(LineType) /\ Chained(log') /\ Len(log') \in DOMAIN log'
          /\ log'[Len(log')] = Line("ABORT", T.name, producers)
      BY <1>0, <2>2, <3>1, <3>2, <3>3, ChainWrites
    <3>5. Place(LastLine)'
      BY <1>p, <2>2, <3>1, <3>4 DEF Place, LastLine, T, Line
    <3> QED
      BY <1>w, <3>4, <3>5
  <2> QED
    BY <1>12, <2>1, <2>2 DEF CheckBroker, Write
<1>13. ASSUME NEW tp \in Throughputs, NEW degraded \in BOOLEAN, Evaluate(tp, degraded)
       PROVE  ChainInv'
  <2> DEFINE row == Append(log, Line("RAMP", T.name, producers))
  <2>1. /\ \/ log' = row /\ pc' = "ramp" /\ producers' = producers + T.step
           \/ log' = Append(row, Line("ABORT", T.name, producers)) /\ pc' = "down"
        /\ test \in 1..Len(Plan) /\ UNCHANGED <<opts, test, invocation>>
        /\ pc = "query" /\ ~opts.dryRun
    BY <1>13 DEF Evaluate, InTest, LogInv
  <2>2. Place(LastLine) /\ Len(log) \in DOMAIN log
    BY <1>p, <2>1
  <2>3. "RAMP" \in Kinds /\ "ABORT" \in Kinds
    BY DEF Kinds
  <2>4. Follows(T, log[Len(log)], Line("RAMP", T.name, producers))
    BY <2>1, <2>2 DEF Place, LastLine, Follows, Line, SameTest
  <2>5. /\ row \in Seq(LineType) /\ Chained(row) /\ Len(row) \in DOMAIN row
        /\ row[Len(row)] = Line("RAMP", T.name, producers)
    BY <1>0, <2>1, <2>2, <2>3, <2>4, ChainWrites
  <2> HIDE DEF row
  <2>6. CASE log' = row /\ pc' = "ramp" /\ producers' = producers + T.step
    <3>1. Place(LastLine)'
      BY <2>1, <2>2, <2>5, <2>6 DEF Place, LastLine, T, Line, NextRow
    <3> QED
      BY <1>w, <2>5, <2>6, <3>1
  <2>7. CASE log' = Append(row, Line("ABORT", T.name, producers)) /\ pc' = "down"
    <3>1. Follows(T, row[Len(row)], Line("ABORT", T.name, producers))
      BY <2>5 DEF Follows, Line, SameTest
    <3>2. /\ log' \in Seq(LineType) /\ Chained(log') /\ Len(log') \in DOMAIN log'
          /\ log'[Len(log')] = Line("ABORT", T.name, producers)
      BY <1>0, <2>1, <2>3, <2>5, <2>7, <3>1, ChainWrites
    <3>3. Place(LastLine)'
      BY <2>1, <2>2, <2>7, <3>2 DEF Place, LastLine, T, Line
    <3> QED
      BY <1>w, <3>2, <3>3
  <2> QED
    BY <2>1, <2>6, <2>7
<1>14. CASE CompleteSuite
  <2>1. pc' = "stop"
    BY <1>14, Zenon DEF CompleteSuite
  <2>2. PICK x \in LineType : log' = Append(log, x) /\ x.kind \notin TestLines
    BY <1>14, CompletesPlainly, Zenon
  <2>3. Chained(log') /\ Len(log') \in DOMAIN log'
    BY <1>0, <2>2, ChainAppend
  <2>4. log' \in Seq(LineType)
    BY <1>0, <2>2, AppendLine
  <2> QED
    BY <1>w, <2>1, <2>3, <2>4
<1>15. CASE StopMonitoring("stop", "completed") \/ StopMonitoring("trap_stop", "signalled")
  BY <1>15, ChainStays DEF StopMonitoring, Compose, Goto, Fail
<1>16. CASE TearDownAll \/ Signal
  BY <1>16, ChainStays DEF TearDownAll, Signal, Goto
<1>17. CASE UNCHANGED vars
  BY <1>17, ChainStays DEF vars, Place, LastLine, T
<1> QED
  BY <1>1, <1>2, <1>3, <1>4, <1>5, <1>6, <1>7, <1>8, <1>9, <1>10, <1>11, <1>12,
     <1>13, <1>14, <1>15, <1>16, <1>17
  DEF Next, ScriptNext

\* A ladder: the numbers from a on, s apart, up to m.
Ladder(a, s, m) == {n \in a..m : \E j \in Nat : n = a + j * s}

\* What a set of rows is like if each is the first one or s above another.
Climbs(R, a, s, m) ==
    \A n \in R : n \in Nat /\ n <= m /\ (n = a \/ \E p \in R : n = p + s)

\* Rungs in the order of their numbers.
LEMMA RungsInOrder ==
  ASSUME NEW s \in Nat \ {0}, NEW i \in Nat, NEW j \in Nat, i * s < j * s + s
  PROVE  i <= j
<1> SUFFICES ASSUME i > j PROVE FALSE
  OBVIOUS
<1>1. PICK d \in Nat : i = j + 1 + d
  <2>1. i - j - 1 \in Nat /\ i = j + 1 + (i - j - 1)
    OBVIOUS
  <2> QED
    BY <2>1
<1>2. i * s = j * s + s + d * s
  BY <1>1
<1>3. d * s \in Nat /\ j * s \in Nat
  OBVIOUS
<1> QED
  BY <1>2, <1>3

\* Such rows are rungs of the ladder, and with a row all rungs below it are rows.
LEMMA RowsAreRungs ==
  ASSUME NEW a \in Nat, NEW s \in Nat \ {0}, NEW m \in Nat, NEW R, Climbs(R, a, s, m)
  PROVE  /\ R \subseteq Ladder(a, s, m)
         /\ \A n \in R : \A x \in Ladder(a, s, m) : x <= n => x \in R
<1>1. R \subseteq Ladder(a, s, m)
  <2> DEFINE B == {n \in R : n \notin Ladder(a, s, m)}
  <2> SUFFICES ASSUME B # {} PROVE FALSE
    OBVIOUS
  <2>1. B \subseteq Nat
    BY DEF Climbs
  <2> HIDE DEF B
  <2>2. PICK n \in B : \A k \in B : n <= k
    BY <2>1, LeastExists
  <2> USE DEF B
  <2>3. n \in R /\ n \in Nat /\ n <= m /\ n \notin Ladder(a, s, m)
    BY DEF Climbs
  <2>4. n # a
    <3>1. a = a + 0 * s
      OBVIOUS
    <3> QED
      BY <2>3, <3>1 DEF Ladder
  <2>5. PICK p \in R : n = p + s
    BY <2>3, <2>4 DEF Climbs
  <2>6. p \in Nat /\ p < n
    BY <2>5 DEF Climbs
  <2>7. p \in Ladder(a, s, m)
    BY <2>2, <2>3, <2>5, <2>6
  <2>8. PICK j \in Nat : p = a + j * s
    BY <2>7 DEF Ladder
  <2>9. n = a + (j + 1) * s
    BY <2>5, <2>8
  <2>10. n \in a..m
    BY <2>3, <2>6, <2>7 DEF Ladder
  <2> QED
    BY <2>3, <2>9, <2>10 DEF Ladder
<1>2. \A n \in R : \A x \in Ladder(a, s, m) : x <= n => x \in R
  <2> DEFINE B == {n \in R : \E x \in Ladder(a, s, m) : x <= n /\ x \notin R}
  <2> SUFFICES ASSUME B # {} PROVE FALSE
    OBVIOUS
  <2>1. B \subseteq Nat
    BY DEF Climbs
  <2> HIDE DEF B
  <2>2. PICK n \in B : \A k \in B : n <= k
    BY <2>1, LeastExists
  <2> USE DEF B
  <2>3. n \in R /\ n \in Nat
    BY DEF Climbs
  <2>4. PICK x \in Ladder(a, s, m) : x <= n /\ x \notin R
    OBVIOUS
  <2>5. x \in Nat /\ a <= x /\ x < n
    BY <2>3, <2>4 DEF Ladder
  <2>6. PICK p \in R : n = p + s
    BY <2>3, <2>5 DEF Climbs
  <2>7. p \in Nat /\ p < n
    BY <2>6 DEF Climbs
  <2>8. p \notin B
    BY <2>2, <2>3, <2>7
  <2>9. PICK i \in Nat : x = a + i * s
    BY DEF Ladder
  <2>10. PICK j \in Nat : p = a + j * s
    BY <1>1 DEF Ladder
  <2>11. i * s \in Nat /\ j * s \in Nat
    OBVIOUS
  <2>12. i * s < j * s + s
    BY <2>5, <2>6, <2>9, <2>10, <2>11
  <2>13. i <= j
    BY <2>12, RungsInOrder
  <2>14. i * s <= j * s
    <3>1. j - i \in Nat /\ j * s = i * s + (j - i) * s
      BY <2>13
    <3>2. (j - i) * s \in Nat
      BY <3>1
    <3> QED
      BY <2>11, <3>1, <3>2
  <2>15. x <= p
    BY <2>9, <2>10, <2>11, <2>14
  <2> QED
    BY <2>4, <2>8, <2>15
<1> QED
  BY <1>1, <1>2

\* Below a last row that no row of the ladder follows, all of the ladder is rows.
LEMMA LadderIsWhole ==
  ASSUME NEW a \in Nat, NEW s \in Nat \ {0}, NEW m \in Nat, NEW R, Climbs(R, a, s, m),
         a > m \/ \E n \in R : n + s > m
  PROVE  R = Ladder(a, s, m)
<1>1. R \subseteq Ladder(a, s, m)
  BY RowsAreRungs
<1>2. ASSUME a > m PROVE Ladder(a, s, m) \subseteq R
  <2>1. a..m = {}
    BY <1>2
  <2> QED
    BY <2>1 DEF Ladder
<1>3. ASSUME NEW n \in R, n + s > m PROVE Ladder(a, s, m) \subseteq R
  <2> SUFFICES ASSUME NEW x \in Ladder(a, s, m) PROVE x \in R
    OBVIOUS
  <2>1. PICK i \in Nat : x = a + i * s
    BY DEF Ladder
  <2>2. PICK j \in Nat : n = a + j * s
    BY <1>1 DEF Ladder
  <2>3. x \in Nat /\ n \in Nat /\ x <= m
    BY <1>1 DEF Ladder
  <2>4. i * s \in Nat /\ j * s \in Nat
    OBVIOUS
  <2>5. i * s < j * s + s
    BY <1>3, <2>1, <2>2, <2>3, <2>4
  <2>6. i <= j
    BY <2>5, RungsInOrder
  <2>7. j * s = i * s + (j - i) * s /\ (j - i) * s \in Nat
    <3>1. j - i \in Nat
      BY <2>6
    <3> QED
      BY <3>1
  <2>8. x <= n
    BY <2>1, <2>2, <2>4, <2>7
  <2> QED
    BY <2>8, RowsAreRungs
<1> QED
  BY <1>1, <1>2, <1>3

\* In the lines of the report, what stands before a line of a test.
LEMMA BeforeTestLine ==
  ASSUME DistinctNames, log \in Seq(LineType), Chained(log), NEW k \in 1..Len(Plan),
         NEW i \in SuiteLines, log[i].kind \in TestLines, log[i].name = Plan[k].name
  PROVE  /\ i - 1 \in SuiteLines /\ log[i - 1].name = Plan[k].name
         /\ Follows(Plan[k], log[i - 1], log[i])
<1>1. /\ RealHead \in DOMAIN log /\ log[RealHead].kind = "suite" /\ i \in DOMAIN log
      /\ RealHead <= i /\ SuiteLines = {j \in DOMAIN log : RealHead <= j}
  BY RealHeadIs
<1>2. i - 1 \in DOMAIN log
  BY <1>1 DEF Chained
<1>3. PICK j \in 1..Len(Plan) : Follows(Plan[j], log[i - 1], log[i])
  BY <1>1 DEF Chained
<1>4. j = k
  BY <1>3 DEF DistinctNames, Follows
<1>5. RealHead # i
  BY <1>1 DEF TestLines
<1>6. i \in Int /\ RealHead \in Int
  BY <1>1
<1>7. RealHead <= i - 1
  BY <1>1, <1>5, <1>6
<1> QED
  BY <1>1, <1>2, <1>3, <1>4, <1>7 DEF Follows, SameTest

\* The rows of a ramp in the report climb from its initial producers on.
LEMMA RowsClimb ==
  ASSUME DistinctNames, log \in Seq(LineType), Chained(log), NEW k \in 1..Len(Plan)
  PROVE  Climbs(Rows(Plan[k].name, SuiteLines), Plan[k].initial, Plan[k].step, Plan[k].max)
<1> DEFINE rows == Rows(Plan[k].name, SuiteLines)
<1> SUFFICES ASSUME NEW n \in rows
             PROVE  /\ n \in Nat /\ n <= Plan[k].max
                    /\ n = Plan[k].initial \/ \E p \in rows : n = p + Plan[k].step
  BY DEF Climbs
<1>1. PICK i \in SuiteLines : log[i].kind = "RAMP" /\ log[i].name = Plan[k].name /\ n = log[i].n
  BY DEF Rows, Of
<1>2. /\ i - 1 \in SuiteLines /\ log[i - 1].name = Plan[k].name
      /\ Follows(Plan[k], log[i - 1], log[i])
  BY <1>1, BeforeTestLine DEF TestLines
<1>3. n \in Nat
  BY <1>1, RealHeadIs, LineFields
<1>4. n <= Plan[k].max /\ NextRow(Plan[k], log[i - 1], n)
  BY <1>1, <1>2 DEF Follows
<1>5. CASE log[i - 1].kind = "START"
  BY <1>3, <1>4, <1>5 DEF NextRow
<1>6. CASE log[i - 1].kind = "RAMP" /\ n = log[i - 1].n + Plan[k].step
  <2>1. log[i - 1].n \in rows
    BY <1>2, <1>6 DEF Rows, Of
  <2> QED
    BY <1>3, <1>4, <1>6, <2>1
<1> QED
  BY <1>4, <1>5, <1>6 DEF NextRow

\* The steps of a ramp: the producers that its bounds give it.
StepsOf(t) == Ladder(t.initial, t.step, t.max)

\* In the report, the rows of a ramp are steps of it, without a gap from the
\* first one on; and they are all its steps, when it came to its end in a real
\* run and was not aborted.
RowsHaveNoGap ==
    \A k \in 1..Len(Plan) :
      LET rows == Rows(Plan[k].name, SuiteLines)
      IN  Plan[k].type = "ramp" =>
            /\ rows \subseteq StepsOf(Plan[k])
            /\ \A n \in rows : \A x \in StepsOf(Plan[k]) : x <= n => x \in rows
RampTableIsWhole ==
    \A k \in 1..Len(Plan) :
      /\ Plan[k].type = "ramp"
      /\ \E e \in Of("END", Plan[k].name, SuiteLines) : ~log[e].dry
      /\ Of("ABORT", Plan[k].name, SuiteLines) = {}
      => Rows(Plan[k].name, SuiteLines) = StepsOf(Plan[k])

\* The lines of a test follow one another, whoever interrupts the script.
LEMMA LinesAreChained == Spec => []ChainInv
<1>1. Init => ChainInv
  BY DEF Init, ChainInv, Chained, Inside
<1>2. TypeOK /\ InTest /\ LogInv /\ ChainInv /\ [Next]_vars => ChainInv'
  BY ChainStep
<1> QED
  BY <1>1, <1>2, Typing, LogInvariant, PTL DEF Spec

\* What the fields of a test are.
LEMMA RampFields ==
  ASSUME NEW k \in 1..Len(Plan)
  PROVE  Plan[k].initial \in Nat /\ Plan[k].max \in Nat /\ Plan[k].step \in Nat \ {0}
<1>1. Plan[k] \in TestSpecs
  BY PlanAssumption
<1> QED
  BY <1>1 DEF TestSpecs

\* The table of a ramp has no gap: run_ramp_test logs every step that it
\* evaluates, in the order of their producers, and the report reads the rows of
\* one run of the test only.
THEOREM RampHasNoGap == DistinctNames => (Spec => []RowsHaveNoGap)
<1> SUFFICES ASSUME DistinctNames PROVE Spec => []RowsHaveNoGap
  OBVIOUS
<1>1. LogInv /\ ChainInv => RowsHaveNoGap
  <2> SUFFICES ASSUME LogInv, ChainInv, NEW k \in 1..Len(Plan)
               PROVE  LET rows == Rows(Plan[k].name, SuiteLines)
                      IN  /\ rows \subseteq StepsOf(Plan[k])
                          /\ \A n \in rows : \A x \in StepsOf(Plan[k]) : x <= n => x \in rows
    BY DEF RowsHaveNoGap
  <2>1. Climbs(Rows(Plan[k].name, SuiteLines), Plan[k].initial, Plan[k].step, Plan[k].max)
    BY RowsClimb DEF LogInv, ChainInv
  <2> QED
    BY <2>1, RampFields, RowsAreRungs DEF StepsOf
<1> QED
  BY <1>1, LinesAreChained, LogInvariant, PTL

\* A ramp that the report shows without an abort, and that came to its end, has
\* a row for each step up to its maximum.
THEOREM RampIsWhole == DistinctNames => (Spec => []RampTableIsWhole)
<1> SUFFICES ASSUME DistinctNames PROVE Spec => []RampTableIsWhole
  OBVIOUS
<1>1. LogInv /\ ChainInv => RampTableIsWhole
  <2> SUFFICES ASSUME LogInv, ChainInv, NEW k \in 1..Len(Plan), Plan[k].type = "ramp",
                      NEW e \in Of("END", Plan[k].name, SuiteLines), ~log[e].dry,
                      Of("ABORT", Plan[k].name, SuiteLines) = {}
               PROVE  Rows(Plan[k].name, SuiteLines) = StepsOf(Plan[k])
    BY DEF RampTableIsWhole
  <2> DEFINE rows == Rows(Plan[k].name, SuiteLines)
             p == log[e - 1]
  <2>1. Climbs(rows, Plan[k].initial, Plan[k].step, Plan[k].max)
    BY RowsClimb DEF LogInv, ChainInv
  <2>2. e \in SuiteLines /\ log[e].kind = "END" /\ log[e].name = Plan[k].name
    BY DEF Of
  <2>3. e - 1 \in SuiteLines /\ p.name = Plan[k].name /\ Follows(Plan[k], p, log[e])
    BY <2>2, BeforeTestLine DEF LogInv, ChainInv, TestLines
  <2>4. p.kind # "ABORT"
    BY <2>3 DEF Of
  <2>5. NextRow(Plan[k], p, log[e].n) /\ log[e].n > Plan[k].max
    BY <2>2, <2>3, <2>4 DEF Follows
  <2>6. Plan[k].initial > Plan[k].max \/ \E n \in rows : n + Plan[k].step > Plan[k].max
    <3>1. p.kind = "RAMP" => p.n \in rows
      BY <2>3 DEF Rows, Of
    <3> QED
      BY <2>5, <3>1 DEF NextRow
  <2> QED
    BY <2>1, <2>6, RampFields, LadderIsWhole DEF StepsOf
<1> QED
  BY <1>1, LinesAreChained, LogInvariant, PTL
-----------------------------------------------------------------------------
(* An invocation comes to its end. *)

\* How far the script is: the part of it, the test, the stage of the test, the
\* producers of a ramp, and the commands of one step of it.
Opening == {"monitoring", "ready", "cadvisor"}
Part == CASE pc \in Opening -> 0
          [] pc \in {"next", "down", "end", "cooldown", "fixed_up"} \cup Ramping -> 1
          [] pc = "stop" -> 2
          [] pc = "trap" -> 3
          [] pc = "trap_stop" -> 4
          [] OTHER -> 5
Stage == CASE pc \in {"fixed_up", "ready"} \cup Ramping -> 1
           [] pc \in {"down", "cadvisor"} -> 2
           [] pc = "end" -> 3
           [] pc = "cooldown" -> 4
           [] OTHER -> 0
Rank == CASE pc = "ramp_up" -> 1
          [] pc = "observe" -> 2
          [] pc = "query" -> 3
          [] OTHER -> 0

\* A step gets the script further: it is in a later part; or at a later test; or
\* at a later stage of it; or has more producers; or has run the next command.
Further ==
    \/ Part < Part'
    \/ Part = Part' /\ \/ test < test'
                       \/ test = test' /\ \/ Stage < Stage'
                                          \/ Stage = Stage' /\ \/ producers < producers'
                                                               \/ producers = producers' /\ Rank < Rank'

\* No command of the script, and no signal, takes it back to where it has been.
NeverGoesBack == [][Further \/ (\E o \in Options : Invoke(o)) \/ BrokerDies]_vars

\* And there is an end to where it can get: the tests of the plan, and the
\* maximum of a ramp.
WithinBounds ==
    /\ pc \in Running => test <= Len(Plan) + 1
    /\ pc \in Ramping \ {"ramp"} => producers <= T.max
    /\ pc = "ramp" => producers = T.initial \/ producers <= T.max + T.step

\* A command of the script gets it further, and so does a signal.
LEMMA FurtherStep ==
  ASSUME TypeOK, InTest, [Next]_vars, ~UNCHANGED vars
  PROVE  Further \/ (\E o \in Options : Invoke(o)) \/ BrokerDies
<1> USE DEF Ramping, Opening, Part, Stage, Rank, Further, history
<1>t. test \in Nat /\ producers \in Nat
  BY PlanLength DEF TypeOK
<1>1. CASE StartMonitoring \/ StartCadvisor
  BY <1>1 DEF StartMonitoring, StartCadvisor, Compose, Fail
<1>2. CASE AwaitPrometheus
  BY <1>2 DEF AwaitPrometheus, Goto, Fail
<1>3. CASE SkipTest \/ Cooldown
  BY <1>3, <1>t DEF SkipTest, Cooldown, Fail
<1>4. CASE BeginTest
  BY <1>4 DEF BeginTest
<1>5. CASE RunFixed \/ RunStep
  BY <1>5 DEF RunFixed, RunStep, BringUp, Compose, Fail
<1>6. CASE TearDown \/ QueryFails
  BY <1>6 DEF TearDown, Compose, Fail, QueryFails
<1>7. CASE EndTest
  BY <1>7, <1>t DEF EndTest
<1>8. CASE RampStep
  BY <1>8 DEF RampStep, Goto
<1>9. CASE PrintStep
  <2>1. T.step \in Nat /\ T.step # 0
    BY <1>9, StepPositive DEF InTest, Inside, PrintStep
  <2> QED
    BY <1>9, <1>t, <2>1 DEF PrintStep
<1>10. CASE CheckBroker
  BY <1>10 DEF CheckBroker
<1>11. ASSUME NEW tp \in Throughputs, NEW degraded \in BOOLEAN, Evaluate(tp, degraded)
       PROVE  Further
  <2>1. T.step \in Nat /\ T.step # 0
    BY <1>11, StepPositive DEF InTest, Inside, Evaluate
  <2>2. /\ pc = "query" /\ test' = test
        /\ \/ pc' = "down"
           \/ pc' = "ramp" /\ producers' = producers + T.step
    BY <1>11 DEF Evaluate
  <2> QED
    BY <1>t, <2>1, <2>2
<1>12. CASE CompleteSuite
  <2>1. pc = "next" /\ pc' = "stop"
    BY <1>12, Zenon DEF CompleteSuite
  <2> QED
    BY <2>1
<1>13. CASE StopMonitoring("stop", "completed") \/ StopMonitoring("trap_stop", "signalled")
  BY <1>13 DEF StopMonitoring, Compose, Goto, Fail
<1>14. CASE TearDownAll
  BY <1>14 DEF TearDownAll
<1>15. CASE Signal
  BY <1>15 DEF Signal, Goto, Running
<1> QED
  BY <1>1, <1>2, <1>3, <1>4, <1>5, <1>6, <1>7, <1>8, <1>9, <1>10, <1>11, <1>12,
     <1>13, <1>14, <1>15
  DEF Next, ScriptNext

\* Each command of an invocation takes the script further in its plan: no test is
\* run again, and no step of a ramp, so only finitely many commands are left.
THEOREM InvocationGoesForward == Spec => NeverGoesBack
<1>1. TypeOK /\ InTest /\ [Next]_vars
        => [Further \/ (\E o \in Options : Invoke(o)) \/ BrokerDies]_vars
  BY FurtherStep
<1> QED
  BY <1>1, Typing, PTL DEF Spec, NeverGoesBack

\* A step keeps the script within its plan.
LEMMA BoundsStep ==
  ASSUME TypeOK, InTest, WithinBounds, [Next]_vars, TypeOK'
  PROVE  WithinBounds'
<1> SUFFICES /\ pc' \in Ramping \ {"ramp"} => producers' <= T'.max
             /\ pc' = "ramp" => producers' = T'.initial \/ producers' <= T'.max + T'.step
  BY PlanLength DEF WithinBounds, TypeOK
<1> USE DEF Ramping, history
<1>t. producers \in Nat /\ (pc \in Ramping => T.max \in Nat /\ T.step \in Nat)
  <2>1. producers \in Nat
    BY DEF TypeOK
  <2>2. ASSUME pc \in Ramping PROVE T.max \in Nat /\ T.step \in Nat
    BY <2>2, RampFields DEF InTest, Inside, T
  <2> QED
    BY <2>1, <2>2
<1>b. /\ pc \in Ramping \ {"ramp"} => producers <= T.max
      /\ pc = "ramp" => producers = T.initial \/ producers <= T.max + T.step
  BY DEF WithinBounds
<1>1. CASE pc' \notin Ramping
  BY <1>1
<1>2. CASE UNCHANGED <<test, producers>> /\ pc' = pc
  BY <1>2, <1>b DEF T
<1>3. CASE BeginTest
  BY <1>3 DEF BeginTest, T
<1>4. CASE RampStep
  BY <1>4, <1>b DEF RampStep, Goto, T
<1>5. CASE RunStep
  BY <1>5, <1>b DEF RunStep, BringUp, Compose, Fail, T
<1>6. CASE PrintStep
  BY <1>6, <1>b, <1>t DEF PrintStep, T
<1>7. CASE CheckBroker
  BY <1>7, <1>b DEF CheckBroker, T
<1>8. ASSUME NEW tp \in Throughputs, NEW degraded \in BOOLEAN, Evaluate(tp, degraded)
      PROVE  /\ pc' \in Ramping \ {"ramp"} => producers' <= T'.max
             /\ pc' = "ramp" => producers' = T'.initial \/ producers' <= T'.max + T'.step
  <2>1. /\ pc = "query" /\ test' = test
        /\ \/ pc' = "down"
           \/ pc' = "ramp" /\ producers' = producers + T.step
    BY <1>8 DEF Evaluate
  <2> QED
    BY <1>b, <1>t, <2>1 DEF T
<1>9. CASE \/ StartMonitoring \/ StartCadvisor \/ AwaitPrometheus \/ SkipTest \/ Cooldown
           \/ RunFixed \/ TearDown \/ EndTest \/ QueryFails \/ TearDownAll \/ Signal
           \/ StopMonitoring("stop", "completed") \/ StopMonitoring("trap_stop", "signalled")
           \/ CompleteSuite \/ \E o \in Options : Invoke(o)
  <2>1. CASE CompleteSuite
    <3>1. pc' = "stop"
      BY <2>1, Zenon DEF CompleteSuite
    <3> QED
      BY <1>1, <3>1
  <2>2. ASSUME NEW o \in Options, Invoke(o) PROVE pc' \notin Ramping
    <3>1. pc' = "monitoring"
      BY <2>2, Zenon DEF Invoke
    <3> QED
      BY <3>1
  <2>3. CASE \/ StartMonitoring \/ StartCadvisor \/ AwaitPrometheus \/ SkipTest \/ Cooldown
             \/ RunFixed \/ TearDown \/ EndTest \/ QueryFails \/ TearDownAll \/ Signal
             \/ StopMonitoring("stop", "completed") \/ StopMonitoring("trap_stop", "signalled")
    BY <1>1, <2>3
    DEF StartMonitoring, StartCadvisor, AwaitPrometheus, SkipTest, Cooldown, RunFixed, BringUp,
        TearDown, EndTest, QueryFails, TearDownAll, Signal, StopMonitoring, Compose, Goto, Fail
  <2> QED
    BY <1>1, <1>9, <2>1, <2>2, <2>3
<1>10. CASE BrokerDies \/ UNCHANGED vars
  BY <1>2, <1>10 DEF BrokerDies, vars
<1> QED
  BY <1>3, <1>4, <1>5, <1>6, <1>7, <1>8, <1>9, <1>10 DEF Next, ScriptNext

\* A ramp takes no step above its maximum, and the script no test that the plan
\* does not have.
THEOREM InvocationIsBounded == Spec => []WithinBounds
<1>1. Init => WithinBounds
  BY DEF Init, WithinBounds, Running, Ramping
<1>2. TypeOK /\ InTest /\ WithinBounds /\ [Next]_vars /\ TypeOK' => WithinBounds'
  BY BoundsStep
<1> QED
  BY <1>1, <1>2, Typing, PTL DEF Spec
-----------------------------------------------------------------------------
(* Folds over finite sets, and sums. *)

\* Induction over the natural numbers, of a set of them.
LEMMA CountingUp ==
  ASSUME NEW D, 0 \in D, \A n \in Nat : n \in D => n + 1 \in D
  PROVE  \A n \in Nat : n \in D
<1> DEFINE B == Nat \ D
<1> SUFFICES ASSUME B # {} PROVE FALSE
  OBVIOUS
<1>1. PICK n \in B : \A k \in B : n <= k
  BY LeastExists
<1>2. n \in Nat /\ n # 0 /\ n - 1 \in Nat /\ n - 1 + 1 = n /\ ~(n <= n - 1)
  OBVIOUS
<1>3. n - 1 \in D
  BY <1>1, <1>2
<1> QED
  BY <1>2, <1>3

\* F folds h over the subsets of S, from b on, taking the elements in the order c.
FoldsUp(F, S, b, c, h) ==
    \A s \in SUBSET S : F[s] = IF s = {} THEN b ELSE h[<<c[s], F[s \ {c[s]}]>>]
Picks(c, S) == \A s \in SUBSET S : s # {} => c[s] \in s

\* A fold over a finite set is defined, whatever the order of the elements.
LEMMA FoldExists ==
  ASSUME NEW S, IsFiniteSet(S), NEW V, NEW b \in V, NEW c, Picks(c, S),
         NEW h \in [S \X V -> V]
  PROVE  \E F \in [SUBSET S -> V] : FoldsUp(F, S, b, c, h)
<1> DEFINE Upto(n) == {s \in SUBSET S : Cardinality(s) <= n}
           Folds(F, n) == /\ F \in [Upto(n) -> V]
                          /\ \A s \in Upto(n) :
                               F[s] = IF s = {} THEN b ELSE h[<<c[s], F[s \ {c[s]}]>>]
           D == {n \in Nat : \E F : Folds(F, n)}
<1>1. ASSUME NEW s \in SUBSET S
      PROVE  /\ Cardinality(s) \in Nat /\ Cardinality(s) <= Cardinality(S)
             /\ Cardinality(s) = 0 <=> s = {}
             /\ s # {} => /\ c[s] \in S /\ s \ {c[s]} \in SUBSET S
                          /\ Cardinality(s \ {c[s]}) = Cardinality(s) - 1
  BY FS_Subset, FS_CardinalityType, FS_EmptySet, FS_RemoveElement DEF Picks
<1>2. 0 \in D
  <2> DEFINE F == [s \in Upto(0) |-> b]
  <2>1. ASSUME NEW s \in Upto(0) PROVE s = {}
    <3>1. Cardinality(s) \in Nat /\ Cardinality(s) <= 0
      BY <1>1
    <3>2. Cardinality(s) = 0
      BY <3>1
    <3> QED
      BY <1>1, <3>2
  <2>2. Folds(F, 0)
    BY <2>1
  <2> QED
    BY <2>2
<1>3. ASSUME NEW n \in Nat, n \in D PROVE n + 1 \in D
  <2>1. PICK G : Folds(G, n)
    BY <1>3
  <2> DEFINE F == [s \in Upto(n + 1) |-> IF s = {} THEN b ELSE h[<<c[s], G[s \ {c[s]}]>>]]
  <2>2. ASSUME NEW s \in Upto(n + 1), s # {}
        PROVE  /\ c[s] \in S /\ s \ {c[s]} \in Upto(n) /\ s \ {c[s]} \in Upto(n + 1)
               /\ G[s \ {c[s]}] \in V
    <3>1. s \ {c[s]} \in Upto(n) /\ s \ {c[s]} \in Upto(n + 1) /\ c[s] \in S
      BY <1>1, <2>2
    <3> QED
      BY <2>1, <3>1
  <2>3. F \in [Upto(n + 1) -> V]
    BY <2>2
  <2>4. \A s \in Upto(n) : F[s] = G[s]
    <3>1. ASSUME NEW s \in Upto(n) PROVE s \in Upto(n + 1)
      <4>1. Cardinality(s) \in Nat /\ Cardinality(s) <= n
        BY <1>1
      <4>2. Cardinality(s) <= n + 1
        BY <4>1
      <4> QED
        BY <4>2
    <3> QED
      BY <2>1, <3>1
  <2>5. \A s \in Upto(n + 1) : F[s] = IF s = {} THEN b ELSE h[<<c[s], F[s \ {c[s]}]>>]
    BY <2>2, <2>4
  <2>6. Folds(F, n + 1)
    BY <2>3, <2>5
  <2> HIDE DEF Folds, F
  <2> QED
    BY <2>6
<1>4. Cardinality(S) \in Nat /\ Upto(Cardinality(S)) = SUBSET S
  BY <1>1
<1> HIDE DEF Folds, Upto
<1>5. \A n \in Nat : n \in D
  <2> HIDE DEF D
  <2> QED
    BY <1>2, <1>3, CountingUp
<1>6. PICK F : Folds(F, Cardinality(S))
  BY <1>4, <1>5
<1> QED
  BY <1>4, <1>6 DEF Folds, FoldsUp

\* Induction over the subsets of a finite set, in the order in which a fold takes
\* the elements.
LEMMA FoldInduction ==
  ASSUME NEW S, IsFiniteSet(S), NEW c, Picks(c, S), NEW D, {} \in D,
         \A s \in SUBSET S : s # {} /\ s \ {c[s]} \in D => s \in D
  PROVE  \A s \in SUBSET S : s \in D
<1> DEFINE N == {n \in Nat : \A s \in SUBSET S : Cardinality(s) = n => s \in D}
<1>1. \A s \in SUBSET S : IsFiniteSet(s) /\ Cardinality(s) \in Nat
  BY FS_Subset, FS_CardinalityType
<1>2. 0 \in N
  BY <1>1, FS_EmptySet
<1>3. ASSUME NEW n \in Nat, n \in N PROVE n + 1 \in N
  <2> SUFFICES ASSUME NEW s \in SUBSET S, Cardinality(s) = n + 1 PROVE s \in D
    OBVIOUS
  <2>1. s # {} /\ IsFiniteSet(s) /\ c[s] \in s
    BY <1>1, FS_EmptySet DEF Picks
  <2>2. Cardinality(s \ {c[s]}) = Cardinality(s) - 1
    BY <2>1, FS_RemoveElement
  <2>3. Cardinality(s \ {c[s]}) = n /\ s \ {c[s]} \in SUBSET S
    BY <2>2
  <2> QED
    BY <1>3, <2>1, <2>3
<1> HIDE DEF N
<1>4. \A n \in Nat : n \in N
  BY <1>2, <1>3, CountingUp
<1> QED
  BY <1>1, <1>4 DEF N

\* F and G take the same steps over the subsets of S in the order c.
StepAlike(F, G, S, c) ==
    /\ F[{}] = G[{}]
    /\ \A s \in SUBSET S : s # {} /\ F[s \ {c[s]}] = G[s \ {c[s]}] => F[s] = G[s]

\* Two functions that do are the same.
LEMMA FoldsAgree ==
  ASSUME NEW S, IsFiniteSet(S), NEW c, Picks(c, S), NEW F, NEW G, StepAlike(F, G, S, c)
  PROVE  F[S] = G[S]
<1> DEFINE D == {s \in SUBSET S : F[s] = G[s]}
<1>1. {} \in D
  BY DEF StepAlike
<1>2. \A s \in SUBSET S : s # {} /\ s \ {c[s]} \in D => s \in D
  BY DEF StepAlike
<1> HIDE DEF D
<1>3. \A s \in SUBSET S : s \in D
  BY <1>1, <1>2, FoldInduction
<1> QED
  BY <1>3 DEF D

\* The element that a sum over s begins with.
Chosen(s) == CHOOSE x \in s : TRUE

\* The function behind a sum over a set.
SumsUp(F, f, U) ==
    \A s \in SUBSET U : F[s] = IF s = {} THEN 0 ELSE f[Chosen(s)] + F[s \ {Chosen(s)}]

\* There is one such function.
LEMMA SumsAgree ==
  ASSUME NEW f, NEW U, IsFiniteSet(U), NEW F, SumsUp(F, f, U), NEW G, SumsUp(G, f, U)
  PROVE  F[U] = G[U]
<1> DEFINE c == [s \in SUBSET U |-> Chosen(s)]
<1>1. Picks(c, U) /\ \A s \in SUBSET U : c[s] = Chosen(s)
  BY DEF Picks, Chosen
<1> HIDE DEF c
<1>2. StepAlike(F, G, U, c)
  BY <1>1 DEF SumsUp, StepAlike
<1> QED
  BY <1>1, <1>2, FoldsAgree

\* What there is a sum of.
Summable(f, U) == IsFiniteSet(U) /\ \A x \in U : f[x] \in Int

\* A sum over a finite set is what its recursion says.
LEMMA SumExists ==
  ASSUME NEW f, NEW U, Summable(f, U)
  PROVE  \E F \in [SUBSET U -> Int] : SumsUp(F, f, U) /\ F[U] = SumFunctionOnSet(f, U)
<1> USE DEF Summable
<1> DEFINE c == [s \in SUBSET U |-> Chosen(s)]
           h == [p \in U \X Int |-> f[p[1]] + p[2]]
           Body(F) == [s \in SUBSET U |-> IF s = {} THEN 0 ELSE f[Chosen(s)] + F[s \ {Chosen(s)}]]
           G == CHOOSE F : F = Body(F)
<1>1. \A s \in SUBSET U : s # {} => Chosen(s) \in s /\ c[s] = Chosen(s)
  BY DEF Chosen
<1>2. h \in [U \X Int -> Int]
  OBVIOUS
<1>3. \A x \in U, y \in Int : h[<<x, y>>] = f[x] + y
  OBVIOUS
<1> HIDE DEF c, h
<1>4. PICK F \in [SUBSET U -> Int] : FoldsUp(F, U, 0, c, h)
  <2>1. Picks(c, U)
    BY <1>1 DEF Picks
  <2>2. 0 \in Int
    OBVIOUS
  <2> HIDE DEF Body, G
  <2> QED
    BY <1>2, <2>1, <2>2, FoldExists, Zenon
<1>5. \A s \in SUBSET U : F[s] = IF s = {} THEN 0 ELSE f[Chosen(s)] + F[s \ {Chosen(s)}]
  <2> SUFFICES ASSUME NEW s \in SUBSET U, s # {} PROVE F[s] = f[Chosen(s)] + F[s \ {Chosen(s)}]
    BY <1>4 DEF FoldsUp
  <2>1. Chosen(s) \in U /\ c[s] = Chosen(s) /\ F[s \ {Chosen(s)}] \in Int
    BY <1>1
  <2> QED
    BY <1>3, <1>4, <2>1 DEF FoldsUp
<1>6. F = Body(F)
  BY <1>5
<1>7. G = Body(G)
  <2> HIDE DEF Body
  <2> QED
    BY <1>6
<1>8. G[U] = SumFunctionOnSet(f, U)
  BY Zenon DEF SumFunctionOnSet, FoldFunctionOnSet, MapThenFoldSet, Chosen
<1> HIDE DEF G
<1>9. SumsUp(F, f, U) /\ SumsUp(G, f, U)
  BY <1>5, <1>7 DEF SumsUp
<1>10. F[U] = G[U]
  BY <1>9, SumsAgree
<1> QED
  BY <1>8, <1>9, <1>10

\* The sum over no element, and the one over a set without its chosen element.
LEMMA SumChosen ==
  ASSUME NEW f, NEW U, Summable(f, U)
  PROVE  /\ SumFunctionOnSet(f, U) \in Int
         /\ U = {} => SumFunctionOnSet(f, U) = 0
         /\ U # {} => SumFunctionOnSet(f, U) = f[Chosen(U)] + SumFunctionOnSet(f, U \ {Chosen(U)})
<1>1. PICK F \in [SUBSET U -> Int] : SumsUp(F, f, U) /\ F[U] = SumFunctionOnSet(f, U)
  BY SumExists
<1>2. SumFunctionOnSet(f, U) \in Int /\ (U = {} => SumFunctionOnSet(f, U) = 0)
  BY <1>1 DEF SumsUp
<1>3. ASSUME U # {}
      PROVE  SumFunctionOnSet(f, U) = f[Chosen(U)] + SumFunctionOnSet(f, U \ {Chosen(U)})
  <2> DEFINE W == U \ {Chosen(U)}
  <2>1. Summable(f, W) /\ IsFiniteSet(W) /\ W \subseteq U
    BY FS_Subset DEF Summable
  <2>2. PICK G \in [SUBSET W -> Int] : SumsUp(G, f, W) /\ G[W] = SumFunctionOnSet(f, W)
    BY <2>1, SumExists
  <2>3. SumsUp(F, f, W)
    BY <1>1, <2>1 DEF SumsUp
  <2>4. F[W] = G[W]
    BY <2>1, <2>2, <2>3, SumsAgree
  <2> QED
    BY <1>1, <1>3, <2>2, <2>4 DEF SumsUp
<1> QED
  BY <1>2, <1>3

\* Whatever element a sum is taken without, it adds up.
LEMMA SumWithout ==
  ASSUME NEW f, NEW U, Summable(f, U), NEW x \in U
  PROVE  SumFunctionOnSet(f, U) = f[x] + SumFunctionOnSet(f, U \ {x})
<1> DEFINE S(s) == SumFunctionOnSet(f, s)
           D == {n \in Nat : \A s \in SUBSET U : Cardinality(s) = n =>
                               \A y \in s : S(s) = f[y] + S(s \ {y})}
<1>1. \A s \in SUBSET U : /\ IsFiniteSet(s) /\ Cardinality(s) \in Nat /\ Summable(f, s)
                        /\ \A y \in s : f[y] \in Int
  BY FS_Subset, FS_CardinalityType DEF Summable
<1>2. \A s \in SUBSET U : S(s) \in Int /\ (s # {} => S(s) = f[Chosen(s)] + S(s \ {Chosen(s)}))
  BY <1>1, SumChosen
<1> HIDE DEF S
<1>3. 0 \in D
  BY <1>1, FS_EmptySet
<1>4. ASSUME NEW n \in Nat, n \in D PROVE n + 1 \in D
  <2> SUFFICES ASSUME NEW s \in SUBSET U, Cardinality(s) = n + 1, NEW y \in s
               PROVE  S(s) = f[y] + S(s \ {y})
    OBVIOUS
  <2> DEFINE a == Chosen(s)
             r == s \ {a, y}
  <2>1. a \in s /\ S(s) = f[a] + S(s \ {a})
    BY <1>2 DEF Chosen
  <2>2. CASE a = y
    BY <2>1, <2>2
  <2>3. CASE a # y
    <3>1. Cardinality(s \ {a}) = n /\ Cardinality(s \ {y}) = n
      <4>1. /\ Cardinality(s \ {a}) = Cardinality(s) - 1
            /\ Cardinality(s \ {y}) = Cardinality(s) - 1
        <5> HIDE DEF a
        <5> QED
          BY <1>1, <2>1, FS_RemoveElement
      <4> HIDE DEF a
      <4> QED
        BY <4>1
    <3>2. y \in s \ {a} /\ a \in s \ {y} /\ (s \ {a}) \ {y} = r /\ (s \ {y}) \ {a} = r
      BY <2>1, <2>3
    <3>3. S(s \ {a}) = f[y] + S(r) /\ S(s \ {y}) = f[a] + S(r)
      <4>1. s \ {a} \in SUBSET U /\ s \ {y} \in SUBSET U
        OBVIOUS
      <4> HIDE DEF a, r
      <4> QED
        BY <1>4, <3>1, <3>2, <4>1
    <3>4. S(r) \in Int /\ f[a] \in Int /\ f[y] \in Int
      BY <1>1, <1>2, <2>1
    <3> HIDE DEF a, r
    <3> QED
      BY <2>1, <3>3, <3>4
  <2> QED
    BY <2>2, <2>3
<1> HIDE DEF D
<1>5. \A n \in Nat : n \in D
  BY <1>3, <1>4, CountingUp
<1>6. S(U) = f[x] + S(U \ {x})
  BY <1>1, <1>5 DEF D
<1> QED
  BY <1>6 DEF S
\* So an element adds its value to the sum over the others.
LEMMA SumWith ==
  ASSUME NEW f, NEW U, NEW x, x \notin U, Summable(f, U \cup {x})
  PROVE  SumFunctionOnSet(f, U \cup {x}) = SumFunctionOnSet(f, U) + f[x]
<1> DEFINE W == U \cup {x}
<1>1. x \in W /\ W \ {x} = U
  OBVIOUS
<1>2. Summable(f, U) /\ f[x] \in Int
  BY FS_Subset DEF Summable
<1> HIDE DEF W
<1>3. Summable(f, W)
  BY DEF W
<1>4. SumFunctionOnSet(f, W) = f[x] + SumFunctionOnSet(f, W \ {x})
  BY <1>1, <1>3, SumWithout
<1>5. SumFunctionOnSet(f, U) \in Int
  BY <1>2, SumChosen
<1>6. SumFunctionOnSet(f, W) = SumFunctionOnSet(f, U) + f[x]
  <2>1. SumFunctionOnSet(f, W) = f[x] + SumFunctionOnSet(f, U)
    BY <1>1, <1>4, Zenon
  <2> QED
    BY <1>2, <1>5, <2>1
<1> QED
  BY <1>6, Zenon DEF W

-----------------------------------------------------------------------------
(* What FoldLeft adds up. *)

\* What the average is made of.
Sums == [total : Int, count : Nat]

\* FoldLeft takes the last place first, as it recurses to the front.
LEMMA LastFirst ==
  ASSUME NEW n \in Nat
  PROVE  /\ IsFiniteSet(1..n)
         /\ \A s \in SUBSET (1..n) : s # {} => Max(s) \in s
         /\ Picks([s \in SUBSET (1..n) |-> Max(s)], 1..n)
<1>1. IsFiniteSet(1..n)
  BY FS_Interval
<1>2. \A s \in SUBSET (1..n) : s # {} => Max(s) \in s
  BY MaxIs
<1> QED
  BY <1>1, <1>2 DEF Picks

\* G takes these steps, one place after the other.
Leftwards(G, n, b, V, h) ==
    /\ G[{}] = b
    /\ \A s \in SUBSET (1..n) :
         s # {} /\ G[s \ {Max(s)}] \in V => G[s] = h[<<Max(s), G[s \ {Max(s)}]>>]

\* Some typed function does, so that the recursion of FoldLeft is sound.
LEMMA LeftwardsExists ==
  ASSUME NEW n \in Nat, NEW V, NEW b \in V, NEW h \in [(1..n) \X V -> V]
  PROVE  \E F \in [SUBSET (1..n) -> V] : Leftwards(F, n, b, V, h)
<1> DEFINE c == [s \in SUBSET (1..n) |-> Max(s)]
<1>1. Picks(c, 1..n) /\ IsFiniteSet(1..n) /\ \A s \in SUBSET (1..n) : c[s] = Max(s)
  BY LastFirst
<1> HIDE DEF c
<1>2. PICK F \in [SUBSET (1..n) -> V] : FoldsUp(F, 1..n, b, c, h)
  BY <1>1, FoldExists, Zenon
<1>3. Leftwards(F, n, b, V, h)
  BY <1>1, <1>2 DEF FoldsUp, Leftwards
<1> QED
  BY <1>3

\* What G has come to after each place.
Partials(a, G, n, b, V, h) ==
    /\ a \in [0..n -> V] /\ a[0] = b /\ a[n] = G[1..n]
    /\ \A k \in 1..n : a[k] = h[<<k, a[k - 1]>>]

\* Every such function has added up the places from the first to the last.
LEMMA LeftToRight ==
  ASSUME NEW n \in Nat, NEW V, NEW b \in V, NEW h \in [(1..n) \X V -> V],
         NEW G, Leftwards(G, n, b, V, h)
  PROVE  \E a : Partials(a, G, n, b, V, h)
<1> DEFINE D == {k \in Nat : k <= n => G[1..k] \in V}
<1>1. ASSUME NEW k \in 1..n
      PROVE  /\ 1..k \in SUBSET (1..n) /\ 1..k # {} /\ Max(1..k) = k
             /\ (1..k) \ {k} = 1..(k - 1) /\ k - 1 \in 0..n
  <2>1. 1..k \in SUBSET (1..n) /\ k \in 1..k
    OBVIOUS
  <2>2. Max(1..k) \in 1..k /\ k <= Max(1..k)
    BY <2>1, MaxIs
  <2> QED
    BY <2>1, <2>2
<1>2. ASSUME NEW k \in 1..n, G[1..(k - 1)] \in V
      PROVE  G[1..k] = h[<<k, G[1..(k - 1)]>>] /\ G[1..k] \in V
  <2>1. G[1..k] = h[<<k, G[1..(k - 1)]>>]
    BY <1>1, <1>2 DEF Leftwards
  <2> QED
    BY <1>2, <2>1
<1>3. 0 \in D
  BY DEF Leftwards
<1>4. ASSUME NEW k \in Nat, k \in D PROVE k + 1 \in D
  <2> SUFFICES ASSUME k + 1 <= n PROVE G[1..(k + 1)] \in V
    OBVIOUS
  <2>1. k + 1 \in 1..n /\ k <= n /\ (k + 1) - 1 = k
    OBVIOUS
  <2>2. G[1..k] \in V
    BY <1>4, <2>1
  <2> HIDE DEF D
  <2> QED
    BY <1>2, <2>1, <2>2
<1> HIDE DEF D
<1>5. \A k \in Nat : k \in D
  BY <1>3, <1>4, CountingUp
<1>6. \A k \in 0..n : G[1..k] \in V
  BY <1>5 DEF D
<1> DEFINE a == [k \in 0..n |-> G[1..k]]
<1>7. a \in [0..n -> V] /\ a[0] = b /\ a[n] = G[1..n]
  BY <1>6 DEF Leftwards
<1>8. \A k \in 1..n : a[k] = h[<<k, a[k - 1]>>]
  BY <1>1, <1>2, <1>6
<1>9. Partials(a, G, n, b, V, h)
  BY <1>7, <1>8 DEF Partials
<1> QED
  BY <1>9

\* A sum and a good or bad sample give a sum.
LEMMA AddType ==
  ASSUME NEW sum \in Sums, NEW sample \in Samples
  PROVE  Add(sum, sample) \in Sums
BY DEF Add, Sums, Samples

\* The inner loop of prom_query_range, sample by sample.
LEMMA SeriesAddUp ==
  ASSUME NEW base \in Sums, NEW series \in Seq(Samples)
  PROVE  \E a \in [0..Len(series) -> Sums] :
           /\ a[0] = base /\ a[Len(series)] = AddSeries(base, series)
           /\ \A k \in 1..Len(series) : a[k] = Add(a[k - 1], series[k])
<1> DEFINE n == Len(series)
           h == [p \in (1..n) \X Sums |-> Add(p[2], series[p[1]])]
           Body(F) == [s \in SUBSET (1..n) |->
                         IF s = {} THEN base ELSE Add(F[s \ {Max(s)}], series[Max(s)])]
           G == CHOOSE F : F = Body(F)
<1>1. n \in Nat /\ DOMAIN series = 1..n /\ \A k \in 1..n : series[k] \in Samples
  OBVIOUS
<1>2. h \in [(1..n) \X Sums -> Sums] /\ \A k \in 1..n, x \in Sums : h[<<k, x>>] = Add(x, series[k])
  <2>1. ASSUME NEW p \in (1..n) \X Sums PROVE Add(p[2], series[p[1]]) \in Sums
    BY <1>1, AddType
  <2> QED
    BY <2>1
<1>3. base \in Sums
  BY DEF Nothing, Sums
<1> HIDE DEF h, n
<1>4. PICK F \in [SUBSET (1..n) -> Sums] : Leftwards(F, n, base, Sums, h)
  <2> HIDE DEF Body, G
  <2> QED
    BY <1>1, <1>2, <1>3, LeftwardsExists, Zenon
<1>5. \A s \in SUBSET (1..n) : s # {} => Max(s) \in s
  BY <1>1, LastFirst
<1>6. F = Body(F)
  <2>1. ASSUME NEW s \in SUBSET (1..n)
        PROVE  F[s] = IF s = {} THEN base ELSE Add(F[s \ {Max(s)}], series[Max(s)])
    <3>1. CASE s = {}
      BY <1>4, <3>1 DEF Leftwards
    <3>2. CASE s # {}
      <4>1. Max(s) \in 1..n /\ F[s \ {Max(s)}] \in Sums
        BY <1>5, <3>2
      <4> QED
        BY <1>2, <1>4, <3>2, <4>1 DEF Leftwards
    <3> QED
      BY <3>1, <3>2
  <2> QED
    BY <2>1
<1>7. G = Body(G)
  <2> HIDE DEF Body
  <2> QED
    BY <1>6
<1>8. G[1..n] = AddSeries(base, series)
  BY <1>1, Zenon DEF AddSeries, FoldLeft, MapThenFoldSet
<1> HIDE DEF G
<1>9. \A s \in SUBSET (1..n) :
        G[s] = IF s = {} THEN base ELSE Add(G[s \ {Max(s)}], series[Max(s)])
  BY <1>7
<1>10. Leftwards(G, n, base, Sums, h)
  <2>1. G[{}] = base
    BY <1>9
  <2>2. ASSUME NEW s \in SUBSET (1..n), s # {}, G[s \ {Max(s)}] \in Sums
        PROVE  G[s] = h[<<Max(s), G[s \ {Max(s)}]>>]
    <3>1. Max(s) \in 1..n
      BY <1>5, <2>2
    <3>2. G[s] = Add(G[s \ {Max(s)}], series[Max(s)])
      BY <1>9, <2>2, Zenon
    <3> QED
      BY <1>2, <2>2, <3>1, <3>2
  <2> QED
    BY <2>1, <2>2 DEF Leftwards
<1> HIDE DEF Body
<1>11. PICK a : Partials(a, G, n, base, Sums, h)
  BY <1>1, <1>2, <1>3, <1>10, LeftToRight, Zenon
<1>12. ASSUME NEW k \in 1..n PROVE a[k] = Add(a[k - 1], series[k])
  <2>1. k - 1 \in 0..n
    BY <1>1
  <2> QED
    BY <1>2, <1>11, <2>1 DEF Partials
<1> QED
  BY <1>8, <1>11, <1>12 DEF n, Partials

\* A sum and a series give a sum.
LEMMA AddSeriesType ==
  ASSUME NEW base \in Sums, NEW series \in Seq(Samples)
  PROVE  AddSeries(base, series) \in Sums
<1>1. PICK a \in [0..Len(series) -> Sums] : a[Len(series)] = AddSeries(base, series)
  BY SeriesAddUp
<1> QED
  BY <1>1

\* The outer loop, series by series.
LEMMA AnswerAddsUp ==
  ASSUME NEW answer \in Seq(Seq(Samples))
  PROVE  \E a \in [0..Len(answer) -> Sums] :
           /\ a[0] = Nothing /\ a[Len(answer)] = Average(answer)
           /\ \A k \in 1..Len(answer) : a[k] = AddSeries(a[k - 1], answer[k])
<1> DEFINE n == Len(answer)
           h == [p \in (1..n) \X Sums |-> AddSeries(p[2], answer[p[1]])]
           Body(F) == [s \in SUBSET (1..n) |->
                         IF s = {} THEN Nothing ELSE AddSeries(F[s \ {Max(s)}], answer[Max(s)])]
           G == CHOOSE F : F = Body(F)
<1>1. n \in Nat /\ DOMAIN answer = 1..n /\ \A k \in 1..n : answer[k] \in Seq(Samples)
  OBVIOUS
<1>2. h \in [(1..n) \X Sums -> Sums] /\ \A k \in 1..n, x \in Sums : h[<<k, x>>] = AddSeries(x, answer[k])
  <2>1. ASSUME NEW p \in (1..n) \X Sums PROVE AddSeries(p[2], answer[p[1]]) \in Sums
    BY <1>1, AddSeriesType
  <2> QED
    BY <2>1
<1>3. Nothing \in Sums
  BY DEF Nothing, Sums
<1> HIDE DEF h, n
<1>4. PICK F \in [SUBSET (1..n) -> Sums] : Leftwards(F, n, Nothing, Sums, h)
  <2> HIDE DEF Body, G
  <2> QED
    BY <1>1, <1>2, <1>3, LeftwardsExists, Zenon
<1>5. \A s \in SUBSET (1..n) : s # {} => Max(s) \in s
  BY <1>1, LastFirst
<1>6. F = Body(F)
  <2>1. ASSUME NEW s \in SUBSET (1..n)
        PROVE  F[s] = IF s = {} THEN Nothing ELSE AddSeries(F[s \ {Max(s)}], answer[Max(s)])
    <3>1. CASE s = {}
      BY <1>4, <3>1 DEF Leftwards
    <3>2. CASE s # {}
      <4>1. Max(s) \in 1..n /\ F[s \ {Max(s)}] \in Sums
        BY <1>5, <3>2
      <4> QED
        BY <1>2, <1>4, <3>2, <4>1 DEF Leftwards
    <3> QED
      BY <3>1, <3>2
  <2> QED
    BY <2>1
<1>7. G = Body(G)
  <2> HIDE DEF Body
  <2> QED
    BY <1>6
<1>8. G[1..n] = Average(answer)
  BY <1>1, Zenon DEF Average, FoldLeft, MapThenFoldSet
<1> HIDE DEF G
<1>9. \A s \in SUBSET (1..n) :
        G[s] = IF s = {} THEN Nothing ELSE AddSeries(G[s \ {Max(s)}], answer[Max(s)])
  BY <1>7
<1>10. Leftwards(G, n, Nothing, Sums, h)
  <2>1. G[{}] = Nothing
    BY <1>9
  <2>2. ASSUME NEW s \in SUBSET (1..n), s # {}, G[s \ {Max(s)}] \in Sums
        PROVE  G[s] = h[<<Max(s), G[s \ {Max(s)}]>>]
    <3>1. Max(s) \in 1..n
      BY <1>5, <2>2
    <3>2. G[s] = AddSeries(G[s \ {Max(s)}], answer[Max(s)])
      BY <1>9, <2>2, Zenon
    <3> QED
      BY <1>2, <2>2, <3>1, <3>2
  <2> QED
    BY <2>1, <2>2 DEF Leftwards
<1> HIDE DEF Body
<1>11. PICK a : Partials(a, G, n, Nothing, Sums, h)
  BY <1>1, <1>2, <1>3, <1>10, LeftToRight, Zenon
<1>12. ASSUME NEW k \in 1..n PROVE a[k] = AddSeries(a[k - 1], answer[k])
  <2>1. k - 1 \in 0..n
    BY <1>1
  <2> QED
    BY <1>2, <1>11, <2>1 DEF Partials
<1> QED
  BY <1>8, <1>11, <1>12 DEF n, Partials

-----------------------------------------------------------------------------
(* The average is the mean. *)

\* The good samples up to sample k of series i, and their mean.
Before(answer, i, k) ==
    {p \in Good(answer) : p[1] < i \/ (p[1] = i /\ p[2] <= k)}
Values(answer) == [ij \in Good(answer) |-> answer[ij[1]][ij[2]].v]
MeanOver(answer, U) == [total |-> SumFunctionOnSet(Values(answer), U), count |-> Cardinality(U)]

\* Where the good samples are.
LEMMA GoodIs ==
  ASSUME NEW answer \in Seq(Seq(Samples))
  PROVE  /\ \A p \in Good(answer) : /\ p[1] \in 1..Len(answer)
                                    /\ p[2] \in 1..Len(answer[p[1]])
                                    /\ p = <<p[1], p[2]>>
                                    /\ answer[p[1]][p[2]].good
                                    /\ Values(answer)[p] = answer[p[1]][p[2]].v
                                    /\ Values(answer)[p] \in Int
         /\ \A i \in 1..Len(answer) : \A k \in 1..Len(answer[i]) :
              answer[i][k].good => <<i, k>> \in Good(answer)
<1>1. ASSUME NEW i \in 1..Len(answer)
      PROVE  /\ answer[i] \in Seq(Samples) /\ DOMAIN answer[i] = 1..Len(answer[i])
             /\ \A k \in 1..Len(answer[i]) : answer[i][k] \in Samples
  OBVIOUS
<1>2. DOMAIN answer = 1..Len(answer)
  OBVIOUS
<1>3. ASSUME NEW p \in Good(answer)
      PROVE  /\ p[1] \in 1..Len(answer) /\ p[2] \in 1..Len(answer[p[1]]) /\ p = <<p[1], p[2]>>
             /\ answer[p[1]][p[2]].good
             /\ Values(answer)[p] = answer[p[1]][p[2]].v /\ Values(answer)[p] \in Int
  <2>1. PICK i \in DOMAIN answer : p \in {i} \X DOMAIN answer[i]
    BY DEF Good
  <2>2. p[1] = i /\ p[2] \in DOMAIN answer[i] /\ p = <<p[1], p[2]>>
    BY <2>1
  <2>3. answer[p[1]][p[2]].good /\ Values(answer)[p] = answer[p[1]][p[2]].v
    BY DEF Good, Values
  <2>4. answer[p[1]][p[2]].v \in Int
    <3>1. answer[p[1]][p[2]] \in Samples
      BY <1>1, <1>2, <2>1, <2>2
    <3> QED
      BY <3>1 DEF Samples
  <2> QED
    BY <1>1, <1>2, <2>1, <2>2, <2>3, <2>4
<1>4. ASSUME NEW i \in 1..Len(answer), NEW k \in 1..Len(answer[i]), answer[i][k].good
      PROVE  <<i, k>> \in Good(answer)
  <2>1. i \in DOMAIN answer /\ k \in DOMAIN answer[i]
    BY <1>1, <1>2
  <2>2. <<i, k>> \in {i} \X DOMAIN answer[i]
    BY <2>1
  <2>3. <<i, k>> \in UNION {{j} \X DOMAIN answer[j] : j \in DOMAIN answer}
    BY <2>1, <2>2
  <2> QED
    BY <1>4, <2>3 DEF Good
<1> QED
  BY <1>3, <1>4

\* A sample takes the mean a place further.
LEMMA MeanStep ==
  ASSUME NEW answer \in Seq(Seq(Samples)), NEW i \in 1..Len(answer),
         NEW k \in 1..Len(answer[i]), IsFiniteSet(Before(answer, i, k - 1))
  PROVE  /\ IsFiniteSet(Before(answer, i, k))
         /\ MeanOver(answer, Before(answer, i, k))
              = Add(MeanOver(answer, Before(answer, i, k - 1)), answer[i][k])
<1> DEFINE U == Before(answer, i, k - 1)
           W == Before(answer, i, k)
           x == <<i, k>>
           f == Values(answer)
<1>1. \A p \in Good(answer) : /\ p[1] \in Nat /\ p[2] \in Nat /\ p = <<p[1], p[2]>>
                              /\ answer[p[1]][p[2]].good /\ f[p] = answer[p[1]][p[2]].v
                              /\ f[p] \in Int
  BY GoodIs
<1>2. \A p \in Good(answer) : p \in W <=> p \in U \/ p = x
  <2> SUFFICES ASSUME NEW p \in Good(answer) PROVE p \in W <=> p \in U \/ p = x
    OBVIOUS
  <2>1. p[1] \in Nat /\ p[2] \in Nat /\ p = <<p[1], p[2]>> /\ i \in Nat /\ k \in Nat
    BY <1>1
  <2>2. p = x <=> p[1] = i /\ p[2] = k
    BY <2>1
  <2>3. p[1] < i \/ (p[1] = i /\ p[2] <= k)
        <=> (p[1] < i \/ (p[1] = i /\ p[2] <= k - 1)) \/ (p[1] = i /\ p[2] = k)
    BY <2>1
  <2> QED
    BY <2>2, <2>3 DEF Before
<1>3. U \subseteq Good(answer) /\ W \subseteq Good(answer) /\ x \notin U
  <2>1. x[1] = i /\ x[2] = k /\ ~(i < i) /\ ~(k <= k - 1)
    OBVIOUS
  <2> QED
    BY <2>1 DEF Before
<1>4. CASE ~answer[i][k].good
  <2>1. x \notin Good(answer)
    BY <1>1, <1>4
  <2>2. W = U
    BY <1>2, <1>3, <2>1
  <2> QED
    BY <1>4, <2>2 DEF Add
<1>5. CASE answer[i][k].good
  <2>1. x \in Good(answer) /\ f[x] = answer[i][k].v
    <3>1. x \in Good(answer)
      BY <1>5, GoodIs
    <3> QED
      BY <1>1, <3>1
  <2>2. W = U \cup {x} /\ W \ {x} = U /\ x \in W
    BY <1>2, <1>3, <2>1
  <2>3. IsFiniteSet(W) /\ Cardinality(W) = Cardinality(U) + 1
    <3>1. IsFiniteSet(U)
      OBVIOUS
    <3> HIDE DEF U, W, x
    <3> QED
      BY <1>3, <2>2, <3>1, FS_AddElement
  <2>4. Summable(f, U \cup {x})
    BY <1>1, <1>3, <2>2, <2>3 DEF Summable
  <2>5. SumFunctionOnSet(f, U \cup {x}) = SumFunctionOnSet(f, U) + f[x]
    <3> HIDE DEF U, W, x, f
    <3> QED
      BY <1>3, <2>4, SumWith
  <2>6. SumFunctionOnSet(f, W) = SumFunctionOnSet(f, U) + answer[i][k].v
    BY <2>1, <2>2, <2>5
  <2> HIDE DEF U, W, x
  <2> QED
    BY <1>5, <2>3, <2>6 DEF Add, MeanOver, U, W
<1> QED
  BY <1>4, <1>5

\* And a series takes it to the next one.
LEMMA MeanOfSeries ==
  ASSUME NEW answer \in Seq(Seq(Samples)), NEW i \in 1..Len(answer),
         IsFiniteSet(Before(answer, i, 0))
  PROVE  /\ IsFiniteSet(Before(answer, i + 1, 0))
         /\ MeanOver(answer, Before(answer, i + 1, 0))
              = AddSeries(MeanOver(answer, Before(answer, i, 0)), answer[i])
<1> DEFINE n == Len(answer[i])
           M(k) == MeanOver(answer, Before(answer, i, k))
<1>1. answer[i] \in Seq(Samples) /\ n \in Nat
  OBVIOUS
<1>2. M(0) \in Sums
  <2>1. Summable(Values(answer), Before(answer, i, 0))
    BY GoodIs DEF Before, Summable
  <2>2. SumFunctionOnSet(Values(answer), Before(answer, i, 0)) \in Int
    BY <2>1, SumChosen
  <2>3. Cardinality(Before(answer, i, 0)) \in Nat
    BY FS_CardinalityType
  <2> QED
    BY <2>2, <2>3 DEF MeanOver, Sums
<1>3. PICK a \in [0..n -> Sums] : /\ a[0] = M(0) /\ a[n] = AddSeries(M(0), answer[i])
                                 /\ \A k \in 1..n : a[k] = Add(a[k - 1], answer[i][k])
  BY <1>1, <1>2, SeriesAddUp
<1> DEFINE D == {k \in Nat : k <= n => IsFiniteSet(Before(answer, i, k)) /\ a[k] = M(k)}
<1> HIDE DEF M
<1>4. 0 \in D
  BY <1>3
<1>5. ASSUME NEW k \in Nat, k \in D PROVE k + 1 \in D
  <2> SUFFICES ASSUME k + 1 <= n
               PROVE  IsFiniteSet(Before(answer, i, k + 1)) /\ a[k + 1] = M(k + 1)
    OBVIOUS
  <2>1. k + 1 \in 1..n /\ k <= n /\ (k + 1) - 1 = k
    BY <1>1
  <2>2. IsFiniteSet(Before(answer, i, k)) /\ a[k] = M(k)
    BY <1>5, <2>1
  <2>3. IsFiniteSet(Before(answer, i, k + 1)) /\ M(k + 1) = Add(M(k), answer[i][k + 1])
    BY <2>1, <2>2, MeanStep DEF M
  <2> QED
    BY <1>3, <2>1, <2>2, <2>3
<1> HIDE DEF D
<1>6. n \in D
  BY <1>1, <1>4, <1>5, CountingUp
<1>7. Before(answer, i, n) = Before(answer, i + 1, 0)
  <2>1. ASSUME NEW p \in Good(answer)
        PROVE  p \in Before(answer, i, n) <=> p \in Before(answer, i + 1, 0)
    <3>1. p[1] \in Nat /\ p[2] \in Nat /\ p[2] # 0 /\ i \in Nat /\ (p[1] = i => p[2] <= n)
      BY GoodIs
    <3>2. p[1] < i \/ (p[1] = i /\ p[2] <= n) <=> p[1] < i + 1 \/ (p[1] = i + 1 /\ p[2] <= 0)
      BY <3>1
    <3> QED
      BY <3>2 DEF Before
  <2> QED
    BY <2>1 DEF Before
<1> QED
  BY <1>1, <1>3, <1>6, <1>7 DEF D, M

\* The average that the report prints is the mean of all good samples of the
\* answer, whatever series they are in and however many there are
\* (prom_query_range, lines 107-117).
THEOREM AverageIsMean ==
  \A answer \in Seq(Seq(Samples)) : Average(answer) = MeanOfGood(answer)
<1> SUFFICES ASSUME NEW answer \in Seq(Seq(Samples))
             PROVE  Average(answer) = MeanOfGood(answer)
  OBVIOUS
<1> DEFINE n == Len(answer)
           M(i) == MeanOver(answer, Before(answer, i, 0))
<1>1. n \in Nat
  OBVIOUS
<1>2. PICK a \in [0..n -> Sums] : /\ a[0] = Nothing /\ a[n] = Average(answer)
                                 /\ \A k \in 1..n : a[k] = AddSeries(a[k - 1], answer[k])
  BY AnswerAddsUp
<1> DEFINE D == {k \in Nat : k <= n => IsFiniteSet(Before(answer, k + 1, 0)) /\ a[k] = M(k + 1)}
<1>3. Before(answer, 1, 0) = {}
  <2>1. ASSUME NEW p \in Good(answer) PROVE ~(p[1] < 1 \/ (p[1] = 1 /\ p[2] <= 0))
    <3>1. p[1] \in Nat \ {0} /\ p[2] \in Nat \ {0}
      BY GoodIs
    <3> QED
      BY <3>1
  <2> QED
    BY <2>1 DEF Before
<1>4. IsFiniteSet(Before(answer, 1, 0)) /\ M(1) = Nothing
  <2>1. SumFunctionOnSet(Values(answer), {}) = 0
    BY SumChosen, FS_EmptySet DEF Summable
  <2> QED
    BY <1>3, <2>1, FS_EmptySet DEF MeanOver, Nothing
<1> HIDE DEF M
<1>5. 0 \in D
  BY <1>2, <1>4
<1>6. ASSUME NEW k \in Nat, k \in D PROVE k + 1 \in D
  <2> SUFFICES ASSUME k + 1 <= n
               PROVE  IsFiniteSet(Before(answer, k + 1 + 1, 0)) /\ a[k + 1] = M(k + 1 + 1)
    OBVIOUS
  <2>1. k + 1 \in 1..n /\ k <= n /\ (k + 1) - 1 = k
    BY <1>1
  <2>2. IsFiniteSet(Before(answer, k + 1, 0)) /\ a[k] = M(k + 1)
    BY <1>6, <2>1
  <2>3. /\ IsFiniteSet(Before(answer, k + 1 + 1, 0))
        /\ M(k + 1 + 1) = AddSeries(M(k + 1), answer[k + 1])
    BY <2>1, <2>2, MeanOfSeries DEF M
  <2> QED
    BY <1>2, <2>1, <2>2, <2>3
<1> HIDE DEF D
<1>7. n \in D
  BY <1>1, <1>5, <1>6, CountingUp
<1>8. Before(answer, n + 1, 0) = Good(answer)
  <2>1. ASSUME NEW p \in Good(answer) PROVE p[1] < n + 1
    <3>1. p[1] \in 1..n
      BY GoodIs
    <3> QED
      BY <1>1, <3>1
  <2> QED
    BY <2>1 DEF Before
<1>9. Average(answer) = MeanOver(answer, Good(answer))
  BY <1>1, <1>2, <1>7, <1>8 DEF D, M
<1>10. SumFunction(Values(answer)) = SumFunctionOnSet(Values(answer), Good(answer))
  BY DEF SumFunction, Values
<1> QED
  BY <1>9, <1>10 DEF MeanOfGood, MeanOver, Values

\* Sequences of bounded length are sequences.
LEMMA BoundedIsSeq ==
  ASSUME NEW A, NEW B, A \subseteq B, NEW n \in Nat
  PROVE  BoundedSeq(A, n) \subseteq Seq(B)
<1> SUFFICES ASSUME NEW q \in BoundedSeq(A, n) PROVE q \in Seq(B)
  OBVIOUS
<1>1. PICK m \in 0..n : q \in [1..m -> A]
  BY DEF BoundedSeq, SeqOf
<1>2. m \in Nat /\ q \in [1..m -> B]
  BY <1>1
<1> QED
  BY <1>2

\* The average is sound wherever the run looks at it.
THEOREM AverageIsRight == Spec => []AverageIsSound
<1>1. SmallAnswers \subseteq Seq(Seq(Samples))
  <2> DEFINE S == [good : BOOLEAN, v : {0, 1, 4}]
  <2>1. S \subseteq Samples
    BY DEF Samples
  <2> HIDE DEF S
  <2>2. BoundedSeq(S, 2) \subseteq Seq(Samples)
    BY <2>1, BoundedIsSeq
  <2>3. BoundedSeq(BoundedSeq(S, 2), 2) \subseteq Seq(Seq(Samples))
    BY <2>2, BoundedIsSeq
  <2> QED
    BY <2>3 DEF SmallAnswers, S
<1>2. AverageIsSound
  BY <1>1, AverageIsMean DEF AverageIsSound, MeanOfGoodSamples
<1> QED
  BY <1>2, PTL
-----------------------------------------------------------------------------
(* Tables of rows. *)

\* The rows that a loop over tables has appended after each of them.
LEMMA TablesJoin ==
  ASSUME NEW A, NEW tables \in Seq(Seq(A))
  PROVE  \E a \in [0..Len(tables) -> Seq(A)] :
           /\ a[0] = << >> /\ a[Len(tables)] = Joined(tables)
           /\ \A k \in 1..Len(tables) : a[k] = AddTable(a[k - 1], tables[k])
<1> DEFINE n == Len(tables)
           V == Seq(A)
           h == [p \in (1..n) \X V |-> AddTable(p[2], tables[p[1]])]
           Body(F) == [s \in SUBSET (1..n) |->
                         IF s = {} THEN << >> ELSE AddTable(F[s \ {Max(s)}], tables[Max(s)])]
           G == CHOOSE F : F = Body(F)
<1>1. n \in Nat /\ DOMAIN tables = 1..n /\ \A k \in 1..n : tables[k] \in V
  OBVIOUS
<1>2. h \in [(1..n) \X V -> V] /\ \A k \in 1..n, x \in V : h[<<k, x>>] = AddTable(x, tables[k])
  <2>1. ASSUME NEW p \in (1..n) \X V PROVE AddTable(p[2], tables[p[1]]) \in V
    BY <1>1 DEF AddTable
  <2> QED
    BY <2>1
<1>3. << >> \in V
  OBVIOUS
<1> HIDE DEF h, n, V
<1>4. PICK F \in [SUBSET (1..n) -> V] : Leftwards(F, n, << >>, V, h)
  <2> HIDE DEF Body, G
  <2> QED
    BY <1>1, <1>2, <1>3, LeftwardsExists, Zenon
<1>5. \A s \in SUBSET (1..n) : s # {} => Max(s) \in s
  BY <1>1, LastFirst
<1>6. F = Body(F)
  <2>1. ASSUME NEW s \in SUBSET (1..n)
        PROVE  F[s] = IF s = {} THEN << >> ELSE AddTable(F[s \ {Max(s)}], tables[Max(s)])
    <3>1. CASE s = {}
      BY <1>4, <3>1 DEF Leftwards
    <3>2. CASE s # {}
      <4>1. Max(s) \in 1..n /\ F[s \ {Max(s)}] \in V
        BY <1>5, <3>2
      <4> QED
        BY <1>2, <1>4, <3>2, <4>1 DEF Leftwards
    <3> QED
      BY <3>1, <3>2
  <2> QED
    BY <2>1
<1>7. G = Body(G)
  <2> HIDE DEF Body
  <2> QED
    BY <1>6
<1>8. G[1..n] = Joined(tables)
  BY <1>1, Zenon DEF Joined, FoldLeft, MapThenFoldSet
<1> HIDE DEF G
<1>9. \A s \in SUBSET (1..n) :
        G[s] = IF s = {} THEN << >> ELSE AddTable(G[s \ {Max(s)}], tables[Max(s)])
  BY <1>7
<1>10. Leftwards(G, n, << >>, V, h)
  <2>1. G[{}] = << >>
    BY <1>9
  <2>2. ASSUME NEW s \in SUBSET (1..n), s # {}, G[s \ {Max(s)}] \in V
        PROVE  G[s] = h[<<Max(s), G[s \ {Max(s)}]>>]
    <3>1. Max(s) \in 1..n
      BY <1>5, <2>2
    <3>2. G[s] = AddTable(G[s \ {Max(s)}], tables[Max(s)])
      BY <1>9, <2>2, Zenon
    <3> QED
      BY <1>2, <2>2, <3>1, <3>2
  <2> QED
    BY <2>1, <2>2 DEF Leftwards
<1> HIDE DEF Body
<1>11. PICK a : Partials(a, G, n, << >>, V, h)
  BY <1>1, <1>2, <1>3, <1>10, LeftToRight, Zenon
<1>12. ASSUME NEW k \in 1..n PROVE a[k] = AddTable(a[k - 1], tables[k])
  <2>1. k - 1 \in 0..n
    BY <1>1
  <2> QED
    BY <1>2, <1>11, <2>1 DEF Partials
<1>13. /\ a \in [0..n -> V] /\ a[0] = << >> /\ a[n] = Joined(tables)
       /\ \A k \in 1..n : a[k] = AddTable(a[k - 1], tables[k])
  BY <1>8, <1>11, <1>12 DEF Partials
<1> QED
  BY <1>13 DEF n, V

\* Where a row comes from: the table and the place in it, read in this order.
Cells(tables, k) == {c \in (1..k) \X (Nat \ {0}) : c[2] <= Len(tables[c[1]])}
After(c, d) == c[1] < d[1] \/ (c[1] = d[1] /\ c[2] < d[2])
Listing(m, rows, tables, k) ==
    /\ m \in [1..Len(rows) -> Cells(tables, k)]
    /\ \A i \in 1..Len(rows) : rows[i] = tables[m[i][1]][m[i][2]]
    /\ \A i, j \in 1..Len(rows) : i < j => After(m[i], m[j])
    /\ \A c \in Cells(tables, k) : \E i \in 1..Len(rows) : m[i] = c

\* Another table is appended.
LEMMA ListingGrows ==
  ASSUME NEW A, NEW tables \in Seq(Seq(A)), NEW k \in Nat, k + 1 <= Len(tables),
         NEW rows \in Seq(A), NEW m, Listing(m, rows, tables, k)
  PROVE  \E w : Listing(w, AddTable(rows, tables[k + 1]), tables, k + 1)
<1> DEFINE t == tables[k + 1]
           r == AddTable(rows, t)
           a == Len(rows)
           w == [i \in 1..Len(r) |-> IF i <= a THEN m[i] ELSE <<k + 1, i - a>>]
<1>1. /\ t \in Seq(A) /\ Len(t) \in Nat /\ a \in Nat /\ Len(r) = a + Len(t)
      /\ \A i \in 1..Len(r) : r[i] = IF i <= a THEN rows[i] ELSE t[i - a]
  BY DEF AddTable
<1> HIDE DEF r, a
<1>2. ASSUME NEW i \in 1..Len(r), i <= a
      PROVE  /\ i \in 1..a /\ w[i] = m[i] /\ m[i] \in Cells(tables, k)
             /\ m[i][1] \in 1..k /\ m[i][2] \in Nat /\ r[i] = rows[i]
  <2>1. i \in 1..a /\ w[i] = m[i] /\ r[i] = rows[i]
    BY <1>1, <1>2
  <2>2. m[i] \in Cells(tables, k)
    BY <2>1 DEF Listing, a
  <2> QED
    BY <2>1, <2>2 DEF Cells
<1>3. ASSUME NEW i \in 1..Len(r), ~(i <= a)
      PROVE  i - a \in 1..Len(t) /\ w[i] = <<k + 1, i - a>> /\ r[i] = t[i - a]
  <2>1. i \in Nat /\ i <= a + Len(t) /\ i > a
    BY <1>1, <1>3
  <2>2. i - a \in 1..Len(t)
    BY <1>1, <2>1
  <2> QED
    BY <1>1, <1>3, <2>2
<1>4. Cells(tables, k + 1) = Cells(tables, k) \cup {<<k + 1, j>> : j \in 1..Len(t)}
  <2>1. ASSUME NEW c \in Cells(tables, k + 1)
        PROVE  c \in Cells(tables, k) \/ c \in {<<k + 1, j>> : j \in 1..Len(t)}
    <3>1. CASE c[1] = k + 1
      <4>1. c = <<k + 1, c[2]>> /\ c[2] \in 1..Len(t)
        BY <1>1, <3>1 DEF Cells
      <4> QED
        BY <4>1
    <3>2. CASE c[1] # k + 1
      <4>1. c[1] \in 1..k
        BY <3>2 DEF Cells
      <4> QED
        BY <4>1 DEF Cells
    <3> QED
      BY <3>1, <3>2
  <2>2. ASSUME NEW j \in 1..Len(t) PROVE <<k + 1, j>> \in Cells(tables, k + 1)
    BY <1>1 DEF Cells
  <2>3. Cells(tables, k) \subseteq Cells(tables, k + 1)
    BY DEF Cells
  <2> QED
    BY <2>1, <2>2, <2>3
<1>5. w \in [1..Len(r) -> Cells(tables, k + 1)]
  <2>1. ASSUME NEW i \in 1..Len(r) PROVE w[i] \in Cells(tables, k + 1)
    <3>1. CASE i <= a
      BY <1>2, <1>4, <3>1
    <3>2. CASE ~(i <= a)
      BY <1>4, <1>3, <3>2
    <3> QED
      BY <3>1, <3>2
  <2> QED
    BY <2>1
<1>6. ASSUME NEW i \in 1..Len(r) PROVE r[i] = tables[w[i][1]][w[i][2]]
  <2>1. CASE i <= a
    <3>1. i \in 1..a /\ w[i] = m[i] /\ r[i] = rows[i]
      BY <1>2, <2>1
    <3>2. rows[i] = tables[m[i][1]][m[i][2]]
      BY <3>1 DEF Listing, a
    <3> QED
      BY <3>1, <3>2
  <2>2. CASE ~(i <= a)
    BY <1>3, <2>2
  <2> QED
    BY <2>1, <2>2
<1>7. ASSUME NEW i \in 1..Len(r), NEW j \in 1..Len(r), i < j PROVE After(w[i], w[j])
  <2>1. CASE j <= a
    <3>1. i \in 1..a /\ j \in 1..a /\ w[i] = m[i] /\ w[j] = m[j]
      BY <1>1, <1>2, <1>7, <2>1
    <3>2. After(m[i], m[j])
      BY <1>7, <3>1 DEF Listing, a
    <3> QED
      BY <3>1, <3>2
  <2>2. CASE i <= a /\ ~(j <= a)
    <3>1. w[i][1] \in 1..k /\ w[j][1] = k + 1
      BY <1>2, <1>3, <2>2
    <3> QED
      BY <3>1 DEF After
  <2>3. CASE ~(i <= a) /\ ~(j <= a)
    <3>1. w[i] = <<k + 1, i - a>> /\ w[j] = <<k + 1, j - a>>
      BY <1>3, <2>3
    <3>2. w[i][1] = w[j][1] /\ w[i][2] = i - a /\ w[j][2] = j - a
      BY <3>1
    <3>3. i - a < j - a
      BY <1>1, <1>7
    <3> QED
      BY <3>2, <3>3 DEF After
  <2> QED
    BY <1>1, <1>7, <2>1, <2>2, <2>3
<1>8. ASSUME NEW c \in Cells(tables, k + 1) PROVE \E i \in 1..Len(r) : w[i] = c
  <2>1. CASE c \in Cells(tables, k)
    <3>1. PICK i \in 1..a : m[i] = c
      BY <2>1 DEF Listing, a
    <3>2. i \in 1..Len(r) /\ i <= a
      BY <1>1
    <3> QED
      BY <1>2, <3>1, <3>2
  <2>2. CASE c \in {<<k + 1, j>> : j \in 1..Len(t)}
    <3>1. PICK j \in 1..Len(t) : c = <<k + 1, j>>
      BY <2>2
    <3>2. a + j \in 1..Len(r) /\ ~(a + j <= a) /\ (a + j) - a = j
      BY <1>1
    <3> QED
      BY <1>3, <3>1, <3>2
  <2> QED
    BY <1>4, <2>1, <2>2
<1> HIDE DEF w
<1>9. Listing(w, r, tables, k + 1)
  BY <1>5, <1>6, <1>7, <1>8 DEF Listing
<1> QED
  BY <1>9 DEF r

\* The rows of a loop over tables are theirs, in their order.
LEMMA JoinedLists ==
  ASSUME NEW A, NEW tables \in Seq(Seq(A))
  PROVE  Joined(tables) \in Seq(A) /\ \E m : Listing(m, Joined(tables), tables, Len(tables))
<1> DEFINE n == Len(tables)
<1>1. PICK a \in [0..n -> Seq(A)] :
             /\ a[0] = << >> /\ a[n] = Joined(tables)
             /\ \A k \in 1..n : a[k] = AddTable(a[k - 1], tables[k])
  BY TablesJoin
<1>2. n \in Nat
  OBVIOUS
<1> HIDE DEF n
<1> DEFINE D == {k \in Nat : k <= n => \E m : Listing(m, a[k], tables, k)}
<1>3. 0 \in D
  <2>1. Listing(<< >>, << >>, tables, 0)
    BY DEF Listing, Cells
  <2> QED
    BY <1>1, <2>1
<1>4. ASSUME NEW k \in Nat, k \in D PROVE k + 1 \in D
  <2> SUFFICES ASSUME k + 1 <= n PROVE \E w : Listing(w, a[k + 1], tables, k + 1)
    OBVIOUS
  <2>1. k <= n /\ k \in 0..n /\ k + 1 \in 1..n /\ (k + 1) - 1 = k
    BY <1>2
  <2>2. PICK m : Listing(m, a[k], tables, k)
    BY <1>4, <2>1
  <2>3. a[k + 1] = AddTable(a[k], tables[k + 1]) /\ a[k] \in Seq(A)
    BY <1>1, <2>1
  <2> QED
    BY <2>2, <2>3, ListingGrows DEF n
<1> HIDE DEF D
<1>5. n \in D
  BY <1>2, <1>3, <1>4, CountingUp
<1> QED
  BY <1>1, <1>2, <1>5 DEF D, n

\* The places of what a loop has kept, from the first to the last.
KeptAt(f, rows, seq, places) ==
    /\ f \in [1..Len(rows) -> places]
    /\ \A i \in 1..Len(rows) : rows[i] = seq[f[i]]
    /\ \A i, j \in 1..Len(rows) : i < j => f[i] < f[j]
    /\ \A p \in places : \E i \in 1..Len(rows) : f[i] = p

\* A loop keeps what stands at these places, in the order of the sequence.
LEMMA KeepsPlaces ==
  ASSUME NEW A, NEW seq \in Seq(A), NEW places \in SUBSET DOMAIN seq
  PROVE  Kept(seq, places) \in Seq(A) /\ \E f : KeptAt(f, Kept(seq, places), seq, places)
<1> DEFINE n == Len(seq)
           tables == [i \in DOMAIN seq |-> IF i \in places THEN <<seq[i]>> ELSE << >>]
           rows == Kept(seq, places)
<1>1. /\ n \in Nat /\ DOMAIN seq = 1..n /\ places \subseteq 1..n
      /\ tables \in Seq(Seq(A)) /\ Len(tables) = n /\ rows = Joined(tables)
      /\ \A i \in 1..n : tables[i] = IF i \in places THEN <<seq[i]>> ELSE << >>
  <2>1. n \in Nat /\ DOMAIN seq = 1..n /\ places \subseteq 1..n /\ \A i \in 1..n : seq[i] \in A
    OBVIOUS
  <2>2. rows = Joined(tables)
    BY Zenon DEF Kept
  <2> HIDE DEF n, rows
  <2>3. ASSUME NEW i \in 1..n PROVE (IF i \in places THEN <<seq[i]>> ELSE << >>) \in Seq(A)
    BY <2>1
  <2>4. /\ tables \in [1..n -> Seq(A)]
        /\ \A i \in 1..n : tables[i] = IF i \in places THEN <<seq[i]>> ELSE << >>
    BY <2>1, <2>3
  <2> HIDE DEF tables
  <2>5. tables \in Seq(Seq(A)) /\ Len(tables) = n
    BY <2>1, <2>4
  <2> QED
    BY <2>1, <2>2, <2>4, <2>5
<1> HIDE DEF n, tables, rows
<1>2. PICK m : rows \in Seq(A) /\ Listing(m, rows, tables, n)
  BY <1>1, JoinedLists
<1>3. ASSUME NEW c \in Cells(tables, n)
      PROVE  c[1] \in places /\ c[2] = 1 /\ tables[c[1]][c[2]] = seq[c[1]] /\ c[1] \in 1..n
  <2>1. c[1] \in 1..n /\ c[2] \in Nat /\ c[2] # 0 /\ c[2] <= Len(tables[c[1]])
    BY <1>3 DEF Cells
  <2>2. c[1] \in places
    BY <1>1, <2>1
  <2>3. tables[c[1]] = <<seq[c[1]]>>
    BY <1>1, <2>1, <2>2
  <2> QED
    BY <2>1, <2>2, <2>3
<1> DEFINE f == [i \in 1..Len(rows) |-> m[i][1]]
<1>4. \A i \in 1..Len(rows) : m[i] \in Cells(tables, n) /\ rows[i] = tables[m[i][1]][m[i][2]]
  BY <1>2 DEF Listing
<1>5. f \in [1..Len(rows) -> places] /\ \A i \in 1..Len(rows) : rows[i] = seq[f[i]]
  BY <1>3, <1>4
<1>6. ASSUME NEW i \in 1..Len(rows), NEW j \in 1..Len(rows), i < j PROVE f[i] < f[j]
  <2>1. After(m[i], m[j])
    BY <1>2, <1>6 DEF Listing
  <2>2. m[i][2] = 1 /\ m[j][2] = 1
    BY <1>3, <1>4
  <2> QED
    BY <2>1, <2>2 DEF After
<1>7. ASSUME NEW p \in places PROVE \E i \in 1..Len(rows) : f[i] = p
  <2>1. p \in 1..n /\ tables[p] = <<seq[p]>>
    BY <1>1
  <2>2. <<p, 1>> \in Cells(tables, n)
    <3> DEFINE c == <<p, 1>>
    <3>1. c[1] = p /\ c[2] = 1 /\ c \in (1..n) \X (Nat \ {0})
      BY <2>1
    <3>2. Len(tables[p]) = 1
      BY <2>1
    <3> HIDE DEF c
    <3>3. c[2] <= Len(tables[c[1]])
      BY <3>1, <3>2
    <3>4. c \in Cells(tables, n)
      BY <3>1, <3>3 DEF Cells
    <3> QED
      BY <3>4 DEF c
  <2>3. PICK i \in 1..Len(rows) : m[i] = <<p, 1>>
    BY <1>2, <2>2 DEF Listing
  <2> QED
    BY <2>3
<1> HIDE DEF f
<1>8. KeptAt(f, rows, seq, places)
  BY <1>5, <1>6, <1>7 DEF KeptAt
<1> QED
  BY <1>2, <1>8 DEF rows

\* A plan, whatever its tests and the set Gs of their groups.
PlanRows(Gs) == [name : Nat, group : Gs, type : {"ramp", "fixed"}]
IsPlan(plan, Gs) ==
    /\ plan \in Seq(PlanRows(Gs))
    /\ \A i \in 1..Len(plan) : /\ plan[i].name = i
                               /\ plan[i].type = "ramp" <=> plan[i].group = "RAMP"

\* The plans over these groups are such plans.
LEMMA PlanIs ==
  ASSUME NEW Gs, NEW plan \in PlansOf(Seq(Gs))
  PROVE  IsPlan(plan, Gs)
<1>1. PICK gs \in Seq(Gs) :
        plan = [i \in DOMAIN gs |-> [name |-> i, group |-> gs[i],
                                     type |-> IF gs[i] = "RAMP" THEN "ramp" ELSE "fixed"]]
  BY DEF PlansOf
<1>2. Len(gs) \in Nat /\ DOMAIN gs = 1..Len(gs) /\ \A i \in 1..Len(gs) : gs[i] \in Gs
  OBVIOUS
<1>3. plan \in [1..Len(gs) -> PlanRows(Gs)]
  BY <1>1, <1>2 DEF PlanRows
<1>4. plan \in Seq(PlanRows(Gs)) /\ Len(plan) = Len(gs)
  BY <1>2, <1>3
<1> QED
  BY <1>1, <1>2, <1>4 DEF IsPlan

\* The groups gs of the tables and where each of them begins in the plan.
Begins(f, gs, plan, Gs) ==
    /\ gs \in Seq(Gs) /\ f \in [1..Len(gs) -> 1..Len(plan)]
    /\ \A a, b \in 1..Len(gs) : a < b => f[a] < f[b]
    /\ \A a \in 1..Len(gs) : /\ plan[f[a]].group = gs[a]
                             /\ \A j \in 1..f[a] - 1 : plan[j].group # gs[a]

\* group_order has every group, at its first test.
LEMMA GroupOrderBegins ==
  ASSUME NEW Gs, NEW plan, IsPlan(plan, Gs)
  PROVE  \E f : /\ Begins(f, GroupOrder(plan), plan, Gs)
                /\ \A i \in 1..Len(plan) :
                     \E a \in 1..Len(GroupOrder(plan)) : GroupOrder(plan)[a] = plan[i].group
<1> DEFINE n == Len(plan)
           gs == GroupOrder(plan)
           all == Groups(plan)
           firsts == {i \in DOMAIN plan : \A j \in 1..i - 1 : plan[j].group # plan[i].group}
<1>1. /\ n \in Nat /\ DOMAIN plan = 1..n /\ all \in Seq(Gs) /\ Len(all) = n /\ DOMAIN all = 1..n
      /\ \A i \in 1..n : all[i] = plan[i].group
  <2>1. n \in Nat /\ DOMAIN plan = 1..n /\ \A i \in 1..n : plan[i] \in PlanRows(Gs)
    BY DEF IsPlan
  <2>2. \A i \in 1..n : plan[i].group \in Gs
    BY <2>1 DEF PlanRows
  <2>3. all = [i \in 1..n |-> plan[i].group]
    BY <2>1 DEF Groups
  <2> HIDE DEF n, all
  <2>4. all \in [1..n -> Gs] /\ \A i \in 1..n : all[i] = plan[i].group
    BY <2>2, <2>3
  <2> QED
    BY <2>1, <2>4
<1>2. firsts \in SUBSET DOMAIN all /\ gs = Kept(all, firsts)
  BY <1>1 DEF GroupOrder
<1> HIDE DEF gs, all, n
<1>3. PICK f : gs \in Seq(Gs) /\ KeptAt(f, gs, all, firsts)
  <2> HIDE DEF firsts
  <2> QED
    BY <1>1, <1>2, KeepsPlaces
<1>4. f \in [1..Len(gs) -> firsts] /\ \A a \in 1..Len(gs) : gs[a] = all[f[a]]
  BY <1>3 DEF KeptAt
<1>5. \A a \in 1..Len(gs) : /\ f[a] \in 1..n /\ plan[f[a]].group = gs[a]
                            /\ \A j \in 1..f[a] - 1 : plan[j].group # gs[a]
  BY <1>1, <1>4
<1>6. f \in [1..Len(gs) -> 1..n]
  BY <1>4, <1>5
<1>7. Begins(f, gs, plan, Gs)
  BY <1>3, <1>5, <1>6 DEF Begins, KeptAt, n
<1>8. ASSUME NEW i \in 1..n PROVE \E a \in 1..Len(gs) : gs[a] = plan[i].group
  <2> DEFINE B == {k \in Nat : k \in 1..n /\ plan[k].group = plan[i].group}
  <2>1. i \in B
    BY <1>1
  <2>2. PICK k \in B : \A j \in B : k <= j
    BY <2>1, LeastExists
  <2>3. ASSUME NEW j \in 1..k - 1 PROVE plan[j].group # plan[k].group
    <3>1. j \in 1..n /\ ~(k <= j)
      BY <1>1, <2>2
    <3> QED
      BY <2>2, <3>1
  <2>4. k \in firsts
    BY <1>1, <2>2, <2>3
  <2>5. PICK a \in 1..Len(gs) : f[a] = k
    <3> HIDE DEF firsts, B
    <3> QED
      BY <1>3, <2>4 DEF KeptAt
  <2> QED
    BY <1>5, <2>2, <2>5
<1> QED
  BY <1>7, <1>8 DEF gs, n

\* The tables of such groups have one row for each test of the groups, in the
\* order of Above.
LEMMA TablesInOrder ==
  ASSUME NEW Gs, NEW plan, IsPlan(plan, Gs), NEW gs, NEW f, Begins(f, gs, plan, Gs)
  PROVE  /\ RowsOf(plan, gs) \in Seq(PlanRows(Gs))
         /\ ToSet(RowsOf(plan, gs)) = {t \in ToSet(plan) : \E a \in 1..Len(gs) : gs[a] = t.group}
         /\ \A i, j \in DOMAIN RowsOf(plan, gs) :
              i < j => Above(plan, RowsOf(plan, gs)[i], RowsOf(plan, gs)[j])
<1> DEFINE n == Len(plan)
           g == Len(gs)
           OfGroup(a) == {i \in DOMAIN plan : plan[i].group = gs[a]}
           tables == [a \in DOMAIN gs |-> Group(plan, gs[a])]
           rows == RowsOf(plan, gs)
<1>1. /\ n \in Nat /\ DOMAIN plan = 1..n /\ g \in Nat /\ DOMAIN gs = 1..g
      /\ \A i \in 1..n : plan[i] \in PlanRows(Gs) /\ plan[i].name = i
  BY DEF IsPlan, Begins
<1>2. rows = Joined(tables)
  BY Zenon DEF RowsOf
<1>3. \A a \in 1..g : tables[a] = Kept(plan, OfGroup(a)) /\ OfGroup(a) \in SUBSET DOMAIN plan
  BY <1>1 DEF Group
<1> HIDE DEF n, g, rows
<1>4. ASSUME NEW a \in 1..g
      PROVE  tables[a] \in Seq(PlanRows(Gs)) /\ \E h : KeptAt(h, tables[a], plan, OfGroup(a))
  <2>1. plan \in Seq(PlanRows(Gs))
    BY DEF IsPlan
  <2>2. tables[a] = Kept(plan, OfGroup(a)) /\ OfGroup(a) \in SUBSET DOMAIN plan
    BY <1>3
  <2> HIDE DEF OfGroup, tables
  <2> QED
    BY <2>1, <2>2, KeepsPlaces, Zenon
<1>5. tables \in Seq(Seq(PlanRows(Gs))) /\ Len(tables) = g
  <2>1. tables \in [1..g -> Seq(PlanRows(Gs))]
    BY <1>1, <1>4
  <2> HIDE DEF tables
  <2> QED
    BY <1>1, <2>1
<1> HIDE DEF tables
<1>6. PICK m : rows \in Seq(PlanRows(Gs)) /\ Listing(m, rows, tables, g)
  BY <1>2, <1>5, JoinedLists
<1> DEFINE r == Len(rows)
<1>7. r \in Nat /\ DOMAIN rows = 1..r
  BY <1>6
\* The row in place b of table a.
<1>8. ASSUME NEW a \in 1..g, NEW b \in 1..Len(tables[a])
      PROVE  /\ tables[a][b] \in ToSet(plan) /\ tables[a][b].group = gs[a]
             /\ \A c \in 1..Len(tables[a]) : b < c => tables[a][b].name < tables[a][c].name
  <2>1. PICK h : KeptAt(h, tables[a], plan, OfGroup(a))
    BY <1>4
  <2>2. \A c \in 1..Len(tables[a]) : h[c] \in OfGroup(a) /\ tables[a][c] = plan[h[c]]
    BY <2>1 DEF KeptAt
  <2>3. \A c \in 1..Len(tables[a]) : h[c] \in 1..n /\ plan[h[c]].group = gs[a] /\ plan[h[c]].name = h[c]
    BY <1>1, <2>2
  <2>4. \A c \in 1..Len(tables[a]) : b < c => h[b] < h[c]
    BY <2>1 DEF KeptAt
  <2> HIDE DEF OfGroup
  <2> QED
    BY <1>1, <2>2, <2>3, <2>4 DEF ToSet
<1>9. ASSUME NEW i \in 1..r
      PROVE  /\ m[i][1] \in 1..g /\ m[i][2] \in 1..Len(tables[m[i][1]])
             /\ rows[i] = tables[m[i][1]][m[i][2]]
  <2>1. m[i] \in Cells(tables, g) /\ rows[i] = tables[m[i][1]][m[i][2]]
    BY <1>6 DEF Listing
  <2>2. m[i][1] \in 1..g /\ m[i][2] \in Nat \ {0} /\ m[i][2] <= Len(tables[m[i][1]])
    BY <2>1 DEF Cells
  <2>3. tables[m[i][1]] \in Seq(PlanRows(Gs))
    BY <1>4, <2>2
  <2> QED
    BY <2>1, <2>2, <2>3
<1>10. ASSUME NEW i \in 1..r, NEW j \in 1..r, i < j PROVE Above(plan, rows[i], rows[j])
  <2>1. After(m[i], m[j])
    BY <1>6, <1>10 DEF Listing
  <2>2. rows[i].group = gs[m[i][1]] /\ rows[j].group = gs[m[j][1]]
    BY <1>8, <1>9
  <2>3. CASE m[i][1] < m[j][1]
    <3>1. /\ f[m[i][1]] \in 1..n /\ f[m[i][1]] < f[m[j][1]] /\ f[m[j][1]] \in 1..n
          /\ plan[f[m[i][1]]].group = gs[m[i][1]]
          /\ \A k \in 1..f[m[j][1]] - 1 : plan[k].group # gs[m[j][1]]
      BY <1>9, <2>3 DEF Begins, g, n
    <3>2. \A k \in 1..f[m[i][1]] : plan[k].group # gs[m[j][1]]
      BY <3>1
    <3> QED
      BY <1>1, <2>2, <3>1, <3>2 DEF Above
  <2>4. CASE m[i][1] = m[j][1] /\ m[i][2] < m[j][2]
    <3>1. PICK a \in 1..g : \E b, c \in 1..Len(tables[a]) :
                 rows[i] = tables[a][b] /\ rows[j] = tables[a][c] /\ b < c
      BY <1>9, <2>4
    <3>2. rows[i].name < rows[j].name
      BY <1>8, <3>1
    <3> QED
      BY <2>2, <2>4, <3>2 DEF Above
  <2> QED
    BY <2>1, <2>3, <2>4 DEF After
<1>11. ASSUME NEW i \in 1..r
       PROVE  rows[i] \in ToSet(plan) /\ \E a \in 1..g : gs[a] = rows[i].group
  <2>1. PICK a \in 1..g : \E b \in 1..Len(tables[a]) : rows[i] = tables[a][b]
    BY <1>9
  <2> QED
    BY <1>8, <2>1
<1>12. ASSUME NEW t \in ToSet(plan), NEW a \in 1..g, gs[a] = t.group
       PROVE  \E i \in 1..r : rows[i] = t
  <2>1. PICK p \in 1..n : plan[p] = t
    BY <1>1 DEF ToSet
  <2>2. PICK h : KeptAt(h, tables[a], plan, OfGroup(a))
    BY <1>4
  <2>3. p \in OfGroup(a)
    BY <1>1, <1>12, <2>1
  <2>4. PICK b \in 1..Len(tables[a]) : h[b] = p
    BY <2>2, <2>3 DEF KeptAt
  <2>5. tables[a][b] = t
    BY <2>1, <2>2, <2>4 DEF KeptAt
  <2>6. tables[a] \in Seq(PlanRows(Gs))
    BY <1>4
  <2>7. <<a, b>> \in Cells(tables, g)
    BY <2>6 DEF Cells
  <2>8. PICK i \in 1..r : m[i] = <<a, b>>
    BY <1>6, <2>7 DEF Listing
  <2> QED
    BY <1>9, <2>5, <2>8
<1>13. ToSet(rows) = {t \in ToSet(plan) : \E a \in 1..g : gs[a] = t.group}
  <2>1. \A t : t \in ToSet(rows) <=> \E i \in 1..r : rows[i] = t
    BY <1>7 DEF ToSet
  <2> HIDE DEF r
  <2> QED
    BY <1>11, <1>12, <2>1
<1> QED
  BY <1>6, <1>7, <1>10, <1>13 DEF rows, g

\* Leaving out the ramps keeps the order of the groups.
LEMMA AveragedBegins ==
  ASSUME NEW Gs, NEW plan, IsPlan(plan, Gs), NEW gs, NEW f, Begins(f, gs, plan, Gs)
  PROVE  \E e : /\ Begins(e, Averaged(gs), plan, Gs)
                /\ \A a \in 1..Len(gs) : gs[a] # "RAMP" =>
                     \E b \in 1..Len(Averaged(gs)) : Averaged(gs)[b] = gs[a]
                /\ \A b \in 1..Len(Averaged(gs)) : Averaged(gs)[b] # "RAMP"
<1> DEFINE places == {a \in DOMAIN gs : TableOf(gs[a]) # "steps"}
           ks == Averaged(gs)
<1>1. gs \in Seq(Gs) /\ Len(gs) \in Nat /\ DOMAIN gs = 1..Len(gs)
  BY DEF Begins
<1>2. ks = Kept(gs, places) /\ places \in SUBSET DOMAIN gs
  BY DEF Averaged
<1>3. \A a \in 1..Len(gs) : a \in places <=> gs[a] # "RAMP"
  BY <1>1 DEF TableOf
<1> HIDE DEF places, ks
<1>4. PICK h : ks \in Seq(Gs) /\ KeptAt(h, ks, gs, places)
  BY <1>1, <1>2, KeepsPlaces
<1>5. \A b \in 1..Len(ks) : h[b] \in places /\ h[b] \in 1..Len(gs) /\ ks[b] = gs[h[b]]
  BY <1>1, <1>2, <1>4 DEF KeptAt
<1> DEFINE e == [b \in 1..Len(ks) |-> f[h[b]]]
<1>6. e \in [1..Len(ks) -> 1..Len(plan)]
  BY <1>5 DEF Begins
<1>7. ASSUME NEW a \in 1..Len(ks), NEW b \in 1..Len(ks), a < b PROVE e[a] < e[b]
  <2>1. h[a] < h[b]
    BY <1>4, <1>7 DEF KeptAt
  <2> QED
    BY <1>5, <2>1 DEF Begins
<1>8. \A b \in 1..Len(ks) : /\ plan[e[b]].group = ks[b]
                            /\ \A j \in 1..e[b] - 1 : plan[j].group # ks[b]
  BY <1>5 DEF Begins
<1> HIDE DEF e
<1>9. Begins(e, ks, plan, Gs)
  BY <1>4, <1>6, <1>7, <1>8 DEF Begins
<1>10. ASSUME NEW a \in 1..Len(gs), gs[a] # "RAMP"
       PROVE  \E b \in 1..Len(ks) : ks[b] = gs[a]
  <2>1. PICK b \in 1..Len(ks) : h[b] = a
    BY <1>3, <1>4, <1>10 DEF KeptAt
  <2> QED
    BY <1>5, <2>1
<1>11. \A b \in 1..Len(ks) : ks[b] # "RAMP"
  BY <1>3, <1>5
<1> QED
  BY <1>9, <1>10, <1>11 DEF ks

\* Sections 3 and 4 have the tests that are not ramps, in the order of the plan.
LEMMA ResourcesInOrder ==
  ASSUME NEW Gs, NEW plan, IsPlan(plan, Gs)
  PROVE  /\ ToSet(ResourceRows(plan)) = {t \in ToSet(plan) : t.type # "ramp"}
         /\ \A i, j \in DOMAIN ResourceRows(plan) :
              i < j => ResourceRows(plan)[i].name < ResourceRows(plan)[j].name
<1> DEFINE n == Len(plan)
           places == {i \in DOMAIN plan : plan[i].type = "fixed"}
           rows == ResourceRows(plan)
<1>1. /\ n \in Nat /\ DOMAIN plan = 1..n /\ plan \in Seq(PlanRows(Gs))
      /\ \A i \in 1..n : plan[i] \in PlanRows(Gs) /\ plan[i].name = i
  BY DEF IsPlan
<1>2. rows = Kept(plan, places) /\ places \in SUBSET DOMAIN plan
  BY DEF ResourceRows
<1>3. \A i \in 1..n : i \in places <=> plan[i].type # "ramp"
  BY <1>1 DEF PlanRows
<1> HIDE DEF places, rows, n
<1>4. PICK f : rows \in Seq(PlanRows(Gs)) /\ KeptAt(f, rows, plan, places)
  BY <1>1, <1>2, KeepsPlaces
<1>5. DOMAIN rows = 1..Len(rows)
  BY <1>4
<1>6. \A i \in 1..Len(rows) : f[i] \in places /\ f[i] \in 1..n /\ rows[i] = plan[f[i]]
  BY <1>1, <1>2, <1>4 DEF KeptAt
<1>7. \A i, j \in 1..Len(rows) : i < j => rows[i].name < rows[j].name
  <2>1. \A i, j \in 1..Len(rows) : i < j => f[i] < f[j]
    BY <1>4 DEF KeptAt
  <2>2. \A i \in 1..Len(rows) : rows[i].name = f[i]
    BY <1>1, <1>6
  <2> QED
    BY <2>1, <2>2
<1>8. ASSUME NEW t \in ToSet(plan), t.type # "ramp" PROVE \E i \in 1..Len(rows) : rows[i] = t
  <2>1. PICK p \in 1..n : plan[p] = t
    BY <1>1 DEF ToSet
  <2>2. PICK i \in 1..Len(rows) : f[i] = p
    BY <1>3, <1>4, <1>8, <2>1 DEF KeptAt
  <2> QED
    BY <1>6, <2>1, <2>2
<1>9. ASSUME NEW i \in 1..Len(rows) PROVE rows[i] \in ToSet(plan) /\ rows[i].type # "ramp"
  BY <1>1, <1>3, <1>6 DEF ToSet
<1>10. \A t : t \in ToSet(rows) <=> \E i \in 1..Len(rows) : rows[i] = t
  BY <1>5 DEF ToSet
<1>11. ToSet(rows) = {t \in ToSet(plan) : t.type # "ramp"}
  BY <1>8, <1>9, <1>10
<1> QED
  BY <1>5, <1>7, <1>11 DEF rows

\* Whatever the plan, and however its groups are interleaved, the report has one
\* row for each test in each section that the test is of: build_report neither
\* drops nor repeats a test, and keeps the tests of a group together.
THEOREM EveryPlanHasItsRows ==
  ASSUME NEW Gs, NEW plan \in PlansOf(Seq(Gs))
  PROVE  OneRowFor(plan)
<1>1. IsPlan(plan, Gs)
  BY PlanIs
<1> DEFINE gs == GroupOrder(plan)
           ks == Averaged(gs)
<1>2. PICK f : /\ Begins(f, gs, plan, Gs)
               /\ \A i \in 1..Len(plan) : \E a \in 1..Len(gs) : gs[a] = plan[i].group
  BY <1>1, GroupOrderBegins
<1> HIDE DEF gs
<1>3. PICK e : /\ Begins(e, ks, plan, Gs)
               /\ \A a \in 1..Len(gs) : gs[a] # "RAMP" => \E b \in 1..Len(ks) : ks[b] = gs[a]
               /\ \A b \in 1..Len(ks) : ks[b] # "RAMP"
  BY <1>1, <1>2, AveragedBegins
<1> HIDE DEF ks
<1>4. /\ ThroughputRows(plan) = RowsOf(plan, gs) /\ LatencyRows(plan) = RowsOf(plan, ks)
  BY Zenon DEF ThroughputRows, LatencyRows, gs, ks
<1>5. ASSUME NEW t \in ToSet(plan)
      PROVE  /\ \E a \in 1..Len(gs) : gs[a] = t.group
             /\ t.type # "ramp" <=> \E b \in 1..Len(ks) : ks[b] = t.group
  <2>1. PICK p \in 1..Len(plan) : plan[p] = t
    BY <1>1 DEF IsPlan, ToSet
  <2>2. t.type = "ramp" <=> t.group = "RAMP"
    BY <1>1, <2>1 DEF IsPlan
  <2> QED
    BY <1>2, <1>3, <2>1, <2>2
<1>6. /\ ToSet(RowsOf(plan, gs)) = ToSet(plan)
      /\ \A i, j \in DOMAIN RowsOf(plan, gs) :
           i < j => Above(plan, RowsOf(plan, gs)[i], RowsOf(plan, gs)[j])
  <2>1. ToSet(plan) = {t \in ToSet(plan) : \E a \in 1..Len(gs) : gs[a] = t.group}
    BY <1>5
  <2>2. /\ ToSet(RowsOf(plan, gs)) = {t \in ToSet(plan) : \E a \in 1..Len(gs) : gs[a] = t.group}
        /\ \A i, j \in DOMAIN RowsOf(plan, gs) :
             i < j => Above(plan, RowsOf(plan, gs)[i], RowsOf(plan, gs)[j])
    BY <1>1, <1>2, TablesInOrder
  <2> QED
    BY <2>1, <2>2
<1>7. /\ ToSet(RowsOf(plan, ks)) = {t \in ToSet(plan) : t.type # "ramp"}
      /\ \A i, j \in DOMAIN RowsOf(plan, ks) :
           i < j => Above(plan, RowsOf(plan, ks)[i], RowsOf(plan, ks)[j])
  BY <1>1, <1>3, <1>5, TablesInOrder
<1> QED
  BY <1>1, <1>4, <1>6, <1>7, ResourcesInOrder DEF OneRowFor

\* The rows are right wherever the run looks at them.
THEOREM EveryTestHasOneRow == Spec => []RowsOnce
<1> DEFINE Gs == {"A", "SIZE", "RAMP"}
<1>1. SmallPlans \subseteq PlansOf(Seq(Gs))
  <2>1. BoundedSeq(Gs, 4) \subseteq Seq(Gs)
    BY BoundedIsSeq
  <2> QED
    BY <2>1 DEF SmallPlans, PlansOf
<1>2. \A plan \in SmallPlans : OneRowFor(plan)
  BY <1>1, EveryPlanHasItsRows, Zenon
<1>3. RowsOnce
  BY <1>2 DEF RowsOnce, OneRowEach
<1> QED
  BY <1>3, PTL
=============================================================================

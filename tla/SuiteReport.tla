------------------------------ MODULE SuiteReport ------------------------------
(***************************************************************************)
(* testplan/generate_report.py over the run.log that SuiteRunner writes:   *)
(* parse_run_log looks for the last suite that is not a dry run and reads  *)
(* the lines from there to the end of the file; build_ramp_table puts the  *)
(* abort of a ramp on the row of its step.  The time of a line is its      *)
(* place in the log.                                                       *)
(***************************************************************************)
EXTENDS SuiteRunner, ReportTables, FiniteSetsExt

Lines == 1..Len(log)
RealSuites == {i \in Lines : log[i].kind = "suite" /\ ~log[i].dry}

\* Mutated form of SuiteLines: takes the first suite of the log.
FirstSuiteLines == IF RealSuites = {} THEN {} ELSE Min(RealSuites)..Len(log)

\* The lines that the parser reads: all from the last real suite on.
SuiteLines == IF RealSuites = {} THEN {} ELSE Max(RealSuites)..Len(log)

Of(kind, name, ls) == {i \in ls : log[i].kind = kind /\ log[i].name = name}

\* Mutated form of Window: takes an END line of any test.
WindowToAnyEnd(name, ls) ==
    LET start == Max(Of("START", name, ls))
        ends == {i \in ls : log[i].kind = "END" /\ i > start}
    IN  [start |-> start, end |-> IF ends = {} THEN 0 ELSE Max(ends)]

\* tests[name] after the lines ls: a START line begins it anew, an END line
\* sets its end; None is 0.
Window(name, ls) ==
    LET start == Max(Of("START", name, ls))
        ends == {i \in Of("END", name, ls) : i > start}
    IN  [start |-> start, end |-> IF ends = {} THEN 0 ELSE Max(ends)]

Tests(ls) == [name \in {n \in Names : Of("START", n, ls) # {}} |-> Window(name, ls)]

\* Mutated form of Queried: a window without an end is queried up to now.
QueriedOpen(ls) == DOMAIN Tests(ls)

\* main: the tests that Prometheus is asked about, if it is ready; the others
\* have no numbers.
Queried(ls) == {name \in DOMAIN Tests(ls) : Tests(ls)[name].end # 0}

\* The rows of the ramp table of name, and the producers at its last abort
\* line: the row that shows the abort has as many.
LastRow(name, ls) == LET rs == Of("RAMP", name, ls) IN IF rs = {} THEN {} ELSE {Max(rs)}
Rows(name, ls) == {log[i].n : i \in Of("RAMP", name, ls)}
AbortsAt(name, ls) == LET as == Of("ABORT", name, ls)
                      IN  IF as = {} THEN {} ELSE {log[Max(as)].n}
ShownAborts(name, ls) == Rows(name, ls) \cap AbortsAt(name, ls)
-----------------------------------------------------------------------------
(* Properties. *)

\* What the last real suite itself has logged.
OwnLines == IF RealSuites = {} THEN {}
            ELSE {i \in Lines : log[i].run = log[Max(RealSuites)].run}

\* The docstring of parse_run_log (line 136): the windows of the report
\* are those of the last suite that is not a dry run.  The report is generated
\* when no script is running.
ReportsLastRealSuite == pc \in Ended => Tests(SuiteLines) = Tests(OwnLines)

\* The same, when no dry run came after it.
ReportsLastUnlessDry == ~(\E i \in SuiteLines : log[i].dry) => ReportsLastRealSuite

\* The windows of one report do not overlap, however many suites, whole or
\* broken off, the log holds: no test is charged with the load of another.
WindowsDisjoint ==
    LET w == Tests(SuiteLines)
    IN  pc \in Ended => ~\E a, b \in DOMAIN w :
                            w[a].start < w[b].start /\ w[b].start < w[a].end

\* A test that the last real suite did not finish has no numbers, whether a
\* command failed in it or a signal ended it, unless a dry run came after it.
UnfinishedHasNoNumbers ==
    (pc \in Ended /\ ~\E i \in SuiteLines : log[i].dry) =>
      \A name \in Queried(SuiteLines) :
        \E i, j \in OwnLines : /\ i < j /\ log[i].name = name /\ log[j].name = name
                              /\ log[i].kind = "START" /\ log[j].kind = "END"
                              /\ ~\E k \in i + 1..j : log[k].kind = "START"

\* A ramp ends at its abort: in its table the abort is on the last row or on
\* none (lines 380-381), whatever earlier suites the log has.
AbortMarksLastRow ==
    pc \in Ended => \A name \in Names :
      ShownAborts(name, SuiteLines) \subseteq {log[i].n : i \in LastRow(name, SuiteLines)}

\* The tables do not depend on the state of the suite: TLC goes through the
\* inputs of ReportTables where the log is still empty.

\* The average that the report prints is the mean of the samples Prometheus has
\* answered with, without NaN and unreadable ones.
AverageIsSound == log = << >> => MeanOfGoodSamples

\* The report has exactly one row for a test in each section that the test is
\* of, however the groups are interleaved in the plan.
RowsOnce == log = << >> => OneRowEach
=============================================================================

------------------------------- MODULE MCSuite -------------------------------
(* A small instance of SuiteRunner and SuiteReport: a ramp of two steps, a *)
(* fixed test on the other broker and a test of an unknown type, run twice.*)
EXTENDS SuiteReport

TestOf(name, type, broker) ==
    [name |-> name, type |-> type, broker |-> broker,
     initial |-> 1, max |-> 2, step |-> 1]
MCPlan == <<TestOf("RAMP", "ramp", "rabbitmq"), TestOf("A1", "fixed", "redpanda"),
            TestOf("ODD", "other", "redpanda")>>

Option(dryRun, noTeardown, only) ==
    [dryRun |-> dryRun, noTeardown |-> noTeardown, only |-> only]
MCOptions == {Option(FALSE, FALSE, "all"), Option(TRUE, FALSE, "all"),
              Option(FALSE, TRUE, "A1"), Option(FALSE, FALSE, "A1")}
=============================================================================

----------------------------- MODULE ReportTables -----------------------------
(***************************************************************************)
(* The pure parts of testplan/generate_report.py: the average of what      *)
(* Prometheus answers for one window, and which test gets a row in which   *)
(* table.  A test is a record of its name, its group (the capitals that    *)
(* its name begins with) and its type.  Headings and the wording of the    *)
(* cells are left out.                                                     *)
(***************************************************************************)
EXTENDS Integers, Sequences, SequencesExt

\* An answer of Prometheus is a sequence of series and a series a sequence of
\* samples; the answer to a query that raised or did not succeed has none.  A
\* sample is good if float() accepts it and it is not NaN.
Samples == [good : BOOLEAN, v : Int]
Nothing == [total |-> 0, count |-> 0]

\* Mutant: a sample that is not good still counts.
AddCountingAll(sum, sample) ==
    [total |-> sum.total + (IF sample.good THEN sample.v ELSE 0), count |-> sum.count + 1]

Add(sum, sample) == IF sample.good
                    THEN [total |-> sum.total + sample.v, count |-> sum.count + 1]
                    ELSE sum

\* prom_query_range: total / count, or None when the count is 0.
AddSeries(sum, series) == FoldLeft(Add, sum, series)
Average(answer) == FoldLeft(AddSeries, Nothing, answer)
-----------------------------------------------------------------------------
\* A loop that goes through tables and appends the rows of each.
AddTable(rows, table) == rows \o table
Joined(tables) == FoldLeft(AddTable, << >>, tables)

\* A loop that goes through seq and appends what stands at these places.
Kept(seq, places) ==
    Joined([i \in DOMAIN seq |-> IF i \in places THEN <<seq[i]>> ELSE << >>])

Groups(plan) == [i \in DOMAIN plan |-> plan[i].group]

\* Mutant: looks at the group of the previous test only.
GroupOrderOfRuns(plan) ==
    Kept(Groups(plan), {i \in DOMAIN plan : i = 1 \/ plan[i].group # plan[i - 1].group})

\* group_order and groups of build_report: seen has the groups of the tests up to here.
GroupOrder(plan) ==
    Kept(Groups(plan), {i \in DOMAIN plan : \A j \in 1..i - 1 : plan[j].group # plan[i].group})
Group(plan, g) == Kept(plan, {i \in DOMAIN plan : plan[i].group = g})
RowsOf(plan, gs) == Joined([i \in DOMAIN gs |-> Group(plan, gs[i])])

\* The table of a group in section 1: a ramp gets the steps of the log, the
\* others the averages of Prometheus.
TableOf(g) == CASE g = "RAMP" -> "steps"
                [] g = "SIZE" -> "sizes"
                [] g = "RATE" -> "rates"
                [] OTHER -> "throughput"

\* The groups of section 2, which has those of the averages only.
Averaged(gs) == Kept(gs, {i \in DOMAIN gs : TableOf(gs[i]) # "steps"})

\* The tests in the order of their rows: section 1, section 2, sections 3 and 4.
ThroughputRows(plan) == RowsOf(plan, GroupOrder(plan))
LatencyRows(plan) == RowsOf(plan, Averaged(GroupOrder(plan)))
ResourceRows(plan) == Kept(plan, {i \in DOMAIN plan : plan[i].type = "fixed"})
-----------------------------------------------------------------------------
(* Properties, over bounded inputs. *)

\* The mean of the good samples of an answer, whatever series they are in: its
\* count is 0, for None, exactly when there is none.
Good(answer) == {ij \in UNION {{i} \X DOMAIN answer[i] : i \in DOMAIN answer} :
                   answer[ij[1]][ij[2]].good}
MeanOfGood(answer) ==
    [total |-> SumFunction([ij \in Good(answer) |-> answer[ij[1]][ij[2]].v]),
     count |-> Cardinality(Good(answer))]

SmallAnswers == LET samples == [good : BOOLEAN, v : {0, 1, 4}]
                IN  BoundedSeq(BoundedSeq(samples, 2), 2)

\* prom_query_range gives that mean.
MeanOfGoodSamples == \A answer \in SmallAnswers : Average(answer) = MeanOfGood(answer)

\* The plans of the tests of these groups.  The name of a test is its place.
PlansOf(groups) ==
    {[i \in DOMAIN gs |-> [name |-> i, group |-> gs[i],
                           type |-> IF gs[i] = "RAMP" THEN "ramp" ELSE "fixed"]] : gs \in groups}
SmallPlans == PlansOf(BoundedSeq({"A", "SIZE", "RAMP"}, 4))

\* The row of t is above the row of u: its group begins earlier in the plan, or
\* the groups are the same and the test stands earlier.
Above(plan, t, u) ==
    \/ t.group = u.group /\ t.name < u.name
    \/ \E i \in DOMAIN plan : /\ plan[i].group = t.group
                             /\ \A j \in 1..i : plan[j].group # u.group

\* However the groups are interleaved in the plan, section 1 has a row for each
\* test, groups beside each other, and section 2 for each test that is not a
\* ramp; sections 3 and 4 have those too, in the order of the plan.  No row comes
\* twice, as none is above itself.
OneRowFor(plan) ==
    LET tests == ToSet(plan)
        noRamps == {t \in tests : t.type # "ramp"}
        first == ThroughputRows(plan)
        second == LatencyRows(plan)
        rest == ResourceRows(plan)
    IN  /\ ToSet(first) = tests /\ ToSet(second) = noRamps /\ ToSet(rest) = noRamps
        /\ \A i, j \in DOMAIN first : i < j => Above(plan, first[i], first[j])
        /\ \A i, j \in DOMAIN second : i < j => Above(plan, second[i], second[j])
        /\ \A i, j \in DOMAIN rest : i < j => rest[i].name < rest[j].name
OneRowEach == \A plan \in SmallPlans : OneRowFor(plan)
=============================================================================

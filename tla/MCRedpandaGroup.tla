---------------------------- MODULE MCRedpandaGroup ----------------------------
(* A small instance of RedpandaGroup: two consumers and two partitions, one *)
(* of which holds a value that decode rejects and one that escapes it.      *)
EXTENDS RedpandaGroup, TLC

CONSTANTS c1, c2, p1, p2
MCConsumers == {c1, c2}
MCPartitions == {p1, p2}
MCValue == [p \in MCPartitions |-> IF p = p1 THEN <<"valid", "infinite_time">>
                                             ELSE <<"not_json">>]

\* The safety run and no other uses it.
MCSymmetry == Permutations(MCConsumers)

\* One partition, for the runs about progress and about an escaped exception.
MCOnePartition == {p1}
MCOneValue == [p \in MCOnePartition |-> <<"valid", "infinite_time">>]
=============================================================================

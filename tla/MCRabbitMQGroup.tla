---------------------------- MODULE MCRabbitMQGroup ----------------------------
(* A small instance of RabbitMQGroup: a Python and a Go consumer share one  *)
(* partition, which gets a value that escapes the Python handler and a good *)
(* one after it.                                                            *)
EXTENDS RabbitMQGroup

CONSTANTS py, go, p1
MCConsumers == {py, go}
MCGoConsumers == {go}
MCPartitions == {p1}
MCValue == [p \in MCPartitions |-> <<"infinite_time", "valid">>]
=============================================================================

------------------------- MODULE MCPyRabbitMQProducer -------------------------
(* A small instance of PyRabbitMQProducer: with three messages and two     *)
(* permits an outage can drop the confirmation of every permit.            *)
EXTENDS PyRabbitMQProducer

CONSTANTS m1, m2, m3
MCMessages == {m1, m2, m3}
=============================================================================

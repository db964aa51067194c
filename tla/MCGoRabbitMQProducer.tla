------------------------- MODULE MCGoRabbitMQProducer -------------------------
(* A small instance of GoRabbitMQProducer: a channel of one slot that two  *)
(* batches compete for, and one message whose refusal the client may       *)
(* report as well.                                                         *)
EXTENDS GoRabbitMQProducer

CONSTANTS m1, m2, m3
MCMessages == {m1, m2, m3}
MCReported == {m3}
=============================================================================

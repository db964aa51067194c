------------------------- MODULE MCPyRedpandaProducer -------------------------
(* A small instance of PyRedpandaProducer: with three messages and two     *)
(* permits the loop parks in acquire(), with and without a broker.         *)
EXTENDS PyRedpandaProducer

CONSTANTS m1, m2, m3
MCMessages == {m1, m2, m3}
=============================================================================

------------------------- MODULE MCGoRedpandaProducer -------------------------
(* A small instance of GoRedpandaProducer: a buffer of two records that    *)
(* three messages fill while the broker is away.                           *)
EXTENDS GoRedpandaProducer

CONSTANTS m1, m2, m3
MCMessages == {m1, m2, m3}
=============================================================================

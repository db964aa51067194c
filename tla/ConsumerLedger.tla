---------------------------- MODULE ConsumerLedger ----------------------------
(***************************************************************************)
(* What the RabbitMQ consumers promise to the counters                     *)
(* benchmark_messages_consumed_total and benchmark_consume_errors_total,   *)
(* whatever happens to them: a message moves at most one of the two, once. *)
(* Nothing is promised about messages that no one receives.                *)
(***************************************************************************)
EXTENDS Naturals

CONSTANT Messages

VARIABLES consumed,   \* consumed[m]: increments of messages_consumed for m
          errors      \* errors[m]: increments of consume_errors for m

vars == <<consumed, errors>>

Init == /\ consumed = [m \in Messages |-> 0]
        /\ errors = [m \in Messages |-> 0]

Uncounted(m) == consumed[m] = 0 /\ errors[m] = 0

CountConsumed(m) == /\ Uncounted(m)
                    /\ consumed' = [consumed EXCEPT ![m] = 1]
                    /\ UNCHANGED errors

CountError(m) == /\ Uncounted(m)
                 /\ errors' = [errors EXCEPT ![m] = 1]
                 /\ UNCHANGED consumed

Next == \E m \in Messages : CountConsumed(m) \/ CountError(m)

Spec == Init /\ [][Next]_vars
=============================================================================

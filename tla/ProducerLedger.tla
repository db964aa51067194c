---------------------------- MODULE ProducerLedger ----------------------------
(***************************************************************************)
(* What every producer of the benchmark promises to the two counters a     *)
(* scrape reads, benchmark_messages_produced_total and                     *)
(* benchmark_produce_errors_total: an attempt to send a message enters a   *)
(* window of bounded size and leaves it by exactly one increment of exactly*)
(* one of the two counters.  The producers are shown to implement this     *)
(* specification.                                                          *)
(***************************************************************************)
EXTENDS Naturals, FiniteSets

CONSTANTS Messages,   \* the messages a run may attempt
          Window      \* the largest number of unanswered attempts

VARIABLES inflight,   \* attempts that no counter has recorded yet
          produced,   \* produced[m]: increments of messages_produced for m
          errors      \* errors[m]: increments of produce_errors for m

vars == <<inflight, produced, errors>>

Attempted == inflight \cup {m \in Messages : produced[m] + errors[m] > 0}

Init == /\ inflight = {}
        /\ produced = [m \in Messages |-> 0]
        /\ errors = [m \in Messages |-> 0]

Attempt(m) == /\ m \notin Attempted
              /\ Cardinality(inflight) < Window
              /\ inflight' = inflight \cup {m}
              /\ UNCHANGED <<produced, errors>>

CountProduced(m) == /\ m \in inflight
                    /\ inflight' = inflight \ {m}
                    /\ produced' = [produced EXCEPT ![m] = @ + 1]
                    /\ UNCHANGED errors

CountError(m) == /\ m \in inflight
                 /\ inflight' = inflight \ {m}
                 /\ errors' = [errors EXCEPT ![m] = @ + 1]
                 /\ UNCHANGED produced

Next == \E m \in Messages : Attempt(m) \/ CountProduced(m) \/ CountError(m)

Spec == Init /\ [][Next]_vars
=============================================================================

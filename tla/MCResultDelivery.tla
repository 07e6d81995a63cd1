-------------------------- MODULE MCResultDelivery --------------------------
(* Constant values for model-checking ResultDelivery: two sinks, each of   *)
(* which holds two events, so the third event meets full queues, with the  *)
(* finalization limit SinkLimits::new derives.                             *)
EXTENDS ResultDelivery

MCSize         == [e \in Events |-> 1]
MCItems        == [s \in Sinks |-> 2]
MCBytes        == [s \in Sinks |-> 3]
MCFinalization == [s \in Sinks |-> MCItems[s] + 2]
MCDeadline     == [s \in Sinks |-> 1]
MCPolicy == [s \in Sinks |-> IF s = 0 THEN "Backpressure" ELSE "DiagnosedDrop"]
=============================================================================

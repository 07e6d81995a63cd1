------------------------ MODULE MCRouterArbitration ------------------------
(* Constant values for model-checking the router and its arbitration.      *)
EXTENDS RouterArbitration

(* Events of growing size, so that the third does not fit beside another;  *)
(* the first sink applies backpressure, the second drops what does not     *)
(* fit, and both may finalize only a few pairs at a time.                  *)
MCSize         == [e \in Events |-> e]
MCItems        == [s \in Sinks |-> 2]
MCBytes        == [s \in Sinks |-> 3]
MCFinalization == [s \in Sinks |-> IF s = 0 THEN 4 ELSE 3]
MCDeadline     == [s \in Sinks |-> 2]
MCPolicy == [s \in Sinks |-> IF s = 0 THEN "Backpressure" ELSE "DiagnosedDrop"]
=============================================================================

--------------------------- MODULE MCSyncBarrier ---------------------------
(* Constant values for model-checking SyncBarrier: a timer with a fixed    *)
(* group size and a timeout, and a groupSize=0 timer without a timeout.    *)
EXTENDS SyncBarrier

CONSTANTS p1, p2, p3, fixed, grouped

MCParticipants == {p1, p2, p3}
MCKeys         == {fixed, grouped}
MCGroupKeys    == {grouped}
MCGroupSize    == [k \in {fixed} |-> 3]
MCGroupSizes   == {2, 4}
MCTimeout      == [k \in MCKeys |-> IF k = fixed THEN 1 ELSE 0]
=============================================================================

------------------------- MODULE RouterArbitration -------------------------
(***************************************************************************)
(* The router's sink arbitration with a history variable that counts, for  *)
(* each sink that has had work all along, how many leases went to others.  *)
(***************************************************************************)
EXTENDS ResultRouter

VARIABLE bypass

arbVars == <<vars, bypass>>

(* The step leases an event to the sink.                                   *)
LeasedTo(s) == \E e \in Events : inFlight[s][e] = 0 /\ inFlight'[s][e] # 0

ArbInit == Init /\ bypass = [s \in Sinks |-> 0]

ArbNext ==
    /\ Next
    /\ bypass' = [t \in Sinks |->
          IF LeasedTo(t) \/ ~Deliverable(t) \/ ~Deliverable(t)' THEN 0
          ELSE IF \E s \in Sinks : LeasedTo(s) THEN bypass[t] + 1
          ELSE bypass[t]]

ArbSpec == ArbInit /\ [][ArbNext]_arbVars

(* next_delivery starves no sink: while a sink that has not failed keeps   *)
(* queued work, each other sink is served at most once before it.          *)
BoundedBypass == \A t \in Sinks : bypass[t] <= NSinks - 1
=============================================================================

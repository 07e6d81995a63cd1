-------------------------- MODULE DeliveryContract --------------------------
(***************************************************************************)
(* What the result router promises its callers, without queues, leases,    *)
(* retries or limits: result events are offered one after another; each is *)
(* either rejected by all sinks or accepted by all of them; an accepted    *)
(* event/sink pair stays open until it gets one final fate; a run closes   *)
(* only when no pair is open, and nothing changes after that.              *)
(***************************************************************************)
EXTENDS Integers

CONSTANTS Sinks, Events

VARIABLES
    fate,     \* fate[s][e]
    offered,  \* events offered so far: 1 .. offered
    closed    \* the run is finished

Resolved == {"durable", "dropped", "failed"}
Fates    == {"absent", "rejected", "open"} \cup Resolved

vars == <<fate, offered, closed>>

Init ==
    /\ fate = [s \in Sinks |-> [e \in Events |-> "absent"]]
    /\ offered = 0
    /\ closed = FALSE

(* The next event gets the same first fate at every sink.                  *)
Offer(first) ==
    /\ offered + 1 \in Events
    /\ offered' = offered + 1
    /\ \A s \in Sinks : fate[s][offered + 1] = "absent" /\ fate'[s][offered + 1] = first

(* Outside the events N, a pair keeps its fate or an open one is resolved. *)
ResolveOutside(N) ==
    \A s \in Sinks, e \in Events \ N :
        \/ fate'[s][e] = fate[s][e]
        \/ fate[s][e] = "open" /\ fate'[s][e] \in Resolved

Accept ==
    /\ Offer("open")
    /\ \A s \in Sinks, e \in Events \ {offered + 1} : fate'[s][e] = fate[s][e]
    /\ closed' = closed

(* Resolve some open pairs; a waiting event may be rejected meanwhile; the *)
(* run may close if nothing is open afterwards.                            *)
Settle ==
    /\ \/ offered' = offered /\ ResolveOutside({})
       \/ Offer("rejected") /\ ResolveOutside({offered + 1})
    /\ closed' \in BOOLEAN
    /\ closed' => \A s \in Sinks, e \in Events : fate'[s][e] # "open"

Next ==
    /\ ~closed
    /\ fate' \in [Sinks -> [Events -> Fates]]
    /\ Accept \/ Settle

Spec == Init /\ [][Next]_vars
=============================================================================

-------------------------- MODULE ProcessRegistry --------------------------
(***************************************************************************)
(* The process-supervision registry of crates/process-supervision: the     *)
(* fixed slots that own every child process, the single service thread     *)
(* that launches and reaps them, the callers that hold capabilities (slot  *)
(* and generation only) and shutdown.                                      *)
(*                                                                         *)
(* The registry has one mutex for the control block and one per slot, and  *)
(* never holds two at once.  A section under one lock is one action; a     *)
(* function that locks twice is two actions.  A slot whose state is        *)
(* Creating is locked: the service holds it during the operating-system    *)
(* call.  Every wait in the code is a poll with a tick of at most ten      *)
(* milliseconds, so condition variables are not modelled.  A cancellation  *)
(* token is read where the code reads it and may then have either value.   *)
(***************************************************************************)
EXTENDS Integers, FiniteSets, FiniteSetsExt

CONSTANTS
    Callers,      \* threads that spawn processes
    Capacity,     \* slots, and cells of the launch queue
    MaxGen,       \* u64::MAX of a slot generation, scaled down
    MaxAttempts   \* MAX_AUTOMATIC_ATTEMPTS

ASSUME RegistryAssumption ==
    /\ Capacity \in Nat \ {0}
    /\ MaxGen \in Nat \ {0}
    /\ MaxAttempts \in Nat \ {0}

Slots  == 1 .. Capacity
Gens   == 0 .. MaxGen
Passes == {"service", "drain"}       \* who runs service_pass
NoRequest == [i |-> 0, g |-> 0]
Requests  == [i : Slots, g : 1 .. MaxGen]
Idle   == [pc |-> "idle", i |-> 0, g |-> 0]

VARIABLES
    admission,    \* "Open", "Closing" or "Joined"
    free,         \* control.free
    generations,  \* control.generations
    owned,        \* control.owned
    queue,        \* control.queue, by cell
    slot,         \* slot[i]: generation, state, root, terminal_error, attempts
    freeing,      \* slots between the two halves of release_slot
    abandonedGen, \* abandoned_generation
    cleanupGen,   \* cleanup_generation
    marking,      \* marking[i]: generation the service read before marking it
    inHand,       \* inHand[p]: request a pass took from the queue
    caller,       \* caller[c]: where the caller is and the slot it refers to
    service,      \* "running" or "stopped"
    serviceStop   \* service_stop

control == <<admission, free, generations, owned, queue>>
marks   == <<abandonedGen, cleanupGen, marking>>
threads == <<inHand, caller, service, serviceStop>>
vars    == <<control, slot, freeing, marks, threads>>

States == {"Free", "Reserved", "Creating", "HandoffPending", "Active",
           "CleanupRequested", "RootWaitable", "ContainmentLost",
           "Quarantined", "Complete", "Retired"}

(* Type invariant of the registry.                                         *)
TypeOK ==
    /\ admission \in {"Open", "Closing", "Joined"}
    /\ free \in [Slots -> BOOLEAN]
    /\ generations \in [Slots -> Gens]
    /\ owned \in 0 .. Capacity
    /\ queue \in [Slots -> Requests \cup {NoRequest}]
    /\ slot \in [Slots -> [gen : Gens, state : States \ {"RootWaitable"},
                           root : {"none", "live", "exited", "reaped"},
                           terminal : BOOLEAN, attempts : 0 .. MaxAttempts]]
    /\ freeing \subseteq Slots
    /\ abandonedGen \in [Slots -> Gens]
    /\ cleanupGen \in [Slots -> Gens]
    /\ marking \in [Slots -> Gens]
    /\ inHand \in [Passes -> Requests \cup {NoRequest}]
    /\ caller \in [Callers ->
           {Idle} \cup [pc : {"reset", "enqueue", "await", "prepared", "active",
                              "asking", "cleaning"},
                        i : Slots, g : 1 .. MaxGen]]
    /\ service \in {"running", "stopped"}
    /\ serviceStop \in BOOLEAN

Init ==
    /\ admission = "Open"
    /\ free = [i \in Slots |-> TRUE]
    /\ generations = [i \in Slots |-> 0]
    /\ owned = 0
    /\ queue = [k \in Slots |-> NoRequest]
    /\ slot = [i \in Slots |-> [gen |-> 0, state |-> "Free", root |-> "none",
                                terminal |-> FALSE, attempts |-> 0]]
    /\ freeing = {}
    /\ abandonedGen = [i \in Slots |-> 0]
    /\ cleanupGen = [i \in Slots |-> 0]
    /\ marking = [i \in Slots |-> 0]
    /\ inHand = [p \in Passes |-> NoRequest]
    /\ caller = [c \in Callers |-> Idle]
    /\ service = "running"
    /\ serviceStop = FALSE

-----------------------------------------------------------------------------
(* Slots.                                                                  *)

Unlocked(i) == slot[i].state # "Creating"
Occupied(s) == s.state \notin {"Free", "Retired"} \/ s.root # "none"
Put(i, s)   == slot' = [slot EXCEPT ![i] = s]

(* A caller's capability still names the slot's generation.                *)
Current(c) == slot[caller[c].i].gen = caller[c].g

Goto(c, pc)  == caller' = [caller EXCEPT ![c].pc = pc]
Return(c)    == caller' = [caller EXCEPT ![c] = Idle]

(* cleanup_slot: what one attempt makes of the slot s.  Without a root     *)
(* nothing can fail.  "reaped" may attach a diagnostic; "close failed"     *)
(* has reaped the root and keeps its handles.                              *)
Outcomes == {"reaped", "retained", "containment", "close failed", "panic"}

Retained(s, state) ==
    LET n == IF s.attempts + 1 > MaxAttempts THEN MaxAttempts ELSE s.attempts + 1
    IN  IF n >= MaxAttempts
        THEN [s EXCEPT !.attempts = n, !.state = "Quarantined", !.terminal = TRUE]
        ELSE [s EXCEPT !.attempts = n, !.state = state]

Completed(s, terminal) ==
    [gen |-> s.gen, state |-> "Complete", root |-> "none", terminal |-> terminal,
     attempts |-> 0]

cleanup_slot(s, outcome) ==
    IF s.root = "none" THEN {Completed(s, s.terminal)}
    ELSE CASE outcome = "reaped"       -> {Completed(s, s.terminal), Completed(s, TRUE)}
           [] outcome = "retained"     -> {Retained(s, "CleanupRequested")}
           [] outcome = "containment"  -> {Retained(s, "ContainmentLost")}
           [] outcome = "close failed" ->
                {Retained([s EXCEPT !.root = "reaped"], "CleanupRequested")}
           [] outcome = "panic"        ->
                {[s EXCEPT !.state = "Quarantined", !.terminal = TRUE]}

(* Mutant: a quarantined slot is released too.                             *)
ReleaseUnchecked(i) ==
    /\ Unlocked(i) /\ slot[i].state \in {"Complete", "Quarantined"}
    /\ Put(i, [slot[i] EXCEPT !.state =
                   IF slot[i].gen = MaxGen THEN "Retired" ELSE "Free"])
    /\ freeing' = freeing \cup {i}
    /\ UNCHANGED <<control, marks, threads>>

(* release_slot, first half: under the slot's lock.  Any thread that sees  *)
(* the slot Complete releases it: the pass that cleaned it, a later pass,  *)
(* a caller in request_cleanup.                                            *)
ReleaseSlot(i) ==
    /\ Unlocked(i)
    /\ slot[i].state = "Complete"
    /\ Put(i, [slot[i] EXCEPT !.state =
                   IF slot[i].gen = MaxGen THEN "Retired" ELSE "Free"])
    /\ freeing' = freeing \cup {i}
    /\ UNCHANGED <<control, marks, threads>>

(* Mutant: a retired slot stays counted.                                   *)
FreeForgotten(i) ==
    /\ i \in freeing
    /\ freeing' = freeing \ {i}
    /\ free' = [free EXCEPT ![i] = slot[i].state # "Retired"]
    /\ owned' = IF slot[i].state = "Retired" THEN owned ELSE owned - 1
    /\ abandonedGen' = [abandonedGen EXCEPT ![i] = 0]
    /\ cleanupGen' = [cleanupGen EXCEPT ![i] = 0]
    /\ UNCHANGED <<admission, generations, queue, slot, marking, threads>>

(* release_slot, second half: under the control lock.                      *)
FreeSlot(i) ==
    /\ i \in freeing
    /\ freeing' = freeing \ {i}
    /\ free' = [free EXCEPT ![i] = slot[i].state # "Retired"]
    /\ owned' = owned - 1
    /\ abandonedGen' = [abandonedGen EXCEPT ![i] = 0]
    /\ cleanupGen' = [cleanupGen EXCEPT ![i] = 0]
    /\ UNCHANGED <<admission, generations, queue, slot, marking, threads>>

-----------------------------------------------------------------------------
(* Callers: spawn, activate, cleanup, drop.                                *)

(* reserve, first half: the lowest free slot whose generation can advance. *)
Reserve(c) ==
    /\ caller[c] = Idle
    /\ admission = "Open"
    /\ LET able == {i \in Slots : free[i] /\ generations[i] < MaxGen}
           i    == Min(able)
           g    == generations[i] + 1
       IN  /\ able # {}
           /\ free' = [free EXCEPT ![i] = FALSE]
           /\ generations' = [generations EXCEPT ![i] = g]
           /\ caller' = [caller EXCEPT ![c] = [pc |-> "reset", i |-> i, g |-> g]]
    /\ owned' = owned + 1
    /\ UNCHANGED <<admission, queue, slot, freeing, marks, inHand, service, serviceStop>>

(* reserve, second half: reset_for_reservation under the slot's lock.      *)
ResetSlot(c) ==
    LET i == caller[c].i IN
    /\ caller[c].pc = "reset"
    /\ Unlocked(i)
    /\ Put(i, [gen |-> caller[c].g, state |-> "Reserved", root |-> "none",
               terminal |-> FALSE, attempts |-> 0])
    /\ abandonedGen' = [abandonedGen EXCEPT ![i] = 0]
    /\ cleanupGen' = [cleanupGen EXCEPT ![i] = 0]
    /\ Goto(c, "enqueue")
    /\ UNCHANGED <<control, freeing, marking, inHand, service, serviceStop>>

(* enqueue: the first empty cell of the launch queue.                      *)
Enqueue(c) ==
    /\ caller[c].pc = "enqueue"
    /\ admission = "Open"
    /\ \E k \in Slots :
         /\ queue[k] = NoRequest
         /\ \A j \in 1 .. k - 1 : queue[j] # NoRequest
         /\ queue' = [queue EXCEPT ![k] = [i |-> caller[c].i, g |-> caller[c].g]]
    /\ Goto(c, "await")
    /\ UNCHANGED <<admission, free, generations, owned, slot, freeing, marks,
                   inHand, service, serviceStop>>

(* enqueue refuses the request (an invalid specification at any time, a    *)
(* closed admission or a full queue); cancel_reservation takes it back.    *)
CancelReservation(c) ==
    LET i == caller[c].i IN
    /\ caller[c].pc = "enqueue"
    /\ Unlocked(i)
    /\ IF Current(c) /\ slot[i].state = "Reserved"
       THEN Put(i, Completed(slot[i], TRUE))
       ELSE UNCHANGED slot
    /\ Return(c)
    /\ UNCHANGED <<control, freeing, marks, inHand, service, serviceStop>>

(* await_launch: the process is handed over as a capability.               *)
AwaitReady(c) ==
    /\ caller[c].pc = "await"
    /\ Unlocked(caller[c].i)
    /\ Current(c)
    /\ slot[caller[c].i].state = "HandoffPending"
    /\ Goto(c, "prepared")
    /\ UNCHANGED <<control, slot, freeing, marks, inHand, service, serviceStop>>

(* await_launch returns an error: the generation is stale, the slot has a  *)
(* terminal diagnostic, or the launch ended without a capability.          *)
AwaitFails(c) ==
    LET s == slot[caller[c].i] IN
    /\ caller[c].pc = "await"
    /\ Unlocked(caller[c].i)
    /\ \/ ~Current(c)
       \/ s.state # "HandoffPending"
          /\ (s.terminal \/ s.state \in {"Complete", "Free", "Retired"})
    /\ Return(c)
    /\ UNCHANGED <<control, slot, freeing, marks, inHand, service, serviceStop>>

(* mark_abandoned: a plain store, whatever the slot's generation is now.   *)
mark_abandoned(i, g) == abandonedGen' = [abandonedGen EXCEPT ![i] = g]

(* Mutant: the caller leaves without marking the slot.                     *)
AwaitDeadlineUnmarked(c) ==
    /\ caller[c].pc = "await"
    /\ Return(c)
    /\ UNCHANGED <<control, slot, freeing, marks, inHand, service, serviceStop>>

(* await_launch passes its deadline.  The slot was looked at before and    *)
(* is not locked any more, so it may be in any state.                      *)
AwaitDeadline(c) ==
    /\ caller[c].pc = "await"
    /\ mark_abandoned(caller[c].i, caller[c].g)
    /\ Return(c)
    /\ UNCHANGED <<control, slot, freeing, cleanupGen, marking, inHand, service,
                   serviceStop>>

(* PreparedProcess::activate.  A refusal drops the capability; a closed    *)
(* admission also requests the cleanup.                                    *)
Activate(c) ==
    LET i == caller[c].i IN
    /\ caller[c].pc = "prepared"
    /\ Unlocked(i)
    /\ \/ /\ Current(c) /\ slot[i].state = "HandoffPending" /\ admission = "Open"
          /\ Put(i, [slot[i] EXCEPT !.state = "Active"])
          /\ Goto(c, "active")
          /\ UNCHANGED abandonedGen
       \/ /\ ~(Current(c) /\ slot[i].state = "HandoffPending" /\ admission = "Open")
          /\ IF Current(c) /\ slot[i].state = "HandoffPending"
             THEN Put(i, [slot[i] EXCEPT !.state = "CleanupRequested"])
             ELSE UNCHANGED slot
          /\ mark_abandoned(i, caller[c].g)
          /\ Return(c)
    /\ UNCHANGED <<control, freeing, cleanupGen, marking, inHand, service, serviceStop>>

(* Drop of a PreparedProcess or an ActiveProcess: atomics only.            *)
Drop(c) ==
    /\ caller[c].pc \in {"prepared", "active"}
    /\ mark_abandoned(caller[c].i, caller[c].g)
    /\ Return(c)
    /\ UNCHANGED <<control, slot, freeing, cleanupGen, marking, inHand, service,
                   serviceStop>>

(* request_cleanup, its first look: it goes on only for an occupied slot   *)
(* of its own generation that has no diagnostic and is not Complete.       *)
RequestCleanup(c) ==
    LET s == slot[caller[c].i] IN
    /\ caller[c].pc = "active"
    /\ Unlocked(caller[c].i)
    /\ Current(c) /\ Occupied(s) /\ ~s.terminal /\ s.state # "Complete"
    /\ Goto(c, "asking")
    /\ UNCHANGED <<control, slot, freeing, marks, inHand, service, serviceStop>>

(* mark_cleanup, without the lock.                                         *)
MarkCleanup(c) ==
    /\ caller[c].pc = "asking"
    /\ cleanupGen' = [cleanupGen EXCEPT ![caller[c].i] = caller[c].g]
    /\ Goto(c, "cleaning")
    /\ UNCHANGED <<control, slot, freeing, abandonedGen, marking, inHand, service,
                   serviceStop>>

(* request_cleanup returns: the slot is done with, or the deadline passed. *)
CleanupReturns(c) ==
    /\ caller[c].pc = "cleaning"
    /\ Goto(c, "active")
    /\ UNCHANGED <<control, slot, freeing, marks, inHand, service, serviceStop>>

-----------------------------------------------------------------------------
(* service_pass, run by the service thread and by an explicit drain.       *)

MayPass(p) == p = "service" => service = "running"

(* pop_request: the lowest occupied cell, not the oldest request.          *)
PopRequest(p) ==
    /\ MayPass(p)
    /\ inHand[p] = NoRequest
    /\ LET cells == {k \in Slots : queue[k] # NoRequest}
           k     == Min(cells)
       IN  /\ cells # {}
           /\ inHand' = [inHand EXCEPT ![p] = queue[k]]
           /\ queue' = [queue EXCEPT ![k] = NoRequest]
    /\ UNCHANGED <<admission, free, generations, owned, slot, freeing, marks,
                   caller, service, serviceStop>>

(* launch_request still finds the reservation it was made for.             *)
Wanted(r) == slot[r.i].gen = r.g /\ slot[r.i].state = "Reserved"

(* launch_request up to the operating-system call: a stale request is      *)
(* dropped, a cancelled or abandoned one is completed without a process.   *)
LaunchBegin(p) ==
    LET r == inHand[p] IN
    /\ r # NoRequest
    /\ Unlocked(r.i)
    /\ \/ /\ ~Wanted(r)
          /\ inHand' = [inHand EXCEPT ![p] = NoRequest]
          /\ UNCHANGED slot
       \/ /\ Wanted(r)                         \* cancelled or abandoned
          /\ Put(r.i, Completed(slot[r.i], TRUE))
          /\ inHand' = [inHand EXCEPT ![p] = NoRequest]
       \/ /\ Wanted(r)
          /\ abandonedGen[r.i] # r.g
          /\ Put(r.i, [slot[r.i] EXCEPT !.state = "Creating"])
          /\ UNCHANGED inHand
    /\ UNCHANGED <<control, freeing, marks, caller, service, serviceStop>>

(* launch_request after the call: the root is handed to the slot before    *)
(* anything else; then validation, then cancellation and the closed gate.  *)
LaunchEnd(p) ==
    LET r    == inHand[p]
        s    == [slot[r.i] EXCEPT !.root = "live"]
        fail == [s EXCEPT !.terminal = TRUE]
    IN
    /\ r # NoRequest
    /\ slot[r.i].state = "Creating" /\ slot[r.i].gen = r.g
    /\ \/ admission = "Open" /\ Put(r.i, [s EXCEPT !.state = "HandoffPending"])
       \/ Put(r.i, [s EXCEPT !.state = "CleanupRequested"])     \* cancelled, closed
       \/ Put(r.i, [fail EXCEPT !.state = "ContainmentLost"])   \* not validated
       \/ Put(r.i, [fail EXCEPT !.state = "CleanupRequested"])  \* failed, owning
       \/ Put(r.i, Completed(slot[r.i], TRUE))                  \* failed, nothing made
    /\ inHand' = [inHand EXCEPT ![p] = NoRequest]
    /\ UNCHANGED <<control, freeing, marks, caller, service, serviceStop>>

(* Mutant: only slots that nobody refers to are marked.                    *)
MarkReadUnheld(i) ==
    /\ service = "running" /\ admission # "Open"
    /\ Unlocked(i) /\ slot[i].gen # 0 /\ marking[i] = 0
    /\ \A c \in Callers : caller[c].i # i
    /\ marking' = [marking EXCEPT ![i] = slot[i].gen]
    /\ UNCHANGED <<control, slot, freeing, abandonedGen, cleanupGen, threads>>

(* Once admission is closed a pass marks every slot as abandoned: it reads *)
(* the generation under the slot's lock and stores it without the lock.    *)
MarkRead(i) ==
    /\ service = "running"
    /\ admission # "Open"
    /\ Unlocked(i) /\ slot[i].gen # 0 /\ marking[i] = 0
    /\ marking' = [marking EXCEPT ![i] = slot[i].gen]
    /\ UNCHANGED <<control, slot, freeing, abandonedGen, cleanupGen, threads>>

MarkStore(i) ==
    /\ marking[i] # 0
    /\ mark_abandoned(i, marking[i])
    /\ marking' = [marking EXCEPT ![i] = 0]
    /\ UNCHANGED <<control, slot, freeing, cleanupGen, threads>>

(* What a pass makes of a slot before it cleans: an abandoned one is to be *)
(* cleaned up, an active one is observed unless its cleanup is requested,  *)
(* and an explicit drain gives a quarantined one new attempts.             *)
Observed(i, explicit) ==
    LET s         == slot[i]
        abandoned == abandonedGen[i] = s.gen
        requested == cleanupGen[i] = s.gen
    IN  IF abandoned /\ s.state \in {"Reserved", "HandoffPending", "Active",
                                     "ContainmentLost"}
          THEN {[s EXCEPT !.state = "CleanupRequested"]}
        ELSE IF s.state = "Active" /\ ~requested
          THEN {[s EXCEPT !.state = "ContainmentLost"],
                IF s.root = "live" THEN s ELSE [s EXCEPT !.state = "RootWaitable"]}
        ELSE IF explicit /\ s.state = "Quarantined"
          THEN {[s EXCEPT !.state = "CleanupRequested", !.attempts = 0]}
        ELSE {s}

ToClean == {"CleanupRequested", "RootWaitable", "ContainmentLost", "Quarantined"}

(* service_pass at one slot, its cleanup having the given outcome.         *)
Visit(i, explicit, outcome) ==
    /\ explicit \/ service = "running"
    /\ Unlocked(i) /\ Occupied(slot[i]) /\ slot[i].state # "Complete"
    /\ \E s \in Observed(i, explicit) :
         /\ s.state \in ToClean
         /\ \E t \in cleanup_slot(s, outcome) : Put(i, t)
    /\ UNCHANGED <<control, freeing, marks, threads>>

-----------------------------------------------------------------------------
(* Shutdown and the end of the service thread.                             *)

CloseAdmission ==
    /\ admission = "Open"
    /\ admission' = "Closing"
    /\ UNCHANGED <<free, generations, owned, queue, slot, freeing, marks, threads>>

(* Mutant: the last owned slot is not counted.                             *)
ZeroOwnedOffByOne == owned <= 1

zero_owned == owned = 0

(* shutdown stops the service when nothing is owned ...                    *)
StopService ==
    /\ admission = "Closing" /\ zero_owned
    /\ serviceStop' = TRUE
    /\ UNCHANGED <<control, slot, freeing, marks, inHand, caller, service>>

(* ... the service looks again at the end of a pass ...                    *)
ServiceExit ==
    /\ service = "running" /\ serviceStop /\ zero_owned
    /\ inHand["service"] = NoRequest
    /\ service' = "stopped"
    /\ UNCHANGED <<control, slot, freeing, marks, inHand, caller, serviceStop>>

(* ... and shutdown joins it.                                              *)
JoinService ==
    /\ admission = "Closing" /\ serviceStop /\ service = "stopped"
    /\ admission' = "Joined"
    /\ UNCHANGED <<free, generations, owned, queue, slot, freeing, marks, threads>>

(* External: a process ends by itself.                                     *)
RootExit(i) ==
    /\ slot[i].root = "live"
    /\ Put(i, [slot[i] EXCEPT !.root = "exited"])
    /\ UNCHANGED <<control, freeing, marks, threads>>

-----------------------------------------------------------------------------

Spawning(c) == ResetSlot(c) \/ Enqueue(c) \/ CancelReservation(c)

Next ==
    \/ \E c \in Callers :
         \/ Reserve(c) \/ Spawning(c)
         \/ AwaitReady(c) \/ AwaitFails(c) \/ AwaitDeadline(c)
         \/ Activate(c) \/ Drop(c)
         \/ RequestCleanup(c) \/ MarkCleanup(c) \/ CleanupReturns(c)
    \/ \E p \in Passes : PopRequest(p) \/ LaunchBegin(p) \/ LaunchEnd(p)
    \/ \E i \in Slots :
         \/ MarkRead(i) \/ MarkStore(i) \/ ReleaseSlot(i) \/ FreeSlot(i) \/ RootExit(i)
         \/ \E explicit \in BOOLEAN, outcome \in Outcomes : Visit(i, explicit, outcome)
    \/ CloseAdmission \/ StopService \/ ServiceExit \/ JoinService

(* The service thread loops for ever, a thread inside spawn goes on, the   *)
(* operating system answers, and a cleanup tried again and again succeeds  *)
(* in the end.  Nothing obliges a caller to drop a capability, a process   *)
(* to exit, or anyone to drain or to shut down.                            *)
Fairness ==
    /\ \A c \in Callers : WF_vars(Spawning(c))
    /\ \A p \in Passes : WF_vars(LaunchBegin(p)) /\ WF_vars(LaunchEnd(p))
    /\ WF_vars(PopRequest("service"))
    /\ \A i \in Slots :
         /\ WF_vars(MarkRead(i)) /\ WF_vars(MarkStore(i))
         /\ WF_vars(ReleaseSlot(i)) /\ WF_vars(FreeSlot(i))
         /\ SF_vars(Visit(i, FALSE, "reaped"))

Spec == Init /\ [][Next]_vars

FairSpec == Spec /\ Fairness

-----------------------------------------------------------------------------
(* Properties.                                                             *)

OwnedSlots == {i \in Slots : ~free[i] /\ (slot[i].state = "Retired" => i \in freeing)}

(* The control block agrees with the slots, over all interleavings of two  *)
(* releases, a retirement, a late launch request and a new reservation: a  *)
(* slot is counted from the reservation to the second half of its release, *)
(* and one that can be reserved holds no process and no handle.            *)
OwnedAccounted ==
    /\ TypeOK
    /\ owned = Cardinality(OwnedSlots)
    /\ \A i \in Slots : free[i] =>
         /\ slot[i].state = "Free" /\ slot[i].root = "none" /\ i \notin freeing
         /\ generations[i] = slot[i].gen

(* A process leaves its slot only through a cleanup that reaped it: no     *)
(* step resets, relaunches or frees a slot that still has a root.          *)
RootNeverLost ==
    [][\A i \in Slots : slot[i].root # "none" =>
          /\ slot'[i].gen = slot[i].gen
          /\ Occupied(slot'[i])
          /\ slot'[i].root = "none" => slot'[i].state = "Complete"
          /\ slot'[i].root = "live" => slot[i].root = "live"]_vars

(* When shutdown has joined the service no slot owns a process or a        *)
(* handle, no launch is under way and the service is gone for good.        *)
JoinedOwnsNothing ==
    admission = "Joined" =>
        /\ service = "stopped"
        /\ \A i \in Slots : ~Occupied(slot[i]) /\ i \notin freeing

(* Who answers for the process in slot i.                                  *)
Holders(i) == {c \in Callers :
    caller[c].i = i /\ caller[c].g = slot[i].gen /\ caller[c].pc # "reset"}

Orphan(i) == slot[i].state \in {"HandoffPending", "Active"} /\ Holders(i) = {}

(* A process nobody answers for carries the abandonment mark of its own    *)
(* generation, the one a pass of the service looks for: the launch         *)
(* deadline racing the handover, a refused activation and a dropped        *)
(* capability all leave it ("A stale token cannot inspect, activate,       *)
(* signal, close, clear, or reuse anything").                              *)
OrphanKeepsMark == \A i \in Slots : Orphan(i) => abandonedGen[i] = slot[i].gen

(* A caller of another generation has stored its own mark over the slot's. *)
Overwritten(i) == abandonedGen[i] \notin {0, slot[i].gen}

(* A process nobody answers for is taken to cleanup by the service without *)
(* a shutdown, a drain or an exit of the process, however the launch       *)
(* deadline, the handover, the activation and the drop met; only a stale   *)
(* mark stored over its own can prevent it.                                *)
OrphanIsCleanedUp ==
    \A i \in Slots : Orphan(i) ~> (~Orphan(i) \/ Overwritten(i))

(* "Quarantined -> explicit bounded drain only" (0001:180): before a       *)
(* shutdown the service's own passes leave a slot alone whose automatic    *)
(* attempts are used up.  It does not hold: service_pass goes on to        *)
(* cleanup_slot with a Quarantined slot, explicit or not.                  *)
QuarantineAwaitsDrain ==
    [][\A i \in Slots, outcome \in Outcomes :
          admission = "Open" /\ slot[i].state = "Quarantined" =>
              ~Visit(i, FALSE, outcome)]_vars

(* Once admission is closed every slot is given back, whatever the callers *)
(* do with their capabilities.                                             *)
ShutdownDrains == admission # "Open" ~> owned = 0
=============================================================================

---------------------------- MODULE SyncBarrier ----------------------------
(***************************************************************************)
(* The synchronizing-timer barrier: the coordinator                        *)
(* DeterministicSynchronizingCoordinator of                                *)
(* crates/runtime/src/coordination.rs and the SynchronizingDelayFuture of  *)
(* crates/runtime/src/timers.rs through which a virtual user waits on it.  *)
(*                                                                         *)
(* The futures are not Send: all of them run on one executor thread, so a  *)
(* poll, with its call of poll_arrival and the call of complete or cancel  *)
(* that follows it, is one step.  The coordinator's mutex-protected state  *)
(* is the variable bar, on which the three calls are functions.            *)
(***************************************************************************)
EXTENDS Integers, FiniteSets

CONSTANTS
    Participants,     \* participant identities (one per virtual user)
    Keys,             \* barrier keys: timer name, with the group if groupSize=0
    GroupKeys,        \* the keys of groupSize=0 timers
    GroupSize,        \* configured size of the other keys
    GroupSizes,       \* sizes a thread group may register
    Timeout,          \* timeout of each key's timer, 0 for none
    MaxSlots, MaxParticipants,
    MaxGeneration,    \* last generation of a key (u64::MAX)
    MaxTime           \* model bound: end of the clock

NoKey == "no key"

ASSUME BarrierAssumption ==
    /\ GroupKeys \subseteq Keys /\ NoKey \notin Keys
    /\ GroupSize \in [Keys \ GroupKeys -> Nat \ {0}]
    /\ GroupSizes \subseteq Nat \ {0}
    /\ Timeout \in [Keys -> Nat]
    /\ MaxSlots \in Nat /\ MaxParticipants \in Nat
    /\ MaxGeneration \in Nat \ {0} /\ MaxTime \in Nat

VARIABLES
    bar,      \* BarrierState
    size,     \* configured_group_sizes, 0 when not registered
    waitGen,  \* toggled by every step that bumps wait_generation
    clock,    \* the run's monotonic clock
    future,   \* future[p]: key and request time of p's pending future
    woken,    \* p's waker was called since its last poll
    fired     \* wake_ready of p's token: its timeout registration has fired,
              \* or was cancelled before it fired (see Registered)

vars == <<bar, size, waitGen, clock, future, woken, fired>>

Slot == [generation : 0 .. MaxGeneration, expected : Nat, deadline : 0 .. MaxTime,
         arrivals : SUBSET Participants, retired : SUBSET Participants,
         outcome : {"None", "Released", "TimedOut"}]

NoSlot == [generation |-> 0, expected |-> 0, deadline |-> 0,
           arrivals |-> {}, retired |-> {}, outcome |-> "None"]

NoFuture == [key |-> NoKey, now |-> 0]

(* Type invariant; in next a key holds 0 before its first poll and         *)
(* MaxGeneration + 1 when generation_overflow has it.                      *)
TypeOK ==
    /\ bar \in [slot : [Keys -> Slot], next : [Keys -> 0 .. MaxGeneration + 1],
                lease : [Keys -> [Participants -> 0 .. MaxGeneration]],
                count : 0 .. MaxParticipants]
    /\ size \in [GroupKeys -> {0} \cup GroupSizes]
    /\ waitGen \in {0, 1}
    /\ clock \in 0 .. MaxTime
    /\ future \in [Participants -> [key : Keys \cup {NoKey}, now : 0 .. MaxTime]]
    /\ woken \in [Participants -> BOOLEAN]
    /\ fired \in [Participants -> BOOLEAN]

Init ==
    /\ bar = [slot |-> [k \in Keys |-> NoSlot], next |-> [k \in Keys |-> 0],
              lease |-> [k \in Keys |-> [p \in Participants |-> 0]], count |-> 0]
    /\ size = [k \in GroupKeys |-> 0]
    /\ waitGen = 0
    /\ clock = 0
    /\ future = [p \in Participants |-> NoFuture]
    /\ woken = [p \in Participants |-> FALSE]
    /\ fired = [p \in Participants |-> FALSE]

-----------------------------------------------------------------------------
(* The coordinator.                                                        *)

Exists(b, k)   == b.slot[k].generation # 0
Leased(b, k)   == {p \in Participants : b.lease[k][p] # 0}
Slots(b)       == {k \in Keys : Exists(b, k)}

(* Mutant: a generation with tombstones is kept.                           *)
DrainedUnretired(b, k) ==
    Exists(b, k) /\ b.slot[k].arrivals \cup b.slot[k].retired = {} /\ Leased(b, k) = {}

Drained(b, k) == Exists(b, k) /\ b.slot[k].arrivals = {} /\ Leased(b, k) = {}

(* The drained slot is removed and the key's generation advances.          *)
RemoveDrained(b, k) ==
    IF Drained(b, k)
    THEN [b EXCEPT !.slot[k] = NoSlot, !.next[k] = @ + 1]
    ELSE b

(* Mutant: the participant count is not given back.                        *)
UnleaseKeepsCount(b, p, k) == [b EXCEPT !.lease[k][p] = 0]

Unlease(b, p, k) == [b EXCEPT !.lease[k][p] = 0, !.count = @ - 1]

(* The lease p held belongs to the generation of the slot.                 *)
IsCurrent(b, p, k) == Exists(b, k) /\ b.slot[k].generation = b.lease[k][p]

(* Mutant: a cancelled arrival breaks even a generation that was released. *)
BreakAlways(slot, p) ==
    [slot EXCEPT !.arrivals = @ \ {p}, !.retired = @ \cup {p}, !.outcome = "TimedOut"]

(* A cancelled arrival breaks its generation.                              *)
Break(slot, p) ==
    [slot EXCEPT !.arrivals = @ \ {p}, !.retired = @ \cup {p},
                 !.outcome = IF @ = "None" THEN "TimedOut" ELSE @]

Cancelled(b, p, k) ==
    IF p \notin Leased(b, k) THEN b
    ELSE LET u == Unlease(b, p, k)
         IN  RemoveDrained(IF IsCurrent(b, p, k) /\ p \in b.slot[k].arrivals
                           THEN [u EXCEPT !.slot[k] = Break(@, p)] ELSE u, k)

(* The cancellation decides the generation and wakes the others.           *)
CancelBreaks(b, p, k) ==
    /\ p \in Leased(b, k) /\ IsCurrent(b, p, k)
    /\ p \in b.slot[k].arrivals /\ b.slot[k].outcome = "None"

WokenByCancel(b, p, k) == IF CancelBreaks(b, p, k) THEN b.slot[k].arrivals \ {p} ELSE {}

Settle(slot, p, outcome) ==
    LET settled == IF slot.outcome = "None" THEN outcome ELSE slot.outcome
    IN  [slot EXCEPT !.arrivals = @ \ {p}, !.outcome = settled,
                     !.retired = IF settled = "TimedOut" THEN @ \cup {p} ELSE @]

Completed(b, p, k, outcome) ==
    IF p \notin Leased(b, k) THEN b
    ELSE LET u == Unlease(b, p, k)
         IN  RemoveDrained(IF IsCurrent(b, p, k)
                           THEN [u EXCEPT !.slot[k] = Settle(@, p, outcome)] ELSE u, k)

-----------------------------------------------------------------------------
(* The future.                                                             *)

Expected(k) == IF k \in GroupKeys THEN size[k] ELSE GroupSize[k]

NoCapacity(k) ==
    /\ ~Exists(bar, k)
    /\ \/ Cardinality(Slots(bar)) >= MaxSlots
       \/ bar.next[k] = 0 /\ Cardinality({j \in Keys : bar.next[j] # 0}) >= MaxSlots

(* The errors poll_arrival returns before it looks at the key's generation.*)
Rejected(k) ==
    \/ Expected(k) = 0 \/ Expected(k) > MaxParticipants
    \/ NoCapacity(k)
    \/ bar.next[k] > MaxGeneration

(* The state after next_generation.entry(key).or_insert(initial).          *)
Entered(k) == IF bar.next[k] = 0 THEN [bar EXCEPT !.next[k] = 1] ELSE bar

(* The errors it returns afterwards.                                       *)
Refused(p, k) ==
    LET slot == bar.slot[k]
    IN  \/ Exists(bar, k) /\ slot.expected # Expected(k)
        \/ p \in Leased(bar, k) /\ bar.lease[k][p] # bar.next[k]
        \/ /\ p \notin Leased(bar, k)
           /\ \/ bar.count >= MaxParticipants
              \/ slot.outcome = "Released"
              \/ /\ slot.outcome = "TimedOut"
                 /\ p \in slot.retired \/ Cardinality(slot.retired) >= MaxParticipants

Expired(k, now) == bar.slot[k].deadline # 0 /\ now >= bar.slot[k].deadline

Bump == waitGen' = 1 - waitGen

(* The scheduler still holds p's timeout registration.                     *)
Registered(p) == future[p] # NoFuture /\ Timeout[future[p].key] # 0 /\ ~fired[p]

(* The future of p is ready; the participants in "others" are woken.  The  *)
(* poll has taken the wake bit, but cancelling a registration that is not  *)
(* yet due wakes its token, which sets the bit again.                      *)
Ready(p, others) ==
    /\ future' = [future EXCEPT ![p] = NoFuture]
    /\ woken' = [q \in Participants |->
                    IF q = p THEN FALSE ELSE woken[q] \/ q \in others]
    /\ fired' = [fired EXCEPT ![p] = Registered(p)]

(* An error from poll_arrival: the future cancels its arrival.             *)
PollFails(p, k) ==
    LET b == IF Rejected(k) THEN bar ELSE Entered(k)
    IN  /\ Rejected(k) \/ Refused(p, k)
        /\ bar' = Cancelled(b, p, k)
        /\ Ready(p, WokenByCancel(b, p, k))
        /\ IF CancelBreaks(b, p, k) THEN Bump ELSE UNCHANGED waitGen

Admitted(p, k) == ~Rejected(k) /\ ~Refused(p, k)

(* The generation has its outcome: the participant takes it and completes, *)
(* or arrives late in a broken generation and only leaves a tombstone.     *)
PollClosed(p, k) ==
    /\ Admitted(p, k)
    /\ bar.slot[k].outcome # "None"
    /\ bar' = IF p \in Leased(bar, k)
              THEN Completed(bar, p, k, bar.slot[k].outcome)
              ELSE [bar EXCEPT !.slot[k].retired = @ \cup {p}]
    /\ Ready(p, {})
    /\ Bump

Joined(b, p, k) == [b EXCEPT !.lease[k][p] = b.next[k], !.count = @ + 1]

(* An arrival after the deadline closes the generation for everyone.       *)
PollExpires(p, k, now) ==
    LET b == IF p \in Leased(bar, k) THEN bar ELSE Joined(bar, p, k)
    IN  /\ Admitted(p, k)
        /\ bar.slot[k].outcome = "None" /\ Expired(k, now)
        /\ bar' = Completed([b EXCEPT !.slot[k].outcome = "TimedOut"], p, k, "TimedOut")
        /\ Ready(p, bar.slot[k].arrivals)
        /\ Bump

GroupIsComplete(slot) == Cardinality(slot.arrivals) >= slot.expected

(* The state after a new arrival has joined the generation.                *)
Arrival(p, k, now) ==
    LET e    == Entered(k)
        slot == IF Exists(e, k) THEN e.slot[k]
                ELSE [NoSlot EXCEPT !.generation = e.next[k], !.expected = Expected(k),
                                    !.deadline = IF Timeout[k] = 0 THEN 0 ELSE now + Timeout[k]]
    IN  [Joined(e, p, k) EXCEPT !.slot[k] = [slot EXCEPT !.arrivals = @ \cup {p}]]

IsOpen(p, k, now) ==
    Admitted(p, k) /\ bar.slot[k].outcome = "None" /\ ~Expired(k, now)

(* The last arrival of the group releases all and completes.               *)
PollReleases(p, k, now) ==
    LET b == Arrival(p, k, now)
    IN  /\ IsOpen(p, k, now)
        /\ p \notin Leased(bar, k)
        /\ GroupIsComplete(b.slot[k])
        /\ bar' = Completed([b EXCEPT !.slot[k].outcome = "Released"], p, k, "Released")
        /\ Ready(p, b.slot[k].arrivals)
        /\ Bump

(* poll_arrival is pending, and leaves the state Waiting.                  *)
Waiting(p, k, now) == IF p \in Leased(bar, k) THEN bar ELSE Arrival(p, k, now)

IsPending(p, k, now) ==
    /\ IsOpen(p, k, now)
    /\ p \in Leased(bar, k) \/ ~GroupIsComplete(Arrival(p, k, now).slot[k])

(* The wake bit is set: the wait has timed out.                            *)
OwnTimeout(p, k, now) ==
    /\ IsPending(p, k, now) /\ fired[p]
    /\ bar' = Completed(Waiting(p, k, now), p, k, "TimedOut")
    /\ Ready(p, {})
    /\ Bump

PollPends(p, k, now) ==
    /\ IsPending(p, k, now) /\ ~fired[p]
    /\ bar' = Waiting(p, k, now)
    /\ future' = [future EXCEPT ![p] = [key |-> k, now |-> now]]
    /\ woken' = [woken EXCEPT ![p] = FALSE]
    /\ IF p \in Leased(bar, k) THEN UNCHANGED waitGen ELSE Bump
    /\ UNCHANGED fired

(* The scheduler refuses to register the timeout of a new arrival.         *)
RegistrationRefused(p, k, now) ==
    LET b == Waiting(p, k, now)
    IN  /\ IsPending(p, k, now) /\ ~fired[p]
        /\ future[p] = NoFuture /\ Timeout[k] # 0
        /\ bar' = Cancelled(b, p, k)
        /\ Ready(p, WokenByCancel(b, p, k))
        /\ Bump

poll(p, k, now) ==
    /\ \/ PollFails(p, k)
       \/ PollClosed(p, k)
       \/ PollExpires(p, k, now)
       \/ PollReleases(p, k, now)
       \/ OwnTimeout(p, k, now)
       \/ PollPends(p, k, now)
       \/ RegistrationRefused(p, k, now)
    /\ UNCHANGED <<size, clock>>

(* Timer::delay: the request takes the time and the future is polled.      *)
delay(p, k) ==
    /\ future[p] = NoFuture
    /\ clock + Timeout[k] <= MaxTime
    /\ poll(p, k, clock)

(* A pending future is polled again, because it was woken or spuriously.   *)
PollAgain(p) ==
    /\ future[p] # NoFuture
    /\ poll(p, future[p].key, future[p].now)

(* A control signal, or the drop of the future: its registration and its   *)
(* arrival are cancelled, and the wake bit is not taken.                   *)
Interrupt(p) ==
    LET k == future[p].key
    IN  /\ future[p] # NoFuture
        /\ bar' = Cancelled(bar, p, k)
        /\ future' = [future EXCEPT ![p] = NoFuture]
        /\ woken' = [q \in Participants |->
                        q # p /\ (woken[q] \/ q \in WokenByCancel(bar, p, k))]
        /\ fired' = [fired EXCEPT ![p] = @ \/ Registered(p)]
        /\ IF CancelBreaks(bar, p, k) THEN Bump ELSE UNCHANGED waitGen
        /\ UNCHANGED <<size, clock>>

(* The scheduler reaches the participant's own timeout.                    *)
TimeoutWake(p) ==
    /\ Registered(p)
    /\ clock >= future[p].now + Timeout[future[p].key]
    /\ fired' = [fired EXCEPT ![p] = TRUE]
    /\ woken' = [woken EXCEPT ![p] = TRUE]
    /\ UNCHANGED <<bar, size, waitGen, clock, future>>

Tick ==
    /\ clock < MaxTime
    /\ clock' = clock + 1
    /\ UNCHANGED <<bar, size, waitGen, future, woken, fired>>

register_thread_group(k, n) ==
    /\ n <= MaxParticipants
    /\ size' = [size EXCEPT ![k] = n]
    /\ UNCHANGED <<bar, waitGen, clock, future, woken, fired>>

unregister_thread_group(k) ==
    /\ size' = [size EXCEPT ![k] = 0]
    /\ UNCHANGED <<bar, waitGen, clock, future, woken, fired>>

Next ==
    \/ Tick
    \/ \E p \in Participants :
          \/ \E k \in Keys : delay(p, k)
          \/ PollAgain(p)
          \/ Interrupt(p)
          \/ TimeoutWake(p)
    \/ \E k \in GroupKeys :
          \/ \E n \in GroupSizes : register_thread_group(k, n)
          \/ unregister_thread_group(k)

Spec == Init /\ [][Next]_vars

(* Time passes, the scheduler delivers due timeouts, and the executor      *)
(* polls a woken future.                                                   *)
FairSpec ==
    /\ Spec
    /\ WF_vars(Tick)
    /\ \A p \in Participants : WF_vars(TimeoutWake(p)) /\ WF_vars(woken[p] /\ PollAgain(p))

-----------------------------------------------------------------------------
(* Properties.                                                             *)

(* Leases, slots and futures agree through every completion, cancellation  *)
(* and error: the participant count is the number of leases, a lease is a  *)
(* pending future and belongs to the slot's generation, and a slot lives   *)
(* exactly as long as it has a lease.  Nobody passes early: as long as a   *)
(* generation is open, all who came are still waiting and they are fewer   *)
(* than expected.                                                          *)
ReservationsAccounted ==
    /\ TypeOK
    /\ bar.count = Cardinality({kp \in Keys \X Participants : bar.lease[kp[1]][kp[2]] # 0})
    /\ \A k \in Keys :
          /\ Leased(bar, k) = {p \in Participants : future[p].key = k}
          /\ Exists(bar, k) = (Leased(bar, k) # {})
          /\ bar.slot[k].arrivals \subseteq Leased(bar, k)
          /\ \A p \in Leased(bar, k) : bar.lease[k][p] = bar.slot[k].generation
          /\ Exists(bar, k) /\ bar.slot[k].outcome = "None" =>
                /\ bar.slot[k].arrivals = Leased(bar, k)
                /\ Cardinality(bar.slot[k].arrivals) < bar.slot[k].expected
                /\ bar.slot[k].retired = {}

SameGeneration(k) ==
    Exists(bar, k) /\ bar'.slot[k].generation = bar.slot[k].generation

(* All participants of a generation get the same outcome: once decided it  *)
(* never changes, whatever a late timeout, arrival or cancellation says;   *)
(* and the tombstones "prevent a stale arrival from rejoining the already  *)
(* broken generation under the same identity".                             *)
OutcomeIsFinal ==
    [][\A k \in Keys : SameGeneration(k) =>
          /\ bar.slot[k].outcome # "None" => bar'.slot[k].outcome = bar.slot[k].outcome
          /\ \A p \in bar.slot[k].retired :
                p \in bar'.slot[k].retired /\ p \notin bar'.slot[k].arrivals]_vars

(* On a key with a timeout a generation that got its outcome drains: its   *)
(* slot is freed and the key's next generation can begin.  (Without one a  *)
(* participant that complete did not wake can be left waiting.)            *)
ClosedDrains ==
    \A k \in {j \in Keys : Timeout[j] # 0} :
        bar.slot[k].outcome # "None" ~> ~Exists(bar, k)

(* "The scheduler wake belongs to this barrier's timeout registration":    *)
(* who is only arriving, and has not registered its timeout yet, cannot    *)
(* time out.                                                               *)
TimeoutElapsed ==
    [][\A p \in Participants, k \in Keys :
          future[p] = NoFuture => ~OwnTimeout(p, k, clock)]_vars
=============================================================================

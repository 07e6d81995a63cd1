---------------------------- MODULE ResultRouter ----------------------------
(***************************************************************************)
(* The typed result router of crates/runtime/src/result_router.rs: a pure  *)
(* state machine that admits every result event into all sink queues at    *)
(* once, leases queued events to sinks, and accounts each event/sink pair  *)
(* in a delivery ledger until it reaches a terminal disposition.           *)
(*                                                                         *)
(* The router is one value behind a mutex (TypedResultRouterAdapter), so   *)
(* each public operation is one action.  A call that returns an error      *)
(* without touching the state is a stuttering step and is not written; the *)
(* error paths that do leave a changed state behind are.                   *)
(*                                                                         *)
(* Events are named by their run sequence, sinks by their rank in the      *)
(* stable sink-id order, starting at 0 like the Rust vector index.  A      *)
(* disposition carries no diagnostic text.  "Selected" never outlives the  *)
(* operation that creates it and is therefore not a ledger value here.     *)
(***************************************************************************)
EXTENDS Integers, Sequences, FiniteSets

CONSTANTS
    NSinks,                \* number of configured sinks
    MaxEvents,             \* model bound: result events offered to the router
    Size,                  \* byte size of each event
    MaxItems, MaxBytes,    \* queue limits of each sink
    MaxFinalizationSteps,  \* finalization limit of each sink
    FullPolicy, Deadline,  \* full policy of each sink, and its deadline
    SharedBudget,          \* the run's RetryBudget
    MaxAttempts,           \* model bound: attempts retried inside one operation
    MaxLedgerTransitions   \* the ledger's MAX_LEDGER_TRANSITIONS

Sinks  == 0 .. NSinks - 1
Events == 1 .. MaxEvents

ASSUME SinkAssumption   == NSinks \in Nat \ {0}
ASSUME BoundAssumption  == 
    MaxEvents \in Nat /\ MaxAttempts \in Nat /\ MaxLedgerTransitions \in Nat
ASSUME PlanAssumption ==
    /\ Size \in [Events -> Nat]
    /\ MaxItems \in [Sinks -> Nat]
    /\ MaxBytes \in [Sinks -> Nat]
    /\ MaxFinalizationSteps \in [Sinks -> Nat \ {0}]
    /\ FullPolicy \in [Sinks -> {"Backpressure", "FailRun", "DiagnosedDrop"}]
    /\ Deadline \in [Sinks -> Nat]
    /\ SharedBudget \in Nat

VARIABLES
    phase,        \* TypedRouterPhase
    nextSeq,      \* next_sequence
    cursor,       \* arbiter_cursor
    budget,       \* shared_budget
    queue,        \* queue[s]: queued events of sink s, oldest first
    queuedBytes,  \* queuedBytes[s]
    inFlight,     \* inFlight[s][e]: leased attempt of e, 0 when not leased
    failed,       \* failed[s]: the sink reported a terminal failure
    pending,      \* pending_admissions: partial function on Events
    ledger,       \* ledger[s][e]: disposition of the pair, or "None"
    attempts,     \* attempts[s][e]: attempt ordinal of the pair, 0 if absent
    transitions   \* length of the ledger's transition log

queueVars  == <<queue, queuedBytes, inFlight>>
ledgerVars == <<ledger, attempts, transitions>>
vars == <<phase, nextSeq, cursor, budget, queueVars, failed, pending, ledgerVars>>

Phases == {"New", "Open", "AdmissionStopped", "Draining", "Flushed",
           "Cancelled", "Finished", "Failed"}

FailureReasons == {"UnknownOutcome", "Permanent", "Cancelled"}
Terminal       == {"NotAdmitted", "Durable", "DiagnosedDrop"} \cup FailureReasons
Incomplete     == {"Queued", "Processing", "Retryable"}
Dispositions   == {"None"} \cup Terminal \cup Incomplete

PendingAdmission == [sink : Sinks, attempts : Nat]

(* Type invariant: every field of the router has the shape the Rust type   *)
(* gives it, and the transition log never outgrows its limit.              *)
TypeOK ==
    /\ phase \in Phases
    /\ nextSeq \in 1 .. MaxEvents + 1
    /\ cursor \in Sinks
    /\ budget \in 0 .. SharedBudget
    /\ queue \in [Sinks -> Seq(Events)]
    /\ queuedBytes \in [Sinks -> Nat]
    /\ inFlight \in [Sinks -> [Events -> Nat]]
    /\ failed \in [Sinks -> BOOLEAN]
    /\ DOMAIN pending \subseteq Events
    /\ \A e \in DOMAIN pending : pending[e] \in PendingAdmission
    /\ ledger \in [Sinks -> [Events -> Dispositions]]
    /\ attempts \in [Sinks -> [Events -> Nat]]
    /\ transitions \in 0 .. MaxLedgerTransitions

Init ==
    /\ phase = "New"
    /\ nextSeq = 1
    /\ cursor = 0
    /\ budget = SharedBudget
    /\ queue = [s \in Sinks |-> <<>>]
    /\ queuedBytes = [s \in Sinks |-> 0]
    /\ inFlight = [s \in Sinks |-> [e \in Events |-> 0]]
    /\ failed = [s \in Sinks |-> FALSE]
    /\ pending = [e \in {} |-> 0]
    /\ ledger = [s \in Sinks |-> [e \in Events |-> "None"]]
    /\ attempts = [s \in Sinks |-> [e \in Events |-> 0]]
    /\ transitions = 0

-----------------------------------------------------------------------------
(* The ledger.                                                             *)

(* Some sink has an entry for the event: selecting it again is refused     *)
(* with DuplicateSelection.                                                *)
InLedger(e) == \E s \in Sinks : ledger[s][e] # "None"

LedgerRoom(n) == transitions + n <= MaxLedgerTransitions

(* legal_transition, without the source "Selected".                        *)
LegalTransition(from, to) ==
    \/ from = "Queued" /\ to \in {"Processing", "Retryable"} \cup FailureReasons
    \/ from = "Processing"
       /\ to \in {"Durable", "DiagnosedDrop", "Retryable"} \cup FailureReasons
    \/ from = "Retryable" /\ to \in {"Queued", "Retryable"} \cup FailureReasons

(* DeliveryLedger::transition on one pair.                                 *)
Transition(s, e, to) ==
    /\ LegalTransition(ledger[s][e], to)
    /\ LedgerRoom(1)
    /\ ledger' = [ledger EXCEPT ![s][e] = to]
    /\ transitions' = transitions + 1

(* Mutant: only the first sink's pair is recorded.                         *)
SelectFirst(e, to) ==
    /\ ~InLedger(e)
    /\ LedgerRoom(2 * NSinks)
    /\ ledger' = [ledger EXCEPT ![0][e] = to]
    /\ attempts' = [attempts EXCEPT ![0][e] = 1]
    /\ transitions' = transitions + 2 * NSinks

(* Select the event for every sink and move all its pairs to one state.    *)
SelectAll(e, to) ==
    /\ ~InLedger(e)
    /\ LedgerRoom(2 * NSinks)
    /\ ledger' = [s \in Sinks |-> [ledger[s] EXCEPT ![e] = to]]
    /\ attempts' = [s \in Sinks |-> [attempts[s] EXCEPT ![e] = 1]]
    /\ transitions' = transitions + 2 * NSinks

IncompleteAt(s) == {e \in Events : ledger[s][e] \in Incomplete}

AllTerminal == \A s \in Sinks : IncompleteAt(s) = {}

-----------------------------------------------------------------------------
(* Admission.                                                              *)

Without(e) == [f \in DOMAIN pending \ {e} |-> pending[f]]

With(e, p) == [f \in DOMAIN pending \cup {e} |-> IF f = e THEN p ELSE pending[f]]

IsFull(s, e) ==
    \/ Len(queue[s]) >= MaxItems[s]
    \/ queuedBytes[s] + Size[e] > MaxBytes[s]

FirstFull(s, e) == IsFull(s, e) /\ \A t \in Sinks : IsFull(t, e) => s <= t

RecordNotAdmitted(e) ==
    /\ SelectAll(e, "NotAdmitted")
    /\ nextSeq' = nextSeq + 1
    /\ UNCHANGED queueVars

start ==
    /\ phase = "New"
    /\ phase' = "Open"
    /\ UNCHANGED <<nextSeq, cursor, budget, queueVars, failed, pending, ledgerVars>>

(* Mutant: an admitted event jumps the queue.                              *)
PushFront(q, e) == <<e>> \o q

(* VecDeque::push_back.                                                    *)
PushBack(q, e) == Append(q, e)

(* All sinks have room: the event is selected and queued everywhere.       *)
Accept(e) ==
    /\ \A s \in Sinks : ~IsFull(s, e)
    /\ SelectAll(e, "Queued")
    /\ queue' = [s \in Sinks |-> PushBack(queue[s], e)]
    /\ queuedBytes' = [s \in Sinks |-> queuedBytes[s] + Size[e]]
    /\ nextSeq' = nextSeq + 1
    /\ pending' = Without(e)
    /\ UNCHANGED <<phase, inFlight>>

(* The first full sink ends the run: FailRun, or backpressure that has no  *)
(* deadline or no shared budget left (b is the budget seen by admit).      *)
RejectAndFail(e, b) ==
    /\ \E s \in Sinks :
          /\ FirstFull(s, e)
          /\ \/ FullPolicy[s] = "FailRun"
             \/ FullPolicy[s] = "Backpressure" /\ (Deadline[s] = 0 \/ b = 0)
    /\ RecordNotAdmitted(e)
    /\ pending' = Without(e)
    /\ phase' = "Failed"

(* The first full sink has the diagnosed-drop policy: the event is not     *)
(* admitted anywhere and the run goes on.                                  *)
RejectAndDrop(e) ==
    /\ \E s \in Sinks : FirstFull(s, e) /\ FullPolicy[s] = "DiagnosedDrop"
    /\ RecordNotAdmitted(e)
    /\ UNCHANGED phase

(* The first full sink applies backpressure: the caller may retry.         *)
Blocked(s, e, b) ==
    /\ FirstFull(s, e)
    /\ FullPolicy[s] = "Backpressure"
    /\ Deadline[s] > 0 /\ b > 0
    /\ UNCHANGED <<phase, nextSeq, queueVars, ledgerVars>>

(* A pending event is refused by admit: only retry_admission commits it.   *)
admit(e) ==
    /\ phase = "Open"
    /\ e = nextSeq
    /\ e \notin DOMAIN pending
    /\ UNCHANGED <<budget, cursor, failed>>
    /\ \/ Accept(e)
       \/ RejectAndFail(e, budget)
       \/ RejectAndDrop(e) /\ pending' = Without(e)
       \/ \E s \in Sinks :
             /\ Blocked(s, e, budget)
             /\ pending' = With(e, [sink |-> s, attempts |-> 0])

DeadlineLimit(s) == IF FullPolicy[s] = "Backpressure" THEN Deadline[s] ELSE 0

RetryExhausted(e) ==
    pending[e].attempts >= DeadlineLimit(pending[e].sink) \/ budget = 0

OneMoreAttempt(e) ==
    With(e, [pending[e] EXCEPT !.attempts = pending[e].attempts + 1])

(* The retry spends one unit of the shared budget and runs admit again; a  *)
(* Full outcome puts the pending record back, one attempt older.           *)
retry_admission(e) ==
    /\ phase = "Open"
    /\ e \in DOMAIN pending
    /\ UNCHANGED <<cursor, failed>>
    /\ \/ /\ RetryExhausted(e)
          /\ RecordNotAdmitted(e)
          /\ pending' = Without(e)
          /\ phase' = "Failed"
          /\ UNCHANGED budget
       \/ /\ ~RetryExhausted(e)
          /\ e = nextSeq
          /\ budget' = budget - 1
          /\ \/ Accept(e)
             \/ RejectAndFail(e, budget - 1)
             \/ RejectAndDrop(e) /\ pending' = OneMoreAttempt(e)
             \/ \E s \in Sinks : Blocked(s, e, budget - 1) /\ pending' = OneMoreAttempt(e)

stop_admission ==
    /\ phase = "Open"
    /\ phase' = "AdmissionStopped"
    /\ UNCHANGED <<nextSeq, cursor, budget, queueVars, failed, pending, ledgerVars>>

-----------------------------------------------------------------------------
(* Delivery.                                                               *)

Deliverable(s) == ~failed[s] /\ queue[s] # <<>>

(* Distance of a sink from the arbiter cursor in round-robin order.        *)
Offset(s) == IF s >= cursor THEN s - cursor ELSE s + NSinks - cursor

NextSink(s) ==
    Deliverable(s) /\ \A t \in Sinks : Deliverable(t) => Offset(s) <= Offset(t)

DrainPhase == IF phase = "AdmissionStopped" THEN "Draining" ELSE phase

(* Mutant: the cursor stays in place.                                      *)
CursorStays(s) == s

CursorAfter(s) == IF s + 1 = NSinks THEN 0 ELSE s + 1

(* Lease the oldest event of the next sink.                                *)
Lease(s, e) ==
    /\ NextSink(s)
    /\ e = Head(queue[s])
    /\ Transition(s, e, "Processing")
    /\ queuedBytes[s] >= Size[e]
    /\ queue' = [queue EXCEPT ![s] = Tail(queue[s])]
    /\ queuedBytes' = [queuedBytes EXCEPT ![s] = queuedBytes[s] - Size[e]]
    /\ inFlight' = [inFlight EXCEPT ![s][e] = attempts[s][e]]
    /\ cursor' = CursorAfter(s)
    /\ phase' = DrainPhase
    /\ UNCHANGED <<nextSeq, budget, failed, pending, attempts>>

(* Nothing to lease, or the ledger refuses: only the phase may move.       *)
NoLease ==
    /\ phase = "AdmissionStopped"
    /\ \/ \A s \in Sinks : ~Deliverable(s)
       \/ ~LedgerRoom(1)
       \/ \E s \in Sinks : NextSink(s) /\ ledger[s][Head(queue[s])] # "Queued"
    /\ phase' = "Draining"
    /\ UNCHANGED <<nextSeq, cursor, budget, queueVars, failed, pending, ledgerVars>>

next_delivery ==
    /\ phase \notin {"Cancelled", "Finished"}
    /\ NoLease \/ \E s \in Sinks, e \in Events : Lease(s, e)

(* A durability acknowledgement of attempt a.                              *)
acknowledge(s, e, a) ==
    /\ inFlight[s][e] # 0
    /\ inFlight[s][e] = a
    /\ ledger[s][e] = "Processing" /\ attempts[s][e] = a
    /\ Transition(s, e, "Durable")
    /\ inFlight' = [inFlight EXCEPT ![s][e] = 0]
    /\ UNCHANGED <<phase, nextSeq, cursor, budget, queue, queuedBytes, failed,
                   pending, attempts>>

(* Mutant: the dropped pair keeps its lease.                               *)
DropKeepsLease(s, e) ==
    /\ FullPolicy[s] = "DiagnosedDrop"
    /\ inFlight[s][e] # 0
    /\ Transition(s, e, "DiagnosedDrop")
    /\ UNCHANGED <<phase, nextSeq, cursor, budget, queueVars, failed, pending, attempts>>

diagnosed_drop(s, e) ==
    /\ FullPolicy[s] = "DiagnosedDrop"
    /\ inFlight[s][e] # 0
    /\ Transition(s, e, "DiagnosedDrop")
    /\ inFlight' = [inFlight EXCEPT ![s][e] = 0]
    /\ UNCHANGED <<phase, nextSeq, cursor, budget, queue, queuedBytes, failed,
                   pending, attempts>>

(* fail with a retryable reason keeps the lease.                           *)
fail_retryable(s, e) ==
    /\ inFlight[s][e] # 0
    /\ Transition(s, e, "Retryable")
    /\ UNCHANGED <<phase, nextSeq, cursor, budget, queueVars, failed, pending, attempts>>

(* Mutant: a failing sink forgets its queued pairs.                        *)
QueuedAtNone(s) == {}

QueuedAt(s)   == {e \in Events : ledger[s][e] = "Queued"}
InFlightAt(s) == {e \in Events : inFlight[s][e] # 0}

(* Any other reason closes the sink: its queued pairs fail permanently,    *)
(* its other leases have an unknown outcome, and the run fails.            *)
fail_terminal(s, e, reason) ==
    LET steps == Cardinality(QueuedAt(s)) + Cardinality(InFlightAt(s))
    IN  /\ inFlight[s][e] # 0
        /\ LedgerRoom(steps)
        /\ \A f \in InFlightAt(s) : ledger[s][f] \in {"Processing", "Retryable"}
        /\ ledger' = [ledger EXCEPT ![s] =
              [f \in Events |->
                  CASE f = e              -> reason
                    [] f \in QueuedAt(s)  -> "Permanent"
                    [] f \in InFlightAt(s) \ {e} -> "UnknownOutcome"
                    [] OTHER              -> ledger[s][f]]]
        /\ transitions' = transitions + steps
        /\ failed' = [failed EXCEPT ![s] = TRUE]
        /\ phase' = "Failed"
        /\ inFlight' = [inFlight EXCEPT ![s] = [f \in Events |-> 0]]
        /\ queue' = [queue EXCEPT ![s] = <<>>]
        /\ queuedBytes' = [queuedBytes EXCEPT ![s] = 0]
        /\ UNCHANGED <<nextSeq, cursor, budget, pending, attempts>>

(* Requeue a retryable lease at the back of the sink's queue.              *)
retry(s, e) ==
    /\ ledger[s][e] = "Retryable"
    /\ inFlight[s][e] # 0
    /\ ~IsFull(s, e)
    /\ budget > 0
    /\ Transition(s, e, "Queued")
    /\ budget' = budget - 1
    /\ attempts' = [attempts EXCEPT ![s][e] = attempts[s][e] + 1]
    /\ inFlight' = [inFlight EXCEPT ![s][e] = 0]
    /\ queue' = [queue EXCEPT ![s] = PushBack(queue[s], e)]
    /\ queuedBytes' = [queuedBytes EXCEPT ![s] = queuedBytes[s] + Size[e]]
    /\ UNCHANGED <<phase, nextSeq, cursor, failed, pending>>

(* The adapter's retry inside one process operation: fail, requeue and     *)
(* lease again, with an attempt charged to the delivery budget.  Three     *)
(* ledger transitions, each of which may find the log full.                *)
retry_for_operation(s, e) ==
    /\ inFlight[s][e] # 0
    /\ LegalTransition(ledger[s][e], "Retryable")
    /\ \/ /\ LedgerRoom(3)
          /\ ledger' = [ledger EXCEPT ![s][e] = "Processing"]
          /\ attempts' = [attempts EXCEPT ![s][e] = attempts[s][e] + 1]
          /\ inFlight' = [inFlight EXCEPT ![s][e] = attempts[s][e] + 1]
          /\ transitions' = transitions + 3
       \/ /\ LedgerRoom(2) /\ ~LedgerRoom(3)
          /\ ledger' = [ledger EXCEPT ![s][e] = "Queued"]
          /\ attempts' = [attempts EXCEPT ![s][e] = attempts[s][e] + 1]
          /\ transitions' = transitions + 2
          /\ UNCHANGED inFlight
       \/ /\ LedgerRoom(1) /\ ~LedgerRoom(2)
          /\ ledger' = [ledger EXCEPT ![s][e] = "Retryable"]
          /\ transitions' = transitions + 1
          /\ UNCHANGED <<attempts, inFlight>>
    /\ UNCHANGED <<phase, nextSeq, cursor, budget, queue, queuedBytes, failed, pending>>

flush ==
    /\ phase \in {"AdmissionStopped", "Draining", "Failed"}
    /\ DOMAIN pending = {}
    /\ AllTerminal
    /\ phase' = "Flushed"
    /\ UNCHANGED <<nextSeq, cursor, budget, queueVars, failed, pending, ledgerVars>>

-----------------------------------------------------------------------------
(* Closing: cancel and finish.                                             *)

FinalizationCapacity ==
    \A s \in Sinks :
        2 * Cardinality(DOMAIN pending) + Cardinality(IncompleteAt(s))
            <= MaxFinalizationSteps[s]

PendingRoom == LedgerRoom(2 * NSinks * Cardinality(DOMAIN pending))

(* Pending admissions are closed in sequence order and the first one the   *)
(* ledger already knows stops the loop.                                    *)
Recorded == {e \in DOMAIN pending : \A f \in DOMAIN pending : f <= e => ~InLedger(f)}

PendingKnown == \E e \in DOMAIN pending : InLedger(e)

AfterPending ==
    [s \in Sinks |-> [e \in Events |-> IF e \in Recorded THEN "NotAdmitted"
                                                        ELSE ledger[s][e]]]

TransitionsAfterPending == transitions + 2 * NSinks * Cardinality(Recorded)

(* Mutants: pairs waiting for a retry are overlooked; closed pairs are     *)
(* closed again.                                                           *)
OpenKeysNoRetry == {k \in Events \X Sinks : ledger[k[2]][k[1]] \in {"Queued", "Processing"}}
OpenKeysAll     == {k \in Events \X Sinks : ledger[k[2]][k[1]] # "None"}

OpenKeys == {k \in Events \X Sinks : ledger[k[2]][k[1]] \in Incomplete}

KeyBefore(j, k) == j[1] < k[1] \/ (j[1] = k[1] /\ j[2] < k[2])

(* What the loop over the open entries closes, in key order: all of them,  *)
(* or as many as fit into the rest of the transition log.                  *)
Closable(closed) ==
    /\ \A k \in closed, j \in OpenKeys : KeyBefore(j, k) => j \in closed
    /\ TransitionsAfterPending + Cardinality(closed) <= MaxLedgerTransitions
    /\ \/ closed = OpenKeys
       \/ TransitionsAfterPending + Cardinality(closed) = MaxLedgerTransitions

RecordPending ==
    /\ attempts' = [s \in Sinks |-> [e \in Events |-> IF e \in Recorded THEN 1
                                                         ELSE attempts[s][e]]]
    /\ nextSeq' = nextSeq + Cardinality(Recorded)
    /\ pending' = [e \in {} |-> 0]

(* One of the pending admissions is already in the ledger: the operation   *)
(* stops there, with the remaining pending admissions taken.               *)
CloseStopsAtPending ==
    /\ PendingRoom /\ PendingKnown
    /\ RecordPending
    /\ ledger' = AfterPending
    /\ transitions' = TransitionsAfterPending
    /\ UNCHANGED queueVars

(* Terminalize the incomplete pairs.  When the transition log is full the  *)
(* operation stops half way and keeps the queues.                          *)
CloseKeys(closed) ==
    /\ PendingRoom /\ ~PendingKnown
    /\ RecordPending
    /\ Closable(closed)
    /\ ledger' = [s \in Sinks |-> [e \in Events |->
                     IF <<e, s>> \in closed THEN "Cancelled" ELSE AfterPending[s][e]]]
    /\ transitions' = TransitionsAfterPending + Cardinality(closed)
    /\ IF closed = OpenKeys
       THEN /\ queue' = [s \in Sinks |-> <<>>]
            /\ queuedBytes' = [s \in Sinks |-> 0]
            /\ inFlight' = [s \in Sinks |-> [e \in Events |-> 0]]
       ELSE UNCHANGED queueVars

cancel ==
    /\ phase # "Finished"
    /\ FinalizationCapacity
    /\ phase' = "Cancelled"
    /\ UNCHANGED <<cursor, budget, failed>>
    /\ \/ \E closed \in SUBSET OpenKeys : CloseKeys(closed)
       \/ CloseStopsAtPending
       \/ ~PendingRoom /\ UNCHANGED <<nextSeq, queueVars, pending, ledgerVars>>

StopPhase == IF phase \in {"New", "Open"} THEN "AdmissionStopped" ELSE phase

(* finish closes everything and then flushes; an error leaves the phase    *)
(* with admission stopped.                                                 *)
finish ==
    /\ phase \notin {"Finished", "Cancelled"}
    /\ UNCHANGED <<cursor, budget, failed>>
    /\ \/ /\ FinalizationCapacity
          /\ \/ \E closed \in SUBSET OpenKeys :
                   /\ CloseKeys(closed)
                   /\ phase' = IF closed = OpenKeys THEN "Finished" ELSE StopPhase
             \/ CloseStopsAtPending /\ phase' = StopPhase
       \/ /\ ~FinalizationCapacity \/ ~PendingRoom
          /\ phase' = StopPhase
          /\ UNCHANGED <<nextSeq, queueVars, pending, ledgerVars>>

-----------------------------------------------------------------------------
(* The callers: any operation, on any lease they hold, at any time.  The   *)
(* holder of a lease reports a retryable failure once and then retries.    *)
Next ==
    \/ start
    \/ stop_admission
    \/ next_delivery
    \/ flush
    \/ cancel
    \/ finish
    \/ \E e \in Events : admit(e) \/ retry_admission(e)
    \/ \E s \in Sinks, e \in Events :
          \/ \E a \in 1 .. attempts[s][e] : acknowledge(s, e, a)
          \/ diagnosed_drop(s, e)
          \/ ledger[s][e] = "Processing" /\ fail_retryable(s, e)
          \/ \E reason \in FailureReasons : fail_terminal(s, e, reason)
          \/ retry(s, e)
          \/ attempts[s][e] < MaxAttempts /\ retry_for_operation(s, e)

Spec == Init /\ [][Next]_vars

-----------------------------------------------------------------------------
(* Properties.                                                             *)

QueuedEvents(s) == {queue[s][i] : i \in DOMAIN queue[s]}

(* An accepted event is never silently dropped: every pair the ledger says *)
(* is queued is in its sink's queue, and every pair that is being          *)
(* processed or waits for a retry holds a lease for its current attempt,   *)
(* through every error path of cancel, finish and the retries.  (At the    *)
(* log limit an interrupted retry leaves a queued pair with its old lease.)*)
AcceptedIsHeld ==
    \A s \in Sinks, e \in Events :
        /\ ledger[s][e] = "Queued" =>
              \/ e \in QueuedEvents(s)
              \/ transitions = MaxLedgerTransitions /\ inFlight[s][e] # 0
        /\ ledger[s][e] \in {"Processing", "Retryable"} =>
              inFlight[s][e] = attempts[s][e] /\ inFlight[s][e] # 0

(* The converse: a queue or a lease never holds an event the ledger has    *)
(* already closed, so no event can be delivered twice, unless a closing    *)
(* operation ran out of transition log half way.                           *)
HeldIsAccounted ==
    transitions < MaxLedgerTransitions =>
        \A s \in Sinks :
            /\ \A e \in QueuedEvents(s) : ledger[s][e] = "Queued"
            /\ \A e \in InFlightAt(s) : ledger[s][e] \in {"Processing", "Retryable"}

(* Admission is all-or-nothing over the sinks and leaves no gap: the       *)
(* events below next_sequence are exactly those the ledger knows, and each *)
(* was admitted by every sink or by none.                                  *)
AdmissionIsAtomic ==
    /\ TypeOK
    /\ \A e \in Events, s, t \in Sinks :
         /\ (ledger[s][e] # "None") = (e < nextSeq)
         /\ (ledger[s][e] = "NotAdmitted") = (ledger[t][e] = "NotAdmitted")

(* A finished run has accounted for everything: no open pair, no pending   *)
(* admission, nothing queued and nothing leased (FinalizationReport).      *)
FinishedIsConserved ==
    phase = "Finished" =>
        /\ AllTerminal
        /\ DOMAIN pending = {}
        /\ \A s \in Sinks : queue[s] = <<>> /\ InFlightAt(s) = {}

FirstAttemptQueued(s, e) == ledger[s][e] = "Queued" /\ attempts[s][e] = 1

(* First attempts leave a sink's queue in run-sequence order: an event     *)
(* still waiting for its first attempt stands behind the older ones of     *)
(* its kind and is younger than every event already leased to the sink.    *)
FirstAttemptsInOrder ==
    transitions < MaxLedgerTransitions =>
        \A s \in Sinks : \A i \in DOMAIN queue[s] :
            LET e == queue[s][i] IN
            FirstAttemptQueued(s, e) =>
                /\ \A j \in DOMAIN queue[s] :
                      FirstAttemptQueued(s, queue[s][j]) /\ j < i => queue[s][j] < e
                /\ \A f \in Events :
                      /\ ledger[s][f] \notin {"None", "NotAdmitted"}
                      /\ ~FirstAttemptQueued(s, f)
                      => f < e

(* A terminal disposition is final and attempts only grow: a late or       *)
(* duplicate acknowledgement, failure or retry changes nothing.            *)
TerminalIsFinal ==
    [][\A s \in Sinks, e \in Events :
          /\ ledger[s][e] \in Terminal => ledger'[s][e] = ledger[s][e]
          /\ attempts[s][e] <= attempts'[s][e]]_vars

(* The fate of a pair as the delivery contract sees it.                    *)
FateOf(disposition) ==
    CASE disposition = "None"          -> "absent"
      [] disposition = "NotAdmitted"   -> "rejected"
      [] disposition \in Incomplete    -> "open"
      [] disposition = "Durable"       -> "durable"
      [] disposition = "DiagnosedDrop" -> "dropped"
      [] disposition \in FailureReasons -> "failed"

Contract == INSTANCE DeliveryContract WITH
    fate    <- [s \in Sinks |-> [e \in Events |-> FateOf(ledger[s][e])]],
    offered <- nextSeq - 1,
    closed  <- (phase = "Finished")

(* The router implements the delivery contract: atomic admission, one      *)
(* final fate per accepted pair, and no close while a pair is open,        *)
(* including the runs in which cancel or finish fail half way.             *)
ImplementsContract == Contract!Spec

=============================================================================

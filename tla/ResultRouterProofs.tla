------------------------- MODULE ResultRouterProofs -------------------------
(***************************************************************************)
(* Proofs about ResultRouter, for any number of sinks and events, any      *)
(* sizes, limits and policies, and about its arbitration.                  *)
(***************************************************************************)
EXTENDS RouterArbitration, FiniteSetTheorems, TLAPS

-----------------------------------------------------------------------------
(* The inductive invariant.                                                *)

(* A pending admission is the next event or one the router has passed.     *)
PendingInOrder == \A e \in DOMAIN pending : e <= nextSeq

(* A pair has an attempt ordinal exactly when the ledger knows it.         *)
AttemptsCounted ==
    \A s \in Sinks, e \in Events : (ledger[s][e] = "None") = (attempts[s][e] = 0)

(* Until the transition log is full, a lease belongs to an open pair that  *)
(* is not queued.                                                          *)
LeaseIsAccounted ==
    transitions < MaxLedgerTransitions =>
        \A s \in Sinks, e \in Events :
            inFlight[s][e] # 0 => ledger[s][e] \in {"Processing", "Retryable"}

LedgerInv == TypeOK /\ AdmissionIsAtomic /\ PendingInOrder /\ AttemptsCounted

HoldInv == LedgerInv /\ AcceptedIsHeld /\ LeaseIsAccounted /\ FinishedIsConserved

-----------------------------------------------------------------------------
(* Facts about the operators.                                              *)

(* Cardinalities of the finite sets the router counts.                     *)
LEMMA FiniteParts ==
    /\ IsFiniteSet(Events) /\ IsFiniteSet(Sinks) /\ IsFiniteSet(Events \X Sinks)
    /\ \A S \in SUBSET Events : IsFiniteSet(S) /\ Cardinality(S) \in Nat
    /\ \A S \in SUBSET (Events \X Sinks) : IsFiniteSet(S) /\ Cardinality(S) \in Nat
<1>1. IsFiniteSet(Events) /\ IsFiniteSet(Sinks)
  BY FS_Interval, SinkAssumption, BoundAssumption DEF Events, Sinks
<1>2. IsFiniteSet(Events \X Sinks)
  BY <1>1, FS_Product
<1>3. ASSUME NEW T, IsFiniteSet(T), NEW S \in SUBSET T
      PROVE  IsFiniteSet(S) /\ Cardinality(S) \in Nat
  BY <1>3, FS_Subset, FS_CardinalityType
<1> QED
  BY <1>1, <1>2, <1>3

(* At most the next event is recorded by a closing operation, because the  *)
(* ledger already knows every older pending event.                         *)
LEMMA RecordedIsNext ==
    ASSUME LedgerInv
    PROVE  /\ Recorded \subseteq DOMAIN pending /\ Recorded \subseteq Events
           /\ \/ Recorded = {} /\ Cardinality(Recorded) = 0
              \/ /\ Recorded = {nextSeq} /\ Cardinality(Recorded) = 1
                 /\ nextSeq \in Events
<1>1. Recorded \subseteq DOMAIN pending /\ Recorded \subseteq Events
  BY DEF Recorded, LedgerInv, TypeOK
<1>2. \A e \in Recorded : e = nextSeq
  <2> SUFFICES ASSUME NEW e \in Recorded PROVE e = nextSeq
    OBVIOUS
  <2>1. e \in Events /\ e <= nextSeq /\ nextSeq \in Int
    BY <1>1 DEF LedgerInv, PendingInOrder, TypeOK
  <2>2. ~InLedger(e)
    BY <1>1, <2>1 DEF Recorded, Events
  <2>3. 0 \in Sinks
    BY SinkAssumption DEF Sinks
  <2>4. ~(e < nextSeq)
    BY <2>1, <2>2, <2>3 DEF InLedger, LedgerInv, AdmissionIsAtomic
  <2> QED
    BY <2>1, <2>4 DEF Events
<1>3. Recorded = {} \/ Recorded = {nextSeq}
  BY <1>2
<1> QED
  BY <1>1, <1>3, FS_EmptySet, FS_Singleton

(* The log has room for what a closing operation records.                  *)
LEMMA RoomForPending ==
    ASSUME LedgerInv, PendingRoom
    PROVE  /\ TransitionsAfterPending \in Nat
           /\ transitions <= TransitionsAfterPending
           /\ TransitionsAfterPending <= MaxLedgerTransitions
<1> DEFINE c == Cardinality(DOMAIN pending)
<1>1. c \in Nat /\ transitions \in Nat /\ NSinks \in Nat
  BY FiniteParts, SinkAssumption DEF LedgerInv, TypeOK
<1>2. transitions + 2 * NSinks * c <= MaxLedgerTransitions
  BY DEF PendingRoom, LedgerRoom
<1>3. transitions <= MaxLedgerTransitions /\ MaxLedgerTransitions \in Nat
  BY BoundAssumption DEF LedgerInv, TypeOK
<1>4. CASE Recorded = {} /\ Cardinality(Recorded) = 0
  BY <1>1, <1>3, <1>4 DEF TransitionsAfterPending
<1>5. CASE Recorded = {nextSeq} /\ Cardinality(Recorded) = 1
  <2>1. DOMAIN pending # {}
    BY <1>5, RecordedIsNext
  <2>2. c >= 1
    <3>1. IsFiniteSet(DOMAIN pending)
      BY FiniteParts DEF LedgerInv, TypeOK
    <3>2. c # 0
      BY <2>1, <3>1, FS_EmptySet
    <3> QED
      BY <1>1, <3>2
  <2>3. 2 * NSinks <= 2 * NSinks * c
    BY <1>1, <2>2
  <2> QED
    BY <1>1, <1>2, <1>3, <1>5, <2>3 DEF TransitionsAfterPending
<1> QED
  BY <1>4, <1>5, RecordedIsNext

-----------------------------------------------------------------------------
(* What one step may do to the ledger.                                     *)

PairKept(s, e) == ledger'[s][e] = ledger[s][e] /\ attempts'[s][e] = attempts[s][e]

(* An open pair changes its disposition, possibly with a new attempt.      *)
PairMoves(s, e) ==
    /\ ledger[s][e] \in Incomplete
    /\ ledger'[s][e] \in Incomplete \cup (Terminal \ {"NotAdmitted"})
    /\ attempts'[s][e] \in {attempts[s][e], attempts[s][e] + 1}

OnlyMoves == \A s \in Sinks, e \in Events : PairKept(s, e) \/ PairMoves(s, e)

(* The next event enters the ledger, at all sinks alike.                   *)
Enters(to) ==
    /\ nextSeq \in Events
    /\ nextSeq' = nextSeq + 1
    /\ \A s \in Sinks : ledger'[s][nextSeq] = to /\ attempts'[s][nextSeq] = 1

EntersQueued ==
    /\ Enters("Queued")
    /\ \A s \in Sinks, e \in Events \ {nextSeq} : PairKept(s, e)

EntersRejected ==
    /\ Enters("NotAdmitted")
    /\ \A s \in Sinks, e \in Events \ {nextSeq} : PairKept(s, e) \/ PairMoves(s, e)

LedgerStep == (nextSeq' = nextSeq /\ OnlyMoves) \/ EntersQueued \/ EntersRejected

(* The dispositions and their classes.                                     *)
USE DEF Terminal, Incomplete, Dispositions, FailureReasons

(* One ledger transition moves an open pair and takes one log entry.       *)
LEMMA TransitionMoves ==
    ASSUME TypeOK, NEW s \in Sinks, NEW e \in Events, NEW to, Transition(s, e, to)
    PROVE  /\ ledger[s][e] \in Incomplete
           /\ to \in Incomplete \cup (Terminal \ {"NotAdmitted"})
           /\ ledger'[s][e] = to
           /\ \A t \in Sinks, f \in Events : t # s \/ f # e => ledger'[t][f] = ledger[t][f]
           /\ ledger' \in [Sinks -> [Events -> Dispositions]]
           /\ transitions < MaxLedgerTransitions
           /\ transitions' = transitions + 1
           /\ transitions' \in 0 .. MaxLedgerTransitions
<1>1. ledger[s][e] \in Incomplete /\ to \in Incomplete \cup (Terminal \ {"NotAdmitted"})
  BY DEF Transition, LegalTransition, TypeOK
<1>2. transitions' = transitions + 1 /\ transitions' \in 0 .. MaxLedgerTransitions
      /\ transitions < MaxLedgerTransitions
  BY BoundAssumption DEF Transition, LedgerRoom, TypeOK
<1>3. ledger' = [ledger EXCEPT ![s][e] = to]
  BY DEF Transition
<1> QED
  BY <1>1, <1>2, <1>3 DEF TypeOK

(* A step that transitions one pair only moves pairs.                      *)
LEMMA OnePairMoves ==
    ASSUME TypeOK, NEW s \in Sinks, NEW e \in Events, NEW to, Transition(s, e, to),
           \/ attempts' = attempts
           \/ attempts' = [attempts EXCEPT ![s][e] = attempts[s][e] + 1]
    PROVE  OnlyMoves
<1>1. ASSUME NEW t \in Sinks, NEW f \in Events, t # s \/ f # e
      PROVE  PairKept(t, f)
  <2>1. ledger'[t][f] = ledger[t][f]
    BY <1>1, TransitionMoves
  <2>2. attempts'[t][f] = attempts[t][f]
    <3>1. attempts \in [Sinks -> [Events -> Nat]]
      BY DEF TypeOK
    <3>2. CASE attempts' = attempts
      BY <3>2
    <3>3. CASE attempts' = [attempts EXCEPT ![s][e] = attempts[s][e] + 1]
      BY <1>1, <3>1, <3>3
    <3> QED
      BY <3>2, <3>3
  <2> QED
    BY <2>1, <2>2 DEF PairKept
<1>2. PairMoves(s, e)
  <2>1. attempts'[s][e] \in {attempts[s][e], attempts[s][e] + 1}
    BY DEF TypeOK
  <2> QED
    BY <2>1, TransitionMoves DEF PairMoves
<1> QED
  BY <1>1, <1>2 DEF OnlyMoves

(* Selecting an event that admit or retry_admission got past the sequence  *)
(* check enters it.                                                        *)
LEMMA SelectEnters ==
    ASSUME LedgerInv, NEW e \in Events, NEW to, SelectAll(e, to), e <= nextSeq,
           nextSeq' = nextSeq + 1, to \in {"Queued", "NotAdmitted"}
    PROVE  /\ e = nextSeq
           /\ Enters(to)
           /\ \A s \in Sinks, f \in Events \ {nextSeq} : PairKept(s, f)
           /\ ledger' \in [Sinks -> [Events -> Dispositions]]
           /\ attempts' \in [Sinks -> [Events -> Nat]]
           /\ transitions < MaxLedgerTransitions
           /\ transitions' \in 0 .. MaxLedgerTransitions
           /\ nextSeq' \in 1 .. MaxEvents + 1
<1>1. 0 \in Sinks
  BY SinkAssumption DEF Sinks
<1>2. e = nextSeq
  BY <1>1 DEF SelectAll, InLedger, LedgerInv, AdmissionIsAtomic, TypeOK, Events
<1>3. /\ ledger' = [s \in Sinks |-> [ledger[s] EXCEPT ![e] = to]]
      /\ attempts' = [s \in Sinks |-> [attempts[s] EXCEPT ![e] = 1]]
      /\ transitions' = transitions + 2 * NSinks
      /\ transitions + 2 * NSinks <= MaxLedgerTransitions
  BY DEF SelectAll, LedgerRoom
<1>4. /\ ledger' \in [Sinks -> [Events -> Dispositions]]
      /\ attempts' \in [Sinks -> [Events -> Nat]]
  BY <1>3 DEF LedgerInv, TypeOK
<1>5. /\ transitions < MaxLedgerTransitions
      /\ transitions' \in 0 .. MaxLedgerTransitions
  BY <1>3, SinkAssumption, BoundAssumption DEF LedgerInv, TypeOK
<1>6. nextSeq' \in 1 .. MaxEvents + 1
  BY <1>2, BoundAssumption DEF Events
<1>7. Enters(to)
  BY <1>2, <1>3 DEF Enters, LedgerInv, TypeOK
<1>8. \A s \in Sinks, f \in Events \ {nextSeq} : PairKept(s, f)
  BY <1>2, <1>3 DEF PairKept, LedgerInv, TypeOK
<1> QED
  BY <1>2, <1>4, <1>5, <1>6, <1>7, <1>8

-----------------------------------------------------------------------------
(* Every step keeps the types and is a ledger step: one lemma per action.  *)

StepOK == TypeOK' /\ PendingInOrder' /\ LedgerStep

(* The operations that only move the phase.                                *)
LEMMA QuietStep ==
    ASSUME LedgerInv, phase' \in Phases,
           UNCHANGED <<nextSeq, cursor, budget, queueVars, failed, pending, ledgerVars>>
    PROVE  StepOK
<1>1. TypeOK'
  BY DEF LedgerInv, TypeOK, queueVars, ledgerVars
<1>2. PendingInOrder'
  BY DEF LedgerInv, PendingInOrder
<1>3. LedgerStep
  BY DEF LedgerStep, OnlyMoves, PairKept, ledgerVars
<1> QED
  BY <1>1, <1>2, <1>3 DEF StepOK

LEMMA AcceptStep ==
    ASSUME LedgerInv, NEW e \in Events, Accept(e), e <= nextSeq,
           cursor' = cursor, failed' = failed, budget' \in 0 .. SharedBudget
    PROVE  StepOK
<1> USE DEF LedgerInv
<1>1. /\ e = nextSeq /\ Enters("Queued")
      /\ \A s \in Sinks, f \in Events \ {nextSeq} : PairKept(s, f)
      /\ ledger' \in [Sinks -> [Events -> Dispositions]]
      /\ attempts' \in [Sinks -> [Events -> Nat]]
      /\ transitions' \in 0 .. MaxLedgerTransitions
      /\ nextSeq' \in 1 .. MaxEvents + 1
  BY SelectEnters DEF Accept
<1>2. queue' \in [Sinks -> Seq(Events)]
  <2>1. \A s \in Sinks : PushBack(queue[s], e) \in Seq(Events)
    BY DEF TypeOK, PushBack
  <2> QED
    BY <2>1 DEF Accept
<1>3. queuedBytes' \in [Sinks -> Nat]
  <2>1. Size[e] \in Nat /\ queuedBytes \in [Sinks -> Nat]
    BY PlanAssumption DEF TypeOK
  <2>2. \A s \in Sinks : queuedBytes[s] + Size[e] \in Nat
    BY <2>1
  <2> QED
    BY <2>2 DEF Accept
<1>4. DOMAIN pending' \subseteq Events /\ \A f \in DOMAIN pending' : pending'[f] \in PendingAdmission
  BY DEF Accept, Without, TypeOK
<1>5. TypeOK'
  BY <1>1, <1>2, <1>3, <1>4 DEF Accept, TypeOK
<1>6. PendingInOrder'
  <2>1. \A f \in DOMAIN pending : f \in Int /\ f <= nextSeq
    BY DEF PendingInOrder, TypeOK, Events
  <2>2. nextSeq \in Int /\ nextSeq' = nextSeq + 1
    BY <1>1 DEF Enters, TypeOK
  <2> QED
    BY <2>1, <2>2 DEF Accept, Without, PendingInOrder
<1>7. LedgerStep
  BY <1>1 DEF LedgerStep, EntersQueued
<1> QED
  BY <1>5, <1>6, <1>7 DEF StepOK

(* The pending records an operation leaves behind: some of the old ones,   *)
(* and possibly one for e.                                                 *)
PendingFrom(e) ==
    /\ DOMAIN pending' \subseteq DOMAIN pending \cup {e}
    /\ \A f \in DOMAIN pending' : pending'[f] \in PendingAdmission

LEMMA PendingKept ==
    ASSUME LedgerInv, NEW e \in Events
    PROVE  /\ pending' = Without(e) => PendingFrom(e)
           /\ \A p \in PendingAdmission : pending' = With(e, p) => PendingFrom(e)
           /\ e \in DOMAIN pending /\ pending' = OneMoreAttempt(e) => PendingFrom(e)
<1>1. \A f \in DOMAIN pending : pending[f] \in PendingAdmission
  BY DEF LedgerInv, TypeOK
<1>2. pending' = Without(e) => PendingFrom(e)
  BY <1>1 DEF Without, PendingFrom
<1>3. \A p \in PendingAdmission : pending' = With(e, p) => PendingFrom(e)
  BY <1>1 DEF With, PendingFrom
<1>4. ASSUME e \in DOMAIN pending, pending' = OneMoreAttempt(e) PROVE PendingFrom(e)
  <2>1. [pending[e] EXCEPT !.attempts = pending[e].attempts + 1] \in PendingAdmission
    BY <1>1, <1>4 DEF PendingAdmission
  <2> QED
    BY <1>3, <1>4, <2>1 DEF OneMoreAttempt
<1> QED
  BY <1>2, <1>3, <1>4

(* An event recorded as not admitted.                                      *)
LEMMA RejectStep ==
    ASSUME LedgerInv, NEW e \in Events, RecordNotAdmitted(e), e <= nextSeq,
           PendingFrom(e), phase' \in Phases,
           cursor' = cursor, failed' = failed, budget' \in 0 .. SharedBudget
    PROVE  StepOK
<1> USE DEF LedgerInv
<1>1. /\ e = nextSeq /\ Enters("NotAdmitted")
      /\ \A s \in Sinks, f \in Events \ {nextSeq} : PairKept(s, f)
      /\ ledger' \in [Sinks -> [Events -> Dispositions]]
      /\ attempts' \in [Sinks -> [Events -> Nat]]
      /\ transitions' \in 0 .. MaxLedgerTransitions
      /\ nextSeq' \in 1 .. MaxEvents + 1
  BY SelectEnters DEF RecordNotAdmitted
<1>2. TypeOK'
  BY <1>1 DEF RecordNotAdmitted, queueVars, PendingFrom, TypeOK
<1>3. PendingInOrder'
  <2>1. \A f \in DOMAIN pending : f \in Int /\ f <= nextSeq
    BY DEF PendingInOrder, TypeOK, Events
  <2>2. nextSeq \in Int /\ nextSeq' = nextSeq + 1
    BY <1>1 DEF Enters, TypeOK
  <2> QED
    BY <1>1, <2>1, <2>2 DEF PendingFrom, PendingInOrder
<1>4. LedgerStep
  BY <1>1 DEF LedgerStep, EntersRejected
<1> QED
  BY <1>2, <1>3, <1>4 DEF StepOK

LEMMA BlockedStep ==
    ASSUME LedgerInv, NEW s \in Sinks, NEW e \in Events, NEW b, Blocked(s, e, b),
           e <= nextSeq, PendingFrom(e),
           cursor' = cursor, failed' = failed, budget' \in 0 .. SharedBudget
    PROVE  StepOK
<1> USE DEF LedgerInv
<1>1. TypeOK'
  BY DEF Blocked, queueVars, ledgerVars, PendingFrom, TypeOK
<1>2. PendingInOrder'
  BY DEF Blocked, PendingFrom, PendingInOrder
<1>3. LedgerStep
  BY DEF Blocked, LedgerStep, OnlyMoves, PairKept, ledgerVars
<1> QED
  BY <1>1, <1>2, <1>3 DEF StepOK

LEMMA AdmitStep ==
    ASSUME LedgerInv, NEW e \in Events, admit(e)
    PROVE  StepOK
<1>1. /\ e <= nextSeq /\ phase = "Open" /\ cursor' = cursor /\ failed' = failed
      /\ budget' \in 0 .. SharedBudget
  BY DEF admit, LedgerInv, TypeOK
<1>2. CASE Accept(e)
  BY <1>1, <1>2, AcceptStep
<1>3. CASE RejectAndFail(e, budget)
  <2>1. PendingFrom(e) /\ phase' \in Phases /\ RecordNotAdmitted(e)
    BY <1>3, PendingKept DEF RejectAndFail, Phases
  <2> QED
    BY <1>1, <2>1, RejectStep
<1>4. CASE RejectAndDrop(e) /\ pending' = Without(e)
  <2>1. PendingFrom(e) /\ phase' \in Phases /\ RecordNotAdmitted(e)
    BY <1>1, <1>4, PendingKept DEF RejectAndDrop, Phases
  <2> QED
    BY <1>1, <2>1, RejectStep
<1>5. CASE \E s \in Sinks : /\ Blocked(s, e, budget)
                           /\ pending' = With(e, [sink |-> s, attempts |-> 0])
  <2>1. PICK s \in Sinks : /\ Blocked(s, e, budget)
                           /\ pending' = With(e, [sink |-> s, attempts |-> 0])
    BY <1>5
  <2>2. [sink |-> s, attempts |-> 0] \in PendingAdmission
    BY DEF PendingAdmission
  <2>3. PendingFrom(e)
    BY <2>1, <2>2, PendingKept
  <2> QED
    BY <1>1, <2>1, <2>3, BlockedStep
<1> QED
  BY <1>2, <1>3, <1>4, <1>5 DEF admit

LEMMA RetryAdmissionStep ==
    ASSUME LedgerInv, NEW e \in Events, retry_admission(e)
    PROVE  StepOK
<1>1. /\ e <= nextSeq /\ phase = "Open" /\ cursor' = cursor /\ failed' = failed
      /\ e \in DOMAIN pending /\ budget \in 0 .. SharedBudget
  BY DEF retry_admission, LedgerInv, PendingInOrder, TypeOK
<1>2. CASE /\ RetryExhausted(e)
           /\ RecordNotAdmitted(e)
           /\ pending' = Without(e)
           /\ phase' = "Failed"
           /\ UNCHANGED budget
  <2>1. PendingFrom(e) /\ phase' \in Phases /\ budget' \in 0 .. SharedBudget
    BY <1>1, <1>2, PendingKept DEF Phases
  <2> QED
    BY <1>1, <1>2, <2>1, RejectStep
<1>3. CASE ~RetryExhausted(e) /\ budget' = budget - 1
  <2>1. budget' \in 0 .. SharedBudget
    BY <1>1, <1>3, PlanAssumption DEF RetryExhausted
  <2>2. CASE Accept(e)
    BY <1>1, <2>1, <2>2, AcceptStep
  <2>3. CASE RejectAndFail(e, budget - 1)
    <3>1. PendingFrom(e) /\ phase' \in Phases /\ RecordNotAdmitted(e)
      BY <2>3, PendingKept DEF RejectAndFail, Phases
    <3> QED
      BY <1>1, <2>1, <3>1, RejectStep
  <2>4. CASE RejectAndDrop(e) /\ pending' = OneMoreAttempt(e)
    <3>1. PendingFrom(e) /\ phase' \in Phases /\ RecordNotAdmitted(e)
      BY <1>1, <2>4, PendingKept DEF RejectAndDrop, Phases
    <3> QED
      BY <1>1, <2>1, <3>1, RejectStep
  <2>5. CASE \E s \in Sinks : Blocked(s, e, budget - 1) /\ pending' = OneMoreAttempt(e)
    <3>1. PendingFrom(e)
      BY <1>1, <2>5, PendingKept
    <3> QED
      BY <1>1, <2>1, <2>5, <3>1, BlockedStep
  <2> QED
    BY <1>1, <1>3, <2>2, <2>3, <2>4, <2>5 DEF retry_admission
<1> QED
  BY <1>2, <1>3 DEF retry_admission

LEMMA LeaseStep ==
    ASSUME LedgerInv, NEW s \in Sinks, NEW e \in Events, Lease(s, e)
    PROVE  StepOK
<1> USE DEF LedgerInv
<1>1. Transition(s, e, "Processing")
  BY DEF Lease
<1>2. queue' \in [Sinks -> Seq(Events)]
  <2>1. queue \in [Sinks -> Seq(Events)] /\ queue[s] # <<>>
    BY DEF Lease, NextSink, Deliverable, TypeOK
  <2>2. Tail(queue[s]) \in Seq(Events)
    BY <2>1
  <2> QED
    BY <2>1, <2>2 DEF Lease
<1>3. queuedBytes' \in [Sinks -> Nat]
  <2>1. Size[e] \in Nat /\ queuedBytes \in [Sinks -> Nat]
    BY PlanAssumption DEF TypeOK
  <2>2. queuedBytes[s] - Size[e] \in Nat
    BY <2>1 DEF Lease
  <2> QED
    BY <2>1, <2>2 DEF Lease
<1>4. inFlight' \in [Sinks -> [Events -> Nat]]
  BY DEF Lease, TypeOK
<1>5. cursor' \in Sinks
  BY SinkAssumption DEF Lease, CursorAfter, Sinks
<1>6. phase' \in Phases
  BY DEF Lease, DrainPhase, TypeOK, Phases
<1>7. TypeOK'
  BY <1>1, <1>2, <1>3, <1>4, <1>5, <1>6, TransitionMoves DEF Lease, TypeOK
<1>8. PendingInOrder'
  BY DEF Lease, PendingInOrder
<1>9. LedgerStep
  <2>1. attempts' = attempts /\ nextSeq' = nextSeq
    BY DEF Lease
  <2> QED
    BY <1>1, <2>1, OnePairMoves DEF LedgerStep
<1> QED
  BY <1>7, <1>8, <1>9 DEF StepOK

LEMMA NextDeliveryStep ==
    ASSUME LedgerInv, next_delivery
    PROVE  StepOK
<1>1. CASE NoLease
  BY <1>1, QuietStep DEF NoLease, Phases
<1>2. CASE \E s \in Sinks, e \in Events : Lease(s, e)
  BY <1>2, LeaseStep
<1> QED
  BY <1>1, <1>2 DEF next_delivery

(* acknowledge, diagnosed_drop and a retryable fail: one transition, and   *)
(* the lease is kept or given back.                                        *)
LEMMA AnswerStep ==
    ASSUME LedgerInv, NEW s \in Sinks, NEW e \in Events, NEW to, Transition(s, e, to),
           \/ inFlight' = inFlight
           \/ inFlight' = [inFlight EXCEPT ![s][e] = 0],
           UNCHANGED <<phase, nextSeq, cursor, budget, queue, queuedBytes, failed,
                       pending, attempts>>
    PROVE  StepOK
<1> USE DEF LedgerInv
<1>1. inFlight' \in [Sinks -> [Events -> Nat]]
  <2>1. inFlight \in [Sinks -> [Events -> Nat]]
    BY DEF TypeOK
  <2>2. CASE inFlight' = inFlight
    BY <2>1, <2>2
  <2>3. CASE inFlight' = [inFlight EXCEPT ![s][e] = 0]
    BY <2>1, <2>3
  <2> QED
    BY <2>2, <2>3
<1>2. TypeOK'
  BY <1>1, TransitionMoves DEF TypeOK
<1>3. PendingInOrder'
  BY DEF PendingInOrder
<1>4. LedgerStep
  BY OnePairMoves DEF LedgerStep
<1> QED
  BY <1>2, <1>3, <1>4 DEF StepOK

LEMMA RetryStep ==
    ASSUME LedgerInv, NEW s \in Sinks, NEW e \in Events, retry(s, e)
    PROVE  StepOK
<1> USE DEF LedgerInv
<1>1. Transition(s, e, "Queued")
  BY DEF retry
<1>2. queue' \in [Sinks -> Seq(Events)]
  <2>1. queue \in [Sinks -> Seq(Events)]
    BY DEF TypeOK
  <2>2. PushBack(queue[s], e) \in Seq(Events)
    BY <2>1 DEF PushBack
  <2> QED
    BY <2>1, <2>2 DEF retry
<1>3. queuedBytes' \in [Sinks -> Nat]
  <2>1. Size[e] \in Nat /\ queuedBytes \in [Sinks -> Nat]
    BY PlanAssumption DEF TypeOK
  <2>2. queuedBytes[s] + Size[e] \in Nat
    BY <2>1
  <2> QED
    BY <2>1, <2>2 DEF retry
<1>4. inFlight' \in [Sinks -> [Events -> Nat]] /\ attempts' \in [Sinks -> [Events -> Nat]]
  <2>1. inFlight \in [Sinks -> [Events -> Nat]] /\ attempts \in [Sinks -> [Events -> Nat]]
    BY DEF TypeOK
  <2>2. inFlight' \in [Sinks -> [Events -> Nat]]
    BY <2>1 DEF retry
  <2>3. attempts[s][e] + 1 \in Nat
    BY <2>1
  <2>4. attempts' \in [Sinks -> [Events -> Nat]]
    BY <2>1, <2>3 DEF retry
  <2> QED
    BY <2>2, <2>4
<1>5. budget' \in 0 .. SharedBudget
  BY PlanAssumption DEF retry, TypeOK
<1>6. TypeOK'
  BY <1>1, <1>2, <1>3, <1>4, <1>5, TransitionMoves DEF retry, TypeOK
<1>7. PendingInOrder'
  BY DEF retry, PendingInOrder
<1>8. LedgerStep
  <2>1. /\ attempts' = [attempts EXCEPT ![s][e] = attempts[s][e] + 1]
        /\ nextSeq' = nextSeq
    BY DEF retry
  <2> QED
    BY <1>1, <2>1, OnePairMoves DEF LedgerStep
<1> QED
  BY <1>6, <1>7, <1>8 DEF StepOK

(* How many pairs a terminal failure closes.                               *)
LEMMA FailSteps ==
    ASSUME TypeOK, NEW s \in Sinks
    PROVE  /\ Cardinality(QueuedAt(s)) + Cardinality(InFlightAt(s)) \in Nat
           /\ \A e \in Events : inFlight[s][e] # 0 =>
                 Cardinality(QueuedAt(s)) + Cardinality(InFlightAt(s)) >= 1
<1>1. QueuedAt(s) \subseteq Events /\ InFlightAt(s) \subseteq Events
  BY DEF QueuedAt, InFlightAt
<1>2. /\ IsFiniteSet(InFlightAt(s))
      /\ Cardinality(QueuedAt(s)) \in Nat /\ Cardinality(InFlightAt(s)) \in Nat
  BY <1>1, FiniteParts
<1>3. ASSUME NEW e \in Events, inFlight[s][e] # 0 PROVE Cardinality(InFlightAt(s)) # 0
  <2>1. InFlightAt(s) # {}
    BY <1>3 DEF InFlightAt
  <2> QED
    BY <1>2, <2>1, FS_EmptySet
<1> QED
  BY <1>2, <1>3

LEMMA FailTerminalStep ==
    ASSUME LedgerInv, NEW s \in Sinks, NEW e \in Events, NEW reason \in FailureReasons,
           fail_terminal(s, e, reason)
    PROVE  StepOK
<1> USE DEF LedgerInv
<1> DEFINE steps == Cardinality(QueuedAt(s)) + Cardinality(InFlightAt(s))
           closing == [f \in Events |->
                          CASE f = e              -> reason
                            [] f \in QueuedAt(s)  -> "Permanent"
                            [] f \in InFlightAt(s) \ {e} -> "UnknownOutcome"
                            [] OTHER              -> ledger[s][f]]
<1>1. /\ ledger' = [ledger EXCEPT ![s] = closing]
      /\ transitions' = transitions + steps
      /\ transitions + steps <= MaxLedgerTransitions
      /\ \A f \in InFlightAt(s) : ledger[s][f] \in {"Processing", "Retryable"}
      /\ e \in InFlightAt(s)
  BY DEF fail_terminal, LedgerRoom, InFlightAt
<1>2. ledger \in [Sinks -> [Events -> Dispositions]]
  BY DEF TypeOK
<1>3. \A f \in Events :
        \/ closing[f] = ledger[s][f]
        \/ ledger[s][f] \in Incomplete /\ closing[f] \in FailureReasons
  BY <1>1 DEF QueuedAt
<1>4. closing \in [Events -> Dispositions]
  BY <1>2, <1>3
<1> HIDE DEF closing
<1>5. ledger' \in [Sinks -> [Events -> Dispositions]]
  BY <1>1, <1>2, <1>4
<1>6. transitions' \in 0 .. MaxLedgerTransitions
  BY <1>1, FailSteps, BoundAssumption DEF TypeOK
<1>7. /\ queue' \in [Sinks -> Seq(Events)]
      /\ queuedBytes' \in [Sinks -> Nat]
      /\ inFlight' \in [Sinks -> [Events -> Nat]]
      /\ failed' \in [Sinks -> BOOLEAN]
  BY DEF fail_terminal, TypeOK
<1>8. TypeOK'
  BY <1>5, <1>6, <1>7 DEF fail_terminal, TypeOK, Phases
<1>9. PendingInOrder'
  BY DEF fail_terminal, PendingInOrder
<1>10. OnlyMoves
  <2>1. attempts' = attempts
    BY DEF fail_terminal
  <2> SUFFICES ASSUME NEW t \in Sinks, NEW f \in Events
               PROVE  PairKept(t, f) \/ PairMoves(t, f)
    BY DEF OnlyMoves
  <2>2. CASE t # s
    BY <1>1, <1>2, <2>1, <2>2 DEF PairKept
  <2>3. CASE t = s
    <3>1. ledger'[s][f] = closing[f]
      BY <1>1, <1>2
    <3> QED
      BY <1>3, <2>1, <2>3, <3>1 DEF PairKept, PairMoves
  <2> QED
    BY <2>2, <2>3
<1> QED
  BY <1>8, <1>9, <1>10 DEF StepOK, LedgerStep, fail_terminal

LEMMA RetryForOperationStep ==
    ASSUME LedgerInv, NEW s \in Sinks, NEW e \in Events, retry_for_operation(s, e)
    PROVE  StepOK
<1> USE DEF LedgerInv
<1>1. /\ ledger \in [Sinks -> [Events -> Dispositions]]
      /\ attempts \in [Sinks -> [Events -> Nat]]
      /\ inFlight \in [Sinks -> [Events -> Nat]]
      /\ attempts[s][e] \in Nat /\ attempts[s][e] + 1 \in Nat
  BY DEF TypeOK
<1>2. ledger[s][e] \in Incomplete
  BY DEF retry_for_operation, LegalTransition
<1>3. \E to \in Incomplete : ledger' = [ledger EXCEPT ![s][e] = to]
  BY DEF retry_for_operation
<1>4. attempts' = attempts \/ attempts' = [attempts EXCEPT ![s][e] = attempts[s][e] + 1]
  BY DEF retry_for_operation
<1>5. inFlight' = inFlight \/ inFlight' = [inFlight EXCEPT ![s][e] = attempts[s][e] + 1]
  BY DEF retry_for_operation
<1>6. transitions' \in 0 .. MaxLedgerTransitions
  BY BoundAssumption DEF retry_for_operation, LedgerRoom, TypeOK
<1>7. ledger' \in [Sinks -> [Events -> Dispositions]]
  BY <1>1, <1>3
<1>8. /\ attempts' \in [Sinks -> [Events -> Nat]]
      /\ \A t \in Sinks, f \in Events : t # s \/ f # e => attempts'[t][f] = attempts[t][f]
      /\ attempts'[s][e] \in {attempts[s][e], attempts[s][e] + 1}
  <2>1. CASE attempts' = attempts
    BY <1>1, <2>1
  <2>2. CASE attempts' = [attempts EXCEPT ![s][e] = attempts[s][e] + 1]
    BY <1>1, <2>2
  <2> QED
    BY <1>4, <2>1, <2>2
<1>9. inFlight' \in [Sinks -> [Events -> Nat]]
  <2>1. CASE inFlight' = inFlight
    BY <1>1, <2>1
  <2>2. CASE inFlight' = [inFlight EXCEPT ![s][e] = attempts[s][e] + 1]
    BY <1>1, <2>2
  <2> QED
    BY <1>5, <2>1, <2>2
<1>10. TypeOK'
  BY <1>6, <1>7, <1>8, <1>9 DEF retry_for_operation, TypeOK
<1>11. PendingInOrder'
  BY DEF retry_for_operation, PendingInOrder
<1>12. OnlyMoves
  <2> SUFFICES ASSUME NEW t \in Sinks, NEW f \in Events
               PROVE  PairKept(t, f) \/ PairMoves(t, f)
    BY DEF OnlyMoves
  <2>1. CASE t # s \/ f # e
    <3>1. ledger'[t][f] = ledger[t][f]
      BY <1>1, <1>3, <2>1
    <3>2. attempts'[t][f] = attempts[t][f]
      BY <1>8, <2>1
    <3> QED
      BY <3>1, <3>2 DEF PairKept
  <2>2. CASE t = s /\ f = e
    <3>1. ledger'[s][e] \in Incomplete
      BY <1>1, <1>3
    <3> QED
      BY <1>2, <1>8, <2>2, <3>1 DEF PairMoves
  <2> QED
    BY <2>1, <2>2
<1> QED
  BY <1>10, <1>11, <1>12 DEF StepOK, LedgerStep, retry_for_operation

(* The ledger after a closing operation: the recorded events are rejected, *)
(* the closed pairs are cancelled, the others are as before.               *)
Closing(closed) ==
    /\ closed \subseteq OpenKeys
    /\ RecordPending /\ PendingRoom
    /\ \A s \in Sinks, e \in Events :
          ledger'[s][e] = IF <<e, s>> \in closed THEN "Cancelled"
                          ELSE IF e \in Recorded THEN "NotAdmitted" ELSE ledger[s][e]
    /\ transitions' = TransitionsAfterPending + Cardinality(closed)
    /\ transitions' <= MaxLedgerTransitions
    /\ transitions <= transitions'
    /\ transitions \in Nat /\ transitions' \in Nat
    /\ ledger' \in [Sinks -> [Events -> Dispositions]]
    /\ queueVars' = queueVars \/ closed = OpenKeys

LEMMA CloseKeysCloses ==
    ASSUME LedgerInv, NEW closed \in SUBSET OpenKeys, CloseKeys(closed)
    PROVE  Closing(closed)
<1>1. ledger \in [Sinks -> [Events -> Dispositions]]
  BY DEF LedgerInv, TypeOK
<1>2. closed \in SUBSET (Events \X Sinks)
  BY DEF OpenKeys
<1>3. Cardinality(closed) \in Nat
  BY <1>2, FiniteParts
<1>4. /\ TransitionsAfterPending \in Nat /\ transitions <= TransitionsAfterPending
      /\ transitions \in Nat
  BY RoomForPending DEF CloseKeys, LedgerInv, TypeOK
<1>5. /\ transitions' = TransitionsAfterPending + Cardinality(closed)
      /\ transitions' <= MaxLedgerTransitions
  BY DEF CloseKeys, Closable
<1>6. ledger' = [s \in Sinks |-> [e \in Events |->
                   IF <<e, s>> \in closed THEN "Cancelled"
                   ELSE IF e \in Recorded THEN "NotAdmitted" ELSE ledger[s][e]]]
  BY DEF CloseKeys, AfterPending
<1>7. ledger' \in [Sinks -> [Events -> Dispositions]]
  BY <1>1, <1>6
<1> QED
  BY <1>3, <1>4, <1>5, <1>6, <1>7 DEF Closing, CloseKeys

LEMMA CloseStopsCloses ==
    ASSUME LedgerInv, CloseStopsAtPending
    PROVE  Closing({})
<1>1. ledger \in [Sinks -> [Events -> Dispositions]]
  BY DEF LedgerInv, TypeOK
<1>2. /\ TransitionsAfterPending \in Nat /\ transitions <= TransitionsAfterPending
      /\ TransitionsAfterPending <= MaxLedgerTransitions
      /\ transitions \in Nat
  BY RoomForPending DEF CloseStopsAtPending, LedgerInv, TypeOK
<1>3. Cardinality({}) = 0
  BY FS_EmptySet
<1>4. transitions' = TransitionsAfterPending + Cardinality({})
  BY <1>2, <1>3 DEF CloseStopsAtPending
<1>5. ledger' = [s \in Sinks |-> [e \in Events |->
                   IF e \in Recorded THEN "NotAdmitted" ELSE ledger[s][e]]]
  BY DEF CloseStopsAtPending, AfterPending
<1>6. ledger' \in [Sinks -> [Events -> Dispositions]]
  BY <1>1, <1>5
<1> QED
  BY <1>2, <1>3, <1>4, <1>5, <1>6 DEF Closing, CloseStopsAtPending

LEMMA ClosingStep ==
    ASSUME LedgerInv, NEW closed, Closing(closed), phase' \in Phases,
           UNCHANGED <<cursor, budget, failed>>,
           \/ UNCHANGED queueVars
           \/ /\ queue' = [s \in Sinks |-> <<>>]
              /\ queuedBytes' = [s \in Sinks |-> 0]
              /\ inFlight' = [s \in Sinks |-> [e \in Events |-> 0]]
    PROVE  StepOK
<1> USE DEF LedgerInv
<1>1. /\ attempts' = [s \in Sinks |-> [e \in Events |-> IF e \in Recorded THEN 1
                                                            ELSE attempts[s][e]]]
      /\ nextSeq' = nextSeq + Cardinality(Recorded)
      /\ DOMAIN pending' = {}
  BY DEF Closing, RecordPending
<1>2. attempts \in [Sinks -> [Events -> Nat]] /\ nextSeq \in 1 .. MaxEvents + 1
  BY DEF TypeOK
<1>3. attempts' \in [Sinks -> [Events -> Nat]]
  BY <1>1, <1>2
<1>4. nextSeq' \in 1 .. MaxEvents + 1
  BY <1>1, <1>2, RecordedIsNext, BoundAssumption DEF Events
<1>5. /\ queue' \in [Sinks -> Seq(Events)]
      /\ queuedBytes' \in [Sinks -> Nat]
      /\ inFlight' \in [Sinks -> [Events -> Nat]]
  <2>1. CASE UNCHANGED queueVars
    BY <2>1 DEF TypeOK, queueVars
  <2>2. CASE /\ queue' = [s \in Sinks |-> <<>>]
             /\ queuedBytes' = [s \in Sinks |-> 0]
             /\ inFlight' = [s \in Sinks |-> [e \in Events |-> 0]]
    BY <2>2
  <2> QED
    BY <2>1, <2>2
<1>6. TypeOK'
  BY <1>1, <1>3, <1>4, <1>5, BoundAssumption DEF Closing, TypeOK
<1>7. PendingInOrder'
  BY <1>1 DEF PendingInOrder
<1>8. \A s \in Sinks, e \in Events \ Recorded : PairKept(s, e) \/ PairMoves(s, e)
  <2> SUFFICES ASSUME NEW s \in Sinks, NEW e \in Events \ Recorded
               PROVE  PairKept(s, e) \/ PairMoves(s, e)
    OBVIOUS
  <2>1. attempts'[s][e] = attempts[s][e]
    BY <1>1
  <2>2. CASE <<e, s>> \in closed
    <3>1. ledger[s][e] \in Incomplete
      BY <2>2 DEF Closing, OpenKeys
    <3>2. ledger'[s][e] = "Cancelled"
      BY <2>2 DEF Closing
    <3> QED
      BY <2>1, <3>1, <3>2 DEF PairMoves
  <2>3. CASE <<e, s>> \notin closed
    BY <2>1, <2>3 DEF Closing, PairKept
  <2> QED
    BY <2>2, <2>3
<1>9. LedgerStep
  <2>1. CASE Recorded = {} /\ Cardinality(Recorded) = 0
    BY <1>1, <1>2, <1>8, <2>1 DEF LedgerStep, OnlyMoves
  <2>2. CASE Recorded = {nextSeq} /\ Cardinality(Recorded) = 1 /\ nextSeq \in Events
    <3>1. ASSUME NEW s \in Sinks
          PROVE  ledger'[s][nextSeq] = "NotAdmitted" /\ attempts'[s][nextSeq] = 1
      <4>1. ledger[s][nextSeq] = "None"
        BY <2>2 DEF AdmissionIsAtomic, Events
      <4>2. <<nextSeq, s>> \notin closed
        BY <4>1 DEF Closing, OpenKeys
      <4> QED
        BY <1>1, <2>2, <4>2 DEF Closing
    <3>2. EntersRejected
      BY <1>1, <1>8, <2>2, <3>1 DEF EntersRejected, Enters
    <3> QED
      BY <3>2 DEF LedgerStep
  <2> QED
    BY <2>1, <2>2, RecordedIsNext
<1> QED
  BY <1>6, <1>7, <1>9 DEF StepOK

LEMMA CancelStep ==
    ASSUME LedgerInv, cancel
    PROVE  StepOK
<1>1. phase' \in Phases /\ UNCHANGED <<cursor, budget, failed>>
  BY DEF cancel, Phases
<1>2. CASE \E closed \in SUBSET OpenKeys : CloseKeys(closed)
  <2>1. PICK closed \in SUBSET OpenKeys : CloseKeys(closed)
    BY <1>2
  <2>2. Closing(closed)
    BY <2>1, CloseKeysCloses
  <2> QED
    BY <1>1, <2>1, <2>2, ClosingStep DEF CloseKeys
<1>3. CASE CloseStopsAtPending
  BY <1>1, <1>3, CloseStopsCloses, ClosingStep DEF CloseStopsAtPending
<1>4. CASE UNCHANGED <<nextSeq, queueVars, pending, ledgerVars>>
  BY <1>1, <1>4, QuietStep
<1> QED
  BY <1>2, <1>3, <1>4 DEF cancel

LEMMA FinishStep ==
    ASSUME LedgerInv, finish
    PROVE  StepOK
<1>1. StopPhase \in Phases /\ UNCHANGED <<cursor, budget, failed>>
  BY DEF finish, StopPhase, Phases, LedgerInv, TypeOK
<1>2. CASE \E closed \in SUBSET OpenKeys :
              /\ CloseKeys(closed)
              /\ phase' = IF closed = OpenKeys THEN "Finished" ELSE StopPhase
  <2>1. PICK closed \in SUBSET OpenKeys :
              /\ CloseKeys(closed)
              /\ phase' = IF closed = OpenKeys THEN "Finished" ELSE StopPhase
    BY <1>2
  <2>2. Closing(closed) /\ phase' \in Phases
    BY <1>1, <2>1, CloseKeysCloses DEF Phases
  <2> QED
    BY <1>1, <2>1, <2>2, ClosingStep DEF CloseKeys
<1>3. CASE CloseStopsAtPending /\ phase' = StopPhase
  BY <1>1, <1>3, CloseStopsCloses, ClosingStep DEF CloseStopsAtPending
<1>4. CASE phase' = StopPhase /\ UNCHANGED <<nextSeq, queueVars, pending, ledgerVars>>
  BY <1>1, <1>4, QuietStep
<1> QED
  BY <1>2, <1>3, <1>4 DEF finish

LEMMA NextStep ==
    ASSUME LedgerInv, [Next]_vars
    PROVE  StepOK
<1>1. CASE UNCHANGED vars
  BY <1>1, QuietStep DEF vars, LedgerInv, TypeOK
<1>2. CASE start \/ stop_admission \/ flush
  BY <1>2, QuietStep DEF start, stop_admission, flush, Phases
<1>3. CASE next_delivery
  BY <1>3, NextDeliveryStep
<1>4. CASE cancel
  BY <1>4, CancelStep
<1>5. CASE finish
  BY <1>5, FinishStep
<1>6. ASSUME NEW e \in Events, admit(e) \/ retry_admission(e)
      PROVE  StepOK
  BY <1>6, AdmitStep, RetryAdmissionStep
<1>7. ASSUME NEW s \in Sinks, NEW e \in Events,
             \E a \in 1 .. attempts[s][e] : acknowledge(s, e, a)
      PROVE  StepOK
  BY <1>7, AnswerStep DEF acknowledge
<1>8. ASSUME NEW s \in Sinks, NEW e \in Events, diagnosed_drop(s, e)
      PROVE  StepOK
  BY <1>8, AnswerStep DEF diagnosed_drop
<1>9. ASSUME NEW s \in Sinks, NEW e \in Events, fail_retryable(s, e)
      PROVE  StepOK
  BY <1>9, AnswerStep DEF fail_retryable, queueVars
<1>10. ASSUME NEW s \in Sinks, NEW e \in Events,
              \E reason \in FailureReasons : fail_terminal(s, e, reason)
       PROVE  StepOK
  BY <1>10, FailTerminalStep
<1>11. ASSUME NEW s \in Sinks, NEW e \in Events, retry(s, e) \/ retry_for_operation(s, e)
       PROVE  StepOK
  BY <1>11, RetryStep, RetryForOperationStep
<1> QED
  BY <1>1, <1>2, <1>3, <1>4, <1>5, <1>6, <1>7, <1>8, <1>9, <1>10, <1>11 DEF Next

-----------------------------------------------------------------------------
(* The ledger theorems.                                                    *)

LEMMA InitLedger == Init => LedgerInv
<1> SUFFICES ASSUME Init PROVE LedgerInv
  OBVIOUS
<1>1. TypeOK
  BY SinkAssumption, BoundAssumption, PlanAssumption DEF Init, TypeOK, Sinks, Phases
<1>2. AdmissionIsAtomic
  BY <1>1 DEF Init, AdmissionIsAtomic, Events
<1>3. PendingInOrder /\ AttemptsCounted
  BY DEF Init, PendingInOrder, AttemptsCounted
<1> QED
  BY <1>1, <1>2, <1>3 DEF LedgerInv

LEMMA LedgerStepKeeps ==
    ASSUME LedgerInv, StepOK
    PROVE  LedgerInv'
<1>1. /\ ledger \in [Sinks -> [Events -> Dispositions]]
      /\ attempts \in [Sinks -> [Events -> Nat]]
      /\ nextSeq \in Int /\ nextSeq' \in Int
  BY DEF LedgerInv, StepOK, TypeOK
<1>2. \A s \in Sinks, e \in Events :
        /\ (ledger[s][e] # "None") = (e < nextSeq)
        /\ (ledger[s][e] = "None") = (attempts[s][e] = 0)
  BY DEF LedgerInv, AdmissionIsAtomic, AttemptsCounted
<1>3. \A s, t \in Sinks, e \in Events :
        (ledger[s][e] = "NotAdmitted") = (ledger[t][e] = "NotAdmitted")
  BY DEF LedgerInv, AdmissionIsAtomic
<1>4. CASE nextSeq' = nextSeq /\ OnlyMoves
  <2>1. \A s \in Sinks, e \in Events :
          /\ (ledger'[s][e] = "None") = (ledger[s][e] = "None")
          /\ (ledger'[s][e] = "NotAdmitted") = (ledger[s][e] = "NotAdmitted")
          /\ (attempts'[s][e] = 0) = (attempts[s][e] = 0)
    BY <1>1, <1>2, <1>4 DEF OnlyMoves, PairKept, PairMoves
  <2>2. AdmissionIsAtomic' /\ AttemptsCounted'
    BY <1>2, <1>3, <1>4, <2>1 DEF AdmissionIsAtomic, AttemptsCounted, StepOK
  <2> QED
    BY <2>2 DEF LedgerInv, StepOK
<1>5. ASSUME NEW to \in {"Queued", "NotAdmitted"}, Enters(to),
             \A s \in Sinks, e \in Events \ {nextSeq} : PairKept(s, e) \/ PairMoves(s, e)
      PROVE  LedgerInv'
  <2>1. \A s \in Sinks, e \in Events \ {nextSeq} :
          /\ (ledger'[s][e] = "None") = (ledger[s][e] = "None")
          /\ (ledger'[s][e] = "NotAdmitted") = (ledger[s][e] = "NotAdmitted")
          /\ (attempts'[s][e] = 0) = (attempts[s][e] = 0)
    BY <1>1, <1>2, <1>5 DEF PairKept, PairMoves
  <2>2. \A s \in Sinks : ledger'[s][nextSeq] = to /\ attempts'[s][nextSeq] = 1
    BY <1>5 DEF Enters
  <2>3. nextSeq' = nextSeq + 1
    BY <1>5 DEF Enters
  <2>4. AttemptsCounted'
    BY <1>2, <1>5, <2>1, <2>2 DEF AttemptsCounted
  <2>5. \A s \in Sinks, e \in Events : (ledger'[s][e] # "None") = (e < nextSeq')
    BY <1>1, <1>2, <1>5, <2>1, <2>2, <2>3 DEF Events
  <2>6. \A s, t \in Sinks, e \in Events :
          (ledger'[s][e] = "NotAdmitted") = (ledger'[t][e] = "NotAdmitted")
    BY <1>3, <2>1, <2>2
  <2> QED
    BY <2>4, <2>5, <2>6 DEF LedgerInv, StepOK, AdmissionIsAtomic
<1> QED
  BY <1>4, <1>5 DEF StepOK, LedgerStep, EntersQueued, EntersRejected

(* The ledger invariant is inductive: types, atomic admission without      *)
(* gaps, pending admissions in order and attempt counts.                   *)
THEOREM LedgerInvariant == Spec => []LedgerInv
<1>1. LedgerInv /\ [Next]_vars => LedgerInv'
  BY NextStep, LedgerStepKeeps
<1> QED
  BY InitLedger, <1>1, PTL DEF Spec

(* The router keeps its types and never outgrows the transition log, even  *)
(* when cancel or finish run into the log limit.                           *)
THEOREM TypeCorrect == Spec => []TypeOK
BY LedgerInvariant, PTL DEF LedgerInv

(* Admission is all-or-nothing over the sinks and leaves no sequence gap.  *)
THEOREM AtomicAdmission == Spec => []AdmissionIsAtomic
BY LedgerInvariant, PTL DEF LedgerInv

(* No step changes a terminal disposition or takes back an attempt.        *)
THEOREM FinalTerminals == Spec => TerminalIsFinal
<1>1. ASSUME LedgerInv, [Next]_vars, NEW s \in Sinks, NEW e \in Events
      PROVE  /\ ledger[s][e] \in Terminal => ledger'[s][e] = ledger[s][e]
             /\ attempts[s][e] <= attempts'[s][e]
  <2>1. LedgerStep
    BY <1>1, NextStep DEF StepOK
  <2>2. attempts[s][e] \in Nat /\ ((ledger[s][e] = "None") = (attempts[s][e] = 0))
    BY <1>1 DEF LedgerInv, TypeOK, AttemptsCounted
  <2>3. CASE PairKept(s, e) \/ PairMoves(s, e)
    BY <2>2, <2>3 DEF PairKept, PairMoves
  <2>4. CASE e = nextSeq /\ (EntersQueued \/ EntersRejected)
    <3>1. ledger[s][e] = "None" /\ attempts'[s][e] = 1
      BY <1>1, <2>4 DEF EntersQueued, EntersRejected, Enters, LedgerInv, AdmissionIsAtomic, Events
    <3> QED
      BY <2>2, <3>1
  <2> QED
    BY <2>1, <2>3, <2>4 DEF LedgerStep, OnlyMoves, EntersQueued, EntersRejected
<1>2. LedgerInv /\ [Next]_vars =>
        [\A s \in Sinks, e \in Events :
            /\ ledger[s][e] \in Terminal => ledger'[s][e] = ledger[s][e]
            /\ attempts[s][e] <= attempts'[s][e]]_vars
  BY <1>1
<1> QED
  BY <1>2, LedgerInvariant, PTL DEF Spec, TerminalIsFinal

-----------------------------------------------------------------------------
(* Nothing the router accepts is lost: the ledger, the queues and the      *)
(* leases agree through every operation, and a finished run holds nothing. *)

(* The invariant, pair by pair.                                            *)

QueuedHeld(s, e) ==
    ledger[s][e] = "Queued" =>
        \/ e \in QueuedEvents(s)
        \/ transitions = MaxLedgerTransitions /\ inFlight[s][e] # 0

LeaseHeld(s, e) ==
    ledger[s][e] \in {"Processing", "Retryable"} =>
        inFlight[s][e] = attempts[s][e] /\ inFlight[s][e] # 0

LeaseOpen(s, e) ==
    transitions < MaxLedgerTransitions /\ inFlight[s][e] # 0 =>
        ledger[s][e] \in {"Processing", "Retryable"}

PairHeld(s, e) == QueuedHeld(s, e) /\ LeaseHeld(s, e) /\ LeaseOpen(s, e)

AllHeld == \A s \in Sinks, e \in Events : PairHeld(s, e)

LEMMA HoldInvIsAllHeld ==
    HoldInv <=> LedgerInv /\ AllHeld /\ FinishedIsConserved
BY DEF HoldInv, AllHeld, PairHeld, QueuedHeld, LeaseHeld, LeaseOpen,
       AcceptedIsHeld, LeaseIsAccounted

(* The transition log only grows, up to its limit.                         *)
LogGrows ==
    /\ transitions \in Nat /\ transitions' \in Nat
    /\ transitions <= transitions' /\ transitions' <= MaxLedgerTransitions

(* A pair the step does not touch stays held.                              *)
PairUntouched(s, e) ==
    /\ ledger'[s][e] = ledger[s][e]
    /\ attempts'[s][e] = attempts[s][e]
    /\ inFlight'[s][e] = inFlight[s][e]
    /\ e \in QueuedEvents(s) => e \in QueuedEvents(s)'

LEMMA UntouchedHeld ==
    ASSUME LogGrows, NEW s, NEW e, PairHeld(s, e), PairUntouched(s, e)
    PROVE  PairHeld(s, e)'
<1> USE BoundAssumption DEF LogGrows, PairUntouched, PairHeld
<1>1. QueuedHeld(s, e)'
  BY DEF QueuedHeld
<1>2. LeaseHeld(s, e)'
  BY DEF LeaseHeld
<1>3. LeaseOpen(s, e)'
  BY DEF LeaseOpen
<1> QED
  BY <1>1, <1>2, <1>3

(* A pair that is neither open nor leased is held.                         *)
LEMMA ClosedHeld ==
    ASSUME NEW s, NEW e, ledger'[s][e] \notin Incomplete,
           inFlight'[s][e] = 0
    PROVE  PairHeld(s, e)'
BY DEF PairHeld, QueuedHeld, LeaseHeld, LeaseOpen

-----------------------------------------------------------------------------
(* What the queue operations keep.                                         *)

LEMMA AppendKeeps ==
    ASSUME NEW q \in Seq(Events), NEW e \in Events
    PROVE  /\ \A i \in DOMAIN q : \E j \in DOMAIN Append(q, e) : Append(q, e)[j] = q[i]
           /\ \E j \in DOMAIN Append(q, e) : Append(q, e)[j] = e
<1>1. /\ DOMAIN q = 1 .. Len(q) /\ Len(q) \in Nat
      /\ DOMAIN Append(q, e) = 1 .. Len(q) + 1
      /\ \A i \in 1 .. Len(q) : Append(q, e)[i] = q[i]
      /\ Append(q, e)[Len(q) + 1] = e
  OBVIOUS
<1>2. \A i \in DOMAIN q : i \in DOMAIN Append(q, e)
  BY <1>1
<1>3. Len(q) + 1 \in DOMAIN Append(q, e)
  BY <1>1
<1> QED
  BY <1>1, <1>2, <1>3

LEMMA TailKeeps ==
    ASSUME NEW q \in Seq(Events), q # <<>>, NEW i \in DOMAIN q, q[i] # Head(q)
    PROVE  \E j \in DOMAIN Tail(q) : Tail(q)[j] = q[i]
<1>1. /\ DOMAIN q = 1 .. Len(q) /\ Len(q) \in Nat /\ Len(q) >= 1
      /\ Head(q) = q[1]
      /\ DOMAIN Tail(q) = 1 .. Len(q) - 1
      /\ \A j \in 1 .. Len(q) - 1 : Tail(q)[j] = q[j + 1]
  OBVIOUS
<1>2. i # 1 /\ i \in Nat
  BY <1>1
<1>3. i - 1 \in DOMAIN Tail(q) /\ Tail(q)[i - 1] = q[i]
  BY <1>1, <1>2
<1> QED
  BY <1>3

-----------------------------------------------------------------------------
(* Every step keeps accepted events held: one lemma per action.            *)

(* A step that leaves queues, leases and ledger alone.                     *)
LEMMA QuietHeld ==
    ASSUME HoldInv, UNCHANGED <<queueVars, ledgerVars>>
    PROVE  AllHeld'
<1>1. LogGrows
  BY DEF HoldInv, LedgerInv, TypeOK, ledgerVars, LogGrows
<1>2. \A s \in Sinks, e \in Events : PairUntouched(s, e)
  BY DEF PairUntouched, QueuedEvents, queueVars, ledgerVars
<1> QED
  BY <1>1, <1>2, UntouchedHeld, HoldInvIsAllHeld DEF AllHeld

(* While the log has room, an event the ledger does not know is not leased.*)
LEMMA UnknownNotLeased ==
    ASSUME HoldInv, NEW s \in Sinks, NEW e \in Events, ledger[s][e] = "None",
           transitions < MaxLedgerTransitions
    PROVE  inFlight[s][e] = 0
BY DEF HoldInv, LeaseIsAccounted

LEMMA SelectGrows ==
    ASSUME HoldInv, NEW e \in Events, NEW to, SelectAll(e, to)
    PROVE  /\ LogGrows
           /\ transitions < MaxLedgerTransitions
           /\ \A s \in Sinks : ledger[s][e] = "None"
           /\ \A s \in Sinks : ledger'[s][e] = to
           /\ \A s \in Sinks, f \in Events \ {e} :
                 ledger'[s][f] = ledger[s][f] /\ attempts'[s][f] = attempts[s][f]
<1> USE DEF HoldInv, LedgerInv
<1>1. LogGrows /\ transitions < MaxLedgerTransitions
  BY SinkAssumption, BoundAssumption DEF SelectAll, LedgerRoom, LogGrows, TypeOK
<1>2. \A s \in Sinks : ledger[s][e] = "None"
  BY DEF SelectAll, InLedger
<1>3. /\ ledger \in [Sinks -> [Events -> Dispositions]]
      /\ attempts \in [Sinks -> [Events -> Nat]]
      /\ ledger' = [s \in Sinks |-> [ledger[s] EXCEPT ![e] = to]]
      /\ attempts' = [s \in Sinks |-> [attempts[s] EXCEPT ![e] = 1]]
  BY DEF SelectAll, TypeOK
<1> QED
  BY <1>1, <1>2, <1>3

LEMMA AcceptHeld ==
    ASSUME HoldInv, NEW e \in Events, Accept(e)
    PROVE  AllHeld'
<1>1. SelectAll(e, "Queued") /\ inFlight' = inFlight
  BY DEF Accept
<1>2. queue' = [s \in Sinks |-> Append(queue[s], e)] /\ queue \in [Sinks -> Seq(Events)]
  BY DEF Accept, PushBack, HoldInv, LedgerInv, TypeOK
<1>3. ASSUME NEW s \in Sinks, NEW f \in Events
      PROVE  /\ f \in QueuedEvents(s) => f \in QueuedEvents(s)'
             /\ e \in QueuedEvents(s)'
  <2>1. queue'[s] = Append(queue[s], e) /\ queue[s] \in Seq(Events)
    BY <1>2
  <2>2. e \in QueuedEvents(s)'
    BY <2>1, AppendKeeps DEF QueuedEvents
  <2>3. ASSUME f \in QueuedEvents(s) PROVE f \in QueuedEvents(s)'
    <3>1. PICK i \in DOMAIN queue[s] : queue[s][i] = f
      BY <2>3 DEF QueuedEvents
    <3>2. \E j \in DOMAIN Append(queue[s], e) : Append(queue[s], e)[j] = f
      BY <2>1, <3>1, AppendKeeps
    <3> QED
      BY <2>1, <3>2 DEF QueuedEvents
  <2> QED
    BY <2>1, <2>2, <2>3
<1>4. ASSUME NEW s \in Sinks, NEW f \in Events \ {e} PROVE PairHeld(s, f)'
  <2>1. PairUntouched(s, f)
    BY <1>1, <1>3, SelectGrows DEF PairUntouched
  <2> QED
    BY <1>1, <2>1, SelectGrows, UntouchedHeld, HoldInvIsAllHeld DEF AllHeld
<1>5. ASSUME NEW s \in Sinks PROVE PairHeld(s, e)'
  <2>1. inFlight'[s][e] = 0
    BY <1>1, SelectGrows, UnknownNotLeased
  <2>2. ledger'[s][e] = "Queued"
    BY <1>1, SelectGrows
  <2> QED
    BY <1>3, <2>1, <2>2 DEF PairHeld, QueuedHeld, LeaseHeld, LeaseOpen
<1> QED
  BY <1>4, <1>5 DEF AllHeld

LEMMA RejectHeld ==
    ASSUME HoldInv, NEW e \in Events, RecordNotAdmitted(e)
    PROVE  AllHeld'
<1>1. SelectAll(e, "NotAdmitted") /\ inFlight' = inFlight /\ queue' = queue
  BY DEF RecordNotAdmitted, queueVars
<1>2. ASSUME NEW s \in Sinks, NEW f \in Events \ {e} PROVE PairHeld(s, f)'
  <2>1. PairUntouched(s, f)
    BY <1>1, SelectGrows DEF PairUntouched, QueuedEvents
  <2> QED
    BY <1>1, <2>1, SelectGrows, UntouchedHeld, HoldInvIsAllHeld DEF AllHeld
<1>3. ASSUME NEW s \in Sinks PROVE PairHeld(s, e)'
  <2>1. inFlight'[s][e] = 0
    BY <1>1, SelectGrows, UnknownNotLeased
  <2>2. ledger'[s][e] = "NotAdmitted"
    BY <1>1, SelectGrows
  <2> QED
    BY <2>1, <2>2, ClosedHeld
<1> QED
  BY <1>2, <1>3 DEF AllHeld

LEMMA AdmitHeld ==
    ASSUME HoldInv, NEW e \in Events, admit(e) \/ retry_admission(e)
    PROVE  AllHeld' /\ FinishedIsConserved'
<1>1. phase' # "Finished"
  BY DEF admit, retry_admission, Accept, RejectAndFail, RejectAndDrop, Blocked
<1>2. CASE Accept(e)
  BY <1>1, <1>2, AcceptHeld DEF FinishedIsConserved
<1>3. CASE RecordNotAdmitted(e)
  BY <1>1, <1>3, RejectHeld DEF FinishedIsConserved
<1>4. CASE UNCHANGED <<queueVars, ledgerVars>>
  BY <1>1, <1>4, QuietHeld DEF FinishedIsConserved
<1> QED
  BY <1>2, <1>3, <1>4 DEF admit, retry_admission, RejectAndFail, RejectAndDrop, Blocked

(* A single transition of (s, e): the other pairs are untouched.           *)
LEMMA OthersHeld ==
    ASSUME HoldInv, NEW s \in Sinks, NEW e \in Events, NEW to, Transition(s, e, to),
           \A t \in Sinks, f \in Events : t # s \/ f # e =>
              /\ attempts'[t][f] = attempts[t][f]
              /\ inFlight'[t][f] = inFlight[t][f]
              /\ f \in QueuedEvents(t) => f \in QueuedEvents(t)',
           PairHeld(s, e)'
    PROVE  AllHeld'
<1>1. TypeOK
  BY DEF HoldInv, LedgerInv
<1>2. LogGrows
  BY <1>1, TransitionMoves, BoundAssumption DEF LogGrows, TypeOK
<1>3. ASSUME NEW t \in Sinks, NEW f \in Events, t # s \/ f # e
      PROVE  PairHeld(t, f)'
  <2>1. PairUntouched(t, f)
    BY <1>1, <1>3, TransitionMoves DEF PairUntouched
  <2> QED
    BY <1>2, <2>1, UntouchedHeld, HoldInvIsAllHeld DEF AllHeld
<1> QED
  BY <1>3 DEF AllHeld

LEMMA LeaseHolds ==
    ASSUME HoldInv, NEW s \in Sinks, NEW e \in Events, Lease(s, e)
    PROVE  AllHeld'
<1> USE DEF HoldInv, LedgerInv
<1>1. /\ Transition(s, e, "Processing") /\ e = Head(queue[s]) /\ attempts' = attempts
      /\ queue' = [queue EXCEPT ![s] = Tail(queue[s])]
      /\ inFlight' = [inFlight EXCEPT ![s][e] = attempts[s][e]]
      /\ queue[s] # <<>>
  BY DEF Lease, NextSink, Deliverable
<1>2. /\ queue \in [Sinks -> Seq(Events)]
      /\ inFlight \in [Sinks -> [Events -> Nat]]
      /\ attempts \in [Sinks -> [Events -> Nat]]
  BY DEF TypeOK
<1>3. \A t \in Sinks, f \in Events : t # s \/ f # e => inFlight'[t][f] = inFlight[t][f]
  BY <1>1, <1>2
<1>4. ASSUME NEW t \in Sinks, NEW f \in Events, t # s \/ f # e, f \in QueuedEvents(t)
      PROVE  f \in QueuedEvents(t)'
  <2>1. CASE t # s
    <3>1. queue'[t] = queue[t]
      BY <1>1, <1>2, <2>1
    <3> QED
      BY <1>4, <3>1 DEF QueuedEvents
  <2>2. CASE t = s
    <3>1. queue'[s] = Tail(queue[s]) /\ queue[s] \in Seq(Events)
      BY <1>1, <1>2
    <3>2. PICK i \in DOMAIN queue[s] : queue[s][i] = f
      BY <1>4, <2>2 DEF QueuedEvents
    <3>3. queue[s][i] # Head(queue[s])
      BY <1>1, <1>4, <2>2, <3>2
    <3>4. \E j \in DOMAIN Tail(queue[s]) : Tail(queue[s])[j] = f
      BY <1>1, <3>1, <3>2, <3>3, TailKeeps
    <3> QED
      BY <2>2, <3>1, <3>4 DEF QueuedEvents
  <2> QED
    BY <2>1, <2>2
<1>5. PairHeld(s, e)'
  <2>1. ledger'[s][e] = "Processing" /\ ledger[s][e] # "None"
    BY <1>1, TransitionMoves
  <2>2. attempts[s][e] # 0
    BY <2>1 DEF AttemptsCounted
  <2>3. inFlight'[s][e] = attempts'[s][e] /\ inFlight'[s][e] # 0
    BY <1>1, <1>2, <2>2
  <2> QED
    BY <2>1, <2>3 DEF PairHeld, QueuedHeld, LeaseHeld, LeaseOpen
<1> QED
  BY <1>1, <1>3, <1>4, <1>5, OthersHeld

(* A lease exists, so the run is not finished.                             *)
LEMMA LeasedNotFinished ==
    ASSUME HoldInv, NEW s \in Sinks, NEW e \in Events, inFlight[s][e] # 0
    PROVE  phase # "Finished"
BY DEF HoldInv, FinishedIsConserved, InFlightAt

(* acknowledge and diagnosed_drop give the lease back.                     *)
LEMMA AnswerHolds ==
    ASSUME HoldInv, NEW s \in Sinks, NEW e \in Events, NEW to, Transition(s, e, to),
           to \in {"Durable", "DiagnosedDrop"}, inFlight' = [inFlight EXCEPT ![s][e] = 0],
           queue' = queue, attempts' = attempts
    PROVE  AllHeld'
<1>1. TypeOK
  BY DEF HoldInv, LedgerInv
<1>2. inFlight \in [Sinks -> [Events -> Nat]]
  BY <1>1 DEF TypeOK
<1>3. \A t \in Sinks, f \in Events : t # s \/ f # e => inFlight'[t][f] = inFlight[t][f]
  BY <1>2
<1>4. ledger'[s][e] = to /\ inFlight'[s][e] = 0
  BY <1>1, <1>2, TransitionMoves
<1>5. PairHeld(s, e)'
  BY <1>4, ClosedHeld
<1>6. \A t \in Sinks : QueuedEvents(t)' = QueuedEvents(t)
  BY DEF QueuedEvents
<1> QED
  BY <1>3, <1>5, <1>6, OthersHeld

(* fail with a retryable reason keeps it.                                  *)
LEMMA FailRetryableHolds ==
    ASSUME HoldInv, NEW s \in Sinks, NEW e \in Events, ledger[s][e] = "Processing",
           fail_retryable(s, e)
    PROVE  AllHeld'
<1>1. /\ Transition(s, e, "Retryable") /\ TypeOK
      /\ inFlight' = inFlight /\ queue' = queue /\ attempts' = attempts
  BY DEF HoldInv, LedgerInv, fail_retryable, queueVars
<1>2. ledger'[s][e] = "Retryable"
  BY <1>1, TransitionMoves
<1>3. LeaseHeld(s, e)
  BY HoldInvIsAllHeld DEF AllHeld, PairHeld
<1>4. PairHeld(s, e)'
  BY <1>1, <1>2, <1>3 DEF PairHeld, QueuedHeld, LeaseHeld, LeaseOpen
<1>5. \A t \in Sinks : QueuedEvents(t)' = QueuedEvents(t)
  BY <1>1 DEF QueuedEvents
<1> QED
  BY <1>1, <1>4, <1>5, OthersHeld

LEMMA RetryHolds ==
    ASSUME HoldInv, NEW s \in Sinks, NEW e \in Events, retry(s, e)
    PROVE  AllHeld'
<1>1. /\ Transition(s, e, "Queued") /\ TypeOK
      /\ attempts' = [attempts EXCEPT ![s][e] = attempts[s][e] + 1]
      /\ inFlight' = [inFlight EXCEPT ![s][e] = 0]
      /\ queue' = [queue EXCEPT ![s] = Append(queue[s], e)]
  BY DEF HoldInv, LedgerInv, retry, PushBack
<1>2. /\ queue \in [Sinks -> Seq(Events)]
      /\ inFlight \in [Sinks -> [Events -> Nat]]
      /\ attempts \in [Sinks -> [Events -> Nat]]
  BY <1>1 DEF TypeOK
<1>3. queue'[s] = Append(queue[s], e) /\ queue[s] \in Seq(Events)
      /\ \A t \in Sinks \ {s} : queue'[t] = queue[t]
  BY <1>1, <1>2
<1>4. ASSUME NEW t \in Sinks, NEW f \in Events, f \in QueuedEvents(t)
      PROVE  f \in QueuedEvents(t)'
  <2>1. CASE t # s
    BY <1>3, <1>4, <2>1 DEF QueuedEvents
  <2>2. CASE t = s
    <3>1. PICK i \in DOMAIN queue[s] : queue[s][i] = f
      BY <1>4, <2>2 DEF QueuedEvents
    <3>2. \A k \in DOMAIN queue[s] :
            \E j \in DOMAIN Append(queue[s], e) : Append(queue[s], e)[j] = queue[s][k]
      BY <1>3, AppendKeeps
    <3> QED
      BY <1>3, <2>2, <3>1, <3>2 DEF QueuedEvents
  <2> QED
    BY <2>1, <2>2
<1>5. e \in QueuedEvents(s)'
  BY <1>3, AppendKeeps DEF QueuedEvents
<1>6. ledger'[s][e] = "Queued" /\ inFlight'[s][e] = 0
  BY <1>1, <1>2, TransitionMoves
<1>7. PairHeld(s, e)'
  BY <1>5, <1>6 DEF PairHeld, QueuedHeld, LeaseHeld, LeaseOpen
<1>8. \A t \in Sinks, f \in Events : t # s \/ f # e => attempts'[t][f] = attempts[t][f]
  BY <1>1, <1>2
<1>9. \A t \in Sinks, f \in Events : t # s \/ f # e => inFlight'[t][f] = inFlight[t][f]
  BY <1>1, <1>2
<1> QED
  BY <1>1, <1>4, <1>7, <1>8, <1>9, OthersHeld

LEMMA FailTerminalHolds ==
    ASSUME HoldInv, NEW s \in Sinks, NEW e \in Events, NEW reason \in FailureReasons,
           fail_terminal(s, e, reason)
    PROVE  AllHeld'
<1> USE DEF HoldInv, LedgerInv
<1>1. /\ ledger \in [Sinks -> [Events -> Dispositions]]
      /\ inFlight \in [Sinks -> [Events -> Nat]]
      /\ queue \in [Sinks -> Seq(Events)]
  BY DEF TypeOK
<1>2. LogGrows
  <2> DEFINE steps == Cardinality(QueuedAt(s)) + Cardinality(InFlightAt(s))
  <2>1. transitions' = transitions + steps /\ transitions + steps <= MaxLedgerTransitions
    BY DEF fail_terminal, LedgerRoom
  <2>2. steps \in Nat
    BY FailSteps
  <2>3. transitions \in Nat
    BY DEF TypeOK
  <2> HIDE DEF steps
  <2> QED
    BY <2>1, <2>2, <2>3, BoundAssumption DEF LogGrows
<1>3. inFlight' = [inFlight EXCEPT ![s] = [f \in Events |-> 0]]
      /\ queue' = [queue EXCEPT ![s] = <<>>] /\ attempts' = attempts
  BY DEF fail_terminal
<1>4. ASSUME NEW t \in Sinks, NEW f \in Events, t # s PROVE PairHeld(t, f)'
  <2>1. ledger'[t][f] = ledger[t][f]
    BY <1>1, <1>4 DEF fail_terminal
  <2>2. inFlight'[t][f] = inFlight[t][f] /\ queue'[t] = queue[t]
    BY <1>1, <1>3, <1>4
  <2>3. PairUntouched(t, f)
    BY <1>3, <2>1, <2>2 DEF PairUntouched, QueuedEvents
  <2> QED
    BY <1>2, <2>3, UntouchedHeld, HoldInvIsAllHeld DEF AllHeld
<1>5. ASSUME NEW f \in Events PROVE PairHeld(s, f)'
  <2>1. inFlight'[s][f] = 0
    BY <1>1, <1>3
  <2>2. ledger'[s][f] =
          CASE f = e              -> reason
            [] f \in QueuedAt(s)  -> "Permanent"
            [] f \in InFlightAt(s) \ {e} -> "UnknownOutcome"
            [] OTHER              -> ledger[s][f]
    BY <1>1 DEF fail_terminal
  <2>3. ledger[s][f] = "Queued" => f \in QueuedAt(s)
    BY DEF QueuedAt
  <2>4. ledger[s][f] \in {"Processing", "Retryable"} => f \in InFlightAt(s)
    BY HoldInvIsAllHeld DEF AllHeld, PairHeld, LeaseHeld, InFlightAt
  <2>5. ledger'[s][f] \notin Incomplete
    BY <2>2, <2>3, <2>4
  <2> QED
    BY <2>1, <2>5, ClosedHeld
<1> QED
  BY <1>4, <1>5 DEF AllHeld

LEMMA RetryForOperationHolds ==
    ASSUME HoldInv, NEW s \in Sinks, NEW e \in Events, retry_for_operation(s, e)
    PROVE  AllHeld'
<1> USE DEF HoldInv, LedgerInv
<1>1. /\ ledger \in [Sinks -> [Events -> Dispositions]]
      /\ inFlight \in [Sinks -> [Events -> Nat]]
      /\ attempts \in [Sinks -> [Events -> Nat]]
      /\ transitions \in Nat /\ transitions <= MaxLedgerTransitions
      /\ queue' = queue /\ inFlight[s][e] # 0
      /\ attempts[s][e] \in Nat /\ attempts[s][e] + 1 \in Nat
  <2>1. /\ ledger \in [Sinks -> [Events -> Dispositions]]
        /\ inFlight \in [Sinks -> [Events -> Nat]]
        /\ attempts \in [Sinks -> [Events -> Nat]]
        /\ transitions \in 0 .. MaxLedgerTransitions
    BY DEF TypeOK
  <2>2. queue' = queue /\ inFlight[s][e] # 0
    BY DEF retry_for_operation
  <2>3. attempts[s][e] \in Nat /\ attempts[s][e] + 1 \in Nat
    BY <2>1
  <2> QED
    BY <2>1, <2>2, <2>3, BoundAssumption
<1>2. LogGrows /\ transitions < MaxLedgerTransitions
  BY <1>1, BoundAssumption DEF retry_for_operation, LedgerRoom, LogGrows
<1>3. /\ ledger[s][e] \in {"Processing", "Retryable"}
      /\ inFlight[s][e] = attempts[s][e]
  BY <1>1, <1>2, HoldInvIsAllHeld DEF AllHeld, PairHeld, LeaseHeld, LeaseOpen
<1>4. ASSUME NEW t \in Sinks, NEW f \in Events, t # s \/ f # e PROVE PairHeld(t, f)'
  <2>1. \E to \in Incomplete : ledger' = [ledger EXCEPT ![s][e] = to]
    BY DEF retry_for_operation
  <2>2. ledger'[t][f] = ledger[t][f]
    BY <1>1, <1>4, <2>1
  <2>3. attempts'[t][f] = attempts[t][f]
    <3>1. CASE attempts' = attempts
      BY <3>1
    <3>2. CASE attempts' = [attempts EXCEPT ![s][e] = attempts[s][e] + 1]
      BY <1>1, <1>4, <3>2
    <3> QED
      BY <3>1, <3>2 DEF retry_for_operation
  <2>4. inFlight'[t][f] = inFlight[t][f]
    <3>1. CASE inFlight' = inFlight
      BY <3>1
    <3>2. CASE inFlight' = [inFlight EXCEPT ![s][e] = attempts[s][e] + 1]
      BY <1>1, <1>4, <3>2
    <3> QED
      BY <3>1, <3>2 DEF retry_for_operation
  <2>5. PairUntouched(t, f)
    BY <1>1, <2>2, <2>3, <2>4 DEF PairUntouched, QueuedEvents
  <2> QED
    BY <1>2, <2>5, UntouchedHeld, HoldInvIsAllHeld DEF AllHeld
<1>5. PairHeld(s, e)'
  <2>1. CASE /\ ledger' = [ledger EXCEPT ![s][e] = "Processing"]
             /\ attempts' = [attempts EXCEPT ![s][e] = attempts[s][e] + 1]
             /\ inFlight' = [inFlight EXCEPT ![s][e] = attempts[s][e] + 1]
    <3>1. /\ ledger'[s][e] = "Processing"
          /\ inFlight'[s][e] = attempts'[s][e] /\ inFlight'[s][e] # 0
      BY <1>1, <2>1
    <3> QED
      BY <3>1 DEF PairHeld, QueuedHeld, LeaseHeld, LeaseOpen
  <2>2. CASE /\ LedgerRoom(2) /\ ~LedgerRoom(3)
             /\ ledger' = [ledger EXCEPT ![s][e] = "Queued"]
             /\ transitions' = transitions + 2
             /\ inFlight' = inFlight
    <3>1. ledger'[s][e] = "Queued" /\ inFlight'[s][e] # 0
      BY <1>1, <2>2
    <3>2. transitions' = MaxLedgerTransitions
      BY <1>1, <2>2, BoundAssumption DEF LedgerRoom
    <3> QED
      BY <3>1, <3>2, BoundAssumption DEF PairHeld, QueuedHeld, LeaseHeld, LeaseOpen
  <2>3. CASE /\ ledger' = [ledger EXCEPT ![s][e] = "Retryable"]
             /\ inFlight' = inFlight /\ attempts' = attempts
    <3>1. /\ ledger'[s][e] = "Retryable"
          /\ inFlight'[s][e] = attempts'[s][e] /\ inFlight'[s][e] # 0
      BY <1>1, <1>3, <2>3
    <3> QED
      BY <3>1 DEF PairHeld, QueuedHeld, LeaseHeld, LeaseOpen
  <2> QED
    BY <2>1, <2>2, <2>3 DEF retry_for_operation
<1> QED
  BY <1>4, <1>5 DEF AllHeld

(* A closing operation that reaches its end leaves nothing open or leased. *)
LEMMA FullCloseHolds ==
    ASSUME HoldInv, Closing(OpenKeys),
           queue' = [s \in Sinks |-> <<>>],
           inFlight' = [s \in Sinks |-> [e \in Events |-> 0]]
    PROVE  /\ AllHeld' /\ AllTerminal' /\ DOMAIN pending' = {}
           /\ \A s \in Sinks : queue'[s] = <<>> /\ InFlightAt(s)' = {}
<1>1. \A s \in Sinks, e \in Events : inFlight'[s][e] = 0
  OBVIOUS
<1>2. ASSUME NEW s \in Sinks, NEW e \in Events PROVE ledger'[s][e] \notin Incomplete
  <2>1. ledger[s][e] \in Incomplete => <<e, s>> \in OpenKeys
    BY DEF OpenKeys
  <2> QED
    BY <2>1 DEF Closing
<1>3. AllHeld'
  BY <1>1, <1>2, ClosedHeld DEF AllHeld
<1>4. AllTerminal'
  BY <1>2 DEF AllTerminal, IncompleteAt
<1>5. DOMAIN pending' = {}
  BY DEF Closing, RecordPending
<1> QED
  BY <1>1, <1>3, <1>4, <1>5 DEF InFlightAt

(* One that stops half way keeps the queues and the leases.                *)
LEMMA HalfCloseHolds ==
    ASSUME HoldInv, NEW closed, Closing(closed), UNCHANGED queueVars,
           closed = {} \/ transitions' = MaxLedgerTransitions
    PROVE  AllHeld'
<1>1. LogGrows
  BY DEF Closing, LogGrows
<1>2. queue' = queue /\ inFlight' = inFlight
  BY DEF queueVars
<1>3. ASSUME NEW s \in Sinks, NEW e \in Events, <<e, s>> \in closed PROVE PairHeld(s, e)'
  <2>1. ledger'[s][e] = "Cancelled" /\ transitions' = MaxLedgerTransitions
    BY <1>3 DEF Closing
  <2> QED
    BY <2>1, BoundAssumption DEF PairHeld, QueuedHeld, LeaseHeld, LeaseOpen
<1>4. ASSUME NEW s \in Sinks, NEW e \in Recorded, e \in Events, <<e, s>> \notin closed
      PROVE  PairHeld(s, e)'
  <2>1. ledger'[s][e] = "NotAdmitted"
    BY <1>4 DEF Closing
  <2>2. ~InLedger(e)
    BY <1>4 DEF Recorded, Events
  <2>3. ledger[s][e] = "None"
    BY <2>2 DEF InLedger
  <2>4. transitions' < MaxLedgerTransitions => inFlight'[s][e] = 0
    BY <1>1, <1>2, <1>4, <2>3, UnknownNotLeased, BoundAssumption DEF LogGrows
  <2> QED
    BY <2>1, <2>4 DEF PairHeld, QueuedHeld, LeaseHeld, LeaseOpen
<1>5. ASSUME NEW s \in Sinks, NEW e \in Events \ Recorded, <<e, s>> \notin closed
      PROVE  PairHeld(s, e)'
  <2>1. ledger'[s][e] = ledger[s][e]
    BY <1>5 DEF Closing
  <2>2. attempts'[s][e] = attempts[s][e]
    BY <1>5 DEF Closing, RecordPending
  <2>3. PairUntouched(s, e)
    BY <1>2, <2>1, <2>2 DEF PairUntouched, QueuedEvents
  <2> QED
    BY <1>1, <2>3, UntouchedHeld, HoldInvIsAllHeld DEF AllHeld
<1> QED
  BY <1>3, <1>4, <1>5 DEF AllHeld

LEMMA CloseKeysHolds ==
    ASSUME HoldInv, NEW closed \in SUBSET OpenKeys, CloseKeys(closed)
    PROVE  /\ AllHeld'
           /\ closed = OpenKeys =>
                 /\ AllTerminal' /\ DOMAIN pending' = {}
                 /\ \A s \in Sinks : queue'[s] = <<>> /\ InFlightAt(s)' = {}
<1>1. Closing(closed)
  BY CloseKeysCloses DEF HoldInv
<1>2. CASE closed = OpenKeys
  BY <1>1, <1>2, FullCloseHolds DEF CloseKeys
<1>3. CASE closed # OpenKeys
  <2>1. UNCHANGED queueVars /\ transitions' = MaxLedgerTransitions
    BY <1>3 DEF CloseKeys, Closable
  <2> QED
    BY <1>1, <1>3, <2>1, HalfCloseHolds
<1> QED
  BY <1>2, <1>3

LEMMA CancelHolds ==
    ASSUME HoldInv, cancel
    PROVE  AllHeld' /\ FinishedIsConserved'
<1>1. FinishedIsConserved'
  BY DEF cancel, FinishedIsConserved
<1>2. CASE \E closed \in SUBSET OpenKeys : CloseKeys(closed)
  BY <1>1, <1>2, CloseKeysHolds
<1>3. CASE CloseStopsAtPending
  BY <1>1, <1>3, CloseStopsCloses, HalfCloseHolds DEF CloseStopsAtPending, HoldInv
<1>4. CASE UNCHANGED <<nextSeq, queueVars, pending, ledgerVars>>
  BY <1>1, <1>4, QuietHeld
<1> QED
  BY <1>2, <1>3, <1>4 DEF cancel

LEMMA FinishHolds ==
    ASSUME HoldInv, finish
    PROVE  AllHeld' /\ FinishedIsConserved'
<1>1. StopPhase # "Finished"
  BY DEF finish, StopPhase
<1>2. CASE \E closed \in SUBSET OpenKeys :
              /\ CloseKeys(closed)
              /\ phase' = IF closed = OpenKeys THEN "Finished" ELSE StopPhase
  <2>1. PICK closed \in SUBSET OpenKeys :
              /\ CloseKeys(closed)
              /\ phase' = IF closed = OpenKeys THEN "Finished" ELSE StopPhase
    BY <1>2
  <2>2. FinishedIsConserved'
    BY <1>1, <2>1, CloseKeysHolds DEF FinishedIsConserved
  <2> QED
    BY <2>1, <2>2, CloseKeysHolds
<1>3. CASE CloseStopsAtPending /\ phase' = StopPhase
  BY <1>1, <1>3, CloseStopsCloses, HalfCloseHolds
     DEF CloseStopsAtPending, HoldInv, FinishedIsConserved
<1>4. CASE phase' = StopPhase /\ UNCHANGED <<nextSeq, queueVars, pending, ledgerVars>>
  BY <1>1, <1>4, QuietHeld DEF FinishedIsConserved
<1> QED
  BY <1>2, <1>3, <1>4 DEF finish

-----------------------------------------------------------------------------

LEMMA NextHolds ==
    ASSUME HoldInv, [Next]_vars
    PROVE  AllHeld' /\ FinishedIsConserved'
<1>1. CASE UNCHANGED vars
  <2>1. AllHeld'
    BY <1>1, QuietHeld DEF vars
  <2>2. FinishedIsConserved'
    BY <1>1 DEF vars, queueVars, ledgerVars, HoldInv, FinishedIsConserved,
                AllTerminal, IncompleteAt, InFlightAt
  <2> QED
    BY <2>1, <2>2
<1>2. CASE start \/ stop_admission \/ flush
  <2>1. phase' # "Finished" /\ UNCHANGED <<queueVars, ledgerVars>>
    BY <1>2 DEF start, stop_admission, flush
  <2> QED
    BY <2>1, QuietHeld DEF FinishedIsConserved
<1>3. CASE next_delivery
  <2>1. phase' # "Finished"
    BY <1>3 DEF next_delivery, NoLease, Lease, DrainPhase
  <2>2. CASE NoLease
    BY <2>1, <2>2, QuietHeld DEF NoLease, FinishedIsConserved
  <2>3. CASE \E s \in Sinks, e \in Events : Lease(s, e)
    BY <2>1, <2>3, LeaseHolds DEF FinishedIsConserved
  <2> QED
    BY <1>3, <2>2, <2>3 DEF next_delivery
<1>4. CASE cancel
  BY <1>4, CancelHolds
<1>5. CASE finish
  BY <1>5, FinishHolds
<1>6. ASSUME NEW e \in Events, admit(e) \/ retry_admission(e)
      PROVE  AllHeld' /\ FinishedIsConserved'
  BY <1>6, AdmitHeld
<1>7. ASSUME NEW s \in Sinks, NEW e \in Events,
             \E a \in 1 .. attempts[s][e] : acknowledge(s, e, a)
      PROVE  AllHeld' /\ FinishedIsConserved'
  BY <1>7, AnswerHolds, LeasedNotFinished DEF acknowledge, FinishedIsConserved
<1>8. ASSUME NEW s \in Sinks, NEW e \in Events, diagnosed_drop(s, e)
      PROVE  AllHeld' /\ FinishedIsConserved'
  BY <1>8, AnswerHolds, LeasedNotFinished DEF diagnosed_drop, FinishedIsConserved
<1>9. ASSUME NEW s \in Sinks, NEW e \in Events,
             ledger[s][e] = "Processing", fail_retryable(s, e)
      PROVE  AllHeld' /\ FinishedIsConserved'
  BY <1>9, FailRetryableHolds, LeasedNotFinished DEF fail_retryable, FinishedIsConserved
<1>10. ASSUME NEW s \in Sinks, NEW e \in Events,
              \E reason \in FailureReasons : fail_terminal(s, e, reason)
       PROVE  AllHeld' /\ FinishedIsConserved'
  <2>1. phase' # "Finished"
    BY <1>10 DEF fail_terminal
  <2> QED
    BY <1>10, <2>1, FailTerminalHolds DEF FinishedIsConserved
<1>11. ASSUME NEW s \in Sinks, NEW e \in Events, retry(s, e)
       PROVE  AllHeld' /\ FinishedIsConserved'
  BY <1>11, RetryHolds, LeasedNotFinished DEF retry, FinishedIsConserved
<1>12. ASSUME NEW s \in Sinks, NEW e \in Events, retry_for_operation(s, e)
       PROVE  AllHeld' /\ FinishedIsConserved'
  BY <1>12, RetryForOperationHolds, LeasedNotFinished
     DEF retry_for_operation, FinishedIsConserved
<1> QED
  BY <1>1, <1>2, <1>3, <1>4, <1>5, <1>6, <1>7, <1>8, <1>9, <1>10, <1>11, <1>12 DEF Next

LEMMA HoldKept ==
    ASSUME HoldInv, [Next]_vars
    PROVE  HoldInv'
<1>1. LedgerInv'
  BY NextStep, LedgerStepKeeps DEF HoldInv
<1>2. AllHeld' /\ FinishedIsConserved'
  BY NextHolds
<1>3. AcceptedIsHeld' /\ LeaseIsAccounted'
  BY <1>2 DEF AllHeld, PairHeld, QueuedHeld, LeaseHeld, LeaseOpen,
              AcceptedIsHeld, LeaseIsAccounted
<1> QED
  BY <1>1, <1>2, <1>3 DEF HoldInv

LEMMA InitHolds == Init => HoldInv
<1> SUFFICES ASSUME Init PROVE HoldInv
  OBVIOUS
<1>1. LedgerInv
  BY InitLedger
<1>2. AcceptedIsHeld /\ LeaseIsAccounted
  BY DEF Init, AcceptedIsHeld, LeaseIsAccounted
<1>3. FinishedIsConserved
  BY DEF Init, FinishedIsConserved
<1> QED
  BY <1>1, <1>2, <1>3 DEF HoldInv

(* The full inductive invariant of the router.                             *)
THEOREM HoldInvariant == Spec => []HoldInv
<1>1. HoldInv /\ [Next]_vars => HoldInv'
  BY HoldKept
<1> QED
  BY <1>1, InitHolds, PTL DEF Spec

(* An accepted event is never silently dropped: the queue or a lease of    *)
(* the pair's current attempt holds it until the ledger closes it.         *)
THEOREM NothingLost == Spec => []AcceptedIsHeld
BY HoldInvariant, PTL DEF HoldInv

(* A finished run has no open pair, no pending admission and holds nothing.*)
THEOREM FinishedConserves == Spec => []FinishedIsConserved
BY HoldInvariant, PTL DEF HoldInv

-----------------------------------------------------------------------------
(* The router implements DeliveryContract, whatever its limits and the     *)
(* order of the calls.                                                     *)

Fate == [s \in Sinks |-> [e \in Events |-> FateOf(ledger[s][e])]]

LEMMA FateFacts ==
    /\ FateOf("None") = "absent" /\ FateOf("NotAdmitted") = "rejected"
    /\ \A d \in Incomplete : FateOf(d) = "open"
    /\ \A d \in Terminal \ {"NotAdmitted"} : FateOf(d) \in {"durable", "dropped", "failed"}
    /\ \A d \in Dispositions :
          /\ FateOf(d) \in {"absent", "rejected", "open", "durable", "dropped", "failed"}
          /\ FateOf(d) = "open" => d \in Incomplete
BY DEF FateOf

(* Nothing happens after finish.                                           *)
LEMMA FinishedIsFinal ==
    ASSUME HoldInv, [Next]_vars, phase = "Finished"
    PROVE  UNCHANGED vars
<1>1. \A s \in Sinks, e \in Events : inFlight[s][e] = 0
  BY DEF HoldInv, FinishedIsConserved, InFlightAt
<1>2. ~(start \/ stop_admission \/ next_delivery \/ flush \/ cancel \/ finish)
  BY DEF start, stop_admission, next_delivery, flush, cancel, finish
<1>3. \A e \in Events : ~(admit(e) \/ retry_admission(e))
  BY DEF admit, retry_admission
<1>4. \A s \in Sinks, e \in Events :
        /\ \A a \in 1 .. attempts[s][e] : ~acknowledge(s, e, a)
        /\ ~diagnosed_drop(s, e) /\ ~fail_retryable(s, e)
        /\ \A reason \in FailureReasons : ~fail_terminal(s, e, reason)
        /\ ~retry(s, e) /\ ~retry_for_operation(s, e)
  BY <1>1 DEF acknowledge, diagnosed_drop, fail_retryable, fail_terminal, retry,
              retry_for_operation
<1> QED
  BY <1>2, <1>3, <1>4 DEF Next

LEMMA InitRefines == Init => Contract!Init
<1> SUFFICES ASSUME Init PROVE Contract!Init
  OBVIOUS
<1>1. \A s \in Sinks, e \in Events : FateOf(ledger[s][e]) = "absent"
  BY FateFacts DEF Init
<1>2. [s \in Sinks |-> [e \in Events |-> FateOf(ledger[s][e])]]
        = [s \in Sinks |-> [e \in Events |-> "absent"]]
  BY <1>1
<1>3. nextSeq - 1 = 0 /\ (phase = "Finished") = FALSE
  BY DEF Init
<1> QED
  BY <1>2, <1>3 DEF Contract!Init

LEMMA StepRefines ==
    ASSUME HoldInv, [Next]_vars
    PROVE  [Contract!Next]_(Contract!vars)
<1>1. CASE phase = "Finished"
  <2>1. ledger' = ledger /\ nextSeq' = nextSeq /\ phase' = phase
    BY <1>1, FinishedIsFinal DEF vars, ledgerVars
  <2> QED
    BY <2>1 DEF Contract!vars
<1>2. CASE phase # "Finished"
  <2>1. LedgerStep /\ TypeOK' /\ FinishedIsConserved'
    BY NextStep, NextHolds DEF HoldInv, StepOK
  <2>2. /\ ledger \in [Sinks -> [Events -> Dispositions]]
        /\ ledger' \in [Sinks -> [Events -> Dispositions]]
        /\ nextSeq \in Int
    BY <2>1 DEF HoldInv, LedgerInv, TypeOK
  <2>3. Fate' \in [Sinks -> [Events -> {"absent", "rejected", "open",
                                        "durable", "dropped", "failed"}]]
    BY <2>2, FateFacts DEF Fate
  <2>4. ASSUME NEW s \in Sinks, NEW e \in Events
        PROVE  /\ PairKept(s, e) => Fate'[s][e] = Fate[s][e]
               /\ PairMoves(s, e) =>
                    /\ Fate[s][e] = "open"
                    /\ Fate'[s][e] \in {"open", "durable", "dropped", "failed"}
    BY <2>2, FateFacts DEF Fate, PairKept, PairMoves
  <2>5. phase' = "Finished" =>
          \A s \in Sinks, e \in Events : Fate'[s][e] # "open"
    <3>1. phase' = "Finished" =>
            \A s \in Sinks, e \in Events : ledger'[s][e] \notin Incomplete
      BY <2>1 DEF FinishedIsConserved, AllTerminal, IncompleteAt
    <3> QED
      BY <2>2, <3>1, FateFacts DEF Fate
  <2>6. CASE nextSeq' = nextSeq /\ OnlyMoves
    BY <1>2, <2>2, <2>3, <2>4, <2>5, <2>6
       DEF Fate, OnlyMoves, Contract!Next, Contract!Settle, Contract!ResolveOutside,
           Contract!Fates, Contract!Resolved
  <2>7. ASSUME NEW to \in {"Queued", "NotAdmitted"}, Enters(to)
        PROVE  /\ nextSeq - 1 + 1 = nextSeq /\ nextSeq' - 1 = nextSeq
               /\ \A s \in Sinks : /\ Fate[s][nextSeq] = "absent"
                                   /\ Fate'[s][nextSeq] = FateOf(to)
    <3>1. \A s \in Sinks : ledger[s][nextSeq] = "None" /\ ledger'[s][nextSeq] = to
      BY <2>7 DEF Enters, HoldInv, LedgerInv, AdmissionIsAtomic, Events
    <3> QED
      BY <2>2, <2>7, <3>1, FateFacts DEF Fate, Enters
  <2>8. CASE EntersQueued
    <3>1. /\ nextSeq - 1 + 1 = nextSeq /\ nextSeq' - 1 = nextSeq /\ nextSeq \in Events
          /\ \A s \in Sinks : Fate[s][nextSeq] = "absent" /\ Fate'[s][nextSeq] = "open"
      BY <2>7, <2>8, FateFacts DEF EntersQueued, Enters
    <3>2. \A s \in Sinks, e \in Events \ {nextSeq} : Fate'[s][e] = Fate[s][e]
      BY <2>4, <2>8 DEF EntersQueued
    <3>3. phase' # "Finished"
      BY <2>5, <3>1, SinkAssumption DEF Sinks
    <3>4. Contract!Accept
      BY <1>2, <2>2, <3>1, <3>2, <3>3 DEF Fate, Contract!Accept, Contract!Offer
    <3> QED
      BY <1>2, <2>3, <3>4 DEF Fate, Contract!Next, Contract!Fates, Contract!Resolved
  <2>9. CASE EntersRejected
    <3>1. /\ nextSeq - 1 + 1 = nextSeq /\ nextSeq' - 1 = nextSeq /\ nextSeq \in Events
          /\ \A s \in Sinks : Fate[s][nextSeq] = "absent" /\ Fate'[s][nextSeq] = "rejected"
      BY <2>7, <2>9, FateFacts DEF EntersRejected, Enters
    <3>2. \A s \in Sinks, e \in Events \ {nextSeq} :
            \/ Fate'[s][e] = Fate[s][e]
            \/ Fate[s][e] = "open" /\ Fate'[s][e] \in {"durable", "dropped", "failed"}
      BY <2>4, <2>9 DEF EntersRejected
    <3>3. Contract!Settle
      BY <2>5, <3>1, <3>2
         DEF Fate, Contract!Settle, Contract!Offer, Contract!ResolveOutside, Contract!Resolved
    <3> QED
      BY <1>2, <2>3, <3>3 DEF Fate, Contract!Next, Contract!Fates, Contract!Resolved
  <2> QED
    BY <2>1, <2>6, <2>8, <2>9 DEF LedgerStep
<1> QED
  BY <1>1, <1>2

(* The router implements the delivery contract: atomic admission, one      *)
(* final fate per accepted pair, no close while a pair is open.            *)
THEOREM RouterImplementsContract == Spec => ImplementsContract
<1>1. HoldInv /\ [Next]_vars => [Contract!Next]_(Contract!vars)
  BY StepRefines
<1> QED
  BY InitRefines, <1>1, HoldInvariant, PTL DEF Spec, ImplementsContract, Contract!Spec

-----------------------------------------------------------------------------
(* Order of delivery.                                                      *)

(* The event has left the sink's queue at least once.                      *)
Served(s, f) ==
    ledger[s][f] \notin {"None", "NotAdmitted"} /\ ~FirstAttemptQueued(s, f)

(* A sink's queue has each event once, only events the ledger calls queued,*)
(* and those that wait for their first attempt in their order, behind all  *)
(* events that were served.                                                *)
QueueOrdered(s) ==
    /\ \A i, j \in DOMAIN queue[s] : i # j => queue[s][i] # queue[s][j]
    /\ \A i \in DOMAIN queue[s] : ledger[s][queue[s][i]] = "Queued"
    /\ \A i, j \in DOMAIN queue[s] :
          /\ j < i
          /\ FirstAttemptQueued(s, queue[s][i]) /\ FirstAttemptQueued(s, queue[s][j])
          => queue[s][j] < queue[s][i]
    /\ \A i \in DOMAIN queue[s], f \in Events :
          FirstAttemptQueued(s, queue[s][i]) /\ Served(s, f) => f < queue[s][i]

OrderInv == transitions < MaxLedgerTransitions => \A s \in Sinks : QueueOrdered(s)

(* The step changes the pair without touching what the order is about.     *)
QueuedPairKept(s, f) ==
    /\ f \in QueuedEvents(s) =>
          ledger'[s][f] = ledger[s][f] /\ attempts'[s][f] = attempts[s][f]
    /\ Served(s, f)' => Served(s, f)

LEMMA KeptQueueOrdered ==
    ASSUME NEW s \in Sinks, QueueOrdered(s), queue[s] \in Seq(Events),
           queue'[s] = queue[s], \A f \in Events : QueuedPairKept(s, f)
    PROVE  QueueOrdered(s)'
<1>1. ASSUME NEW i \in DOMAIN queue[s]
      PROVE  /\ queue[s][i] \in Events
             /\ ledger'[s][queue[s][i]] = ledger[s][queue[s][i]]
             /\ attempts'[s][queue[s][i]] = attempts[s][queue[s][i]]
  <2>1. queue[s][i] \in Events /\ queue[s][i] \in QueuedEvents(s)
    BY DEF QueuedEvents
  <2> QED
    BY <2>1 DEF QueuedPairKept
<1>2. \A i \in DOMAIN queue[s] :
         FirstAttemptQueued(s, queue[s][i])' <=> FirstAttemptQueued(s, queue[s][i])
  BY <1>1 DEF FirstAttemptQueued
<1>3. \A f \in Events : Served(s, f)' => Served(s, f)
  BY DEF QueuedPairKept
<1> QED
  BY <1>1, <1>2, <1>3 DEF QueueOrdered

LEMMA EmptyQueueOrdered ==
    ASSUME NEW s \in Sinks, queue'[s] = <<>>
    PROVE  QueueOrdered(s)'
BY DEF QueueOrdered

(* An event that was not queued joins at the back: the youngest event of   *)
(* all, or one that was served before.                                     *)
LEMMA AppendedQueueOrdered ==
    ASSUME NEW s \in Sinks, NEW e \in Events, QueueOrdered(s), queue[s] \in Seq(Events),
           queue'[s] = Append(queue[s], e),
           \A f \in Events \ {e} :
              ledger'[s][f] = ledger[s][f] /\ attempts'[s][f] = attempts[s][f],
           ledger[s][e] # "Queued", ledger'[s][e] = "Queued",
           \/ /\ attempts'[s][e] = 1
              /\ \A f \in Events : ledger[s][f] # "None" => f < e
           \/ attempts'[s][e] # 1 /\ Served(s, e)
    PROVE  QueueOrdered(s)'
<1> DEFINE q == queue[s]
           r == queue'[s]
           FirstAfter(f)  == ledger'[s][f] = "Queued" /\ attempts'[s][f] = 1
           ServedAfter(f) == ledger'[s][f] \notin {"None", "NotAdmitted"} /\ ~FirstAfter(f)
<1>1. /\ DOMAIN q = 1 .. Len(q) /\ Len(q) \in Nat
      /\ DOMAIN r = 1 .. Len(q) + 1
      /\ \A i \in 1 .. Len(q) : r[i] = q[i]
      /\ r[Len(q) + 1] = e
  OBVIOUS
<1>2. \A i \in DOMAIN q : q[i] \in Events /\ ledger[s][q[i]] = "Queued" /\ q[i] # e
  BY DEF QueueOrdered
<1>3. \A i \in DOMAIN q : /\ ledger'[s][q[i]] = "Queued"
                          /\ FirstAfter(q[i]) <=> FirstAttemptQueued(s, q[i])
  BY <1>2 DEF FirstAttemptQueued
<1>4. \A f \in Events \ {e} : ServedAfter(f) <=> Served(s, f)
  BY DEF Served, FirstAttemptQueued
<1>5. \A i \in DOMAIN r :
        \/ i \in DOMAIN q /\ r[i] = q[i]
        \/ i = Len(q) + 1 /\ r[i] = e
  BY <1>1
<1> HIDE DEF q, r
<1>6. \A i, j \in DOMAIN r : i # j => r[i] # r[j]
  <2>1. \A i, j \in DOMAIN q : i # j => q[i] # q[j]
    BY DEF QueueOrdered, q
  <2> QED
    BY <1>2, <1>5, <2>1
<1>7. \A i \in DOMAIN r : ledger'[s][r[i]] = "Queued"
  BY <1>3, <1>5
<1>8. ASSUME NEW i \in DOMAIN r, NEW j \in DOMAIN r, j < i,
             FirstAfter(r[i]), FirstAfter(r[j])
      PROVE  r[j] < r[i]
  <2>1. j \in DOMAIN q /\ r[j] = q[j]
    BY <1>1, <1>5, <1>8
  <2>2. CASE i \in DOMAIN q /\ r[i] = q[i]
    BY <1>3, <1>8, <2>1, <2>2 DEF QueueOrdered, q
  <2>3. CASE r[i] = e
    <3>1. attempts'[s][e] = 1
      BY <1>8, <2>3 DEF FirstAttemptQueued
    <3> QED
      BY <1>2, <2>1, <2>3, <3>1
  <2> QED
    BY <1>5, <2>2, <2>3
<1>9. ASSUME NEW i \in DOMAIN r, NEW f \in Events, FirstAfter(r[i]), ServedAfter(f)
      PROVE  f < r[i]
  <2>1. CASE r[i] = e
    <3>1. attempts'[s][e] = 1
      BY <1>9, <2>1 DEF FirstAttemptQueued
    <3>2. f # e
      BY <1>9, <3>1 DEF Served, FirstAttemptQueued
    <3>3. ledger[s][f] # "None"
      BY <1>4, <1>9, <3>2 DEF Served
    <3> QED
      BY <2>1, <3>1, <3>3
  <2>2. CASE i \in DOMAIN q /\ r[i] = q[i]
    <3>1. FirstAttemptQueued(s, q[i])
      BY <1>3, <1>9, <2>2
    <3>2. Served(s, f)
      <4>1. CASE f # e
        BY <1>4, <1>9, <4>1
      <4>2. CASE f = e
        BY <1>9, <4>2 DEF Served, FirstAttemptQueued
      <4> QED
        BY <4>1, <4>2
    <3> QED
      BY <2>2, <3>1, <3>2 DEF QueueOrdered, q
  <2> QED
    BY <1>5, <2>1, <2>2
<1> QED
  BY <1>6, <1>7, <1>8, <1>9 DEF QueueOrdered, FirstAttemptQueued, Served, r

(* The oldest event leaves: it stood before every first attempt.           *)
LEMMA TailQueueOrdered ==
    ASSUME NEW s \in Sinks, NEW e \in Events, QueueOrdered(s), queue[s] \in Seq(Events),
           queue[s] # <<>>, e = Head(queue[s]), queue'[s] = Tail(queue[s]),
           \A f \in Events \ {e} :
              ledger'[s][f] = ledger[s][f] /\ attempts'[s][f] = attempts[s][f]
    PROVE  QueueOrdered(s)'
<1> DEFINE q == queue[s]
           r == queue'[s]
           FirstAfter(f)  == ledger'[s][f] = "Queued" /\ attempts'[s][f] = 1
           ServedAfter(f) == ledger'[s][f] \notin {"None", "NotAdmitted"} /\ ~FirstAfter(f)
<1>1. /\ DOMAIN q = 1 .. Len(q) /\ Len(q) \in Nat /\ Len(q) >= 1 /\ e = q[1]
      /\ DOMAIN r = 1 .. Len(q) - 1
      /\ \A i \in 1 .. Len(q) - 1 : r[i] = q[i + 1]
  OBVIOUS
<1>2. \A i \in DOMAIN q : q[i] \in Events /\ ledger[s][q[i]] = "Queued"
  BY DEF QueueOrdered
<1>3. \A i, j \in DOMAIN q : i # j => q[i] # q[j]
  BY DEF QueueOrdered
<1> HIDE DEF q, r
<1>4. 1 \in DOMAIN q /\ \A i \in DOMAIN r : i \in Int /\ i + 1 \in DOMAIN q /\ i + 1 # 1 /\ r[i] = q[i + 1]
  BY <1>1
<1>5. \A i \in DOMAIN r : /\ q[i + 1] # e /\ q[i + 1] \in Events
                          /\ ledger'[s][r[i]] = "Queued"
                          /\ FirstAfter(r[i]) <=> FirstAttemptQueued(s, q[i + 1])
  BY <1>1, <1>2, <1>3, <1>4 DEF FirstAttemptQueued
<1>6. \A i, j \in DOMAIN r : i # j => r[i] # r[j]
  BY <1>3, <1>4
<1>7. ASSUME NEW i \in DOMAIN r, NEW j \in DOMAIN r, j < i,
             FirstAfter(r[i]), FirstAfter(r[j])
      PROVE  r[j] < r[i]
  <2>1. j + 1 < i + 1
    BY <1>4, <1>7
  <2> QED
    BY <1>4, <1>5, <1>7, <2>1 DEF QueueOrdered, q
<1>8. ASSUME NEW i \in DOMAIN r, NEW f \in Events, FirstAfter(r[i]), ServedAfter(f)
      PROVE  f < r[i]
  <2>1. FirstAttemptQueued(s, q[i + 1]) /\ r[i] = q[i + 1] /\ i + 1 \in DOMAIN q /\ 1 < i + 1
    BY <1>1, <1>4, <1>5, <1>8
  <2>2. CASE Served(s, f)
    BY <2>1, <2>2 DEF QueueOrdered, q
  <2>3. CASE ~Served(s, f)
    <3>1. f = e
      BY <1>8, <2>3 DEF Served, FirstAttemptQueued
    <3>2. FirstAttemptQueued(s, q[1]) /\ f = q[1]
      BY <1>1, <1>2, <1>4, <2>3, <3>1 DEF Served
    <3> QED
      BY <1>4, <2>1, <3>2 DEF QueueOrdered, q
  <2> QED
    BY <2>2, <2>3
<1> QED
  BY <1>5, <1>6, <1>7, <1>8 DEF QueueOrdered, FirstAttemptQueued, Served, r

-----------------------------------------------------------------------------
(* Every step keeps the queues ordered.                                    *)

LEMMA AcceptOrdered ==
    ASSUME HoldInv, OrderInv, NEW e \in Events, e = nextSeq, Accept(e)
    PROVE  OrderInv'
<1>1. /\ SelectAll(e, "Queued") /\ TypeOK /\ AdmissionIsAtomic
      /\ queue \in [Sinks -> Seq(Events)]
      /\ attempts \in [Sinks -> [Events -> Nat]]
      /\ attempts' = [s \in Sinks |-> [attempts[s] EXCEPT ![e] = 1]]
      /\ queue' = [s \in Sinks |-> Append(queue[s], e)]
  BY DEF HoldInv, LedgerInv, TypeOK, Accept, PushBack, SelectAll
<1>2. ASSUME NEW s \in Sinks PROVE QueueOrdered(s)'
  <2>1. QueueOrdered(s)
    BY <1>1, SelectGrows DEF OrderInv
  <2>2. /\ queue[s] \in Seq(Events) /\ queue'[s] = Append(queue[s], e)
        /\ attempts'[s][e] = 1
    BY <1>1
  <2>3. \A f \in Events : ledger[s][f] # "None" => f < e
    BY <1>1 DEF AdmissionIsAtomic
  <2>4. /\ ledger[s][e] = "None" /\ ledger'[s][e] = "Queued"
        /\ \A f \in Events \ {e} :
              ledger'[s][f] = ledger[s][f] /\ attempts'[s][f] = attempts[s][f]
    BY <1>1, SelectGrows
  <2> QED
    BY <2>1, <2>2, <2>3, <2>4, AppendedQueueOrdered
<1> QED
  BY <1>2 DEF OrderInv

LEMMA RejectOrdered ==
    ASSUME HoldInv, OrderInv, NEW e \in Events, RecordNotAdmitted(e)
    PROVE  OrderInv'
<1>1. SelectAll(e, "NotAdmitted") /\ queue' = queue /\ queue \in [Sinks -> Seq(Events)]
  BY DEF RecordNotAdmitted, queueVars, HoldInv, LedgerInv, TypeOK
<1>2. ASSUME NEW s \in Sinks PROVE QueueOrdered(s)'
  <2>1. QueueOrdered(s)
    BY <1>1, SelectGrows DEF OrderInv
  <2>2. queue[s] \in Seq(Events) /\ queue'[s] = queue[s]
    BY <1>1
  <2>3. /\ ledger[s][e] = "None" /\ ledger'[s][e] = "NotAdmitted"
        /\ \A f \in Events \ {e} :
              ledger'[s][f] = ledger[s][f] /\ attempts'[s][f] = attempts[s][f]
    BY <1>1, SelectGrows
  <2>4. e \notin QueuedEvents(s)
    BY <2>1, <2>3 DEF QueueOrdered, QueuedEvents
  <2>5. \A f \in Events : QueuedPairKept(s, f)
    BY <2>3, <2>4 DEF QueuedPairKept, Served, FirstAttemptQueued
  <2> QED
    BY <2>1, <2>2, <2>5, KeptQueueOrdered
<1> QED
  BY <1>2 DEF OrderInv

LEMMA QuietOrdered ==
    ASSUME HoldInv, OrderInv, UNCHANGED <<queueVars, ledgerVars>>
    PROVE  OrderInv'
BY DEF OrderInv, QueueOrdered, Served, FirstAttemptQueued, queueVars, ledgerVars

LEMMA AdmitOrdered ==
    ASSUME HoldInv, OrderInv, NEW e \in Events, admit(e) \/ retry_admission(e)
    PROVE  OrderInv'
<1>1. CASE Accept(e) /\ e = nextSeq
  BY <1>1, AcceptOrdered
<1>2. CASE RecordNotAdmitted(e)
  BY <1>2, RejectOrdered
<1>3. CASE UNCHANGED <<queueVars, ledgerVars>>
  BY <1>3, QuietOrdered
<1> QED
  BY <1>1, <1>2, <1>3 DEF admit, retry_admission, RejectAndFail, RejectAndDrop, Blocked

(* The queues of the sinks a step does not name stay as they are.          *)
SinkKept(t) ==
    /\ queue'[t] = queue[t]
    /\ \A f \in Events : ledger'[t][f] = ledger[t][f] /\ attempts'[t][f] = attempts[t][f]

LEMMA KeptSinkOrdered ==
    ASSUME NEW t \in Sinks, QueueOrdered(t), queue[t] \in Seq(Events), SinkKept(t)
    PROVE  QueueOrdered(t)'
<1>1. \A f \in Events : QueuedPairKept(t, f)
  BY DEF SinkKept, QueuedPairKept, Served, FirstAttemptQueued
<1> QED
  BY <1>1, KeptQueueOrdered DEF SinkKept

(* A single transition of (s, e) while the log has room.                   *)
LEMMA OneSinkOrdered ==
    ASSUME HoldInv, OrderInv, transitions < MaxLedgerTransitions, NEW s \in Sinks,
           \A t \in Sinks \ {s} : SinkKept(t), QueueOrdered(s) => QueueOrdered(s)'
    PROVE  OrderInv'
<1>1. queue \in [Sinks -> Seq(Events)]
  BY DEF HoldInv, LedgerInv, TypeOK
<1>2. \A t \in Sinks : QueueOrdered(t)
  BY DEF OrderInv
<1>3. \A t \in Sinks \ {s} : QueueOrdered(t)'
  BY <1>1, <1>2, KeptSinkOrdered
<1> QED
  BY <1>2, <1>3 DEF OrderInv

LEMMA TransitionOrders ==
    ASSUME HoldInv, NEW s \in Sinks, NEW e \in Events, NEW to, Transition(s, e, to)
    PROVE  /\ transitions < MaxLedgerTransitions
           /\ ledger'[s][e] = to
           /\ \A t \in Sinks, f \in Events : t # s \/ f # e => ledger'[t][f] = ledger[t][f]
<1>1. TypeOK
  BY DEF HoldInv, LedgerInv
<1>2. transitions < MaxLedgerTransitions
  BY <1>1, BoundAssumption DEF Transition, LedgerRoom, TypeOK
<1> QED
  BY <1>1, <1>2, TransitionMoves

LEMMA LeaseOrdered ==
    ASSUME HoldInv, OrderInv, NEW s \in Sinks, NEW e \in Events, Lease(s, e)
    PROVE  OrderInv'
<1>1. /\ Transition(s, e, "Processing") /\ e = Head(queue[s]) /\ attempts' = attempts
      /\ queue' = [queue EXCEPT ![s] = Tail(queue[s])] /\ queue[s] # <<>>
      /\ queue \in [Sinks -> Seq(Events)]
  BY DEF Lease, NextSink, Deliverable, HoldInv, LedgerInv, TypeOK
<1>2. /\ queue[s] \in Seq(Events) /\ queue'[s] = Tail(queue[s])
      /\ \A t \in Sinks \ {s} : queue'[t] = queue[t]
  BY <1>1
<1>3. \A t \in Sinks \ {s} : SinkKept(t)
  BY <1>1, <1>2, TransitionOrders DEF SinkKept
<1>4. \A f \in Events \ {e} :
         ledger'[s][f] = ledger[s][f] /\ attempts'[s][f] = attempts[s][f]
  BY <1>1, TransitionOrders
<1>5. QueueOrdered(s) => QueueOrdered(s)'
  BY <1>1, <1>2, <1>4, TailQueueOrdered
<1> QED
  BY <1>1, <1>3, <1>5, TransitionOrders, OneSinkOrdered

(* A leased pair that changes and stays out of the queue.                  *)
LEMMA AnswerOrdered ==
    ASSUME HoldInv, OrderInv, NEW s \in Sinks, NEW e \in Events, inFlight[s][e] # 0,
           NEW to, Transition(s, e, to), queue' = queue, attempts' = attempts
    PROVE  OrderInv'
<1>1. queue \in [Sinks -> Seq(Events)]
  BY DEF HoldInv, LedgerInv, TypeOK
<1>2. \A t \in Sinks \ {s} : SinkKept(t)
  BY TransitionOrders DEF SinkKept
<1>3. ledger[s][e] \in {"Processing", "Retryable"}
  BY TransitionOrders DEF HoldInv, LeaseIsAccounted
<1>4. ASSUME QueueOrdered(s) PROVE QueueOrdered(s)'
  <2>1. e \notin QueuedEvents(s)
    BY <1>3, <1>4 DEF QueueOrdered, QueuedEvents
  <2>2. Served(s, e)
    BY <1>3 DEF Served, FirstAttemptQueued
  <2>3. \A f \in Events : QueuedPairKept(s, f)
    BY <2>1, <2>2, TransitionOrders DEF QueuedPairKept, Served, FirstAttemptQueued
  <2> QED
    BY <1>1, <1>4, <2>3, KeptQueueOrdered
<1> QED
  BY <1>2, <1>4, TransitionOrders, OneSinkOrdered

LEMMA RetryOrdered ==
    ASSUME HoldInv, OrderInv, NEW s \in Sinks, NEW e \in Events, retry(s, e)
    PROVE  OrderInv'
<1>1. /\ Transition(s, e, "Queued") /\ ledger[s][e] = "Retryable"
      /\ attempts' = [attempts EXCEPT ![s][e] = attempts[s][e] + 1]
      /\ queue' = [queue EXCEPT ![s] = Append(queue[s], e)]
      /\ queue \in [Sinks -> Seq(Events)]
      /\ attempts \in [Sinks -> [Events -> Nat]]
  BY DEF retry, PushBack, HoldInv, LedgerInv, TypeOK
<1>2. /\ queue[s] \in Seq(Events) /\ queue'[s] = Append(queue[s], e)
      /\ \A t \in Sinks \ {s} : queue'[t] = queue[t]
  BY <1>1
<1>3. \A t \in Sinks, f \in Events : t # s \/ f # e => attempts'[t][f] = attempts[t][f]
  BY <1>1
<1>4. \A t \in Sinks \ {s} : SinkKept(t)
  BY <1>1, <1>2, <1>3, TransitionOrders DEF SinkKept
<1>5. attempts'[s][e] # 1
  <2>1. attempts[s][e] # 0
    BY <1>1 DEF HoldInv, LedgerInv, AttemptsCounted
  <2>2. attempts[s][e] \in Nat /\ attempts'[s][e] = attempts[s][e] + 1
    BY <1>1
  <2> QED
    BY <2>1, <2>2
<1>6. Served(s, e)
  BY <1>1 DEF Served, FirstAttemptQueued
<1>7. /\ ledger[s][e] # "Queued" /\ ledger'[s][e] = "Queued"
      /\ \A f \in Events \ {e} :
            ledger'[s][f] = ledger[s][f] /\ attempts'[s][f] = attempts[s][f]
  BY <1>1, <1>3, TransitionOrders
<1>8. QueueOrdered(s) => QueueOrdered(s)'
  BY <1>2, <1>5, <1>6, <1>7, AppendedQueueOrdered
<1> QED
  BY <1>1, <1>4, <1>8, TransitionOrders, OneSinkOrdered

LEMMA FailTerminalOrdered ==
    ASSUME HoldInv, OrderInv, NEW s \in Sinks, NEW e \in Events,
           NEW reason \in FailureReasons, fail_terminal(s, e, reason)
    PROVE  OrderInv'
<1>1. /\ queue \in [Sinks -> Seq(Events)]
      /\ ledger \in [Sinks -> [Events -> Dispositions]]
      /\ queue' = [queue EXCEPT ![s] = <<>>] /\ attempts' = attempts
      /\ inFlight[s][e] # 0
  BY DEF HoldInv, LedgerInv, TypeOK, fail_terminal
<1>2. \A t \in Sinks \ {s} : ledger'[t] = ledger[t]
  BY <1>1 DEF fail_terminal
<1>3. \A t \in Sinks \ {s} : SinkKept(t)
  BY <1>1, <1>2 DEF SinkKept
<1>4. queue'[s] = <<>>
  BY <1>1
<1>5. transitions < MaxLedgerTransitions
  <2> DEFINE steps == Cardinality(QueuedAt(s)) + Cardinality(InFlightAt(s))
  <2>1. transitions + steps <= MaxLedgerTransitions
    BY DEF fail_terminal, LedgerRoom
  <2>2. steps \in Nat /\ steps >= 1
    BY <1>1, FailSteps DEF HoldInv, LedgerInv
  <2>3. transitions \in Nat
    BY DEF HoldInv, LedgerInv, TypeOK
  <2> HIDE DEF steps
  <2> QED
    BY <2>1, <2>2, <2>3, BoundAssumption
<1> QED
  BY <1>3, <1>4, <1>5, EmptyQueueOrdered, OneSinkOrdered

(* The retry inside one operation: the pair goes through the queue and is  *)
(* leased again, or the log is full.                                       *)
LEMMA RetryForOperationOrdered ==
    ASSUME HoldInv, OrderInv, NEW s \in Sinks, NEW e \in Events, retry_for_operation(s, e)
    PROVE  OrderInv'
<1>1. /\ ledger \in [Sinks -> [Events -> Dispositions]]
      /\ attempts \in [Sinks -> [Events -> Nat]]
      /\ queue \in [Sinks -> Seq(Events)]
      /\ transitions \in Nat /\ queue' = queue /\ inFlight[s][e] # 0
  BY DEF HoldInv, LedgerInv, TypeOK, retry_for_operation
<1>2. transitions < MaxLedgerTransitions
  BY <1>1, BoundAssumption DEF retry_for_operation, LedgerRoom
<1>3. \A t \in Sinks, f \in Events : t # s \/ f # e => ledger'[t][f] = ledger[t][f]
  <2>1. \E to \in Incomplete : ledger' = [ledger EXCEPT ![s][e] = to]
    BY DEF retry_for_operation
  <2> QED
    BY <1>1, <2>1
<1>4. \A t \in Sinks, f \in Events : t # s \/ f # e => attempts'[t][f] = attempts[t][f]
  <2>1. CASE attempts' = attempts
    BY <2>1
  <2>2. CASE attempts' = [attempts EXCEPT ![s][e] = attempts[s][e] + 1]
    BY <1>1, <2>2
  <2> QED
    BY <2>1, <2>2 DEF retry_for_operation
<1>5. \A t \in Sinks \ {s} : SinkKept(t)
  BY <1>1, <1>3, <1>4 DEF SinkKept
<1>6. ledger[s][e] \in {"Processing", "Retryable"}
  BY <1>1, <1>2 DEF HoldInv, LeaseIsAccounted
<1>7. CASE transitions' = MaxLedgerTransitions
  BY <1>7, BoundAssumption DEF OrderInv
<1>8. CASE \E to \in {"Processing", "Retryable"} : ledger' = [ledger EXCEPT ![s][e] = to]
  <2>1. ASSUME QueueOrdered(s) PROVE QueueOrdered(s)'
    <3>1. e \notin QueuedEvents(s)
      BY <1>6, <2>1 DEF QueueOrdered, QueuedEvents
    <3>2. Served(s, e)
      BY <1>6 DEF Served, FirstAttemptQueued
    <3>3. \A f \in Events : QueuedPairKept(s, f)
      BY <1>3, <1>4, <3>1, <3>2 DEF QueuedPairKept, Served, FirstAttemptQueued
    <3> QED
      BY <1>1, <2>1, <3>3, KeptQueueOrdered
  <2> QED
    BY <1>2, <1>5, <2>1, OneSinkOrdered
<1> QED
  BY <1>1, <1>7, <1>8, BoundAssumption DEF retry_for_operation, LedgerRoom

(* The closing operations empty the queues, or fill the log, or only       *)
(* record pending events.                                                  *)
LEMMA StoppedCloseOrdered ==
    ASSUME HoldInv, OrderInv, Closing({}), UNCHANGED queueVars
    PROVE  OrderInv'
<1> SUFFICES ASSUME transitions' < MaxLedgerTransitions, NEW s \in Sinks
             PROVE  QueueOrdered(s)'
  BY DEF OrderInv
<1>1. queue \in [Sinks -> Seq(Events)] /\ queue' = queue
  BY DEF HoldInv, LedgerInv, TypeOK, queueVars
<1>2. QueueOrdered(s)
  BY BoundAssumption DEF OrderInv, Closing
<1>3. ASSUME NEW f \in Events \ Recorded PROVE QueuedPairKept(s, f)
  <2>1. ledger'[s][f] = ledger[s][f] /\ attempts'[s][f] = attempts[s][f]
    BY DEF Closing, RecordPending
  <2> QED
    BY <2>1 DEF QueuedPairKept, Served, FirstAttemptQueued
<1>4. ASSUME NEW f \in Events, f \in Recorded PROVE QueuedPairKept(s, f)
  <2>1. ledger'[s][f] = "NotAdmitted"
    BY <1>4 DEF Closing
  <2>2. ~InLedger(f)
    BY <1>4 DEF Recorded, Events
  <2>3. f \notin QueuedEvents(s)
    BY <1>2, <2>2 DEF InLedger, QueueOrdered, QueuedEvents
  <2> QED
    BY <2>1, <2>3 DEF QueuedPairKept, Served
<1> QED
  BY <1>1, <1>2, <1>3, <1>4, KeptQueueOrdered

LEMMA CloseOrdered ==
    ASSUME HoldInv, OrderInv, cancel \/ finish
    PROVE  OrderInv'
<1>1. ASSUME NEW closed \in SUBSET OpenKeys, CloseKeys(closed) PROVE OrderInv'
  <2>1. CASE closed = OpenKeys
    <3>1. \A s \in Sinks : queue'[s] = <<>>
      BY <1>1, <2>1 DEF CloseKeys
    <3> QED
      BY <3>1, EmptyQueueOrdered DEF OrderInv
  <2>2. CASE closed # OpenKeys
    <3>1. transitions' = MaxLedgerTransitions
      BY <1>1, <2>2 DEF CloseKeys, Closable
    <3> QED
      BY <3>1, BoundAssumption DEF OrderInv
  <2> QED
    BY <2>1, <2>2
<1>2. CASE CloseStopsAtPending
  BY <1>2, CloseStopsCloses, StoppedCloseOrdered DEF CloseStopsAtPending, HoldInv
<1>3. CASE UNCHANGED <<nextSeq, queueVars, pending, ledgerVars>>
  BY <1>3, QuietOrdered
<1> QED
  BY <1>1, <1>2, <1>3 DEF cancel, finish

LEMMA NextOrdered ==
    ASSUME HoldInv, OrderInv, [Next]_vars
    PROVE  OrderInv'
<1>1. CASE UNCHANGED <<queueVars, ledgerVars>>
  BY <1>1, QuietOrdered
<1>2. CASE start \/ stop_admission \/ flush
  BY <1>1, <1>2 DEF start, stop_admission, flush
<1>3. CASE next_delivery
  BY <1>1, <1>3, LeaseOrdered DEF next_delivery, NoLease
<1>4. CASE cancel \/ finish
  BY <1>4, CloseOrdered
<1>5. ASSUME NEW e \in Events, admit(e) \/ retry_admission(e) PROVE OrderInv'
  BY <1>5, AdmitOrdered
<1>6. ASSUME NEW s \in Sinks, NEW e \in Events,
             \/ \E a \in 1 .. attempts[s][e] : acknowledge(s, e, a)
             \/ diagnosed_drop(s, e)
             \/ fail_retryable(s, e)
      PROVE  OrderInv'
  <2>1. inFlight[s][e] # 0 /\ queue' = queue /\ attempts' = attempts
    BY <1>6 DEF acknowledge, diagnosed_drop, fail_retryable, queueVars
  <2>2. \E to \in Dispositions : Transition(s, e, to)
    BY <1>6 DEF acknowledge, diagnosed_drop, fail_retryable
  <2> QED
    BY <2>1, <2>2, AnswerOrdered
<1>7. ASSUME NEW s \in Sinks, NEW e \in Events,
             \E reason \in FailureReasons : fail_terminal(s, e, reason)
      PROVE  OrderInv'
  BY <1>7, FailTerminalOrdered
<1>8. ASSUME NEW s \in Sinks, NEW e \in Events, retry(s, e) PROVE OrderInv'
  BY <1>8, RetryOrdered
<1>9. ASSUME NEW s \in Sinks, NEW e \in Events, retry_for_operation(s, e) PROVE OrderInv'
  BY <1>9, RetryForOperationOrdered
<1> QED
  BY <1>1, <1>2, <1>3, <1>4, <1>5, <1>6, <1>7, <1>8, <1>9 DEF Next, vars

(* The queues' inductive invariant.                                        *)
THEOREM OrderInvariant == Spec => [](HoldInv /\ OrderInv)
<1>1. Init => OrderInv
  <2>1. Init => \A s \in Sinks : queue[s] = <<>>
    BY DEF Init
  <2> QED
    BY <2>1 DEF OrderInv, QueueOrdered
<1>2. HoldInv /\ OrderInv /\ [Next]_vars => OrderInv'
  BY NextOrdered
<1> QED
  BY <1>1, <1>2, HoldInvariant, PTL DEF Spec

(* Neither a queue nor a lease holds an event the ledger has closed, so    *)
(* nothing is delivered after its verdict (while the log has room).        *)
THEOREM HeldEventsAreOpen == Spec => []HeldIsAccounted
<1>1. HoldInv /\ OrderInv => HeldIsAccounted
  BY DEF HoldInv, LeaseIsAccounted, OrderInv, QueueOrdered, HeldIsAccounted,
         QueuedEvents, InFlightAt
<1> QED
  BY <1>1, OrderInvariant, PTL

(* First attempts leave a sink's queue in run-sequence order, whatever was *)
(* retried, failed or rejected in between.                                 *)
THEOREM FirstAttemptsOrdered == Spec => []FirstAttemptsInOrder
<1>1. HoldInv /\ OrderInv => FirstAttemptsInOrder
  BY DEF OrderInv, QueueOrdered, Served, FirstAttemptsInOrder
<1> QED
  BY <1>1, OrderInvariant, PTL

-----------------------------------------------------------------------------
(* Round-robin arbitration is fair for any number of sinks: a sink's bypass*)
(* count plus its distance from the cursor never exceeds NSinks - 1.       *)

BypassInv ==
    /\ bypass \in [Sinks -> Nat]
    /\ \A t \in Sinks : IF Deliverable(t) THEN bypass[t] + Offset(t) <= NSinks - 1
                                          ELSE bypass[t] = 0

LEMMA DistanceRange ==
    ASSUME NEW c \in Sinks, NEW t \in Sinks
    PROVE  (IF t >= c THEN t - c ELSE t + NSinks - c) \in 0 .. NSinks - 1
BY SinkAssumption DEF Sinks

(* A lease moves the cursor past the served sink, so every sink that was   *)
(* farther away gets closer.                                               *)
LEMMA LeaseMovesCursor ==
    ASSUME NEW s \in Sinks, NEW t \in Sinks, t # s, cursor \in Sinks,
           Offset(s) <= Offset(t), cursor' = IF s + 1 = NSinks THEN 0 ELSE s + 1
    PROVE  Offset(t)' <= Offset(t) - 1
<1>1. cursor \in Int /\ s \in Int /\ t \in Int /\ NSinks \in Int
      /\ 0 <= cursor /\ cursor < NSinks /\ 0 <= s /\ s < NSinks /\ 0 <= t /\ t < NSinks
  BY SinkAssumption DEF Sinks
<1> QED
  BY <1>1 DEF Offset

LEMMA LeaseIsNew ==
    ASSUME HoldInv, NEW s \in Sinks, NEW e \in Events, Lease(s, e)
    PROVE  /\ LeasedTo(s)
           /\ \A t \in Sinks : t # s => ~LeasedTo(t)
<1> USE DEF HoldInv, LedgerInv
<1>1. /\ inFlight \in [Sinks -> [Events -> Nat]]
      /\ inFlight' = [inFlight EXCEPT ![s][e] = attempts[s][e]]
  BY DEF TypeOK, Lease
<1>2. ledger[s][e] = "Queued" /\ transitions < MaxLedgerTransitions
  BY BoundAssumption DEF Lease, Transition, LegalTransition, LedgerRoom, TypeOK
<1>3. inFlight[s][e] = 0
  BY <1>2 DEF LeaseIsAccounted
<1>4. attempts[s][e] # 0
  BY <1>2 DEF AttemptsCounted
<1> QED
  BY <1>1, <1>3, <1>4 DEF LeasedTo

(* Every other step keeps the cursor and makes no lease.                   *)
NoNewLease ==
    /\ cursor' = cursor
    /\ \A s \in Sinks, e \in Events : inFlight[s][e] = 0 => inFlight'[s][e] = 0

LEMMA CloseNoNewLease ==
    ASSUME NEW closed, CloseKeys(closed)
    PROVE  \A s \in Sinks, e \in Events : inFlight[s][e] = 0 => inFlight'[s][e] = 0
<1>1. CASE UNCHANGED queueVars
  BY <1>1 DEF queueVars
<1>2. CASE inFlight' = [s \in Sinks |-> [e \in Events |-> 0]]
  BY <1>2
<1> QED
  BY <1>1, <1>2 DEF CloseKeys

LEMMA OnlyLeaseLeases ==
    ASSUME TypeOK, Next
    PROVE  (\E s \in Sinks, e \in Events : Lease(s, e)) \/ NoNewLease
<1>0. inFlight \in [Sinks -> [Events -> Nat]]
  BY DEF TypeOK
<1>1. CASE start \/ stop_admission \/ flush \/ NoLease
  BY <1>1 DEF start, stop_admission, flush, NoLease, queueVars, NoNewLease
<1>2. CASE next_delivery
  BY <1>1, <1>2 DEF next_delivery
<1>3. CASE cancel
  BY <1>3, CloseNoNewLease DEF cancel, CloseStopsAtPending, queueVars, NoNewLease
<1>4. CASE finish
  BY <1>4, CloseNoNewLease DEF finish, CloseStopsAtPending, queueVars, NoNewLease
<1>5. ASSUME NEW e \in Events, admit(e) \/ retry_admission(e) PROVE NoNewLease
  BY <1>5 DEF admit, retry_admission, Accept, RejectAndFail, RejectAndDrop,
              RecordNotAdmitted, Blocked, queueVars, NoNewLease
<1>6. ASSUME NEW s \in Sinks, NEW e \in Events, cursor' = cursor,
             inFlight' = inFlight \/ inFlight' = [inFlight EXCEPT ![s][e] = 0]
      PROVE  NoNewLease
  <2>1. CASE inFlight' = inFlight
    BY <1>6, <2>1 DEF NoNewLease
  <2>2. CASE inFlight' = [inFlight EXCEPT ![s][e] = 0]
    BY <1>0, <1>6, <2>2 DEF NoNewLease
  <2> QED
    BY <1>6, <2>1, <2>2
<1>7. ASSUME NEW s \in Sinks, NEW e \in Events,
             \E a \in 1 .. attempts[s][e] : acknowledge(s, e, a)
      PROVE  NoNewLease
  BY <1>6, <1>7 DEF acknowledge
<1>8. ASSUME NEW s \in Sinks, NEW e \in Events,
             diagnosed_drop(s, e) \/ fail_retryable(s, e) \/ retry(s, e)
      PROVE  NoNewLease
  <2>1. /\ cursor' = cursor
        /\ inFlight' = inFlight \/ inFlight' = [inFlight EXCEPT ![s][e] = 0]
    BY <1>8 DEF diagnosed_drop, fail_retryable, retry, queueVars
  <2> QED
    BY <1>6, <2>1
<1>9. ASSUME NEW s \in Sinks, NEW e \in Events, NEW reason \in FailureReasons,
             fail_terminal(s, e, reason)
      PROVE  NoNewLease
  <2>1. cursor' = cursor /\ inFlight' = [inFlight EXCEPT ![s] = [f \in Events |-> 0]]
    BY <1>9 DEF fail_terminal
  <2> QED
    BY <1>0, <2>1 DEF NoNewLease
<1>10. ASSUME NEW s \in Sinks, NEW e \in Events, retry_for_operation(s, e)
       PROVE  NoNewLease
  <2>1. cursor' = cursor /\ inFlight[s][e] # 0
    BY <1>10 DEF retry_for_operation
  <2>2. CASE inFlight' = inFlight
    BY <2>1, <2>2 DEF NoNewLease
  <2>3. CASE inFlight' = [inFlight EXCEPT ![s][e] = attempts[s][e] + 1]
    BY <1>0, <2>1, <2>3 DEF NoNewLease
  <2> QED
    BY <1>10, <2>2, <2>3 DEF retry_for_operation
<1> QED
  BY <1>1, <1>2, <1>3, <1>4, <1>5, <1>7, <1>8, <1>9, <1>10 DEF Next

LEMMA BypassStep ==
    ASSUME HoldInv, TypeOK', BypassInv, ArbNext
    PROVE  BypassInv'
<1>1. /\ cursor \in Sinks /\ cursor' \in Sinks /\ bypass \in [Sinks -> Nat]
      /\ NSinks \in Nat \ {0}
  BY SinkAssumption DEF HoldInv, LedgerInv, TypeOK, BypassInv
<1>2. bypass' = [t \in Sinks |->
          IF LeasedTo(t) \/ ~Deliverable(t) \/ ~Deliverable(t)' THEN 0
          ELSE IF \E s \in Sinks : LeasedTo(s) THEN bypass[t] + 1
          ELSE bypass[t]]
  BY DEF ArbNext
<1>3. bypass' \in [Sinks -> Nat]
  <2>1. \A t \in Sinks : bypass[t] \in Nat /\ bypass[t] + 1 \in Nat
    BY <1>1
  <2> QED
    BY <1>2, <2>1
<1>4. \A t \in Sinks : Offset(t) \in 0 .. NSinks - 1 /\ Offset(t)' \in 0 .. NSinks - 1
  BY <1>1, DistanceRange DEF Offset
<1>5. ASSUME NEW t \in Sinks
      PROVE  IF Deliverable(t)' THEN bypass'[t] + Offset(t)' <= NSinks - 1
                                ELSE bypass'[t] = 0
  <2>1. CASE LeasedTo(t) \/ ~Deliverable(t) \/ ~Deliverable(t)'
    <3>1. bypass'[t] = 0
      BY <1>2, <2>1
    <3> QED
      BY <1>1, <1>4, <3>1
  <2>2. CASE ~LeasedTo(t) /\ Deliverable(t) /\ Deliverable(t)'
    <3>1. bypass[t] + Offset(t) <= NSinks - 1 /\ bypass[t] \in Nat
      BY <1>1, <2>2 DEF BypassInv
    <3>2. CASE NoNewLease
      <4>1. \A s \in Sinks : ~LeasedTo(s)
        BY <3>2 DEF NoNewLease, LeasedTo
      <4>2. bypass'[t] = bypass[t]
        BY <1>2, <2>2, <4>1
      <4>3. Offset(t)' = Offset(t)
        BY <3>2 DEF NoNewLease, Offset
      <4> QED
        BY <2>2, <3>1, <4>2, <4>3
    <3>3. ASSUME NEW s \in Sinks, NEW e \in Events, Lease(s, e)
          PROVE  bypass'[t] + Offset(t)' <= NSinks - 1
      <4>1. LeasedTo(s) /\ t # s
        BY <2>2, <3>3, LeaseIsNew
      <4>2. bypass'[t] = bypass[t] + 1
        BY <1>2, <2>2, <4>1
      <4>3. Offset(s) <= Offset(t) /\ cursor' = IF s + 1 = NSinks THEN 0 ELSE s + 1
        BY <2>2, <3>3 DEF Lease, NextSink, CursorAfter
      <4>4. Offset(t)' <= Offset(t) - 1
        BY <1>1, <4>1, <4>3, LeaseMovesCursor
      <4> QED
        BY <1>1, <1>4, <3>1, <4>2, <4>4
    <3>4. TypeOK /\ Next
      BY DEF HoldInv, LedgerInv, ArbNext
    <3> QED
      BY <2>2, <3>2, <3>3, <3>4, OnlyLeaseLeases
  <2> QED
    BY <2>1, <2>2
<1> QED
  BY <1>3, <1>5 DEF BypassInv

(* No sink starves: while it keeps queued work, every other sink is served *)
(* at most once before it, for any number of sinks and any interleaving of *)
(* the router's operations.                                                *)
THEOREM FairArbitration == ArbSpec => []BoundedBypass
<1>1. ArbSpec => Spec
  <2>1. ArbInit => Init
    BY DEF ArbInit
  <2>2. [ArbNext]_arbVars => [Next]_vars
    BY DEF ArbNext, arbVars
  <2> QED
    BY <2>1, <2>2, PTL DEF ArbSpec, Spec
<1>2. ArbInit => BypassInv
  <2> SUFFICES ASSUME ArbInit PROVE BypassInv
    OBVIOUS
  <2>1. /\ bypass = [s \in Sinks |-> 0] /\ \A t \in Sinks : ~Deliverable(t)
    BY DEF ArbInit, Init, Deliverable
  <2> QED
    BY <2>1 DEF BypassInv
<1>3. ASSUME HoldInv, HoldInv', BypassInv, [ArbNext]_arbVars PROVE BypassInv'
  <2>1. CASE ArbNext
    BY <1>3, <2>1, BypassStep DEF HoldInv, LedgerInv
  <2>2. CASE UNCHANGED arbVars
    BY <1>3, <2>2 DEF BypassInv, arbVars, vars, queueVars, Deliverable, Offset
  <2> QED
    BY <1>3, <2>1, <2>2
<1>4. ASSUME HoldInv, BypassInv PROVE BoundedBypass
  <2>1. cursor \in Sinks /\ NSinks \in Nat \ {0}
    BY <1>4, SinkAssumption DEF HoldInv, LedgerInv, TypeOK
  <2>2. \A t \in Sinks : Offset(t) \in 0 .. NSinks - 1 /\ bypass[t] \in Nat
    BY <1>4, <2>1, DistanceRange DEF Offset, BypassInv
  <2> QED
    BY <1>4, <2>1, <2>2 DEF BypassInv, BoundedBypass
<1> QED
  BY <1>1, <1>2, <1>3, <1>4, HoldInvariant, PTL DEF ArbSpec
=============================================================================

------------------------ MODULE ResultDeliveryProofs ------------------------
(***************************************************************************)
(* Proofs about ResultDelivery, for any number of sinks, events and        *)
(* retries and any limits: the engine uses the router only through its     *)
(* operations, a run that reports success has made every event durable, no *)
(* started sink is left open, and with the finalization limits the router  *)
(* derives every run ends accounted for.                                   *)
(***************************************************************************)
EXTENDS ResultDelivery, ResultRouterProofs, WellFoundedInduction

USE DEF Terminal, Incomplete, Dispositions, FailureReasons

-----------------------------------------------------------------------------
(* The inductive invariant, beside the router's own HoldInv.               *)

(* The lease deliver_inner holds is the router's lease of that pair.       *)
LeaseInv ==
    /\ operating => lease # NoDelivery
    /\ lease # NoDelivery =>
         /\ InDelivery /\ lease.event \in Events
         /\ ledger[lease.sink][lease.event] = "Processing"
         /\ inFlight[lease.sink][lease.event] = lease.attempt
         /\ attempts[lease.sink][lease.event] = lease.attempt

(* Attempts are paid for from the shared budget.                           *)
AttemptsInv ==
    \A s \in Sinks, e \in Events : attempts[s][e] <= 1 + RetryAttempts - retriesLeft

(* At most the next event waits for admission.                             *)
PendingInv == DOMAIN pending \subseteq {nextSeq}

WrittenInv == \A s \in Sinks, e \in Events : ledger[s][e] = "Durable" => e \in written[s]

Sampling == {"Idle", "Starting", "Running"}

(* The open pairs of a sink never outnumber its queue's places: nothing is *)
(* leased while events are admitted.                                       *)
CountInv ==
    \A s \in Sinks :
        /\ Cardinality(IncompleteAt(s)) <= MaxItems[s]
        /\ stage \in Sampling => Cardinality(IncompleteAt(s)) <= Len(queue[s])

(* As long as no error was reported, every pair is on its way to being     *)
(* durable, and after the last delivery none is on its way any more.       *)
Sound == ~runError /\ ~finishError /\ stage # "Dropped"

Clean ==
    /\ \A s \in Sinks, e \in Events :
          ledger[s][e] \in {"None", "Queued", "Processing", "Durable"}
    /\ \A s \in Sinks : ~failed[s]
    /\ DOMAIN pending = {}

(* What is in flight is what deliver_inner holds.                          *)
OnlyLease ==
    \A s \in Sinks, e \in Events : inFlight[s][e] # 0 =>
        lease # NoDelivery /\ s = lease.sink /\ e = lease.event

Progress ==
    /\ stage # "Done" => phase \notin {"Cancelled", "Finished", "Failed"}
    /\ stage \in {"Flushing", "Closing", "Ending", "Done"} =>
          \A s \in Sinks : queue[s] = <<>>

SoundInv == Sound => Clean /\ OnlyLease /\ Progress

(* Only finish() records its error.                                        *)
EarlyInv == stage \in Sampling \cup {"Delivering", "Finishing"} => ~finishError

(* The sinks the closing loop has passed are finished, or an error is      *)
(* reported.                                                               *)
SinksInv ==
    /\ stage = "Closing" =>
          \A s \in started : s < todo => sinkState[s] = "finished" \/ finishError
    /\ stage = "Ending" => \A s \in started : sinkState[s] = "finished" \/ finishError
    /\ NoSinkLeaked

EngineInv ==
    /\ HoldInv /\ EngineTypeOK /\ LeaseInv /\ AttemptsInv
    /\ PendingInv /\ WrittenInv /\ CountInv /\ SoundInv /\ EarlyInv /\ SinksInv

-----------------------------------------------------------------------------
(* The engine uses the router only through its operations.                 *)

LEMMA LeastNumber ==
    ASSUME NEW T, T \subseteq Nat, T # {}
    PROVE  \E m \in T : \A k \in T : m <= k
<1> DEFINE R == OpToRel(<, Nat)
<1>1. IsWellFoundedOn(R, Nat)
  BY NatLessThanWellFounded
<1>2. \A x, y \in Nat : x < y => <<x, y>> \in R
  BY DEF OpToRel
<1> HIDE DEF R
<1>3. PICK m \in T : \A k \in T : ~(<<k, m>> \in R)
  BY <1>1, WFMin
<1>4. ASSUME NEW k \in T PROVE m <= k
  <2>1. ~(k < m)
    BY <1>2, <1>3
  <2> QED
    BY <2>1
<1> QED
  BY <1>4

(* If any sink has work, the arbiter finds the one to serve.               *)
LEMMA NextSinkExists ==
    ASSUME TypeOK, \E s \in Sinks : Deliverable(s)
    PROVE  \E s \in Sinks : NextSink(s)
<1> DEFINE T == {Offset(s) : s \in {t \in Sinks : Deliverable(t)}}
<1>1. cursor \in Sinks /\ NSinks \in Nat
  BY SinkAssumption DEF TypeOK
<1>2. \A s \in Sinks : Offset(s) \in Nat
  BY <1>1 DEF Offset, Sinks
<1>3. T \subseteq Nat /\ T # {}
  BY <1>2
<1>4. PICK m \in T : \A k \in T : m <= k
  BY <1>3, LeastNumber
<1>5. PICK s \in Sinks : Deliverable(s) /\ Offset(s) = m
  OBVIOUS
<1>6. \A t \in Sinks : Deliverable(t) => Offset(s) <= Offset(t)
  BY <1>4, <1>5
<1> QED
  BY <1>5, <1>6 DEF NextSink

LEMMA LeaseIsPair ==
    ASSUME EngineTypeOK, LeaseInv, lease # NoDelivery
    PROVE  lease.sink \in Sinks /\ lease.event \in Events /\ lease.attempt \in Nat
BY BoundAssumption DEF EngineTypeOK, LeaseInv

LEMMA RetriesAllowed ==
    ASSUME EngineTypeOK, AttemptsInv, TypeOK, retriesLeft > 0,
           NEW s \in Sinks, NEW e \in Events
    PROVE  attempts[s][e] < MaxAttempts /\ attempts[s][e] \in Nat
<1>1. attempts[s][e] \in Nat /\ retriesLeft \in Nat
  BY RetryAssumption DEF TypeOK, EngineTypeOK
<1>2. attempts[s][e] <= 1 + RetryAttempts - retriesLeft
  BY DEF AttemptsInv
<1> QED
  BY <1>1, <1>2, RetryAssumption, BoundAssumption

LEMMA TryCancelSteps ==
    ASSUME TryCancel
    PROVE  cancel \/ UNCHANGED vars
BY DEF TryCancel

LEMMA FailureSteps ==
    ASSUME EngineInv, Processing, NEW reason \in FailureReasons, FailDelivery(reason)
    PROVE  [Next]_vars
<1>1. lease.sink \in Sinks /\ lease.event \in Events
  BY LeaseIsPair DEF EngineInv, LeaseInv, Processing
<1> QED
  BY <1>1 DEF FailDelivery, Next

(* Every step of the run is a step of the router or leaves it alone.       *)
LEMMA StepRefinesRouter ==
    ASSUME EngineInv, [EngineNext]_allVars
    PROVE  [Next]_vars
<1>1. CASE UNCHANGED allVars
  BY <1>1 DEF allVars
<1>2. CASE StartRouter
  BY <1>2 DEF StartRouter, Next
<1>3. CASE StartSink \/ EndSampling \/ BeginOperation \/ OperationRefused \/ FlushSink
           \/ FinishSink \/ RequestCancel
  BY <1>3 DEF StartSink, EndSampling, BeginOperation, OperationRefused, FlushSink,
              FinishSink, CloseSink, RequestCancel
<1>4. CASE StartSinkFails \/ DropEngine
  BY <1>4, TryCancelSteps DEF StartSinkFails, DropEngine, Next
<1>5. ASSUME NEW e \in Events, AdmitResult(e) PROVE [Next]_vars
  BY <1>5 DEF AdmitResult, Next
<1>6. ASSUME NEW s \in Sinks, NEW e \in Events, TakeLease(s, e) PROVE [Next]_vars
  BY <1>6 DEF TakeLease, next_delivery, Next
<1>7. CASE NothingToLease
  <2>1. CASE phase = "AdmissionStopped"
    <3>1. phase' = "Draining" /\ ~CanLease
          /\ UNCHANGED <<nextSeq, cursor, budget, queueVars, failed, pending, ledgerVars>>
      BY <1>7, <2>1 DEF NothingToLease, DrainPhase
    <3>2. CASE \A s \in Sinks : ~Deliverable(s)
      BY <2>1, <3>1, <3>2 DEF NoLease, next_delivery, Next
    <3>3. CASE \E s \in Sinks : Deliverable(s)
      <4>1. PICK s \in Sinks : NextSink(s)
        BY <3>3, NextSinkExists DEF EngineInv, HoldInv, LedgerInv
      <4>2. ~LedgerRoom(1) \/ ledger[s][Head(queue[s])] # "Queued"
        BY <3>1, <4>1 DEF CanLease
      <4> QED
        BY <2>1, <3>1, <4>1, <4>2 DEF NoLease, next_delivery, Next
    <3> QED
      BY <3>2, <3>3
  <2>2. CASE phase # "AdmissionStopped"
    BY <1>7, <2>2 DEF NothingToLease, DrainPhase, vars
  <2> QED
    BY <2>1, <2>2
<1>8. CASE SinkAcknowledges
  <2>1. CASE acknowledge(lease.sink, lease.event, lease.attempt)
    <3>1. lease.sink \in Sinks /\ lease.event \in Events /\ lease.attempt \in Nat
      BY <1>8, LeaseIsPair DEF EngineInv, LeaseInv, SinkAcknowledges, Processing
    <3>2. /\ lease.attempt # 0 /\ attempts[lease.sink][lease.event] = lease.attempt
      BY <2>1 DEF acknowledge
    <3>3. lease.attempt \in 1 .. attempts[lease.sink][lease.event]
      BY <3>1, <3>2
    <3> QED
      BY <2>1, <3>1, <3>3 DEF Next
  <2> QED
    BY <1>8, <2>1 DEF SinkAcknowledges
<1>9. CASE SinkRetries
  <2>1. lease.sink \in Sinks /\ lease.event \in Events
    BY <1>9, LeaseIsPair DEF EngineInv, LeaseInv, SinkRetries, Processing
  <2>2. attempts[lease.sink][lease.event] < MaxAttempts
    BY <1>9, <2>1, RetriesAllowed DEF EngineInv, HoldInv, LedgerInv, SinkRetries
  <2> QED
    BY <1>9, <2>1, <2>2 DEF SinkRetries, Next
<1>10. CASE OperationExpires
  BY <1>10, FailureSteps DEF OperationExpires
<1>11. ASSUME NEW reason \in FailureReasons, SinkFails(reason) PROVE [Next]_vars
  BY <1>11, FailureSteps DEF SinkFails
<1>12. CASE BeginFinish
  BY <1>12 DEF BeginFinish, StopRouter, Next
<1>13. CASE EndFinish
  BY <1>13, TryCancelSteps DEF EndFinish, Next
<1> QED
  BY <1>1, <1>2, <1>3, <1>4, <1>5, <1>6, <1>7, <1>8, <1>9, <1>10, <1>11, <1>12, <1>13
     DEF EngineNext, Engine, Deliver

-----------------------------------------------------------------------------
(* The engine's own variables.                                             *)

LEMMA LeaveKeepsTypes ==
    ASSUME EngineTypeOK, NEW err \in BOOLEAN, LeaveDelivery(err), InDelivery,
           written' \in [Sinks -> SUBSET Events], retriesLeft' \in 0 .. RetryAttempts
    PROVE  EngineTypeOK'
<1>1. NoDelivery \in [sink : Sinks, event : 0 .. MaxEvents, attempt : 0 .. MaxAttempts]
  BY SinkAssumption, BoundAssumption DEF NoDelivery, Sinks
<1> QED
  BY <1>1 DEF EngineTypeOK, LeaveDelivery, Stages

LEMMA WriteKeepsTypes ==
    ASSUME EngineTypeOK, LeaseInv, lease # NoDelivery,
           \/ written' = written
           \/ written' = [written EXCEPT ![lease.sink] = @ \cup {lease.event}]
    PROVE  written' \in [Sinks -> SUBSET Events]
BY LeaseIsPair DEF EngineTypeOK

LEMMA TypesKept ==
    ASSUME EngineInv, [EngineNext]_allVars
    PROVE  EngineTypeOK'
<1> USE DEF EngineInv
<1>1. CASE UNCHANGED allVars
  BY <1>1 DEF allVars, engineVars, EngineTypeOK
<1>2. CASE StartRouter \/ EndSampling \/ BeginOperation \/ RequestCancel
  BY <1>2 DEF StartRouter, EndSampling, BeginOperation, RequestCancel, EngineTypeOK, Stages
<1>3. CASE StartSink
  <2>1. todo' \in Sinks
    BY <1>3, SinkAssumption DEF StartSink, LastSink, Sinks, EngineTypeOK
  <2> QED
    BY <1>3, <2>1 DEF StartSink, EngineTypeOK, Stages
<1>4. CASE FlushSink \/ FinishSink
  <2>1. todo' \in Sinks
    BY <1>4, SinkAssumption DEF FlushSink, FinishSink, CloseSink, LastSink, Sinks, EngineTypeOK
  <2>2. sinkState' \in [Sinks -> {"idle", "open", "flushed", "finished", "cancelled"}]
    BY <1>4 DEF FlushSink, FinishSink, CloseSink, EngineTypeOK
  <2> QED
    BY <1>4, <2>1, <2>2 DEF FlushSink, FinishSink, CloseSink, EngineTypeOK, Stages
<1>5. CASE StartSinkFails
  BY <1>5 DEF StartSinkFails, CancelStarted, EngineTypeOK, Stages
<1>6. CASE DropEngine
  <2>1. NoDelivery \in [sink : Sinks, event : 0 .. MaxEvents, attempt : 0 .. MaxAttempts]
    BY SinkAssumption, BoundAssumption DEF NoDelivery, Sinks
  <2> QED
    BY <1>6, <2>1 DEF DropEngine, CancelStarted, EngineTypeOK, Stages
<1>7. ASSUME NEW e \in Events, AdmitResult(e) PROVE EngineTypeOK'
  BY <1>7 DEF AdmitResult, EngineTypeOK
<1>8. ASSUME NEW s \in Sinks, NEW e \in Events, TakeLease(s, e) PROVE EngineTypeOK'
  <2>1. attempts[s][e] \in Nat /\ retriesLeft \in Nat
    BY RetryAssumption DEF HoldInv, LedgerInv, TypeOK, EngineTypeOK
  <2>2. attempts[s][e] \in 0 .. MaxAttempts
    BY <2>1, RetryAssumption, BoundAssumption DEF AttemptsInv
  <2>3. e \in 0 .. MaxEvents
    BY BoundAssumption DEF Events
  <2>4. lease' \in [sink : Sinks, event : 0 .. MaxEvents, attempt : 0 .. MaxAttempts]
    BY <1>8, <2>2, <2>3 DEF TakeLease
  <2> QED
    BY <1>8, <2>4 DEF TakeLease, EngineTypeOK
<1>9. CASE NothingToLease
  <2>1. ASSUME NEW err \in BOOLEAN, LeaveDelivery(err) PROVE EngineTypeOK'
    BY <1>9, <2>1, LeaveKeepsTypes DEF NothingToLease, EngineTypeOK
  <2> QED
    BY <1>9, <2>1 DEF NothingToLease
<1>10. CASE OperationRefused
  BY <1>10, LeaveKeepsTypes DEF OperationRefused, EngineTypeOK
<1>11. CASE SinkAcknowledges
  <2>1. InDelivery /\ lease # NoDelivery /\ retriesLeft' = retriesLeft
    BY <1>11 DEF SinkAcknowledges, Processing, LeaseInv
  <2>2. written' \in [Sinks -> SUBSET Events]
    BY <1>11, <2>1, WriteKeepsTypes DEF SinkAcknowledges
  <2>3. CASE LeaveDelivery(TRUE)
    BY <2>1, <2>2, <2>3, LeaveKeepsTypes DEF EngineTypeOK
  <2>4. CASE /\ lease' = NoDelivery /\ operating' = FALSE
             /\ UNCHANGED <<stage, todo, started, sinkState, cancelled, runError, finishError>>
    <3>1. NoDelivery \in [sink : Sinks, event : 0 .. MaxEvents, attempt : 0 .. MaxAttempts]
      BY SinkAssumption, BoundAssumption DEF NoDelivery, Sinks
    <3> QED
      BY <2>1, <2>2, <2>4, <3>1 DEF EngineTypeOK
  <2> QED
    BY <1>11, <2>3, <2>4 DEF SinkAcknowledges
<1>12. CASE SinkRetries
  <2>1. /\ InDelivery /\ lease # NoDelivery /\ written' = written
        /\ lease.sink \in Sinks /\ lease.event \in Events
    BY <1>12, LeaseIsPair DEF SinkRetries, Processing, LeaseInv
  <2>2. retriesLeft' \in 0 .. RetryAttempts
    BY <1>12, RetryAssumption DEF SinkRetries, EngineTypeOK
  <2>3. CASE LeaveDelivery(TRUE)
    BY <2>1, <2>2, <2>3, LeaveKeepsTypes DEF EngineTypeOK
  <2>4. CASE /\ lease' = [lease EXCEPT !.attempt = attempts[lease.sink][lease.event] + 1]
             /\ UNCHANGED <<stage, todo, operating, started, sinkState, cancelled,
                            runError, finishError>>
    <3>1. attempts[lease.sink][lease.event] + 1 \in 0 .. MaxAttempts
      BY <1>12, <2>1, RetriesAllowed, BoundAssumption DEF HoldInv, LedgerInv, SinkRetries
    <3>2. lease' \in [sink : Sinks, event : 0 .. MaxEvents, attempt : 0 .. MaxAttempts]
      BY <2>4, <3>1 DEF EngineTypeOK
    <3> QED
      BY <2>1, <2>2, <2>4, <3>2 DEF EngineTypeOK
  <2> QED
    BY <1>12, <2>3, <2>4 DEF SinkRetries
<1>13. ASSUME Processing, NEW reason \in FailureReasons, FailDelivery(reason),
              retriesLeft' = retriesLeft,
              \/ written' = written
              \/ written' = [written EXCEPT ![lease.sink] = @ \cup {lease.event}]
       PROVE  EngineTypeOK'
  <2>1. InDelivery /\ lease # NoDelivery /\ LeaveDelivery(TRUE)
    BY <1>13 DEF Processing, LeaseInv, FailDelivery
  <2> QED
    BY <1>13, <2>1, WriteKeepsTypes, LeaveKeepsTypes DEF EngineTypeOK
<1>14. CASE OperationExpires
  BY <1>13, <1>14 DEF OperationExpires
<1>15. ASSUME NEW reason \in FailureReasons, SinkFails(reason) PROVE EngineTypeOK'
  BY <1>13, <1>15 DEF SinkFails
<1>16. CASE BeginFinish
  <2>1. 0 \in Sinks
    BY SinkAssumption DEF Sinks
  <2>2. finishError' \in BOOLEAN
    <3>1. finishError' = (phase \in {"New", "Cancelled", "Failed"}) \/ finishError' = TRUE
      BY <1>16, Zenon DEF BeginFinish
    <3>2. (phase \in {"New", "Cancelled", "Failed"}) \in BOOLEAN
      OBVIOUS
    <3> QED
      BY <3>1, <3>2, Zenon
  <2> QED
    BY <1>16, <2>1, <2>2 DEF BeginFinish, EngineTypeOK, Stages
<1>17. CASE EndFinish
  <2>1. sinkState' \in [Sinks -> {"idle", "open", "flushed", "finished", "cancelled"}]
    BY <1>17 DEF EndFinish, CancelStarted, EngineTypeOK
  <2>2. finishError' \in BOOLEAN
    BY <1>17 DEF EndFinish, EngineTypeOK
  <2> QED
    BY <1>17, <2>1, <2>2 DEF EndFinish, EngineTypeOK, Stages
<1> QED
  BY <1>1, <1>2, <1>3, <1>4, <1>5, <1>6, <1>7, <1>8, <1>9, <1>10, <1>11, <1>12, <1>14,
     <1>15, <1>16, <1>17
     DEF EngineNext, Engine, Deliver

(* The loops over the sinks pass each of them.                             *)
LEMMA SinksKept ==
    ASSUME EngineInv, [EngineNext]_allVars
    PROVE  SinksInv'
<1>1. /\ todo \in Sinks /\ started \subseteq Sinks
      /\ sinkState \in [Sinks -> {"idle", "open", "flushed", "finished", "cancelled"}]
      /\ Sinks \subseteq Int /\ NSinks \in Int
      /\ SinksInv /\ LeaseInv
  BY SinkAssumption DEF EngineInv, EngineTypeOK, Sinks
<1>2. CASE UNCHANGED <<stage, todo, started, sinkState, finishError>>
  BY <1>1, <1>2 DEF SinksInv, NoSinkLeaked
<1>3. CASE stage' \notin {"Closing", "Ending", "Done", "Dropped"}
  BY <1>3 DEF SinksInv, NoSinkLeaked
<1>4. CASE StartRouter \/ EndSampling \/ BeginOperation \/ RequestCancel \/ StartSink
           \/ StartSinkFails
  BY <1>2, <1>3, <1>4 DEF StartRouter, EndSampling, BeginOperation, RequestCancel,
                          StartSink, StartSinkFails
<1>5. ASSUME NEW err, LeaveDelivery(err), InDelivery PROVE SinksInv'
  BY <1>3, <1>5 DEF LeaveDelivery, InDelivery
<1>6. CASE Deliver
  <2>1. ASSUME NEW s \in Sinks, NEW e \in Events, TakeLease(s, e) PROVE SinksInv'
    BY <1>2, <2>1 DEF TakeLease
  <2>2. CASE NothingToLease \/ OperationRefused
    BY <1>5, <2>2 DEF NothingToLease, OperationRefused
  <2>3. CASE SinkAcknowledges \/ SinkRetries
    BY <1>2, <1>5, <2>3 DEF SinkAcknowledges, SinkRetries, Processing
  <2>4. CASE OperationExpires \/ \E reason \in FailureReasons : SinkFails(reason)
    BY <1>5, <2>4 DEF OperationExpires, SinkFails, FailDelivery, Processing
  <2> QED
    BY <1>4, <1>6, <2>1, <2>2, <2>3, <2>4 DEF Deliver
<1>7. CASE BeginFinish
  BY <1>7 DEF BeginFinish, SinksInv, NoSinkLeaked
<1>8. CASE FlushSink
  <2>1. stage' = "Flushing" \/ (stage' = "Closing" /\ todo' = 0)
    BY <1>8 DEF FlushSink, CloseSink
  <2> QED
    BY <1>1, <1>8, <2>1 DEF SinksInv, NoSinkLeaked, FlushSink, CloseSink, Sinks
<1>9. CASE FinishSink
  <2>1. /\ stage = "Closing" /\ started' = started
        /\ \/ stage' = "Ending" /\ todo + 1 = NSinks
           \/ stage' = "Closing" /\ todo' = todo + 1
    BY <1>9 DEF FinishSink, CloseSink, LastSink
  <2>2. \A s \in started : s < todo + 1 => sinkState'[s] = "finished" \/ finishError'
    <3>1. CASE finishError'
      BY <3>1
    <3>2. CASE sinkState' = [sinkState EXCEPT ![todo] = "finished"] /\ finishError' = finishError
      BY <1>1, <2>1, <3>2 DEF SinksInv
    <3>3. CASE todo \notin started /\ UNCHANGED <<sinkState, finishError>>
      BY <1>1, <2>1, <3>3 DEF SinksInv
    <3> QED
      BY <1>9, <3>1, <3>2, <3>3 DEF FinishSink, CloseSink
  <2> QED
    BY <1>1, <2>1, <2>2 DEF SinksInv, NoSinkLeaked, Sinks
<1>10. CASE EndFinish
  BY <1>1, <1>10 DEF EndFinish, CancelStarted, SinksInv, NoSinkLeaked
<1>11. CASE DropEngine
  BY <1>1, <1>11 DEF DropEngine, CancelStarted, SinksInv, NoSinkLeaked
<1>12. ASSUME NEW e \in Events, AdmitResult(e) PROVE SinksInv'
  BY <1>2, <1>12 DEF AdmitResult
<1> QED
  BY <1>2, <1>4, <1>6, <1>7, <1>8, <1>9, <1>10, <1>11, <1>12
     DEF EngineNext, Engine, allVars, engineVars

LEMMA EarlyKept ==
    ASSUME EngineInv, [EngineNext]_allVars
    PROVE  EarlyInv'
<1> USE DEF EngineInv, Sampling
<1>1. CASE stage' \notin Sampling \cup {"Delivering", "Finishing"}
  BY <1>1 DEF EarlyInv
<1>2. CASE /\ finishError' = finishError
           /\ stage \in Sampling \cup {"Delivering", "Finishing"}
  BY <1>2 DEF EarlyInv
<1>3. CASE UNCHANGED <<stage, finishError>>
  BY <1>3 DEF EarlyInv
<1>4. CASE StartRouter \/ EndSampling \/ BeginOperation \/ RequestCancel \/ StartSink
           \/ StartSinkFails
  BY <1>2, <1>3, <1>4 DEF StartRouter, EndSampling, BeginOperation, RequestCancel,
                          StartSink, StartSinkFails
<1>5. ASSUME NEW err, LeaveDelivery(err), InDelivery PROVE EarlyInv'
  BY <1>1, <1>2, <1>5 DEF LeaveDelivery, InDelivery
<1>6. CASE Deliver
  <2>1. ASSUME NEW s \in Sinks, NEW e \in Events, TakeLease(s, e) PROVE EarlyInv'
    BY <1>3, <2>1 DEF TakeLease
  <2>2. CASE NothingToLease \/ OperationRefused
    BY <1>5, <2>2 DEF NothingToLease, OperationRefused
  <2>3. CASE SinkAcknowledges \/ SinkRetries
    BY <1>3, <1>5, <2>3 DEF SinkAcknowledges, SinkRetries, Processing
  <2>4. CASE OperationExpires \/ \E reason \in FailureReasons : SinkFails(reason)
    BY <1>5, <2>4 DEF OperationExpires, SinkFails, FailDelivery, Processing
  <2> QED
    BY <1>4, <1>6, <2>1, <2>2, <2>3, <2>4 DEF Deliver
<1>7. CASE BeginFinish \/ FlushSink \/ FinishSink \/ EndFinish \/ DropEngine
  BY <1>1, <1>7 DEF BeginFinish, FlushSink, FinishSink, CloseSink, EndFinish, DropEngine
<1>8. ASSUME NEW e \in Events, AdmitResult(e) PROVE EarlyInv'
  BY <1>3, <1>8 DEF AdmitResult
<1> QED
  BY <1>3, <1>4, <1>6, <1>7, <1>8 DEF EngineNext, Engine, allVars, engineVars

-----------------------------------------------------------------------------
(* What each operation of the router does to the pairs, as the engine uses *)
(* it.                                                                     *)

(* An operation that leaves ledger, queues and admissions alone.           *)
Quiet == UNCHANGED <<ledger, attempts, queue, inFlight, pending, nextSeq, failed>>

LEMMA QuietSteps ==
    ASSUME \/ UNCHANGED vars
           \/ UNCHANGED <<nextSeq, cursor, budget, queueVars, failed, pending, ledgerVars>>
    PROVE  Quiet
BY DEF Quiet, vars, queueVars, ledgerVars

(* cancel and finish: nothing, or a closing pass over the ledger.          *)
ClosedBy(closed) ==
    /\ Closing(closed)
    /\ \/ queue' = queue /\ inFlight' = inFlight
       \/ /\ queue' = [s \in Sinks |-> <<>>]
          /\ inFlight' = [s \in Sinks |-> [e \in Events |-> 0]]

LEMMA ClosingOperations ==
    ASSUME HoldInv, cancel \/ finish
    PROVE  Quiet \/ \E closed \in SUBSET OpenKeys : ClosedBy(closed)
<1>1. UNCHANGED failed
  BY DEF cancel, finish
<1>2. ASSUME NEW closed \in SUBSET OpenKeys, CloseKeys(closed) PROVE ClosedBy(closed)
  <2>1. Closing(closed)
    BY <1>2, CloseKeysCloses DEF HoldInv
  <2> QED
    BY <1>2, <2>1 DEF ClosedBy, CloseKeys, queueVars
<1>3. CASE CloseStopsAtPending
  <2>1. Closing({}) /\ {} \in SUBSET OpenKeys
    BY <1>3, CloseStopsCloses DEF HoldInv
  <2> QED
    BY <1>3, <2>1 DEF ClosedBy, CloseStopsAtPending, queueVars
<1>4. CASE UNCHANGED <<nextSeq, queueVars, pending, ledgerVars>>
  BY <1>1, <1>4 DEF Quiet, queueVars, ledgerVars
<1> QED
  BY <1>2, <1>3, <1>4 DEF cancel, finish

(* What a closing pass does to a pair.                                     *)
LEMMA ClosedPairs ==
    ASSUME HoldInv, NEW closed, ClosedBy(closed)
    PROVE  /\ DOMAIN pending' = {}
           /\ \A s \in Sinks, e \in Events :
                 /\ ledger'[s][e] \in {ledger[s][e], "Cancelled", "NotAdmitted"}
                 /\ attempts'[s][e] \in {attempts[s][e], 1}
<1>1. Closing(closed) /\ RecordPending
  BY DEF ClosedBy, Closing
<1>2. DOMAIN pending' = {}
  BY <1>1 DEF RecordPending
<1>3. \A s \in Sinks, e \in Events : attempts'[s][e] \in {attempts[s][e], 1}
  BY <1>1 DEF RecordPending
<1> QED
  BY <1>1, <1>2, <1>3 DEF Closing

(* admit: the event enters everywhere alike, or waits.                     *)
LEMMA AdmitPairs ==
    ASSUME HoldInv, PendingInv, NEW e \in Events, admit(e)
    PROVE  /\ failed' = failed /\ inFlight' = inFlight
           /\ \/ /\ SelectAll(e, "Queued") /\ Accept(e)
                 /\ DOMAIN pending' = {} /\ phase' = phase
              \/ /\ SelectAll(e, "NotAdmitted") /\ queue' = queue
                 /\ DOMAIN pending' = {}
              \/ /\ UNCHANGED <<ledger, attempts, queue, nextSeq>>
                 /\ DOMAIN pending' = {e} /\ ledger[0][e] = "None"
<1>1. e = nextSeq /\ e \notin DOMAIN pending /\ DOMAIN pending = {}
  BY DEF admit, PendingInv
<1>2. failed' = failed /\ inFlight' = inFlight
  BY DEF admit, Accept, RejectAndFail, RejectAndDrop, RecordNotAdmitted, Blocked, queueVars
<1>3. pending' = Without(e) => DOMAIN pending' = {}
  BY <1>1 DEF Without
<1>4. CASE Accept(e)
  BY <1>2, <1>3, <1>4 DEF Accept
<1>5. CASE RejectAndFail(e, budget) \/ (RejectAndDrop(e) /\ pending' = Without(e))
  BY <1>2, <1>3, <1>5 DEF RejectAndFail, RejectAndDrop, RecordNotAdmitted, queueVars
<1>6. CASE \E s \in Sinks :
             /\ Blocked(s, e, budget)
             /\ pending' = With(e, [sink |-> s, attempts |-> 0])
  <2>1. DOMAIN pending' = {e}
    BY <1>1, <1>6 DEF With
  <2>2. 0 \in Sinks
    BY SinkAssumption DEF Sinks
  <2>3. ledger[0][e] = "None"
    BY <1>1, <2>2 DEF HoldInv, LedgerInv, AdmissionIsAtomic, Events
  <2> QED
    BY <1>2, <1>6, <2>1, <2>3 DEF Blocked, queueVars, ledgerVars
<1> QED
  BY <1>4, <1>5, <1>6 DEF admit

(* The lease, the answer, the retry and the failure move the leased pairs. *)
LEMMA LeasePairs ==
    ASSUME HoldInv, NEW s \in Sinks, NEW e \in Events, Lease(s, e)
    PROVE  /\ ledger'[s][e] = "Processing" /\ inFlight'[s][e] = attempts[s][e]
           /\ \A t \in Sinks, f \in Events : t # s \/ f # e =>
                 ledger'[t][f] = ledger[t][f] /\ inFlight'[t][f] = inFlight[t][f]
           /\ UNCHANGED <<attempts, pending, nextSeq, failed>>
<1>1. /\ TypeOK /\ inFlight \in [Sinks -> [Events -> Nat]]
      /\ Transition(s, e, "Processing")
      /\ inFlight' = [inFlight EXCEPT ![s][e] = attempts[s][e]]
  BY DEF HoldInv, LedgerInv, TypeOK, Lease
<1>2. \A t \in Sinks, f \in Events : t # s \/ f # e => inFlight'[t][f] = inFlight[t][f]
  BY <1>1
<1>3. inFlight'[s][e] = attempts[s][e]
  BY <1>1
<1> QED
  BY <1>1, <1>2, <1>3, TransitionMoves DEF Lease

LEMMA AnswerPairs ==
    ASSUME HoldInv, NEW s \in Sinks, NEW e \in Events, NEW a, acknowledge(s, e, a)
    PROVE  /\ ledger'[s][e] = "Durable" /\ inFlight'[s][e] = 0
           /\ \A t \in Sinks, f \in Events : t # s \/ f # e =>
                 ledger'[t][f] = ledger[t][f] /\ inFlight'[t][f] = inFlight[t][f]
           /\ UNCHANGED <<attempts, pending, nextSeq, failed, queue, phase>>
<1>1. /\ TypeOK /\ inFlight \in [Sinks -> [Events -> Nat]]
      /\ Transition(s, e, "Durable")
      /\ inFlight' = [inFlight EXCEPT ![s][e] = 0]
  BY DEF HoldInv, LedgerInv, TypeOK, acknowledge
<1>2. \A t \in Sinks, f \in Events : t # s \/ f # e => inFlight'[t][f] = inFlight[t][f]
  BY <1>1
<1>3. inFlight'[s][e] = 0
  BY <1>1
<1> QED
  BY <1>1, <1>2, <1>3, TransitionMoves DEF acknowledge

LEMMA RetryPairs ==
    ASSUME HoldInv, NEW s \in Sinks, NEW e \in Events, retry_for_operation(s, e)
    PROVE  /\ ledger'[s][e] \in Incomplete
           /\ attempts'[s][e] \in {attempts[s][e], attempts[s][e] + 1}
           /\ LedgerRoom(3) =>
                 /\ ledger'[s][e] = "Processing"
                 /\ attempts'[s][e] = attempts[s][e] + 1
                 /\ inFlight'[s][e] = attempts[s][e] + 1
           /\ \A t \in Sinks, f \in Events : t # s \/ f # e =>
                 /\ ledger'[t][f] = ledger[t][f]
                 /\ attempts'[t][f] = attempts[t][f]
                 /\ inFlight'[t][f] = inFlight[t][f]
           /\ UNCHANGED <<pending, nextSeq, failed, queue, phase>>
<1>1. /\ ledger \in [Sinks -> [Events -> Dispositions]]
      /\ inFlight \in [Sinks -> [Events -> Nat]]
      /\ attempts \in [Sinks -> [Events -> Nat]]
  BY DEF HoldInv, LedgerInv, TypeOK
<1>2. \E to \in Incomplete : ledger' = [ledger EXCEPT ![s][e] = to]
  BY DEF retry_for_operation
<1>3. \/ attempts' = attempts
      \/ attempts' = [attempts EXCEPT ![s][e] = attempts[s][e] + 1]
  BY DEF retry_for_operation
<1>4. \/ inFlight' = inFlight
      \/ inFlight' = [inFlight EXCEPT ![s][e] = attempts[s][e] + 1]
  BY DEF retry_for_operation
<1>5. ASSUME LedgerRoom(3)
      PROVE  /\ ledger' = [ledger EXCEPT ![s][e] = "Processing"]
             /\ attempts' = [attempts EXCEPT ![s][e] = attempts[s][e] + 1]
             /\ inFlight' = [inFlight EXCEPT ![s][e] = attempts[s][e] + 1]
  <2>1. LedgerRoom(2)
    BY <1>5, BoundAssumption DEF LedgerRoom, HoldInv, LedgerInv, TypeOK
  <2> QED
    BY <1>5, <2>1 DEF retry_for_operation
<1>6. /\ ledger'[s][e] \in Incomplete
      /\ \A t \in Sinks, f \in Events : t # s \/ f # e => ledger'[t][f] = ledger[t][f]
  BY <1>1, <1>2
<1>7. /\ attempts'[s][e] \in {attempts[s][e], attempts[s][e] + 1}
      /\ \A t \in Sinks, f \in Events : t # s \/ f # e => attempts'[t][f] = attempts[t][f]
  BY <1>1, <1>3
<1>8. \A t \in Sinks, f \in Events : t # s \/ f # e => inFlight'[t][f] = inFlight[t][f]
  BY <1>1, <1>4
<1>9. LedgerRoom(3) => /\ ledger'[s][e] = "Processing"
                       /\ attempts'[s][e] = attempts[s][e] + 1
                       /\ inFlight'[s][e] = attempts[s][e] + 1
  BY <1>1, <1>5
<1> QED
  BY <1>6, <1>7, <1>8, <1>9 DEF retry_for_operation

LEMMA FailurePairs ==
    ASSUME HoldInv, NEW s \in Sinks, NEW e \in Events, NEW reason \in FailureReasons,
           fail_terminal(s, e, reason)
    PROVE  /\ \A t \in Sinks, f \in Events :
                 ledger'[t][f] \in {ledger[t][f]} \cup FailureReasons
           /\ UNCHANGED <<attempts, pending, nextSeq>>
<1>1. ledger \in [Sinks -> [Events -> Dispositions]]
  BY DEF HoldInv, LedgerInv, TypeOK
<1>2. \A t \in Sinks \ {s} : ledger'[t] = ledger[t]
  BY <1>1 DEF fail_terminal
<1>3. \A f \in Events : ledger'[s][f] =
        CASE f = e              -> reason
          [] f \in QueuedAt(s)  -> "Permanent"
          [] f \in InFlightAt(s) \ {e} -> "UnknownOutcome"
          [] OTHER              -> ledger[s][f]
  BY <1>1 DEF fail_terminal
<1> QED
  BY <1>2, <1>3 DEF fail_terminal

(* FailDelivery on the engine's lease.                                     *)
LEMMA FailDeliveryPairs ==
    ASSUME EngineInv, Processing, NEW reason \in FailureReasons, FailDelivery(reason)
    PROVE  /\ \A t \in Sinks, f \in Events :
                 ledger'[t][f] \in {ledger[t][f]} \cup FailureReasons
           /\ UNCHANGED <<attempts, pending, nextSeq>>
           /\ LeaveDelivery(TRUE)
<1>1. lease.sink \in Sinks /\ lease.event \in Events
  BY LeaseIsPair DEF EngineInv, LeaseInv, Processing
<1>2. CASE fail_terminal(lease.sink, lease.event, reason)
  BY <1>1, <1>2, FailurePairs DEF FailDelivery, EngineInv
<1>3. CASE UNCHANGED vars
  BY <1>3 DEF FailDelivery, vars, ledgerVars
<1> QED
  BY <1>2, <1>3 DEF FailDelivery

-----------------------------------------------------------------------------
(* Every step keeps the invariant: one lemma for each part.                *)

(* A refusal to cancel changes nothing.                                    *)
LEMMA TryCancelPairs ==
    ASSUME HoldInv, TryCancel
    PROVE  Quiet \/ \E closed \in SUBSET OpenKeys : ClosedBy(closed)
BY TryCancelSteps, QuietSteps, ClosingOperations

(* The steps that leave the pairs alone, and those that close.             *)
QuietAction ==
    \/ UNCHANGED allVars
    \/ StartRouter \/ StartSink \/ EndSampling \/ NothingToLease \/ BeginOperation
    \/ OperationRefused \/ BeginFinish \/ FlushSink \/ FinishSink \/ RequestCancel

CloseAction == StartSinkFails \/ EndFinish \/ DropEngine

LEMMA QuietActions ==
    ASSUME QuietAction
    PROVE  Quiet /\ written' = written /\ retriesLeft' = retriesLeft
<1>1. written' = written /\ retriesLeft' = retriesLeft
  BY DEF QuietAction, allVars, engineVars, StartRouter, StartSink, EndSampling,
         NothingToLease, BeginOperation, OperationRefused, BeginFinish, FlushSink,
         FinishSink, CloseSink, RequestCancel
<1>2. \/ UNCHANGED vars
      \/ UNCHANGED <<nextSeq, cursor, budget, queueVars, failed, pending, ledgerVars>>
  BY DEF QuietAction, allVars, StartRouter, start, StartSink, EndSampling,
         NothingToLease, BeginOperation, OperationRefused, BeginFinish, StopRouter,
         stop_admission, FlushSink, FinishSink, CloseSink, RequestCancel
<1> QED
  BY <1>1, <1>2, QuietSteps

LEMMA CloseActions ==
    ASSUME HoldInv, CloseAction
    PROVE  /\ Quiet \/ \E closed \in SUBSET OpenKeys : ClosedBy(closed)
           /\ written' = written /\ retriesLeft' = retriesLeft
           /\ stage' \notin Sampling
<1>1. written' = written /\ retriesLeft' = retriesLeft /\ stage' \notin Sampling
  BY DEF CloseAction, StartSinkFails, EndFinish, DropEngine, Sampling
<1>2. TryCancel \/ finish
  BY DEF CloseAction, StartSinkFails, EndFinish, DropEngine
<1> QED
  BY <1>1, <1>2, TryCancelPairs, ClosingOperations

(* All steps, in the groups the proofs below use.                          *)
LEMMA StepGroups ==
    ASSUME [EngineNext]_allVars
    PROVE  \/ QuietAction
           \/ CloseAction
           \/ \E e \in Events : AdmitResult(e)
           \/ \E s \in Sinks, e \in Events : TakeLease(s, e)
           \/ SinkAcknowledges
           \/ SinkRetries
           \/ OperationExpires
           \/ \E reason \in FailureReasons : SinkFails(reason)
BY DEF EngineNext, Engine, Deliver, QuietAction, CloseAction

LEMMA AttemptsKept ==
    ASSUME EngineInv, [EngineNext]_allVars
    PROVE  AttemptsInv'
<1> USE DEF EngineInv
<1>1. /\ HoldInv /\ TypeOK /\ retriesLeft \in Nat /\ RetryAttempts \in Nat
      /\ retriesLeft <= RetryAttempts
      /\ \A s \in Sinks, e \in Events : attempts[s][e] \in Nat
  <2>1. RetryAttempts \in Nat
    BY RetryAssumption
  <2>2. retriesLeft \in 0 .. RetryAttempts
    BY DEF EngineTypeOK
  <2>3. HoldInv /\ TypeOK
    BY DEF HoldInv, LedgerInv
  <2>4. \A s \in Sinks, e \in Events : attempts[s][e] \in Nat
    BY <2>3 DEF TypeOK
  <2> QED
    BY <2>1, <2>2, <2>3, <2>4
<1>2. CASE attempts' = attempts /\ retriesLeft' = retriesLeft
  BY <1>2 DEF AttemptsInv
<1>3. CASE QuietAction
  BY <1>2, <1>3, QuietActions DEF Quiet
<1>4. CASE /\ retriesLeft' = retriesLeft
           /\ \A s \in Sinks, e \in Events : attempts'[s][e] \in {attempts[s][e], 1}
  BY <1>1, <1>4 DEF AttemptsInv
<1>5. CASE CloseAction
  BY <1>2, <1>4, <1>5, CloseActions, ClosedPairs DEF Quiet
<1>6. ASSUME NEW e \in Events, AdmitResult(e) PROVE AttemptsInv'
  <2>1. retriesLeft' = retriesLeft /\ admit(e)
    BY <1>6 DEF AdmitResult
  <2>2. CASE \E to : SelectAll(e, to)
    <3>1. attempts' = [s \in Sinks |-> [attempts[s] EXCEPT ![e] = 1]]
      BY <2>2 DEF SelectAll
    <3>2. attempts \in [Sinks -> [Events -> Nat]]
      BY <1>1 DEF TypeOK
    <3>3. \A s \in Sinks, f \in Events : attempts'[s][f] \in {attempts[s][f], 1}
      BY <3>1, <3>2
    <3> QED
      BY <1>4, <2>1, <3>3
  <2> QED
    BY <1>1, <1>2, <2>1, <2>2, AdmitPairs
<1>7. ASSUME NEW s \in Sinks, NEW e \in Events, TakeLease(s, e) PROVE AttemptsInv'
  BY <1>1, <1>2, <1>7, LeasePairs DEF TakeLease
<1>8. CASE SinkAcknowledges
  <2>1. attempts' = attempts
    BY <1>8 DEF SinkAcknowledges, acknowledge, vars, ledgerVars
  <2> QED
    BY <1>2, <1>8, <2>1 DEF SinkAcknowledges
<1>9. CASE SinkRetries
  <2>1. /\ lease.sink \in Sinks /\ lease.event \in Events
        /\ retriesLeft' = retriesLeft - 1
    BY <1>9, LeaseIsPair DEF LeaseInv, SinkRetries, Processing
  <2>2. CASE UNCHANGED vars
    BY <1>1, <2>1, <2>2 DEF vars, ledgerVars, AttemptsInv
  <2>3. CASE retry_for_operation(lease.sink, lease.event)
    <3>1. \A s \in Sinks, e \in Events :
             attempts'[s][e] \in {attempts[s][e], attempts[s][e] + 1}
      BY <1>1, <2>1, <2>3, RetryPairs
    <3> QED
      BY <1>1, <2>1, <3>1 DEF AttemptsInv
  <2> QED
    BY <1>9, <2>2, <2>3 DEF SinkRetries
<1>10. CASE OperationExpires \/ \E reason \in FailureReasons : SinkFails(reason)
  BY <1>2, <1>10, FailDeliveryPairs DEF OperationExpires, SinkFails
<1> QED
  BY <1>3, <1>5, <1>6, <1>7, <1>8, <1>9, <1>10, StepGroups

LEMMA PendingKeptNext ==
    ASSUME EngineInv, [EngineNext]_allVars
    PROVE  PendingInv'
<1> USE DEF EngineInv
<1>1. CASE UNCHANGED <<pending, nextSeq>>
  BY <1>1 DEF PendingInv
<1>2. CASE DOMAIN pending' = {}
  BY <1>2 DEF PendingInv
<1>3. CASE QuietAction
  BY <1>1, <1>3, QuietActions DEF Quiet
<1>4. CASE CloseAction
  BY <1>1, <1>2, <1>4, CloseActions, ClosedPairs DEF Quiet
<1>5. ASSUME NEW e \in Events, AdmitResult(e) PROVE PendingInv'
  <2>1. admit(e) /\ e = nextSeq
    BY <1>5 DEF AdmitResult, admit
  <2> QED
    BY <1>2, <2>1, AdmitPairs DEF PendingInv
<1>6. ASSUME NEW s \in Sinks, NEW e \in Events, TakeLease(s, e) PROVE PendingInv'
  BY <1>1, <1>6, LeasePairs DEF TakeLease
<1>7. CASE SinkAcknowledges \/ SinkRetries
  BY <1>1, <1>7 DEF SinkAcknowledges, SinkRetries, acknowledge, retry_for_operation, vars
<1>8. CASE OperationExpires \/ \E reason \in FailureReasons : SinkFails(reason)
  BY <1>1, <1>8, FailDeliveryPairs DEF OperationExpires, SinkFails
<1> QED
  BY <1>3, <1>4, <1>5, <1>6, <1>7, <1>8, StepGroups

LEMMA WrittenKept ==
    ASSUME EngineInv, [EngineNext]_allVars
    PROVE  WrittenInv'
<1> USE DEF EngineInv
<1>1. /\ HoldInv /\ ledger \in [Sinks -> [Events -> Dispositions]]
      /\ written \in [Sinks -> SUBSET Events]
  BY DEF HoldInv, LedgerInv, TypeOK, EngineTypeOK
<1>2. CASE /\ \A s \in Sinks : written[s] \subseteq written'[s]
           /\ \A s \in Sinks, e \in Events :
                 ledger'[s][e] = "Durable" => ledger[s][e] = "Durable"
  BY <1>2 DEF WrittenInv
<1>3. CASE QuietAction
  BY <1>2, <1>3, QuietActions DEF Quiet
<1>4. CASE CloseAction
  BY <1>2, <1>4, CloseActions, ClosedPairs DEF Quiet
<1>5. ASSUME NEW e \in Events, AdmitResult(e) PROVE WrittenInv'
  <2>1. written' = written /\ admit(e)
    BY <1>5 DEF AdmitResult
  <2>2. ASSUME NEW to \in {"Queued", "NotAdmitted"}, SelectAll(e, to) PROVE WrittenInv'
    BY <1>2, <2>1, <2>2, SelectGrows
  <2> QED
    BY <1>2, <2>1, <2>2, AdmitPairs
<1>6. ASSUME NEW s \in Sinks, NEW e \in Events, TakeLease(s, e) PROVE WrittenInv'
  BY <1>2, <1>6, LeasePairs DEF TakeLease
<1>7. ASSUME lease.sink \in Sinks, lease.event \in Events,
             written' = [written EXCEPT ![lease.sink] = @ \cup {lease.event}]
      PROVE  /\ \A s \in Sinks : written[s] \subseteq written'[s]
             /\ lease.event \in written'[lease.sink]
  BY <1>1, <1>7
<1>8. CASE SinkAcknowledges
  <2>1. /\ lease.sink \in Sinks /\ lease.event \in Events
        /\ written' = [written EXCEPT ![lease.sink] = @ \cup {lease.event}]
    BY <1>8, LeaseIsPair DEF LeaseInv, SinkAcknowledges, Processing
  <2>2. CASE UNCHANGED vars
    BY <1>2, <1>7, <2>1, <2>2 DEF vars, ledgerVars
  <2>3. CASE acknowledge(lease.sink, lease.event, lease.attempt)
    <3>1. ASSUME NEW s \in Sinks, NEW e \in Events, ledger'[s][e] = "Durable"
          PROVE  e \in written'[s]
      <4>1. CASE s = lease.sink /\ e = lease.event
        BY <1>7, <2>1, <4>1
      <4>2. CASE s # lease.sink \/ e # lease.event
        <5>1. ledger'[s][e] = ledger[s][e]
          BY <2>1, <2>3, <4>2, AnswerPairs
        <5>2. e \in written[s]
          BY <3>1, <5>1 DEF WrittenInv
        <5> QED
          BY <1>7, <2>1, <5>2
      <4> QED
        BY <4>1, <4>2
    <3> QED
      BY <3>1 DEF WrittenInv
  <2> QED
    BY <1>8, <2>2, <2>3 DEF SinkAcknowledges
<1>9. CASE SinkRetries
  <2>1. lease.sink \in Sinks /\ lease.event \in Events /\ written' = written
    BY <1>9, LeaseIsPair DEF LeaseInv, SinkRetries, Processing
  <2>2. CASE UNCHANGED vars
    BY <1>2, <2>1, <2>2 DEF vars, ledgerVars
  <2>3. CASE retry_for_operation(lease.sink, lease.event)
    BY <1>2, <2>1, <2>3, RetryPairs
  <2> QED
    BY <1>9, <2>2, <2>3 DEF SinkRetries
<1>10. CASE OperationExpires \/ \E reason \in FailureReasons : SinkFails(reason)
  <2>1. lease.sink \in Sinks /\ lease.event \in Events /\ Processing
    BY <1>10, LeaseIsPair DEF LeaseInv, OperationExpires, SinkFails, Processing
  <2>2. \A s \in Sinks : written[s] \subseteq written'[s]
    BY <1>7, <1>10, <2>1 DEF OperationExpires, SinkFails
  <2>3. \A s \in Sinks, e \in Events : ledger'[s][e] \in {ledger[s][e]} \cup FailureReasons
    BY <1>10, <2>1, FailDeliveryPairs DEF OperationExpires, SinkFails
  <2> QED
    BY <1>2, <2>2, <2>3
<1> QED
  BY <1>3, <1>4, <1>5, <1>6, <1>8, <1>9, <1>10, StepGroups

(* Sampling is never resumed.                                              *)
LEMMA SamplingEnds ==
    ASSUME EngineInv, [EngineNext]_allVars, stage' \in Sampling
    PROVE  /\ stage \in Sampling
           /\ QuietAction \/ \E e \in Events : AdmitResult(e)
<1> USE DEF Sampling
<1>1. CASE QuietAction
  <2>1. ~NothingToLease /\ ~OperationRefused
    BY DEF NothingToLease, OperationRefused, LeaveDelivery, InDelivery
  <2> QED
    BY <1>1, <2>1 DEF QuietAction, allVars, engineVars, StartRouter, StartSink, EndSampling,
         BeginOperation, BeginFinish, FlushSink, FinishSink, CloseSink, RequestCancel
<1>2. ~CloseAction
  BY CloseActions DEF EngineInv
<1>3. ASSUME NEW e \in Events, AdmitResult(e)
      PROVE  stage \in Sampling
  BY <1>3 DEF AdmitResult
<1>4. ASSUME NEW s \in Sinks, NEW e \in Events, TakeLease(s, e) PROVE FALSE
  BY <1>4 DEF TakeLease, InDelivery
<1>5. ~SinkAcknowledges /\ ~SinkRetries
  BY DEF SinkAcknowledges, SinkRetries, Processing, LeaveDelivery, InDelivery
<1>6. ~OperationExpires /\ \A reason \in FailureReasons : ~SinkFails(reason)
  BY DEF OperationExpires, SinkFails, FailDelivery, Processing, LeaveDelivery, InDelivery
<1> QED
  BY <1>1, <1>2, <1>3, <1>4, <1>5, <1>6, StepGroups

(* No pair is opened.                                                      *)
OpensNone ==
    \A s \in Sinks, e \in Events : ledger'[s][e] \in Incomplete => ledger[s][e] \in Incomplete

LEMMA FewerOpen ==
    ASSUME OpensNone, NEW s \in Sinks
    PROVE  /\ Cardinality(IncompleteAt(s))' <= Cardinality(IncompleteAt(s))
           /\ Cardinality(IncompleteAt(s)) \in Nat /\ Cardinality(IncompleteAt(s))' \in Nat
<1>1. IncompleteAt(s)' \subseteq IncompleteAt(s)
  BY DEF OpensNone, IncompleteAt
<1>2. IncompleteAt(s) \in SUBSET Events /\ IncompleteAt(s)' \in SUBSET Events
  BY DEF IncompleteAt
<1>3. /\ IsFiniteSet(IncompleteAt(s))
      /\ Cardinality(IncompleteAt(s)) \in Nat /\ Cardinality(IncompleteAt(s)') \in Nat
  BY <1>2, FiniteParts
<1>4. Cardinality(IncompleteAt(s)') <= Cardinality(IncompleteAt(s))
  BY <1>1, <1>3, FS_Subset
<1> QED
  BY <1>3, <1>4

(* Only an accepted event opens pairs.                                     *)
LEMMA OpenedByAccept ==
    ASSUME EngineInv, [EngineNext]_allVars
    PROVE  \/ OpensNone
           \/ \E e \in Events : AdmitResult(e) /\ Accept(e) /\ SelectAll(e, "Queued")
<1> USE DEF EngineInv
<1>1. CASE QuietAction
  BY <1>1, QuietActions DEF Quiet, OpensNone
<1>2. CASE CloseAction
  BY <1>2, CloseActions, ClosedPairs DEF Quiet, OpensNone
<1>3. ASSUME NEW e \in Events, AdmitResult(e)
      PROVE  OpensNone \/ (Accept(e) /\ SelectAll(e, "Queued"))
  <2>1. admit(e)
    BY <1>3 DEF AdmitResult
  <2>2. CASE SelectAll(e, "NotAdmitted")
    BY <2>2, SelectGrows DEF OpensNone
  <2> QED
    BY <2>1, <2>2, AdmitPairs DEF OpensNone
<1>4. ASSUME NEW s \in Sinks, NEW e \in Events, TakeLease(s, e) PROVE OpensNone
  <2>1. Lease(s, e) /\ ledger[s][e] = "Queued"
    BY <1>4 DEF TakeLease, Lease, Transition, LegalTransition
  <2> QED
    BY <2>1, LeasePairs DEF OpensNone
<1>5. CASE SinkAcknowledges
  <2>1. lease.sink \in Sinks /\ lease.event \in Events
    BY <1>5, LeaseIsPair DEF LeaseInv, SinkAcknowledges, Processing
  <2>2. CASE UNCHANGED vars
    BY <2>2 DEF vars, ledgerVars, OpensNone
  <2>3. CASE acknowledge(lease.sink, lease.event, lease.attempt)
    BY <2>1, <2>3, AnswerPairs DEF OpensNone
  <2> QED
    BY <1>5, <2>2, <2>3 DEF SinkAcknowledges
<1>6. CASE SinkRetries
  <2>1. lease.sink \in Sinks /\ lease.event \in Events
    BY <1>6, LeaseIsPair DEF LeaseInv, SinkRetries, Processing
  <2>2. CASE UNCHANGED vars
    BY <2>2 DEF vars, ledgerVars, OpensNone
  <2>3. CASE retry_for_operation(lease.sink, lease.event)
    <3>1. ledger[lease.sink][lease.event] \in Incomplete
      BY <2>3 DEF retry_for_operation, LegalTransition
    <3> QED
      BY <2>1, <2>3, <3>1, RetryPairs DEF OpensNone
  <2> QED
    BY <1>6, <2>2, <2>3 DEF SinkRetries
<1>7. CASE OperationExpires \/ \E reason \in FailureReasons : SinkFails(reason)
  BY <1>7, FailDeliveryPairs DEF OperationExpires, SinkFails, OpensNone
<1> QED
  BY <1>1, <1>2, <1>3, <1>4, <1>5, <1>6, <1>7, StepGroups

LEMMA CountKept ==
    ASSUME EngineInv, [EngineNext]_allVars
    PROVE  CountInv'
<1> USE DEF EngineInv
<1>1. \A s \in Sinks : MaxItems[s] \in Nat /\ queue[s] \in Seq(Events) /\ Len(queue[s]) \in Nat
  BY PlanAssumption DEF HoldInv, LedgerInv, TypeOK
<1>2. ASSUME NEW e \in Events, AdmitResult(e), Accept(e), SelectAll(e, "Queued"), NEW s \in Sinks
      PROVE  /\ Cardinality(IncompleteAt(s))' <= MaxItems[s]
             /\ Cardinality(IncompleteAt(s))' <= Len(queue'[s])
  <2>1. IncompleteAt(s)' = IncompleteAt(s) \cup {e} /\ e \notin IncompleteAt(s)
    BY <1>2, SelectGrows DEF IncompleteAt
  <2>2. IncompleteAt(s) \in SUBSET Events
    BY DEF IncompleteAt
  <2>3. IsFiniteSet(IncompleteAt(s)) /\ Cardinality(IncompleteAt(s)) \in Nat
    BY <2>2, FiniteParts
  <2>4. Cardinality(IncompleteAt(s)') = Cardinality(IncompleteAt(s)) + 1
    BY <2>1, <2>3, FS_AddElement
  <2>5. Cardinality(IncompleteAt(s)) <= Len(queue[s])
    BY <1>2 DEF AdmitResult, CountInv, Sampling
  <2>6. queue'[s] = Append(queue[s], e) /\ ~(Len(queue[s]) >= MaxItems[s])
    BY <1>2 DEF Accept, PushBack, IsFull
  <2>7. Len(queue'[s]) = Len(queue[s]) + 1
    BY <1>1, <2>6
  <2> QED
    BY <1>1, <2>3, <2>4, <2>5, <2>6, <2>7
<1>3. ASSUME OpensNone, NEW s \in Sinks
      PROVE  /\ Cardinality(IncompleteAt(s))' <= MaxItems[s]
             /\ stage' \in Sampling => Cardinality(IncompleteAt(s))' <= Len(queue'[s])
  <2>1. /\ Cardinality(IncompleteAt(s))' <= Cardinality(IncompleteAt(s))
        /\ Cardinality(IncompleteAt(s)) \in Nat /\ Cardinality(IncompleteAt(s))' \in Nat
    BY <1>3, FewerOpen
  <2>2. Cardinality(IncompleteAt(s)) <= MaxItems[s]
    BY DEF CountInv
  <2>3. ASSUME stage' \in Sampling PROVE Cardinality(IncompleteAt(s))' <= Len(queue'[s])
    <3>1. stage \in Sampling /\ (QuietAction \/ \E e \in Events : AdmitResult(e))
      BY <2>3, SamplingEnds
    <3>2. Cardinality(IncompleteAt(s)) <= Len(queue[s])
      BY <3>1 DEF CountInv
    <3>3. Len(queue'[s]) >= Len(queue[s])
      <4>1. CASE QuietAction
        BY <1>1, <4>1, QuietActions DEF Quiet
      <4>2. ASSUME NEW e \in Events, AdmitResult(e) PROVE Len(queue'[s]) >= Len(queue[s])
        <5>1. admit(e)
          BY <4>2 DEF AdmitResult
        <5>2. CASE Accept(e)
          BY <1>1, <5>2 DEF Accept, PushBack
        <5>3. CASE queue' = queue
          BY <1>1, <5>3
        <5> QED
          BY <5>1, <5>2, <5>3, AdmitPairs
      <4> QED
        BY <3>1, <4>1, <4>2
    <3>4. Len(queue'[s]) \in Int
      <4>1. TypeOK'
        BY StepRefinesRouter, HoldKept DEF HoldInv, LedgerInv
      <4> QED
        BY <4>1 DEF TypeOK
    <3> QED
      BY <1>1, <2>1, <3>2, <3>3, <3>4
  <2> QED
    BY <1>1, <2>1, <2>2, <2>3
<1>4. CASE OpensNone
  BY <1>3, <1>4 DEF CountInv
<1>5. CASE \E e \in Events : AdmitResult(e) /\ Accept(e) /\ SelectAll(e, "Queued")
  BY <1>2, <1>5 DEF CountInv
<1> QED
  BY <1>4, <1>5, OpenedByAccept

LEMMA LeaseKept ==
    ASSUME EngineInv, [EngineNext]_allVars
    PROVE  LeaseInv'
<1> USE DEF EngineInv
<1>1. CASE lease' = NoDelivery /\ operating' = FALSE
  BY <1>1 DEF LeaseInv
<1>2. CASE /\ stage \notin {"Delivering", "Draining"}
           /\ lease' = lease /\ operating' = operating
  <2>1. lease = NoDelivery /\ ~operating
    BY <1>2 DEF LeaseInv, InDelivery
  <2> QED
    BY <1>2, <2>1 DEF LeaseInv
<1>3. CASE /\ UNCHANGED <<vars, stage, lease>>
           /\ operating' = operating \/ lease # NoDelivery
  BY <1>3 DEF LeaseInv, InDelivery, vars, queueVars, ledgerVars
<1>4. CASE UNCHANGED allVars \/ BeginOperation \/ RequestCancel
  BY <1>3, <1>4 DEF allVars, engineVars, BeginOperation, RequestCancel
<1>5. CASE StartRouter \/ StartSink \/ StartSinkFails \/ EndSampling \/ BeginFinish
           \/ FlushSink \/ FinishSink \/ EndFinish
  BY <1>2, <1>5 DEF StartRouter, StartSink, StartSinkFails, EndSampling, BeginFinish,
                    FlushSink, FinishSink, CloseSink, EndFinish
<1>6. ASSUME NEW e \in Events, AdmitResult(e) PROVE LeaseInv'
  BY <1>2, <1>6 DEF AdmitResult
<1>7. CASE NothingToLease \/ OperationRefused \/ DropEngine \/ OperationExpires
           \/ \E reason \in FailureReasons : SinkFails(reason)
  BY <1>1, <1>7 DEF NothingToLease, OperationRefused, DropEngine, OperationExpires,
                    SinkFails, FailDelivery, LeaveDelivery
<1>8. CASE SinkAcknowledges
  BY <1>1, <1>8 DEF SinkAcknowledges, LeaveDelivery
<1>9. ASSUME NEW s \in Sinks, NEW e \in Events, TakeLease(s, e) PROVE LeaseInv'
  <2>1. /\ lease' = [sink |-> s, event |-> e, attempt |-> attempts[s][e]]
        /\ stage' = stage /\ InDelivery /\ Lease(s, e)
        /\ lease = NoDelivery /\ operating' = operating
    BY <1>9 DEF TakeLease
  <2>2. /\ ledger'[s][e] = "Processing" /\ inFlight'[s][e] = attempts[s][e]
        /\ attempts' = attempts
    BY <2>1, LeasePairs
  <2>3. ~operating
    BY <2>1 DEF LeaseInv
  <2>4. lease'.sink = s /\ lease'.event = e /\ lease'.attempt = attempts[s][e]
    BY <2>1
  <2> QED
    BY <2>1, <2>2, <2>3, <2>4 DEF LeaseInv, InDelivery
<1>10. CASE SinkRetries
  <2>1. CASE LeaveDelivery(TRUE)
    BY <1>1, <2>1 DEF LeaveDelivery
  <2>2. CASE /\ LedgerRoom(3)
             /\ retry_for_operation(lease.sink, lease.event)
             /\ lease' = [lease EXCEPT !.attempt = attempts[lease.sink][lease.event] + 1]
             /\ stage' = stage
    <3>1. /\ lease.sink \in Sinks /\ lease.event \in Events /\ InDelivery
      BY <1>10, LeaseIsPair DEF LeaseInv, SinkRetries, Processing
    <3>2. /\ ledger'[lease.sink][lease.event] = "Processing"
          /\ attempts'[lease.sink][lease.event] = attempts[lease.sink][lease.event] + 1
          /\ inFlight'[lease.sink][lease.event] = attempts[lease.sink][lease.event] + 1
      BY <2>2, <3>1, RetryPairs
    <3>3. /\ lease'.sink = lease.sink /\ lease'.event = lease.event
          /\ lease'.attempt = attempts[lease.sink][lease.event] + 1
      BY <2>2 DEF EngineTypeOK
    <3>4. attempts[lease.sink][lease.event] \in Nat
      BY <3>1 DEF HoldInv, LedgerInv, TypeOK
    <3>5. lease' # NoDelivery
      BY <3>3, <3>4 DEF NoDelivery
    <3> QED
      BY <2>2, <3>1, <3>2, <3>3, <3>5 DEF LeaseInv, InDelivery
  <2> QED
    BY <1>10, <2>1, <2>2 DEF SinkRetries
<1> QED
  BY <1>4, <1>5, <1>6, <1>7, <1>8, <1>9, <1>10 DEF EngineNext, Engine, Deliver

(* Errors are not forgotten.                                               *)
LEMMA SoundBefore ==
    ASSUME EngineInv, [EngineNext]_allVars, Sound'
    PROVE  Sound
<1> USE DEF EngineInv, Sound
<1>1. CASE UNCHANGED <<stage, runError, finishError>>
  BY <1>1
<1>2. CASE QuietAction
  <2>1. CASE UNCHANGED allVars \/ StartRouter \/ StartSink \/ EndSampling \/ BeginOperation
             \/ RequestCancel
    BY <2>1 DEF allVars, engineVars, StartRouter, StartSink, EndSampling, BeginOperation,
                RequestCancel
  <2>2. CASE NothingToLease \/ OperationRefused
    BY <2>2 DEF NothingToLease, OperationRefused, LeaveDelivery, InDelivery
  <2>3. CASE BeginFinish
    BY <2>3 DEF BeginFinish, EarlyInv
  <2>4. CASE FlushSink \/ FinishSink
    BY <2>4 DEF FlushSink, FinishSink, CloseSink
  <2> QED
    BY <1>2, <2>1, <2>2, <2>3, <2>4 DEF QuietAction
<1>3. CASE CloseAction
  BY <1>3 DEF CloseAction, StartSinkFails, EndFinish, DropEngine
<1>4. ASSUME NEW e \in Events, AdmitResult(e) PROVE Sound
  <2>1. /\ stage = "Running" /\ finishError' = finishError
        /\ runError' = (runError \/ ledger'[0][e] # "Queued")
    BY <1>4 DEF AdmitResult
  <2>2. ~runError
    BY <2>1, Zenon
  <2> QED
    BY <2>1, <2>2
<1>5. CASE \E s \in Sinks, e \in Events : TakeLease(s, e)
  BY <1>1, <1>5 DEF TakeLease
<1>6. ASSUME LeaveDelivery(TRUE), InDelivery PROVE Sound
  BY <1>6 DEF LeaveDelivery, InDelivery
<1>7. CASE SinkAcknowledges \/ SinkRetries
  BY <1>1, <1>6, <1>7 DEF SinkAcknowledges, SinkRetries, Processing
<1>8. CASE OperationExpires \/ \E reason \in FailureReasons : SinkFails(reason)
  BY <1>6, <1>8 DEF OperationExpires, SinkFails, FailDelivery, Processing
<1> QED
  BY <1>2, <1>3, <1>4, <1>5, <1>7, <1>8, StepGroups

(* deliver_inner never hides an error.                                     *)
LEMMA ErrorIsKept ==
    ASSUME Sound', NEW err, LeaveDelivery(err)
    PROVE  ~err
BY Zenon DEF Sound, LeaveDelivery

(* A sound run that has delivered everything has no open pair left.        *)
LEMMA DrainedIsClosed ==
    ASSUME EngineInv, Sound, stage \in {"Ending", "Done"}, NEW s \in Sinks, NEW e \in Events
    PROVE  ledger[s][e] \notin Incomplete
<1> USE DEF EngineInv
<1>1. lease = NoDelivery /\ queue[s] = <<>>
  BY DEF LeaseInv, InDelivery, SoundInv, Progress
<1>2. inFlight[s][e] = 0
  BY <1>1 DEF SoundInv, OnlyLease
<1>3. e \notin QueuedEvents(s)
  BY <1>1 DEF QueuedEvents
<1> QED
  BY <1>2, <1>3 DEF HoldInv, AcceptedIsHeld

(* finish() on a sound run finds nothing to close.                         *)
LEMMA SoundFinish ==
    ASSUME EngineInv, Sound, stage = "Ending", finish, phase' = "Finished"
    PROVE  /\ \A s \in Sinks, e \in Events : ledger'[s][e] = ledger[s][e]
           /\ \A s \in Sinks, e \in Events : inFlight'[s][e] = 0
           /\ \A s \in Sinks : queue'[s] = <<>>
           /\ failed' = failed /\ DOMAIN pending' = {}
<1> USE DEF EngineInv
<1>1. \A k \in OpenKeys : FALSE
  BY DrainedIsClosed DEF OpenKeys
<1>2. OpenKeys = {} /\ Recorded = {}
  BY <1>1 DEF Recorded, SoundInv, Clean
<1>3. StopPhase # "Finished"
  BY DEF StopPhase, finish
<1>4. CloseKeys(OpenKeys) /\ failed' = failed
  BY <1>3 DEF finish
<1>5. Closing({})
  BY <1>2, <1>4, CloseKeysCloses DEF HoldInv
<1>6. \A s \in Sinks, e \in Events : ledger'[s][e] = ledger[s][e]
  BY <1>2, <1>5 DEF Closing
<1>7. /\ queue' = [s \in Sinks |-> <<>>]
      /\ inFlight' = [s \in Sinks |-> [e \in Events |-> 0]]
      /\ DOMAIN pending' = {}
  BY <1>4 DEF CloseKeys, RecordPending
<1> QED
  BY <1>4, <1>6, <1>7

LEMMA SoundKept ==
    ASSUME EngineInv, [EngineNext]_allVars
    PROVE  SoundInv'
<1> SUFFICES ASSUME Sound' PROVE (Clean /\ OnlyLease /\ Progress)'
  BY DEF SoundInv
<1> USE DEF EngineInv
<1>1. Sound /\ Clean /\ OnlyLease /\ Progress
  BY SoundBefore DEF SoundInv
<1>2. ~LeaveDelivery(TRUE)
  BY ErrorIsKept
<1>3. ASSUME Quiet, lease' = lease PROVE Clean' /\ OnlyLease'
  BY <1>1, <1>3 DEF Clean, OnlyLease, Quiet
<1>4. CASE UNCHANGED allVars \/ BeginOperation \/ RequestCancel
  <2>1. Quiet /\ UNCHANGED <<lease, stage, phase>>
    BY <1>4, QuietSteps DEF allVars, engineVars, vars, BeginOperation, RequestCancel
  <2> QED
    BY <1>1, <1>3, <2>1 DEF Progress, Quiet
<1>5. CASE StartRouter \/ StartSink \/ EndSampling
  <2>1. Quiet /\ lease' = lease
    BY <1>5, QuietActions DEF QuietAction, StartRouter, StartSink, EndSampling
  <2>2. /\ stage \in {"Idle", "Starting", "Running"}
        /\ stage' \in {"Starting", "Running", "Delivering"}
        /\ phase' \in {phase, "Open"}
    BY <1>5 DEF StartRouter, start, StartSink, EndSampling, vars
  <2> QED
    BY <1>1, <1>3, <2>1, <2>2 DEF Progress
<1>6. CASE NothingToLease
  <2>1. /\ Quiet /\ lease = NoDelivery /\ lease' = NoDelivery /\ phase' = DrainPhase
        /\ InDelivery
    BY <1>6, QuietActions DEF QuietAction, NothingToLease, LeaveDelivery
  <2>2. phase \notin {"Cancelled", "Finished", "Failed"}
    BY <1>1, <2>1 DEF Progress, InDelivery
  <2>3. ~(/\ phase \notin {"Cancelled", "Finished"}
          /\ \E s \in Sinks : Deliverable(s))
    BY <1>6, ErrorIsKept DEF NothingToLease
  <2>4. \A s \in Sinks : queue'[s] = <<>>
    BY <1>1, <2>1, <2>2, <2>3 DEF Deliverable, Clean, Quiet
  <2> QED
    BY <1>3, <2>1, <2>2, <2>4 DEF Progress, DrainPhase
<1>7. CASE BeginFinish
  <2>1. Quiet /\ lease' = lease
    BY <1>7, QuietActions DEF QuietAction, BeginFinish
  <2>2. stage = "Finishing" /\ stage' = "Draining"
    BY <1>7 DEF BeginFinish, Sound
  <2>3. phase' \in {phase, "AdmissionStopped"}
    BY <1>7 DEF BeginFinish, StopRouter, stop_admission, vars
  <2> QED
    BY <1>1, <1>3, <2>1, <2>2, <2>3 DEF Progress
<1>8. CASE FlushSink \/ FinishSink
  <2>1. Quiet /\ lease' = lease /\ phase' = phase
    BY <1>8, QuietActions DEF QuietAction, FlushSink, FinishSink, CloseSink, vars
  <2>2. stage \in {"Flushing", "Closing"} /\ stage' \in {"Flushing", "Closing", "Ending"}
    BY <1>8 DEF FlushSink, FinishSink, CloseSink
  <2> QED
    BY <1>1, <1>3, <2>1, <2>2 DEF Progress, Quiet
<1>9. CASE EndFinish
  <2>1. /\ finish /\ phase' = "Finished" /\ stage = "Ending" /\ stage' = "Done"
    BY <1>1, <1>9 DEF EndFinish, Sound
  <2> QED
    BY <1>1, <2>1, SoundFinish DEF Clean, OnlyLease, Progress
<1>10. ASSUME NEW e \in Events, AdmitResult(e) PROVE (Clean /\ OnlyLease /\ Progress)'
  <2>1. /\ admit(e) /\ ledger'[0][e] = "Queued" /\ stage = "Running"
        /\ stage' = stage /\ lease' = lease
    BY <1>10 DEF AdmitResult, Sound
  <2>2. 0 \in Sinks
    BY SinkAssumption DEF Sinks
  <2>3. ~SelectAll(e, "NotAdmitted")
    BY <2>1, <2>2, SelectGrows
  <2>4. /\ SelectAll(e, "Queued") /\ DOMAIN pending' = {} /\ phase' = phase
        /\ failed' = failed /\ inFlight' = inFlight
    BY <2>1, <2>3, AdmitPairs
  <2>5. \A s \in Sinks, f \in Events :
           ledger'[s][f] \in {"None", "Queued", "Processing", "Durable"}
    BY <1>1, <2>4, SelectGrows DEF Clean
  <2> QED
    BY <1>1, <2>1, <2>4, <2>5 DEF Clean, OnlyLease, Progress
<1>11. ASSUME NEW s \in Sinks, NEW e \in Events, TakeLease(s, e)
       PROVE  (Clean /\ OnlyLease /\ Progress)'
  <2>1. /\ Lease(s, e) /\ lease = NoDelivery /\ stage' = stage /\ InDelivery
        /\ lease' = [sink |-> s, event |-> e, attempt |-> attempts[s][e]]
    BY <1>11 DEF TakeLease
  <2>2. lease'.sink = s /\ lease'.event = e /\ lease' # NoDelivery
    BY <2>1 DEF NoDelivery, Events
  <2>3. phase' = DrainPhase
    BY <2>1 DEF Lease
  <2>4. Clean'
    BY <1>1, <2>1, LeasePairs DEF Clean
  <2>5. OnlyLease'
    BY <1>1, <2>1, <2>2, LeasePairs DEF OnlyLease
  <2> QED
    BY <1>1, <2>1, <2>3, <2>4, <2>5 DEF Progress, DrainPhase, InDelivery
<1>12. CASE SinkAcknowledges
  <2>1. /\ acknowledge(lease.sink, lease.event, lease.attempt)
        /\ stage' = stage
    BY <1>2, <1>12 DEF SinkAcknowledges
  <2>2. lease.sink \in Sinks /\ lease.event \in Events
    BY <1>12, LeaseIsPair DEF LeaseInv, SinkAcknowledges, Processing
  <2>3. \A s \in Sinks, e \in Events : inFlight'[s][e] = 0
    BY <1>1, <2>1, <2>2, AnswerPairs DEF OnlyLease
  <2>4. Clean' /\ UNCHANGED <<queue, phase>>
    BY <1>1, <2>1, <2>2, AnswerPairs DEF Clean
  <2> QED
    BY <1>1, <2>1, <2>3, <2>4 DEF OnlyLease, Progress
<1>13. CASE SinkRetries
  <2>1. /\ LedgerRoom(3) /\ retry_for_operation(lease.sink, lease.event)
        /\ lease' = [lease EXCEPT !.attempt = attempts[lease.sink][lease.event] + 1]
        /\ stage' = stage
    BY <1>2, <1>13 DEF SinkRetries
  <2>2. lease.sink \in Sinks /\ lease.event \in Events
    BY <1>13, LeaseIsPair DEF LeaseInv, SinkRetries, Processing
  <2>3. lease'.sink = lease.sink /\ lease'.event = lease.event
    BY <2>1 DEF EngineTypeOK
  <2>4. lease' # NoDelivery
    BY <2>2, <2>3 DEF NoDelivery, Events
  <2>5. Clean' /\ UNCHANGED <<queue, phase>>
    BY <1>1, <2>1, <2>2, RetryPairs DEF Clean
  <2>6. OnlyLease'
    BY <1>1, <2>1, <2>2, <2>3, <2>4, RetryPairs DEF OnlyLease
  <2> QED
    BY <1>1, <2>1, <2>5, <2>6 DEF Progress
<1>14. ~OperationRefused /\ ~OperationExpires /\ ~StartSinkFails /\ ~DropEngine
       /\ \A reason \in FailureReasons : ~SinkFails(reason)
  BY <1>2 DEF OperationRefused, OperationExpires, SinkFails, FailDelivery, StartSinkFails,
              DropEngine, Sound
<1> QED
  BY <1>4, <1>5, <1>6, <1>7, <1>8, <1>9, <1>10, <1>11, <1>12, <1>13, <1>14
     DEF EngineNext, Engine, Deliver

-----------------------------------------------------------------------------
(* The theorems.                                                           *)

LEMMA EngineInitInv == EngineInit => EngineInv
<1> SUFFICES ASSUME EngineInit PROVE EngineInv
  OBVIOUS
<1>1. HoldInv
  BY InitHolds DEF EngineInit
<1>2. EngineTypeOK
  <2>1. NoDelivery \in [sink : Sinks, event : 0 .. MaxEvents, attempt : 0 .. MaxAttempts]
        /\ 0 \in Sinks
    BY SinkAssumption, BoundAssumption DEF NoDelivery, Sinks
  <2>2. RetryAttempts \in 0 .. RetryAttempts
    BY RetryAssumption
  <2>3. written \in [Sinks -> SUBSET Events]
    BY DEF EngineInit
  <2> QED
    BY <2>1, <2>2, <2>3 DEF EngineInit, EngineTypeOK, Stages
<1>3. LeaseInv /\ PendingInv /\ WrittenInv /\ EarlyInv /\ SinksInv
  BY DEF EngineInit, Init, LeaseInv, PendingInv, WrittenInv, EarlyInv, SinksInv, NoSinkLeaked
<1>4. AttemptsInv
  BY RetryAssumption DEF EngineInit, Init, AttemptsInv
<1>5. CountInv
  <2>1. \A s \in Sinks : IncompleteAt(s) = {}
    BY DEF EngineInit, Init, IncompleteAt
  <2>2. \A s \in Sinks : queue[s] = <<>> /\ MaxItems[s] \in Nat
    BY PlanAssumption DEF EngineInit, Init
  <2> QED
    BY <2>1, <2>2, FS_EmptySet DEF CountInv
<1>6. SoundInv
  BY DEF EngineInit, Init, SoundInv, Clean, OnlyLease, Progress
<1> QED
  BY <1>1, <1>2, <1>3, <1>4, <1>5, <1>6 DEF EngineInv

LEMMA EngineKept ==
    ASSUME EngineInv, [EngineNext]_allVars
    PROVE  EngineInv'
<1>1. HoldInv'
  BY StepRefinesRouter, HoldKept DEF EngineInv
<1> QED
  BY <1>1, TypesKept, LeaseKept, AttemptsKept, PendingKeptNext, WrittenKept, CountKept,
     SoundKept, EarlyKept, SinksKept
     DEF EngineInv

(* The inductive invariant of the engine's run over the router.            *)
THEOREM EngineInvariant == EngineSpec => []EngineInv
<1>1. EngineInv /\ [EngineNext]_allVars => EngineInv'
  BY EngineKept
<1> QED
  BY <1>1, EngineInitInv, PTL DEF EngineSpec

(* The engine uses the router only through its operations: every run of    *)
(* RuntimeEngine over TypedResultRouterAdapter is a behaviour of the       *)
(* router, so all that is proved of the router holds in it.                *)
THEOREM EngineRefinesRouter == EngineSpec => RefinesRouter
<1>1. EngineInit => Init
  BY DEF EngineInit
<1>2. EngineInv /\ [EngineNext]_allVars => [Next]_vars
  BY StepRefinesRouter
<1> QED
  BY <1>1, <1>2, EngineInvariant, PTL DEF EngineSpec, RefinesRouter, Spec

(* A run that reports success has every admitted event durable at every    *)
(* sink, and the sink wrote it.                                            *)
THEOREM SuccessIsDurable == EngineSpec => []SuccessMeansDurable
<1>1. EngineInv => SuccessMeansDurable
  <2> SUFFICES ASSUME EngineInv, stage = "Done", ~runError, ~finishError,
                      NEW s \in Sinks, NEW e \in Events, e < nextSeq
               PROVE  ledger[s][e] = "Durable" /\ e \in written[s]
    BY DEF SuccessMeansDurable
  <2>1. Sound /\ Clean
    BY DEF Sound, EngineInv, SoundInv
  <2>2. ledger[s][e] \notin Incomplete
    BY <2>1, DrainedIsClosed
  <2>3. ledger[s][e] # "None"
    BY DEF EngineInv, HoldInv, LedgerInv, AdmissionIsAtomic
  <2>4. ledger[s][e] = "Durable"
    BY <2>1, <2>2, <2>3 DEF Clean
  <2> QED
    BY <2>4 DEF EngineInv, WrittenInv
<1> QED
  BY <1>1, EngineInvariant, PTL

(* However the run ends, every sink it started was finished or cancelled.  *)
THEOREM SinksAreClosed == EngineSpec => []NoSinkLeaked
<1>1. EngineInv => NoSinkLeaked
  BY DEF EngineInv, SinksInv
<1> QED
  BY <1>1, EngineInvariant, PTL

-----------------------------------------------------------------------------
(* The end of the run, with finalization limits at least as large as the   *)
(* one SinkLimits::new derives.                                            *)

FinalizationFits == \A s \in Sinks : MaxFinalizationSteps[s] >= MaxItems[s] + 2

EndsInv ==
    stage \in {"Done", "Dropped"} /\ LedgerRoom(2 * NSinks) =>
        AllTerminal /\ DOMAIN pending = {} /\ phase \in {"Finished", "Cancelled"}

LEMMA PendingIsFew ==
    ASSUME EngineInv
    PROVE  /\ Cardinality(DOMAIN pending) \in {0, 1}
           /\ ~PendingKnown
<1> USE DEF EngineInv
<1>1. DOMAIN pending = {} \/ DOMAIN pending = {nextSeq}
  BY DEF PendingInv
<1>2. nextSeq \in Int /\ DOMAIN pending \subseteq Events
  BY BoundAssumption DEF HoldInv, LedgerInv, TypeOK
<1>3. Cardinality(DOMAIN pending) \in {0, 1}
  BY <1>1, FS_EmptySet, FS_Singleton
<1>4. ASSUME NEW e \in DOMAIN pending, NEW s \in Sinks PROVE ledger[s][e] = "None"
  <2>1. e = nextSeq /\ e \in Events /\ ~(e < nextSeq)
    BY <1>1, <1>2
  <2> QED
    BY <2>1 DEF HoldInv, LedgerInv, AdmissionIsAtomic
<1> QED
  BY <1>3, <1>4 DEF PendingKnown, InLedger

(* The derived limit is enough for whatever the run has left open.         *)
LEMMA LimitSuffices ==
    ASSUME EngineInv, FinalizationFits
    PROVE  FinalizationCapacity
<1> SUFFICES ASSUME NEW s \in Sinks
             PROVE  2 * Cardinality(DOMAIN pending) + Cardinality(IncompleteAt(s))
                        <= MaxFinalizationSteps[s]
  BY DEF FinalizationCapacity
<1>1. Cardinality(IncompleteAt(s)) \in Nat
  <2>1. IncompleteAt(s) \in SUBSET Events
    BY DEF IncompleteAt
  <2> QED
    BY <2>1, FiniteParts
<1>2. Cardinality(IncompleteAt(s)) <= MaxItems[s]
  BY DEF EngineInv, CountInv
<1>3. MaxItems[s] \in Nat /\ MaxFinalizationSteps[s] \in Nat
  BY PlanAssumption
<1>4. MaxFinalizationSteps[s] >= MaxItems[s] + 2
  BY DEF FinalizationFits
<1> QED
  BY <1>1, <1>2, <1>3, <1>4, PendingIsFew

(* A closing operation that leaves the log room for an admission has       *)
(* reached its end.                                                        *)
LEMMA RoomMeansClosed ==
    ASSUME EngineInv, LedgerRoom(2 * NSinks)',
           \/ \E closed \in SUBSET OpenKeys : CloseKeys(closed)
           \/ CloseStopsAtPending
           \/ ~PendingRoom /\ UNCHANGED <<nextSeq, queueVars, pending, ledgerVars>>
    PROVE  /\ CloseKeys(OpenKeys)
           /\ AllTerminal' /\ DOMAIN pending' = {}
<1> USE DEF EngineInv
<1>1. NSinks \in Nat \ {0} /\ transitions \in Nat /\ MaxLedgerTransitions \in Nat
  BY SinkAssumption, BoundAssumption DEF HoldInv, LedgerInv, TypeOK
<1>2. ~CloseStopsAtPending
  BY PendingIsFew DEF CloseStopsAtPending
<1>3. ~(~PendingRoom /\ UNCHANGED <<nextSeq, queueVars, pending, ledgerVars>>)
  <2> SUFFICES ASSUME transitions' = transitions PROVE PendingRoom
    BY DEF ledgerVars
  <2>1. transitions + 2 * NSinks <= MaxLedgerTransitions
    BY DEF LedgerRoom
  <2>2. CASE Cardinality(DOMAIN pending) = 0
    BY <1>1, <2>1, <2>2 DEF PendingRoom, LedgerRoom
  <2>3. CASE Cardinality(DOMAIN pending) = 1
    BY <1>1, <2>1, <2>3 DEF PendingRoom, LedgerRoom
  <2> QED
    BY <2>2, <2>3, PendingIsFew
<1>4. PICK closed \in SUBSET OpenKeys : CloseKeys(closed)
  BY <1>2, <1>3
<1>5. Closing(closed)
  BY <1>4, CloseKeysCloses DEF HoldInv
<1>6. transitions' # MaxLedgerTransitions
  <2>1. transitions' + 2 * NSinks <= MaxLedgerTransitions /\ transitions' \in Nat
    BY <1>5 DEF LedgerRoom, Closing
  <2>2. 2 * NSinks >= 1 /\ 2 * NSinks \in Nat
    BY <1>1
  <2> QED
    BY <2>1, <2>2, BoundAssumption
<1>7. closed = OpenKeys
  BY <1>4, <1>6 DEF CloseKeys, Closable
<1>8. /\ queue' = [s \in Sinks |-> <<>>]
      /\ inFlight' = [s \in Sinks |-> [e \in Events |-> 0]]
  BY <1>4, <1>7 DEF CloseKeys
<1> QED
  BY <1>4, <1>5, <1>7, <1>8, FullCloseHolds

LEMMA EndsKept ==
    ASSUME EngineInv, EndsInv, FinalizationFits, [EngineNext]_allVars
    PROVE  EndsInv'
<1> SUFFICES ASSUME stage' \in {"Done", "Dropped"}, LedgerRoom(2 * NSinks)'
             PROVE  AllTerminal' /\ DOMAIN pending' = {} /\ phase' \in {"Finished", "Cancelled"}
  BY DEF EndsInv
<1>1. CASE UNCHANGED allVars
  BY <1>1 DEF EndsInv, allVars, engineVars, vars, ledgerVars, LedgerRoom, AllTerminal,
              IncompleteAt
<1>2. CASE TryCancel
  <2>1. CASE phase = "Finished"
    <3>1. UNCHANGED <<ledger, pending, phase>>
      BY <1>2, <2>1 DEF TryCancel, vars, ledgerVars
    <3>2. AllTerminal /\ DOMAIN pending = {}
      BY <2>1 DEF EngineInv, HoldInv, FinishedIsConserved
    <3> QED
      BY <2>1, <3>1, <3>2 DEF AllTerminal, IncompleteAt
  <2>2. CASE phase # "Finished"
    <3>1. cancel
      BY <1>2, <2>2, LimitSuffices DEF TryCancel
    <3> QED
      BY <3>1, RoomMeansClosed DEF cancel
  <2> QED
    BY <2>1, <2>2
<1>3. CASE EndFinish /\ ~finishError
  <2>1. finish
    BY <1>3 DEF EndFinish
  <2>2. /\ CloseKeys(OpenKeys)
        /\ AllTerminal' /\ DOMAIN pending' = {}
    BY <2>1, LimitSuffices, RoomMeansClosed DEF finish
  <2>3. phase' = "Finished"
    <3>1. PICK closed \in SUBSET OpenKeys :
             /\ CloseKeys(closed)
             /\ phase' = IF closed = OpenKeys THEN "Finished" ELSE StopPhase
      BY <2>1, <2>2, LimitSuffices DEF finish, CloseKeys, CloseStopsAtPending
    <3>2. closed = OpenKeys
      <4>1. Closing(closed)
        BY <3>1, CloseKeysCloses DEF EngineInv, HoldInv
      <4>2. transitions' + 2 * NSinks <= MaxLedgerTransitions /\ transitions' \in Nat
        BY <4>1 DEF LedgerRoom, Closing
      <4>3. 2 * NSinks >= 1 /\ 2 * NSinks \in Nat
        BY SinkAssumption
      <4>4. transitions' # MaxLedgerTransitions
        BY <4>2, <4>3, BoundAssumption
      <4> QED
        BY <3>1, <4>4 DEF CloseKeys, Closable
    <3> QED
      BY <3>1, <3>2
  <2> QED
    BY <2>2, <2>3
<1>4. CASE EndFinish \/ DropEngine
  BY <1>2, <1>3, <1>4 DEF EndFinish, DropEngine
<1>5. ~RequestCancel /\ ~BeginOperation /\ ~NothingToLease /\ ~OperationRefused
  BY DEF RequestCancel, BeginOperation, NothingToLease, OperationRefused, LeaveDelivery,
         InDelivery
<1>6. /\ ~StartRouter /\ ~StartSink /\ ~StartSinkFails /\ ~EndSampling /\ ~BeginFinish
      /\ ~FlushSink /\ ~FinishSink
  BY DEF StartRouter, StartSink, StartSinkFails, EndSampling, BeginFinish, FlushSink,
         FinishSink, CloseSink
<1>7. /\ \A e \in Events : ~AdmitResult(e)
      /\ \A s \in Sinks, e \in Events : ~TakeLease(s, e)
  BY DEF AdmitResult, TakeLease, InDelivery
<1>8. ~SinkAcknowledges /\ ~SinkRetries
  BY DEF SinkAcknowledges, SinkRetries, Processing, LeaveDelivery, InDelivery
<1>9. ~OperationExpires /\ \A reason \in FailureReasons : ~SinkFails(reason)
  BY DEF OperationExpires, SinkFails, FailDelivery, Processing, LeaveDelivery, InDelivery
<1> QED
  BY <1>1, <1>4, <1>5, <1>6, <1>7, <1>8, <1>9 DEF EngineNext, Engine, Deliver

(* When the engine future has returned or was dropped, at whichever await, *)
(* every accepted event is accounted for and the router is closed: the     *)
(* finalization limit SinkLimits::new derives, two steps more than the     *)
(* queue's items, never refuses the closing operation.                     *)
THEOREM RunsEndAccounted ==
    ASSUME FinalizationFits
    PROVE  EngineSpec => []RunEndsAccounted
<1>1. EngineInit => EndsInv
  BY DEF EngineInit, EndsInv
<1>2. EngineInv /\ EndsInv /\ [EngineNext]_allVars => EndsInv'
  BY EndsKept
<1>3. EngineInv /\ EndsInv => RunEndsAccounted
  BY DEF EngineInv, EndsInv, RunEndsAccounted
<1> QED
  BY <1>1, <1>2, <1>3, EngineInvariant, PTL DEF EngineSpec

=============================================================================

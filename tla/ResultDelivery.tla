--------------------------- MODULE ResultDelivery ---------------------------
(***************************************************************************)
(* One run of the engine over the typed result router: RuntimeEngine::run  *)
(* (crates/runtime/src/lifecycle.rs) drives TypedResultRouterAdapter       *)
(* (crates/runtime/src/result_router.rs), which starts the sinks, admits   *)
(* results, leases them to sinks, and flushes, finishes or cancels.        *)
(*                                                                         *)
(* Each await of the engine future is a separate step.  Between two steps  *)
(* the run's cancellation token may be raised, and the whole future may be *)
(* dropped, which runs EngineRunDropGuard::drop.  Sinks are external: each *)
(* call of theirs succeeds or fails as it likes.  Deadlines are not clocked*)
(* here: a check of an operation lease may find it expired at any time.    *)
(***************************************************************************)
EXTENDS ResultRouter

CONSTANT RetryAttempts   \* max_retry_attempts of the ResultDeliveryBudget

ASSUME RetryAssumption ==
    RetryAttempts \in Nat /\ RetryAttempts < MaxAttempts

VARIABLES
    stage,        \* where the engine future is suspended
    todo,         \* next sink of the start, flush and finish loops
    lease,        \* delivery lease held by deliver_inner
    operating,    \* its operation lease was granted
    started,      \* sinks whose start() succeeded
    sinkState,    \* what the sink saw last
    written,      \* events each sink has made durable
    retriesLeft,  \* SharedAttemptLedger.remaining
    cancelled,    \* the run's cancellation token
    runError,     \* run_inner returned an error
    finishError   \* finish() has recorded a primary error

engineVars == <<stage, todo, lease, operating, started, sinkState, written,
                retriesLeft, cancelled, runError, finishError>>
allVars == <<vars, engineVars>>

NoDelivery == [sink |-> 0, event |-> 0, attempt |-> 0]

Stages == {"Idle", "Starting", "Running", "Delivering", "Finishing", "Draining",
           "Flushing", "Closing", "Ending", "Done", "Dropped"}

(* Type invariant of the engine's part of the state.                       *)
EngineTypeOK ==
    /\ stage \in Stages
    /\ todo \in Sinks
    /\ lease \in [sink : Sinks, event : 0 .. MaxEvents, attempt : 0 .. MaxAttempts]
    /\ started \subseteq Sinks
    /\ sinkState \in [Sinks -> {"idle", "open", "flushed", "finished", "cancelled"}]
    /\ written \in [Sinks -> SUBSET Events]
    /\ retriesLeft \in 0 .. RetryAttempts
    /\ {operating, cancelled, runError, finishError} \subseteq BOOLEAN

EngineInit ==
    /\ Init
    /\ stage = "Idle"
    /\ todo = 0
    /\ lease = NoDelivery
    /\ operating = FALSE
    /\ started = {}
    /\ sinkState = [s \in Sinks |-> "idle"]
    /\ written = [s \in Sinks |-> {}]
    /\ retriesLeft = RetryAttempts
    /\ cancelled = FALSE
    /\ runError = FALSE
    /\ finishError = FALSE

(* Mutants: the router is not cancelled; the sinks are not.                *)
TryCancelNever == UNCHANGED vars
CancelNone     == UNCHANGED sinkState

(* The router's cancel, which changes nothing when it is refused.          *)
TryCancel == IF phase # "Finished" /\ FinalizationCapacity THEN cancel ELSE UNCHANGED vars

CancelStarted ==
    sinkState' = [s \in Sinks |-> IF s \in started THEN "cancelled" ELSE sinkState[s]]

-----------------------------------------------------------------------------
(* Start and sampling.                                                     *)

(* The loops over the sinks end after the last one.                        *)
LastSink == todo + 1 = NSinks

StartRouter ==
    /\ stage = "Idle"
    /\ start
    /\ stage' = "Starting"
    /\ UNCHANGED <<todo, lease, operating, started, sinkState, written,
                   retriesLeft, cancelled, runError, finishError>>

StartSink ==
    /\ stage = "Starting"
    /\ ~cancelled
    /\ started' = started \cup {todo}
    /\ sinkState' = [sinkState EXCEPT ![todo] = "open"]
    /\ IF LastSink THEN stage' = "Running" /\ todo' = 0
                            ELSE stage' = stage /\ todo' = todo + 1
    /\ UNCHANGED <<vars, lease, operating, written, retriesLeft, cancelled,
                   runError, finishError>>

(* A sink refuses to start, or its operation lease is refused.             *)
StartSinkFails ==
    /\ stage = "Starting"
    /\ CancelStarted
    /\ TryCancel
    /\ stage' = "Finishing"
    /\ runError' = TRUE
    /\ UNCHANGED <<todo, lease, operating, started, written, retriesLeft,
                   cancelled, finishError>>

(* route_event: an event that is not accepted is an error of the run.      *)
AdmitResult(e) ==
    /\ stage = "Running"
    /\ admit(e)
    /\ runError' = (runError \/ ledger'[0][e] # "Queued")
    /\ UNCHANGED <<stage, todo, lease, operating, started, sinkState, written,
                   retriesLeft, cancelled, finishError>>

EndSampling ==
    /\ stage = "Running"
    /\ stage' = "Delivering"
    /\ UNCHANGED <<vars, todo, lease, operating, started, sinkState, written,
                   retriesLeft, cancelled, runError, finishError>>

-----------------------------------------------------------------------------
(* deliver_inner, run by deliver() in stage "Delivering" and by            *)
(* deliver_finalization() in stage "Draining".                             *)

InDelivery == stage \in {"Delivering", "Draining"}

(* Return from deliver_inner, with or without an error.                    *)
LeaveDelivery(err) ==
    /\ lease' = NoDelivery
    /\ operating' = FALSE
    /\ IF stage = "Delivering"
       THEN stage' = "Finishing" /\ runError' = (runError \/ err) /\ UNCHANGED finishError
       ELSE stage' = "Flushing" /\ finishError' = (finishError \/ err) /\ UNCHANGED runError
    /\ UNCHANGED <<todo, started, sinkState, cancelled>>

TakeLease(s, e) ==
    /\ InDelivery /\ lease = NoDelivery
    /\ phase \notin {"Cancelled", "Finished"}
    /\ Lease(s, e)
    /\ lease' = [sink |-> s, event |-> e, attempt |-> attempts[s][e]]
    /\ UNCHANGED <<stage, todo, operating, started, sinkState, written,
                   retriesLeft, cancelled, runError, finishError>>

(* Mutant: an empty router still promises a lease.                         *)
CanLeaseAlways == TRUE

CanLease ==
    /\ LedgerRoom(1)
    /\ \E s \in Sinks : NextSink(s) /\ ledger[s][Head(queue[s])] = "Queued"

(* next_delivery has nothing to lease, or fails.                           *)
NothingToLease ==
    /\ InDelivery /\ lease = NoDelivery
    /\ phase \in {"Cancelled", "Finished"} \/ ~CanLease
    /\ phase' = DrainPhase
    /\ LeaveDelivery(/\ phase \notin {"Cancelled", "Finished"}
                     /\ \E s \in Sinks : Deliverable(s))
    /\ UNCHANGED <<nextSeq, cursor, budget, queueVars, failed, pending, ledgerVars,
                   written, retriesLeft>>

BeginOperation ==
    /\ InDelivery /\ lease # NoDelivery /\ ~operating
    /\ stage = "Delivering" => ~cancelled
    /\ operating' = TRUE
    /\ UNCHANGED <<vars, stage, todo, lease, started, sinkState, written,
                   retriesLeft, cancelled, runError, finishError>>

(* Mutant: the refusal is not an error.                                    *)
OperationRefusedQuietly ==
    /\ InDelivery /\ lease # NoDelivery /\ ~operating
    /\ LeaveDelivery(FALSE)
    /\ UNCHANGED <<vars, written, retriesLeft>>

(* The budget refuses the operation: deliver_inner returns and the lease   *)
(* stays in flight in the router.                                          *)
OperationRefused ==
    /\ InDelivery /\ lease # NoDelivery /\ ~operating
    /\ LeaveDelivery(TRUE)
    /\ UNCHANGED <<vars, written, retriesLeft>>

Processing == InDelivery /\ operating

(* fail_delivery: the router's fail, whose own error is only appended.     *)
FailDelivery(reason) ==
    LET s == lease.sink
        e == lease.event
    IN  /\ \/ fail_terminal(s, e, reason)
           \/ /\ ~LedgerRoom(Cardinality(QueuedAt(s)) + Cardinality(InFlightAt(s)))
              /\ UNCHANGED vars
        /\ LeaveDelivery(TRUE)

SinkAcknowledges ==
    /\ Processing
    /\ written' = [written EXCEPT ![lease.sink] = @ \cup {lease.event}]
    /\ UNCHANGED retriesLeft
    /\ \/ /\ acknowledge(lease.sink, lease.event, lease.attempt)
          /\ lease' = NoDelivery
          /\ operating' = FALSE
          /\ UNCHANGED <<stage, todo, started, sinkState, cancelled, runError, finishError>>
       \/ ~LedgerRoom(1) /\ UNCHANGED vars /\ LeaveDelivery(TRUE)

(* A retryable outcome with an attempt left in the shared budget.          *)
SinkRetries ==
    /\ Processing
    /\ stage = "Delivering" => ~cancelled
    /\ retriesLeft > 0
    /\ retriesLeft' = retriesLeft - 1
    /\ UNCHANGED written
    /\ \/ /\ LedgerRoom(3)
          /\ retry_for_operation(lease.sink, lease.event)
          /\ lease' = [lease EXCEPT !.attempt = attempts[lease.sink][lease.event] + 1]
          /\ UNCHANGED <<stage, todo, operating, started, sinkState, cancelled,
                         runError, finishError>>
       \/ /\ ~LedgerRoom(3)
          /\ retry_for_operation(lease.sink, lease.event)
             \/ (~LedgerRoom(1) /\ UNCHANGED vars)
          /\ LeaveDelivery(TRUE)

(* The operation lease fails its check, or a retryable outcome finds the   *)
(* shared attempts exhausted.                                              *)
OperationExpires ==
    /\ Processing
    /\ FailDelivery("Cancelled")
    /\ UNCHANGED <<written, retriesLeft>>

(* Any other sink error; an unknown outcome may have written the event.    *)
SinkFails(reason) ==
    /\ Processing
    /\ FailDelivery(reason)
    /\ \/ UNCHANGED written
       \/ /\ reason = "UnknownOutcome"
          /\ written' = [written EXCEPT ![lease.sink] = @ \cup {lease.event}]
    /\ UNCHANGED retriesLeft

-----------------------------------------------------------------------------
(* finish().                                                               *)

(* Mutant: admission is stopped in whatever phase the router is.           *)
StopRouterAlways ==
    /\ phase' = "AdmissionStopped"
    /\ UNCHANGED <<nextSeq, cursor, budget, queueVars, failed, pending, ledgerVars>>

StopRouter ==
    IF phase = "Open" THEN stop_admission ELSE UNCHANGED vars

(* begin_finalization, which an expired run deadline refuses, and          *)
(* stop_admission, which is an error in the phases New, Cancelled, Failed. *)
BeginFinish ==
    /\ stage = "Finishing"
    /\ StopRouter
    /\ \/ /\ stage' = "Draining"
          /\ finishError' = (phase \in {"New", "Cancelled", "Failed"})
       \/ /\ stage' = "Ending"
          /\ finishError' = TRUE
    /\ todo' = 0
    /\ UNCHANGED <<lease, operating, started, sinkState, written, retriesLeft,
                   cancelled, runError>>

(* One sink of the flush loop or of the finish loop; a failing sink does   *)
(* not keep the others from their turn.                                    *)
CloseSink(here, next, reached) ==
    /\ stage = here
    /\ \/ /\ todo \in started
          /\ sinkState' = [sinkState EXCEPT ![todo] = reached]
          /\ UNCHANGED finishError
       \/ todo \in started /\ finishError' = TRUE /\ UNCHANGED sinkState
       \/ todo \notin started /\ UNCHANGED <<sinkState, finishError>>
    /\ IF LastSink THEN stage' = next /\ todo' = 0
                            ELSE stage' = stage /\ todo' = todo + 1
    /\ UNCHANGED <<vars, lease, operating, started, written, retriesLeft,
                   cancelled, runError>>

FlushSink  == CloseSink("Flushing", "Closing", "flushed")
FinishSink == CloseSink("Closing", "Ending", "finished")

(* After an error everything is cancelled; otherwise the router finishes.  *)
EndFinish ==
    /\ stage = "Ending"
    /\ stage' = "Done"
    /\ IF finishError
       THEN TryCancel /\ CancelStarted /\ UNCHANGED finishError
       ELSE /\ finish
            /\ finishError' = (phase' # "Finished")
            /\ UNCHANGED sinkState
    /\ UNCHANGED <<todo, lease, operating, started, written, retriesLeft,
                   cancelled, runError>>

-----------------------------------------------------------------------------
(* The environment.                                                        *)

RequestCancel ==
    /\ ~cancelled
    /\ stage \notin {"Done", "Dropped"}
    /\ cancelled' = TRUE
    /\ UNCHANGED <<vars, stage, todo, lease, operating, started, sinkState, written,
                   retriesLeft, runError, finishError>>

(* The engine future is dropped while it is suspended in a sink call, in   *)
(* sampling or before its first poll: EngineRunDropGuard cancels.          *)
DropEngine ==
    /\ stage \in {"Idle", "Starting", "Running", "Flushing", "Closing"} \/ Processing
    /\ TryCancel
    /\ CancelStarted
    /\ stage' = "Dropped"
    /\ cancelled' = TRUE
    /\ lease' = NoDelivery
    /\ operating' = FALSE
    /\ UNCHANGED <<todo, started, written, retriesLeft, runError, finishError>>

Deliver ==
    \/ \E s \in Sinks, e \in Events : TakeLease(s, e)
    \/ NothingToLease
    \/ BeginOperation
    \/ OperationRefused
    \/ SinkAcknowledges
    \/ SinkRetries
    \/ OperationExpires
    \/ \E reason \in FailureReasons : SinkFails(reason)

Engine ==
    \/ StartRouter \/ StartSink \/ StartSinkFails
    \/ EndSampling
    \/ Deliver
    \/ BeginFinish \/ FlushSink \/ FinishSink \/ EndFinish

EngineNext ==
    \/ Engine
    \/ \E e \in Events : AdmitResult(e)
    \/ RequestCancel
    \/ DropEngine

(* The executor keeps polling the engine future, sampling ends, and every  *)
(* sink call returns because its operation lease has a deadline.           *)
EngineSpec == EngineInit /\ [][EngineNext]_allVars /\ WF_allVars(Engine)

-----------------------------------------------------------------------------
(* Properties.                                                             *)

(* When the engine future has returned or was dropped, every accepted      *)
(* event is accounted for and the router is closed, whichever await the    *)
(* run was stopped at ("a dropped engine future cannot silently lose a     *)
(* reservation"), unless the ledger's transition log has no room left for  *)
(* the pending admission.                                                  *)
RunEndsAccounted ==
    /\ EngineTypeOK
    /\ stage \in {"Done", "Dropped"} /\ LedgerRoom(2 * NSinks) =>
         /\ AllTerminal
         /\ DOMAIN pending = {}
         /\ phase \in {"Finished", "Cancelled"}

(* A run that reports success has made every admitted event durable at     *)
(* every sink, and the sinks really wrote it.                              *)
SuccessMeansDurable ==
    stage = "Done" /\ ~runError /\ ~finishError =>
        \A s \in Sinks, e \in Events : e < nextSeq =>
            ledger[s][e] = "Durable" /\ e \in written[s]

(* No started sink is left open when the engine is gone.                   *)
NoSinkLeaked ==
    stage \in {"Done", "Dropped"} =>
        \A s \in started : sinkState[s] \in {"finished", "cancelled"}

(* The engine's part of the system uses the router only through its        *)
(* operations: every behaviour of the run is a behaviour of the router.    *)
RefinesRouter == Spec

(* finish() and the retries are bounded: a run that was started ends.      *)
RunTerminates == stage = "Starting" ~> stage \in {"Done", "Dropped"}
=============================================================================

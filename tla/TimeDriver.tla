----------------------------- MODULE TimeDriver -----------------------------
(***************************************************************************)
(* The run-owned TimeDriver: futures that register deadlines, the worker   *)
(* thread that fires them, and the owner that finalizes the driver, at the *)
(* granularity of the mutexes.                                             *)
(*                                                                         *)
(* A registration is a future that sleeps once (TimeSleepFuture, or a      *)
(* provider's wait): it is known to the driver's map of wakes and to the   *)
(* run's wait registry.  The condition variable `wake` is the set of       *)
(* threads asleep on it.  The event epoch is kept as one bit: whether it   *)
(* moved since the worker read it.                                         *)
(***************************************************************************)
EXTENDS Integers, FiniteSets

CONSTANTS
    Regs,              \* registrations, each made once by its own future
    MaxRegistrations,  \* limits.max_registrations
    ClockFails,        \* fault model: whether the clock source may fail
    MaxTime            \* model bound: last instant of the clock

Worker == "worker"
Owner  == "owner"             \* the thread that calls finalize

ASSUME TimeDriverAssumption ==
    /\ Regs \cap {Worker, Owner} = {}
    /\ {MaxRegistrations, MaxTime} \subseteq Nat \ {0}
    /\ ClockFails \in BOOLEAN

Instants == 0 .. MaxTime
NoBound  == MaxTime + 1       \* a wait without a timeout

VARIABLES
    clock,     \* the clock source
    wait,      \* WaitState: stopped, inFlight, moved (wake_epoch), failed
    asleep,    \* threads waiting on the condition variable
    wakes,     \* the scheduler's map: registrations with a wake record
    deadline,  \* deadline[r]
    registry,  \* the wait registry: entries, shut
    token,     \* token[r]: wake_ready, a waker registered, the future woken
    pc,        \* where each thread is
    now,       \* the scheduler's now, which is the worker's last reading
    due,       \* worker: records it took from the map and has not completed
    firing,    \* worker: the record whose token it is about to wake
    bound,     \* worker: the instant its wait times out
    shutdown,  \* the scheduler's shutdown: started, taken records, done
    result     \* result of finalize

vars == <<clock, wait, asleep, wakes, deadline, registry, token, pc,
          now, due, firing, bound, shutdown, result>>

regVars    == <<wakes, deadline, registry, token>>
workerVars == <<now, due, firing, bound>>

Stopping     == {"drain", "sched", "schedWait", "retire"}
FuturePlaces == {"idle", "admitted", "waited", "inserted", "rejected", "pending",
                 "subscribed", "parked", "retiring", "taken", "takenBack", "retired",
                 "done"}
WorkerPlaces == Stopping \cup {"loop", "advance", "deliver", "wake", "epoch",
                               "deadline", "sleep", "asleep", "done"}
OwnerPlaces  == Stopping \cup {"idle", "join", "done"}

(* Type invariant.                                                         *)
TypeOK ==
    /\ {clock, now} \subseteq Instants /\ bound \in 0 .. NoBound
    /\ wait \in [stopped : BOOLEAN, inFlight : 0 .. MaxRegistrations,
                 moved : BOOLEAN, failed : BOOLEAN]
    /\ asleep \subseteq {Worker, Owner}
    /\ wakes \cup due \cup firing \subseteq Regs
    /\ registry \in [entries : SUBSET Regs, shut : BOOLEAN]
    /\ shutdown \in [started : BOOLEAN, taken : SUBSET Regs, done : BOOLEAN]
    /\ deadline \in [Regs -> Instants]
    /\ token \in [Regs -> [ready : BOOLEAN, subscribed : BOOLEAN, woken : BOOLEAN]]
    /\ pc \in [Regs \cup {Worker, Owner} -> FuturePlaces \cup WorkerPlaces \cup OwnerPlaces]
    /\ \A r \in Regs : pc[r] \in FuturePlaces
    /\ pc[Worker] \in WorkerPlaces /\ pc[Owner] \in OwnerPlaces
    /\ result \in {"none", "Ok", "Err"}

NewToken == [ready |-> FALSE, subscribed |-> FALSE, woken |-> FALSE]

Init ==
    /\ clock = 0 /\ now = 0
    /\ wait = [stopped |-> FALSE, inFlight |-> 0, moved |-> FALSE, failed |-> FALSE]
    /\ asleep = {}
    /\ wakes = {} /\ due = {} /\ firing = {} /\ bound = NoBound
    /\ deadline = [r \in Regs |-> 0]
    /\ registry = [entries |-> {}, shut |-> FALSE]
    /\ token = [r \in Regs |-> NewToken]
    /\ pc = [t \in Regs \cup {Worker, Owner} |->
               IF t = Worker THEN "loop" ELSE "idle"]
    /\ shutdown = [started |-> FALSE, taken |-> {}, done |-> FALSE]
    /\ result = "none"

-----------------------------------------------------------------------------
(* Shared steps.                                                           *)

Goto(t, place) == pc' = [pc EXCEPT ![t] = place]

(* notify_all on the condition variable: the worker that slept in its loop *)
(* starts over, who waits in begin_shutdown looks again (Drain).           *)
Notify(t, place) ==
    /\ asleep' = {}
    /\ pc' = [u \in DOMAIN pc |-> IF u = t THEN place
                ELSE IF u = Worker /\ pc[u] = "asleep" THEN "loop" ELSE pc[u]]

(* CancellationToken::wake: wake_ready is set, then the registered waker   *)
(* is consumed and woken.                                                  *)
Ready(tok)     == [tok EXCEPT !.ready = TRUE]
WakeLocal(tok) == [tok EXCEPT !.woken = @ \/ tok.subscribed, !.subscribed = FALSE]

(* WaitRegistration::retire and complete fail once the registry is shut.   *)
Retire(r) == registry' = [registry EXCEPT !.entries = @ \ {r}]

-----------------------------------------------------------------------------
(* A future and its registration.                                          *)

Occupied == Cardinality(wakes) + wait.inFlight

(* The first poll of a sleep that is not over: TimeDriverHandle::register, *)
(* admission under the wait lock.                                          *)
Admit(r, d) ==
    /\ pc[r] = "idle"
    /\ d > clock
    /\ ~wait.stopped /\ ~wait.failed
    /\ Occupied < MaxRegistrations
    /\ wait' = [wait EXCEPT !.inFlight = @ + 1]
    /\ deadline' = [deadline EXCEPT ![r] = d]
    /\ Goto(r, "admitted")
    /\ UNCHANGED <<clock, workerVars, asleep, wakes, registry, token, shutdown, result>>

(* register_wake_as: the wait registry first; its callback notifies.       *)
RegisterWait(r) ==
    /\ pc[r] = "admitted"
    /\ registry' = [registry EXCEPT !.entries = @ \cup {r}]
    /\ Notify(r, "waited")
    /\ UNCHANGED <<clock, workerVars, wait, wakes, deadline, token, shutdown, result>>

(* register_wake_as: then the record; an expired one wakes its token.      *)
Insert(r) ==
    /\ pc[r] = "waited"
    /\ wakes' = wakes \cup {r}
    /\ token' = [token EXCEPT ![r] =
                   IF deadline[r] <= now THEN WakeLocal(Ready(@)) ELSE @]
    /\ Notify(r, "inserted")
    /\ UNCHANGED <<clock, workerVars, wait, deadline, registry, shutdown, result>>

(* Mutant: the event epoch is not advanced.                                *)
FinishQuietly(r) ==
    /\ pc[r] = "inserted"
    /\ wait' = [wait EXCEPT !.inFlight = @ - 1]
    /\ Goto(r, IF wait.stopped THEN "rejected" ELSE "pending")
    /\ UNCHANGED <<clock, workerVars, asleep, regVars, shutdown, result>>

(* register, after the scheduler: refused if a stop came meanwhile.        *)
Finish(r) ==
    /\ pc[r] = "inserted"
    /\ wait' = [wait EXCEPT !.inFlight = @ - 1, !.moved = TRUE]
    /\ Notify(r, IF wait.stopped THEN "rejected" ELSE "pending")
    /\ UNCHANGED <<clock, workerVars, regVars, shutdown, result>>

(* TimeSleepFuture::poll: the waker is registered ...                      *)
Subscribe(r) ==
    /\ pc[r] = "pending"
    /\ token' = [token EXCEPT ![r].subscribed = TRUE]
    /\ Goto(r, "subscribed")
    /\ UNCHANGED <<clock, workerVars, wait, asleep, wakes, deadline, registry, shutdown, result>>

(* Mutant: the wake-up bit and the record are not looked at again.         *)
RecheckNever(r) == FALSE

(* ... and then the record and the wake-up bit are looked at again.        *)
Recheck(r) == r \notin wakes \/ token[r].ready

Park(r) ==
    /\ pc[r] = "subscribed"
    /\ token' = [token EXCEPT ![r].ready = FALSE, ![r].woken = @ \/ Recheck(r)]
    /\ Goto(r, "parked")
    /\ UNCHANGED <<clock, workerVars, wait, asleep, wakes, deadline, registry, shutdown, result>>

(* The next poll: the sleep is over, or the future waits on.               *)
Poll(r) ==
    /\ pc[r] = "parked" /\ token[r].woken
    /\ token' = [token EXCEPT ![r].woken = FALSE]
    /\ Goto(r, IF deadline[r] <= clock THEN "retiring" ELSE "pending")
    /\ UNCHANGED <<clock, workerVars, wait, asleep, wakes, deadline, registry, shutdown, result>>

(* The future is dropped while it waits, or its poll meets a stop signal   *)
(* or a failing clock.                                                     *)
Abandon(r) ==
    /\ pc[r] = "parked"
    /\ Goto(r, "retiring")
    /\ UNCHANGED <<clock, workerVars, wait, asleep, regVars, shutdown, result>>

(* cancel_registration, and the end of a refused register: whoever takes   *)
(* the record from the map retires its wait and wakes its token.           *)
CancelTake(r) ==
    /\ pc[r] \in {"retiring", "rejected"}
    /\ wakes' = wakes \ {r}
    /\ Goto(r, CASE pc[r] = "retiring" -> IF r \in wakes THEN "taken" ELSE "retired"
               [] pc[r] = "rejected" -> IF r \in wakes THEN "takenBack" ELSE "done")
    /\ UNCHANGED <<clock, workerVars, wait, asleep, deadline, registry, token, shutdown, result>>

(* An error of retire is recorded and ends the cancellation at once.       *)
CancelRetire(r) ==
    /\ pc[r] \in {"taken", "takenBack"}
    /\ Retire(r)
    /\ wait' = [wait EXCEPT !.failed = @ \/ registry.shut]
    /\ token' = [token EXCEPT ![r] = NewToken]
    /\ Notify(r, IF pc[r] = "taken" /\ ~registry.shut THEN "retired" ELSE "done")
    /\ UNCHANGED <<clock, workerVars, wakes, deadline, shutdown, result>>

Cancelled(r) ==
    /\ pc[r] = "retired"
    /\ wait' = [wait EXCEPT !.moved = TRUE]
    /\ token' = [token EXCEPT ![r] = NewToken]
    /\ Notify(r, "done")
    /\ UNCHANGED <<clock, workerVars, wakes, deadline, registry, shutdown, result>>

-----------------------------------------------------------------------------
(* begin_shutdown, by the worker or by a finalizer.                        *)

(* Mutant: the registrations in flight are not waited for.                 *)
BeginShutdownAtOnce(t, error) ==
    /\ wait' = [wait EXCEPT !.stopped = TRUE, !.moved = @ \/ ~wait.stopped,
                            !.failed = @ \/ error]
    /\ Notify(t, "sched")

(* Admission ends; wait for the registrations in flight.                   *)
begin_shutdown(t, error) ==
    /\ wait' = [wait EXCEPT !.stopped = TRUE, !.moved = @ \/ ~wait.stopped,
                            !.failed = @ \/ error]
    /\ IF wait.inFlight # 0
       THEN Goto(t, "drain") /\ asleep' = asleep \cup {t}
       ELSE Notify(t, "sched")

Drain(t) ==
    /\ pc[t] = "drain" /\ t \notin asleep
    /\ IF wait.inFlight # 0
       THEN asleep' = asleep \cup {t} /\ UNCHANGED pc
       ELSE Notify(t, "sched")
    /\ UNCHANGED <<clock, workerVars, wait, regVars, shutdown, result>>

(* DriverScheduler::shutdown: the first caller takes every record, the     *)
(* others wait for its result.                                             *)
SchedulerShutdown(t) ==
    /\ pc[t] = "sched"
    /\ IF shutdown.started
       THEN Goto(t, "schedWait") /\ UNCHANGED <<wakes, shutdown>>
       ELSE /\ shutdown' = [shutdown EXCEPT !.started = TRUE, !.taken = wakes]
            /\ wakes' = {}
            /\ Goto(t, "retire")
    /\ UNCHANGED <<clock, workerVars, wait, asleep, deadline, registry, token, result>>

RetireTaken(t, r) ==
    /\ pc[t] = "retire" /\ r \in shutdown.taken
    /\ shutdown' = [shutdown EXCEPT !.taken = @ \ {r}]
    /\ Retire(r)
    /\ token' = [token EXCEPT ![r] = WakeLocal(Ready(@))]
    /\ Notify(t, "retire")
    /\ UNCHANGED <<clock, workerVars, wait, wakes, deadline, result>>

AfterShutdown(t) == IF t = Worker THEN "done" ELSE "join"

(* WaitRegistry::shutdown, then the result for the callers that wait.      *)
CloseRegistry(t) ==
    /\ pc[t] = "retire" /\ shutdown.taken = {}
    /\ registry' = [entries |-> {}, shut |-> TRUE]
    /\ shutdown' = [shutdown EXCEPT !.done = TRUE]
    /\ Notify(t, AfterShutdown(t))
    /\ UNCHANGED <<clock, workerVars, wait, wakes, deadline, token, result>>

AwaitShutdown(t) ==
    /\ pc[t] = "schedWait" /\ shutdown.done
    /\ Goto(t, AfterShutdown(t))
    /\ UNCHANGED <<clock, workerVars, wait, asleep, regVars, shutdown, result>>

ShutdownStep(t) ==
    \/ Drain(t) \/ SchedulerShutdown(t) \/ (\E r \in Regs : RetireTaken(t, r))
    \/ CloseRegistry(t) \/ AwaitShutdown(t)

-----------------------------------------------------------------------------
(* finalize: shut down, then join the worker.                              *)

Finalize ==
    /\ pc[Owner] = "idle"
    /\ begin_shutdown(Owner, FALSE)
    /\ UNCHANGED <<clock, workerVars, regVars, shutdown, result>>

Join ==
    /\ pc[Owner] = "join" /\ pc[Worker] = "done"
    /\ result' = IF wait.failed THEN "Err" ELSE "Ok"
    /\ Goto(Owner, "done")
    /\ UNCHANGED <<clock, workerVars, wait, asleep, regVars, shutdown>>

-----------------------------------------------------------------------------
(* worker_main.                                                            *)

(* The reading becomes the scheduler's clock (advance_to) at once.         *)
WorkerLoop ==
    /\ pc[Worker] = "loop"
    /\ bound' = NoBound
    /\ IF wait.stopped THEN begin_shutdown(Worker, FALSE) /\ UNCHANGED now
       ELSE /\ now' = clock
            /\ Goto(Worker, "advance")
            /\ UNCHANGED <<wait, asleep>>
    /\ UNCHANGED <<clock, due, firing, regVars, shutdown, result>>

(* Shared::read fails.                                                     *)
WorkerReadFails ==
    /\ ClockFails
    /\ pc[Worker] = "loop" /\ ~wait.stopped
    /\ begin_shutdown(Worker, TRUE)
    /\ UNCHANGED <<clock, workerVars, regVars, shutdown, result>>

(* advance_to: the expired records are taken from the map, then each of    *)
(* them is completed and its token woken.                                  *)
TakeDue ==
    /\ pc[Worker] = "advance"
    /\ due' = {r \in wakes : deadline[r] <= now}
    /\ wakes' = wakes \ due'
    /\ Goto(Worker, "deliver")
    /\ UNCHANGED <<clock, now, firing, bound, wait, asleep, deadline, registry, token,
                   shutdown, result>>

(* A wait the registry no longer knows is an error of the advance, and the *)
(* driver's; the token is woken all the same.                              *)
Complete(r) ==
    /\ pc[Worker] = "deliver" /\ r \in due
    /\ due' = due \ {r}
    /\ firing' = {r}
    /\ Retire(r)
    /\ wait' = [wait EXCEPT !.failed = @ \/ registry.shut]
    /\ token' = [token EXCEPT ![r] = Ready(@)]
    /\ Notify(Worker, "wake")
    /\ UNCHANGED <<clock, now, bound, wakes, deadline, shutdown, result>>

Fire ==
    /\ pc[Worker] = "wake"
    /\ token' = [r \in Regs |-> IF r \in firing THEN WakeLocal(token[r]) ELSE token[r]]
    /\ firing' = {}
    /\ Goto(Worker, "deliver")
    /\ UNCHANGED <<clock, now, due, bound, wait, asleep, wakes, deadline, registry,
                   shutdown, result>>

Advanced ==
    /\ pc[Worker] = "deliver" /\ due = {}
    /\ IF wait.stopped THEN begin_shutdown(Worker, FALSE)
       ELSE Goto(Worker, "epoch") /\ UNCHANGED <<wait, asleep>>
    /\ UNCHANGED <<clock, workerVars, regVars, shutdown, result>>

(* Before it sleeps the worker reads the epoch, then the next deadline,    *)
(* then compares the epoch under the lock it sleeps with.                  *)
ReadEpoch ==
    /\ pc[Worker] = "epoch"
    /\ wait' = [wait EXCEPT !.moved = FALSE]
    /\ Goto(Worker, "deadline")
    /\ UNCHANGED <<clock, workerVars, asleep, regVars, shutdown, result>>

(* The first deadline, unless it lies before the instant advanced to: the  *)
(* wait then has no timeout.                                               *)
NextDeadline ==
    LET first == CHOOSE d \in {deadline[r] : r \in wakes} : \A r \in wakes : d <= deadline[r]
    IN  IF wakes = {} \/ first < now THEN NoBound ELSE first

ReadDeadline ==
    /\ pc[Worker] = "deadline"
    /\ bound' = NextDeadline
    /\ Goto(Worker, "sleep")
    /\ UNCHANGED <<clock, now, due, firing, wait, asleep, regVars, shutdown, result>>

(* Mutant: the epoch is not compared.                                      *)
MovedNever == wait.stopped

Moved == wait.stopped \/ wait.moved

Sleep ==
    /\ pc[Worker] = "sleep"
    /\ IF Moved THEN Goto(Worker, "loop") /\ UNCHANGED asleep
       ELSE Goto(Worker, "asleep") /\ asleep' = asleep \cup {Worker}
    /\ UNCHANGED <<clock, workerVars, wait, regVars, shutdown, result>>

(* The wait times out.                                                     *)
Timeout ==
    /\ pc[Worker] = "asleep" /\ Worker \in asleep
    /\ bound <= clock
    /\ asleep' = asleep \ {Worker}
    /\ Goto(Worker, "loop")
    /\ UNCHANGED <<clock, workerVars, wait, regVars, shutdown, result>>

-----------------------------------------------------------------------------
(* Clock::now on a failing source stops the driver (read_lossy).           *)
LossyReadFails ==
    /\ ClockFails
    /\ ~wait.stopped
    /\ wait' = [wait EXCEPT !.stopped = TRUE, !.failed = TRUE, !.moved = TRUE]
    /\ Notify(Worker, IF pc[Worker] = "asleep" THEN "loop" ELSE pc[Worker])
    /\ UNCHANGED <<clock, workerVars, regVars, shutdown, result>>

Tick ==
    /\ clock < MaxTime
    /\ clock' = clock + 1
    /\ UNCHANGED <<workerVars, wait, asleep, regVars, pc, shutdown, result>>

FutureStep(r) ==
    \/ RegisterWait(r) \/ Insert(r) \/ Finish(r) \/ Subscribe(r) \/ Park(r) \/ Poll(r)
    \/ CancelTake(r) \/ CancelRetire(r) \/ Cancelled(r)

WorkerStep ==
    \/ WorkerLoop \/ TakeDue \/ (\E r \in Regs : Complete(r)) \/ Fire
    \/ Advanced \/ ReadEpoch \/ ReadDeadline \/ Sleep \/ Timeout \/ ShutdownStep(Worker)

OwnerStep == ShutdownStep(Owner) \/ Join

Next ==
    \/ Tick
    \/ \E r \in Regs, d \in Instants : Admit(r, d)
    \/ \E r \in Regs : FutureStep(r) \/ Abandon(r)
    \/ WorkerStep \/ WorkerReadFails \/ LossyReadFails
    \/ Finalize \/ OwnerStep

(* Every thread that can go on does, and time passes.  Nobody need         *)
(* register, drop a future or call finalize.                               *)
Fairness ==
    /\ WF_vars(Tick) /\ WF_vars(WorkerStep) /\ WF_vars(OwnerStep)
    /\ \A r \in Regs : WF_vars(FutureStep(r))

Spec == Init /\ [][Next]_vars

FairSpec == Spec /\ Fairness

-----------------------------------------------------------------------------
(* Properties.                                                             *)

(* Every wait has both its owners or neither: outside the register that is *)
(* adding it, an entry of the wait registry belongs to a record in the map *)
(* or in the hands of the one thread that took it from there ("Every       *)
(* admitted wait is intended to have two exact owners").                   *)
TwoExactOwners ==
    /\ TypeOK
    /\ registry.entries =
         IF registry.shut THEN {}
         ELSE wakes \cup due \cup shutdown.taken
              \cup {r \in Regs : pc[r] \in {"waited", "taken", "takenBack"}}
    /\ wait.inFlight = Cardinality({r \in Regs : pc[r] \in {"admitted", "waited", "inserted"}})

(* No lost wake-up: a parked future whose record is gone has been woken, or *)
(* the thread that took the record still has to wake it.                   *)
NoLostWakeup ==
    \A r \in Regs : pc[r] = "parked" /\ r \notin wakes =>
        token[r].woken \/ r \in due \cup firing \cup shutdown.taken

(* A deadline fires: a future whose deadline is reached does not stay      *)
(* parked, whatever raced its registration ("the worker cannot miss a      *)
(* newly admitted deadline").                                              *)
DeadlinesFire ==
    \A r \in Regs : pc[r] = "parked" /\ deadline[r] <= clock ~> pc[r] # "parked"

(* finalize returns, also while registrations are in flight and the worker *)
(* sleeps, delivers or shuts down itself; and then nothing is left: no     *)
(* record, no entry, no registration in flight, and the worker has ended   *)
(* ("cancels outstanding registrations ... joins the exact driver worker"). *)
FinalizeReturns ==
    pc[Owner] # "idle" ~>
        /\ pc[Owner] = "done" /\ pc[Worker] = "done"
        /\ wakes \cup due \cup registry.entries = {} /\ wait.inFlight = 0
=============================================================================

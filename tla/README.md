# A TLA+ verification of jmeter-rs

jmeter-rs runs JMeter test plans. This directory holds TLA+ models of the parts
of it that carry state across awaits, threads and failures, TLC configurations
that model-check them on small instances, and TLAPS proofs of the safety
properties of all of them, for every value of their constants.

Paths below are relative to the repository; `rr` stands for
`crates/runtime/src/result_router.rs`, `co` for `.../coordination.rs`, `lc` for
`.../lifecycle.rs`, `ti` for `.../timers.rs` and `sc` for `.../scheduler.rs`;
`re` for `crates/process-supervision/src/registry.rs`, `st` for
`crates/remote/src/state.rs`; `td`, `js`, `tx` and `ru` for `time_driver.rs`,
`jtl_sink.rs`, `run_transaction.rs` and `runner.rs` of `apps/jmeter-rs/src`.

## The system

| Component | State it keeps | Operations | What makes it correct |
|---|---|---|---|
| Typed result router (rr 4091-5408) with its delivery ledger (rr 3005-3902) | per sink a bounded queue, leases, a failed flag; a ledger with one disposition per event/sink pair; pending admissions; phase | start, admit, retry_admission, stop_admission, next_delivery, acknowledge, diagnosed_drop, fail, retry, retry_for_operation, flush, cancel, finish | nothing accepted is lost or delivered after it was closed, admission is all-or-nothing, verdicts are final, no success with open pairs, no starved sink |
| Router adapter (rr 5594-6070) and the engine run (lc 1436-1853, 2012-2032, 3171-3292) | which sinks started, the lease being delivered, its operation budget, errors so far | start, route_event, deliver, finish, cancel, drop of the run future | every way a run can end closes all sinks and accounts for all results; success means durable; runs end |
| Critical-section coordinator (co 289-859) and leases (lc 813-1079) | owner of each name, FIFO queues, bounds on held names and waiters, wait generation | try_acquire, poll_acquire, release, cancel_acquire, advance_generation | exclusion, FIFO, exact accounting, no lost wake-up |
| Synchronizing barrier (co 1240-1810) and timer (ti 1403-1815) | a slot per key with its generation, arrivals, tombstones and outcome; leases; thread-group sizes; the token's wake bit | poll_arrival, complete, cancel, register/unregister_thread_group, the delay future's poll and drop | one outcome per generation, nobody passes early, everything drains |
| Throughput coordinator (co), schedule windows (sc) | arrival schedules | reserve, wait | the configured rate is never exceeded |
| Virtual users, thread groups, controllers (lc, controllers.rs, logic.rs) | iteration and loop counters, control signals | start, iterate, stop | iteration counts, stop at boundaries |
| Time driver (td) with the wait registry (progress.rs) and the tokens' wakers (sc) | wake records, wait-registry entries, registrations in flight, event epoch, clock | register, poll, cancel, advance, begin_shutdown, finalize | a wait has both its owners or none; no wake-up or deadline is missed; finalize returns with nothing left |
| Executor (apps/jmeter-rs) | parked thread, progress epoch | run, park, notify | the executor sleeps only when nothing is ready |
| Run transaction (tx, ru 2997-3359, 5197-5611) | owners alive, the error being built, staged and visible result, dashboard | prepare, start_engine, finalize, publish, cleanup after each failure | only a complete, synchronized result of a run without failures becomes visible; everything is released and every failure reported |
| JTL writer (js) | phase, queue, permits, the active command, completions, the writer thread | enqueue, flush, finish, cancel, the writer's loop | an acknowledged event is in the file; every completion is settled once |
| HTTP pool (crates/http-native), HTTP worker | slots, leases, quarantine | acquire, release, close, finalize | no connection used twice or leaked |
| Process supervision (re, process.rs) | slots with generation, state and root; free list, launch queue, owned count; abandonment and cleanup marks | spawn, await, activate, drop, request_cleanup, service pass, drain, shutdown | no process is lost, an unowned one is cleaned up, shutdown drains and joins |
| Remote sessions (st, sender.rs) | coordinator phase and worker records, pending requests, watermarks, batches; the worker's staged configuration and consumed runs | configure, start, stop, retry, acknowledge, record, drain, fail; the worker's handlers | a graceful stop is complete, no worker runs on, a sample is handed out once, stops end |
| JMX, expressions, HTTP semantics, assertions, reports, bridge protocol | none that outlives a call | parse, evaluate, format | text rules |

The engine runs all virtual users as futures on one executor thread. A sample's
result goes through `route_event` into the router, which queues it for every
sink; between samples and at the end the adapter leases queued events to sinks,
which answer with an acknowledgement, a retry or a failure. Users meet each other
in the critical-section coordinator and at the barriers, which hold wakers and
call them after unlocking. Stops travel through cancellation tokens. Sleeping
users register with the time driver, whose worker thread wakes them. Child
processes belong to the slots of the registry, whose service thread launches and
reaps them. In a distributed run a coordinator drives workers by messages. What is hard
to test is what happens between two awaits: a stop, a drop of the whole future, a
sink's failure in the middle of a delivery, a limit reached half way through an
operation of many steps, a wake-up that goes to a user that has just left.
`PROJECT.json` lists these hazards at the line where they bite.

## Modules

| Module | Models | Uses |
|---|---|---|
| `DeliveryContract` | what the router promises: offer, accept or reject by all sinks, one final fate, close | |
| `ResultRouter` | `TypedResultRouter` and `DeliveryLedger` | refined to `DeliveryContract` |
| `RouterArbitration` | the same with a history variable that counts how often a sink is passed over | `ResultRouter` |
| `ResultDelivery` | the adapter and the engine's result path over the router | extends `ResultRouter` |
| `CriticalSection` | the named-lock coordinator and the acquisition future | |
| `SyncBarrier` | the barrier coordinator, the timer's future and its wake bit | |
| `ProcessRegistry` | the process registry, its callers, service thread, drain and shutdown | |
| `RemoteSession` | coordinator, workers, their senders and the network between them | |
| `TimeDriver` | the time driver: sleeping futures, worker, finalizer | |
| `JtlSink` | the JTL writer: queue, completions, writer thread | |
| `RunTransaction` | one run: its owners, its failures, publication of result and dashboard | extends `JtlSink` |
| `MC*` | constants of the runs | one per model |
| `ResultRouterProofs`, `ResultDeliveryProofs`, `CriticalSectionProofs`, `SyncBarrierProofs`, `ProcessRegistryProofs`, `RemoteSessionProofs`, `TimeDriverProofs`, `RunTransactionProofs` | TLAPS proofs | each extends the model it is about; the first extends `RouterArbitration`, and the second uses it |

### ResultRouter

The router is a plain value behind a mutex, so each public operation is one
action. Errors returned before anything was changed are stuttering steps and are
not written. Errors returned after a change are part of the actions: `RejectAndDrop`
and `RejectAndFail` (admission into a full queue), `RetryExhausted`,
`CloseStopsAtPending` and the half-way outcomes of `CloseKeys` (cancel and finish
that run into the ledger's transition limit), the intermediate results of
`retry_for_operation`. Events are their run sequence numbers, sinks their rank, a
disposition carries no text. `transitions` is the length of the transition log,
bounded by `MaxLedgerTransitions` as in the code (`MAX_LEDGER_TRANSITIONS`).
`MaxEvents` and `MaxAttempts` bound the model only. Deadlines of blocked
admissions are counted in attempts, as the code's deadline policy counts them.

### ResultDelivery

Each await of the engine's future is a separate step. Between two steps the
run's token may be raised (`RequestCancel`) and the future dropped
(`DropEngine`, the work of `EngineRunDropGuard`). Sinks are external and answer
as they like. The time budgets are not clocked: an operation may be refused, or
found expired when it is checked, at any time.

### CriticalSection

A call of the coordinator is one action together with the wakers it calls after
unlocking. A suspended user may be polled at any time, because the engine's
`DeterministicJoin` (lc 1296) polls all its users when any of them is woken, and
is polled in the end when its own waker was called. Names are ranked because the code wakes
the heads of the queues in name order, as many as there are free held slots.

### SyncBarrier

A poll of the timer's future, with its call of `poll_arrival` and the `complete`
or `cancel` that follows it, is one step: the futures are not `Send` and run on
one thread. `fired` is the wake bit of the user's cancellation token. It is set
when the scheduler reaches the timeout, and also when a registration is
cancelled before it is due, because `WakeRegistration::cancel_with_owner` wakes
the token (sc 683). The scheduler accepts registrations or refuses them
(`RegistrationRefused`); a scheduler without timers (`Unsupported`) is not
modelled. Overflow of the 64-bit wait generation is left out; overflow of a
key's generation is in the model, with `MaxGeneration` in the place of
`u64::MAX`.

### ProcessRegistry

The registry has one mutex for the control block and one per slot and never
holds both; a section under one lock is one action, so `reserve`,
`release_slot`, `request_cleanup` and the marking of a closed registry are two
actions each. A slot that is `Creating` is locked while the operating system
works. Passes run on the service thread and on the thread of an explicit drain,
also for launches. `cleanup_slot` has five outcomes, chosen by the environment.
Every wait in the code is a poll of at most ten milliseconds, so its condition
variables are left out. `MaxGen` stands for `u64::MAX`: a slot whose generation
is used up is retired. `pop_request` takes the lowest cell, not the oldest
request, as the code does. The shutdown of a service that was never started, and
shutdown's own deadline, which only returns early and changes nothing, are left
out.

### RemoteSession

The crate has no transport, so the network is the environment: what was sent
stays deliverable in any order, or is lost by never being delivered; with
`Duplicates` a request may be delivered any number of times. An acknowledgement
or a sample may always be delivered again. Calls that return an error and change
nothing are stuttering steps. Profiles are all the same, plans and properties
are the number of the `configure` that sent them, a worker has one thread. The
run uses batching senders, which cover both a queue and an immediate release;
`Standard` and `Hold` are in the model and the statistical and disk modes are not.
A worker remembers the runs it consumed in the order it consumed them, and forgets
the oldest beyond `max_samples` of its wire limits (`RememberedRuns`, st 818-832);
`MaxRemembered` is that limit, by a name of its own because it bounds something
else than the samples. The limits do not change during a session, so the other
call of the trimming (st 560) removes nothing and is left out. `MaxSamples` bounds
the coordinator's accepted set and the worker's sender (sender.rs 870); both refuse
what is beyond it. The coordinator refuses a run number it remembers to have used
(st 1928) and forgets old ones in the same way; in the model its callers never use
a number again.

### TimeDriver

Each mutex section of the driver, the scheduler and the wait registry is an
action, and `asleep` is the set of threads that wait on the condition variable.
A notification moves the worker only when it sleeps; one that waits for the
registrations in flight looks at their count again by itself.
`register` is refused when the driver's own places are used up. The wait registry
has the same limit (progress.rs 1299) and can be full a moment longer, while a
cancellation that has taken its record has not retired its entry; its refusal, after
which `register` takes back what it entered, is left out, and two futures with two
places do not meet it.
The event epoch is one bit: whether it moved since the worker read it. A future
sleeps once; it may be dropped or stopped while it waits. The worker and the
owner both shut the driver down when a stop and a failing clock meet. One thread
finalizes: the code gives later callers the stored result. The worker's 24-hour
cap on its wait is left out, so nothing here depends on it.

### JtlSink and RunTransaction

`JtlSink` has an action for each section under the writer's mutex and for what
happens between two of them: the encoder's call, settling a completion, dropping
a command with its permit. `cancel` and the draining after an error or a panic
take commands out under the lock and settle them after it, so each is two
actions. The encoder succeeds, fails or panics, and a failed call may leave part of a
record in the file. Refused commands are stuttering steps.

`RunTransaction` is the run thread. `stage` is its place, `held` the owners
alive. The engine uses the writer as it likes and ends at any time: nothing that
the router guarantees is assumed. Every creation and every cleanup may fail;
`cleanup_partial` and `cleanup_prepared` are the beginning of `finalize_failure`'s
order, so one order (`FailureOrder`) over the owners that exist stands for all
three. A failure is a name, the error a set of names and a sequence of such
sets: where the code meets a second failure while it cleans up after a first one
(the staging file in `PreparedResultTarget::prepare`, the staged dashboard, the
place made for the old dashboard, moving it back), it makes one untyped message of
both, which is a set of two or more (`PrepareFails`, `ReportFails`, `RollBack`). An
existing report directory may be empty, which needs no `-f` and is moved aside like
a full one. `disk` outlives the process: the visible result, the staging entry, the
dashboard, the staged one and the one moved aside. `Crash` takes the process away
and may take what was not synchronized of the file. The entry's rename itself is
taken to be durable (the code does not synchronize the directory), and removing a
directory to be one step. Only identity matters of what other processes do to the
result, and a change is either one that the last check can see or one between
the check and the rename (`disk.changed`); the parent directory does not change.

## Runs

| Run | Shows | Bounds | States |
|---|---|---|---|
| `router` | the safety properties, order and bounded bypass, and the refinement to `DeliveryContract`, in every order of operations | 2 sinks (backpressure and diagnosed drop), 3 events of growing size, 2 attempts; transition log and finalization limits that end in the middle of the closing operations | 107,863 |
| `delivery` | the engine run: all results accounted for, success is durable, sinks closed, termination | 2 sinks of 2 places, 3 events, 2 retries, the finalization limit `SinkLimits::new` derives | 85,751 |
| `critical` | accounting, FIFO, no lost wake-up, progress of waiters | 4 users, 3 names of which one is also released by the generation-checked call, a held slot for each, 2 waiters, no nesting, 2 run generations | 58,368 |
| `barrier` | accounting, agreement, tombstones, draining | 3 users, a fixed-size key with a timeout, a thread-group key without, last generation 2, 2 clock ticks | 55,398 |
| `process` | accounting, ownership, cleanup of processes nobody answers for, shutdown | 2 callers, 1 slot, 2 generations, 2 automatic attempts | 32,573 |
| `remote` | completeness of a graceful stop, no stuck stop once the records wait for their watermarks, no worker behind the coordinator's back, single hand-out, current configurations | 1 worker, either failure policy, 2 configurations and runs, both remembered, up to 3 samples with room for 2, 10 request identities, 2 attempts | 596,274 |
| `time_driver` | both owners of a wait, wake-ups, deadlines, finalize | 2 futures, 2 places, a clock that may fail, 1 tick | 467,204 |
| `transaction` | true acknowledgements, complete and durable publication, clean and fully reported failures, the old dashboard, termination | a run without outputs, one with a new result, one with a new result and dashboard, one that replaces both; result and dashboard there or not, the dashboard also as an empty directory; 2 events, a flush and a finish, a queue of 2 events and 3 bytes; 1 change by another process; no optional failure after the second | 520,283 |
| `barrier_stale_wake`, `remote_stale_plan`, `remote_stuck_stop`, `process_stale_mark` | the findings below: each expects a violation of one property | as small as the case allows | |

Why these bounds are enough to meet the cases: queues of one or two places are
full with two events; two sinks tell all-or-nothing from partial admission and
one can be passed over by the other; three events let one be delivered while one
is queued and one blocked; a log of 18 entries can be full before the last pair
is closed. Two of four users can wait and a third is refused; the held-lock limit and
nested sections are in the proofs and in an instance below. Three users on a barrier of three leave
one late while another times out; group sizes 2 and 4 exercise a group that fits
and one above the participant limit; two generations reach the overflow. One
slot that two callers use in turn has every race between an old and a new
generation, and its second generation is its last. Two configurations and two
runs give every message of the first a chance to arrive in the second, and three
samples overfill an accepted set of two; `remote_stuck_stop` has two workers, of
which one runs while the other has not started. One tick separates a registered deadline from its expiry, and two futures
let one be fired, cancelled or refused while the other registers. With one tick all
deadlines are equal, so that a later registration has an earlier deadline is not in
this run but in the larger instance below. Two events
let one be in the encoder while one is queued, with the flush or the finish behind it, when the
cancellation, the error or the panic comes. Two failures are a primary one and
one of its cleanup, in every combination; after them cleanup succeeds.

Other instances that were checked once: the properties of `router` but
`HeldIsAccounted` and `FirstAttemptsInOrder` with a fail-run sink and two events
(130,837 states); `WaitersAccounted` and
`NoOvertaking` with nesting 2 and two held slots for three names (18,828 states);
`WaitingStopIsNeverStuck` with two workers, one run and up to three samples with room
for two (120,990 states); `remote` with
two workers and one run (3.8 million states) and with duplicated requests
(564,336 states, all safety properties of the run but `ConfiguredIsCurrent` hold, see
finding 2); the invariants of `time_driver` with two ticks and a sound clock
(1.6 million states); the safety properties of `transaction` for all twelve
admissions with any number of failures (3.5 million states).

Deadlock checking is off because all these machines stop: a finished router
takes no step, users may all be idle, a joined registry is done, and clocks and
identities end.

### Properties

* `AcceptedIsHeld`, `HeldIsAccounted`: the queues and leases and the ledger agree,
  in both directions, after every error path.
* `AdmissionIsAtomic`, `TerminalIsFinal`, `FinishedIsConserved`: one verdict per
  pair, none missing at the end.
* `ImplementsContract`: the router implements `DeliveryContract`.
* `BoundedBypass`, `FirstAttemptsInOrder`: fairness and order of delivery.
* `RunEndsAccounted`, `SuccessMeansDurable`, `NoSinkLeaked`, `RefinesRouter`,
  `RunTerminates`: the engine run.
* `WaitersAccounted`, `NoOvertaking`, `NoLostWakeup`, `WaitersProgress`: critical
  sections.
* `ReservationsAccounted`, `OutcomeIsFinal`, `ClosedDrains`: barriers.
* `OwnedAccounted`: the count of owned slots and the free list agree with the
  slots through both halves of every release. `RootNeverLost`: a process leaves
  its slot only by being reaped. `OrphanIsCleanedUp`: a process nobody holds a
  capability for is taken to cleanup by the service, without a shutdown, a drain or
  an exit, unless a stale mark was stored over its own (finding 3).
  `JoinedOwnsNothing`, `ShutdownDrains`: shutdown
  is complete, and gets there whatever the callers do.
* `GracefulIsComplete`, `NoRogueWorker`, `HandedOnce`; `ConfiguredIsCurrent`: a
  worker that counts as configured holds the current plan and properties, if no
  request is delivered twice; and `WaitingStopIsNeverStuck`: while a requested stop
  is under way, no record is left Running and the run's samples fit into the accepted
  set, something that was sent can still be delivered with effect, or be drained. Each
  such delivery is possible finitely often, so a transport that delivers ends the
  stop. Without the condition on the records it does not hold (finding 4).
* `TwoExactOwners`, `NoLostWakeup`, `DeadlinesFire`, `FinalizeReturns`: the time
  driver.
* `AcknowledgedIsWritten`: events are in the file in order, an acknowledged one is
  there, an acknowledged finish means that all are, and permits are exactly those
  of the commands still held. `PublishedIsComplete`: what is visible, also after a
  crash, is complete and was synchronized, by a run without a failure so far, and
  has not replaced a result that others put there before the last check.
  `FailureIsClean`, `EveryFailureReported`: a run that returns an error has
  published nothing (unless the report failed), has released every owner and drops no
  failure: what the first failing step met is the primary error, what the later ones
  met follows in order. `DashboardNotLost`: the old dashboard is visible or moved
  aside until the new one has taken its place. `RunReturns`: no wait for the finish
  or for the writer's thread hangs.

* Expected not to hold, each a statement of the repository's: `TimeoutElapsed`,
  `ConfiguredIsCurrent` with repeated requests, `OrphanKeepsMark`,
  `StopIsNeverStuck`. `NoFailureFlattened`, `ReverseCleanup`,
  `PreviousDashboardVisible` and `QuarantineAwaitsDrain` are stated in the modules
  and do not hold either (see the other disagreements).

Each property of a passing run has a mutant of the model, a plausible bug in the
code, under which TLC reports it violated. The mutants stand next to the
definitions they replace. The type invariant of each model is the first conjunct
of an accounting invariant.

### Fairness

* `ResultDelivery`: weak fairness of the engine's own steps. The executor polls
  the run future whenever it is ready and the sinks answer each call. Neither
  cancellation nor the drop is fair.
* `CriticalSection`: a woken user is polled, and a user that holds a lock
  releases it in the end (`Fairness`). Cancelling is never assumed.
* `SyncBarrier`: time passes, the scheduler delivers due timeouts, a woken future
  is polled.
* `ProcessRegistry`: the service thread loops for ever (its waits are polls), a
  thread inside `spawn` goes on, the operating system answers a launch, and a
  cleanup that is tried again and again succeeds in the end (strong fairness of
  a pass that reaps). The last is an assumption about the operating system;
  without it shutdown reports its deadline and retains the slot. Nobody need drop
  a capability, drain or exit.
* `TimeDriver`: each thread that can go on does, and time passes. Nobody need
  register, drop a future or finalize, and the clock need not fail.
* `RunTransaction`: the run thread and the writer thread go on (`FairSpec`): file
  and encoder calls return, and the engine's run ends. That it does is
  `RunTerminates` of `ResultDelivery`, where it is not assumed; here the events,
  and with them the engine's steps, are finitely many. Failures and crashes are
  not fair.
* `RemoteSession` states no fairness: retries and deliveries are the adapter's,
  which is not in the repository, so its progress is the invariant
  `WaitingStopIsNeverStuck`.

## Proofs

Every theorem is of the form `Spec => []P` or `Spec => P` for all values of the
constants, under the `ASSUME`s of the module it is about and nothing else, with
exceptions that say what they assume: `WakeupsAreNotLost` and `RunsEndAccounted`
below, and the theorems of `RemoteSessionProofs`, which assume that a worker
remembers all runs of the session (`NothingForgotten`), `ConfigurationIsCurrent` also
that no request is delivered twice. The assumptions are that bounds and sizes are natural
numbers (positive where the code has a `NonZero` type or rejects zero), that
there is a sink and a slot, that a policy is one of the three the code has, and
that the model's own markers (`NoUser`, `NoKey`, `Worker`) are not among the
values they mark the absence of. In `RunTransaction` others change the visible
result at most once, which is a bound of the model. Users, participants, keys, registrations and
callers may be infinitely many; where the model counts them, that only finitely
many are counted is part of the invariant.

The invariants were first checked by TLC on the run of their model; those of
`RemoteSession` also with two workers and two runs, and `IInv` with repeated
requests and the other two sender modes. Each proof has a lemma per operation or
per part of the invariant.

* `ResultRouterProofs`. `LedgerInv` is the conjunction of `TypeOK`,
  `AdmissionIsAtomic`, `PendingInOrder` (a pending event is the next one or one the
  router has passed) and `AttemptsCounted` (a pair has an attempt exactly when the
  ledger knows it). `AdmissionIsAtomic` is not inductive alone: the closing
  operations record pending events as not admitted, which keeps the ledger
  without gaps only because at most the next event is pending and unknown
  (`RecordedIsNext`). `FinalTerminals` follows from how `NextStep` says a step may
  change the ledger. `HoldInv` adds `AcceptedIsHeld`, `LeaseIsAccounted` (until the
  log is full, a lease belongs to an open pair that is not queued) and
  `FinishedIsConserved`; the closing operations either close everything
  (`FullCloseHolds`) or stop half way and leave queues and leases as they were
  (`HalfCloseHolds`). `RouterImplementsContract` is the refinement to
  `DeliveryContract`: `InitRefines`, `StepRefines`, and `FinishedIsFinal` for the
  stuttering after close. `OrderInv` adds that, until the log is full, a queue has
  each event once, only events the ledger calls queued, and its first attempts in
  sequence order behind all events that were served; `HeldIsAccounted` and
  `FirstAttemptsInOrder` follow. The last part is needed because a retry goes to
  the back of the queue: only what is still waiting for its first attempt is
  ordered. `FairArbitration` is `BoundedBypass` for any number of sinks, with
  `BypassInv`: the bypass count of a deliverable sink plus its distance from the
  cursor is at most `NSinks - 1`.
* `ResultDeliveryProofs` proves `EngineInv`, which holds `HoldInv` of the router
  beside `LeaseInv` (the lease of `deliver_inner` is the router's lease of that
  pair and attempt), `AttemptsInv` (attempts are paid for from the shared budget),
  `PendingInv` (at most the next event is pending), `CountInv` (the open pairs of a
  sink never outnumber its queue's places, because nothing is leased while events
  are admitted), `WrittenInv`, `EarlyInv`, `SinksInv` and `SoundInv`: as long as no
  error was reported, no pair has failed, what is in flight is what
  `deliver_inner` holds, and after the last delivery the queues are empty.
  `RefinesRouter` needs `LeaseInv` and `AttemptsInv`: the engine answers only for
  leases the router knows, and retries within its bound. `RunsEndAccounted`
  assumes `MaxFinalizationSteps[s] >= MaxItems[s] + 2`, which is the limit
  `SinkLimits::new` derives (rr 6974) and which the limit given to
  `with_finalization` need not have; from `CountInv` and `PendingInv` it follows
  that `cancel` and `finish` are then never refused, and reach their end when the
  log has room.
* `CriticalSectionProofs` proves `CriticalInv`: each queue has exactly the users
  that wait for its name, once, `waiter_count` is their number, and both bounds
  hold. `NoOvertaking` follows. `WakeupsAreNotLost` assumes a held slot for each
  name, because at the held-lock limit a wake-up may be lost (see the disagreements
  below); names that callers release with the generation-checked release, which wakes
  nobody (`CheckedNames`), are excepted.
* `SyncBarrierProofs` proves `BarrierInv`: on each key the leases are the pending
  futures, a slot exists as long as somebody waits, an open generation has all of
  them as arrivals and too few to be released, and the count of leases is exact. A
  poll may apply two calls of the coordinator, so the lemmas are about the calls
  as functions of its state (`KeyOK`).
* `ProcessRegistryProofs` proves `RegistryInv` and `LaunchInv`. The halves of
  `reserve` and `release_slot` are under different locks, so the invariant says
  for each slot which combinations of control block, slot and callers exist
  (`SlotInv`), and that no generation is given out twice and no request exists
  before its caller has enqueued it (`LaunchInv`).
* `RemoteSessionProofs` proves `IInv` with and without repeated requests, for
  sessions of at most `MaxRemembered` runs: a worker then never forgets a run it
  consumed (`NothingForgotten`); what happens otherwise is among the disagreements. A
  message may arrive in any later run, so the invariant is about what stays true
  of it. A worker numbers the samples of a run without a gap (`WorkerInv`); one
  that has acknowledged a stop has consumed the run and never runs it again, and
  if all stops of the run were graceful its watermark counts all it emitted
  (`StoppedAck`); a healthy worker has consumed every run that is over (`PastInv`,
  from which `NoWorkerRunsOn`). On the coordinator's side a record is Stopped
  only with a watermark a worker sent (`MarkInv`), until the cause is immediate
  such a record has all the worker's samples (`GraceInv`: the watermark is the
  cardinality of a set of samples below it, so the set is the whole prefix;
  `GracefulStopIsComplete` follows), and what was handed out stays accepted for
  the rest of the run (`HandInv`, from which `SamplesHandedOnce`). These are
  predicates of a coordinator's state, because each call ends in
  `recompute_phase` and they have to hold of the state it starts from
  (`RecomputeInv`). `ConfigurationIsCurrent` assumes that no request is delivered
  twice; finding 2 is what happens otherwise. `CInv` says that identities grow with
  configurations, that the pending profile of a worker is the last one sent to it,
  and that a worker which has not yet adopted the coordinator's configuration is
  Stopped or blank. The one place that needs the hypothesis is `ProfileCurrent`: a
  profile that is delivered has an identity above the last one taken, not equal to
  it.
* `TimeDriverProofs` proves `DriverInv`: a record is in one place at a time (the
  map, the worker's batch, the batch of the shutdown, the hands of a cancelling
  future), the count of registrations in flight is exact, and the scheduler is
  shut down only when it is zero. `FinalizeLeavesNothing` is the safety part of
  `FinalizeReturns`.
* `RunTransactionProofs` proves `RunInv`. `SinkInv`, of the writer, says that each
  command has one holder, that the file is a prefix of the events and the rest is
  still queued or in the writer's hand as long as the writer goes on (`FileInv`),
  and what an acknowledgement must find in the file (`AckInv`). The run's part says
  which owners a stage may hold, that the error follows the failures, and what
  disk and file show at a stage; `VisibleInv` adds that the visible result is the
  admitted one until another process changes it, and that a change made before the
  last check does not get past it.

Only model-checked: liveness (`RunTerminates`, `WaitersProgress`, `ClosedDrains`,
`OrphanIsCleanedUp`, `ShutdownDrains`, `DeadlinesFire`, `FinalizeReturns`,
`RunReturns`), because fairness is out of the prover's reach; and
`WaitingStopIsNeverStuck`, which is stated with
`ENABLED`.

## Findings

1. `barrier_stale_wake`: a barrier wait that ends before its timeout leaves the
   user's wake bit set; the user's next barrier wait takes it for its own timeout
   and breaks the generation at once (sc 683 with ti 1702). TLC's shortest
   trace interrupts the first wait (a `NextLoop` signal); a first wait that is
   released by the last arrival does the same, that is, every iteration of an
   ordinary plan.
2. `remote_stale_plan`: a second copy of an old `Profile` has an identity equal
   to the last accepted one and passes the guard (st 841). It reopens the retired
   configuration of a stopped worker; the new plan is then staged and
   acknowledged, a delayed old plan replaces it, and the new profile only renews
   the identity. The coordinator starts a worker that holds the old plan (against
   the comment at st 411).
3. `process_stale_mark`: `mark_abandoned` stores the caller's generation
   unconditionally (re 903). A caller of an earlier generation, late at its launch
   deadline or dropping its capability, overwrites the mark of the present process,
   which then belongs to nobody and is not cleaned up while it runs
   (docs/decisions/0001-shared-process-supervision.md:247 says that a stale token
   cannot clear anything).
4. `remote_stuck_stop`: a stop while Starting moves only the records that are still
   Ready (st 2111). A worker that runs already keeps a Running record; if its
   acknowledgement arrives before its sample, the sample no longer completes it
   (st 3018) and the coordinator stays Stopping for ever, which the comment at
   st 2108 says must not happen. Two workers and one sample show it.

### Other disagreements met while modelling

They follow from the models; TLC shows each with the property or the constants named
here, and no run is kept for them.

* With a diagnosed-drop sink, `retry_admission` keeps an event pending that
  `admit` has just recorded as not admitted (rr 4863, against the comment at
  rr 4698); the policies of `router` show it.
* When the transition log is full, `cancel` enters Cancelled and stops with open
  pairs behind (rr 5296, against the doc at rr 5290); the limits of
  `router` show it.
* At the held-lock limit, a woken waiter that cancels passes the wake-up to its
  own name only; waiters of other names sleep although a slot is free (co 522).
* A participant that times out decides the generation in `complete` without
  waking the others (co 1784, against the doc at co 1297). Where the timer has
  no timeout they are never woken, which is why `ClosedDrains` is stated for keys
  with one. For this and the previous point: the engine polls all its users when
  any one is woken, so under it a forgotten user sleeps until the next wake-up
  of anybody.
* A cleanup request on an active slot stops the service from observing it and is
  acted on by nobody (re 542-581): if the caller keeps its capability, an exited
  process is reaped only at shutdown or when it is abandoned
  (docs/decisions/0001-shared-process-supervision.md:249 says a caller that omits
  `wait` cannot retain capacity for ever).
* After a fail-fast stop the watermark of a worker that is acknowledged before
  its samples arrive is never looked at again, because
  `advance_graceful_stop_workers` returns early (st 3002): the coordinator stays
  Stopping. Two workers and one sample show it.
* A worker forgets the oldest consumed run beyond `max_samples` of them (st 826), and
  a delayed start of a forgotten run is accepted (st 999) by a worker that is
  configured anew, against the comment at st 404 ("prevents a delayed start/stop from
  an older configuration from resurrecting or cancelling a newer stopped worker").
  The default limit is 100,000 runs, so in practice it takes a small `max_samples`.
  `NoRogueWorker` with `MaxRemembered = 1` and three runs shows it.
* The service's own passes go on cleaning a quarantined slot (re 581); 0001:180 says
  that only an explicit drain does, and 0001:214 that there are three automatic
  attempts. `QuarantineAwaitsDrain` with the constants of `process` shows it, and
  `ShutdownDrains` relies on what the code does.
* `finalize` of the time driver can return an error with a healthy clock: a
  cancellation has taken its record from the map, shutdown closes the wait
  registry, and the cancellation's `retire` then fails and is recorded.
* A registration that is dropped without `cancel` does not advance the event
  epoch, and the worker can sleep past a later deadline. Every caller in the
  repository cancels explicitly.
* A failure met while cleaning up after another one inside of target preparation or
  dashboard publication replaces the typed error by one message about both (ru 3102,
  5372, 5390, 5408, 5579), against the doc comment at ru 420 ("never flattens cleanup
  failures into an untyped diagnostic string") and
  docs/decisions/0012-standalone-run-ownership-transaction.md:98. The owners' cleanups
  do keep their category. `NoFailureFlattened` with the constants of `transaction`
  shows it.
* After a failed preparation the time driver is finalized before the result target,
  which was created later (tx 1149); 0012:97 says in reverse order (`ReverseCleanup`).
* When the dashboard moved aside cannot be removed, the run returns a report failure
  with the new one visible (ru 5599); when the rename and the way back both fail, none
  is (ru 5575). 0012:129 says that a report failure leaves the previous one visible
  (`PreviousDashboardVisible`). The two renames are not the atomic publication of
  0012:119 either.
* A result that appears or is replaced between `revalidate_for_publish` and the
  rename is overwritten (ru 3243-3244); the doc at ru 3023 says that a replaced
  target fails closed.

Behaviours worth knowing that contradict no statement of the repository: a
user that comes back to a barrier before the slow members of its released
generation have left gets an error (co 1621); users who nest critical
sections in different orders deadlock (lc 957); samples that arrive before all
workers have started are refused (st 2225); a sample refused for `max_samples`
makes a graceful stop unable to finish (st 2285), which is why
`WaitingStopIsNeverStuck` asks that the samples fit.

## Not modelled

Sinks, the operating system, the transport, the clock and schedulers without
timers are external. Parsing, text, formats, statistics and numeric timers are
pure functions over data a model checker cannot enumerate; they are most of the
repository's lines, so the map covers a small share of them. The remaining
components with state (HTTP pool and worker, executor,
thread-group lifecycle, controllers, throughput) are planned.

## Plan

Done: the router with its contract and proofs, arbitration, the engine's result
path, critical sections, barriers, process supervision, remote sessions, the
time driver, the run transaction with the JTL writer; the proofs of the safety
properties of all of these.

Next models: `HttpPool` and `HttpWorker` (leases, quarantine, finalization),
`Executor` (parking against the wait registry, composed with `TimeDriver`),
`Lifecycle` and controllers, `Throughput` as operators checked against a
reference.

--------------------------- MODULE RemoteSession ---------------------------
(***************************************************************************)
(* The distributed run of crates/remote: one RemoteCoordinator, its        *)
(* RemoteWorkers and the messages between them.                            *)
(*                                                                         *)
(* The crate owns no transport, so the network is the environment: what    *)
(* was sent stays deliverable for ever, in any order and (for requests, if *)
(* Duplicates) any number of times; a message that is never delivered is   *)
(* lost.  A call that returns an error and changes nothing is a stuttering *)
(* step and is not written, so the rejected, the stale and the repeated    *)
(* message appear as guards.                                               *)
(* An acknowledgement counts only while its request is pending: the code's *)
(* histories of invalid and completed requests choose the error only.      *)
(***************************************************************************)
EXTENDS Integers, FiniteSets, Sequences

CONSTANTS
    NWorkers,     \* selected workers
    Policies,     \* failure policies used: whether a failure stops all (FailFast)
    Duplicates,   \* fault model: whether requests may be delivered twice
    Modes,        \* sender modes used: "Standard", "Hold", "Batch"
    BatchSize,    \* size of a batch, and capacity of a batching sender
    MaxSamples,   \* max_samples of the coordinator
    MaxRemembered,\* max_samples of a worker: samples of a run, runs it remembers
    MaxAttempts,  \* retry policy
    MaxRuns,      \* model bound: configurations and runs
    MaxSeq,       \* model bound: samples emitted, over all workers and runs
    MaxIds        \* model bound: control request identities

ASSUME RemoteAssumption ==
    /\ NWorkers \in Nat \ {0} /\ Duplicates \in BOOLEAN /\ Policies \subseteq BOOLEAN
    /\ Modes \subseteq {"Standard", "Hold", "Batch"}
    /\ {BatchSize, MaxSamples, MaxRemembered, MaxAttempts, MaxRuns, MaxSeq, MaxIds}
         \subseteq Nat \ {0}

Workers == 1 .. NWorkers
Stages  == {"Profile", "Plan", "Properties"}
Before  == [Profile |-> {}, Plan |-> {"Profile"}, Properties |-> {"Profile", "Plan"}]
Order   == [Profile |-> 0, Plan |-> 1, Properties |-> 2]
NoMark  == -1

VARIABLES
    co,        \* the coordinator
    pending,   \* pending_requests: id, worker, stage, attempt
    nextId,    \* next_request_id
    wk,        \* wk[w]: the worker's own state
    requests,  \* control messages sent by the coordinator
    spent,     \* identities of requests that cannot be delivered again
    acks,      \* acknowledgements sent by the workers
    emitted,   \* history: samples the workers emitted
    samples,   \* samples released by the workers
    handed     \* samples the coordinator handed out

vars == <<co, pending, nextId, wk, requests, spent, acks, emitted, samples, handed>>

Samples == [run : 1 .. MaxRuns, w : Workers, seq : 0 .. MaxSeq - 1]

WorkerPhases == {"Idle", "Ready", "Running", "Stopping", "Stopped", "Failed"}
Phases == {"Idle", "Configuring", "Ready", "Starting", "Running", "Stopping",
           "Stopped", "Failed"}

(* Type invariant of the coordinator and the workers.                      *)
TypeOK ==
    /\ co.failFast \in Policies /\ co.phase \in Phases
    /\ co.run \in 0 .. MaxRuns /\ co.runs \in 0 .. MaxRuns
    /\ co.version \in 0 .. MaxRuns
    /\ co.mode \in Modes \cup {"none"}
    /\ co.cause \in {"none", "Graceful", "Immediate", "FailFast"}
    /\ co.rec \in [Workers -> [phase : WorkerPhases, threads : {0, 1}]]
    /\ co.acked \in [Workers -> SUBSET Stages]
    /\ co.mark \in [Workers -> NoMark .. MaxSamples]
    /\ co.accepted \subseteq Samples
    /\ co.queued \cup co.done \subseteq co.accepted
    /\ co.queued \cap co.done = {}
    /\ nextId \in 1 .. MaxIds + 1
    /\ \A p \in pending : p.id < nextId /\ p.attempt \in 1 .. MaxAttempts
    /\ \A w \in Workers : /\ wk[w].phase \in WorkerPhases
                          /\ wk[w].next \in 0 .. MaxSeq
                          /\ wk[w].mark \in 0 .. wk[w].next
    /\ handed \subseteq samples /\ samples \subseteq emitted /\ emitted \subseteq Samples

Init ==
    /\ \E policy \in Policies :
       co = [failFast |-> policy, phase |-> "Idle", run |-> 0, runs |-> 0,
             version |-> 0, mode |-> "none", cause |-> "none",
             rec |-> [w \in Workers |-> [phase |-> "Idle", threads |-> 0]],
             acked |-> [w \in Workers |-> {}],
             mark |-> [w \in Workers |-> NoMark],
             accepted |-> {}, queued |-> {}, done |-> {}]
    /\ pending = {}
    /\ nextId = 1
    /\ wk = [w \in Workers |->
               [phase |-> "Idle", profileId |-> 0, plan |-> 0, properties |-> 0,
                run |-> 0, used |-> {}, order |-> <<>>, mode |-> "none",
                threads |-> 0, next |-> 0, held |-> {}, mark |-> 0]]
    /\ requests = {}
    /\ spent = {}
    /\ acks = {}
    /\ emitted = {}
    /\ samples = {}
    /\ handed = {}

-----------------------------------------------------------------------------
(* SampleSender, shared by both sides: the samples still queued after one  *)
(* more is sent.  A batch is released when it is full.                     *)

QueueAfter(mode, queue, sample) ==
    CASE mode = "Standard" -> {}
      [] mode = "Hold"     -> queue \cup {sample}
      [] mode = "Batch"    -> IF Cardinality(queue) + 1 >= BatchSize
                              THEN {} ELSE queue \cup {sample}

HasRoom(mode, n) == mode = "Batch" => n < BatchSize

-----------------------------------------------------------------------------
(* The coordinator's phase as a function of its records.                   *)

Healthy(c)   == {w \in Workers : c.rec[w].phase # "Failed"}
AllHealthy(c, phase) == \A w \in Healthy(c) : c.rec[w].phase = phase

FromWorker(c, w) == {s \in c.accepted : s.w = w}

(* stop_watermark_satisfied.                                               *)
Satisfied(c, w) ==
    /\ c.mark[w] # NoMark
    /\ \A s \in FromWorker(c, w) : s.seq < c.mark[w]
    /\ Cardinality(FromWorker(c, w)) = c.mark[w]

(* Mutant: a later sample does not complete the stop.                      *)
NoAdvance(c) == c

(* advance_graceful_stop_workers: not after a fail-fast stop, and only for *)
(* a record that is Stopping.                                              *)
Advance(c) ==
    IF c.cause \notin {"Graceful", "Immediate"} THEN c
    ELSE [c EXCEPT !.rec = [w \in Workers |->
            IF Satisfied(c, w) /\ c.rec[w].phase = "Stopping"
            THEN [c.rec[w] EXCEPT !.phase = "Stopped"] ELSE c.rec[w]]]

(* SampleSender::abort and remove_discarded_samples.                       *)
Abort(c) == [c EXCEPT !.accepted = @ \ c.queued, !.queued = {}]
Flush(c) == [c EXCEPT !.done = @ \cup c.queued, !.queued = {}]

recompute_phase(c0) ==
    LET c == Advance(c0) IN
    CASE Healthy(c) = {} -> [Abort(c) EXCEPT !.phase = "Failed"]
      [] Healthy(c) # {} /\ c.phase = "Configuring" /\ AllHealthy(c, "Ready") ->
           [c EXCEPT !.phase = "Ready"]
      [] Healthy(c) # {} /\ c.phase = "Starting" /\ AllHealthy(c, "Running") ->
           [c EXCEPT !.phase = "Running"]
      [] Healthy(c) # {} /\ c.phase = "Stopping" /\ AllHealthy(c, "Stopped") ->
           IF c.cause = "FailFast" THEN [Abort(c) EXCEPT !.phase = "Failed"]
           ELSE IF c.cause = "Immediate" THEN [Abort(c) EXCEPT !.phase = "Stopped"]
           ELSE [Flush(c) EXCEPT !.phase = "Stopped"]
      [] OTHER -> c

-----------------------------------------------------------------------------
(* The coordinator's calls.                                                *)

(* One request to each of a set of workers, in worker order, with fresh    *)
(* consecutive identities.                                                 *)
IdOf(targets, w) == nextId + Cardinality({v \in targets : v < w})

Ask(targets, kind, run, mode) ==
    /\ nextId + Cardinality(targets) <= MaxIds + 1
    /\ nextId' = nextId + Cardinality(targets)
    /\ requests' = requests \cup
         {[id |-> IdOf(targets, w), w |-> w, kind |-> kind, run |-> run,
           mode |-> mode, version |-> co.version] : w \in targets}

Asked(targets, stage) ==
    {[id |-> IdOf(targets, w), w |-> w, stage |-> stage, attempt |-> 1] : w \in targets}

(* configure: profile, plan and properties for every healthy worker.       *)
configure ==
    LET targets == Healthy(co)
        id(w, s) == nextId + 3 * Cardinality({v \in targets : v < w}) + Order[s]
    IN
    /\ co.phase \in {"Idle", "Stopped"}
    /\ co.queued = {} /\ co.done = {}
    /\ pending = {}
    /\ targets # {}
    /\ co.version < MaxRuns /\ nextId + 3 * Cardinality(targets) <= MaxIds + 1
    /\ nextId' = nextId + 3 * Cardinality(targets)
    /\ requests' = requests \cup
         {[id |-> id(w, s), w |-> w, kind |-> s, run |-> 0, mode |-> "none",
           version |-> co.version + 1] : w \in targets, s \in Stages}
    /\ pending' = {[id |-> id(w, s), w |-> w, stage |-> s, attempt |-> 1] :
                     w \in targets, s \in Stages}
    /\ co' = [co EXCEPT
         !.phase = "Configuring", !.run = 0, !.version = @ + 1,
         !.mode = "none", !.cause = "none",
         !.rec = [w \in Workers |-> IF w \in targets
                    THEN [phase |-> "Idle", threads |-> 0] ELSE co.rec[w]],
         !.acked = [w \in Workers |-> IF w \in targets THEN {} ELSE co.acked[w]],
         !.mark = [w \in Workers |-> NoMark],
         !.accepted = {}]
    /\ UNCHANGED <<wk, spent, acks, emitted, samples, handed>>

(* start: a run generation that was not used before.                       *)
start(mode) ==
    LET targets == {w \in Workers : co.rec[w].phase = "Ready"} IN
    /\ co.phase = "Ready"
    /\ co.runs < MaxRuns
    /\ Ask(targets, "Start", co.runs + 1, mode)
    /\ pending' = pending \cup Asked(targets, "Started")
    /\ co' = [co EXCEPT !.phase = "Starting", !.run = co.runs + 1, !.runs = @ + 1,
                        !.mode = mode, !.cause = "none", !.accepted = {},
                        !.mark = [w \in Workers |-> NoMark]]
    /\ UNCHANGED <<wk, spent, acks, emitted, samples, handed>>

Severity == [none |-> 0, Graceful |-> 1, Immediate |-> 2, FailFast |-> 3]

(* stop: from Running, from Starting (immediate only), or as an escalation *)
(* of a weaker stop, whose requests are given up.                          *)
stop(mode) ==
    LET starting == co.phase = "Starting"
        targets  == {w \in Workers : co.rec[w].phase \in
                       {"Running", "Stopping"} \cup (IF starting THEN {"Ready"} ELSE {})}
        moved    == IF starting THEN {"Ready"} ELSE {"Running", "Stopping"}
        c == [co EXCEPT !.phase = "Stopping", !.cause = mode,
                !.rec = [w \in Workers |-> IF co.rec[w].phase \in moved
                           THEN [co.rec[w] EXCEPT !.phase = "Stopping"] ELSE co.rec[w]]]
        dropped == {p \in pending : \/ starting /\ p.stage = "Started"
                                    \/ co.phase = "Stopping" /\ p.stage = "Stopped"}
    IN
    /\ \/ starting /\ mode = "Immediate"
       \/ co.phase = "Running"
       \/ co.phase = "Stopping" /\ co.cause # "FailFast"
          /\ Severity[mode] > Severity[co.cause]
    /\ Ask(targets, "Stop", co.run, mode)
    /\ pending' = (pending \ dropped) \cup Asked(targets, "Stopped")
    /\ co' = recompute_phase(c)
    /\ UNCHANGED <<wk, spent, acks, emitted, samples, handed>>

(* retry_request: the same message under a fresh identity.                 *)
retry_request(p) ==
    /\ p.attempt < MaxAttempts
    /\ nextId <= MaxIds
    /\ nextId' = nextId + 1
    /\ pending' = (pending \ {p}) \cup
         {[p EXCEPT !.id = nextId, !.attempt = @ + 1]}
    /\ requests' = requests \cup
         {[r EXCEPT !.id = nextId] : r \in {q \in requests : q.id = p.id}}
    /\ UNCHANGED <<co, wk, spent, acks, emitted, samples, handed>>

(* apply_ack, once the request is known to be pending for this worker and  *)
(* this stage.                                                             *)
AckConfigured(a) ==
    LET acked == co.acked[a.w] \cup {a.stage} IN
    /\ co.phase = "Configuring"
    /\ Before[a.stage] \subseteq co.acked[a.w]
    /\ co' = recompute_phase(
               [co EXCEPT !.acked[a.w] = acked,
                          !.rec[a.w].phase = IF acked = Stages THEN "Ready" ELSE @])

AckStarted(a) ==
    /\ co.phase = "Starting"
    /\ a.run = co.run /\ a.threads = 1
    /\ co' = recompute_phase([co EXCEPT !.rec[a.w] = [phase |-> "Running", threads |-> 1]])

(* Mutant: the acknowledgement alone stops the worker.                     *)
AckStoppedAtOnce(a) ==
    /\ a.run = co.run
    /\ co.phase = "Stopping"
    /\ a.threads = 1 \/ co.rec[a.w].threads = 0
    /\ co' = recompute_phase([co EXCEPT !.mark[a.w] = a.mark,
                                        !.rec[a.w].phase = "Stopped"])

AckStopped(a) ==
    LET c == [co EXCEPT !.mark[a.w] = a.mark] IN
    /\ a.run = co.run
    /\ a.mark <= MaxSamples
    /\ \A s \in FromWorker(co, a.w) : s.seq < a.mark
    /\ co.phase = "Stopping" \/ (co.phase = "Stopped" /\ co.rec[a.w].phase = "Stopped")
    /\ a.threads = 1 \/ co.rec[a.w].threads = 0
    /\ co' = recompute_phase(
               IF Satisfied(c, a.w) THEN [c EXCEPT !.rec[a.w].phase = "Stopped"] ELSE c)

Awaited(a) == {p \in pending : p.id = a.id /\ p.w = a.w /\ p.stage = a.stage}

apply_ack(a) ==
    /\ co.rec[a.w].phase # "Failed"
    /\ Awaited(a) # {}
    /\ \/ a.stage \in Stages /\ AckConfigured(a)
       \/ a.stage = "Started" /\ AckStarted(a)
       \/ a.stage = "Stopped" /\ AckStopped(a)
    /\ pending' = pending \ Awaited(a)
    /\ UNCHANGED <<nextId, wk, requests, spent, acks, emitted, samples, handed>>

(* Mutant: a sample of another run is recorded too.                        *)
AdmissibleAnyRun(s) ==
    /\ co.phase \in {"Running", "Stopping"}
    /\ co.rec[s.w].phase \in {"Running", "Stopping", "Stopped"}
    /\ co.mark[s.w] = NoMark \/ s.seq < co.mark[s.w]

Admissible(s) ==
    /\ co.phase \in {"Running", "Stopping"}
    /\ s.run = co.run
    /\ co.rec[s.w].phase \in {"Running", "Stopping", "Stopped"}
    /\ co.mark[s.w] = NoMark \/ s.seq < co.mark[s.w]

(* record_sample.                                                          *)
record_sample(s) ==
    LET queued == QueueAfter(co.mode, co.queued, s) IN
    /\ Admissible(s)
    /\ s \notin co.accepted
    /\ Cardinality(co.accepted) < MaxSamples
    /\ HasRoom(co.mode, Cardinality(co.queued) + Cardinality(co.done))
    /\ co' = recompute_phase(
               [co EXCEPT !.accepted = @ \cup {s}, !.queued = queued,
                          !.done = @ \cup ((co.queued \cup {s}) \ queued)])
    /\ UNCHANGED <<pending, nextId, wk, requests, spent, acks, emitted, samples, handed>>

(* drain_delivered_samples, and a tick that first releases a batch whose   *)
(* time is due.                                                            *)
drain_delivered_samples(tick) ==
    LET c == IF tick THEN Flush(co) ELSE co IN
    /\ tick => co.mode = "Batch" /\ co.phase \in {"Running", "Stopping", "Stopped"}
    /\ c.done # {}
    /\ handed' = handed \cup c.done
    /\ co' = [c EXCEPT !.done = {}]
    /\ UNCHANGED <<pending, nextId, wk, requests, spent, acks, emitted, samples>>

(* fail_worker: the adapter reports a worker as lost.  Under FailFast the  *)
(* first failure stops every other worker at once.                         *)
fail_worker(w) ==
    LET c       == [co EXCEPT !.rec[w].phase = "Failed"]
        others  == {p \in pending : p.w # w}
        targets == {v \in Workers : c.rec[v].phase \in {"Ready", "Running", "Stopping"}}
        active  == co.run # 0 /\ co.phase \in {"Starting", "Running", "Stopping"}
        stopped == [c EXCEPT !.cause = "FailFast",
                      !.phase = IF AllHealthy(c, "Stopped") THEN "Failed" ELSE "Stopping",
                      !.rec = [v \in Workers |-> IF c.rec[v].phase = "Ready"
                                 THEN [c.rec[v] EXCEPT !.phase = "Stopping"] ELSE c.rec[v]]]
    IN
    /\ co.phase \notin {"Stopped", "Failed"}
    /\ co.rec[w].phase \notin {"Stopped", "Failed"}
    /\ \/ /\ ~co.failFast \/ co.cause = "FailFast"
          /\ pending' = others
          /\ co' = recompute_phase(c)
          /\ UNCHANGED <<nextId, requests>>
       \/ /\ co.failFast /\ co.cause # "FailFast" /\ active
          /\ Ask(targets, "Stop", co.run, "Immediate")
          /\ pending' = Asked(targets, "Stopped")
          /\ co' = stopped
       \/ /\ co.failFast /\ co.cause # "FailFast" /\ ~active
          /\ pending' = {}
          /\ co' = [c EXCEPT !.phase = "Failed"]
          /\ UNCHANGED <<nextId, requests>>
    /\ UNCHANGED <<wk, spent, acks, emitted, samples, handed>>

-----------------------------------------------------------------------------
(* The worker's handlers.                                                  *)

Become(w, s) == wk' = [wk EXCEPT ![w] = s]

Ack(r, stage, run, threads, mark) ==
    acks' = acks \cup {[id |-> r.id, w |-> r.w, stage |-> stage, run |-> run,
                        threads |-> threads, mark |-> mark]}

(* recompute_ready.                                                        *)
Readied(s) == IF s.plan # 0 /\ s.properties # 0 THEN [s EXCEPT !.phase = "Ready"] ELSE s

(* accept_profile: the same profile again only renews its identity; from   *)
(* Stopped a new configuration begins.                                     *)
accept_profile(r) ==
    LET s == wk[r.w] IN
    /\ r.id >= s.profileId
    /\ \/ /\ s.phase \in {"Idle", "Ready"} /\ s.profileId # 0
          /\ Become(r.w, [s EXCEPT !.profileId = r.id])
       \/ /\ s.phase = "Stopped" \/ (s.phase = "Idle" /\ s.profileId = 0)
          /\ Become(r.w, [s EXCEPT !.phase = "Idle", !.profileId = r.id, !.plan = 0,
                !.properties = 0, !.run = 0, !.mode = "none", !.threads = 0,
                !.next = 0, !.held = {}, !.mark = 0])
    /\ Ack(r, "Profile", 0, 0, NoMark)

(* Mutant: a plan is taken whatever profile it belongs to.                 *)
FreshAnyId(r) == wk[r.w].profileId # 0

(* Not of a retired configuration.                                         *)
Fresh(r) == wk[r.w].profileId # 0 /\ r.id >= wk[r.w].profileId

accept_plan(r) ==
    LET s == wk[r.w] IN
    /\ Fresh(r)
    /\ \/ s.phase \in {"Idle", "Ready"} /\ s.plan = r.version /\ UNCHANGED wk
       \/ s.phase = "Idle" /\ s.plan # r.version
          /\ Become(r.w, Readied([s EXCEPT !.plan = r.version]))
    /\ Ack(r, "Plan", 0, 0, NoMark)

accept_properties(r) ==
    LET s == wk[r.w] IN
    /\ Fresh(r)
    /\ s.plan # 0
    /\ \/ s.phase \in {"Idle", "Ready"} /\ s.properties = r.version /\ UNCHANGED wk
       \/ s.phase = "Idle" /\ s.properties # r.version
          /\ Become(r.w, Readied([s EXCEPT !.properties = r.version]))
    /\ Ack(r, "Properties", 0, 0, NoMark)

(* remember_run_id and trim_consumed_run_ids: beyond its limit the worker  *)
(* forgets the run it consumed first.  The last one, last_run_id, is       *)
(* always among those it remembers.                                        *)
Trims(s, run) == Cardinality(s.used \cup {run}) > MaxRemembered

RememberedRuns(s, run) ==
    (s.used \cup {run}) \ (IF Trims(s, run) THEN {Head(Append(s.order, run))} ELSE {})

RememberedOrder(s, run) ==
    IF Trims(s, run) THEN Tail(Append(s.order, run)) ELSE Append(s.order, run)

Started(s, r) ==
    [s EXCEPT !.phase = "Running", !.run = r.run, !.used = RememberedRuns(s, r.run),
              !.order = RememberedOrder(s, r.run), !.mode = r.mode, !.threads = 1,
              !.next = 0, !.held = {}, !.mark = 0]

(* Mutant: a consumed generation may be started again.                     *)
StartConsumed(r) ==
    LET s == wk[r.w] IN
    /\ \/ s.phase = "Running" /\ s.run = r.run /\ UNCHANGED wk
       \/ s.phase = "Ready" /\ Become(r.w, Started(s, r))
    /\ Ack(r, "Started", r.run, 1, NoMark)

(* RemoteWorker::start: a repeated start is acknowledged and changes       *)
(* nothing; a new one needs a run generation this worker does not remember *)
(* to have consumed.                                                       *)
StartWorker(r) ==
    LET s == wk[r.w] IN
    /\ \/ s.phase = "Running" /\ s.run = r.run /\ s.mode = r.mode /\ UNCHANGED wk
       \/ s.phase = "Ready" /\ r.run \notin s.used /\ Become(r.w, Started(s, r))
    /\ Ack(r, "Started", r.run, 1, NoMark)

(* RemoteWorker::stop before the start arrived: the run is consumed.       *)
StopBeforeStart(r) ==
    LET s == wk[r.w] IN
    /\ s.phase = "Ready" /\ s.run = 0 /\ r.run \notin s.used
    /\ Become(r.w, [s EXCEPT !.phase = "Stopped", !.run = r.run,
                !.used = RememberedRuns(s, r.run), !.order = RememberedOrder(s, r.run),
                !.threads = 0, !.mode = "none"])
    /\ Ack(r, "Stopped", r.run, 0, 0)
    /\ UNCHANGED samples

(* RemoteWorker::stop of the active run: a graceful one releases what the  *)
(* sender holds, an immediate one drops it; the watermark tells which.     *)
StopRunning(r) ==
    LET s    == wk[r.w]
        mark == IF r.mode = "Graceful" THEN s.next ELSE s.mark
    IN
    /\ s.phase = "Running" /\ s.run = r.run
    /\ samples' = samples \cup (IF r.mode = "Graceful" THEN s.held ELSE {})
    /\ Become(r.w, [s EXCEPT !.phase = "Stopped", !.held = {}, !.mark = mark])
    /\ Ack(r, "Stopped", r.run, s.threads, mark)

(* RemoteWorker::stop, repeated.                                           *)
StopAgain(r) ==
    LET s == wk[r.w] IN
    /\ s.phase = "Stopped" /\ s.run = r.run
    /\ Ack(r, "Stopped", r.run, s.threads, s.mark)
    /\ UNCHANGED <<wk, samples>>

(* RemoteWorker::apply.                                                    *)
Deliver(r) ==
    /\ r.id \notin spent
    /\ spent' = IF Duplicates THEN spent ELSE spent \cup {r.id}
    /\ \/ /\ \/ r.kind = "Profile" /\ accept_profile(r)
             \/ r.kind = "Plan" /\ accept_plan(r)
             \/ r.kind = "Properties" /\ accept_properties(r)
             \/ r.kind = "Start" /\ StartWorker(r)
          /\ UNCHANGED samples
       \/ r.kind = "Stop" /\ (StopBeforeStart(r) \/ StopRunning(r) \/ StopAgain(r))
    /\ UNCHANGED <<co, pending, nextId, requests, emitted, handed>>

(* emit_sample.                                                            *)
emit_sample(w) ==
    LET s    == wk[w]
        x    == [run |-> s.run, w |-> w, seq |-> s.next]
        held == QueueAfter(s.mode, s.held, x)
    IN
    /\ s.phase = "Running" /\ s.next < MaxRemembered /\ Cardinality(emitted) < MaxSeq
    /\ emitted' = emitted \cup {x}
    /\ samples' = samples \cup ((s.held \cup {x}) \ held)
    /\ Become(w, [s EXCEPT !.next = @ + 1, !.held = held,
                           !.mark = IF held = {} THEN s.next + 1 ELSE @])
    /\ UNCHANGED <<co, pending, nextId, requests, spent, acks, handed>>

(* RemoteWorker::advance_time: a batch whose time is due is released.      *)
advance_time(w) ==
    LET s == wk[w] IN
    /\ s.phase = "Running" /\ s.mode = "Batch" /\ s.held # {}
    /\ samples' = samples \cup s.held
    /\ Become(w, [s EXCEPT !.held = {}, !.mark = s.next])
    /\ UNCHANGED <<co, pending, nextId, requests, spent, acks, emitted, handed>>

-----------------------------------------------------------------------------

DeliverRequest(id) == \E r \in requests : r.id = id /\ Deliver(r)
DeliverAck(id)     == \E a \in acks : a.id = id /\ apply_ack(a)

Next ==
    \/ configure
    \/ \E mode \in Modes : start(mode)
    \/ \E mode \in {"Graceful", "Immediate"} : stop(mode)
    \/ \E p \in pending : retry_request(p)
    \/ \E tick \in BOOLEAN : drain_delivered_samples(tick)
    \/ \E w \in Workers : fail_worker(w) \/ emit_sample(w) \/ advance_time(w)
    \/ \E id \in 1 .. MaxIds : DeliverRequest(id) \/ DeliverAck(id)
    \/ \E s \in samples : record_sample(s)

Spec == Init /\ [][Next]_vars

-----------------------------------------------------------------------------
(* Properties.                                                             *)

(* A run that stopped gracefully has every sample its healthy workers      *)
(* emitted and none of another run, whatever was reordered, repeated or    *)
(* retried on the way.                                                     *)
GracefulIsComplete ==
    co.phase = "Stopped" /\ co.cause = "Graceful" =>
        \A w \in Healthy(co) :
            FromWorker(co, w) = {s \in emitted : s.w = w /\ s.run = co.run}

(* No healthy worker runs behind the coordinator's back: a delayed start,  *)
(* a retry or a stop that overtook the start never leaves one running when *)
(* the run is over, or in another run than the coordinator's.              *)
NoRogueWorker ==
    \A w \in Workers : wk[w].phase = "Running" =>
        \/ co.rec[w].phase = "Failed"
        \/ wk[w].run = co.run /\ co.phase \in {"Starting", "Running", "Stopping"}

(* A worker the coordinator counts as configured holds this plan and these *)
(* properties and no older ones.                                           *)
ConfiguredIsCurrent ==
    \A w \in Workers :
        co.phase \in {"Ready", "Starting", "Running"} /\ co.rec[w].phase # "Failed" =>
            wk[w].plan = co.version /\ wk[w].properties = co.version

(* A sample is handed out once, over all runs: what waits to be handed out *)
(* was never handed out before, however often it was delivered.            *)
HandedOnce == TypeOK /\ (co.queued \cup co.done) \cap handed = {}

(* What a transport that goes on delivering, and an adapter that drains    *)
(* what was delivered, still bring about without a retry or another call:  *)
(* a pending request, an acknowledgement or a sample that is accepted, a   *)
(* drain.  Each is possible only finitely often.                           *)
IsPending(id) == \E p \in pending : p.id = id

MayMove ==
    \/ ENABLED \E id \in 1 .. MaxIds : IsPending(id) /\ DeliverRequest(id)
    \/ ENABLED \E id \in 1 .. MaxIds : DeliverAck(id)
    \/ ENABLED \E s \in samples : record_sample(s)
    \/ ENABLED drain_delivered_samples(FALSE)

(* A stop the caller asked for is never stuck: while the coordinator is    *)
(* Stopping, something on its way still moves the session, in whatever     *)
(* order acknowledgements, samples, retries and escalations met ("A        *)
(* graceful stop must leave every selected worker in the watermark-waiting *)
(* state.  Keeping a running record as Running would make a later          *)
(* satisfied watermark unable to complete it").                            *)
StopIsNeverStuck == co.phase = "Stopping" /\ co.cause # "FailFast" => MayMove

(* A stop that has put every record in the watermark-waiting state is      *)
(* never stuck, as long as the run's samples fit into the accepted set: no *)
(* order of acknowledgements, samples, retries and escalations leaves the  *)
(* coordinator Stopping with nothing on its way.                           *)
WaitingStopIsNeverStuck ==
    /\ co.phase = "Stopping" /\ co.cause # "FailFast"
    /\ \A w \in Workers : co.rec[w].phase # "Running"
    /\ Cardinality({s \in emitted : s.run = co.run}) <= MaxSamples
    => MayMove
=============================================================================

------------------------ MODULE RemoteSessionProofs ------------------------
(***************************************************************************)
(* Proofs about RemoteSession, for any number of workers, samples and      *)
(* requests, as many runs as a worker remembers, any sender modes and      *)
(* failure policies, and a network that may delay, reorder, lose and (with *)
(* Duplicates) repeat every message.                                       *)
(***************************************************************************)
EXTENDS RemoteSession, FiniteSetTheorems, TLAPS

-----------------------------------------------------------------------------
(* The inductive invariant.                                                *)

StopModes == {"Graceful", "Immediate"}
Active    == {"Starting", "Running", "Stopping", "Stopped"}

CoordinatorType ==
    [failFast : Policies, phase : Phases, run : 0 .. MaxRuns, runs : 0 .. MaxRuns,
     version : 0 .. MaxRuns, mode : Modes \cup {"none"},
     cause : {"none", "Graceful", "Immediate", "FailFast"},
     rec : [Workers -> [phase : WorkerPhases, threads : {0, 1}]],
     acked : [Workers -> SUBSET Stages], mark : [Workers -> NoMark .. MaxSamples],
     accepted : SUBSET Samples, queued : SUBSET Samples, done : SUBSET Samples]

WorkerType ==
    [phase : WorkerPhases, profileId : Nat, plan : Nat, properties : Nat,
     run : 0 .. MaxRuns, used : SUBSET (1 .. MaxRuns), order : Seq(1 .. MaxRuns),
     mode : Modes \cup {"none"},
     threads : {0, 1}, next : 0 .. MaxSeq, held : SUBSET Samples, mark : 0 .. MaxSeq]

RequestType ==
    [id : 1 .. MaxIds, w : Workers, kind : Stages \cup {"Start", "Stop"},
     run : 0 .. MaxRuns, mode : Modes \cup {"none"} \cup StopModes, version : Nat]

PendingType ==
    [id : 1 .. MaxIds, w : Workers, stage : Stages \cup {"Started", "Stopped"},
     attempt : 1 .. MaxAttempts]

AckType ==
    [id : 1 .. MaxIds, w : Workers, stage : Stages \cup {"Started", "Stopped"},
     run : 0 .. MaxRuns, threads : {0, 1}, mark : NoMark .. MaxSeq]

(* The samples of one worker and run, and the first n it can have emitted. *)
Emitted(w, k)         == {s \in emitted : s.w = w /\ s.run = k}
FirstSamples(w, k, n) == {[run |-> k, w |-> w, seq |-> i] : i \in 0 .. n - 1}

(* The worker has seen the run and does not run it: it never will again.   *)
Consumed(w, k) == k \in wk[w].used /\ ~(wk[w].phase = "Running" /\ wk[w].run = k)

(* Among these requests, every stop of the worker's run is a graceful one. *)
AllGraceful(R, w, k) ==
    \A r \in R : r.kind = "Stop" /\ r.w = w /\ r.run = k => r.mode = "Graceful"

(* What a worker emitted in its run is numbered without a gap, and it has  *)
(* emitted only in runs it has seen; a worker that was only ever stopped   *)
(* gracefully has released everything below its watermark.                 *)
WorkerInv(w, s) ==
    /\ s.run # 0 => s.run \in s.used /\ Emitted(w, s.run) = FirstSamples(w, s.run, s.next)
    /\ s.run = 0 => s.next = 0
    /\ s.mark <= s.next
    /\ s.phase = "Running" => s.run # 0 /\ s.mode \in Modes
    /\ s.phase = "Stopped" /\ AllGraceful(requests, w, s.run) => s.mark = s.next
    /\ s.held \subseteq emitted
    /\ s.used \subseteq 1 .. co.runs
    /\ \A x \in emitted : x.w = w => x.run \in s.used

WorkersInv == wk \in [Workers -> WorkerType] /\ \A w \in Workers : WorkerInv(w, wk[w])

(* A start or a stop names a run the coordinator has begun.                *)
RequestsInv ==
    /\ requests \subseteq RequestType
    /\ \A r \in requests : /\ r.kind \in {"Start", "Stop"} => r.run \in 1 .. co.runs
                           /\ r.kind = "Start" => r.mode \in Modes
                           /\ r.kind = "Stop" => r.mode \in StopModes

(* A worker that acknowledged a stop is done with the run; if every stop   *)
(* of the run was graceful, its watermark counts all it ever emitted.      *)
StoppedAck(a, R) ==
    /\ Consumed(a.w, a.run) /\ a.mark >= 0
    /\ AllGraceful(R, a.w, a.run) =>
         Emitted(a.w, a.run) = FirstSamples(a.w, a.run, a.mark)

AcksInv ==
    /\ acks \subseteq AckType
    /\ \A a \in acks : a.stage = "Stopped" => StoppedAck(a, requests)

PendingInv ==
    /\ nextId \in 1 .. MaxIds + 1
    /\ pending \subseteq PendingType
    /\ \A p \in pending : p.id < nextId

SamplesInv ==
    /\ IsFiniteSet(emitted) /\ emitted \subseteq Samples
    /\ samples \subseteq emitted /\ handed \subseteq samples

(* What the coordinator believes, as a predicate of its state c and of the *)
(* requests R, so that it can be shown of the states in between, too.      *)

CoTyped(c) ==
    /\ c \in CoordinatorType
    /\ c.queued \cup c.done \subseteq c.accepted
    /\ c.queued \cap c.done = {}

PhaseInv(c) ==
    /\ c.phase \notin Active \cup {"Failed"} => c.run = 0 /\ c.accepted = {}
    /\ c.phase \in Active => c.run = c.runs /\ c.run # 0 /\ c.mode \in Modes
    /\ c.run \in {0, c.runs}
    /\ c.phase \in {"Starting", "Running"} => c.cause = "none"
    /\ c.phase \in {"Ready", "Stopped"} => AllHealthy(c, c.phase)

(* A record is Stopped, and has a watermark, because the worker said so.   *)
MarkInv(c) ==
    \A w \in Workers :
        /\ c.rec[w].phase = "Stopped" => c.mark[w] # NoMark
        /\ c.mark[w] # NoMark =>
             \E a \in acks : /\ a.stage = "Stopped" /\ a.w = w
                             /\ a.run = c.run /\ a.mark = c.mark[w]

(* A healthy worker is done with every run that is over.                   *)
Past(c, k) == k # c.run \/ c.phase \in {"Stopped", "Failed"}
PastInv(c) ==
    \A w \in Healthy(c) : \A k \in 1 .. c.runs : Past(c, k) => Consumed(w, k)

(* Until a stop is immediate, no request is, and a record is Stopped only  *)
(* once the coordinator has everything the worker emitted.                 *)
GraceInv(c, R) ==
    c.cause \in {"none", "Graceful"} =>
        \A w \in Workers :
            /\ AllGraceful(R, w, c.run)
            /\ c.rec[w].phase = "Stopped" => FromWorker(c, w) = Emitted(w, c.run)

(* What was handed out in this run is remembered as accepted.              *)
HandInv(c) ==
    /\ c.accepted \subseteq samples
    /\ \A s \in c.accepted : s.run = c.run
    /\ \A s \in handed : s.run <= c.runs /\ (s.run = c.run => s \in c.accepted)
    /\ (c.queued \cup c.done) \cap handed = {}

CoInv(c, R) ==
    CoTyped(c) /\ PhaseInv(c) /\ MarkInv(c) /\ PastInv(c) /\ GraceInv(c, R) /\ HandInv(c)

IInv == /\ CoInv(co, requests) /\ WorkersInv /\ RequestsInv
        /\ AcksInv /\ PendingInv /\ SamplesInv

-----------------------------------------------------------------------------
(* Facts about the operators.                                              *)

LEMMA Constants ==
    /\ NWorkers \in Nat /\ NWorkers # 0 /\ MaxRuns \in Nat /\ MaxSeq \in Nat
    /\ MaxIds \in Nat /\ MaxSamples \in Nat /\ MaxAttempts \in Nat /\ MaxAttempts # 0
    /\ BatchSize \in Nat /\ Modes \subseteq {"Standard", "Hold", "Batch"}
    /\ NoMark = -1 /\ MaxRemembered \in Nat
BY RemoteAssumption DEF NoMark

LEMMA FiniteWorkers ==
    ASSUME NEW T \in SUBSET Workers
    PROVE  IsFiniteSet(T) /\ Cardinality(T) \in Nat
<1>1. IsFiniteSet(Workers)
  BY Constants, FS_Interval DEF Workers
<1> QED
  BY <1>1, FS_Subset, FS_CardinalityType

(* The rank of a worker among the targets is below their number.           *)
LEMMA RankBelow ==
    ASSUME NEW T \in SUBSET Workers, NEW w \in T
    PROVE  /\ Cardinality({v \in T : v < w}) \in Nat
           /\ Cardinality({v \in T : v < w}) < Cardinality(T)
<1> DEFINE B == {v \in T : v < w}
<1>1. IsFiniteSet(T) /\ Cardinality(T) \in Nat /\ Cardinality(B) \in Nat
  BY FiniteWorkers
<1>2. B \subseteq T \ {w}
  BY Constants DEF Workers
<1>3. Cardinality(B) <= Cardinality(T \ {w}) /\ Cardinality(T \ {w}) = Cardinality(T) - 1
  BY <1>1, <1>2, FS_RemoveElement, FS_Subset
<1> QED
  BY <1>1, <1>3

(* The first n samples are n.                                              *)
LEMMA CountFirst ==
    ASSUME NEW w, NEW k, NEW n \in Nat
    PROVE  IsFiniteSet(FirstSamples(w, k, n)) /\ Cardinality(FirstSamples(w, k, n)) = n
<1> DEFINE f == [i \in 0 .. n - 1 |-> [run |-> k, w |-> w, seq |-> i]]
<1>1. f \in Bijection(0 .. n - 1, FirstSamples(w, k, n))
  BY DEF Bijection, Injection, Surjection, FirstSamples, IsInjective
<1>2. IsFiniteSet(0 .. n - 1) /\ Cardinality(0 .. n - 1) = n
  BY FS_Interval
<1> QED
  BY <1>1, <1>2, FS_Bijection DEF ExistsBijection

LEMMA QueueBound ==
    ASSUME NEW mode \in Modes, NEW queue, NEW s
    PROVE  QueueAfter(mode, queue, s) \subseteq queue \cup {s}
BY Constants DEF QueueAfter

-----------------------------------------------------------------------------
(* recompute_phase.                                                        *)

(* What the coordinator has of a worker is all the watermark counts.       *)
LEMMA SatisfiedComplete ==
    ASSUME NEW c, CoTyped(c), HandInv(c), NEW w \in Workers, Satisfied(c, w)
    PROVE  FromWorker(c, w) = FirstSamples(w, c.run, c.mark[w])
<1>1. c.accepted \subseteq Samples /\ c.mark[w] \in Nat
  BY Constants DEF CoTyped, CoordinatorType, Satisfied
<1>2. FromWorker(c, w) \subseteq FirstSamples(w, c.run, c.mark[w])
  <2> SUFFICES ASSUME NEW s \in FromWorker(c, w)
               PROVE  s \in FirstSamples(w, c.run, c.mark[w])
    OBVIOUS
  <2>1. s \in Samples /\ s.w = w /\ s.run = c.run /\ s.seq < c.mark[w]
    BY <1>1 DEF FromWorker, HandInv, Satisfied
  <2>2. s = [run |-> c.run, w |-> w, seq |-> s.seq] /\ s.seq \in 0 .. c.mark[w] - 1
    BY <1>1, <2>1, Constants DEF Samples
  <2> QED
    BY <2>2 DEF FirstSamples
<1>3. Cardinality(FromWorker(c, w)) = c.mark[w]
  BY DEF Satisfied
<1> QED
  BY <1>1, <1>2, <1>3, CountFirst, FS_Subset

(* The fields recompute_phase leaves alone.                                *)
SameRun(c, d) ==
    /\ d.run = c.run /\ d.runs = c.runs /\ d.version = c.version /\ d.mode = c.mode
    /\ d.cause = c.cause /\ d.mark = c.mark /\ d.acked = c.acked

(* A record changes only from Stopping to Stopped, by a satisfied mark.    *)
RecordsAdvance(c, d) ==
    \A w \in Workers :
        \/ d.rec[w] = c.rec[w]
        \/ c.rec[w].phase = "Stopping" /\ Satisfied(c, w) /\ d.rec[w].phase = "Stopped"

LEMMA AdvanceFacts ==
    ASSUME NEW c, CoTyped(c)
    PROVE  LET d == Advance(c) IN
           /\ CoTyped(d) /\ SameRun(c, d) /\ RecordsAdvance(c, d)
           /\ d.phase = c.phase /\ Healthy(d) = Healthy(c)
           /\ d.accepted = c.accepted /\ d.queued = c.queued /\ d.done = c.done
<1> DEFINE d == Advance(c)
           rec == [w \in Workers |-> IF Satisfied(c, w) /\ c.rec[w].phase = "Stopping"
                     THEN [c.rec[w] EXCEPT !.phase = "Stopped"] ELSE c.rec[w]]
<1>0. c \in CoordinatorType
  BY DEF CoTyped
<1>1. CASE c.cause \notin {"Graceful", "Immediate"}
  <2>1. d = c
    BY <1>1 DEF Advance
  <2> QED
    BY <2>1 DEF SameRun, RecordsAdvance
<1>2. CASE c.cause \in {"Graceful", "Immediate"}
  <2>1. d = [c EXCEPT !.rec = rec]
    BY <1>2 DEF Advance
  <2>2. c.rec \in [Workers -> [phase : WorkerPhases, threads : {0, 1}]]
    BY <1>0 DEF CoordinatorType
  <2>3. \A w \in Workers :
          /\ [c.rec[w] EXCEPT !.phase = "Stopped"] \in [phase : WorkerPhases, threads : {0, 1}]
          /\ [c.rec[w] EXCEPT !.phase = "Stopped"].phase = "Stopped"
    BY <2>2 DEF WorkerPhases
  <2>4. rec \in [Workers -> [phase : WorkerPhases, threads : {0, 1}]]
    BY <2>2, <2>3
  <2>5. /\ d \in CoordinatorType /\ d.rec = rec
        /\ SameRun(c, d) /\ d.phase = c.phase
        /\ d.accepted = c.accepted /\ d.queued = c.queued /\ d.done = c.done
    BY <1>0, <2>1, <2>4 DEF CoordinatorType, SameRun
  <2>6. \A w \in Workers :
          \/ rec[w] = c.rec[w]
          \/ c.rec[w].phase = "Stopping" /\ Satisfied(c, w) /\ rec[w].phase = "Stopped"
    BY <2>3
  <2> HIDE DEF rec, d
  <2>7. RecordsAdvance(c, d)
    BY <2>5, <2>6 DEF RecordsAdvance
  <2>8. Healthy(d) = Healthy(c)
    BY <2>7 DEF RecordsAdvance, Healthy
  <2> QED
    BY <2>5, <2>7, <2>8 DEF CoTyped, d
<1> QED
  BY <1>1, <1>2

(* Every way recompute_phase can end.                                      *)
PhaseMoves(c, d) ==
    \/ d.phase = c.phase
    \/ c.phase = "Configuring" /\ d.phase = "Ready" /\ AllHealthy(d, "Ready")
    \/ c.phase = "Starting" /\ d.phase = "Running"
    \/ c.phase = "Stopping" /\ d.phase \in {"Stopped", "Failed"} /\ AllHealthy(d, "Stopped")
    \/ d.phase = "Failed" /\ Healthy(d) = {}

SamplesKept(c, d) ==
    \/ d.accepted = c.accepted
    \/ /\ d.accepted = c.accepted \ c.queued
       /\ c.cause \in {"Immediate", "FailFast"} \/ Healthy(d) = {}

LEMMA RecomputeFacts ==
    ASSUME NEW c, CoTyped(c)
    PROVE  LET d == recompute_phase(c) IN
           /\ CoTyped(d) /\ SameRun(c, d) /\ RecordsAdvance(c, d)
           /\ Healthy(d) = Healthy(c) /\ PhaseMoves(c, d) /\ SamplesKept(c, d)
           /\ d.queued \cup d.done \subseteq c.queued \cup c.done
<1> DEFINE d == recompute_phase(c)
           b == Advance(c)
<1>1. /\ CoTyped(b) /\ SameRun(c, b) /\ RecordsAdvance(c, b)
      /\ b.phase = c.phase /\ Healthy(b) = Healthy(c)
      /\ b.accepted = c.accepted /\ b.queued = c.queued /\ b.done = c.done
  BY AdvanceFacts
<1> HIDE DEF b
<1>2. b \in CoordinatorType
  BY <1>1 DEF CoTyped
<1> DEFINE Result(e) ==
      /\ CoTyped(e) /\ SameRun(b, e) /\ e.rec = b.rec
      /\ e.queued \cup e.done \subseteq b.queued \cup b.done
<1>3. ASSUME NEW p \in Phases
      PROVE  LET e == [b EXCEPT !.phase = p] IN
             Result(e) /\ e.phase = p /\ e.accepted = b.accepted
  BY <1>1, <1>2 DEF CoTyped, CoordinatorType, SameRun
<1>4. ASSUME NEW p \in Phases
      PROVE  LET e == [Abort(b) EXCEPT !.phase = p] IN
             Result(e) /\ e.phase = p /\ e.accepted = b.accepted \ b.queued
  BY <1>1, <1>2 DEF CoTyped, CoordinatorType, SameRun, Abort
<1>5. ASSUME NEW p \in Phases
      PROVE  LET e == [Flush(b) EXCEPT !.phase = p] IN
             Result(e) /\ e.phase = p /\ e.accepted = b.accepted
  BY <1>1, <1>2 DEF CoTyped, CoordinatorType, SameRun, Flush
<1>6. \/ d = [Abort(b) EXCEPT !.phase = "Failed"] /\ Healthy(b) = {}
      \/ d = [b EXCEPT !.phase = "Ready"] /\ b.phase = "Configuring" /\ AllHealthy(b, "Ready")
      \/ d = [b EXCEPT !.phase = "Running"] /\ b.phase = "Starting"
      \/ /\ b.phase = "Stopping" /\ AllHealthy(b, "Stopped")
         /\ \/ d = [Abort(b) EXCEPT !.phase = "Failed"] /\ b.cause = "FailFast"
            \/ d = [Abort(b) EXCEPT !.phase = "Stopped"] /\ b.cause = "Immediate"
            \/ d = [Flush(b) EXCEPT !.phase = "Stopped"]
      \/ d = b
  BY Zenon DEF recompute_phase, b
<1>7. {"Failed", "Ready", "Running", "Stopped"} \subseteq Phases
  BY DEF Phases
<1> HIDE DEF d
<1>8. /\ Result(d)
      /\ \/ d.phase = b.phase
         \/ b.phase = "Configuring" /\ d.phase = "Ready" /\ AllHealthy(b, "Ready")
         \/ b.phase = "Starting" /\ d.phase = "Running"
         \/ b.phase = "Stopping" /\ d.phase \in {"Stopped", "Failed"} /\ AllHealthy(b, "Stopped")
         \/ d.phase = "Failed" /\ Healthy(b) = {}
      /\ \/ d.accepted = b.accepted
         \/ /\ d.accepted = b.accepted \ b.queued
            /\ b.cause \in {"Immediate", "FailFast"} \/ Healthy(b) = {}
  <2>1. CASE d = b
    BY <1>1, <2>1 DEF SameRun
  <2>2. CASE d = [Abort(b) EXCEPT !.phase = "Failed"] /\ Healthy(b) = {}
    BY <1>4, <1>7, <2>2
  <2>3. CASE \/ d = [b EXCEPT !.phase = "Ready"] /\ b.phase = "Configuring" /\ AllHealthy(b, "Ready")
             \/ d = [b EXCEPT !.phase = "Running"] /\ b.phase = "Starting"
    BY <1>3, <1>7, <2>3
  <2>4. CASE /\ b.phase = "Stopping" /\ AllHealthy(b, "Stopped")
             /\ \/ d = [Abort(b) EXCEPT !.phase = "Failed"] /\ b.cause = "FailFast"
                \/ d = [Abort(b) EXCEPT !.phase = "Stopped"] /\ b.cause = "Immediate"
    BY <1>4, <1>7, <2>4
  <2>5. CASE /\ b.phase = "Stopping" /\ AllHealthy(b, "Stopped")
             /\ d = [Flush(b) EXCEPT !.phase = "Stopped"]
    BY <1>5, <1>7, <2>5
  <2> QED
    BY <1>6, <2>1, <2>2, <2>3, <2>4, <2>5
<1>9. Healthy(d) = Healthy(b) /\ \A p \in WorkerPhases : AllHealthy(d, p) = AllHealthy(b, p)
  BY <1>8 DEF Healthy, AllHealthy
<1>10. AllHealthy(b, "Ready") => AllHealthy(d, "Ready")
  BY <1>8 DEF Healthy, AllHealthy
<1>11. AllHealthy(b, "Stopped") => AllHealthy(d, "Stopped")
  BY <1>8 DEF Healthy, AllHealthy
<1>12. SameRun(c, d) /\ RecordsAdvance(c, d)
  BY <1>1, <1>8 DEF SameRun, RecordsAdvance
<1>13. PhaseMoves(c, d)
  BY <1>1, <1>8, <1>9, <1>10, <1>11 DEF PhaseMoves
<1>14. SamplesKept(c, d)
  BY <1>1, <1>8, <1>9 DEF SamplesKept, SameRun
<1> QED
  BY <1>1, <1>8, <1>9, <1>12, <1>13, <1>14 DEF d

(* Nothing about the configuration changes on the coordinator's side.      *)
Quiet(c, d) ==
    /\ d.version = c.version /\ d.acked = c.acked /\ d.run = c.run
    /\ d.phase = "Idle" => c.phase = "Idle"
    /\ \A w \in Workers : /\ d.rec[w].phase # "Failed" => c.rec[w].phase # "Failed"
                          /\ d.rec[w].phase = "Ready" => c.rec[w].phase = "Ready"

LEMMA RecomputeQuiet ==
    ASSUME NEW c, NEW b, CoTyped(c), Quiet(b, c)
    PROVE  Quiet(b, recompute_phase(c))
<1> DEFINE d == recompute_phase(c)
<1>1. SameRun(c, d) /\ RecordsAdvance(c, d) /\ PhaseMoves(c, d)
  BY RecomputeFacts
<1> HIDE DEF d
<1>2. Quiet(b, d)
  BY <1>1 DEF Quiet, SameRun, RecordsAdvance, PhaseMoves
<1> QED
  BY <1>2 DEF d

(* A record that turns Stopped has all its worker emitted, if every stop   *)
(* was graceful.                                                           *)
LEMMA SatisfiedHasAll ==
    ASSUME NEW c, NEW R, CoTyped(c), HandInv(c), MarkInv(c),
           \A a \in acks : a.stage = "Stopped" => StoppedAck(a, R),
           NEW w \in Workers, Satisfied(c, w), AllGraceful(R, w, c.run)
    PROVE  FromWorker(c, w) = Emitted(w, c.run)
<1>1. c.mark[w] # NoMark
  BY DEF Satisfied
<1>2. PICK a \in acks : a.stage = "Stopped" /\ a.w = w /\ a.run = c.run /\ a.mark = c.mark[w]
  BY <1>1 DEF MarkInv
<1>3. Emitted(w, c.run) = FirstSamples(w, c.run, c.mark[w])
  BY <1>2 DEF StoppedAck
<1> QED
  BY <1>3, SatisfiedComplete

(* recompute_phase preserves what the coordinator believes.                *)
LEMMA RecomputeInv ==
    ASSUME NEW c, NEW R, CoInv(c, R), SamplesInv,
           \A a \in acks : a.stage = "Stopped" => StoppedAck(a, R)
    PROVE  CoInv(recompute_phase(c), R)
<1> DEFINE d == recompute_phase(c)
<1>0. CoTyped(c) /\ PhaseInv(c) /\ MarkInv(c) /\ PastInv(c) /\ GraceInv(c, R) /\ HandInv(c)
  BY DEF CoInv
<1>1. /\ CoTyped(d) /\ SameRun(c, d) /\ RecordsAdvance(c, d)
      /\ Healthy(d) = Healthy(c) /\ PhaseMoves(c, d) /\ SamplesKept(c, d)
      /\ d.queued \cup d.done \subseteq c.queued \cup c.done
  BY <1>0, RecomputeFacts
<1> HIDE DEF d
<1>2. \A w \in Workers :
        \/ d.rec[w] = c.rec[w]
        \/ c.rec[w].phase = "Stopping" /\ Satisfied(c, w) /\ d.rec[w].phase = "Stopped"
  BY <1>1 DEF RecordsAdvance
<1>3. /\ d.run = c.run /\ d.runs = c.runs /\ d.mode = c.mode
      /\ d.cause = c.cause /\ d.mark = c.mark
  BY <1>1 DEF SameRun
<1>4. \A w \in Workers : d.rec[w].phase = "Stopped" => c.mark[w] # NoMark
  BY <1>0, <1>2 DEF MarkInv, Satisfied
<1>5. MarkInv(d)
  BY <1>0, <1>3, <1>4 DEF MarkInv
<1>6. d.accepted \subseteq c.accepted
  BY <1>1 DEF SamplesKept
<1>7. PhaseInv(d)
  <2>1. c.phase \in {"Ready", "Stopped"} /\ d.phase = c.phase => AllHealthy(d, d.phase)
    BY <1>0, <1>1, <1>2 DEF PhaseInv, AllHealthy, Healthy
  <2>2. d.phase \in {"Ready", "Stopped"} => AllHealthy(d, d.phase)
    BY <1>1, <2>1 DEF PhaseMoves
  <2> QED
    BY <1>0, <1>1, <1>3, <1>6, <2>2 DEF PhaseInv, PhaseMoves, Active
<1>8. PastInv(d)
  <2> SUFFICES ASSUME NEW w \in Healthy(d), NEW k \in 1 .. d.runs, Past(d, k)
               PROVE  Consumed(w, k)
    BY DEF PastInv
  <2>1. w \in Workers /\ w \in Healthy(c) /\ k \in 1 .. c.runs
    BY <1>1, <1>3 DEF Healthy
  <2>2. CASE Past(c, k)
    BY <1>0, <2>1, <2>2 DEF PastInv
  <2>3. CASE ~Past(c, k)
    <3>1. k = c.run /\ c.phase \notin {"Stopped", "Failed"} /\ d.phase \in {"Stopped", "Failed"}
      BY <1>3, <2>3 DEF Past
    <3>2. d.rec[w].phase = "Stopped"
      BY <1>1, <3>1 DEF PhaseMoves, AllHealthy
    <3>3. PICK a \in acks : a.stage = "Stopped" /\ a.w = w /\ a.run = c.run
      BY <1>0, <1>4, <2>1, <3>2 DEF MarkInv
    <3> QED
      BY <3>1, <3>3 DEF StoppedAck
  <2> QED
    BY <2>2, <2>3
<1>9. GraceInv(d, R)
  <2> SUFFICES ASSUME d.cause \in {"none", "Graceful"}, NEW w \in Workers
               PROVE  /\ AllGraceful(R, w, d.run)
                      /\ d.rec[w].phase = "Stopped" => FromWorker(d, w) = Emitted(w, d.run)
    BY DEF GraceInv
  <2>1. AllGraceful(R, w, c.run)
    BY <1>0, <1>3 DEF GraceInv
  <2>2. ASSUME d.rec[w].phase = "Stopped" PROVE FromWorker(d, w) = Emitted(w, d.run)
    <3>1. w \in Healthy(d)
      BY <2>2 DEF Healthy
    <3>2. d.accepted = c.accepted
      BY <1>1, <1>3, <3>1 DEF SamplesKept
    <3>3. FromWorker(c, w) = Emitted(w, c.run)
      <4>1. CASE d.rec[w] = c.rec[w]
        BY <1>0, <1>3, <2>2, <4>1 DEF GraceInv
      <4>2. CASE Satisfied(c, w)
        BY <1>0, <2>1, <4>2, SatisfiedHasAll
      <4> QED
        BY <1>2, <4>1, <4>2
    <3> QED
      BY <1>3, <3>2, <3>3 DEF FromWorker
  <2> QED
    BY <1>3, <2>1, <2>2
<1>10. HandInv(d)
  <2>1. (d.queued \cup d.done) \cap handed = {}
    BY <1>0, <1>1 DEF HandInv
  <2>2. \A s \in handed : s.run = c.run => s \in c.accepted /\ s \notin c.queued
    BY <1>0 DEF HandInv
  <2> QED
    BY <1>0, <1>1, <1>3, <1>6, <2>1, <2>2 DEF HandInv, SamplesKept
<1> QED
  BY <1>1, <1>5, <1>7, <1>8, <1>9, <1>10 DEF CoInv, d

-----------------------------------------------------------------------------
(* Requests.                                                               *)

LEMMA StateTypes ==
    ASSUME IInv
    PROVE  /\ co \in CoordinatorType /\ wk \in [Workers -> WorkerType]
           /\ requests \subseteq RequestType /\ acks \subseteq AckType
           /\ pending \subseteq PendingType /\ nextId \in 1 .. MaxIds + 1
           /\ co.run \in Nat /\ co.runs \in Nat /\ co.version \in Nat
           /\ co.run <= MaxRuns /\ co.runs <= MaxRuns
<1>1. co \in CoordinatorType
  BY DEF IInv, CoInv, CoTyped
<1>2. /\ co.run \in 0 .. MaxRuns /\ co.runs \in 0 .. MaxRuns /\ co.version \in 0 .. MaxRuns
  BY <1>1 DEF CoordinatorType
<1> QED
  BY <1>1, <1>2, Constants DEF IInv, WorkersInv, RequestsInv, AcksInv, PendingInv

(* New requests say what was asked, under identities not used before.      *)
LEMMA AskFacts ==
    ASSUME IInv, NEW T \in SUBSET Workers, NEW kind \in {"Start", "Stop"},
           NEW k \in 0 .. MaxRuns, NEW mode \in Modes \cup StopModes,
           NEW stage \in {"Started", "Stopped"}, Ask(T, kind, k, mode)
    PROVE  /\ nextId' \in 1 .. MaxIds + 1 /\ nextId <= nextId'
           /\ requests \subseteq requests' /\ requests' \subseteq RequestType
           /\ \A r \in requests' \ requests : r.kind = kind /\ r.run = k /\ r.mode = mode
           /\ Asked(T, stage) \subseteq PendingType
           /\ \A p \in Asked(T, stage) : p.id < nextId'
<1> DEFINE new(w) == [id |-> IdOf(T, w), w |-> w, kind |-> kind, run |-> k,
                      mode |-> mode, version |-> co.version]
           ask(w) == [id |-> IdOf(T, w), w |-> w, stage |-> stage, attempt |-> 1]
<1>1. /\ nextId \in Nat /\ nextId >= 1 /\ Cardinality(T) \in Nat /\ MaxIds \in Nat
      /\ nextId' = nextId + Cardinality(T) /\ nextId' <= MaxIds + 1
      /\ co.version \in Nat /\ requests \subseteq RequestType
  BY StateTypes, FiniteWorkers, Constants DEF Ask
<1>2. ASSUME NEW w \in T PROVE IdOf(T, w) \in 1 .. MaxIds /\ IdOf(T, w) < nextId'
  BY <1>1, RankBelow DEF IdOf
<1>3. requests' = requests \cup {new(w) : w \in T} /\ Asked(T, stage) = {ask(w) : w \in T}
  BY DEF Ask, Asked
<1>4. ASSUME NEW w \in T
      PROVE  /\ new(w) \in RequestType /\ ask(w) \in PendingType /\ ask(w).id < nextId'
             /\ new(w).kind = kind /\ new(w).run = k /\ new(w).mode = mode
  BY <1>1, <1>2, Constants DEF RequestType, PendingType
<1> HIDE DEF new, ask
<1> QED
  BY <1>1, <1>3, <1>4

(* A step of the coordinator leaves the workers' side true.                *)
LEMMA CoordinatorFrame ==
    ASSUME IInv, UNCHANGED <<wk, acks, emitted, samples>>, requests \subseteq requests',
           co'.runs \in Nat, co.runs <= co'.runs, handed' \subseteq samples
    PROVE  WorkersInv' /\ AcksInv' /\ SamplesInv'
<1>1. \A w, k : AllGraceful(requests', w, k) => AllGraceful(requests, w, k)
  BY DEF AllGraceful
<1>2. \A w, k : /\ Emitted(w, k)' = Emitted(w, k)
                /\ Consumed(w, k)' = Consumed(w, k)
  BY DEF Emitted, Consumed
<1>3. ASSUME NEW w \in Workers PROVE WorkerInv(w, wk[w])'
  <2>1. WorkerInv(w, wk[w])
    BY DEF IInv, WorkersInv
  <2>2. 1 .. co.runs \subseteq 1 .. co'.runs
    BY StateTypes
  <2> QED
    BY <1>1, <1>2, <2>1, <2>2 DEF WorkerInv
<1>4. WorkersInv'
  BY <1>3 DEF IInv, WorkersInv
<1>5. AcksInv'
  BY <1>1, <1>2 DEF IInv, AcksInv, StoppedAck
<1>6. SamplesInv'
  BY DEF IInv, SamplesInv
<1> QED
  BY <1>4, <1>5, <1>6

(* What holds of the coordinator's new state holds after the step.         *)
LEMMA CoordinatorStep ==
    ASSUME NEW d, NEW R, CoInv(d, R), co' = d, requests' = R,
           UNCHANGED <<wk, acks, emitted, samples, handed>>
    PROVE  CoInv(co, requests)'
<1>1. \A w, k : Emitted(w, k)' = Emitted(w, k) /\ Consumed(w, k)' = Consumed(w, k)
  BY DEF Emitted, Consumed
<1>2. CoTyped(co)' /\ PhaseInv(co)'
  BY DEF CoInv, CoTyped, PhaseInv, AllHealthy, Healthy
<1>3. MarkInv(co)' /\ HandInv(co)'
  BY DEF CoInv, MarkInv, HandInv
<1>4. PastInv(co)'
  BY <1>1 DEF CoInv, PastInv, Past, Healthy
<1>5. GraceInv(co, requests)'
  BY <1>1 DEF CoInv, GraceInv, FromWorker, AllGraceful
<1> QED
  BY <1>2, <1>3, <1>4, <1>5 DEF CoInv

(* New stops of the current run, or none.                                  *)
LEMMA RequestsStep ==
    ASSUME IInv, requests \subseteq requests', requests' \subseteq RequestType,
           co'.runs \in Nat, co.runs <= co'.runs,
           \A r \in requests' \ requests :
              /\ r.kind \in {"Start", "Stop"} => r.run \in 1 .. co'.runs
              /\ r.kind = "Start" => r.mode \in Modes
              /\ r.kind = "Stop" => r.mode \in StopModes
    PROVE  RequestsInv'
<1>1. 1 .. co.runs \subseteq 1 .. co'.runs
  BY StateTypes
<1> QED
  BY <1>1 DEF IInv, RequestsInv

-----------------------------------------------------------------------------
(* The coordinator's calls.                                                *)

LEMMA ConfigureKeeps == ASSUME IInv, configure PROVE IInv'
<1> DEFINE T == Healthy(co)
           id(w, s) == nextId + 3 * Cardinality({v \in T : v < w}) + Order[s]
           new(w, s) == [id |-> id(w, s), w |-> w, kind |-> s, run |-> 0,
                         mode |-> "none", version |-> co.version + 1]
           ask(w, s) == [id |-> id(w, s), w |-> w, stage |-> s, attempt |-> 1]
           rec == [w \in Workers |-> IF w \in T THEN [phase |-> "Idle", threads |-> 0]
                                     ELSE co.rec[w]]
           acked == [w \in Workers |-> IF w \in T THEN {} ELSE co.acked[w]]
           d == [co EXCEPT !.phase = "Configuring", !.run = 0, !.version = @ + 1,
                   !.mode = "none", !.cause = "none", !.rec = rec, !.acked = acked,
                   !.mark = [w \in Workers |-> NoMark], !.accepted = {}]
<1>1. /\ co \in CoordinatorType /\ co.version \in Nat /\ co.version < MaxRuns
      /\ co.phase \in {"Idle", "Stopped"} /\ co.queued = {} /\ co.done = {}
      /\ nextId \in Nat /\ nextId >= 1 /\ Cardinality(T) \in Nat
      /\ nextId' = nextId + 3 * Cardinality(T) /\ nextId' <= MaxIds + 1
      /\ T \subseteq Workers
  BY StateTypes, FiniteWorkers, Constants DEF configure, Healthy
<1>2. /\ co' = d
      /\ requests' = requests \cup {new(w, s) : w \in T, s \in Stages}
      /\ pending' = {ask(w, s) : w \in T, s \in Stages}
      /\ UNCHANGED <<wk, spent, acks, emitted, samples, handed>>
  BY DEF configure
<1>3. ASSUME NEW w \in T, NEW s \in Stages
      PROVE  id(w, s) \in 1 .. MaxIds /\ id(w, s) < nextId'
  <2>1. Order[s] \in 0 .. 2
    BY DEF Order, Stages
  <2>2. /\ Cardinality({v \in T : v < w}) \in Nat
        /\ Cardinality({v \in T : v < w}) < Cardinality(T)
    BY <1>1, RankBelow
  <2> QED
    BY <1>1, <2>1, <2>2, Constants
<1>4. ASSUME NEW w \in T, NEW s \in Stages
      PROVE  /\ new(w, s) \in RequestType /\ ask(w, s) \in PendingType
             /\ ask(w, s).id < nextId' /\ new(w, s).kind \notin {"Start", "Stop"}
  <2>1. w \in Workers /\ co.version + 1 \in Nat /\ s \notin {"Start", "Stop"}
    BY <1>1 DEF Stages
  <2> QED
    BY <1>3, <2>1, Constants DEF RequestType, PendingType
<1> HIDE DEF new, ask
<1>5. PendingInv'
  BY <1>1, <1>2, <1>4, Constants DEF PendingInv
<1>6. /\ rec \in [Workers -> [phase : WorkerPhases, threads : {0, 1}]]
      /\ acked \in [Workers -> SUBSET Stages]
      /\ [w \in Workers |-> NoMark] \in [Workers -> NoMark .. MaxSamples]
      /\ co.version + 1 \in 0 .. MaxRuns
  BY <1>1, Constants DEF CoordinatorType, WorkerPhases
<1>7. \A w \in Workers : rec[w].phase # "Stopped" /\ (rec[w].phase # "Failed" => w \in T)
  BY DEF Healthy
<1> HIDE DEF T, rec, acked
<1>8. /\ d \in CoordinatorType
      /\ d.phase = "Configuring" /\ d.run = 0 /\ d.runs = co.runs /\ d.cause = "none"
      /\ d.rec = rec /\ d.mark = [w \in Workers |-> NoMark] /\ d.accepted = {}
      /\ d.queued = {} /\ d.done = {}
  <2> DEFINE none == [w \in Workers |-> NoMark]
             version == co.version + 1
             e == [co EXCEPT !.phase = "Configuring", !.run = 0, !.version = version,
                   !.mode = "none", !.cause = "none", !.rec = rec, !.acked = acked,
                   !.mark = none, !.accepted = {}]
  <2>1. /\ none \in [Workers -> NoMark .. MaxSamples] /\ version \in 0 .. MaxRuns
        /\ 0 \in 0 .. MaxRuns
    BY <1>6, Constants
  <2>2. d = e
    OBVIOUS
  <2> HIDE DEF none, version
  <2>3. e \in CoordinatorType
    BY <1>1, <1>6, <2>1 DEF CoordinatorType, Phases
  <2>4. /\ e.phase = "Configuring" /\ e.run = 0 /\ e.runs = co.runs /\ e.cause = "none"
        /\ e.rec = rec /\ e.mark = none /\ e.accepted = {}
        /\ e.queued = {} /\ e.done = {}
    BY <1>1 DEF CoordinatorType
  <2> QED
    BY <2>2, <2>3, <2>4 DEF none
<1> HIDE DEF d
<1>9. RequestsInv'
  BY <1>2, <1>4, <1>8, RequestsStep, StateTypes
<1>10. CoInv(d, requests')
  <2>1. CoTyped(d) /\ PhaseInv(d) /\ MarkInv(d)
    BY <1>7, <1>8 DEF CoTyped, PhaseInv, MarkInv, Active
  <2>2. PastInv(d)
    <3>1. \A k \in 1 .. co.runs : Past(co, k)
      BY <1>1, StateTypes DEF IInv, CoInv, PhaseInv, Past, Active
    <3> QED
      BY <1>7, <1>8, <3>1 DEF PastInv, Healthy, IInv, CoInv, T
  <2>3. GraceInv(d, requests')
    <3>1. \A r \in requests' : r.kind = "Stop" => r.run # 0
      BY <1>2, <1>4 DEF IInv, RequestsInv
    <3> QED
      BY <1>7, <1>8, <3>1 DEF GraceInv, AllGraceful
  <2>4. HandInv(d)
    <3>1. \A s \in handed : s.run # 0
      BY Constants DEF IInv, SamplesInv, Samples
    <3> QED
      BY <1>8, <3>1 DEF IInv, CoInv, HandInv
  <2> QED
    BY <2>1, <2>2, <2>3, <2>4 DEF CoInv
<1>11. CoInv(co, requests)'
  BY <1>2, <1>10, CoordinatorStep
<1>12. WorkersInv' /\ AcksInv' /\ SamplesInv'
  BY <1>2, <1>8, StateTypes, CoordinatorFrame DEF IInv, SamplesInv
<1> QED
  BY <1>5, <1>9, <1>11, <1>12 DEF IInv

LEMMA StartKeeps == ASSUME IInv, NEW mode \in Modes, start(mode) PROVE IInv'
<1> DEFINE T == {w \in Workers : co.rec[w].phase = "Ready"}
           d == [co EXCEPT !.phase = "Starting", !.run = co.runs + 1, !.runs = @ + 1,
                           !.mode = mode, !.cause = "none", !.accepted = {},
                           !.mark = [w \in Workers |-> NoMark]]
<1>1. /\ co \in CoordinatorType /\ co.runs \in Nat /\ co.runs < MaxRuns
      /\ co.phase = "Ready" /\ co.run = 0 /\ co.accepted = {}
  BY StateTypes DEF start, IInv, CoInv, PhaseInv, Active
<1>2. /\ Ask(T, "Start", co.runs + 1, mode) /\ pending' = pending \cup Asked(T, "Started")
      /\ co' = d /\ UNCHANGED <<wk, spent, acks, emitted, samples, handed>>
  BY DEF start
<1>3. T \subseteq Workers /\ co.runs + 1 \in 0 .. MaxRuns /\ co.runs + 1 \in 1 .. co.runs + 1
  BY <1>1, Constants
<1> HIDE DEF T
<1>4. /\ nextId' \in 1 .. MaxIds + 1 /\ nextId <= nextId'
      /\ requests \subseteq requests' /\ requests' \subseteq RequestType
      /\ \A r \in requests' \ requests :
            r.kind = "Start" /\ r.run = co.runs + 1 /\ r.mode = mode
      /\ Asked(T, "Started") \subseteq PendingType
      /\ \A p \in Asked(T, "Started") : p.id < nextId'
  BY <1>2, <1>3, AskFacts
<1>5. PendingInv'
  <2>1. \A p \in pending : p \in PendingType /\ p.id \in Int /\ p.id < nextId
    BY Constants DEF IInv, PendingInv, PendingType
  <2>2. \A p \in pending : p.id < nextId'
    BY <1>4, <2>1, StateTypes, Constants
  <2> QED
    BY <1>2, <1>4, <2>1, <2>2 DEF PendingInv
<1>6. [w \in Workers |-> NoMark] \in [Workers -> NoMark .. MaxSamples]
  BY Constants
<1>7. /\ d \in CoordinatorType
      /\ d.phase = "Starting" /\ d.run = co.runs + 1 /\ d.runs = co.runs + 1
      /\ d.cause = "none" /\ d.rec = co.rec /\ d.mark = [w \in Workers |-> NoMark]
      /\ d.accepted = {} /\ d.queued = co.queued /\ d.done = co.done /\ d.mode = mode
  BY <1>1, <1>3, <1>6 DEF CoordinatorType, Phases
<1> HIDE DEF d
<1>8. RequestsInv'
  BY <1>1, <1>2, <1>3, <1>4, <1>7, RequestsStep
<1>9. \A w \in Workers : co.rec[w].phase \in {"Ready", "Failed"}
  BY <1>1 DEF IInv, CoInv, PhaseInv, AllHealthy, Healthy
<1>10. CoInv(d, requests')
  <2>1. CoTyped(d)
    BY <1>1, <1>7 DEF CoTyped, IInv, CoInv
  <2>2. PhaseInv(d) /\ MarkInv(d)
    BY <1>1, <1>7, <1>9 DEF PhaseInv, MarkInv, Active
  <2>3. PastInv(d)
    <3>1. \A k \in 1 .. co.runs : Past(co, k)
      BY <1>1 DEF Past
    <3>2. \A k \in 1 .. d.runs : Past(d, k) => k \in 1 .. co.runs
      BY <1>1, <1>7 DEF Past
    <3> QED
      BY <1>7, <3>1, <3>2 DEF PastInv, Healthy, IInv, CoInv
  <2>4. GraceInv(d, requests')
    <3>1. \A r \in requests' : r.kind = "Stop" => r.run # co.runs + 1
      BY <1>1, <1>4 DEF IInv, RequestsInv
    <3> QED
      BY <1>7, <1>9, <3>1 DEF GraceInv, AllGraceful
  <2>5. HandInv(d)
    <3>1. \A s \in handed : s.run \in Nat /\ s.run <= co.runs
      BY Constants DEF IInv, SamplesInv, Samples, CoInv, HandInv
    <3>2. \A s \in handed : s.run # co.runs + 1 /\ s.run <= co.runs + 1
      BY <1>1, <3>1
    <3> QED
      BY <1>7, <3>2 DEF IInv, CoInv, HandInv
  <2> QED
    BY <2>1, <2>2, <2>3, <2>4, <2>5 DEF CoInv
<1>11. CoInv(co, requests)'
  BY <1>2, <1>10, CoordinatorStep
<1>12. WorkersInv' /\ AcksInv' /\ SamplesInv'
  BY <1>1, <1>2, <1>4, <1>7, CoordinatorFrame DEF IInv, SamplesInv
<1> QED
  BY <1>5, <1>8, <1>11, <1>12 DEF IInv

(* The acknowledgements mean the same under the requests of the next state.*)
LEMMA AcksUnderMore ==
    ASSUME IInv, NEW R, requests \subseteq R
    PROVE  \A a \in acks : a.stage = "Stopped" => StoppedAck(a, R)
<1>1. \A w, k : AllGraceful(R, w, k) => AllGraceful(requests, w, k)
  BY DEF AllGraceful
<1> QED
  BY <1>1 DEF IInv, AcksInv, StoppedAck

(* A call that only drops and adds pending requests.                       *)
LEMMA PendingStep ==
    ASSUME IInv, NEW T, T \subseteq PendingType, \A p \in T : p.id < nextId',
           pending' \subseteq pending \cup T,
           nextId' \in 1 .. MaxIds + 1, nextId <= nextId'
    PROVE  PendingInv'
<1>1. \A p \in pending : p \in PendingType /\ p.id \in Int /\ p.id < nextId
  BY Constants DEF IInv, PendingInv, PendingType
<1>2. \A p \in pending : p.id < nextId'
  BY <1>1, StateTypes, Constants
<1> QED
  BY <1>1, <1>2 DEF PendingInv

(* The state the coordinator computes its next phase from is enough.       *)
LEMMA RecomputeStep ==
    ASSUME IInv, NEW c, CoInv(c, requests'), c.runs = co.runs, co' = recompute_phase(c),
           requests \subseteq requests', requests' \subseteq RequestType,
           \A r \in requests' \ requests :
              r.kind = "Stop" /\ r.run \in 1 .. co.runs /\ r.mode \in StopModes,
           PendingInv', UNCHANGED <<wk, acks, emitted, samples, handed>>
    PROVE  IInv'
<1>1. CoInv(recompute_phase(c), requests')
  BY AcksUnderMore, RecomputeInv DEF IInv
<1>2. CoInv(co, requests)'
  BY <1>1, CoordinatorStep
<1>3. co'.runs = co.runs
  BY RecomputeFacts DEF CoInv, SameRun
<1>4. RequestsInv'
  BY <1>3, StateTypes, RequestsStep
<1>5. WorkersInv' /\ AcksInv' /\ SamplesInv'
  BY <1>3, StateTypes, CoordinatorFrame DEF IInv, SamplesInv
<1> QED
  BY <1>2, <1>4, <1>5 DEF IInv

LEMMA StopKeeps == ASSUME IInv, NEW mode \in StopModes, stop(mode)
                  PROVE  IInv' /\ Quiet(co, co')
<1> DEFINE starting == co.phase = "Starting"
           T == {w \in Workers : co.rec[w].phase \in
                   {"Running", "Stopping"} \cup (IF starting THEN {"Ready"} ELSE {})}
           moved == IF starting THEN {"Ready"} ELSE {"Running", "Stopping"}
           rec == [w \in Workers |-> IF co.rec[w].phase \in moved
                     THEN [co.rec[w] EXCEPT !.phase = "Stopping"] ELSE co.rec[w]]
           c == [co EXCEPT !.phase = "Stopping", !.cause = mode, !.rec = rec]
<1>1. /\ Ask(T, "Stop", co.run, mode) /\ co' = recompute_phase(c)
      /\ pending' \subseteq pending \cup Asked(T, "Stopped")
      /\ UNCHANGED <<wk, spent, acks, emitted, samples, handed>>
  BY DEF stop
<1>2. /\ co.phase \in {"Starting", "Running", "Stopping"}
      /\ co.phase = "Starting" => mode = "Immediate"
      /\ co.phase = "Stopping" /\ mode = "Graceful" => co.cause \in {"none", "Graceful"}
  <2>1. co.cause \in {"none", "Graceful", "Immediate", "FailFast"}
    BY StateTypes DEF CoordinatorType
  <2> QED
    BY <2>1 DEF stop, Severity
<1>3. /\ co \in CoordinatorType /\ co.run \in 0 .. MaxRuns /\ co.run \in 1 .. co.runs
      /\ co.rec \in [Workers -> [phase : WorkerPhases, threads : {0, 1}]]
  BY <1>2, StateTypes DEF IInv, CoInv, PhaseInv, Active, CoordinatorType
<1>4. T \subseteq Workers
  OBVIOUS
<1> HIDE DEF T
<1>5. /\ nextId' \in 1 .. MaxIds + 1 /\ nextId <= nextId'
      /\ requests \subseteq requests' /\ requests' \subseteq RequestType
      /\ \A r \in requests' \ requests : r.kind = "Stop" /\ r.run = co.run /\ r.mode = mode
      /\ Asked(T, "Stopped") \subseteq PendingType
      /\ \A p \in Asked(T, "Stopped") : p.id < nextId'
  BY <1>1, <1>3, <1>4, AskFacts
<1>6. PendingInv'
  BY <1>1, <1>5, PendingStep
<1>7. /\ rec \in [Workers -> [phase : WorkerPhases, threads : {0, 1}]]
      /\ \A w \in Workers : /\ rec[w].phase = "Stopped" => co.rec[w].phase = "Stopped"
                            /\ rec[w].phase # "Failed" => co.rec[w].phase # "Failed"
                            /\ rec[w].phase = "Ready" => co.rec[w].phase = "Ready"
  <2>1. ASSUME NEW w \in Workers
        PROVE  /\ [co.rec[w] EXCEPT !.phase = "Stopping"] \in [phase : WorkerPhases, threads : {0, 1}]
               /\ [co.rec[w] EXCEPT !.phase = "Stopping"].phase = "Stopping"
    BY <1>3 DEF WorkerPhases
  <2> QED
    BY <1>3, <2>1
<1> HIDE DEF rec
<1>8. /\ c \in CoordinatorType /\ c.phase = "Stopping" /\ c.cause = mode /\ c.rec = rec
      /\ c.run = co.run /\ c.runs = co.runs /\ c.mark = co.mark /\ c.mode = co.mode
      /\ c.accepted = co.accepted /\ c.queued = co.queued /\ c.done = co.done
      /\ c.version = co.version /\ c.acked = co.acked
  BY <1>3, <1>7 DEF CoordinatorType, Phases, StopModes
<1> HIDE DEF c
<1>9. CoInv(c, requests')
  <2>1. CoTyped(c)
    BY <1>8 DEF IInv, CoInv, CoTyped
  <2>2. PhaseInv(c)
    BY <1>2, <1>8 DEF IInv, CoInv, PhaseInv, Active
  <2>3. MarkInv(c)
    BY <1>7, <1>8 DEF IInv, CoInv, MarkInv
  <2>4. PastInv(c)
    BY <1>2, <1>7, <1>8 DEF IInv, CoInv, PastInv, Past, Healthy
  <2>5. GraceInv(c, requests')
    <3> SUFFICES ASSUME mode = "Graceful" PROVE GraceInv(c, requests')
      BY <1>8 DEF GraceInv, StopModes
    <3>1. co.cause \in {"none", "Graceful"}
      BY <1>2 DEF IInv, CoInv, PhaseInv
    <3>2. ASSUME NEW w \in Workers PROVE AllGraceful(requests', w, co.run)
      BY <1>5, <3>1 DEF IInv, CoInv, GraceInv, AllGraceful
    <3> QED
      BY <1>7, <1>8, <3>1, <3>2 DEF IInv, CoInv, GraceInv, FromWorker
  <2>6. HandInv(c)
    BY <1>8 DEF IInv, CoInv, HandInv
  <2> QED
    BY <2>1, <2>2, <2>3, <2>4, <2>5, <2>6 DEF CoInv
<1>10. Quiet(co, c)
  BY <1>7, <1>8 DEF Quiet
<1>11. Quiet(co, co')
  BY <1>1, <1>9, <1>10, RecomputeQuiet DEF CoInv
<1>12. IInv'
  BY <1>1, <1>3, <1>5, <1>6, <1>8, <1>9, RecomputeStep
<1> QED
  BY <1>11, <1>12

LEMMA RetryKeeps == ASSUME IInv, NEW p \in pending, retry_request(p) PROVE IInv'
<1> DEFINE again(r) == [r EXCEPT !.id = nextId]
           old == {q \in requests : q.id = p.id}
           q0 == [p EXCEPT !.id = nextId, !.attempt = @ + 1]
<1>1. /\ p.attempt < MaxAttempts /\ nextId <= MaxIds /\ nextId' = nextId + 1
      /\ pending' = (pending \ {p}) \cup {q0}
      /\ requests' = requests \cup {again(r) : r \in old}
      /\ UNCHANGED <<co, wk, spent, acks, emitted, samples, handed>>
  BY DEF retry_request
<1>2. /\ nextId \in 1 .. MaxIds /\ nextId' \in 1 .. MaxIds + 1 /\ nextId < nextId'
      /\ p \in PendingType /\ p.attempt + 1 \in 1 .. MaxAttempts
  <2>1. p \in PendingType /\ nextId \in 1 .. MaxIds + 1
    BY StateTypes
  <2>2. p.attempt \in 1 .. MaxAttempts
    BY <2>1 DEF PendingType
  <2> QED
    BY <1>1, <2>1, <2>2, Constants
<1>3. q0 \in PendingType /\ q0.id = nextId
  BY <1>2 DEF PendingType
<1>4. ASSUME NEW r \in requests
      PROVE  /\ again(r) \in RequestType /\ again(r).kind = r.kind /\ again(r).w = r.w
             /\ again(r).run = r.run /\ again(r).mode = r.mode
  BY <1>2, StateTypes DEF RequestType
<1> HIDE DEF again, q0
<1>5. \A r \in requests' : r \in RequestType /\ \E q \in requests :
          r.kind = q.kind /\ r.w = q.w /\ r.run = q.run /\ r.mode = q.mode
  BY <1>1, <1>4, StateTypes
<1>6. PendingInv'
  <2> DEFINE new == {q0}
  <2>1. /\ new \subseteq PendingType /\ \A q \in new : q.id < nextId'
        /\ pending' \subseteq pending \cup new /\ nextId <= nextId'
    BY <1>1, <1>2, <1>3
  <2> HIDE DEF new
  <2> QED
    BY <1>2, <2>1, PendingStep
<1>7. requests \subseteq requests' /\ requests' \subseteq RequestType
  BY <1>1, <1>5
<1>8. RequestsInv'
  BY <1>1, <1>5, <1>7 DEF IInv, RequestsInv
<1>9. WorkersInv' /\ AcksInv' /\ SamplesInv'
  BY <1>1, <1>7, StateTypes, CoordinatorFrame DEF IInv, SamplesInv
<1>10. CoInv(co, requests')
  <2>1. \A w, k : AllGraceful(requests, w, k) => AllGraceful(requests', w, k)
    BY <1>5 DEF AllGraceful
  <2> QED
    BY <2>1 DEF IInv, CoInv, GraceInv
<1>11. CoInv(co, requests)'
  BY <1>1, <1>10, CoordinatorStep
<1> QED
  BY <1>6, <1>8, <1>9, <1>11 DEF IInv

(* Acknowledgements: the three stages.  The state a stage computes from is *)
(* given by what it may change.                                            *)
LEMMA AckKeeps ==
    ASSUME IInv, NEW a \in acks, NEW c, CoInv(c, requests), c.runs = co.runs,
           co' = recompute_phase(c), pending' = pending \ Awaited(a),
           UNCHANGED <<nextId, wk, requests, spent, acks, emitted, samples, handed>>
    PROVE  IInv'
<1>1. PendingInv'
  BY DEF IInv, PendingInv
<1>2. requests \subseteq requests' /\ requests' \subseteq RequestType
  BY StateTypes
<1>3. CoInv(c, requests')
  OBVIOUS
<1>4. \A r \in requests' \ requests :
         r.kind = "Stop" /\ r.run \in 1 .. co.runs /\ r.mode \in StopModes
  OBVIOUS
<1> QED
  BY <1>1, <1>2, <1>3, <1>4, RecomputeStep

(* A call that only moves records, none to Stopped, and heals none.        *)
LEMMA RecordsOnly ==
    ASSUME IInv, NEW c \in CoordinatorType,
           c.phase = co.phase, c.cause = co.cause, c.run = co.run, c.runs = co.runs,
           c.mark = co.mark, c.mode = co.mode,
           c.accepted = co.accepted, c.queued = co.queued, c.done = co.done,
           \A w \in Workers : /\ c.rec[w].phase = "Stopped" => co.rec[w].phase = "Stopped"
                              /\ c.rec[w].phase # "Failed" => co.rec[w].phase # "Failed",
           co.phase \in {"Ready", "Stopped"} => AllHealthy(c, co.phase)
    PROVE  CoInv(c, requests)
<1>1. CoTyped(c) /\ PhaseInv(c) /\ HandInv(c)
  BY DEF IInv, CoInv, CoTyped, PhaseInv, HandInv, Active
<1>2. MarkInv(c)
  BY DEF IInv, CoInv, MarkInv
<1>3. PastInv(c)
  BY DEF IInv, CoInv, PastInv, Past, Healthy
<1>4. GraceInv(c, requests)
  BY DEF IInv, CoInv, GraceInv, FromWorker
<1> QED
  BY <1>1, <1>2, <1>3, <1>4 DEF CoInv

LEMMA ConfiguredKeeps ==
    ASSUME IInv, NEW a \in acks, apply_ack(a), a.stage \in Stages, AckConfigured(a)
    PROVE  /\ IInv' /\ co'.version = co.version /\ co'.run = co.run /\ co'.phase # "Idle"
           /\ co'.acked = [co.acked EXCEPT ![a.w] = co.acked[a.w] \cup {a.stage}]
           /\ \A w \in Workers :
                 /\ co'.rec[w].phase # "Failed" => co.rec[w].phase # "Failed"
                 /\ co'.rec[w].phase = "Ready" =>
                      co.rec[w].phase = "Ready" \/ co'.acked[w] = Stages
<1> DEFINE acked == co.acked[a.w] \cup {a.stage}
           p == IF acked = Stages THEN "Ready" ELSE co.rec[a.w].phase
           c == [co EXCEPT !.acked[a.w] = acked, !.rec[a.w].phase = p]
           rec == [co.rec EXCEPT ![a.w] = [co.rec[a.w] EXCEPT !.phase = p]]
           seen == [co.acked EXCEPT ![a.w] = acked]
<1>1. /\ co \in CoordinatorType /\ a.w \in Workers /\ co.phase = "Configuring"
      /\ co.rec \in [Workers -> [phase : WorkerPhases, threads : {0, 1}]]
      /\ co.acked \in [Workers -> SUBSET Stages]
      /\ co.rec[a.w].phase # "Failed"
  BY StateTypes DEF AckConfigured, AckType, CoordinatorType, apply_ack
<1>2. co' = recompute_phase(c) /\ pending' = pending \ Awaited(a)
      /\ UNCHANGED <<nextId, wk, requests, spent, acks, emitted, samples, handed>>
  BY DEF AckConfigured, apply_ack
<1>3. acked \in SUBSET Stages /\ p \in WorkerPhases
  BY <1>1 DEF WorkerPhases
<1>4. c = [co EXCEPT !.acked = seen, !.rec = rec]
  BY <1>1 DEF CoordinatorType
<1>5. /\ p = "Stopped" => co.rec[a.w].phase = "Stopped"
      /\ p = "Ready" => co.rec[a.w].phase = "Ready" \/ acked = Stages
  OBVIOUS
<1> HIDE DEF p, acked
<1>6. /\ rec \in [Workers -> [phase : WorkerPhases, threads : {0, 1}]]
      /\ seen \in [Workers -> SUBSET Stages]
      /\ \A w \in Workers : /\ rec[w].phase = "Stopped" => co.rec[w].phase = "Stopped"
                            /\ rec[w].phase # "Failed" => co.rec[w].phase # "Failed"
                            /\ rec[w].phase = "Ready" =>
                                 co.rec[w].phase = "Ready" \/ seen[w] = Stages
  BY <1>1, <1>3, <1>5
<1> HIDE DEF rec, seen
<1>7. /\ c \in CoordinatorType /\ c.phase = co.phase /\ c.cause = co.cause /\ c.rec = rec
      /\ c.run = co.run /\ c.runs = co.runs /\ c.mark = co.mark /\ c.mode = co.mode
      /\ c.accepted = co.accepted /\ c.queued = co.queued /\ c.done = co.done
      /\ c.version = co.version /\ c.acked = seen
  BY <1>1, <1>4, <1>6 DEF CoordinatorType
<1> HIDE DEF c
<1>8. CoInv(c, requests)
  BY <1>1, <1>6, <1>7, RecordsOnly
<1>9. Quiet(c, co')
  BY <1>2, <1>8, RecomputeQuiet DEF CoInv, Quiet
<1>10. /\ co'.version = co.version /\ co'.run = co.run /\ co'.phase # "Idle"
       /\ co'.acked = seen
       /\ \A w \in Workers : /\ co'.rec[w].phase # "Failed" => co.rec[w].phase # "Failed"
                             /\ co'.rec[w].phase = "Ready" =>
                                  co.rec[w].phase = "Ready" \/ co'.acked[w] = Stages
  BY <1>1, <1>6, <1>7, <1>9 DEF Quiet
<1>11. IInv'
  BY <1>2, <1>7, <1>8, AckKeeps
<1> QED
  BY <1>10, <1>11 DEF seen, acked

LEMMA StartedKeeps ==
    ASSUME IInv, NEW a \in acks, apply_ack(a), a.stage = "Started", AckStarted(a)
    PROVE  IInv' /\ Quiet(co, co')
<1> DEFINE rec == [co.rec EXCEPT ![a.w] = [phase |-> "Running", threads |-> 1]]
           c == [co EXCEPT !.rec[a.w] = [phase |-> "Running", threads |-> 1]]
<1>1. /\ co \in CoordinatorType /\ a.w \in Workers /\ co.phase = "Starting"
      /\ co.rec \in [Workers -> [phase : WorkerPhases, threads : {0, 1}]]
      /\ co.rec[a.w].phase # "Failed"
  BY StateTypes DEF AckStarted, AckType, CoordinatorType, apply_ack
<1>2. co' = recompute_phase(c) /\ pending' = pending \ Awaited(a)
      /\ UNCHANGED <<nextId, wk, requests, spent, acks, emitted, samples, handed>>
  BY DEF AckStarted, apply_ack
<1>3. c = [co EXCEPT !.rec = rec]
  BY <1>1 DEF CoordinatorType
<1>4. /\ rec \in [Workers -> [phase : WorkerPhases, threads : {0, 1}]]
      /\ \A w \in Workers : /\ rec[w].phase = "Stopped" => co.rec[w].phase = "Stopped"
                            /\ rec[w].phase # "Failed" => co.rec[w].phase # "Failed"
                            /\ rec[w].phase = "Ready" => co.rec[w].phase = "Ready"
  BY <1>1 DEF WorkerPhases
<1> HIDE DEF rec
<1>5. /\ c \in CoordinatorType /\ c.phase = co.phase /\ c.cause = co.cause /\ c.rec = rec
      /\ c.run = co.run /\ c.runs = co.runs /\ c.mark = co.mark /\ c.mode = co.mode
      /\ c.accepted = co.accepted /\ c.queued = co.queued /\ c.done = co.done
      /\ c.version = co.version /\ c.acked = co.acked
  BY <1>1, <1>3, <1>4 DEF CoordinatorType
<1> HIDE DEF c
<1>6. CoInv(c, requests)
  BY <1>1, <1>4, <1>5, RecordsOnly
<1>7. Quiet(co, c)
  BY <1>4, <1>5 DEF Quiet
<1>8. Quiet(co, co')
  BY <1>2, <1>6, <1>7, RecomputeQuiet DEF CoInv
<1>9. IInv'
  BY <1>2, <1>5, <1>6, AckKeeps
<1> QED
  BY <1>8, <1>9

LEMMA StoppedKeeps ==
    ASSUME IInv, NEW a \in acks, apply_ack(a), a.stage = "Stopped", AckStopped(a)
    PROVE  IInv' /\ Quiet(co, co')
<1> DEFINE mark == [co.mark EXCEPT ![a.w] = a.mark]
           b == [co EXCEPT !.mark[a.w] = a.mark]
           c == IF Satisfied(b, a.w) THEN [b EXCEPT !.rec[a.w].phase = "Stopped"] ELSE b
<1>1. /\ co \in CoordinatorType /\ a.w \in Workers /\ a.run = co.run
      /\ co.rec \in [Workers -> [phase : WorkerPhases, threads : {0, 1}]]
      /\ co.mark \in [Workers -> NoMark .. MaxSamples]
      /\ co.phase = "Stopping" \/ (co.phase = "Stopped" /\ co.rec[a.w].phase = "Stopped")
      /\ co.rec[a.w].phase # "Failed"
  BY StateTypes DEF AckStopped, AckType, CoordinatorType, apply_ack
<1>2. co' = recompute_phase(c) /\ pending' = pending \ Awaited(a)
      /\ UNCHANGED <<nextId, wk, requests, spent, acks, emitted, samples, handed>>
  BY DEF AckStopped, apply_ack
<1>3. a.mark \in NoMark .. MaxSamples /\ a.mark # NoMark
  <2>1. a.mark \in NoMark .. MaxSeq
    BY StateTypes DEF AckType
  <2> QED
    BY <2>1, Constants DEF IInv, AcksInv, StoppedAck, AckStopped
<1>4. b = [co EXCEPT !.mark = mark]
  BY <1>1 DEF CoordinatorType
<1>5. /\ mark \in [Workers -> NoMark .. MaxSamples] /\ mark[a.w] = a.mark
      /\ \A w \in Workers : w # a.w => mark[w] = co.mark[w]
  BY <1>1, <1>3
<1> HIDE DEF mark
<1>6. /\ b \in CoordinatorType /\ b.phase = co.phase /\ b.cause = co.cause /\ b.rec = co.rec
      /\ b.run = co.run /\ b.runs = co.runs /\ b.mark = mark /\ b.mode = co.mode
      /\ b.accepted = co.accepted /\ b.queued = co.queued /\ b.done = co.done
      /\ b.version = co.version /\ b.acked = co.acked
  BY <1>1, <1>4, <1>5 DEF CoordinatorType
<1> HIDE DEF b
<1>7. CoInv(b, requests)
  <2>1. CoTyped(b) /\ PhaseInv(b) /\ HandInv(b)
    BY <1>6 DEF IInv, CoInv, CoTyped, PhaseInv, HandInv, AllHealthy, Healthy
  <2>2. MarkInv(b)
    <3> SUFFICES ASSUME NEW w \in Workers
                 PROVE  /\ b.rec[w].phase = "Stopped" => b.mark[w] # NoMark
                        /\ b.mark[w] # NoMark =>
                             \E x \in acks : /\ x.stage = "Stopped" /\ x.w = w
                                             /\ x.run = b.run /\ x.mark = b.mark[w]
      BY DEF MarkInv
    <3>1. CASE w = a.w
      BY <1>1, <1>3, <1>5, <1>6, <3>1
    <3>2. CASE w # a.w
      BY <1>5, <1>6, <3>2 DEF IInv, CoInv, MarkInv
    <3> QED
      BY <3>1, <3>2
  <2>3. PastInv(b)
    BY <1>6 DEF IInv, CoInv, PastInv, Past, Healthy
  <2>4. GraceInv(b, requests)
    BY <1>6 DEF IInv, CoInv, GraceInv, FromWorker
  <2> QED
    BY <2>1, <2>2, <2>3, <2>4 DEF CoInv
<1>8. CASE ~Satisfied(b, a.w)
  <2>1. Quiet(co, b) /\ c = b
    BY <1>6, <1>8 DEF Quiet
  <2>2. Quiet(co, co')
    BY <1>2, <1>7, <2>1, RecomputeQuiet DEF CoInv
  <2>3. IInv'
    BY <1>2, <1>6, <1>7, <1>8, AckKeeps
  <2> QED
    BY <2>2, <2>3
<1>9. CASE Satisfied(b, a.w)
  <2> DEFINE rec == [co.rec EXCEPT ![a.w] = [co.rec[a.w] EXCEPT !.phase = "Stopped"]]
  <2>1. c = [b EXCEPT !.rec = rec]
    BY <1>6, <1>9 DEF CoordinatorType
  <2>2. /\ rec \in [Workers -> [phase : WorkerPhases, threads : {0, 1}]]
        /\ rec[a.w].phase = "Stopped" /\ \A w \in Workers : w # a.w => rec[w] = co.rec[w]
    BY <1>1 DEF WorkerPhases
  <2> HIDE DEF rec
  <2>3. /\ c \in CoordinatorType /\ c.phase = co.phase /\ c.cause = co.cause /\ c.rec = rec
        /\ c.run = co.run /\ c.runs = co.runs /\ c.mark = mark /\ c.mode = co.mode
        /\ c.accepted = co.accepted /\ c.queued = co.queued /\ c.done = co.done
        /\ c.version = co.version /\ c.acked = co.acked
    BY <1>6, <2>1, <2>2 DEF CoordinatorType
  <2> HIDE DEF c
  <2>4. CoTyped(c) /\ HandInv(c)
    BY <2>3 DEF IInv, CoInv, CoTyped, HandInv
  <2>5. PhaseInv(c)
    <3>1. co.phase \in {"Ready", "Stopped"} => AllHealthy(c, co.phase)
      BY <1>1, <2>2, <2>3 DEF IInv, CoInv, PhaseInv, AllHealthy, Healthy
    <3> QED
      BY <2>3, <3>1 DEF IInv, CoInv, PhaseInv
  <2>6. MarkInv(c)
    BY <1>3, <1>5, <1>6, <1>7, <2>2, <2>3 DEF CoInv, MarkInv
  <2>7. PastInv(c)
    BY <1>1, <2>2, <2>3 DEF IInv, CoInv, PastInv, Past, Healthy
  <2>8. GraceInv(c, requests)
    <3> SUFFICES ASSUME co.cause \in {"none", "Graceful"}, NEW w \in Workers
                 PROVE  /\ AllGraceful(requests, w, co.run)
                        /\ c.rec[w].phase = "Stopped" => FromWorker(co, w) = Emitted(w, co.run)
      BY <2>3 DEF GraceInv, FromWorker
    <3>1. AllGraceful(requests, w, co.run)
      BY DEF IInv, CoInv, GraceInv
    <3>2. CASE w # a.w
      BY <2>2, <2>3, <3>1, <3>2 DEF IInv, CoInv, GraceInv
    <3>3. CASE w = a.w
      <4>1. FromWorker(b, w) = Emitted(w, b.run)
        BY <1>6, <1>7, <1>9, <3>1, <3>3, SatisfiedHasAll DEF CoInv, IInv, AcksInv
      <4> QED
        BY <1>6, <3>1, <4>1 DEF FromWorker
    <3> QED
      BY <3>2, <3>3
  <2>9. CoInv(c, requests)
    BY <2>4, <2>5, <2>6, <2>7, <2>8 DEF CoInv
  <2>10. Quiet(co, c)
    BY <1>1, <2>2, <2>3 DEF Quiet
  <2>11. Quiet(co, co')
    BY <1>2, <2>9, <2>10, RecomputeQuiet DEF CoInv
  <2>12. IInv'
    BY <1>2, <2>3, <2>9, AckKeeps
  <2> QED
    BY <2>11, <2>12
<1> QED
  BY <1>8, <1>9

LEMMA ApplyAckKeeps == ASSUME IInv, NEW a \in acks, apply_ack(a) PROVE IInv'
BY ConfiguredKeeps, StartedKeeps, StoppedKeeps DEF apply_ack

(* record_sample: a sample of the current run that was not accepted was    *)
(* never handed out, and its worker's record is not yet complete.          *)
LEMMA RecordSampleKeeps == ASSUME IInv, NEW s \in samples, record_sample(s)
                          PROVE  IInv' /\ Quiet(co, co')
<1> DEFINE queued == QueueAfter(co.mode, co.queued, s)
           accepted == co.accepted \cup {s}
           done == co.done \cup ((co.queued \cup {s}) \ queued)
           c == [co EXCEPT !.accepted = @ \cup {s}, !.queued = queued,
                           !.done = @ \cup ((co.queued \cup {s}) \ queued)]
<1>1. /\ co \in CoordinatorType /\ co.phase \in {"Running", "Stopping"} /\ s.run = co.run
      /\ s \notin co.accepted /\ s \in Samples /\ s \in emitted /\ co.mode \in Modes
      /\ co.accepted \subseteq Samples /\ co.queued \subseteq co.accepted
      /\ co.done \subseteq co.accepted /\ co.queued \cap co.done = {}
  BY StateTypes DEF record_sample, Admissible, IInv, SamplesInv, CoInv, PhaseInv, Active,
                    CoTyped, CoordinatorType
<1>2. /\ co' = recompute_phase(c)
      /\ UNCHANGED <<pending, nextId, wk, requests, spent, acks, emitted, samples, handed>>
  BY DEF record_sample
<1>3. queued \subseteq co.queued \cup {s}
  BY <1>1, QueueBound
<1> HIDE DEF queued
<1>4. /\ accepted \subseteq Samples /\ queued \subseteq accepted /\ done \subseteq accepted
      /\ queued \cap done = {} /\ queued \cup done \subseteq co.queued \cup co.done \cup {s}
  BY <1>1, <1>3
<1>5. c = [co EXCEPT !.accepted = accepted, !.queued = queued, !.done = done]
  BY <1>1 DEF CoordinatorType
<1> HIDE DEF accepted, done
<1>6. /\ c \in CoordinatorType /\ c.phase = co.phase /\ c.cause = co.cause /\ c.rec = co.rec
      /\ c.run = co.run /\ c.runs = co.runs /\ c.mark = co.mark /\ c.mode = co.mode
      /\ c.accepted = accepted /\ c.queued = queued /\ c.done = done
      /\ c.version = co.version /\ c.acked = co.acked
  <2>1. queued \in SUBSET Samples /\ done \in SUBSET Samples /\ accepted \in SUBSET Samples
    BY <1>4
  <2> QED
    BY <1>1, <1>5, <2>1 DEF CoordinatorType
<1> HIDE DEF c
<1>7. accepted = co.accepted \cup {s} /\ s \notin handed
  BY <1>1 DEF accepted, IInv, CoInv, HandInv
<1>8. CoInv(c, requests)
  <2>1. CoTyped(c)
    BY <1>4, <1>6 DEF CoTyped
  <2>2. PhaseInv(c)
    BY <1>1, <1>6 DEF IInv, CoInv, PhaseInv, Active
  <2>3. MarkInv(c)
    BY <1>6 DEF IInv, CoInv, MarkInv
  <2>4. PastInv(c)
    BY <1>6 DEF IInv, CoInv, PastInv, Past, Healthy
  <2>5. GraceInv(c, requests)
    <3> SUFFICES ASSUME co.cause \in {"none", "Graceful"}, NEW w \in Workers
                 PROVE  /\ AllGraceful(requests, w, co.run)
                        /\ co.rec[w].phase = "Stopped" => FromWorker(c, w) = Emitted(w, co.run)
      BY <1>6 DEF GraceInv
    <3>1. /\ AllGraceful(requests, w, co.run)
          /\ co.rec[w].phase = "Stopped" => FromWorker(co, w) = Emitted(w, co.run)
      BY DEF IInv, CoInv, GraceInv
    <3>2. co.rec[w].phase = "Stopped" => s.w # w
      BY <1>1, <3>1 DEF FromWorker, Emitted
    <3> QED
      BY <1>6, <1>7, <3>1, <3>2 DEF FromWorker
  <2>6. HandInv(c)
    BY <1>1, <1>4, <1>6, <1>7 DEF IInv, CoInv, HandInv
  <2> QED
    BY <2>1, <2>2, <2>3, <2>4, <2>5, <2>6 DEF CoInv
<1>9. PendingInv'
  BY <1>2 DEF IInv, PendingInv
<1>10. requests' = requests /\ requests \subseteq RequestType
  BY <1>2, StateTypes
<1>11. Quiet(co, c)
  BY <1>6 DEF Quiet
<1>12. Quiet(co, co')
  BY <1>2, <1>8, <1>11, RecomputeQuiet DEF CoInv
<1>13. IInv'
  BY <1>2, <1>6, <1>8, <1>9, <1>10, RecomputeStep
<1> QED
  BY <1>12, <1>13

(* drain_delivered_samples: what is handed out is remembered as accepted.  *)
LEMMA DrainKeeps ==
    ASSUME IInv, NEW tick \in BOOLEAN, drain_delivered_samples(tick)
    PROVE  IInv' /\ Quiet(co, co')
<1> DEFINE c == IF tick THEN Flush(co) ELSE co
           d == [c EXCEPT !.done = {}]
<1>1. /\ co \in CoordinatorType /\ co.queued \subseteq co.accepted
      /\ co.done \subseteq co.accepted /\ co.queued \cap co.done = {}
      /\ co.accepted \subseteq samples
  BY StateTypes DEF IInv, CoInv, CoTyped, HandInv
<1>2. /\ handed' = handed \cup c.done /\ co' = d
      /\ UNCHANGED <<pending, nextId, wk, requests, spent, acks, emitted, samples>>
  BY DEF drain_delivered_samples
<1>3. /\ c \in CoordinatorType /\ c.phase = co.phase /\ c.cause = co.cause /\ c.rec = co.rec
      /\ c.run = co.run /\ c.runs = co.runs /\ c.mark = co.mark /\ c.mode = co.mode
      /\ c.accepted = co.accepted /\ c.queued \cup c.done = co.queued \cup co.done
      /\ c.queued \cap c.done = {} /\ c.version = co.version /\ c.acked = co.acked
  <2>1. CASE tick
    BY <1>1, <2>1 DEF CoordinatorType, Flush
  <2>2. CASE ~tick
    BY <1>1, <2>2
  <2> QED
    BY <2>1, <2>2
<1> HIDE DEF c
<1>4. /\ d \in CoordinatorType /\ d.phase = co.phase /\ d.cause = co.cause /\ d.rec = co.rec
      /\ d.run = co.run /\ d.runs = co.runs /\ d.mark = co.mark /\ d.mode = co.mode
      /\ d.accepted = co.accepted /\ d.queued = c.queued /\ d.done = {}
      /\ d.version = co.version /\ d.acked = co.acked
  BY <1>3 DEF CoordinatorType
<1> HIDE DEF d
<1>5. \A w, k : Emitted(w, k)' = Emitted(w, k) /\ Consumed(w, k)' = Consumed(w, k)
  BY <1>2 DEF Emitted, Consumed
<1>6. CoInv(co, requests)'
  <2>1. CoTyped(co)' /\ PhaseInv(co)'
    BY <1>1, <1>2, <1>3, <1>4 DEF IInv, CoInv, CoTyped, PhaseInv, AllHealthy, Healthy
  <2>2. MarkInv(co)'
    BY <1>2, <1>4 DEF IInv, CoInv, MarkInv
  <2>3. PastInv(co)'
    BY <1>2, <1>4, <1>5 DEF IInv, CoInv, PastInv, Past, Healthy
  <2>4. GraceInv(co, requests)'
    BY <1>2, <1>4, <1>5 DEF IInv, CoInv, GraceInv, FromWorker, AllGraceful
  <2>5. HandInv(co)'
    <3>1. c.done \subseteq co.accepted /\ (c.queued \cup c.done) \cap handed = {}
      BY <1>1, <1>3 DEF IInv, CoInv, HandInv
    <3>2. \A s \in co.accepted : s.run = co.run /\ co.run <= co.runs
      <4>1. \A s \in co.accepted : s.run = co.run
        BY DEF IInv, CoInv, HandInv
      <4>2. co.run <= co.runs
        BY StateTypes DEF IInv, CoInv, PhaseInv
      <4> QED
        BY <4>1, <4>2
    <3> QED
      BY <1>2, <1>3, <1>4, <3>1, <3>2 DEF IInv, CoInv, HandInv
  <2> QED
    BY <2>1, <2>2, <2>3, <2>4, <2>5 DEF CoInv
<1>7. handed' \subseteq samples
  BY <1>1, <1>2, <1>3 DEF IInv, SamplesInv
<1>8. WorkersInv' /\ AcksInv' /\ SamplesInv'
  BY <1>2, <1>4, <1>7, StateTypes, CoordinatorFrame
<1>9. PendingInv' /\ RequestsInv'
  BY <1>2, <1>4 DEF IInv, PendingInv, RequestsInv
<1>10. Quiet(co, co')
  BY <1>2, <1>4 DEF Quiet
<1> QED
  BY <1>6, <1>8, <1>9, <1>10 DEF IInv

(* fail_worker: the record alone, a fail-fast stop of the others, or the   *)
(* end of a session that was not running.                                  *)
LEMMA FailedFacts ==
    ASSUME IInv, NEW w \in Workers, co.phase \notin {"Stopped", "Failed"}
    PROVE  LET c == [co EXCEPT !.rec[w].phase = "Failed"] IN
           /\ c \in CoordinatorType /\ CoInv(c, requests)
           /\ c.phase = co.phase /\ c.cause = co.cause
           /\ c.run = co.run /\ c.runs = co.runs /\ c.mark = co.mark /\ c.mode = co.mode
           /\ c.accepted = co.accepted /\ c.queued = co.queued /\ c.done = co.done
           /\ Quiet(co, c)
<1> DEFINE rec == [co.rec EXCEPT ![w] = [co.rec[w] EXCEPT !.phase = "Failed"]]
           c == [co EXCEPT !.rec[w].phase = "Failed"]
<1>1. /\ co \in CoordinatorType
      /\ co.rec \in [Workers -> [phase : WorkerPhases, threads : {0, 1}]]
  BY StateTypes DEF CoordinatorType
<1>2. c = [co EXCEPT !.rec = rec]
  BY <1>1 DEF CoordinatorType
<1>3. /\ rec \in [Workers -> [phase : WorkerPhases, threads : {0, 1}]]
      /\ rec[w].phase = "Failed" /\ \A v \in Workers : v # w => rec[v] = co.rec[v]
  BY <1>1 DEF WorkerPhases
<1> HIDE DEF rec
<1>4. /\ c \in CoordinatorType /\ c.rec = rec /\ c.phase = co.phase /\ c.cause = co.cause
      /\ c.run = co.run /\ c.runs = co.runs /\ c.mark = co.mark /\ c.mode = co.mode
      /\ c.accepted = co.accepted /\ c.queued = co.queued /\ c.done = co.done
      /\ c.version = co.version /\ c.acked = co.acked
  BY <1>1, <1>2, <1>3 DEF CoordinatorType
<1> HIDE DEF c
<1>5. co.phase \in {"Ready", "Stopped"} => AllHealthy(c, co.phase)
  BY <1>3, <1>4 DEF IInv, CoInv, PhaseInv, AllHealthy, Healthy
<1>6. \A v \in Workers : /\ c.rec[v].phase = "Stopped" => co.rec[v].phase = "Stopped"
                         /\ c.rec[v].phase # "Failed" => co.rec[v].phase # "Failed"
  BY <1>3, <1>4
<1>7. CoInv(c, requests)
  BY <1>4, <1>5, <1>6, RecordsOnly
<1>8. Quiet(co, c)
  BY <1>3, <1>4 DEF Quiet
<1> QED
  BY <1>4, <1>7, <1>8 DEF c

LEMMA FailWorkerKeeps == ASSUME IInv, NEW w \in Workers, fail_worker(w)
                        PROVE  IInv' /\ Quiet(co, co')
<1> DEFINE c == [co EXCEPT !.rec[w].phase = "Failed"]
           T == {v \in Workers : c.rec[v].phase \in {"Ready", "Running", "Stopping"}}
           active == co.run # 0 /\ co.phase \in {"Starting", "Running", "Stopping"}
           rec == [v \in Workers |-> IF c.rec[v].phase = "Ready"
                     THEN [c.rec[v] EXCEPT !.phase = "Stopping"] ELSE c.rec[v]]
           p == IF AllHealthy(c, "Stopped") THEN "Failed" ELSE "Stopping"
<1>1. co.phase \notin {"Stopped", "Failed"}
      /\ UNCHANGED <<wk, spent, acks, emitted, samples, handed>>
  BY DEF fail_worker
<1>2. /\ c \in CoordinatorType /\ CoInv(c, requests)
      /\ c.phase = co.phase /\ c.cause = co.cause
      /\ c.run = co.run /\ c.runs = co.runs /\ c.mark = co.mark /\ c.mode = co.mode
      /\ c.accepted = co.accepted /\ c.queued = co.queued /\ c.done = co.done
      /\ Quiet(co, c)
  BY <1>1, FailedFacts
<1>3. /\ co.run \in Nat /\ co.runs \in Nat /\ co.run <= MaxRuns /\ co.runs <= MaxRuns
      /\ nextId \in 1 .. MaxIds + 1 /\ requests \subseteq RequestType
  BY StateTypes
<1>4. CASE /\ pending' = {q \in pending : q.w # w} /\ co' = recompute_phase(c)
           /\ UNCHANGED <<nextId, requests>>
  <2>1. PendingInv'
    BY <1>4 DEF IInv, PendingInv
  <2> HIDE DEF c
  <2>2. Quiet(co, co')
    BY <1>2, <1>4, RecomputeQuiet DEF CoInv
  <2>3. IInv'
    BY <1>1, <1>2, <1>3, <1>4, <2>1, RecomputeStep
  <2> QED
    BY <2>2, <2>3
<1>5. CASE /\ active /\ Ask(T, "Stop", co.run, "Immediate") /\ pending' = Asked(T, "Stopped")
           /\ co' = [c EXCEPT !.cause = "FailFast", !.phase = p, !.rec = rec]
  <2> DEFINE d == [c EXCEPT !.cause = "FailFast", !.phase = p, !.rec = rec]
  <2>0. T \subseteq Workers
    OBVIOUS
  <2> HIDE DEF c, T
  <2>1. co.run \in 1 .. co.runs /\ co.run \in 0 .. MaxRuns /\ co.mode \in Modes
    BY <1>3, <1>5 DEF IInv, CoInv, PhaseInv, Active
  <2>2. /\ nextId' \in 1 .. MaxIds + 1 /\ nextId <= nextId'
        /\ requests \subseteq requests' /\ requests' \subseteq RequestType
        /\ \A r \in requests' \ requests :
              r.kind = "Stop" /\ r.run = co.run /\ r.mode = "Immediate"
        /\ Asked(T, "Stopped") \subseteq PendingType
        /\ \A q \in Asked(T, "Stopped") : q.id < nextId'
    BY <1>5, <2>0, <2>1, AskFacts DEF StopModes
  <2>3. PendingInv'
    BY <1>5, <2>2, PendingStep
  <2>4. c.rec \in [Workers -> [phase : WorkerPhases, threads : {0, 1}]]
    BY <1>2 DEF CoordinatorType
  <2>5. /\ rec \in [Workers -> [phase : WorkerPhases, threads : {0, 1}]]
        /\ \A v \in Workers : /\ rec[v].phase = "Stopped" <=> c.rec[v].phase = "Stopped"
                              /\ rec[v].phase # "Failed" => c.rec[v].phase # "Failed"
                              /\ rec[v].phase # "Ready"
    <3>1. ASSUME NEW v \in Workers
          PROVE  /\ [c.rec[v] EXCEPT !.phase = "Stopping"] \in [phase : WorkerPhases, threads : {0, 1}]
                 /\ [c.rec[v] EXCEPT !.phase = "Stopping"].phase = "Stopping"
      BY <2>4 DEF WorkerPhases
    <3> QED
      BY <2>4, <3>1
  <2>6. p \in {"Failed", "Stopping"} /\ (p = "Failed" => AllHealthy(c, "Stopped"))
    OBVIOUS
  <2> HIDE DEF rec, p
  <2>7. /\ d \in CoordinatorType /\ d.phase = p /\ d.cause = "FailFast" /\ d.rec = rec
        /\ d.run = c.run /\ d.runs = c.runs /\ d.mark = c.mark /\ d.mode = c.mode
        /\ d.accepted = c.accepted /\ d.queued = c.queued /\ d.done = c.done
        /\ d.version = c.version /\ d.acked = c.acked
    BY <1>2, <2>5, <2>6 DEF CoordinatorType, Phases
  <2> HIDE DEF d
  <2>8. CoInv(d, requests')
    <3>1. CoTyped(d) /\ HandInv(d)
      BY <1>2, <2>7 DEF CoInv, CoTyped, HandInv
    <3>2. PhaseInv(d)
      BY <1>2, <1>5, <2>1, <2>6, <2>7 DEF CoInv, PhaseInv, Active
    <3>3. MarkInv(d)
      BY <1>2, <2>5, <2>7 DEF CoInv, MarkInv
    <3>4. PastInv(d)
      <4> SUFFICES ASSUME NEW v \in Healthy(d), NEW k \in 1 .. d.runs, Past(d, k)
                   PROVE  Consumed(v, k)
        BY DEF PastInv
      <4>1. v \in Healthy(c) /\ v \in Workers /\ k \in 1 .. c.runs
        BY <2>5, <2>7 DEF Healthy
      <4>2. CASE Past(c, k)
        BY <1>2, <4>1, <4>2 DEF CoInv, PastInv
      <4>3. CASE ~Past(c, k)
        <5>1. k = c.run /\ p = "Failed"
          BY <2>6, <2>7, <4>3 DEF Past
        <5>2. c.rec[v].phase = "Stopped"
          BY <2>6, <4>1, <5>1 DEF AllHealthy
        <5>3. PICK a \in acks : a.stage = "Stopped" /\ a.w = v /\ a.run = c.run
          BY <1>2, <4>1, <5>2 DEF CoInv, MarkInv
        <5> QED
          BY <5>1, <5>3 DEF IInv, AcksInv, StoppedAck
      <4> QED
        BY <4>2, <4>3
    <3>5. GraceInv(d, requests')
      BY <2>7 DEF GraceInv
    <3> QED
      BY <3>1, <3>2, <3>3, <3>4, <3>5 DEF CoInv
  <2>9. CoInv(co, requests)'
    BY <1>1, <1>5, <2>8, CoordinatorStep DEF d
  <2>10. co'.runs = co.runs
    BY <1>2, <1>5, <2>7 DEF d
  <2>11. RequestsInv'
    BY <1>3, <2>1, <2>2, <2>10, RequestsStep DEF StopModes
  <2>12. WorkersInv' /\ AcksInv' /\ SamplesInv'
    BY <1>1, <1>3, <2>2, <2>10, CoordinatorFrame DEF IInv, SamplesInv
  <2>13. Quiet(co, co')
    BY <1>2, <1>5, <2>5, <2>6, <2>7 DEF Quiet, d
  <2> QED
    BY <2>3, <2>9, <2>11, <2>12, <2>13 DEF IInv
<1>6. CASE /\ ~active /\ pending' = {} /\ co' = [c EXCEPT !.phase = "Failed"]
           /\ UNCHANGED <<nextId, requests>>
  <2> DEFINE d == [c EXCEPT !.phase = "Failed"]
  <2> HIDE DEF c
  <2>1. co.run = 0
    BY <1>1, <1>6 DEF IInv, CoInv, PhaseInv, Active
  <2>2. /\ d \in CoordinatorType /\ d.phase = "Failed" /\ d.cause = c.cause /\ d.rec = c.rec
        /\ d.run = c.run /\ d.runs = c.runs /\ d.mark = c.mark /\ d.mode = c.mode
        /\ d.accepted = c.accepted /\ d.queued = c.queued /\ d.done = c.done
        /\ d.version = c.version /\ d.acked = c.acked
    BY <1>2 DEF CoordinatorType, Phases
  <2> HIDE DEF d
  <2>3. CoInv(d, requests')
    <3>1. CoTyped(d) /\ HandInv(d) /\ PhaseInv(d)
      BY <1>2, <2>2 DEF CoInv, CoTyped, HandInv, PhaseInv, Active
    <3>2. MarkInv(d)
      BY <1>2, <2>2 DEF CoInv, MarkInv
    <3>3. PastInv(d)
      BY <1>2, <2>1, <2>2 DEF CoInv, PastInv, Past, Healthy
    <3>4. GraceInv(d, requests')
      BY <1>2, <1>6, <2>2 DEF CoInv, GraceInv, FromWorker
    <3> QED
      BY <3>1, <3>2, <3>3, <3>4 DEF CoInv
  <2>4. CoInv(co, requests)'
    BY <1>1, <1>6, <2>3, CoordinatorStep DEF d
  <2>5. co'.runs = co.runs
    BY <1>2, <1>6, <2>2 DEF d
  <2>6. PendingInv' /\ RequestsInv'
    BY <1>6, <2>5 DEF IInv, PendingInv, RequestsInv
  <2>7. WorkersInv' /\ AcksInv' /\ SamplesInv'
    BY <1>1, <1>3, <1>6, <2>5, CoordinatorFrame DEF IInv, SamplesInv
  <2>8. Quiet(co, co')
    BY <1>2, <1>6, <2>2 DEF Quiet, d
  <2> QED
    BY <2>4, <2>6, <2>7, <2>8 DEF IInv
<1> QED
  BY <1>4, <1>5, <1>6 DEF fail_worker

-----------------------------------------------------------------------------
(* The worker's handlers.                                                  *)

(* A worker never takes up a run again that it has seen before.            *)
Advances(s, t) ==
    /\ s.used \subseteq t.used
    /\ t.phase = "Running" => \/ s.phase = "Running" /\ s.run = t.run
                              \/ t.run \notin s.used

(* A step of one worker: what it must keep for everything else to hold.    *)
LEMMA WorkerStep ==
    ASSUME IInv, NEW w \in Workers, NEW t \in WorkerType, wk' = [wk EXCEPT ![w] = t],
           Advances(wk[w], t), WorkerInv(w, wk[w])',
           UNCHANGED <<co, pending, nextId, requests, handed>>,
           emitted \subseteq emitted', SamplesInv', samples \subseteq samples',
           \A x \in emitted' \ emitted : x.w = w /\ ~Consumed(w, x.run),
           acks \subseteq acks', acks' \subseteq AckType,
           \A a \in acks' \ acks : a.stage = "Stopped" => StoppedAck(a, requests)'
    PROVE  IInv'
<1>1. wk \in [Workers -> WorkerType]
  BY StateTypes
<1>2. wk' \in [Workers -> WorkerType] /\ wk'[w] = t /\ \A v \in Workers : v # w => wk'[v] = wk[v]
  BY <1>1
<1>3. ASSUME NEW v \in Workers, NEW k, Consumed(v, k)
      PROVE  Consumed(v, k)' /\ Emitted(v, k)' = Emitted(v, k)
  <2>1. Consumed(v, k)'
    BY <1>2, <1>3 DEF Consumed, Advances
  <2>2. Emitted(v, k)' = Emitted(v, k)
    BY <1>3 DEF Emitted
  <2> QED
    BY <2>1, <2>2
<1>4. WorkersInv'
  <2> SUFFICES ASSUME NEW v \in Workers, v # w PROVE WorkerInv(v, wk[v])'
    BY <1>2 DEF WorkersInv
  <2>1. WorkerInv(v, wk[v]) /\ wk'[v] = wk[v]
    BY <1>2 DEF IInv, WorkersInv
  <2>2. \A k : Emitted(v, k)' = Emitted(v, k)
    BY DEF Emitted
  <2>3. \A x \in emitted' : x.w = v => x \in emitted
    OBVIOUS
  <2> QED
    BY <2>1, <2>2, <2>3 DEF WorkerInv
<1>5. AcksInv'
  <2> SUFFICES ASSUME NEW a \in acks, a.stage = "Stopped" PROVE StoppedAck(a, requests)'
    BY DEF AcksInv
  <2>1. a.w \in Workers /\ StoppedAck(a, requests)
    BY StateTypes DEF IInv, AcksInv, AckType
  <2> QED
    BY <1>3, <2>1 DEF StoppedAck
<1>6. RequestsInv' /\ PendingInv'
  BY DEF IInv, RequestsInv, PendingInv
<1>7. CoInv(co, requests)'
  <2>1. CoTyped(co)' /\ PhaseInv(co)'
    BY DEF IInv, CoInv, CoTyped, PhaseInv, AllHealthy, Healthy
  <2>2. MarkInv(co)' /\ HandInv(co)'
    BY DEF IInv, CoInv, MarkInv, HandInv
  <2>3. PastInv(co)'
    BY <1>3 DEF IInv, CoInv, PastInv, Past, Healthy
  <2>4. GraceInv(co, requests)'
    <3> SUFFICES ASSUME co.cause \in {"none", "Graceful"}, NEW v \in Workers
                 PROVE  /\ AllGraceful(requests, v, co.run)
                        /\ co.rec[v].phase = "Stopped" =>
                             FromWorker(co, v) = Emitted(v, co.run)'
      BY DEF GraceInv, FromWorker, AllGraceful
    <3>1. /\ AllGraceful(requests, v, co.run)
          /\ co.rec[v].phase = "Stopped" => FromWorker(co, v) = Emitted(v, co.run)
      BY DEF IInv, CoInv, GraceInv
    <3>2. ASSUME co.rec[v].phase = "Stopped" PROVE Consumed(v, co.run)
      <4>1. PICK a \in acks : a.stage = "Stopped" /\ a.w = v /\ a.run = co.run
        BY <3>2 DEF IInv, CoInv, MarkInv
      <4> QED
        BY <4>1 DEF IInv, AcksInv, StoppedAck
    <3> QED
      BY <1>3, <3>1, <3>2
  <2> QED
    BY <2>1, <2>2, <2>3, <2>4 DEF CoInv
<1> QED
  BY <1>4, <1>5, <1>6, <1>7 DEF IInv

(* A handler that acknowledges a request and emits nothing.                *)
LEMMA HandlerStep ==
    ASSUME IInv, NEW r \in requests, NEW t \in WorkerType,
           wk' = [wk EXCEPT ![r.w] = t], Advances(wk[r.w], t), WorkerInv(r.w, t),
           UNCHANGED <<co, pending, nextId, requests, emitted, handed>>,
           samples \subseteq samples', samples' \subseteq emitted,
           NEW stage \in Stages \cup {"Started", "Stopped"}, NEW k \in 0 .. MaxRuns,
           NEW threads \in {0, 1}, NEW mark \in NoMark .. MaxSeq,
           Ack(r, stage, k, threads, mark),
           stage = "Stopped" =>
              /\ k \in t.used /\ ~(t.phase = "Running" /\ t.run = k) /\ mark >= 0
              /\ AllGraceful(requests, r.w, k) =>
                   Emitted(r.w, k) = FirstSamples(r.w, k, mark)
    PROVE  IInv'
<1> DEFINE a == [id |-> r.id, w |-> r.w, stage |-> stage, run |-> k,
                 threads |-> threads, mark |-> mark]
<1>1. r \in RequestType /\ r.w \in Workers /\ r.id \in 1 .. MaxIds
      /\ wk \in [Workers -> WorkerType]
  BY StateTypes DEF RequestType
<1>2. acks' = acks \cup {a}
  BY DEF Ack
<1>3. a \in AckType /\ a.stage = stage /\ a.w = r.w /\ a.run = k /\ a.mark = mark
  BY <1>1 DEF AckType
<1> HIDE DEF a
<1>4. wk'[r.w] = t
  BY <1>1
<1>5. \A w, j : Emitted(w, j)' = Emitted(w, j)
  BY DEF Emitted
<1>6. WorkerInv(r.w, wk[r.w])'
  BY <1>4, <1>5 DEF WorkerInv
<1>7. a.stage = "Stopped" => StoppedAck(a, requests)'
  BY <1>3, <1>4, <1>5 DEF StoppedAck, Consumed
<1>8. SamplesInv'
  BY DEF IInv, SamplesInv
<1>9. acks \subseteq acks' /\ acks' \subseteq AckType
      /\ \A b \in acks' \ acks : b.stage = "Stopped" => StoppedAck(b, requests)'
  BY <1>2, <1>3, <1>7, StateTypes
<1>10. emitted \subseteq emitted' /\ \A x \in emitted' \ emitted : x.w = r.w /\ ~Consumed(r.w, x.run)
  OBVIOUS
<1> QED
  BY <1>1, <1>6, <1>8, <1>9, <1>10, WorkerStep

LEMMA WorkerFacts ==
    ASSUME IInv, NEW w \in Workers
    PROVE  /\ wk \in [Workers -> WorkerType] /\ wk[w] \in WorkerType /\ WorkerInv(w, wk[w])
           /\ wk[w].used \subseteq 1 .. MaxRuns /\ wk[w].run \in 0 .. MaxRuns
           /\ wk[w].next \in Nat /\ wk[w].next <= MaxSeq
           /\ wk[w].mark \in Nat /\ wk[w].mark <= MaxSeq /\ wk[w].threads \in {0, 1}
<1>1. wk[w] \in WorkerType /\ WorkerInv(w, wk[w]) /\ wk \in [Workers -> WorkerType]
  BY DEF IInv, WorkersInv
<1>2. wk[w].next \in 0 .. MaxSeq /\ wk[w].mark \in 0 .. MaxSeq
  BY <1>1 DEF WorkerType
<1> QED
  BY <1>1, <1>2, Constants DEF WorkerType

LEMMA RequestFacts ==
    ASSUME IInv, NEW r \in requests
    PROVE  /\ r.w \in Workers /\ r.version \in Nat /\ r.id \in Nat
           /\ r.kind \in {"Start", "Stop"} => r.run \in 1 .. co.runs /\ r.run \in 1 .. MaxRuns
           /\ r.kind = "Start" => r.mode \in Modes
           /\ r.kind = "Stop" => r.mode \in StopModes
<1>1. r \in RequestType
  BY StateTypes
<1>2. 1 .. co.runs \subseteq 1 .. MaxRuns
  BY StateTypes, Constants
<1>3. r.id \in 1 .. MaxIds
  BY <1>1 DEF RequestType
<1> QED
  BY <1>1, <1>2, <1>3, Constants DEF RequestType, IInv, RequestsInv

(* An empty prefix: a run the worker has not seen.                         *)
LEMMA UnseenIsEmpty ==
    ASSUME IInv, NEW w \in Workers, NEW k, k \notin wk[w].used
    PROVE  Emitted(w, k) = FirstSamples(w, k, 0)
<1>1. FirstSamples(w, k, 0) = {}
  BY DEF FirstSamples
<1>2. Emitted(w, k) = {}
  BY WorkerFacts DEF Emitted, WorkerInv
<1> QED
  BY <1>1, <1>2

(* A configuration message leaves the run alone.                           *)
LEMMA ConfigureWorker ==
    ASSUME IInv, NEW w \in Workers, NEW t \in WorkerType,
           t.run = wk[w].run, t.used = wk[w].used, t.next = wk[w].next,
           t.mark = wk[w].mark, t.held = wk[w].held, t.mode = wk[w].mode,
           t.phase = wk[w].phase \/ t.phase \notin {"Running", "Stopped"}
    PROVE  WorkerInv(w, t) /\ Advances(wk[w], t)
BY WorkerFacts DEF WorkerInv, Advances

LEMMA AcceptProfileKeeps ==
    ASSUME IInv, NEW r \in requests, accept_profile(r),
           UNCHANGED <<co, pending, nextId, requests, emitted, handed, samples>>
    PROVE  IInv'
<1> DEFINE s == wk[r.w]
           t1 == [s EXCEPT !.profileId = r.id]
           t2 == [s EXCEPT !.phase = "Idle", !.profileId = r.id, !.plan = 0,
                    !.properties = 0, !.run = 0, !.mode = "none", !.threads = 0,
                    !.next = 0, !.held = {}, !.mark = 0]
<1>1. /\ r.w \in Workers /\ r.id \in Nat /\ s \in WorkerType /\ WorkerInv(r.w, s)
      /\ Ack(r, "Profile", 0, 0, NoMark)
      /\ 0 \in 0 .. MaxRuns /\ NoMark \in NoMark .. MaxSeq /\ 0 \in 0 .. MaxSeq
      /\ samples \subseteq emitted
  BY RequestFacts, WorkerFacts, Constants DEF accept_profile, IInv, SamplesInv
<1>2. wk' = [wk EXCEPT ![r.w] = t1] \/ wk' = [wk EXCEPT ![r.w] = t2]
  BY DEF accept_profile, Become
<1>3. CASE wk' = [wk EXCEPT ![r.w] = t1]
  <2>1. /\ t1 \in WorkerType /\ t1.run = s.run /\ t1.used = s.used /\ t1.next = s.next
        /\ t1.mark = s.mark /\ t1.held = s.held /\ t1.mode = s.mode /\ t1.phase = s.phase
    BY <1>1 DEF WorkerType
  <2> HIDE DEF t1
  <2>2. WorkerInv(r.w, t1) /\ Advances(s, t1)
    BY <1>1, <2>1, ConfigureWorker
  <2> QED
    BY <1>1, <1>3, <2>1, <2>2, HandlerStep DEF Stages
<1>4. CASE wk' = [wk EXCEPT ![r.w] = t2]
  <2>1. /\ t2 \in WorkerType /\ t2.run = 0 /\ t2.used = s.used /\ t2.next = 0
        /\ t2.mark = 0 /\ t2.held = {} /\ t2.phase = "Idle"
    BY <1>1 DEF WorkerType, WorkerPhases
  <2> HIDE DEF t2
  <2>2. WorkerInv(r.w, t2) /\ Advances(s, t2)
    BY <1>1, <2>1 DEF WorkerInv, Advances
  <2> QED
    BY <1>1, <1>4, <2>1, <2>2, HandlerStep DEF Stages
<1> QED
  BY <1>2, <1>3, <1>4

LEMMA AcceptPlanKeeps ==
    ASSUME IInv, NEW r \in requests, accept_plan(r) \/ accept_properties(r),
           UNCHANGED <<co, pending, nextId, requests, emitted, handed, samples>>
    PROVE  IInv'
<1> DEFINE s == wk[r.w]
<1>1. /\ r.w \in Workers /\ r.version \in Nat /\ s \in WorkerType /\ WorkerInv(r.w, s)
      /\ 0 \in 0 .. MaxRuns /\ NoMark \in NoMark .. MaxSeq
      /\ samples \subseteq emitted /\ wk \in [Workers -> WorkerType]
  BY RequestFacts, WorkerFacts, Constants DEF IInv, SamplesInv
<1>2. PICK stage \in Stages : Ack(r, stage, 0, 0, NoMark)
  BY DEF accept_plan, accept_properties, Stages
<1>3. PICK t \in WorkerType :
        /\ wk' = [wk EXCEPT ![r.w] = t]
        /\ t.run = s.run /\ t.used = s.used /\ t.next = s.next /\ t.mark = s.mark
        /\ t.held = s.held /\ t.mode = s.mode
        /\ t.phase = s.phase \/ t.phase \notin {"Running", "Stopped"}
  <2>1. CASE UNCHANGED wk
    <3>1. wk' = [wk EXCEPT ![r.w] = s]
      BY <1>1, <2>1
    <3> QED
      BY <1>1, <3>1
  <2> DEFINE Same(t) ==
        /\ t \in WorkerType
        /\ t.run = s.run /\ t.used = s.used /\ t.next = s.next /\ t.mark = s.mark
        /\ t.held = s.held /\ t.mode = s.mode
        /\ t.phase = s.phase \/ t.phase \notin {"Running", "Stopped"}
  <2>2. ASSUME NEW b \in WorkerType, Same(b) PROVE Same(Readied(b))
    <3>1. CASE Readied(b) = b
      BY <2>2, <3>1
    <3>2. CASE Readied(b) = [b EXCEPT !.phase = "Ready"]
      BY <2>2, <3>2 DEF WorkerType, WorkerPhases
    <3> QED
      BY <3>1, <3>2 DEF Readied
  <2>3. Same([s EXCEPT !.plan = r.version]) /\ Same([s EXCEPT !.properties = r.version])
    BY <1>1 DEF WorkerType
  <2>4. \/ UNCHANGED wk
        \/ wk' = [wk EXCEPT ![r.w] = Readied([s EXCEPT !.plan = r.version])]
        \/ wk' = [wk EXCEPT ![r.w] = Readied([s EXCEPT !.properties = r.version])]
    BY DEF accept_plan, accept_properties, Become
  <2> QED
    BY <2>1, <2>2, <2>3, <2>4
<1>4. WorkerInv(r.w, t) /\ Advances(s, t)
  BY <1>1, <1>3, ConfigureWorker
<1>5. stage # "Stopped" /\ stage \in Stages \cup {"Started", "Stopped"}
  BY DEF Stages
<1> QED
  BY <1>1, <1>2, <1>3, <1>4, <1>5, HandlerStep

LEMMA SameWorker ==
    ASSUME IInv, NEW w \in Workers
    PROVE  /\ WorkerInv(w, wk[w]) /\ Advances(wk[w], wk[w])
           /\ wk = [wk EXCEPT ![w] = wk[w]]
BY WorkerFacts DEF Advances

(* The session has no more runs than a worker remembers.                   *)
NothingForgotten == MaxRuns <= MaxRemembered

(* Then a worker that consumes a run forgets none.                         *)
LEMMA RunsAreRemembered ==
    ASSUME NothingForgotten, NEW s \in WorkerType, NEW k \in 1 .. MaxRuns
    PROVE  /\ RememberedRuns(s, k) = s.used \cup {k}
           /\ RememberedRuns(s, k) \in SUBSET (1 .. MaxRuns)
           /\ RememberedOrder(s, k) \in Seq(1 .. MaxRuns)
<1>1. s.used \cup {k} \in SUBSET (1 .. MaxRuns) /\ s.order \in Seq(1 .. MaxRuns)
  BY DEF WorkerType
<1>2. Cardinality(s.used \cup {k}) <= MaxRuns /\ Cardinality(s.used \cup {k}) \in Nat
  <2>1. IsFiniteSet(1 .. MaxRuns) /\ Cardinality(1 .. MaxRuns) = MaxRuns
    BY Constants, FS_Interval
  <2>2. IsFiniteSet(s.used \cup {k}) /\ Cardinality(s.used \cup {k}) <= Cardinality(1 .. MaxRuns)
    BY <1>1, <2>1, FS_Subset
  <2> QED
    BY <2>1, <2>2, FS_CardinalityType
<1>3. ~Trims(s, k)
  BY <1>2, Constants DEF Trims, NothingForgotten
<1> QED
  BY <1>1, <1>3 DEF RememberedRuns, RememberedOrder

LEMMA StartWorkerKeeps ==
    ASSUME NothingForgotten, IInv, NEW r \in requests, r.kind = "Start", StartWorker(r),
           UNCHANGED <<co, pending, nextId, requests, emitted, handed, samples>>
    PROVE  IInv'
<1> DEFINE s == wk[r.w]
           t == Started(s, r)
<1>1. /\ r.w \in Workers /\ r.run \in 1 .. co.runs /\ r.run \in 1 .. MaxRuns
      /\ r.mode \in Modes /\ s \in WorkerType /\ WorkerInv(r.w, s)
      /\ r.run \in 0 .. MaxRuns /\ NoMark \in NoMark .. MaxSeq /\ 0 \in 0 .. MaxSeq
      /\ samples \subseteq emitted /\ s.used \subseteq 1 .. MaxRuns
      /\ Ack(r, "Started", r.run, 1, NoMark)
  BY RequestFacts, WorkerFacts, Constants DEF StartWorker, IInv, SamplesInv
<1>2. CASE UNCHANGED wk
  BY <1>1, <1>2, SameWorker, HandlerStep
<1>3. CASE r.run \notin s.used /\ wk' = [wk EXCEPT ![r.w] = t]
  <2>0. /\ RememberedRuns(s, r.run) = s.used \cup {r.run}
        /\ RememberedRuns(s, r.run) \in SUBSET (1 .. MaxRuns)
        /\ RememberedOrder(s, r.run) \in Seq(1 .. MaxRuns)
    BY <1>1, RunsAreRemembered
  <2>1. /\ t \in WorkerType /\ t.phase = "Running" /\ t.run = r.run
        /\ t.used = s.used \cup {r.run} /\ t.mode = r.mode
        /\ t.next = 0 /\ t.held = {} /\ t.mark = 0
    BY <1>1, <2>0 DEF WorkerType, WorkerPhases, Started
  <2> HIDE DEF t
  <2>2. Emitted(r.w, r.run) = FirstSamples(r.w, r.run, 0)
    BY <1>1, <1>3, UnseenIsEmpty
  <2>3. r.run # 0 /\ 0 <= 0
    BY <1>1
  <2>4. WorkerInv(r.w, t)
    BY <1>1, <2>1, <2>2, <2>3 DEF WorkerInv
  <2>5. Advances(s, t)
    BY <1>3, <2>1 DEF Advances
  <2> QED
    BY <1>1, <1>3, <2>1, <2>4, <2>5, HandlerStep
<1> QED
  BY <1>2, <1>3 DEF StartWorker, Become

LEMMA StopBeforeStartKeeps ==
    ASSUME NothingForgotten, IInv, NEW r \in requests, r.kind = "Stop", StopBeforeStart(r),
           UNCHANGED <<co, pending, nextId, requests, emitted, handed>>
    PROVE  IInv'
<1> DEFINE s == wk[r.w]
           used == RememberedRuns(s, r.run)
           order == RememberedOrder(s, r.run)
           t == [s EXCEPT !.phase = "Stopped", !.run = r.run, !.used = used, !.order = order,
                          !.threads = 0, !.mode = "none"]
<1>1. /\ r.w \in Workers /\ r.run \in 1 .. co.runs /\ r.run \in 1 .. MaxRuns
      /\ s \in WorkerType /\ WorkerInv(r.w, s) /\ s.run = 0 /\ r.run \notin s.used
      /\ r.run \in 0 .. MaxRuns /\ 0 \in NoMark .. MaxSeq /\ r.run # 0
      /\ samples \subseteq emitted /\ s.used \subseteq 1 .. MaxRuns
      /\ Ack(r, "Stopped", r.run, 0, 0) /\ samples' = samples /\ 0 >= 0
      /\ s.mark \in Nat
  BY RequestFacts, WorkerFacts, Constants DEF StopBeforeStart, IInv, SamplesInv
<1>2. wk' = [wk EXCEPT ![r.w] = t]
  BY DEF StopBeforeStart, Become
<1>3. /\ used \in SUBSET (1 .. MaxRuns) /\ used = s.used \cup {r.run}
      /\ order \in Seq(1 .. MaxRuns)
  BY <1>1, RunsAreRemembered
<1> HIDE DEF used, order
<1>4. /\ t \in WorkerType /\ t.phase = "Stopped" /\ t.run = r.run
      /\ t.used = used /\ t.next = s.next /\ t.held = s.held /\ t.mark = s.mark
  BY <1>1, <1>3 DEF WorkerType, WorkerPhases
<1> HIDE DEF t
<1>5. s.next = 0 /\ s.mark = 0
  <2>1. s.next = 0 /\ s.mark <= s.next
    BY <1>1 DEF WorkerInv
  <2> QED
    BY <1>1, <2>1
<1>6. Emitted(r.w, r.run) = FirstSamples(r.w, r.run, 0)
  BY <1>1, UnseenIsEmpty
<1>7. WorkerInv(r.w, t)
  BY <1>1, <1>3, <1>4, <1>5, <1>6 DEF WorkerInv
<1>8. Advances(s, t)
  BY <1>3, <1>4 DEF Advances
<1> QED
  BY <1>1, <1>2, <1>3, <1>4, <1>6, <1>7, <1>8, HandlerStep

LEMMA StopRunningKeeps ==
    ASSUME IInv, NEW r \in requests, r.kind = "Stop", StopRunning(r),
           UNCHANGED <<co, pending, nextId, requests, emitted, handed>>
    PROVE  IInv'
<1> DEFINE s == wk[r.w]
           mark == IF r.mode = "Graceful" THEN s.next ELSE s.mark
           t == [s EXCEPT !.phase = "Stopped", !.held = {}, !.mark = mark]
<1>1. /\ r.w \in Workers /\ s \in WorkerType /\ WorkerInv(r.w, s)
      /\ s.phase = "Running" /\ s.run = r.run /\ r.run \in 0 .. MaxRuns /\ r.run # 0
      /\ s.next \in Nat /\ s.next <= MaxSeq /\ s.mark \in Nat /\ s.mark <= MaxSeq
      /\ s.threads \in {0, 1} /\ Ack(r, "Stopped", r.run, s.threads, mark)
      /\ samples \subseteq emitted /\ MaxSeq \in Nat
  BY RequestFacts, WorkerFacts, Constants DEF StopRunning, IInv, SamplesInv
<1>2. wk' = [wk EXCEPT ![r.w] = t]
  BY DEF StopRunning, Become
<1>3. samples \subseteq samples' /\ samples' \subseteq emitted
  BY <1>1 DEF StopRunning, WorkerInv
<1>4. /\ mark \in Nat /\ mark >= 0 /\ mark \in 0 .. MaxSeq /\ mark \in NoMark .. MaxSeq
      /\ mark <= s.next
  BY <1>1, Constants DEF WorkerInv
<1>5. AllGraceful(requests, r.w, r.run) => mark = s.next
  BY DEF AllGraceful
<1> HIDE DEF mark
<1>6. /\ t \in WorkerType /\ t.phase = "Stopped" /\ t.run = s.run
      /\ t.used = s.used /\ t.next = s.next /\ t.held = {} /\ t.mark = mark
  BY <1>1, <1>4 DEF WorkerType, WorkerPhases
<1> HIDE DEF t
<1>7. WorkerInv(r.w, t)
  BY <1>1, <1>4, <1>5, <1>6 DEF WorkerInv
<1>8. Advances(s, t)
  BY <1>6 DEF Advances
<1>9. /\ r.run \in t.used
      /\ AllGraceful(requests, r.w, r.run) => Emitted(r.w, r.run) = FirstSamples(r.w, r.run, mark)
  BY <1>1, <1>5, <1>6 DEF WorkerInv
<1>10. PICK threads \in {0, 1} : Ack(r, "Stopped", r.run, threads, mark)
  BY <1>1
<1>11. "Stopped" \in Stages \cup {"Started", "Stopped"}
  OBVIOUS
<1>12. /\ r.run \in t.used /\ ~(t.phase = "Running" /\ t.run = r.run) /\ mark >= 0
       /\ AllGraceful(requests, r.w, r.run) =>
            Emitted(r.w, r.run) = FirstSamples(r.w, r.run, mark)
  BY <1>4, <1>6, <1>9
<1>13. /\ r.run \in 0 .. MaxRuns /\ mark \in NoMark .. MaxSeq
       /\ t \in WorkerType
  BY <1>1, <1>4, <1>6
<1> QED
  BY <1>2, <1>3, <1>7, <1>8, <1>10, <1>11, <1>12, <1>13, HandlerStep, Zenon

LEMMA StopAgainKeeps ==
    ASSUME IInv, NEW r \in requests, r.kind = "Stop", StopAgain(r),
           UNCHANGED <<co, pending, nextId, requests, emitted, handed>>
    PROVE  IInv'
<1> DEFINE s == wk[r.w]
<1>1. /\ r.w \in Workers /\ s \in WorkerType /\ WorkerInv(r.w, s)
      /\ s.phase = "Stopped" /\ s.run = r.run /\ r.run \in 0 .. MaxRuns /\ r.run # 0
      /\ s.mark \in NoMark .. MaxSeq /\ s.mark >= 0
      /\ s.threads \in {0, 1} /\ Ack(r, "Stopped", r.run, s.threads, s.mark)
      /\ samples \subseteq emitted /\ samples' = samples /\ wk' = wk
  BY RequestFacts, WorkerFacts, Constants DEF StopAgain, IInv, SamplesInv
<1>2. /\ r.run \in s.used
      /\ AllGraceful(requests, r.w, r.run) => Emitted(r.w, r.run) = FirstSamples(r.w, r.run, s.mark)
  BY <1>1 DEF WorkerInv
<1>3. wk' = [wk EXCEPT ![r.w] = s] /\ Advances(s, s)
  BY <1>1, SameWorker
<1>4. ~(s.phase = "Running" /\ s.run = r.run)
      /\ samples \subseteq samples' /\ samples' \subseteq emitted
  BY <1>1
<1>5. PICK threads \in {0, 1} : Ack(r, "Stopped", r.run, threads, s.mark)
  BY <1>1
<1>6. "Stopped" \in Stages \cup {"Started", "Stopped"}
  OBVIOUS
<1>7. /\ r.run \in s.used /\ ~(s.phase = "Running" /\ s.run = r.run) /\ s.mark >= 0
      /\ AllGraceful(requests, r.w, r.run) =>
           Emitted(r.w, r.run) = FirstSamples(r.w, r.run, s.mark)
      /\ r.run \in 0 .. MaxRuns /\ s.mark \in NoMark .. MaxSeq
      /\ s \in WorkerType /\ WorkerInv(r.w, s)
  BY <1>1, <1>2
<1> QED
  BY <1>3, <1>4, <1>5, <1>6, <1>7, HandlerStep, Zenon

LEMMA DeliverKeeps ==
    ASSUME NothingForgotten, IInv, NEW r \in requests, Deliver(r) PROVE IInv'
<1>1. UNCHANGED <<co, pending, nextId, requests, emitted, handed>>
  BY DEF Deliver
<1>2. \/ UNCHANGED samples /\ accept_profile(r)
      \/ UNCHANGED samples /\ (accept_plan(r) \/ accept_properties(r))
      \/ UNCHANGED samples /\ r.kind = "Start" /\ StartWorker(r)
      \/ r.kind = "Stop" /\ (StopBeforeStart(r) \/ StopRunning(r) \/ StopAgain(r))
  BY DEF Deliver
<1>3. CASE UNCHANGED samples /\ accept_profile(r)
  BY <1>1, <1>3, AcceptProfileKeeps
<1>4. CASE UNCHANGED samples /\ (accept_plan(r) \/ accept_properties(r))
  BY <1>1, <1>4, AcceptPlanKeeps
<1>5. CASE UNCHANGED samples /\ r.kind = "Start" /\ StartWorker(r)
  BY <1>1, <1>5, StartWorkerKeeps
<1>6. CASE r.kind = "Stop" /\ StopBeforeStart(r)
  BY <1>1, <1>6, StopBeforeStartKeeps
<1>7. CASE r.kind = "Stop" /\ StopRunning(r)
  BY <1>1, <1>7, StopRunningKeeps
<1>8. CASE r.kind = "Stop" /\ StopAgain(r)
  BY <1>1, <1>8, StopAgainKeeps
<1> QED
  BY <1>2, <1>3, <1>4, <1>5, <1>6, <1>7, <1>8

(* The worker's next number is below the number of samples emitted.        *)
LEMMA NextBound ==
    ASSUME IInv, NEW w \in Workers, wk[w].run # 0, Cardinality(emitted) < MaxSeq
    PROVE  wk[w].next \in 0 .. MaxSeq - 1 /\ wk[w].next + 1 \in 0 .. MaxSeq
<1>1. /\ wk[w].next \in Nat /\ Emitted(w, wk[w].run) = FirstSamples(w, wk[w].run, wk[w].next)
      /\ IsFiniteSet(emitted) /\ MaxSeq \in Nat
  BY WorkerFacts, Constants DEF WorkerInv, IInv, SamplesInv
<1>2. FirstSamples(w, wk[w].run, wk[w].next) \subseteq emitted
  BY <1>1 DEF Emitted
<1>3. Cardinality(FirstSamples(w, wk[w].run, wk[w].next)) = wk[w].next
  BY <1>1, CountFirst
<1>4. wk[w].next <= Cardinality(emitted) /\ Cardinality(emitted) \in Nat
  BY <1>1, <1>2, <1>3, FS_Subset, FS_CardinalityType
<1> QED
  BY <1>1, <1>4

LEMMA EmitKeeps == ASSUME IInv, NEW w \in Workers, emit_sample(w) PROVE IInv'
<1> DEFINE s == wk[w]
           x == [run |-> s.run, w |-> w, seq |-> s.next]
           held == QueueAfter(s.mode, s.held, x)
           next == s.next + 1
           mark == IF held = {} THEN s.next + 1 ELSE s.mark
           t == [s EXCEPT !.next = next, !.held = held, !.mark = mark]
<1>1. /\ s \in WorkerType /\ WorkerInv(w, s) /\ s.phase = "Running" /\ s.run # 0
      /\ s.mode \in Modes /\ s.run \in s.used /\ s.used \subseteq 1 .. MaxRuns
      /\ s.next \in Nat /\ s.mark \in Nat /\ s.mark <= s.next
      /\ Cardinality(emitted) < MaxSeq /\ s.held \subseteq emitted
      /\ IsFiniteSet(emitted) /\ emitted \subseteq Samples /\ samples \subseteq emitted
      /\ Emitted(w, s.run) = FirstSamples(w, s.run, s.next)
  BY WorkerFacts DEF emit_sample, WorkerInv, IInv, SamplesInv
<1>2. /\ emitted' = emitted \cup {x}
      /\ samples' = samples \cup ((s.held \cup {x}) \ held)
      /\ UNCHANGED <<co, pending, nextId, requests, spent, acks, handed>>
  BY DEF emit_sample
<1>3. wk' = [wk EXCEPT ![w] = t]
  BY <1>1 DEF emit_sample, Become, WorkerType
<1>4. /\ s.next \in 0 .. MaxSeq - 1 /\ next \in 0 .. MaxSeq /\ next = s.next + 1
  BY <1>1, NextBound
<1>5. mark \in 0 .. MaxSeq /\ mark <= next
  BY <1>1, <1>4, Constants
<1>6. x \in Samples /\ x.w = w /\ x.run = s.run
  BY <1>1, <1>4 DEF Samples
<1>7. held \subseteq s.held \cup {x}
  BY <1>1, QueueBound
<1>8. FirstSamples(w, s.run, next) = FirstSamples(w, s.run, s.next) \cup {x}
  <2>1. 0 .. next - 1 = (0 .. s.next - 1) \cup {s.next}
    BY <1>1
  <2> HIDE DEF next
  <2> QED
    BY <2>1 DEF FirstSamples
<1> HIDE DEF held, next, mark, x
<1>9. /\ t \in WorkerType /\ t.phase = "Running" /\ t.run = s.run /\ t.used = s.used
      /\ t.mode = s.mode /\ t.next = next /\ t.held = held /\ t.mark = mark
  <2>1. held \in SUBSET Samples
    BY <1>1, <1>6, <1>7
  <2> QED
    BY <1>1, <1>4, <1>5, <2>1 DEF WorkerType
<1> HIDE DEF t
<1>10. wk'[w] = t
  BY <1>3, StateTypes
<1>11. WorkerInv(w, wk[w])'
  <2>1. {y \in emitted' : y.w = w /\ y.run = s.run} = FirstSamples(w, s.run, next)
    BY <1>1, <1>2, <1>6, <1>8 DEF Emitted
  <2>2. held \subseteq emitted' /\ \A y \in emitted' : y.w = w => y.run \in s.used
    BY <1>1, <1>2, <1>6, <1>7 DEF WorkerInv
  <2> QED
    BY <1>1, <1>2, <1>5, <1>9, <1>10, <2>1, <2>2 DEF WorkerInv, Emitted
<1>12. SamplesInv'
  <2>1. IsFiniteSet(emitted')
    BY <1>1, <1>2, FS_AddElement
  <2> QED
    BY <1>1, <1>2, <1>6, <2>1 DEF IInv, SamplesInv
<1>13. Advances(s, t)
  BY <1>1, <1>9 DEF Advances
<1>14. \A y \in emitted' \ emitted : y.w = w /\ ~Consumed(w, y.run)
  BY <1>1, <1>2, <1>6 DEF Consumed
<1>15. /\ emitted \subseteq emitted' /\ samples \subseteq samples' /\ acks \subseteq acks'
       /\ acks' \subseteq AckType
       /\ \A a \in acks' \ acks : a.stage = "Stopped" => StoppedAck(a, requests)'
  BY <1>2, StateTypes
<1> QED
  BY <1>2, <1>3, <1>9, <1>11, <1>12, <1>13, <1>14, <1>15, WorkerStep

LEMMA AdvanceTimeKeeps == ASSUME IInv, NEW w \in Workers, advance_time(w) PROVE IInv'
<1> DEFINE s == wk[w]
           t == [s EXCEPT !.held = {}, !.mark = s.next]
<1>1. /\ s \in WorkerType /\ WorkerInv(w, s) /\ s.phase = "Running"
      /\ s.next \in 0 .. MaxSeq /\ s.next \in Nat /\ s.held \subseteq emitted
  BY WorkerFacts, Constants DEF advance_time, WorkerInv, WorkerType
<1>2. /\ samples' = samples \cup s.held /\ wk' = [wk EXCEPT ![w] = t]
      /\ UNCHANGED <<co, pending, nextId, requests, spent, acks, emitted, handed>>
  BY DEF advance_time, Become
<1>3. /\ t \in WorkerType /\ t.phase = s.phase /\ t.run = s.run /\ t.used = s.used
      /\ t.mode = s.mode /\ t.next = s.next /\ t.held = {} /\ t.mark = s.next
  BY <1>1 DEF WorkerType
<1> HIDE DEF t
<1>4. wk'[w] = t
  BY <1>2, StateTypes
<1>5. WorkerInv(w, wk[w])'
  <2>1. \A k : Emitted(w, k)' = Emitted(w, k)
    BY <1>2 DEF Emitted
  <2>2. s.next <= s.next
    BY <1>1
  <2> QED
    BY <1>1, <1>2, <1>3, <1>4, <2>1, <2>2 DEF WorkerInv
<1>6. SamplesInv'
  BY <1>1, <1>2 DEF IInv, SamplesInv
<1>7. Advances(s, t)
  BY <1>1, <1>3 DEF Advances
<1>8. /\ emitted \subseteq emitted' /\ samples \subseteq samples' /\ acks \subseteq acks'
      /\ acks' \subseteq AckType
      /\ \A x \in emitted' \ emitted : x.w = w /\ ~Consumed(w, x.run)
      /\ \A a \in acks' \ acks : a.stage = "Stopped" => StoppedAck(a, requests)'
  BY <1>2, StateTypes
<1> QED
  BY <1>2, <1>3, <1>5, <1>6, <1>7, <1>8, WorkerStep

-----------------------------------------------------------------------------
(* The theorems.                                                           *)

LEMMA InitHolds == Init => IInv
<1> SUFFICES ASSUME Init PROVE IInv
  OBVIOUS
<1> DEFINE t == [phase |-> "Idle", profileId |-> 0, plan |-> 0, properties |-> 0,
                 run |-> 0, used |-> {}, order |-> <<>>, mode |-> "none", threads |-> 0,
                 next |-> 0, held |-> {}, mark |-> 0]
<1>1. /\ pending = {} /\ nextId = 1 /\ requests = {} /\ acks = {}
      /\ emitted = {} /\ samples = {} /\ handed = {} /\ wk = [w \in Workers |-> t]
  BY DEF Init
<1>2. /\ t \in WorkerType /\ t.run = 0 /\ t.next = 0 /\ t.mark = 0 /\ t.phase = "Idle"
      /\ t.held = {} /\ t.used = {}
  BY Constants DEF WorkerType, WorkerPhases
<1> HIDE DEF t
<1>3. WorkersInv
  <2>1. \A w \in Workers : wk[w] = t
    BY <1>1
  <2> QED
    BY <1>1, <1>2, <2>1 DEF WorkersInv, WorkerInv
<1>4. RequestsInv /\ AcksInv /\ PendingInv /\ SamplesInv
  BY <1>1, FS_EmptySet, Constants DEF RequestsInv, AcksInv, PendingInv, SamplesInv
<1>5. PICK policy \in Policies :
       co = [failFast |-> policy, phase |-> "Idle", run |-> 0, runs |-> 0,
             version |-> 0, mode |-> "none", cause |-> "none",
             rec |-> [w \in Workers |-> [phase |-> "Idle", threads |-> 0]],
             acked |-> [w \in Workers |-> {}],
             mark |-> [w \in Workers |-> NoMark],
             accepted |-> {}, queued |-> {}, done |-> {}]
  BY DEF Init
<1>6. /\ co \in CoordinatorType /\ co.phase = "Idle" /\ co.run = 0 /\ co.runs = 0
      /\ co.rec = [w \in Workers |-> [phase |-> "Idle", threads |-> 0]]
      /\ co.mark = [w \in Workers |-> NoMark]
      /\ co.accepted = {} /\ co.queued = {} /\ co.done = {}
  <2>1. /\ [w \in Workers |-> [phase |-> "Idle", threads |-> 0]]
              \in [Workers -> [phase : WorkerPhases, threads : {0, 1}]]
        /\ [w \in Workers |-> {}] \in [Workers -> SUBSET Stages]
        /\ [w \in Workers |-> NoMark] \in [Workers -> NoMark .. MaxSamples]
        /\ 0 \in 0 .. MaxRuns
    BY Constants DEF WorkerPhases
  <2> QED
    BY <1>5, <2>1 DEF CoordinatorType, Phases
<1>7. CoInv(co, requests)
  <2>1. \A w \in Workers : co.rec[w].phase = "Idle" /\ co.mark[w] = NoMark
    BY <1>6
  <2>2. CoTyped(co) /\ PhaseInv(co)
    BY <1>6, <2>1 DEF CoTyped, PhaseInv, Active
  <2>3. MarkInv(co) /\ HandInv(co)
    BY <1>1, <1>6, <2>1 DEF MarkInv, HandInv
  <2>4. PastInv(co)
    <3>1. 1 .. co.runs = {}
      BY <1>6
    <3> QED
      BY <3>1 DEF PastInv
  <2>5. GraceInv(co, requests)
    BY <1>1, <2>1 DEF GraceInv, AllGraceful
  <2> QED
    BY <2>2, <2>3, <2>4, <2>5 DEF CoInv
<1> QED
  BY <1>3, <1>4, <1>7 DEF IInv

LEMMA NextKeeps == ASSUME NothingForgotten, IInv, [Next]_vars PROVE IInv'
<1>1. CASE configure \/ \E mode \in Modes : start(mode)
  BY <1>1, ConfigureKeeps, StartKeeps
<1>2. CASE \E mode \in {"Graceful", "Immediate"} : stop(mode)
  BY <1>2, StopKeeps DEF StopModes
<1>3. CASE \E p \in pending : retry_request(p)
  BY <1>3, RetryKeeps
<1>4. CASE \E tick \in BOOLEAN : drain_delivered_samples(tick)
  BY <1>4, DrainKeeps
<1>5. CASE \E w \in Workers : fail_worker(w) \/ emit_sample(w) \/ advance_time(w)
  BY <1>5, FailWorkerKeeps, EmitKeeps, AdvanceTimeKeeps
<1>6. CASE \E id \in 1 .. MaxIds : DeliverRequest(id) \/ DeliverAck(id)
  BY <1>6, DeliverKeeps, ApplyAckKeeps DEF DeliverRequest, DeliverAck
<1>7. CASE \E s \in samples : record_sample(s)
  BY <1>7, RecordSampleKeeps
<1>8. CASE UNCHANGED vars
  <2>1. UNCHANGED <<co, pending, nextId, wk, requests, acks, emitted, samples, handed>>
    BY <1>8 DEF vars
  <2>2. CoInv(co, requests)'
    BY <2>1, CoordinatorStep DEF IInv
  <2>3. WorkersInv' /\ AcksInv' /\ SamplesInv'
    BY <2>1, StateTypes, CoordinatorFrame DEF IInv, SamplesInv
  <2>4. PendingInv' /\ RequestsInv'
    BY <2>1 DEF IInv, PendingInv, RequestsInv
  <2> QED
    BY <2>2, <2>3, <2>4 DEF IInv
<1> QED
  BY <1>1, <1>2, <1>3, <1>4, <1>5, <1>6, <1>7, <1>8 DEF Next

(* The inductive invariant of a session with no more runs than a worker    *)
(* remembers: workers number what they emit, an acknowledged stop ends a   *)
(* run for good, and the coordinator's records and watermarks are what the *)
(* workers said.  With more runs a worker forgets that it has consumed the *)
(* first ones (trim_consumed_run_ids) and it fails: with MaxRemembered = 1 *)
(* three runs are enough.                                                  *)
THEOREM SessionInvariant == NothingForgotten => (Spec => []IInv)
<1> SUFFICES ASSUME NothingForgotten PROVE Spec => []IInv
  OBVIOUS
<1>1. IInv /\ [Next]_vars => IInv'
  BY NextKeeps
<1> QED
  BY <1>1, InitHolds, PTL DEF Spec

(* A sample is handed out once, over all runs, however often and however   *)
(* late the network delivers it, and whatever is aborted meanwhile, in a   *)
(* session with no more runs than a worker remembers.                      *)
THEOREM SamplesHandedOnce == NothingForgotten => (Spec => []HandedOnce)
<1> SUFFICES ASSUME NothingForgotten PROVE Spec => []HandedOnce
  OBVIOUS
<1>1. ASSUME IInv PROVE HandedOnce
  <2>1. /\ co \in CoordinatorType /\ co.queued \cup co.done \subseteq co.accepted
        /\ co.queued \cap co.done = {} /\ (co.queued \cup co.done) \cap handed = {}
    BY <1>1 DEF IInv, CoInv, CoTyped, HandInv
  <2>2. \A p \in pending : p.id < nextId /\ p.attempt \in 1 .. MaxAttempts
    BY <1>1 DEF IInv, PendingInv, PendingType
  <2>3. ASSUME NEW w \in Workers
        PROVE  /\ wk[w].phase \in WorkerPhases /\ wk[w].next \in 0 .. MaxSeq
               /\ wk[w].mark \in 0 .. wk[w].next
    <3>1. /\ wk[w] \in WorkerType /\ wk[w].mark <= wk[w].next
          /\ wk[w].next \in Nat /\ wk[w].mark \in Nat
      BY <1>1, WorkerFacts DEF WorkerInv
    <3> QED
      BY <3>1 DEF WorkerType
  <2>4. /\ co.failFast \in Policies /\ co.phase \in Phases
        /\ co.run \in 0 .. MaxRuns /\ co.runs \in 0 .. MaxRuns
        /\ co.version \in 0 .. MaxRuns /\ co.mode \in Modes \cup {"none"}
        /\ co.cause \in {"none", "Graceful", "Immediate", "FailFast"}
        /\ co.rec \in [Workers -> [phase : WorkerPhases, threads : {0, 1}]]
        /\ co.acked \in [Workers -> SUBSET Stages]
        /\ co.mark \in [Workers -> NoMark .. MaxSamples] /\ co.accepted \subseteq Samples
    BY <2>1 DEF CoordinatorType
  <2>5. TypeOK
    BY <1>1, <2>1, <2>2, <2>3, <2>4 DEF TypeOK, IInv, PendingInv, SamplesInv
  <2> QED
    BY <2>1, <2>5 DEF HandedOnce
<1> QED
  BY <1>1, SessionInvariant, PTL

(* No healthy worker runs behind the coordinator's back: a start that      *)
(* arrives late, a retry or a stop that overtook the start never leaves    *)
(* one running once the run is over, or in another run, as long as there   *)
(* are no more runs than a worker remembers.  Beyond that it fails: with   *)
(* MaxRemembered = 1 three runs are enough.                                *)
THEOREM NoWorkerRunsOn == NothingForgotten => (Spec => []NoRogueWorker)
<1> SUFFICES ASSUME NothingForgotten PROVE Spec => []NoRogueWorker
  OBVIOUS
<1>1. ASSUME IInv PROVE NoRogueWorker
  <2> SUFFICES ASSUME NEW w \in Workers, wk[w].phase = "Running", co.rec[w].phase # "Failed"
               PROVE  /\ wk[w].run = co.run
                      /\ co.phase \in {"Starting", "Running", "Stopping"}
    BY DEF NoRogueWorker
  <2>1. /\ wk[w].run \in wk[w].used /\ wk[w].used \subseteq 1 .. co.runs
        /\ wk[w].run # 0
    BY <1>1, WorkerFacts DEF WorkerInv
  <2>2. w \in Healthy(co) /\ ~Consumed(w, wk[w].run)
    BY DEF Healthy, Consumed
  <2>3. ~Past(co, wk[w].run)
    BY <1>1, <2>1, <2>2 DEF IInv, CoInv, PastInv
  <2>4. wk[w].run = co.run /\ co.phase \notin {"Stopped", "Failed"} /\ co.run # 0
    BY <2>1, <2>3 DEF Past
  <2> QED
    BY <1>1, <2>4 DEF IInv, CoInv, PhaseInv, Active
<1> QED
  BY <1>1, SessionInvariant, PTL

(* A run that stopped gracefully has every sample its healthy workers      *)
(* emitted and none of another run, for any number of workers and any      *)
(* order of samples, acknowledgements, retries and repeated stops, in a    *)
(* session with no more runs than a worker remembers.                      *)
THEOREM GracefulStopIsComplete == NothingForgotten => (Spec => []GracefulIsComplete)
<1> SUFFICES ASSUME NothingForgotten PROVE Spec => []GracefulIsComplete
  OBVIOUS
<1>1. ASSUME IInv PROVE GracefulIsComplete
  <2> SUFFICES ASSUME co.phase = "Stopped", co.cause = "Graceful", NEW w \in Healthy(co)
               PROVE  FromWorker(co, w) = Emitted(w, co.run)
    BY DEF GracefulIsComplete, Emitted
  <2>1. w \in Workers /\ co.rec[w].phase = "Stopped"
    BY <1>1 DEF IInv, CoInv, PhaseInv, AllHealthy, Healthy
  <2> QED
    BY <1>1, <2>1 DEF IInv, CoInv, GraceInv
<1> QED
  BY <1>1, SessionInvariant, PTL

-----------------------------------------------------------------------------
(* The configuration a worker holds, when no request is delivered twice.   *)

Profiles(w) == {r \in requests : r.kind = "Profile" /\ r.w = w}

(* The worker has taken a profile of the coordinator's configuration.      *)
Adopted(w) == \E r \in Profiles(w) : r.version = co.version /\ r.id <= wk[w].profileId

(* A later configuration has later identities.                             *)
IdsInv ==
    /\ \A r \in requests : r.id < nextId /\ r.version <= co.version
    /\ \A r, q \in requests : r.version < q.version => r.id < q.id
    /\ co.phase = "Idle" => requests = {}

(* What is pending is of this configuration; a pending profile is the only *)
(* one, and the last sent, to its worker.                                  *)
PendingCurrent ==
    \A p \in pending :
        /\ \A r \in requests : r.id = p.id =>
              /\ r.version = co.version
              /\ r.kind = "Profile" <=> p.stage = "Profile"
              /\ r.kind = "Profile" => r.w = p.w
        /\ p.stage = "Profile" =>
              /\ \A q \in pending : q.stage = "Profile" /\ q.w = p.w => q = p
              /\ \A r \in Profiles(p.w) : r.id <= p.id
              /\ "Profile" \notin co.acked[p.w]

(* An acknowledged profile, plan or properties is the worker's.            *)
AckHolds(a, r) ==
    /\ r.id = a.id /\ r.w = a.w /\ r.kind = a.stage
    /\ a.stage = "Profile" => r.id <= wk[a.w].profileId
    /\ a.w \in Healthy(co) /\ r.version = co.version =>
         /\ a.stage = "Plan" => Adopted(a.w) /\ wk[a.w].plan = co.version
         /\ a.stage = "Properties" => Adopted(a.w) /\ wk[a.w].properties = co.version

AcksCurrent ==
    /\ \A a \in acks : a.stage \in Stages => \E r \in requests : AckHolds(a, r)
    /\ \A a \in acks : a.stage = "Stopped" /\ a.run = co.run /\ a.w \in Healthy(co) =>
          wk[a.w].phase = "Stopped"

(* The profile a worker took last cannot be delivered again.               *)
ProfileInv ==
    \A w \in Workers :
        /\ wk[w].profileId < nextId
        /\ \A r \in Profiles(w) : r.id = wk[w].profileId => r.id \in spent

(* Before a worker adopts the configuration it is Stopped or blank; what   *)
(* it acknowledged it holds; and no profile that could reset it is left.   *)
ConfiguredInv(w) ==
    /\ \A r \in Profiles(w) : r.version < co.version => r.id <= wk[w].profileId
    /\ ~Adopted(w) => \/ wk[w].phase = "Stopped"
                      \/ wk[w].phase = "Idle" /\ wk[w].profileId = 0
    /\ Adopted(w) /\ co.run = 0 => wk[w].phase \in {"Idle", "Ready"}
    /\ "Profile" \in co.acked[w] =>
         Adopted(w) /\ \A r \in Profiles(w) : r.id <= wk[w].profileId
    /\ "Plan" \in co.acked[w] => "Profile" \in co.acked[w] /\ wk[w].plan = co.version
    /\ "Properties" \in co.acked[w] =>
         "Profile" \in co.acked[w] /\ wk[w].properties = co.version
    /\ co.run # 0 \/ co.rec[w].phase = "Ready" => co.acked[w] = Stages

CInv == /\ IdsInv /\ PendingCurrent /\ AcksCurrent /\ ProfileInv
        /\ \A w \in Healthy(co) : ConfiguredInv(w)

LEMMA IdTypes ==
    ASSUME IInv
    PROVE  /\ nextId \in Int /\ co.version \in Int
           /\ \A r \in requests : r.id \in Int /\ r.id >= 1 /\ r.version \in Int /\ r.w \in Workers
           /\ \A p \in pending : p.id \in Int /\ p.id < nextId /\ p.w \in Workers
           /\ \A a \in acks : a.id \in Int /\ a.w \in Workers
           /\ \A w \in Workers : wk[w].profileId \in Int /\ wk[w].profileId >= 0
           /\ Healthy(co) \subseteq Workers
<1>1. nextId \in Int /\ co.version \in Int /\ Healthy(co) \subseteq Workers
  BY StateTypes, Constants DEF Healthy
<1>2. ASSUME NEW r \in requests PROVE r.id \in Int /\ r.id >= 1 /\ r.version \in Int /\ r.w \in Workers
  <2>1. r \in RequestType
    BY StateTypes
  <2>2. r.id \in 1 .. MaxIds /\ r.version \in Nat /\ r.w \in Workers
    BY <2>1 DEF RequestType
  <2> QED
    BY <2>2, Constants
<1>3. ASSUME NEW p \in pending PROVE p.id \in Int /\ p.id < nextId /\ p.w \in Workers
  <2>1. p \in PendingType /\ p.id < nextId
    BY DEF IInv, PendingInv
  <2>2. p.id \in 1 .. MaxIds /\ p.w \in Workers
    BY <2>1 DEF PendingType
  <2> QED
    BY <2>1, <2>2, Constants
<1>4. ASSUME NEW a \in acks PROVE a.id \in Int /\ a.w \in Workers
  <2>1. a.id \in 1 .. MaxIds /\ a.w \in Workers
    BY StateTypes DEF AckType
  <2> QED
    BY <2>1, Constants
<1>5. ASSUME NEW w \in Workers PROVE wk[w].profileId \in Int /\ wk[w].profileId >= 0
  <2>1. wk[w].profileId \in Nat
    BY WorkerFacts DEF WorkerType
  <2> QED
    BY <2>1
<1> QED
  BY <1>1, <1>2, <1>3, <1>4, <1>5

(* The identities and what is pending, when requests that are no profiles  *)
(* of this configuration are added.                                        *)
LEMMA MoreRequests ==
    ASSUME IInv, CInv, co'.version = co.version, co'.acked = co.acked,
           nextId' \in Int, nextId <= nextId', requests \subseteq requests',
           \A r \in requests' \ requests :
              /\ r.id \in Int /\ nextId <= r.id /\ r.id < nextId'
              /\ r.version = co.version /\ r.kind # "Profile",
           \A p \in pending' : p \in pending \/ (p.stage # "Profile" /\ nextId <= p.id),
           co'.phase = "Idle" => requests' = {}
    PROVE  /\ IdsInv' /\ PendingCurrent' /\ \A w : Profiles(w)' = Profiles(w)
<1>1. \A w : Profiles(w)' = Profiles(w)
  BY DEF Profiles
<1>2. IdsInv'
  <2>1. \A r \in requests' : r.id < nextId' /\ r.version <= co.version
    BY IdTypes DEF CInv, IdsInv
  <2>2. ASSUME NEW r \in requests', NEW q \in requests', r.version < q.version
        PROVE  r.id < q.id
    <3>1. r \in requests
      BY <2>2, IdTypes DEF CInv, IdsInv
    <3>2. CASE q \in requests
      BY <2>2, <3>1, <3>2 DEF CInv, IdsInv
    <3>3. CASE q \notin requests
      BY <3>1, <3>3, IdTypes DEF CInv, IdsInv
    <3> QED
      BY <3>2, <3>3
  <2> QED
    BY <2>1, <2>2 DEF IdsInv
<1>3. ASSUME NEW p \in pending'
      PROVE  /\ \A r \in requests' : r.id = p.id =>
                  /\ r.version = co.version
                  /\ r.kind = "Profile" <=> p.stage = "Profile"
                  /\ r.kind = "Profile" => r.w = p.w
             /\ p.stage = "Profile" =>
                  /\ \A q \in pending' : q.stage = "Profile" /\ q.w = p.w => q = p
                  /\ \A r \in Profiles(p.w) : r.id <= p.id
                  /\ "Profile" \notin co.acked[p.w]
  <2>1. CASE p \in pending
    <3>1. \A r \in requests' : r.id = p.id => r \in requests
      BY <2>1, IdTypes
    <3> QED
      BY <2>1, <3>1 DEF CInv, PendingCurrent
  <2>2. CASE p.stage # "Profile" /\ nextId <= p.id
    <3>1. \A r \in requests' : r.id = p.id => r \notin requests
      BY <2>2, IdTypes DEF CInv, IdsInv
    <3> QED
      BY <2>2, <3>1
  <2> QED
    BY <2>1, <2>2
<1>4. PendingCurrent'
  BY <1>1, <1>3 DEF PendingCurrent
<1> QED
  BY <1>1, <1>2, <1>4

(* A call of the coordinator that is quiet and adds at most starts and     *)
(* stops.                                                                  *)
LEMMA QuietStep ==
    ASSUME IInv, CInv, Quiet(co, co'), UNCHANGED <<wk, acks, spent>>,
           nextId' \in Int, nextId <= nextId', requests \subseteq requests',
           \A r \in requests' \ requests :
              /\ r.id \in Int /\ nextId <= r.id /\ r.id < nextId'
              /\ r.version = co.version /\ r.kind # "Profile",
           \A p \in pending' : p \in pending \/ (p.stage # "Profile" /\ nextId <= p.id),
           co'.phase = "Idle" => requests' = requests
    PROVE  CInv'
<1>1. co'.version = co.version /\ co'.acked = co.acked /\ co'.run = co.run
      /\ (co'.phase = "Idle" => requests' = {})
  BY DEF Quiet, CInv, IdsInv
<1>2. /\ IdsInv' /\ PendingCurrent' /\ \A w : Profiles(w)' = Profiles(w)
  BY <1>1, MoreRequests
<1>3. \A w : Adopted(w)' <=> Adopted(w)
  BY <1>1, <1>2 DEF Adopted
<1>4. Healthy(co)' \subseteq Healthy(co)
  BY DEF Quiet, Healthy
<1>5. AcksCurrent'
  <2>1. ASSUME NEW a \in acks, a.stage \in Stages PROVE \E r \in requests' : AckHolds(a, r)'
    <3>1. PICK r \in requests : AckHolds(a, r)
      BY <2>1 DEF CInv, AcksCurrent
    <3>2. AckHolds(a, r)'
      BY <1>1, <1>3, <1>4, <3>1 DEF AckHolds
    <3> QED
      BY <3>2
  <2> QED
    BY <1>1, <1>4, <2>1 DEF CInv, AcksCurrent
<1>6. ProfileInv'
  BY <1>2, IdTypes DEF CInv, ProfileInv
<1>7. ASSUME NEW w \in Healthy(co)' PROVE ConfiguredInv(w)'
  <2>1. w \in Healthy(co) /\ w \in Workers
    BY <1>4, <1>7 DEF Healthy
  <2>2. ConfiguredInv(w) /\ (co'.rec[w].phase = "Ready" => co.rec[w].phase = "Ready")
    BY <2>1 DEF CInv, Quiet
  <2> QED
    BY <1>1, <1>2, <1>3, <2>2 DEF ConfiguredInv
<1> QED
  BY <1>2, <1>5, <1>6, <1>7 DEF CInv

(* A start or a stop asks under fresh identities, for this configuration.  *)
LEMMA AskIds ==
    ASSUME IInv, NEW T \in SUBSET Workers, NEW kind \in {"Start", "Stop"}, NEW k, NEW mode,
           NEW stage \in {"Started", "Stopped"}, Ask(T, kind, k, mode)
    PROVE  /\ nextId' \in Int /\ nextId <= nextId' /\ requests \subseteq requests'
           /\ \A r \in requests' \ requests :
                 /\ r.id \in Int /\ nextId <= r.id /\ r.id < nextId'
                 /\ r.version = co.version /\ r.kind # "Profile"
           /\ \A p \in Asked(T, stage) : p.stage # "Profile" /\ nextId <= p.id
<1> DEFINE new(w) == [id |-> IdOf(T, w), w |-> w, kind |-> kind, run |-> k,
                      mode |-> mode, version |-> co.version]
           ask(w) == [id |-> IdOf(T, w), w |-> w, stage |-> stage, attempt |-> 1]
<1>1. /\ nextId \in Int /\ Cardinality(T) \in Nat
      /\ nextId' = nextId + Cardinality(T)
  BY IdTypes, FiniteWorkers DEF Ask
<1>2. ASSUME NEW w \in T
      PROVE  IdOf(T, w) \in Int /\ nextId <= IdOf(T, w) /\ IdOf(T, w) < nextId'
  BY <1>1, RankBelow DEF IdOf
<1>3. requests' = requests \cup {new(w) : w \in T} /\ Asked(T, stage) = {ask(w) : w \in T}
  BY DEF Ask, Asked
<1>4. ASSUME NEW w \in T
      PROVE  /\ new(w).id \in Int /\ nextId <= new(w).id /\ new(w).id < nextId'
             /\ new(w).version = co.version /\ new(w).kind # "Profile"
             /\ ask(w).stage # "Profile" /\ nextId <= ask(w).id
  BY <1>2
<1> HIDE DEF new, ask
<1> QED
  BY <1>1, <1>3, <1>4

LEMMA StopCurrent == ASSUME IInv, CInv, NEW mode \in StopModes, stop(mode) PROVE CInv'
<1>1. PICK T \in SUBSET Workers : /\ Ask(T, "Stop", co.run, mode)
                                  /\ pending' \subseteq pending \cup Asked(T, "Stopped")
  <2> DEFINE T == {w \in Workers : co.rec[w].phase \in
                    {"Running", "Stopping"} \cup (IF co.phase = "Starting" THEN {"Ready"} ELSE {})}
  <2>1. Ask(T, "Stop", co.run, mode) /\ pending' \subseteq pending \cup Asked(T, "Stopped")
    BY DEF stop
  <2>2. T \in SUBSET Workers
    OBVIOUS
  <2> HIDE DEF T
  <2> QED
    BY <2>1, <2>2
<1>2. Quiet(co, co') /\ UNCHANGED <<wk, acks, spent>>
  BY StopKeeps DEF stop
<1>3. co'.phase # "Idle"
  BY <1>2 DEF stop, Quiet
<1> QED
  BY <1>1, <1>2, <1>3, AskIds, QuietStep

LEMMA FailWorkerCurrent == ASSUME IInv, CInv, NEW w \in Workers, fail_worker(w) PROVE CInv'
<1> DEFINE c == [co EXCEPT !.rec[w].phase = "Failed"]
           T == {v \in Workers : c.rec[v].phase \in {"Ready", "Running", "Stopping"}}
<1>1. Quiet(co, co') /\ UNCHANGED <<wk, acks, spent>>
  BY FailWorkerKeeps DEF fail_worker
<1>2. T \in SUBSET Workers
  OBVIOUS
<1>3. \/ UNCHANGED <<nextId, requests>> /\ pending' \subseteq pending
      \/ /\ Ask(T, "Stop", co.run, "Immediate") /\ pending' = Asked(T, "Stopped")
         /\ co.phase \in {"Starting", "Running", "Stopping"}
  BY DEF fail_worker
<1> HIDE DEF T
<1>4. CASE UNCHANGED <<nextId, requests>> /\ pending' \subseteq pending
  BY <1>1, <1>4, IdTypes, QuietStep
<1>5. CASE /\ Ask(T, "Stop", co.run, "Immediate") /\ pending' = Asked(T, "Stopped")
           /\ co.phase \in {"Starting", "Running", "Stopping"}
  <2>1. co'.phase # "Idle"
    BY <1>1, <1>5 DEF Quiet
  <2> QED
    BY <1>1, <1>2, <1>5, <2>1, AskIds, QuietStep
<1> QED
  BY <1>3, <1>4, <1>5

LEMMA SamplesCurrent ==
    ASSUME IInv, CInv,
           \/ \E s \in samples : record_sample(s)
           \/ \E tick \in BOOLEAN : drain_delivered_samples(tick)
    PROVE  CInv'
<1>1. Quiet(co, co')
  BY RecordSampleKeeps, DrainKeeps
<1>2. UNCHANGED <<pending, nextId, wk, requests, spent, acks>>
  BY DEF record_sample, drain_delivered_samples
<1> QED
  BY <1>1, <1>2, IdTypes, QuietStep

LEMMA StartCurrent == ASSUME IInv, CInv, NEW mode \in Modes, start(mode) PROVE CInv'
<1> DEFINE T == {w \in Workers : co.rec[w].phase = "Ready"}
           d == [co EXCEPT !.phase = "Starting", !.run = co.runs + 1, !.runs = @ + 1,
                           !.mode = mode, !.cause = "none", !.accepted = {},
                           !.mark = [w \in Workers |-> NoMark]]
<1>1. /\ Ask(T, "Start", co.runs + 1, mode) /\ pending' = pending \cup Asked(T, "Started")
      /\ co' = d /\ UNCHANGED <<wk, spent, acks, emitted, samples, handed>>
      /\ co.phase = "Ready" /\ T \in SUBSET Workers
  BY DEF start
<1>2. co \in CoordinatorType /\ co.runs \in Nat
  BY StateTypes
<1>3. /\ co'.version = co.version /\ co'.acked = co.acked /\ co'.rec = co.rec
      /\ co'.run = co.runs + 1 /\ co'.phase = "Starting"
  BY <1>1, <1>2 DEF CoordinatorType
<1> HIDE DEF T, d
<1>4. /\ IdsInv' /\ PendingCurrent' /\ \A w : Profiles(w)' = Profiles(w)
      /\ nextId <= nextId' /\ nextId' \in Int /\ requests \subseteq requests'
  <2>1. \A p \in pending' : p \in pending \/ (p.stage # "Profile" /\ nextId <= p.id)
    BY <1>1, AskIds
  <2> QED
    BY <1>1, <1>3, <2>1, AskIds, MoreRequests
<1>5. /\ \A w : Adopted(w)' <=> Adopted(w)
      /\ Healthy(co)' = Healthy(co)
  BY <1>1, <1>3, <1>4 DEF Adopted, Healthy
<1>6. AcksCurrent'
  <2>1. ASSUME NEW a \in acks, a.stage \in Stages PROVE \E r \in requests' : AckHolds(a, r)'
    <3>1. PICK r \in requests : AckHolds(a, r)
      BY <2>1 DEF CInv, AcksCurrent
    <3>2. AckHolds(a, r)'
      BY <1>1, <1>3, <1>5, <3>1 DEF AckHolds
    <3> QED
      BY <1>4, <3>2
  <2>2. \A a \in acks : a.stage = "Stopped" => a.run # co.runs + 1
    <3> SUFFICES ASSUME NEW a \in acks, a.stage = "Stopped" PROVE a.run # co.runs + 1
      OBVIOUS
    <3>1. a.w \in Workers /\ a.run \in wk[a.w].used
      BY IdTypes DEF IInv, AcksInv, StoppedAck, Consumed
    <3>2. a.run \in 1 .. co.runs
      BY <3>1, WorkerFacts DEF WorkerInv
    <3> QED
      BY <1>2, <3>2
  <2> QED
    BY <1>1, <1>3, <2>1, <2>2 DEF AcksCurrent
<1>7. ProfileInv'
  BY <1>1, <1>4, IdTypes DEF CInv, ProfileInv
<1>8. ASSUME NEW w \in Healthy(co) PROVE ConfiguredInv(w)'
  <2>1. co.rec[w].phase = "Ready"
    BY <1>1 DEF IInv, CoInv, PhaseInv, AllHealthy
  <2>2. co'.run # 0
    BY <1>2, <1>3
  <2>3. ConfiguredInv(w)
    BY DEF CInv
  <2> QED
    BY <1>1, <1>3, <1>4, <1>5, <2>1, <2>2, <2>3 DEF ConfiguredInv
<1> QED
  BY <1>4, <1>5, <1>6, <1>7, <1>8 DEF CInv

LEMMA AckQuietCurrent ==
    ASSUME IInv, CInv, NEW a \in acks, apply_ack(a), Quiet(co, co') PROVE CInv'
<1>1. UNCHANGED <<nextId, wk, requests, spent, acks>> /\ pending' \subseteq pending
  BY DEF apply_ack
<1> QED
  BY <1>1, IdTypes, QuietStep

(* The stages are acknowledged in order, each by the worker that holds     *)
(* what the request carried.                                               *)
LEMMA ConfiguredCurrent ==
    ASSUME IInv, CInv, NEW a \in acks, apply_ack(a), a.stage \in Stages, AckConfigured(a)
    PROVE  CInv'
<1> DEFINE w == a.w
<1>1. /\ UNCHANGED <<nextId, wk, requests, spent, acks>> /\ pending' = pending \ Awaited(a)
      /\ co.phase = "Configuring" /\ Before[a.stage] \subseteq co.acked[w]
      /\ w \in Workers /\ w \in Healthy(co)
  BY IdTypes DEF apply_ack, AckConfigured, Healthy
<1>2. /\ co'.version = co.version /\ co'.run = co.run /\ co'.phase # "Idle"
      /\ co'.acked = [co.acked EXCEPT ![w] = co.acked[w] \cup {a.stage}]
      /\ \A v \in Workers :
            /\ co'.rec[v].phase # "Failed" => co.rec[v].phase # "Failed"
            /\ co'.rec[v].phase = "Ready" =>
                 co.rec[v].phase = "Ready" \/ co'.acked[v] = Stages
  BY ConfiguredKeeps
<1>3. co.acked \in [Workers -> SUBSET Stages] /\ co.run = 0
  BY <1>1, StateTypes DEF CoordinatorType, IInv, CoInv, PhaseInv, Active
<1>4. /\ co'.acked[w] = co.acked[w] \cup {a.stage}
      /\ \A v \in Workers : v # w => co'.acked[v] = co.acked[v]
  BY <1>1, <1>2, <1>3
<1>5. PICK p \in pending : p.id = a.id /\ p.w = w /\ p.stage = a.stage
  BY DEF apply_ack, Awaited
<1>6. PICK r \in requests : AckHolds(a, r)
  BY DEF CInv, AcksCurrent
<1>7. r.version = co.version
  BY <1>5, <1>6 DEF CInv, PendingCurrent, AckHolds
<1>8. /\ \A v : Profiles(v)' = Profiles(v)
      /\ \A v : Adopted(v)' <=> Adopted(v)
      /\ Healthy(co)' \subseteq Healthy(co)
  BY <1>1, <1>2 DEF Profiles, Adopted, Healthy
<1>9. IdsInv'
  BY <1>1, <1>2 DEF CInv, IdsInv
<1>10. PendingCurrent'
  <2> SUFFICES ASSUME NEW q \in pending', q.stage = "Profile"
               PROVE  "Profile" \notin co'.acked[q.w]
    BY <1>1, <1>2, <1>8 DEF CInv, PendingCurrent
  <2>1. q \in pending /\ q \notin Awaited(a) /\ q.w \in Workers
    BY <1>1, IdTypes
  <2>2. CASE q.w = w /\ a.stage = "Profile"
    BY <1>5, <2>1, <2>2 DEF CInv, PendingCurrent, Awaited
  <2>3. CASE ~(q.w = w /\ a.stage = "Profile")
    BY <1>4, <2>1, <2>3 DEF CInv, PendingCurrent
  <2> QED
    BY <2>2, <2>3
<1>11. AcksCurrent'
  <2>1. ASSUME NEW b \in acks, b.stage \in Stages PROVE \E q \in requests' : AckHolds(b, q)'
    <3>1. PICK q \in requests : AckHolds(b, q)
      BY <2>1 DEF CInv, AcksCurrent
    <3>2. AckHolds(b, q)'
      BY <1>1, <1>2, <1>8, <3>1 DEF AckHolds
    <3> QED
      BY <1>1, <3>2
  <2> QED
    BY <1>1, <1>2, <1>8, <2>1 DEF CInv, AcksCurrent
<1>12. ProfileInv'
  BY <1>1, <1>8 DEF CInv, ProfileInv
<1>13. ASSUME NEW v \in Healthy(co)' PROVE ConfiguredInv(v)'
  <2>1. v \in Healthy(co) /\ v \in Workers /\ ConfiguredInv(v)
    BY <1>8, <1>13 DEF Healthy, CInv
  <2>2. CASE v # w
    BY <1>1, <1>2, <1>3, <1>4, <1>8, <2>1, <2>2 DEF ConfiguredInv
  <2>3. CASE v = w
    <3>1. a.stage = "Profile" => Adopted(w) /\ \A q \in Profiles(w) : q.id <= wk[w].profileId
      <4> SUFFICES ASSUME a.stage = "Profile"
                   PROVE  Adopted(w) /\ \A q \in Profiles(w) : q.id <= wk[w].profileId
        OBVIOUS
      <4>1. r \in Profiles(w) /\ r.id = a.id /\ r.id <= wk[w].profileId
        BY <1>6 DEF AckHolds, Profiles
      <4>2. \A q \in Profiles(w) : q.id <= a.id
        BY <1>5 DEF CInv, PendingCurrent
      <4> QED
        BY <1>1, <1>7, <4>1, <4>2, IdTypes DEF Adopted, Profiles
    <3>2. /\ a.stage = "Plan" => wk[w].plan = co.version
          /\ a.stage = "Properties" => wk[w].properties = co.version
          /\ a.stage # "Profile" => "Profile" \in co.acked[w]
      BY <1>1, <1>6, <1>7 DEF AckHolds, Before, Stages
    <3>3. co'.rec[w].phase = "Ready" => co'.acked[w] = Stages
      BY <1>1, <1>2, <1>3, <1>4, <2>1, <2>3 DEF ConfiguredInv
    <3> QED
      BY <1>1, <1>2, <1>3, <1>4, <1>8, <2>1, <2>3, <3>1, <3>2, <3>3 DEF ConfiguredInv
  <2> QED
    BY <2>2, <2>3
<1> QED
  BY <1>9, <1>10, <1>11, <1>12, <1>13 DEF CInv

LEMMA ApplyAckCurrent == ASSUME IInv, CInv, NEW a \in acks, apply_ack(a) PROVE CInv'
<1>1. \/ a.stage \in Stages /\ AckConfigured(a)
      \/ a.stage = "Started" /\ AckStarted(a)
      \/ a.stage = "Stopped" /\ AckStopped(a)
  BY DEF apply_ack
<1> QED
  BY <1>1, ConfiguredCurrent, StartedKeeps, StoppedKeeps, AckQuietCurrent

(* A retry sends the same content again, as the last of its worker.        *)
LEMMA RetryCurrent == ASSUME IInv, CInv, NEW p \in pending, retry_request(p) PROVE CInv'
<1> DEFINE again(r) == [r EXCEPT !.id = nextId]
           old == {q \in requests : q.id = p.id}
           q0 == [p EXCEPT !.id = nextId, !.attempt = @ + 1]
<1>1. /\ nextId' = nextId + 1 /\ nextId' \in Int /\ nextId \in Int /\ nextId < nextId'
      /\ pending' = (pending \ {p}) \cup {q0}
      /\ requests' = requests \cup {again(r) : r \in old}
      /\ UNCHANGED <<co, wk, spent, acks>>
  BY IdTypes DEF retry_request
<1>2. q0.id = nextId /\ q0.w = p.w /\ q0.stage = p.stage
  BY StateTypes DEF PendingType
<1>3. ASSUME NEW r \in requests
      PROVE  /\ again(r).id = nextId /\ again(r).kind = r.kind /\ again(r).w = r.w
             /\ again(r).version = r.version
  BY StateTypes DEF RequestType
<1> HIDE DEF again, q0
<1>4. ASSUME NEW r \in requests', r \notin requests
      PROVE  /\ r.id = nextId /\ r.version = co.version
             /\ r.kind = "Profile" <=> p.stage = "Profile"
             /\ r.kind = "Profile" => r.w = p.w
  BY <1>1, <1>3, <1>4 DEF CInv, PendingCurrent
<1>5. requests \subseteq requests' /\ \A r \in requests : r.id < nextId
  BY <1>1 DEF CInv, IdsInv
<1>6. IdsInv'
  <2>1. \A r \in requests' : r.id < nextId' /\ r.version <= co.version
    BY <1>1, <1>4, IdTypes DEF CInv, IdsInv
  <2>2. ASSUME NEW r \in requests', NEW q \in requests', r.version < q.version
        PROVE  r.id < q.id
    <3>1. r \in requests
      BY <1>4, <2>1, <2>2, IdTypes
    <3>2. CASE q \in requests
      BY <2>2, <3>1, <3>2 DEF CInv, IdsInv
    <3>3. CASE q \notin requests
      BY <1>4, <1>5, <3>1, <3>3
    <3> QED
      BY <3>2, <3>3
  <2>3. co.phase = "Idle" => requests' = {}
    BY <1>1 DEF CInv, IdsInv
  <2> QED
    BY <1>1, <2>1, <2>2, <2>3 DEF IdsInv
<1>7. \A w : Profiles(w) \subseteq Profiles(w)' /\ \A r \in Profiles(w)' \ Profiles(w) :
          r.id = nextId /\ r.version = co.version /\ p.stage = "Profile" /\ w = p.w
  BY <1>4, <1>5 DEF Profiles
<1>8. ASSUME NEW w \in Workers PROVE Adopted(w)' <=> Adopted(w)
  BY <1>1, <1>7, IdTypes DEF Adopted, CInv, ProfileInv
<1>9. PendingCurrent'
  <2> SUFFICES ASSUME NEW q \in pending'
               PROVE  /\ \A r \in requests' : r.id = q.id =>
                           /\ r.version = co.version
                           /\ r.kind = "Profile" <=> q.stage = "Profile"
                           /\ r.kind = "Profile" => r.w = q.w
                      /\ q.stage = "Profile" =>
                           /\ \A b \in pending' : b.stage = "Profile" /\ b.w = q.w => b = q
                           /\ \A r \in Profiles(q.w)' : r.id <= q.id
                           /\ "Profile" \notin co.acked[q.w]
    BY <1>1 DEF PendingCurrent
  <2>1. CASE q = q0
    <3>1. \A r \in requests' : r.id = q.id => r \notin requests
      BY <1>1, <1>2, <1>5, <2>1, IdTypes
    <3>2. q.stage = "Profile" => \A b \in pending' : b.stage = "Profile" /\ b.w = q.w => b = q
      BY <1>1, <1>2, <2>1 DEF CInv, PendingCurrent
    <3>3. \A r \in Profiles(q.w)' : r.id <= q.id
      BY <1>1, <1>2, <1>4, <1>5, <2>1, IdTypes DEF Profiles
    <3>4. q.stage = "Profile" => "Profile" \notin co.acked[q.w]
      BY <1>2, <2>1 DEF CInv, PendingCurrent
    <3> QED
      BY <1>2, <1>4, <2>1, <3>1, <3>2, <3>3, <3>4
  <2>2. CASE q # q0
    <3>1. q \in pending /\ q # p /\ q.id < nextId /\ q.id \in Int
      BY <1>1, <2>2, IdTypes
    <3>2. \A r \in requests' : r.id = q.id => r \in requests
      BY <1>1, <1>4, <3>1
    <3>3. q.stage = "Profile" => ~(p.stage = "Profile" /\ p.w = q.w)
      BY <3>1 DEF CInv, PendingCurrent
    <3>4. q.stage = "Profile" => \A b \in pending' : b.stage = "Profile" /\ b.w = q.w => b = q
      BY <1>1, <1>2, <3>1, <3>3 DEF CInv, PendingCurrent
    <3>5. q.stage = "Profile" => \A r \in Profiles(q.w)' : r.id <= q.id
      BY <1>7, <3>1, <3>3 DEF CInv, PendingCurrent
    <3> QED
      BY <3>1, <3>2, <3>4, <3>5 DEF CInv, PendingCurrent
  <2> QED
    BY <2>1, <2>2
<1>10. AcksCurrent'
  <2>1. ASSUME NEW a \in acks, a.stage \in Stages PROVE \E r \in requests' : AckHolds(a, r)'
    <3>1. PICK r \in requests : AckHolds(a, r)
      BY <2>1 DEF CInv, AcksCurrent
    <3>2. AckHolds(a, r)'
      BY <1>1, <1>8, <3>1, IdTypes DEF AckHolds
    <3> QED
      BY <1>5, <3>2
  <2> QED
    BY <1>1, <2>1 DEF CInv, AcksCurrent
<1>11. ProfileInv'
  BY <1>1, <1>7, IdTypes DEF CInv, ProfileInv
<1>12. ASSUME NEW w \in Healthy(co) PROVE ConfiguredInv(w)'
  <2>1. w \in Workers /\ ConfiguredInv(w)
    BY IdTypes DEF CInv
  <2>2. \A r \in Profiles(w)' : r.version < co.version => r.id <= wk[w].profileId
    BY <1>7, <2>1, IdTypes DEF ConfiguredInv
  <2>3. "Profile" \in co.acked[w] => Profiles(w)' = Profiles(w)
    BY <1>7 DEF CInv, PendingCurrent
  <2> QED
    BY <1>1, <1>8, <2>1, <2>2, <2>3 DEF ConfiguredInv
<1> QED
  BY <1>1, <1>6, <1>9, <1>10, <1>11, <1>12 DEF CInv

(* Later targets have higher ranks.                                        *)
LEMMA RankIncreases ==
    ASSUME NEW T \in SUBSET Workers, NEW v \in T, NEW w \in T, v < w
    PROVE  Cardinality({u \in T : u < v}) < Cardinality({u \in T : u < w})
<1> DEFINE A == {u \in T : u < v}
           B == {u \in T : u < w}
<1>1. \A u \in T : u \in Int
  BY Constants DEF Workers
<1>2. B \in SUBSET Workers /\ v \in B
  OBVIOUS
<1>3. A = {u \in B : u < v}
  BY <1>1
<1> HIDE DEF A, B
<1>4. Cardinality({u \in B : u < v}) < Cardinality(B)
  BY <1>2, RankBelow
<1>5. Cardinality(A) < Cardinality(B)
  BY <1>3, <1>4
<1> QED
  BY <1>5 DEF A, B

(* A healthy worker has left the old configuration when a new one begins.  *)
LEMMA ReadyToConfigure ==
    ASSUME IInv, CInv, co.phase \in {"Idle", "Stopped"}, NEW w \in Healthy(co)
    PROVE  /\ \A r \in Profiles(w) : r.id <= wk[w].profileId
           /\ \/ wk[w].phase = "Stopped"
              \/ wk[w].phase = "Idle" /\ wk[w].profileId = 0
<1>1. w \in Workers /\ ConfiguredInv(w)
  BY IdTypes DEF CInv
<1>2. CASE co.phase = "Idle"
  <2>1. Profiles(w) = {}
    BY <1>2 DEF CInv, IdsInv, Profiles
  <2> QED
    BY <1>1, <2>1 DEF ConfiguredInv, Adopted
<1>3. CASE co.phase = "Stopped"
  <2>1. co.run # 0 /\ co.rec[w].phase = "Stopped"
    BY <1>3 DEF IInv, CoInv, PhaseInv, AllHealthy, Active
  <2>2. \A r \in Profiles(w) : r.id <= wk[w].profileId
    BY <1>1, <2>1 DEF ConfiguredInv, Stages
  <2>3. \E a \in acks : a.stage = "Stopped" /\ a.w = w /\ a.run = co.run
    BY <1>1, <2>1 DEF IInv, CoInv, MarkInv
  <2> QED
    BY <2>2, <2>3 DEF CInv, AcksCurrent
<1> QED
  BY <1>2, <1>3

LEMMA ConfigureCurrent == ASSUME IInv, CInv, configure PROVE CInv'
<1> DEFINE T == Healthy(co)
           rank(w) == Cardinality({v \in T : v < w})
           id(w, s) == nextId + 3 * rank(w) + Order[s]
           new(w, s) == [id |-> id(w, s), w |-> w, kind |-> s, run |-> 0,
                         mode |-> "none", version |-> co.version + 1]
           ask(w, s) == [id |-> id(w, s), w |-> w, stage |-> s, attempt |-> 1]
           rec == [w \in Workers |-> IF w \in T THEN [phase |-> "Idle", threads |-> 0]
                                     ELSE co.rec[w]]
           acked == [w \in Workers |-> IF w \in T THEN {} ELSE co.acked[w]]
           version == co.version + 1
           none == [w \in Workers |-> NoMark]
<1>1. /\ co \in CoordinatorType /\ nextId \in Int /\ co.version \in Int /\ version \in Int
      /\ T \in SUBSET Workers /\ Cardinality(T) \in Nat
      /\ nextId' = nextId + 3 * Cardinality(T) /\ nextId' \in Int /\ nextId <= nextId'
      /\ co.phase \in {"Idle", "Stopped"} /\ co.version < version
  BY StateTypes, IdTypes, FiniteWorkers DEF configure, Healthy
<1>2. /\ requests' = requests \cup {new(w, s) : w \in T, s \in Stages}
      /\ pending' = {ask(w, s) : w \in T, s \in Stages}
      /\ UNCHANGED <<wk, spent, acks, emitted, samples, handed>>
      /\ co' = [co EXCEPT !.phase = "Configuring", !.run = 0, !.version = version,
                   !.mode = "none", !.cause = "none", !.rec = rec, !.acked = acked,
                   !.mark = none, !.accepted = {}]
  BY DEF configure
<1>3. /\ \A w \in T : rec[w].phase = "Idle" /\ acked[w] = {}
      /\ \A w \in Workers : rec[w].phase # "Failed" => w \in T
  BY <1>1 DEF Healthy
<1> HIDE DEF rec, acked, version, none
<1>4. /\ co'.phase = "Configuring" /\ co'.run = 0 /\ co'.version = version
      /\ co'.rec = rec /\ co'.acked = acked
  BY <1>1, <1>2 DEF CoordinatorType
<1>5. ASSUME NEW w \in T, NEW s \in Stages
      PROVE  /\ Order[s] \in 0 .. 2 /\ rank(w) \in Nat
             /\ id(w, s) \in Int /\ nextId <= id(w, s) /\ id(w, s) < nextId'
  <2>1. Order[s] \in 0 .. 2
    BY DEF Order, Stages
  <2>2. rank(w) \in Nat /\ rank(w) < Cardinality(T)
    BY <1>1, RankBelow
  <2> HIDE DEF rank
  <2> QED
    BY <1>1, <2>1, <2>2
<1>6. ASSUME NEW w \in T, NEW s \in Stages, NEW v \in T, NEW t \in Stages, id(w, s) = id(v, t)
      PROVE  w = v /\ s = t
  <2>1. rank(w) \in Nat /\ rank(v) \in Nat /\ Order[s] \in 0 .. 2 /\ Order[t] \in 0 .. 2
    BY <1>5
  <2>2. v < w => rank(v) < rank(w)
    BY <1>1, RankIncreases
  <2>3. w < v => rank(w) < rank(v)
    BY <1>1, RankIncreases
  <2> HIDE DEF rank
  <2>4. rank(w) = rank(v) /\ Order[s] = Order[t]
    BY <1>1, <1>6, <2>1
  <2>5. w = v
    BY <1>1, <2>1, <2>2, <2>3, <2>4, Constants DEF Workers
  <2>6. s = t
    BY <2>4 DEF Order, Stages
  <2> QED
    BY <2>5, <2>6
<1> HIDE DEF id
<1>7. ASSUME NEW w \in T, NEW s \in Stages
      PROVE  /\ new(w, s).id = id(w, s) /\ new(w, s).w = w /\ new(w, s).kind = s
             /\ new(w, s).version = version
             /\ ask(w, s).id = id(w, s) /\ ask(w, s).w = w /\ ask(w, s).stage = s
  BY DEF version
<1> HIDE DEF new, ask, T
<1>8. ASSUME NEW r \in requests', r \notin requests
      PROVE  \E w \in T, s \in Stages : /\ r.id = id(w, s) /\ r.w = w /\ r.kind = s
                                        /\ r.version = version
  BY <1>2, <1>7, <1>8
<1>9. ASSUME NEW p \in pending'
      PROVE  \E w \in T, s \in Stages :
                p = ask(w, s) /\ p.id = id(w, s) /\ p.w = w /\ p.stage = s
  BY <1>2, <1>7
<1>10. /\ requests \subseteq requests'
       /\ \A r \in requests : r.id < nextId /\ r.version < version
       /\ \A r \in requests' \ requests :
            r.id \in Int /\ nextId <= r.id /\ r.id < nextId' /\ r.version = version
  <2>1. requests \subseteq requests'
    BY <1>2
  <2>2. \A r \in requests : r.id < nextId /\ r.version < version
    BY <1>1, IdTypes DEF CInv, IdsInv
  <2>3. ASSUME NEW r \in requests', r \notin requests
        PROVE  r.id \in Int /\ nextId <= r.id /\ r.id < nextId' /\ r.version = version
    <3>1. PICK w \in T, s \in Stages : r.id = id(w, s) /\ r.version = version
      BY <1>8, <2>3, Zenon
    <3>2. id(w, s) \in Int /\ nextId <= id(w, s) /\ id(w, s) < nextId'
      BY <1>5, Zenon
    <3> QED
      BY <3>1, <3>2
  <2> QED
    BY <2>1, <2>2, <2>3
<1>11. IdsInv'
  BY <1>1, <1>4, <1>10, IdTypes DEF CInv, IdsInv
<1>12. PendingCurrent'
  <2> SUFFICES ASSUME NEW p \in pending'
               PROVE  /\ \A r \in requests' : r.id = p.id =>
                           /\ r.version = version
                           /\ r.kind = "Profile" <=> p.stage = "Profile"
                           /\ r.kind = "Profile" => r.w = p.w
                      /\ p.stage = "Profile" =>
                           /\ \A q \in pending' : q.stage = "Profile" /\ q.w = p.w => q = p
                           /\ \A r \in Profiles(p.w)' : r.id <= p.id
                           /\ "Profile" \notin acked[p.w]
    BY <1>4 DEF PendingCurrent
  <2>1. PICK w \in T, s \in Stages : p = ask(w, s) /\ p.id = id(w, s) /\ p.w = w /\ p.stage = s
    BY <1>9
  <2>2. nextId <= p.id /\ p.id \in Int
    BY <1>5, <2>1
  <2>3. ASSUME NEW r \in requests', r.id = p.id
        PROVE  r.version = version /\ r.kind = s /\ r.w = w
    <3>1. r \notin requests
      BY <1>1, <1>10, <2>2, <2>3, IdTypes
    <3>2. PICK v \in T, t \in Stages : r.id = id(v, t) /\ r.w = v /\ r.kind = t
                                       /\ r.version = version
      BY <1>8, <3>1
    <3>3. id(w, s) = id(v, t)
      BY <2>1, <2>3, <3>2
    <3>4. v = w /\ t = s
      BY <1>6, <3>3, Zenon
    <3> QED
      BY <3>2, <3>4
  <2>4. ASSUME NEW q \in pending', q.stage = s, q.w = w PROVE q = p
    BY <1>9, <2>1, <2>4
  <2>5. ASSUME s = "Profile", NEW r \in Profiles(w)' PROVE r.id <= p.id
    <3>1. CASE r \in requests
      BY <1>1, <1>10, <2>2, <3>1, IdTypes
    <3>2. CASE r \notin requests
      <4>1. r \in requests' /\ r.kind = "Profile" /\ r.w = w
        BY <2>5 DEF Profiles
      <4>2. r.id = id(w, s)
        BY <1>8, <2>5, <3>2, <4>1
      <4> QED
        BY <2>1, <2>2, <4>2
    <3> QED
      BY <3>1, <3>2
  <2>6. "Profile" \notin acked[w]
    BY <1>3
  <2> QED
    BY <2>1, <2>3, <2>4, <2>5, <2>6
<1>13. ASSUME NEW w \in Workers PROVE ~Adopted(w)'
  <2>1. wk'[w].profileId = wk[w].profileId /\ wk[w].profileId < nextId /\ wk[w].profileId \in Int
    BY <1>2, IdTypes DEF CInv, ProfileInv
  <2>2. \A r \in requests' : r.version = version => ~(r.id <= wk[w].profileId)
    BY <1>1, <1>10, <2>1, IdTypes
  <2> QED
    BY <1>4, <2>1, <2>2 DEF Adopted, Profiles
<1>14. Healthy(co)' \subseteq T
  BY <1>3, <1>4 DEF Healthy
<1>15. AcksCurrent'
  <2>1. ASSUME NEW a \in acks, a.stage \in Stages PROVE \E r \in requests' : AckHolds(a, r)'
    <3>1. PICK r \in requests : AckHolds(a, r)
      BY <2>1 DEF CInv, AcksCurrent
    <3>2. r.version # version
      BY <1>1, <1>10, IdTypes
    <3>3. AckHolds(a, r)'
      BY <1>2, <1>4, <3>1, <3>2 DEF AckHolds
    <3> QED
      BY <1>10, <3>3
  <2>2. \A a \in acks : a.stage = "Stopped" => a.run # 0
    <3> SUFFICES ASSUME NEW a \in acks, a.stage = "Stopped" PROVE a.run # 0
      OBVIOUS
    <3>1. a.w \in Workers /\ a.run \in wk[a.w].used
      BY IdTypes DEF IInv, AcksInv, StoppedAck, Consumed
    <3>2. a.run \in 1 .. co.runs /\ co.runs \in Nat
      BY <3>1, WorkerFacts, StateTypes DEF WorkerInv
    <3> QED
      BY <3>2
  <2> QED
    BY <1>2, <1>4, <2>1, <2>2 DEF AcksCurrent
<1>16. ProfileInv'
  <2> SUFFICES ASSUME NEW w \in Workers
               PROVE  /\ wk[w].profileId < nextId'
                      /\ \A r \in Profiles(w)' : r.id = wk[w].profileId => r.id \in spent
    BY <1>2 DEF ProfileInv
  <2>1. wk[w].profileId < nextId /\ wk[w].profileId \in Int
    BY IdTypes DEF CInv, ProfileInv
  <2>2. \A r \in Profiles(w)' : r.id = wk[w].profileId => r \in Profiles(w)
    BY <1>1, <1>10, <2>1 DEF Profiles
  <2> QED
    BY <1>1, <2>1, <2>2 DEF CInv, ProfileInv
<1>17. ASSUME NEW w \in Healthy(co)' PROVE ConfiguredInv(w)'
  <2>1. w \in Healthy(co) /\ w \in T /\ w \in Workers
    BY <1>1, <1>14, <1>17 DEF T
  <2>2. /\ \A r \in Profiles(w) : r.id <= wk[w].profileId
        /\ \/ wk[w].phase = "Stopped"
           \/ wk[w].phase = "Idle" /\ wk[w].profileId = 0
    BY <1>1, <2>1, ReadyToConfigure
  <2>3. \A r \in Profiles(w)' : r.version < version => r \in Profiles(w)
    BY <1>1, <1>10 DEF Profiles
  <2> QED
    BY <1>2, <1>3, <1>4, <1>13, <2>1, <2>2, <2>3 DEF ConfiguredInv
<1> QED
  BY <1>11, <1>12, <1>15, <1>16, <1>17 DEF CInv

(* A step of one worker: what has to be shown of its new state t.          *)
LEMMA WorkerCurrent ==
    ASSUME IInv, CInv, NEW w \in Workers, NEW t, wk' = [wk EXCEPT ![w] = t],
           UNCHANGED <<co, pending, nextId, requests>>, spent \subseteq spent', acks \subseteq acks',
           t.profileId \in Int, wk[w].profileId <= t.profileId, t.profileId < nextId,
           \A r \in Profiles(w) : r.id = t.profileId => r.id \in spent',
           \A a \in acks' \ acks :
              /\ a.w = w
              /\ a.stage \in Stages => \E r \in requests : AckHolds(a, r)'
              /\ a.stage = "Stopped" => t.phase = "Stopped",
           w \in Healthy(co) =>
              /\ ConfiguredInv(w)'
              /\ Adopted(w) => /\ t.plan \in {wk[w].plan, co.version}
                               /\ t.properties \in {wk[w].properties, co.version}
              /\ \A a \in acks : a.stage = "Stopped" /\ a.run = co.run /\ a.w = w =>
                    t.phase = "Stopped"
    PROVE  CInv'
<1>1. /\ wk'[w] = t /\ \A v \in Workers : v # w => wk'[v] = wk[v]
      /\ \A v : Profiles(v)' = Profiles(v)
      /\ Healthy(co)' = Healthy(co) /\ Healthy(co) \subseteq Workers
  BY StateTypes DEF Profiles, Healthy
<1>2. \A v \in Workers : Adopted(v) => Adopted(v)'
  BY <1>1, IdTypes DEF Adopted, Profiles
<1>3. \A v \in Workers : v # w => (Adopted(v)' <=> Adopted(v))
  BY <1>1 DEF Adopted
<1>4. IdsInv' /\ PendingCurrent'
  BY <1>1 DEF CInv, IdsInv, PendingCurrent
<1>5. AcksCurrent'
  <2>1. ASSUME NEW a \in acks, a.stage \in Stages PROVE \E r \in requests : AckHolds(a, r)'
    <3>1. PICK r \in requests : AckHolds(a, r)
      BY <2>1 DEF CInv, AcksCurrent
    <3>2. a.w \in Workers /\ r.id \in Int /\ wk[a.w].profileId \in Int
      BY IdTypes
    <3>3. CASE a.w # w
      BY <1>1, <1>3, <3>1, <3>2, <3>3 DEF AckHolds
    <3>4. CASE a.w = w
      BY <1>1, <1>2, <3>1, <3>2, <3>4 DEF AckHolds
    <3> QED
      BY <3>3, <3>4
  <2>2. ASSUME NEW a \in acks', a.stage = "Stopped", a.run = co.run, a.w \in Healthy(co)
        PROVE  wk'[a.w].phase = "Stopped"
    BY <1>1, <2>2 DEF CInv, AcksCurrent
  <2> QED
    BY <1>1, <2>1, <2>2 DEF AcksCurrent
<1>6. ProfileInv'
  BY <1>1 DEF CInv, ProfileInv
<1>7. ASSUME NEW v \in Healthy(co) PROVE ConfiguredInv(v)'
  <2>1. CASE v = w
    BY <2>1
  <2>2. CASE v # w
    BY <1>1, <1>3, <2>2 DEF CInv, ConfiguredInv
  <2> QED
    BY <2>1, <2>2
<1> QED
  BY <1>1, <1>4, <1>5, <1>6, <1>7 DEF CInv

(* A step that keeps the profile, and takes no other plan or properties    *)
(* than the current ones.                                                  *)
LEMMA SameProfile ==
    ASSUME IInv, CInv, NEW w \in Workers, NEW t, wk' = [wk EXCEPT ![w] = t],
           UNCHANGED <<co, pending, nextId, requests>>, spent \subseteq spent', acks \subseteq acks',
           t.profileId = wk[w].profileId,
           \A a \in acks' \ acks :
              /\ a.w = w
              /\ a.stage \in Stages => \E r \in requests : AckHolds(a, r)'
              /\ a.stage = "Stopped" => t.phase = "Stopped",
           w \in Healthy(co) =>
              /\ t.plan \in {wk[w].plan, co.version}
              /\ t.properties \in {wk[w].properties, co.version}
              /\ wk[w].phase = "Stopped" => t.phase = "Stopped"
              /\ ~Adopted(w) => t.phase = wk[w].phase
              /\ Adopted(w) /\ co.run = 0 => t.phase \in {"Idle", "Ready"}
    PROVE  CInv'
<1>1. /\ wk'[w] = t /\ \A v : Profiles(v)' = Profiles(v)
      /\ wk[w].profileId \in Int /\ wk[w].profileId < nextId
      /\ \A r \in Profiles(w) : r.id = wk[w].profileId => r.id \in spent'
  BY StateTypes, IdTypes DEF Profiles, CInv, ProfileInv
<1>2. Adopted(w)' <=> Adopted(w)
  BY <1>1 DEF Adopted
<1>3. ASSUME w \in Healthy(co) PROVE ConfiguredInv(w)'
  BY <1>1, <1>2, <1>3 DEF CInv, ConfiguredInv
<1>4. w \in Healthy(co) => \A a \in acks : a.stage = "Stopped" /\ a.run = co.run /\ a.w = w =>
          t.phase = "Stopped"
  BY DEF CInv, AcksCurrent
<1>5. /\ t.profileId \in Int /\ wk[w].profileId <= t.profileId /\ t.profileId < nextId
      /\ \A r \in Profiles(w) : r.id = t.profileId => r.id \in spent'
  BY <1>1
<1>6. w \in Healthy(co) =>
         /\ ConfiguredInv(w)'
         /\ Adopted(w) => /\ t.plan \in {wk[w].plan, co.version}
                          /\ t.properties \in {wk[w].properties, co.version}
         /\ \A a \in acks : a.stage = "Stopped" /\ a.run = co.run /\ a.w = w =>
               t.phase = "Stopped"
  BY <1>3, <1>4
<1> QED
  BY <1>5, <1>6, WorkerCurrent, Zenon

LEMMA NewAck ==
    ASSUME NEW r, NEW stage, NEW k, NEW threads, NEW mark, Ack(r, stage, k, threads, mark)
    PROVE  /\ acks \subseteq acks'
           /\ \A a \in acks' \ acks : a.id = r.id /\ a.w = r.w /\ a.stage = stage
BY DEF Ack

(* Outside a run, a healthy worker has consumed every run there was.       *)
LEMMA AllRunsSeen ==
    ASSUME IInv, NEW w \in Healthy(co), co.run = 0 PROVE 1 .. co.runs \subseteq wk[w].used
BY DEF IInv, CoInv, PastInv, Past, Consumed

(* Emitting and releasing samples does not touch the configuration.        *)
LEMMA EmitCurrent ==
    ASSUME IInv, CInv, NEW w \in Workers, emit_sample(w) \/ advance_time(w) PROVE CInv'
<1>1. UNCHANGED <<co, pending, nextId, requests, spent, acks>>
  BY DEF emit_sample, advance_time
<1>2. PICK t : /\ wk' = [wk EXCEPT ![w] = t] /\ t.profileId = wk[w].profileId
               /\ t.plan = wk[w].plan /\ t.properties = wk[w].properties
               /\ t.phase = wk[w].phase
  <2> DEFINE s == wk[w]
             x == [run |-> s.run, w |-> w, seq |-> s.next]
             held == QueueAfter(s.mode, s.held, x)
             mark == IF held = {} THEN s.next + 1 ELSE s.mark
             next == s.next + 1
             t1 == [s EXCEPT !.next = next, !.held = held, !.mark = mark]
             t2 == [s EXCEPT !.held = {}, !.mark = s.next]
  <2>1. s \in WorkerType
    BY WorkerFacts
  <2>2. CASE emit_sample(w)
    <3>1. wk' = [wk EXCEPT ![w] = t1]
      BY <2>1, <2>2 DEF emit_sample, Become, WorkerType
    <3> HIDE DEF held, mark, next
    <3>2. /\ t1.profileId = s.profileId /\ t1.plan = s.plan /\ t1.properties = s.properties
          /\ t1.phase = s.phase
      BY <2>1 DEF WorkerType
    <3> QED
      BY <3>1, <3>2
  <2>3. CASE advance_time(w)
    <3>1. wk' = [wk EXCEPT ![w] = t2]
      BY <2>3 DEF advance_time, Become
    <3>2. /\ t2.profileId = s.profileId /\ t2.plan = s.plan /\ t2.properties = s.properties
          /\ t2.phase = s.phase
      BY <2>1 DEF WorkerType
    <3> QED
      BY <3>1, <3>2
  <2> QED
    BY <2>2, <2>3
<1>3. w \in Healthy(co) => (Adopted(w) /\ co.run = 0 => wk[w].phase \in {"Idle", "Ready"})
  BY DEF CInv, ConfiguredInv
<1>4. w \in Healthy(co) =>
        /\ t.plan \in {wk[w].plan, co.version}
        /\ t.properties \in {wk[w].properties, co.version}
        /\ wk[w].phase = "Stopped" => t.phase = "Stopped"
        /\ ~Adopted(w) => t.phase = wk[w].phase
        /\ Adopted(w) /\ co.run = 0 => t.phase \in {"Idle", "Ready"}
  BY <1>2, <1>3
<1> QED
  BY <1>1, <1>2, <1>4, SameProfile

(* Starts and stops do not touch the configuration either, and no run      *)
(* begins or ends while the coordinator configures.                        *)
LEMMA RunCurrent ==
    ASSUME IInv, CInv, NEW r \in requests, UNCHANGED <<co, pending, nextId, requests>>,
           spent \subseteq spent', r.kind \in {"Start", "Stop"},
           StartWorker(r) \/ StopBeforeStart(r) \/ StopRunning(r) \/ StopAgain(r)
    PROVE  CInv'
<1> DEFINE w == r.w
           s == wk[w]
<1>1. w \in Workers /\ s \in WorkerType /\ r.run \in 1 .. co.runs
  BY RequestFacts, WorkerFacts
<1>2. PICK stage, k, threads, mark :
        stage \in {"Started", "Stopped"} /\ Ack(r, stage, k, threads, mark)
  BY DEF StartWorker, StopBeforeStart, StopRunning, StopAgain
<1>3. PICK t : /\ wk' = [wk EXCEPT ![w] = t] /\ t.profileId = s.profileId
               /\ t.plan = s.plan /\ t.properties = s.properties
               /\ \/ t.phase = s.phase
                  \/ s.phase = "Running" /\ t.phase = "Stopped"
                  \/ s.phase = "Ready" /\ r.run \notin s.used
               /\ s.phase = "Stopped" => t.phase = "Stopped"
               /\ StartWorker(r) \/ t.phase = "Stopped"
  <2> DEFINE used == RememberedRuns(s, r.run)
             order == RememberedOrder(s, r.run)
             mark1 == IF r.mode = "Graceful" THEN s.next ELSE s.mark
             t1 == [s EXCEPT !.phase = "Running", !.run = r.run, !.used = used, !.order = order,
                      !.mode = r.mode, !.threads = 1, !.next = 0, !.held = {}, !.mark = 0]
             t2 == [s EXCEPT !.phase = "Stopped", !.run = r.run, !.used = used, !.order = order,
                      !.threads = 0, !.mode = "none"]
             t3 == [s EXCEPT !.phase = "Stopped", !.held = {}, !.mark = mark1]
             Same(t) == t.profileId = s.profileId /\ t.plan = s.plan /\ t.properties = s.properties
  <2>1. wk = [wk EXCEPT ![w] = s]
    BY <1>1, SameWorker
  <2>2. \/ UNCHANGED wk /\ (StartWorker(r) \/ s.phase = "Stopped")
        \/ StartWorker(r) /\ wk' = [wk EXCEPT ![w] = t1] /\ s.phase = "Ready" /\ r.run \notin s.used
        \/ wk' = [wk EXCEPT ![w] = t2] /\ s.phase = "Ready" /\ r.run \notin s.used
        \/ wk' = [wk EXCEPT ![w] = t3] /\ s.phase = "Running"
    <3>1. Started(s, r) = t1
      BY <1>1 DEF Started, WorkerType
    <3> QED
      BY <3>1 DEF StartWorker, StopBeforeStart, StopRunning, StopAgain, Become
  <2> HIDE DEF used, order, mark1
  <2>3. Same(t1) /\ Same(t2) /\ Same(t3) /\ t2.phase = "Stopped" /\ t3.phase = "Stopped"
    BY <1>1 DEF WorkerType
  <2> HIDE DEF t1, t2, t3
  <2> QED
    BY <2>1, <2>2, <2>3
<1>4. /\ acks \subseteq acks'
      /\ \A a \in acks' \ acks :
            /\ a.w = w
            /\ a.stage \in Stages => \E q \in requests : AckHolds(a, q)'
            /\ a.stage = "Stopped" => t.phase = "Stopped"
  <2>1. StartWorker(r) => \A a \in acks' \ acks : a.stage = "Started"
    BY NewAck DEF StartWorker
  <2> QED
    BY <1>2, <1>3, <2>1, NewAck DEF Stages
<1>5. w \in Healthy(co) =>
        /\ t.plan \in {s.plan, co.version} /\ t.properties \in {s.properties, co.version}
        /\ s.phase = "Stopped" => t.phase = "Stopped"
        /\ ~Adopted(w) => t.phase = s.phase
        /\ Adopted(w) /\ co.run = 0 => t.phase \in {"Idle", "Ready"}
  <2> SUFFICES ASSUME w \in Healthy(co)
               PROVE  /\ ~Adopted(w) => t.phase = s.phase
                      /\ Adopted(w) /\ co.run = 0 => t.phase \in {"Idle", "Ready"}
    BY <1>3
  <2>1. /\ ~Adopted(w) => s.phase \in {"Stopped", "Idle"}
        /\ Adopted(w) /\ co.run = 0 => s.phase \in {"Idle", "Ready"}
        /\ co.run = 0 => r.run \in s.used
    BY <1>1, AllRunsSeen DEF CInv, ConfiguredInv
  <2> QED
    BY <1>3, <2>1
<1> QED
  BY <1>1, <1>3, <1>4, <1>5, SameProfile

(* A plan or properties that are not of a retired profile, to a worker     *)
(* that takes them, are of this configuration.                             *)
LEMMA FreshIsCurrent ==
    ASSUME IInv, CInv, NEW r \in requests, r.w \in Healthy(co), Fresh(r),
           wk[r.w].phase \in {"Idle", "Ready"}
    PROVE  Adopted(r.w) /\ r.version = co.version
<1>1. Adopted(r.w)
  BY DEF CInv, ConfiguredInv, Fresh
<1>2. PICK q \in requests : q.version = co.version /\ q.id <= wk[r.w].profileId
  BY <1>1 DEF Adopted, Profiles
<1>3. /\ r.id \in Int /\ q.id \in Int /\ wk[r.w].profileId \in Int /\ r.version \in Int
      /\ co.version \in Int /\ r.version <= co.version /\ q.id <= r.id
  BY <1>2, IdTypes DEF CInv, IdsInv, Fresh
<1>4. r.version < q.version => r.id < q.id
  BY DEF CInv, IdsInv
<1> QED
  BY <1>1, <1>2, <1>3, <1>4

LEMMA PlanCurrent ==
    ASSUME IInv, CInv, NEW r \in requests, UNCHANGED <<co, pending, nextId, requests>>,
           spent \subseteq spent',
           \/ r.kind = "Plan" /\ accept_plan(r)
           \/ r.kind = "Properties" /\ accept_properties(r)
    PROVE  CInv'
<1> DEFINE w == r.w
           s == wk[w]
<1>1. /\ w \in Workers /\ s \in WorkerType /\ Fresh(r) /\ s.phase \in {"Idle", "Ready"}
      /\ Ack(r, r.kind, 0, 0, NoMark)
  BY RequestFacts, WorkerFacts DEF accept_plan, accept_properties
<1>2. PICK t : /\ wk' = [wk EXCEPT ![w] = t] /\ t.profileId = s.profileId
               /\ t.phase \in {"Idle", "Ready"}
               /\ t.plan \in {s.plan, r.version} /\ t.properties \in {s.properties, r.version}
               /\ r.kind = "Plan" => t.plan = r.version
               /\ r.kind = "Properties" => t.properties = r.version
  <2> DEFINE Good(t) ==
               /\ t.profileId = s.profileId /\ t.phase \in {"Idle", "Ready"}
               /\ t.plan \in {s.plan, r.version} /\ t.properties \in {s.properties, r.version}
               /\ r.kind = "Plan" => t.plan = r.version
               /\ r.kind = "Properties" => t.properties = r.version
             b1 == [s EXCEPT !.plan = r.version]
             b2 == [s EXCEPT !.properties = r.version]
  <2>1. /\ b1.profileId = s.profileId /\ b1.phase = s.phase /\ b1.plan = r.version
        /\ b1.properties = s.properties
        /\ b2.profileId = s.profileId /\ b2.phase = s.phase /\ b2.plan = s.plan
        /\ b2.properties = r.version /\ b1 \in WorkerType /\ b2 \in WorkerType
    BY <1>1, RequestFacts DEF WorkerType
  <2> HIDE DEF b1, b2
  <2>2. ASSUME NEW b \in WorkerType
        PROVE  /\ Readied(b).profileId = b.profileId /\ Readied(b).plan = b.plan
               /\ Readied(b).properties = b.properties
               /\ Readied(b).phase \in {b.phase, "Ready"}
    BY DEF Readied, WorkerType
  <2>3. wk = [wk EXCEPT ![w] = s]
    BY <1>1, SameWorker
  <2>4. \/ r.kind = "Plan" /\ s.plan = r.version /\ UNCHANGED wk
        \/ r.kind = "Properties" /\ s.properties = r.version /\ UNCHANGED wk
        \/ r.kind = "Plan" /\ wk' = [wk EXCEPT ![w] = Readied(b1)]
        \/ r.kind = "Properties" /\ wk' = [wk EXCEPT ![w] = Readied(b2)]
    BY DEF accept_plan, accept_properties, Become, b1, b2
  <2>5. \/ r.kind = "Plan" /\ s.plan = r.version
        \/ r.kind = "Properties" /\ s.properties = r.version
        => Good(s)
    BY <1>1
  <2>6. r.kind = "Plan" => Good(Readied(b1))
    BY <1>1, <2>1, <2>2
  <2>7. r.kind = "Properties" => Good(Readied(b2))
    BY <1>1, <2>1, <2>2
  <2>8. \E t : wk' = [wk EXCEPT ![w] = t] /\ Good(t)
    <3> HIDE DEF Good, s
    <3> QED
      BY <2>3, <2>4, <2>5, <2>6, <2>7, Zenon
  <2> QED
    BY <2>8, Zenon
<1>3. w \in Healthy(co) => Adopted(w) /\ r.version = co.version
  BY <1>1, FreshIsCurrent
<1>4. wk'[w] = t /\ (Adopted(w)' <=> Adopted(w)) /\ Healthy(co)' = Healthy(co)
  BY <1>1, <1>2, StateTypes DEF Adopted, Profiles, Healthy
<1>5. ASSUME NEW a \in acks' \ acks
      PROVE  /\ a.w = w /\ a.stage # "Stopped"
             /\ \E q \in requests : AckHolds(a, q)'
  <2>1. a.id = r.id /\ a.w = w /\ a.stage = r.kind /\ r.kind \in {"Plan", "Properties"}
    BY <1>1, NewAck
  <2>2. AckHolds(a, r)'
    BY <1>2, <1>3, <1>4, <2>1 DEF AckHolds
  <2> QED
    BY <2>1, <2>2
<1>6. /\ acks \subseteq acks'
      /\ \A a \in acks' \ acks :
            /\ a.w = w
            /\ a.stage \in Stages => \E q \in requests : AckHolds(a, q)'
            /\ a.stage = "Stopped" => t.phase = "Stopped"
  BY <1>1, <1>5, NewAck
<1>7. w \in Healthy(co) =>
        /\ t.plan \in {s.plan, co.version} /\ t.properties \in {s.properties, co.version}
        /\ s.phase = "Stopped" => t.phase = "Stopped"
        /\ ~Adopted(w) => t.phase = s.phase
        /\ Adopted(w) /\ co.run = 0 => t.phase \in {"Idle", "Ready"}
  BY <1>1, <1>2, <1>3
<1> QED
  BY <1>1, <1>2, <1>6, <1>7, SameProfile

(* A profile renews the identity of the configuration the worker has, or   *)
(* begins the one the coordinator is at; it never resets what was          *)
(* acknowledged.                                                           *)
LEMMA ProfileCurrent ==
    ASSUME IInv, CInv, NEW r \in requests, UNCHANGED <<co, pending, nextId, requests>>,
           r.id \notin spent, spent' = spent \cup {r.id}, r.kind = "Profile", accept_profile(r)
    PROVE  CInv'
<1> DEFINE w == r.w
           s == wk[w]
           t1 == [s EXCEPT !.profileId = r.id]
           t2 == [s EXCEPT !.phase = "Idle", !.profileId = r.id, !.plan = 0,
                    !.properties = 0, !.run = 0, !.mode = "none", !.threads = 0,
                    !.next = 0, !.held = {}, !.mark = 0]
<1>1. /\ w \in Workers /\ s \in WorkerType /\ r.id \in Int /\ r.id < nextId
      /\ Ack(r, "Profile", 0, 0, NoMark) /\ r \in Profiles(w)
      /\ s.profileId \in Int /\ r.id >= s.profileId /\ r.id >= 1
  BY IdTypes, WorkerFacts DEF accept_profile, Profiles, CInv, IdsInv
<1>2. r.id # s.profileId
  BY <1>1 DEF CInv, ProfileInv
<1>3. s.profileId < r.id
  BY <1>1, <1>2
<1>4. PICK t : /\ wk' = [wk EXCEPT ![w] = t] /\ t.profileId = r.id
               /\ \/ /\ s.phase \in {"Idle", "Ready"} /\ s.profileId # 0 /\ t.phase = s.phase
                     /\ t.plan = s.plan /\ t.properties = s.properties
                  \/ /\ s.phase = "Stopped" \/ (s.phase = "Idle" /\ s.profileId = 0)
                     /\ t.phase = "Idle"
  <2>1. /\ t1.profileId = r.id /\ t1.phase = s.phase /\ t1.plan = s.plan
        /\ t1.properties = s.properties /\ t2.profileId = r.id /\ t2.phase = "Idle"
    BY <1>1 DEF WorkerType
  <2>2. \/ s.phase \in {"Idle", "Ready"} /\ s.profileId # 0 /\ wk' = [wk EXCEPT ![w] = t1]
        \/ /\ s.phase = "Stopped" \/ (s.phase = "Idle" /\ s.profileId = 0)
           /\ wk' = [wk EXCEPT ![w] = t2]
    BY DEF accept_profile, Become
  <2> HIDE DEF t1, t2
  <2> QED
    BY <2>1, <2>2
<1>5. /\ wk'[w] = t /\ Healthy(co)' = Healthy(co) /\ \A v : Profiles(v)' = Profiles(v)
  BY <1>1, <1>4, StateTypes DEF Profiles, Healthy
<1>6. ASSUME w \in Healthy(co)
      PROVE  /\ "Profile" \notin co.acked[w] /\ co.run = 0
             /\ Adopted(w) => s.phase \in {"Idle", "Ready"} /\ s.profileId # 0
             /\ ~Adopted(w) => r.version = co.version
             /\ ConfiguredInv(w)
  <2>1. ConfiguredInv(w)
    BY <1>6 DEF CInv
  <2>2. ~(\A q \in Profiles(w) : q.id <= s.profileId)
    BY <1>1, <1>3
  <2>3. "Profile" \notin co.acked[w]
    BY <2>1, <2>2 DEF ConfiguredInv
  <2>4. co.run = 0
    BY <2>1, <2>3 DEF ConfiguredInv, Stages
  <2>5. ASSUME Adopted(w) PROVE s.phase \in {"Idle", "Ready"} /\ s.profileId # 0
    BY <1>1, <2>1, <2>4, <2>5, IdTypes DEF ConfiguredInv, Adopted, Profiles
  <2>6. ~(r.version < co.version)
    BY <1>1, <1>3, <2>1 DEF ConfiguredInv
  <2>7. r.version = co.version
    BY <2>6, IdTypes DEF CInv, IdsInv
  <2> QED
    BY <2>1, <2>3, <2>4, <2>5, <2>7
<1>7. ASSUME w \in Healthy(co) PROVE Adopted(w)' /\ t.phase \in {"Idle", "Ready"}
  <2>1. Adopted(w)'
    <3>1. CASE Adopted(w)
      BY <1>1, <1>3, <1>4, <1>5, <3>1, IdTypes DEF Adopted, Profiles
    <3>2. CASE ~Adopted(w)
      BY <1>1, <1>4, <1>5, <1>6, <1>7, <3>2 DEF Adopted
    <3> QED
      BY <3>1, <3>2
  <2> QED
    BY <1>4, <2>1
<1>8. ASSUME w \in Healthy(co) PROVE ConfiguredInv(w)'
  <2>1. \A q \in Profiles(w) : q.version < co.version => q.id <= t.profileId
    BY <1>1, <1>3, <1>4, <1>6, <1>8, IdTypes DEF ConfiguredInv, Profiles
  <2>2. "Plan" \notin co.acked[w] /\ "Properties" \notin co.acked[w]
    BY <1>6, <1>8 DEF ConfiguredInv
  <2> QED
    BY <1>5, <1>6, <1>7, <1>8, <2>1, <2>2 DEF ConfiguredInv
<1>9. ASSUME w \in Healthy(co), NEW a \in acks, a.stage = "Stopped", a.run = co.run, a.w = w
      PROVE  t.phase = "Stopped"
  <2>1. a.run \in wk[w].used
    BY <1>9 DEF IInv, AcksInv, StoppedAck, Consumed
  <2>2. a.run \in 1 .. co.runs /\ co.runs \in Nat
    BY <1>1, <2>1, WorkerFacts, StateTypes DEF WorkerInv
  <2> QED
    BY <1>6, <1>9, <2>2
<1>10. w \in Healthy(co) =>
        /\ ConfiguredInv(w)'
        /\ Adopted(w) => /\ t.plan \in {wk[w].plan, co.version}
                         /\ t.properties \in {wk[w].properties, co.version}
        /\ \A a \in acks : a.stage = "Stopped" /\ a.run = co.run /\ a.w = w =>
              t.phase = "Stopped"
  BY <1>4, <1>6, <1>8, <1>9
<1>11. /\ acks \subseteq acks'
       /\ \A a \in acks' \ acks :
             /\ a.w = w
             /\ a.stage \in Stages => \E q \in requests : AckHolds(a, q)'
             /\ a.stage = "Stopped" => t.phase = "Stopped"
  <2>1. ASSUME NEW a \in acks' \ acks PROVE a.w = w /\ a.stage = "Profile" /\ AckHolds(a, r)'
    <3>1. a.id = r.id /\ a.w = w /\ a.stage = "Profile"
      BY <1>1, NewAck
    <3>2. r.id <= wk'[w].profileId
      BY <1>1, <1>4, <1>5
    <3> QED
      BY <3>1, <3>2 DEF AckHolds
  <2> QED
    BY <1>1, <2>1, NewAck
<1>12. /\ t.profileId \in Int /\ wk[w].profileId <= t.profileId /\ t.profileId < nextId
       /\ spent \subseteq spent'
       /\ \A q \in Profiles(w) : q.id = t.profileId => q.id \in spent'
  BY <1>1, <1>3, <1>4
<1> QED
  BY <1>1, <1>4, <1>10, <1>11, <1>12, WorkerCurrent, Zenon

LEMMA DeliverCurrent ==
    ASSUME IInv, CInv, ~Duplicates, NEW r \in requests, Deliver(r) PROVE CInv'
<1>1. /\ UNCHANGED <<co, pending, nextId, requests>> /\ r.id \notin spent
      /\ spent' = spent \cup {r.id} /\ spent \subseteq spent'
  BY DEF Deliver
<1>2. \/ r.kind = "Profile" /\ accept_profile(r)
      \/ r.kind = "Plan" /\ accept_plan(r)
      \/ r.kind = "Properties" /\ accept_properties(r)
      \/ /\ r.kind \in {"Start", "Stop"}
         /\ StartWorker(r) \/ StopBeforeStart(r) \/ StopRunning(r) \/ StopAgain(r)
  BY DEF Deliver
<1> QED
  BY <1>1, <1>2, ProfileCurrent, PlanCurrent, RunCurrent

LEMMA InitCurrent == Init => CInv
<1> SUFFICES ASSUME Init PROVE CInv
  OBVIOUS
<1>1. /\ requests = {} /\ pending = {} /\ acks = {} /\ nextId = 1
      /\ \A w \in Workers : wk[w].phase = "Idle" /\ wk[w].profileId = 0
      /\ co.run = 0 /\ \A w \in Workers : co.acked[w] = {} /\ co.rec[w].phase = "Idle"
  BY DEF Init
<1>2. \A w : Profiles(w) = {} /\ ~Adopted(w)
  BY <1>1 DEF Profiles, Adopted
<1>3. IdsInv /\ PendingCurrent /\ AcksCurrent
  BY <1>1 DEF IdsInv, PendingCurrent, AcksCurrent
<1>4. ProfileInv
  BY <1>1, <1>2 DEF ProfileInv
<1>5. \A w \in Workers : ConfiguredInv(w)
  BY <1>1, <1>2 DEF ConfiguredInv
<1> QED
  BY <1>3, <1>4, <1>5 DEF CInv, Healthy

LEMMA NextCurrent == ASSUME IInv, CInv, ~Duplicates, [Next]_vars PROVE CInv'
<1>1. CASE configure \/ \E mode \in Modes : start(mode)
  BY <1>1, ConfigureCurrent, StartCurrent
<1>2. CASE \E mode \in {"Graceful", "Immediate"} : stop(mode)
  BY <1>2, StopCurrent DEF StopModes
<1>3. CASE \E p \in pending : retry_request(p)
  BY <1>3, RetryCurrent
<1>4. CASE \/ \E tick \in BOOLEAN : drain_delivered_samples(tick)
           \/ \E s \in samples : record_sample(s)
  BY <1>4, SamplesCurrent
<1>5. CASE \E w \in Workers : fail_worker(w) \/ emit_sample(w) \/ advance_time(w)
  BY <1>5, FailWorkerCurrent, EmitCurrent
<1>6. CASE \E id \in 1 .. MaxIds : DeliverRequest(id) \/ DeliverAck(id)
  BY <1>6, DeliverCurrent, ApplyAckCurrent DEF DeliverRequest, DeliverAck
<1>7. CASE UNCHANGED vars
  <2>1. UNCHANGED <<co, pending, nextId, wk, requests, spent, acks>>
    BY <1>7 DEF vars
  <2> QED
    BY <2>1, IdTypes, QuietStep DEF Quiet
<1> QED
  BY <1>1, <1>2, <1>3, <1>4, <1>5, <1>6, <1>7 DEF Next

(* If the transport delivers no request twice, a healthy worker that the   *)
(* coordinator counts as configured holds the current plan and properties  *)
(* and no older ones, whatever was delayed, reordered, lost or retried.    *)
(* Without that hypothesis it fails: see the run remote_stale_plan.  As    *)
(* above, for as many runs as a worker remembers.                          *)
THEOREM ConfigurationIsCurrent ==
    NothingForgotten /\ ~Duplicates => (Spec => []ConfiguredIsCurrent)
<1> SUFFICES ASSUME NothingForgotten, ~Duplicates PROVE Spec => []ConfiguredIsCurrent
  OBVIOUS
<1>1. ASSUME IInv, CInv PROVE ConfiguredIsCurrent
  <2> SUFFICES ASSUME NEW w \in Workers, co.phase \in {"Ready", "Starting", "Running"},
                      co.rec[w].phase # "Failed"
               PROVE  wk[w].plan = co.version /\ wk[w].properties = co.version
    BY DEF ConfiguredIsCurrent
  <2>1. w \in Healthy(co) /\ ConfiguredInv(w)
    BY <1>1 DEF Healthy, CInv
  <2>2. co.run # 0 \/ co.rec[w].phase = "Ready"
    BY <1>1, <2>1 DEF IInv, CoInv, PhaseInv, Active, AllHealthy
  <2> QED
    BY <2>1, <2>2 DEF ConfiguredInv, Stages
<1>2. IInv /\ CInv /\ [Next]_vars => (IInv /\ CInv)'
  BY NextKeeps, NextCurrent
<1> QED
  BY <1>1, <1>2, InitHolds, InitCurrent, PTL DEF Spec

=============================================================================

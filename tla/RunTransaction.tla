--------------------------- MODULE RunTransaction ---------------------------
(***************************************************************************)
(* run_local: the owners of one run are created in a fixed order, the      *)
(* engine runs, every owner is finalized, and only then the private result *)
(* file is renamed to its visible path and the dashboard is published.     *)
(* Every step may fail, another process may change the visible result, and *)
(* the process may crash.                                                  *)
(*                                                                         *)
(* The engine is free to use the sink as it likes and to end with success  *)
(* or failure at any time: nothing of the router's promise is assumed.     *)
(***************************************************************************)
EXTENDS JtlSink

CONSTANTS
    Plans,       \* the admissions to run: http, file (-l), report (-e), force (-f)
    MaxForeign,  \* model bound: changes of the visible result by others, none or one
    MaxFailures  \* model bound: failures after which every cleanup succeeds

(* A report needs a result file.                                           *)
ASSUME RunTransactionAssumption ==
    /\ Plans \subseteq [http : BOOLEAN, file : BOOLEAN, report : BOOLEAN, force : BOOLEAN]
    /\ \A p \in Plans : p.report => p.file
    /\ MaxForeign \in 0 .. 1 /\ MaxFailures \in Nat

VARIABLES
    plan,    \* what was admitted
    stage,   \* the place of the run thread
    held,    \* owners created and not yet finalized
    error,   \* the RunError being built: primary and cleanup failures
    raised,  \* history: the failures that each failing step met, in order
    disk     \* visible result, staging entry, dashboard and its two siblings

runVars == <<plan, stage, held, error, raised, disk>>
vars    == <<sinkVars, runVars>>

(* Owners in the order in which they are created; bind, report and router  *)
(* create nothing that has to be released by itself.                       *)
Preparation == <<"time", "http", "pool", "bind", "target", "sink", "report", "logger",
                 "router">>
Prepared    == Range(Preparation)
Following(s) == LET i == CHOOSE j \in DOMAIN Preparation : Preparation[j] = s IN
                IF i = Len(Preparation) THEN "engine" ELSE Preparation[i + 1]

Needed(s) ==
    CASE s \in {"http", "pool"}             -> plan.http
      [] s \in {"target", "sink", "router"} -> plan.file
      [] s = "report"                       -> plan.report
      [] OTHER                              -> TRUE

(* The cleanup category of a step.                                         *)
Category(s) ==
    CASE s \in {"router", "sink"} -> "Jtl"
      [] s = "target"             -> "Staging"
      [] OTHER                    -> s

(* What can fail: a step of the preparation, the engine, the cleanup of an *)
(* owner, the publication of the dashboard, and in it the removal of the   *)
(* staged dashboard, the removal of the place to move the old one to, and  *)
(* moving the old one back.                                                *)
Failures == Prepared \cup {"engine", "Jtl", "Staging", "dashboard", "dashStage", "dashAside",
                           "dashBack"}

(* The failures one step met.  A RunError for one failure keeps its type;  *)
(* for several it is a RunError::Runtime whose message holds their texts   *)
(* (cut at MAX_DIAGNOSTIC_BYTES, which is not modelled).                   *)
Met     == (SUBSET Failures) \ {{}}
NoError == [primary |-> {}, cleanup |-> <<>>]

(* Type invariant.                                                         *)
TypeOK ==
    /\ plan \in Plans
    /\ stage \in Prepared \cup
         {"engine", "fail", "failJoin", "finish", "wait", "release", "sync", "revalidate",
          "rename", "dashStage", "dashMove", "dashCheck", "dashRename", "dashRemove",
          "unstage", "return", "returned", "crashed"}
    /\ held \subseteq Prepared
    /\ error \in [primary : SUBSET Failures, cleanup : Seq(Met)]
    /\ raised \in Seq(Met)
    /\ disk \in [visible : {"none", "old", "foreign", "new"},
                 admitted : {"none", "old", "foreign"}, staged : BOOLEAN,
                 dash : {"none", "empty", "old", "new"},
                 oldDash : {"none", "empty", "old"}, dashStaged : BOOLEAN,
                 changed : {"never", "revalidate", "rename"}]

(* The visible result and the dashboard may or may not exist, and the      *)
(* dashboard may be an empty directory; what the plan never looks at is    *)
(* left out.                                                               *)
Init ==
    /\ SinkInit
    /\ plan \in Plans
    /\ stage = "time" /\ held = {} /\ error = NoError /\ raised = <<>>
    /\ \E v \in {"none", "old"}, d \in {"none", "empty", "old"} :
         /\ plan.file \/ v = "none"
         /\ plan.report \/ d = "none"
         /\ disk = [visible |-> v, admitted |-> "none", staged |-> FALSE, dash |-> d,
                    oldDash |-> "none", dashStaged |-> FALSE, changed |-> "never"]

-----------------------------------------------------------------------------
(* Errors.                                                                 *)

(* append_cleanup_to_result, transaction_error: the primary error stays.   *)
append_cleanup(err, m) == [err EXCEPT !.cleanup = Append(@, m)]

(* Mutant: the latest failure replaces the earlier ones.                   *)
RecordLatest(err, m) == [primary |-> m, cleanup |-> <<m>>]

(* record_cleanup_error: without a primary the failure becomes it, and is  *)
(* listed with its category all the same.                                  *)
record_cleanup_error(err, m) ==
    IF err.primary = {} THEN [primary |-> m, cleanup |-> <<m>>]
    ELSE append_cleanup(err, m)

Raise(m, err) == error' = err /\ raised' = Append(raised, m)

(* The first failing step of a run: what it met becomes the error.         *)
RaiseFirst(m) == Raise(m, [primary |-> m, cleanup |-> <<>>])

(* A fallible cleanup of a step succeeds, or its failure is recorded.      *)
Outcome(s, recorded) ==
    \/ UNCHANGED <<error, raised>>
    \/ Len(raised) < MaxFailures /\ Raise({Category(s)}, recorded)

publication_allowed == error.primary = {}

Quiet == ~cancel.on       \* the run thread is not inside of cancel

-----------------------------------------------------------------------------
(* prepare and start_engine.                                               *)

(* Creates the owner of step s, or passes by if the plan does not need it. *)
Prepare(s) ==
    /\ stage = s
    /\ Needed(s) => s \notin {"target", "sink"}
    /\ Needed(s) /\ s = "report" => plan.force \/ disk.dash # "old"
    /\ held' = IF Needed(s) THEN held \cup ({s} \ {"bind", "report"}) ELSE held
    /\ stage' = Following(s)
    /\ UNCHANGED <<sinkVars, plan, error, raised, disk>>

(* PreparedResultTarget::prepare: the identity of the visible result is    *)
(* noted and a private staging file is created.                            *)
PrepareTarget ==
    /\ stage = "target" /\ Needed("target")
    /\ plan.force \/ disk.visible = "none"
    /\ disk' = [disk EXCEPT !.admitted = disk.visible, !.staged = TRUE]
    /\ held' = held \cup {"target"}
    /\ stage' = Following("target")
    /\ UNCHANGED <<sinkVars, plan, error, raised>>

(* JtlSinkOwner::new spawns the writer thread.                             *)
StartSink ==
    /\ stage = "sink" /\ Needed("sink")
    /\ Goto("init")
    /\ held' = held \cup {"sink"}
    /\ stage' = Following("sink")
    /\ UNCHANGED <<state, done, issued, cancel, file, plan, error, raised, disk>>

(* A step fails.  A target that cannot be completed removes its staging    *)
(* file again; if that fails too, the error is one message about both.     *)
PrepareFails(s) ==
    /\ stage = s /\ Needed(s)
    /\ \/ UNCHANGED disk /\ RaiseFirst({s})
       \/ /\ s = "target" /\ disk' = [disk EXCEPT !.staged = TRUE]
          /\ RaiseFirst({"target", "Staging"})
    /\ stage' = "fail"
    /\ UNCHANGED <<sinkVars, plan, held>>

-----------------------------------------------------------------------------
(* The engine, on the run thread.                                          *)

EngineUsesSink ==
    /\ stage = "engine" /\ plan.file /\ Quiet
    /\ \/ \E e \in Writes : EnqueueWrite(e)
       \/ EnqueueFlush
       \/ Finish \notin issued /\ EnqueueFinish
       \/ state.phase \notin Terminal /\ CancelLocked
    /\ UNCHANGED runVars

EngineSucceeds ==
    /\ stage = "engine" /\ Quiet
    /\ held' = held \ {"router"}
    /\ stage' = IF plan.file THEN "finish" ELSE "release"
    /\ UNCHANGED <<sinkVars, plan, error, raised, disk>>

EngineFails ==
    /\ stage = "engine" /\ Quiet
    /\ RaiseFirst({"engine"})
    /\ stage' = "fail"
    /\ UNCHANGED <<sinkVars, plan, held, disk>>

-----------------------------------------------------------------------------
(* finalize_failure, cleanup_partial and cleanup_prepared: one order, of   *)
(* what there is.                                                          *)

(* Mutant: the writer of a failed run is left running.                     *)
FailureOrderNoSink == <<"router", "pool", "http", "time", "target", "logger">>

FailureOrder == <<"router", "sink", "pool", "http", "time", "target", "logger">>

First(order) == order[CHOOSE i \in DOMAIN order :
                        /\ order[i] \in held
                        /\ \A j \in 1 .. i - 1 : order[j] \notin held]

Due(order, s) == Range(order) \cap held # {} /\ First(order) = s

(* The router is cancelled, and with it the sink.                          *)
CancelRouter ==
    /\ stage = "fail" /\ Quiet /\ Due(FailureOrder, "router")
    /\ CancelLocked
    /\ Outcome("router", append_cleanup(error, {Category("router")}))
    /\ held' = held \ {"router"}
    /\ UNCHANGED <<plan, stage, disk>>

(* cancel_and_join: the cancellation, then the join.                       *)
CancelSink ==
    /\ stage = "fail" /\ Quiet /\ Due(FailureOrder, "sink")
    /\ CancelLocked
    /\ stage' = "failJoin"
    /\ UNCHANGED <<plan, held, error, raised, disk>>

SettleCancel == CancelSettle /\ UNCHANGED runVars

Joined == worker.pc = "done"

JoinCancelled ==
    /\ stage = "failJoin" /\ Quiet /\ Joined
    /\ IF state.panicked \/ state.invariant
       THEN Raise({"Jtl"}, append_cleanup(error, {"Jtl"}))
       ELSE UNCHANGED <<error, raised>>
    /\ held' = held \ {"sink"}
    /\ stage' = "fail"
    /\ UNCHANGED <<sinkVars, plan, disk>>

(* The pool, the HTTP owner, the time driver and the logger: each is       *)
(* joined whatever its finalization reports.                               *)
FailureReleases(s) ==
    /\ stage = "fail" /\ Due(FailureOrder, s)
    /\ s \notin {"router", "sink", "target"}
    /\ Outcome(s, append_cleanup(error, {Category(s)}))
    /\ held' = held \ {s}
    /\ UNCHANGED <<sinkVars, plan, stage, disk>>

Unstaged == [disk EXCEPT !.staged = FALSE]

FailureUnstages ==
    /\ stage = "fail" /\ Due(FailureOrder, "target")
    /\ \/ disk' = Unstaged /\ UNCHANGED <<error, raised>>
       \/ UNCHANGED disk /\ Raise({"Staging"}, append_cleanup(error, {"Staging"}))
    /\ held' = held \ {"target"}
    /\ UNCHANGED <<sinkVars, plan, stage>>

FailureDone ==
    /\ stage = "fail" /\ Range(FailureOrder) \cap held = {}
    /\ stage' = "return"
    /\ UNCHANGED <<sinkVars, plan, held, error, raised, disk>>

-----------------------------------------------------------------------------
(* finalize, after a successful engine.                                    *)

FinishSinkOwner ==
    /\ stage = "finish"
    /\ EnqueueFinish
    /\ stage' = "wait"
    /\ UNCHANGED <<plan, held, error, raised, disk>>

(* JtlSinkOwner::finalize waits for the finish and joins the writer.       *)
FinishWaited ==
    /\ stage = "wait" /\ done[Finish] # "None" /\ Joined
    /\ IF done[Finish] = "Ok" /\ ~state.panicked /\ ~state.invariant
       THEN UNCHANGED <<error, raised>>
       ELSE Raise({"Jtl"}, record_cleanup_error(error, {"Jtl"}))
    /\ held' = held \ {"sink"}
    /\ stage' = "release"
    /\ UNCHANGED <<sinkVars, plan, disk>>

SuccessOrder == <<"pool", "http", "time", "logger">>

SuccessReleases(s) ==
    /\ stage = "release" /\ Due(SuccessOrder, s)
    /\ Outcome(s, record_cleanup_error(error, {Category(s)}))
    /\ held' = held \ {s}
    /\ UNCHANGED <<sinkVars, plan, stage, disk>>

(* Publication only after every owner cleanup has succeeded.               *)
SuccessReleased ==
    /\ stage = "release" /\ Range(SuccessOrder) \cap held = {}
    /\ stage' = IF plan.file /\ publication_allowed THEN "sync" ELSE "unstage"
    /\ UNCHANGED <<sinkVars, plan, held, error, raised, disk>>

-----------------------------------------------------------------------------
(* PreparedResultTarget::publish.                                          *)

(* Mutant: a flush is taken for a sync.                                    *)
SyncNothing ==
    /\ stage = "sync"
    /\ stage' = "revalidate"
    /\ UNCHANGED <<sinkVars, plan, held, error, raised, disk>>

SyncResult ==
    /\ stage = "sync"
    /\ file' = [file EXCEPT !.synced = TRUE]
    /\ stage' = "revalidate"
    /\ UNCHANGED <<state, done, issued, cancel, worker, plan, held, error, raised, disk>>

(* Mutant: only the staging file is looked at again.                       *)
RevalidateStage ==
    /\ stage = "revalidate"
    /\ stage' = "rename"
    /\ UNCHANGED <<sinkVars, plan, held, error, raised, disk>>

(* revalidate_for_publish: the visible result is still the one admitted.   *)
Revalidate ==
    /\ stage = "revalidate"
    /\ disk.visible = disk.admitted
    /\ stage' = "rename"
    /\ UNCHANGED <<sinkVars, plan, held, error, raised, disk>>

RenameResult ==
    /\ stage = "rename"
    /\ disk' = [disk EXCEPT !.visible = "new", !.staged = FALSE]
    /\ stage' = IF plan.report THEN "dashStage" ELSE "unstage"
    /\ UNCHANGED <<sinkVars, plan, held, error, raised>>

PublishFails ==
    /\ stage \in {"sync", "revalidate", "rename"}
    /\ Raise({"Staging"}, record_cleanup_error(error, {"Staging"}))
    /\ stage' = "unstage"
    /\ UNCHANGED <<sinkVars, plan, held, disk>>

-----------------------------------------------------------------------------
(* report_from_published_result and publish_staged_dashboard.              *)

Dashboard(d, next) ==
    /\ disk' = d
    /\ stage' = next
    /\ UNCHANGED <<sinkVars, plan, held, error, raised>>

(* The report fails with the directories as in d, having met the failures  *)
(* m besides.  cleanup_staged_dashboard removes the staged dashboard, or   *)
(* that fails too.  The error is one message about all of them.            *)
ReportFails(d, m) ==
    /\ \/ disk' = [d EXCEPT !.dashStaged = FALSE] /\ RaiseFirst({"dashboard"} \cup m)
       \/ d.dashStaged /\ disk' = d /\ RaiseFirst({"dashboard", "dashStage"} \cup m)
    /\ stage' = "unstage"
    /\ UNCHANGED <<sinkVars, plan, held>>

(* Mutant: the old dashboard is deleted to make room.                      *)
KeptNowhere(d) == [d EXCEPT !.dash = "none"]

Kept(d)     == [d EXCEPT !.dash = "none", !.oldDash = d.dash]
Restored(d) == IF d.oldDash = "none" THEN d
               ELSE [d EXCEPT !.dash = d.oldDash, !.oldDash = "none"]

(* rollback_report_quarantine: what was moved aside is moved back, or that *)
(* fails too.                                                              *)
RollBack ==
    \/ ReportFails(Restored(disk), {})
    \/ disk.oldDash # "none" /\ ReportFails(disk, {"dashBack"})

(* The result is read through its own handle and the dashboard is written  *)
(* beside its target.                                                      *)
StageDashboard ==
    /\ stage = "dashStage"
    /\ LET staged == [disk EXCEPT !.dashStaged = TRUE] IN
       \/ Dashboard(staged, IF disk.dash = "none" THEN "dashRename" ELSE "dashMove")
       \/ ReportFails(disk, {})
       \/ ReportFails(staged, {})

(* An existing directory is moved aside, or the place made for it is       *)
(* removed (cleanup_bound_report_directory), or that fails too;            *)
MoveOldDashboard ==
    /\ stage = "dashMove"
    /\ \/ Dashboard(Kept(disk), "dashCheck")
       \/ ReportFails(disk, {})
       \/ ReportFails(disk, {"dashAside"})

(* it has to be the one admitted;                                          *)
CheckOldDashboard ==
    /\ stage = "dashCheck"
    /\ Dashboard(disk, "dashRename") \/ RollBack

(* the new one takes its place;                                            *)
RenameDashboard ==
    /\ stage = "dashRename"
    /\ \/ Dashboard([disk EXCEPT !.dash = "new", !.dashStaged = FALSE],
                    IF disk.oldDash = "none" THEN "unstage" ELSE "dashRemove")
       \/ RollBack

(* and the old one is removed.                                             *)
RemoveOldDashboard ==
    /\ stage = "dashRemove"
    /\ \/ Dashboard([disk EXCEPT !.oldDash = "none"], "unstage")
       \/ ReportFails(disk, {})

-----------------------------------------------------------------------------
(* The end.                                                                *)

(* cleanup_result_target: a published target has no staging entry.         *)
Unstage ==
    /\ stage = "unstage"
    /\ \/ disk' = Unstaged /\ UNCHANGED <<error, raised>>
       \/ /\ disk.staged
          /\ UNCHANGED disk
          /\ Raise({"Staging"}, record_cleanup_error(error, {"Staging"}))
    /\ held' = held \ {"target"}
    /\ stage' = "return"
    /\ UNCHANGED <<sinkVars, plan>>

(* Dropping a target that was prepared tries to remove its entry again.    *)
Return ==
    /\ stage = "return"
    /\ disk' \in IF "target" \in error.primary THEN {disk} ELSE {disk, Unstaged}
    /\ stage' = "returned"
    /\ UNCHANGED <<sinkVars, plan, held, error, raised>>

(* Another process creates, replaces or removes the visible result while   *)
(* the run goes on.  The run looks at it again only in revalidate_for_-    *)
(* publish, so an earlier change is one just before that.                  *)
ForeignChange(v) ==
    /\ stage \in {"revalidate", "rename"}
    /\ MaxForeign = 1 /\ disk.changed = "never"
    /\ disk.visible # v
    /\ disk' = [disk EXCEPT !.visible = v, !.changed = stage]
    /\ UNCHANGED <<sinkVars, plan, stage, held, error, raised>>

(* The process and its memory are gone, and what was not synchronized may  *)
(* be lost.                                                                *)
Crash ==
    /\ stage \notin {"returned", "crashed"}
    /\ stage' = "crashed"
    /\ file' \in IF file.synced THEN {file} ELSE {file, [file EXCEPT !.lost = TRUE]}
    /\ state' = NewState /\ done' = NewDone /\ cancel' = NoCancel /\ worker' = NoWorker
    /\ held' = {} /\ error' = NoError /\ raised' = <<>>
    /\ UNCHANGED <<issued, plan, disk>>

WriterStep == WorkerStep /\ UNCHANGED runVars

RunStep ==
    \/ \E s \in Prepared :
         Prepare(s) \/ PrepareFails(s) \/ FailureReleases(s) \/ SuccessReleases(s)
    \/ PrepareTarget \/ StartSink
    \/ EngineUsesSink \/ EngineSucceeds \/ EngineFails
    \/ CancelRouter \/ CancelSink \/ SettleCancel \/ JoinCancelled
    \/ FailureUnstages \/ FailureDone
    \/ FinishSinkOwner \/ FinishWaited \/ SuccessReleased
    \/ SyncResult \/ Revalidate \/ RenameResult \/ PublishFails
    \/ StageDashboard \/ MoveOldDashboard \/ CheckOldDashboard
    \/ RenameDashboard \/ RemoveOldDashboard
    \/ Unstage \/ Return

Next ==
    \/ RunStep \/ WriterStep \/ Crash
    \/ \E v \in {"none", "foreign"} : ForeignChange(v)

Spec == Init /\ [][Next]_vars

(* Both threads go on, and file and encoder calls return.                  *)
FairSpec == Spec /\ WF_vars(RunStep) /\ WF_vars(WriterStep)

-----------------------------------------------------------------------------
(* Properties.                                                             *)

(* What becomes visible is complete and durable, also if the process       *)
(* crashes at any point: all admitted events in order, the format closed,  *)
(* nothing of it lost in a crash, by a run in which nothing had failed     *)
(* when it was renamed ("Publication is attempted only after every owner   *)
(* cleanup above has succeeded"), and it has not replaced a result that    *)
(* others had put there before revalidate_for_publish looked.              *)
PublishedIsComplete ==
    disk.visible = "new" =>
        /\ file.closed /\ ~file.torn /\ ~file.lost
        /\ file.events = [i \in 1 .. Cardinality(issued \cap Writes) |-> i]
        /\ held \subseteq {"target"} /\ worker.pc \in {"none", "done"}
        /\ error.primary = {} \/ "dashboard" \in error.primary
        /\ disk.changed # "revalidate"

(* "Every earlier failure preserves previous visible result/dashboard      *)
(* targets and removes only exact private staging entries": a run that     *)
(* returns an error has published nothing unless it is about the dashboard *)
(* of the published result, has joined its writer and released every       *)
(* owner, and a staging file it could not remove is reported.              *)
FailureIsClean ==
    /\ TypeOK
    /\ stage = "returned" =>
          /\ held = {} /\ worker.pc \in {"none", "done"}
          /\ error.primary # {} /\ "dashboard" \notin error.primary =>
                disk.visible # "new" /\ disk.dash # "new"
          /\ disk.staged => "Staging" \in error.primary \cup UNION Range(error.cleanup)

(* No failure is dropped: the returned error has as its primary one what   *)
(* the first failing step met, and what every later one met, in order, as  *)
(* cleanup; a run without a failure succeeds.  (A step that met several    *)
(* failures has them in one text: see NoFailureFlattened.)                 *)
EveryFailureReported ==
    stage = "returned" =>
        IF raised = <<>> THEN error = NoError
        ELSE error.primary = Head(raised) /\ error.cleanup \in {raised, Tail(raised)}

(* "The transaction never flattens cleanup failures into an untyped        *)
(* diagnostic string" (runner.rs:420): the primary error is about one      *)
(* failure, and the failures of cleanups are listed beside it.  It does    *)
(* not hold where prepare, cleanup_staged_dashboard and the two helpers    *)
(* beside it meet a second failure.                                        *)
NoFailureFlattened == stage = "returned" => \A f, g \in error.primary : f = g

(* "Construction failure explicitly finalizes already-created owners in    *)
(* reverse order" (0012:97): what is still held was created before all     *)
(* that is finalized.  It does not hold: cleanup_partial finalizes the     *)
(* time driver, which was created first, before the result target.         *)
ReverseCleanup ==
    stage \in {"fail", "failJoin"} /\ "engine" \notin error.primary =>
        \A i, j \in DOMAIN Preparation :
            /\ i < j /\ Preparation[j] \in held
            /\ Needed(Preparation[i]) /\ Preparation[i] \notin {"bind", "report"}
            => Preparation[i] \in held

(* The previous dashboard is there, visible or moved aside, until the new  *)
(* one has taken its place.                                                *)
DashboardNotLost ==
    [][disk.dash = "old" \/ disk.oldDash = "old" =>
          disk'.dash \in {"old", "new"} \/ disk'.oldDash = "old"]_vars

(* "Report failure after successful result publication leaves the new      *)
(* result and the previous dashboard visible" (0012:129).  It does not     *)
(* hold when the old dashboard cannot be moved back, or when it cannot be  *)
(* removed once the new one has taken its place: it stays moved aside.     *)
PreviousDashboardVisible ==
    stage = "returned" /\ "dashboard" \in error.primary => disk.oldDash # "old"

(* Every run returns: neither the finish nor the join of the writer hangs, *)
(* whatever the engine left behind.                                        *)
RunReturns == <>(stage \in {"returned", "crashed"})
=============================================================================

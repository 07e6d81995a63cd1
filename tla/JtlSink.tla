------------------------------ MODULE JtlSink ------------------------------
(***************************************************************************)
(* The run-owned JTL writer: the run thread enqueues commands through the  *)
(* submitter and cancels or finishes them, one writer thread executes them *)
(* in order and settles their completions.  A step is what a thread does   *)
(* between two acquisitions of the mutex of `State`, or outside of it.     *)
(*                                                                         *)
(* A write command is the number of its event.  The encoder and the file   *)
(* are external: a call succeeds, fails or panics, and a failed one may    *)
(* leave part of a record behind.                                          *)
(***************************************************************************)
EXTENDS Integers, Sequences, FiniteSets, FiniteSetsExt, SequencesExt

CONSTANTS
    NWrites,        \* model bound: events the engine hands to the sink
    Size,           \* Size[e]: byte_size of event e
    MaxQueueItems,  \* limits.max_items
    MaxQueueBytes   \* limits.max_bytes

Writes == 1 .. NWrites
Flush  == NWrites + 1
Finish == NWrites + 2
Ready  == NWrites + 3        \* ready_completion, which no command owns
Cmds   == 1 .. NWrites + 2
NoCmd  == 0

ASSUME JtlSinkAssumption ==
    /\ NWrites \in Nat
    /\ {MaxQueueItems, MaxQueueBytes} \subseteq Nat \ {0}
    /\ Size \in [Writes -> Nat \ {0}]

VARIABLES
    state,   \* the State behind the mutex, and the invariant flag
    done,    \* done[c]: the result of a completion, "None" while it is open
    issued,  \* commands the run thread has enqueued
    cancel,  \* run thread: what cancel took out under the lock, to be settled
    worker,  \* the writer thread: its place, command, outcome, where to go once
             \* the command is settled, and drained commands
    file     \* the staging file: events, closed (format footer), torn, synced,
             \* lost (part of it is gone after a crash)

sinkVars == <<state, done, issued, cancel, worker, file>>

Terminal == {"Finished", "Cancelled", "Failed"}
Errors   == {"Cancelled", "Failed"}
NoCancel == [on |-> FALSE, cmds |-> {}, active |-> NoCmd]

(* Type invariant.                                                         *)
SinkTypeOK ==
    /\ state \in [phase : {"Open", "Finishing"} \cup Terminal, queue : Seq(Cmds),
                  active : Cmds \cup {NoCmd}, items : Nat, bytes : Nat,
                  failure : {"None"} \cup Errors, panicked : BOOLEAN,
                  invariant : BOOLEAN]
    /\ done \in [Cmds \cup {Ready} -> {"None", "Ok"} \cup Errors]
    /\ issued \subseteq Cmds
    /\ cancel \in [on : BOOLEAN, cmds : SUBSET Cmds, active : Cmds \cup {NoCmd}]
    /\ worker \in [pc : {"none", "init", "next", "parked", "check", "encode", "recheck",
                         "settle", "clear", "finish", "fail", "panic", "drain",
                         "exit", "done"},
                   cmd : Cmds \cup {NoCmd}, outcome : {"None", "Ok"} \cup Errors,
                   then : {"next", "finish", "fail", "panic"}, drained : SUBSET Cmds]
    /\ file \in [events : Seq(Writes), closed : BOOLEAN, torn : BOOLEAN, synced : BOOLEAN,
                 lost : BOOLEAN]

NewState == [phase |-> "Open", queue |-> <<>>, active |-> NoCmd, items |-> 0, bytes |-> 0,
             failure |-> "None", panicked |-> FALSE, invariant |-> FALSE]
NewDone  == [c \in Cmds \cup {Ready} |-> "None"]
NoWorker == [pc |-> "none", cmd |-> NoCmd, outcome |-> "None", then |-> "next",
             drained |-> {}]

SinkInit ==
    /\ state = NewState /\ done = NewDone /\ issued = {} /\ cancel = NoCancel
    /\ worker = NoWorker
    /\ file = [events |-> <<>>, closed |-> FALSE, torn |-> FALSE, synced |-> FALSE,
               lost |-> FALSE]

-----------------------------------------------------------------------------
(* Shared steps.                                                           *)

(* Completion::complete: the first result stays.                           *)
Complete(d, cs, r) ==
    [c \in DOMAIN d |-> IF c \in cs /\ d[c] = "None" THEN r ELSE d[c]]

(* The bytes of the writes among the commands, counted one by one.         *)
TotalSize(cs) == Cardinality(UNION {{e} \X (1 .. Size[e]) : e \in cs \cap Writes})

(* Dropping commands: each write gives its reservation back, once.         *)
Release(st, cs) ==
    LET items == Cardinality(cs \cap Writes) IN
    IF st.items < items \/ st.bytes < TotalSize(cs)
    THEN [st EXCEPT !.invariant = TRUE]
    ELSE [st EXCEPT !.items = @ - items, !.bytes = @ - TotalSize(cs)]

(* The writer parks only in next_command; a notification sends it round.   *)
Notified == IF worker.pc = "parked" THEN [worker EXCEPT !.pc = "next"] ELSE worker

Goto(place) == worker' = [worker EXCEPT !.pc = place]

-----------------------------------------------------------------------------
(* The run thread.                                                         *)

(* enqueue_sample_event; an event that is refused leaves no trace here and *)
(* may be offered again.  Sampling starts after the readiness handshake.   *)
EnqueueWrite(e) ==
    /\ e \notin issued /\ 1 .. e - 1 \subseteq issued
    /\ done[Ready] = "Ok"
    /\ state.phase = "Open"
    /\ state.items < MaxQueueItems
    /\ state.bytes + Size[e] <= MaxQueueBytes
    /\ state' = [state EXCEPT !.items = @ + 1, !.bytes = @ + Size[e],
                              !.queue = Append(@, e)]
    /\ issued' = issued \cup {e}
    /\ worker' = Notified
    /\ UNCHANGED <<done, cancel, file>>

EnqueueFlush ==
    /\ Flush \notin issued
    /\ done[Ready] = "Ok"
    /\ state.phase = "Open"
    /\ state' = [state EXCEPT !.queue = Append(@, Flush)]
    /\ issued' = issued \cup {Flush}
    /\ worker' = Notified
    /\ UNCHANGED <<done, cancel, file>>

(* enqueue_finish: the one finish completion is shared by all callers; on  *)
(* a sink that is closed already it is settled at once.                    *)
EnqueueFinish ==
    /\ issued' = issued \cup {Finish}
    /\ \/ /\ Finish \in issued
          /\ UNCHANGED <<state, done, worker>>
       \/ /\ Finish \notin issued /\ state.phase = "Open"
          /\ state' = [state EXCEPT !.phase = "Finishing", !.queue = Append(@, Finish)]
          /\ worker' = Notified
          /\ UNCHANGED done
       \/ /\ Finish \notin issued /\ state.phase \in {"Cancelled", "Failed"}
          /\ done' = Complete(done, {Finish},
                        IF state.phase = "Cancelled" THEN "Cancelled" ELSE state.failure)
          /\ UNCHANGED <<state, worker>>
    /\ UNCHANGED <<cancel, file>>

(* cancel, under the lock: admission ends, and what is queued or active is *)
(* taken out to be settled outside of the lock.                            *)
CancelLocked ==
    /\ \/ /\ state.phase \in Terminal
          /\ UNCHANGED <<state, cancel>>
       \/ /\ state.phase \notin Terminal
          /\ state' = [state EXCEPT !.phase = "Cancelled", !.queue = <<>>,
                                    !.active = NoCmd]
          /\ cancel' = [on |-> TRUE, cmds |-> Range(state.queue), active |-> state.active]
    /\ UNCHANGED <<done, issued, worker, file>>

(* Mutant: cancel frees the permit of the command in the writer's hands.   *)
CancelSettleActive ==
    /\ cancel.on
    /\ done' = Complete(done, cancel.cmds \cup {cancel.active, Ready}, "Cancelled")
    /\ state' = Release(state, cancel.cmds \cup {cancel.active})
    /\ cancel' = NoCancel
    /\ worker' = Notified
    /\ UNCHANGED <<issued, file>>

CancelSettle ==
    /\ cancel.on
    /\ done' = Complete(done, cancel.cmds \cup {cancel.active, Ready}, "Cancelled")
    /\ state' = Release(state, cancel.cmds)
    /\ cancel' = NoCancel
    /\ worker' = Notified
    /\ UNCHANGED <<issued, file>>

-----------------------------------------------------------------------------
(* The writer thread (worker_main).                                        *)

(* What follows a result of the encoder or of its factory.                 *)
Verdict(result) == IF result = "Ok" THEN "Ok" ELSE "Failed"
ErrorPath == [Failed |-> "fail", Panic |-> "panic"]
Results   == {"Ok", "Failed", "Panic"}

(* The encoder factory.                                                    *)
CreateEncoder(result) ==
    /\ worker.pc = "init"
    /\ done' = Complete(done, {Ready}, Verdict(result))
    /\ worker' = [worker EXCEPT !.outcome = Verdict(result),
                    !.pc = IF result = "Ok" THEN "next" ELSE ErrorPath[result]]
    /\ UNCHANGED <<state, issued, cancel, file>>

(* next_command.                                                           *)
TakeCommand ==
    /\ worker.pc = "next" /\ state.queue # <<>>
    /\ state' = [state EXCEPT !.queue = Tail(@), !.active = Head(state.queue)]
    /\ worker' = [worker EXCEPT !.cmd = Head(state.queue), !.pc = "check"]
    /\ UNCHANGED <<done, issued, cancel, file>>

NoCommand ==
    /\ worker.pc = "next" /\ state.queue = <<>>
    /\ Goto(IF state.phase \in Terminal THEN "exit" ELSE "parked")
    /\ UNCHANGED <<state, done, issued, cancel, file>>

(* A command taken out before a cancellation is not executed.              *)
CheckCancelled ==
    /\ worker.pc = "check"
    /\ worker' = IF state.phase = "Cancelled"
                 THEN [worker EXCEPT !.outcome = "Cancelled", !.then = "fail", !.pc = "settle"]
                 ELSE [worker EXCEPT !.pc = "encode"]
    /\ UNCHANGED <<state, done, issued, cancel, file>>

Written(f, c) ==
    CASE c \in Writes -> [f EXCEPT !.events = Append(@, c), !.synced = FALSE]
      [] c = Flush    -> f
      [] c = Finish   -> [f EXCEPT !.closed = TRUE, !.synced = FALSE]

Torn(f) == [f EXCEPT !.torn = TRUE, !.synced = FALSE]

(* The encoder call, outside of every lock.                                *)
Encode(result) ==
    /\ worker.pc = "encode"
    /\ IF result = "Ok" THEN file' = Written(file, worker.cmd)
                        ELSE file' \in {file, Torn(file)}
    /\ worker' = IF result = "Ok"
                 THEN [worker EXCEPT !.pc = "recheck"]
                 ELSE [worker EXCEPT !.outcome = "Failed", !.then = ErrorPath[result],
                                     !.pc = "settle"]
    /\ UNCHANGED <<state, done, issued, cancel>>

(* A write or a finish that met a cancellation does not count as done.     *)
Recheck ==
    /\ worker.pc = "recheck"
    /\ worker' = [worker EXCEPT !.pc = "settle",
                    !.outcome = IF state.phase = "Cancelled" /\ worker.cmd # Flush
                                THEN "Cancelled" ELSE "Ok",
                    !.then = IF worker.cmd = Finish THEN "finish" ELSE "next"]
    /\ UNCHANGED <<state, done, issued, cancel, file>>

SettleCommand ==
    /\ worker.pc = "settle"
    /\ done' = Complete(done, {worker.cmd}, worker.outcome)
    /\ Goto("clear")
    /\ UNCHANGED <<state, issued, cancel, file>>

(* clear_active, and the command is dropped.                               *)
ClearCommand ==
    /\ worker.pc = "clear"
    /\ state' = Release([state EXCEPT !.active = IF @ = worker.cmd THEN NoCmd ELSE @],
                        {worker.cmd})
    /\ worker' = [worker EXCEPT !.cmd = NoCmd, !.pc = worker.then]
    /\ UNCHANGED <<done, issued, cancel, file>>

FinishSink ==
    /\ worker.pc = "finish"
    /\ state' = [state EXCEPT !.phase = IF @ = "Cancelled" THEN @ ELSE "Finished"]
    /\ Goto("exit")
    /\ UNCHANGED <<done, issued, cancel, file>>

(* Mutant: commands that were queued meanwhile stay in the queue.          *)
FailSinkUndrained ==
    /\ worker.pc \in {"fail", "panic"}
    /\ state' = [state EXCEPT !.phase = "Failed", !.failure = "Failed"]
    /\ Goto("drain")
    /\ UNCHANGED <<done, issued, cancel, file>>

(* fail_and_drain and record_worker_panic, under the lock ...              *)
FailSink ==
    /\ worker.pc \in {"fail", "panic"}
    /\ LET panic == worker.pc = "panic" IN
       /\ state' = [state EXCEPT !.phase = "Failed", !.queue = <<>>,
                      !.failure = IF panic THEN "Failed"
                                  ELSE IF @ = "None" THEN worker.outcome ELSE @,
                      !.panicked = @ \/ panic, !.invariant = @ \/ panic]
    /\ worker' = [worker EXCEPT !.drained = Range(state.queue), !.pc = "drain"]
    /\ UNCHANGED <<done, issued, cancel, file>>

(* ... and what they drained is settled and dropped outside of it.         *)
SettleDrained ==
    /\ worker.pc = "drain"
    /\ done' = Complete(done, worker.drained \cup {Ready}, worker.outcome)
    /\ state' = Release(state, worker.drained)
    /\ worker' = [worker EXCEPT !.drained = {}, !.pc = "exit"]
    /\ UNCHANGED <<issued, cancel, file>>

(* complete_worker, after which the thread can be joined.                  *)
ExitWorker ==
    /\ worker.pc = "exit"
    /\ state' = [state EXCEPT !.active = NoCmd]
    /\ Goto("done")
    /\ UNCHANGED <<done, issued, cancel, file>>

WorkerStep ==
    \/ \E result \in Results : CreateEncoder(result) \/ Encode(result)
    \/ TakeCommand \/ NoCommand \/ CheckCancelled \/ Recheck \/ SettleCommand
    \/ ClearCommand \/ FinishSink \/ FailSink \/ SettleDrained \/ ExitWorker

-----------------------------------------------------------------------------
(* Properties.                                                             *)

(* Writes whose commands somebody still holds: the queue, the writer, or   *)
(* who drained them.                                                       *)
HeldWrites ==
    Writes \cap (Range(state.queue) \cup {worker.cmd} \cup worker.drained \cup cancel.cmds)

(* The queue's permits are exactly those of the writes still held, at any  *)
(* point of a cancellation, a failure or a panic.                          *)
PermitsAccounted ==
    /\ SinkTypeOK
    /\ state.items = Cardinality(HeldWrites)
    /\ state.bytes = TotalSize(HeldWrites)
    /\ state.invariant => state.panicked

(* "A successful per-event completion truthfully earns FormatWritten":     *)
(* events are in the file in the order of submission, none twice and none  *)
(* left out, an acknowledged one is there, and an acknowledged finish      *)
(* means that all that were admitted are there and the format is closed.   *)
AcknowledgedIsWritten ==
    /\ PermitsAccounted
    /\ \A i \in DOMAIN file.events : file.events[i] = i
    /\ \A e \in Writes : done[e] = "Ok" => e \in Range(file.events)
    /\ done[Finish] = "Ok" =>
          file.closed /\ ~file.torn /\ issued \cap Writes = Range(file.events)
=============================================================================

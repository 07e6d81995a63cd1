------------------------ MODULE RunTransactionProofs ------------------------
(***************************************************************************)
(* Proofs about the run and its JTL writer, for every number of events,    *)
(* every size, limit and set of plans.                                     *)
(*                                                                         *)
(* The invariant of the writer says who holds which command, that the      *)
(* events still to be written are those the queue and the writer hold, and *)
(* what an acknowledgement has to find in the file.  The invariant of the  *)
(* run says which owners a stage may still hold, how the error follows the *)
(* failures, and what the disk and the file show at a stage.               *)
(***************************************************************************)
EXTENDS RunTransaction, FiniteSetTheorems, TLAPS

-----------------------------------------------------------------------------
(* The invariant of the writer.                                            *)

Busy  == {"check", "encode", "recheck", "settle", "clear"}
Alive == worker.pc # "none"

(* The writer goes on to the next command, or to the end.                  *)
Flows ==
    \/ worker.pc \in {"init", "next", "parked", "check", "encode", "recheck", "finish"}
    \/ worker.pc \in {"settle", "clear"} /\ worker.then \in {"next", "finish"}

(* Every command has one holder.                                           *)
HoldersInv ==
    /\ Range(state.queue) \cup worker.drained \cup cancel.cmds \subseteq issued
    /\ worker.cmd \in issued \cup {NoCmd}
    /\ \A i, j \in DOMAIN state.queue : state.queue[i] = state.queue[j] => i = j
    /\ worker.cmd \notin Range(state.queue) \cup worker.drained \cup cancel.cmds
    /\ Range(state.queue) \cap (worker.drained \cup cancel.cmds) = {}
    /\ worker.drained \cap cancel.cmds = {}

PermitsInv ==
    /\ state.items = Cardinality(HeldWrites)
    /\ state.bytes = TotalSize(HeldWrites)
    /\ state.invariant => state.panicked

(* What the place of the writer and the phase of the sink say.             *)
PlaceInv ==
    /\ worker.pc \in Busy <=> worker.cmd # NoCmd
    /\ worker.pc # "drain" => worker.drained = {}
    /\ ~cancel.on => cancel.cmds = {}
    /\ cancel.on => state.phase \in Terminal
    /\ state.phase \in Errors => state.queue = <<>>
    /\ state.phase = "Failed" => worker.pc \in {"drain", "exit", "done"}
    /\ state.phase = "Finished" => worker.pc \in {"exit", "done"}
    /\ worker.pc \in {"fail", "panic", "drain"} => worker.outcome \in Errors
    /\ worker.pc \in {"settle", "clear"} =>
          /\ worker.then \in {"fail", "panic"} => worker.outcome \in Errors
          /\ worker.cmd = Finish /\ worker.outcome = "Ok" => worker.then = "finish"
    /\ Alive /\ Finish \in issued => state.phase # "Open"

(* Commands are queued in the order of the events, and a finish is last.   *)
QueueInv ==
    /\ \A i, j \in DOMAIN state.queue :
          i < j /\ state.queue[i] \in Writes /\ state.queue[j] \in Writes
              => state.queue[i] < state.queue[j]
    /\ \A i \in DOMAIN state.queue : state.queue[i] = Finish => i = Len(state.queue)
    /\ worker.cmd = Finish => state.queue = <<>>
    /\ \A e \in issued \cap Writes : 1 .. e \subseteq issued

(* The commands that are still to be executed.                             *)
Pending(e) == \/ e \in Range(state.queue)
              \/ e = worker.cmd /\ worker.pc \in {"check", "encode"}

(* The file is a prefix of the events, and the rest is pending.            *)
FileInv ==
    /\ \A i \in DOMAIN file.events : file.events[i] = i
    /\ 1 .. Len(file.events) \subseteq issued
    /\ worker.pc \in {"check", "encode"} /\ worker.cmd \in Writes =>
          worker.cmd = Len(file.events) + 1
    /\ Flows => ~file.torn
    /\ Flows /\ state.phase \in {"Open", "Finishing"} =>
          \A e \in issued \cap Writes : e > Len(file.events) <=> Pending(e)

WholeFile == /\ file.closed /\ ~file.torn
             /\ issued \cap Writes \subseteq 1 .. Len(file.events)

(* What is, or is about to be, acknowledged is in the file.                *)
AckInv ==
    /\ \A e \in Writes : done[e] = "Ok" => e <= Len(file.events)
    /\ worker.pc = "recheck" /\ worker.cmd \in Writes => worker.cmd <= Len(file.events)
    /\ worker.pc \in {"settle", "clear"} /\ worker.outcome = "Ok" /\ worker.cmd \in Writes
          => worker.cmd <= Len(file.events)
    /\ worker.pc = "recheck" /\ worker.cmd = Finish /\ state.phase # "Cancelled" => WholeFile
    /\ worker.pc \in {"settle", "clear"} /\ worker.cmd = Finish /\ worker.outcome = "Ok"
          => WholeFile
    /\ done[Finish] = "Ok" =>
          /\ WholeFile /\ Finish \in issued
          /\ \/ worker.pc \in {"finish", "exit", "done"}
             \/ worker.pc = "clear" /\ worker.then = "finish"

SinkInv ==
    SinkTypeOK /\ HoldersInv /\ PermitsInv /\ PlaceInv /\ QueueInv /\ FileInv /\ AckInv

-----------------------------------------------------------------------------
(* The invariant of the run.                                               *)

BeforeSink == {"time", "http", "pool", "bind", "target", "sink"}
Preparing  == BeforeSink \cup {"report", "logger", "router"}
Publishing == {"sync", "revalidate", "rename"}
Reporting  == {"dashStage", "dashMove", "dashCheck", "dashRename", "dashRemove"}
Ending     == {"return", "returned"}

(* Which owners a stage may still hold.                                    *)
OwnersInv ==
    /\ stage \in BeforeSink => SinkInit
    /\ held \subseteq {"router", "sink", "pool", "http", "time", "target", "logger"}
    /\ "sink" \in held => plan.file
    /\ "sink" \notin held => worker.pc \in {"none", "done"}
    /\ plan.file /\ stage \in {"report", "logger", "router", "engine", "finish", "wait"}
          => Alive
    /\ stage \in {"finish", "wait"} \cup Publishing => plan.file
    /\ stage \in {"finish", "wait"} => "router" \notin held
    /\ stage = "release" => held \cap {"router", "sink"} = {}
    /\ stage \in Publishing \cup Reporting \cup {"unstage"} => held \subseteq {"target"}
    /\ stage \in Ending \cup {"crashed"} => held = {}

(* The error that is being built follows the failures.                     *)
ErrorInv ==
    /\ IF raised = <<>> THEN error = NoError
       ELSE error.primary = Head(raised) /\ error.cleanup \in {raised, Tail(raised)}
    /\ stage \in Preparing \cup Publishing \cup Reporting \cup {"engine", "finish", "wait"}
          => raised = <<>>
    /\ stage \in {"fail", "failJoin"} => raised # <<>>

StagingReported == "Staging" \in error.primary \cup UNION Range(error.cleanup)
Publishable     == error.primary = {} \/ "dashboard" \in error.primary

(* What is on the disk.                                                    *)
DiskInv ==
    /\ disk.staged =>
          /\ stage \in Preparing \cup {"engine"} => "target" \in held
          /\ stage \in {"fail", "failJoin"} => "target" \in held \/ StagingReported
          /\ stage \in Ending => StagingReported
    /\ disk.visible = "new" =>
          /\ stage \in Reporting \cup Ending \cup {"unstage", "crashed"}
          /\ ~disk.staged /\ WholeFile /\ file.synced
          /\ Publishable
    /\ stage \in Reporting \/ disk.dash = "new" => disk.visible = "new"
    /\ stage \in Reporting => (disk.dash = "new" <=> stage = "dashRemove")
    /\ stage = "release" /\ plan.file /\ raised = <<>> => WholeFile
    /\ stage \in Publishing => WholeFile
    /\ stage \in {"revalidate", "rename"} => file.synced
    /\ file.lost => stage = "crashed" /\ ~file.synced

RunInv == TypeOK /\ SinkInv /\ OwnersInv /\ ErrorInv /\ DiskInv

(* Where a changed result and a dashboard moved aside can be found, and    *)
(* that the visible result is the admitted one until somebody changes it.  *)
Admitted == {"sink", "report", "logger", "router", "engine", "finish", "wait", "release"}
Late     == Reporting \cup Ending \cup {"unstage", "crashed"}

VisibleInv ==
    /\ disk.changed # "never" => stage \in {"revalidate", "rename"} \cup Late
    /\ plan.file /\ stage \in Admitted \cup Publishing /\ disk.changed = "never" =>
          disk.visible = disk.admitted
    /\ stage = "revalidate" /\ disk.changed # "never" => disk.visible # disk.admitted
    /\ stage = "rename" \/ disk.visible = "new" => disk.changed # "revalidate"
    /\ disk.oldDash # "none" => stage \in Late \ {"dashStage", "dashMove"}
    /\ stage \in {"dashCheck", "dashRename"} => disk.dash = "none"

-----------------------------------------------------------------------------
(* Sums of sizes.                                                          *)

Bytes(cs) == UNION {{e} \X (1 .. Size[e]) : e \in cs \cap Writes}

LEMMA BytesOf ==
    ASSUME NEW cs, NEW p
    PROVE  p \in Bytes(cs) <=> \E e \in cs \cap Writes : p \in {e} \X (1 .. Size[e])
BY DEF Bytes

LEMMA WritesFinite ==
    ASSUME NEW S, S \subseteq Writes
    PROVE  IsFiniteSet(S)
<1>1. IsFiniteSet(Writes)
  BY FS_Interval, JtlSinkAssumption DEF Writes
<1>2. S \in SUBSET Writes
  OBVIOUS
<1> QED
  BY <1>1, <1>2, FS_Subset

LEMMA BytesFinite ==
    ASSUME NEW cs
    PROVE  IsFiniteSet(Bytes(cs))
<1> DEFINE W == cs \cap Writes
           f == [e \in W |-> {e} \X (1 .. Size[e])]
           T == {{e} \X (1 .. Size[e]) : e \in W}
<1>1. IsFiniteSet(W)
  BY WritesFinite
<1>2. f \in Surjection(W, T)
  BY DEF Surjection
<1>3. IsFiniteSet(T)
  <2> HIDE DEF W, f, T
  <2> QED
    BY <1>1, <1>2, FS_Surjection
<1>4. ASSUME NEW t \in T PROVE IsFiniteSet(t)
  <2>1. PICK e \in W : t = {e} \X (1 .. Size[e])
    OBVIOUS
  <2>2. Size[e] \in Int
    BY JtlSinkAssumption
  <2>3. IsFiniteSet({e})
    BY FS_Singleton
  <2>4. IsFiniteSet(1 .. Size[e])
    BY <2>2, FS_Interval
  <2> QED
    BY <2>1, <2>3, <2>4, FS_Product
<1>5. IsFiniteSet(UNION T)
  <2> HIDE DEF T
  <2> QED
    BY <1>3, <1>4, FS_UNION
<1> QED
  BY <1>5 DEF Bytes

LEMMA TotalSizeType ==
    ASSUME NEW cs
    PROVE  TotalSize(cs) \in Nat
<1>1. TotalSize(cs) = Cardinality(Bytes(cs))
  BY DEF TotalSize, Bytes
<1> QED
  BY <1>1, BytesFinite, FS_CardinalityType

LEMMA TotalSizeMinus ==
    ASSUME NEW S, NEW A, A \cap Writes \subseteq S
    PROVE  /\ TotalSize(A) <= TotalSize(S)
           /\ TotalSize(S \ A) = TotalSize(S) - TotalSize(A)
<1>1. Bytes(A) \subseteq Bytes(S)
  BY BytesOf
<1>2. Bytes(S \ A) = Bytes(S) \ Bytes(A)
  <2>1. ASSUME NEW p \in Bytes(S \ A) PROVE p \in Bytes(S) /\ p \notin Bytes(A)
    BY BytesOf
  <2>2. ASSUME NEW p \in Bytes(S), p \notin Bytes(A) PROVE p \in Bytes(S \ A)
    BY <2>2, BytesOf
  <2> QED
    BY <2>1, <2>2
<1>3. Bytes(S) \cap Bytes(A) = Bytes(A)
  BY <1>1
<1>4. IsFiniteSet(Bytes(S)) /\ IsFiniteSet(Bytes(A))
  BY BytesFinite
<1>5. Cardinality(Bytes(A)) <= Cardinality(Bytes(S))
  BY <1>1, <1>4, FS_Subset
<1>6. Cardinality(Bytes(S) \ Bytes(A)) = Cardinality(Bytes(S)) - Cardinality(Bytes(A))
  <2>1. Cardinality(Bytes(S) \ Bytes(A))
          = Cardinality(Bytes(S)) - Cardinality(Bytes(S) \cap Bytes(A))
    BY <1>4, FS_Difference
  <2> QED
    BY <1>3, <2>1
<1> QED
  BY <1>2, <1>5, <1>6 DEF TotalSize, Bytes

LEMMA TotalSizeOne ==
    ASSUME NEW e \in Writes
    PROVE  TotalSize({e}) = Size[e]
<1>1. Size[e] \in Nat \ {0}
  BY JtlSinkAssumption
<1>2. Bytes({e}) = {e} \X (1 .. Size[e])
  BY BytesOf
<1>3. IsFiniteSet({e}) /\ Cardinality({e}) = 1
  BY FS_Singleton
<1>4. IsFiniteSet(1 .. Size[e]) /\ Cardinality(1 .. Size[e]) = Size[e]
  <2> DEFINE n == Size[e]
  <2>1. n \in Int /\ 1 \in Int /\ ~(1 > n) /\ n - 1 + 1 = n
    BY <1>1
  <2> HIDE DEF n
  <2>2. IsFiniteSet(1 .. n) /\ Cardinality(1 .. n) = n
    BY <2>1, FS_Interval
  <2> QED
    BY <2>2 DEF n
<1>5. Cardinality({e} \X (1 .. Size[e])) = Cardinality({e}) * Cardinality(1 .. Size[e])
  BY <1>3, <1>4, FS_Product
<1>6. 1 * Size[e] = Size[e]
  BY <1>1
<1> QED
  BY <1>2, <1>3, <1>4, <1>5, <1>6 DEF TotalSize, Bytes

(* What a set of held writes counts, when one joins it and when some leave.*)
LEMMA HeldPlus ==
    ASSUME NEW S, S \subseteq Writes, NEW e \in Writes, e \notin S
    PROVE  /\ Cardinality(S \cup {e}) = Cardinality(S) + 1
           /\ TotalSize(S \cup {e}) = TotalSize(S) + Size[e]
<1>1. IsFiniteSet(S)
  BY WritesFinite
<1>2. TotalSize((S \cup {e}) \ {e}) = TotalSize(S \cup {e}) - TotalSize({e})
  BY TotalSizeMinus
<1>3. (S \cup {e}) \ {e} = S
  OBVIOUS
<1>4. Size[e] \in Int /\ TotalSize(S \cup {e}) \in Int /\ TotalSize(S) \in Int
  BY TotalSizeType, JtlSinkAssumption
<1>5. TotalSize(S) = TotalSize(S \cup {e}) - Size[e]
  BY <1>2, <1>3, TotalSizeOne
<1>6. Cardinality(S \cup {e}) = Cardinality(S) + 1
  BY <1>1, FS_AddElement
<1> QED
  BY <1>4, <1>5, <1>6

LEMMA HeldMinus ==
    ASSUME NEW S, S \subseteq Writes, NEW A, A \cap Writes \subseteq S
    PROVE  /\ Cardinality(S) \in Nat /\ Cardinality(A \cap Writes) \in Nat
           /\ TotalSize(S) \in Nat /\ TotalSize(A) \in Nat
           /\ Cardinality(A \cap Writes) <= Cardinality(S) /\ TotalSize(A) <= TotalSize(S)
           /\ Cardinality(S \ A) = Cardinality(S) - Cardinality(A \cap Writes)
           /\ TotalSize(S \ A) = TotalSize(S) - TotalSize(A)
<1>1. IsFiniteSet(S)
  BY WritesFinite
<1>2. S \ A = S \ (A \cap Writes) /\ S \cap (A \cap Writes) = A \cap Writes
  OBVIOUS
<1>3. IsFiniteSet(A \cap Writes) /\ Cardinality(A \cap Writes) <= Cardinality(S)
  BY <1>1, FS_Subset
<1>4. Cardinality(S) \in Nat /\ Cardinality(A \cap Writes) \in Nat
  BY <1>1, <1>3, FS_CardinalityType
<1>5. Cardinality(S \ A) = Cardinality(S) - Cardinality(A \cap Writes)
  <2>1. Cardinality(S \ (A \cap Writes))
          = Cardinality(S) - Cardinality(S \cap (A \cap Writes))
    BY <1>1, FS_Difference
  <2> QED
    BY <1>2, <2>1
<1> QED
  BY <1>3, <1>4, <1>5, TotalSizeMinus, TotalSizeType

-----------------------------------------------------------------------------
(* Queues.                                                                 *)

LEMMA AppendQueue ==
    ASSUME NEW q \in Seq(Cmds), NEW c \in Cmds
    PROVE  /\ Append(q, c) \in Seq(Cmds) /\ Append(q, c) # <<>>
           /\ Len(q) \in Nat /\ DOMAIN q = 1 .. Len(q)
           /\ Len(Append(q, c)) = Len(q) + 1
           /\ DOMAIN Append(q, c) = 1 .. Len(q) + 1
           /\ \A i \in 1 .. Len(q) : Append(q, c)[i] = q[i]
           /\ Append(q, c)[Len(q) + 1] = c
           /\ Range(Append(q, c)) = Range(q) \cup {c}
<1>1. /\ Append(q, c) \in Seq(Cmds) /\ Append(q, c) # <<>>
      /\ Len(q) \in Nat /\ DOMAIN q = 1 .. Len(q)
      /\ Len(Append(q, c)) = Len(q) + 1
      /\ DOMAIN Append(q, c) = 1 .. Len(q) + 1
      /\ \A i \in 1 .. Len(q) : Append(q, c)[i] = q[i]
      /\ Append(q, c)[Len(q) + 1] = c
  OBVIOUS
<1>2. \A i \in 1 .. Len(q) + 1 : i \in 1 .. Len(q) \/ i = Len(q) + 1
  BY <1>1
<1>3. Len(q) + 1 \in 1 .. Len(q) + 1 /\ \A i \in 1 .. Len(q) : i \in 1 .. Len(q) + 1
  BY <1>1
<1>4. Range(Append(q, c)) = Range(q) \cup {c}
  BY <1>1, <1>2, <1>3 DEF Range
<1> QED
  BY <1>1, <1>4

LEMMA TailQueue ==
    ASSUME NEW q \in Seq(Cmds), q # <<>>,
           \A i, j \in DOMAIN q : q[i] = q[j] => i = j
    PROVE  /\ Tail(q) \in Seq(Cmds) /\ Head(q) \in Cmds /\ Head(q) = q[1]
           /\ Len(q) \in Nat /\ Len(q) >= 1 /\ DOMAIN q = 1 .. Len(q)
           /\ Len(Tail(q)) = Len(q) - 1 /\ DOMAIN Tail(q) = 1 .. Len(q) - 1
           /\ \A i \in 1 .. Len(q) - 1 : Tail(q)[i] = q[i + 1] /\ i + 1 \in 1 .. Len(q)
           /\ Range(Tail(q)) = Range(q) \ {Head(q)} /\ Head(q) \in Range(q)
<1>1. /\ Tail(q) \in Seq(Cmds) /\ Head(q) \in Cmds /\ Head(q) = q[1]
      /\ Len(q) \in Nat /\ Len(q) >= 1 /\ DOMAIN q = 1 .. Len(q)
      /\ Len(Tail(q)) = Len(q) - 1 /\ DOMAIN Tail(q) = 1 .. Len(q) - 1
      /\ \A i \in 1 .. Len(q) - 1 : Tail(q)[i] = q[i + 1] /\ i + 1 \in 1 .. Len(q)
  OBVIOUS
<1>2. /\ 1 \in DOMAIN q
      /\ \A i \in DOMAIN q : i = 1 \/ (i - 1 \in 1 .. Len(q) - 1 /\ i - 1 + 1 = i)
      /\ \A i \in 1 .. Len(q) - 1 : i + 1 # 1
  BY <1>1
<1>3. ASSUME NEW c \in Range(Tail(q)) PROVE c \in Range(q) /\ c # Head(q)
  BY <1>1, <1>2 DEF Range
<1>4. ASSUME NEW c \in Range(q), c # Head(q) PROVE c \in Range(Tail(q))
  BY <1>1, <1>2, <1>4 DEF Range
<1>5. Head(q) \in Range(q)
  BY <1>1, <1>2 DEF Range
<1> QED
  BY <1>1, <1>3, <1>4, <1>5

LEMMA EmptyQueue == Range(<<>>) = {} /\ DOMAIN <<>> = {} /\ <<>> \in Seq(Cmds)
BY DEF Range

LEMMA CmdFacts ==
    /\ NWrites \in Nat
    /\ \A e : e \in Writes <=> e \in Nat /\ 1 <= e /\ e <= NWrites
    /\ \A c : c \in Cmds <=> c \in Nat /\ 1 <= c /\ c <= NWrites + 2
    /\ Flush \in Cmds /\ Finish \in Cmds
    /\ Flush \notin Writes /\ Finish \notin Writes /\ Flush # Finish
    /\ NoCmd \notin Cmds /\ NoCmd \notin Writes /\ Ready \notin Cmds
    /\ Writes \subseteq Cmds
BY JtlSinkAssumption DEF Writes, Flush, Finish, Ready, Cmds, NoCmd

-----------------------------------------------------------------------------
(* Completions and permits.                                                *)

LEMMA CompleteFacts ==
    ASSUME done \in [Cmds \cup {Ready} -> {"None", "Ok"} \cup Errors],
           NEW cs, NEW r \in {"None", "Ok"} \cup Errors
    PROVE  /\ Complete(done, cs, r) \in [Cmds \cup {Ready} -> {"None", "Ok"} \cup Errors]
           /\ \A c \in Cmds : \/ Complete(done, cs, r)[c] = done[c]
                              \/ c \in cs /\ Complete(done, cs, r)[c] = r
BY DEF Complete

LEMMA ReleaseHeld ==
    ASSUME NEW st, NEW cs, NEW S, S \subseteq Writes, cs \cap Writes \subseteq S,
           st.items = Cardinality(S), st.bytes = TotalSize(S)
    PROVE  Release(st, cs)
             = [st EXCEPT !.items = Cardinality(S \ cs), !.bytes = TotalSize(S \ cs)]
<1>1. /\ Cardinality(S) \in Nat /\ Cardinality(cs \cap Writes) \in Nat
      /\ TotalSize(S) \in Nat /\ TotalSize(cs) \in Nat
      /\ Cardinality(cs \cap Writes) <= Cardinality(S) /\ TotalSize(cs) <= TotalSize(S)
      /\ Cardinality(S \ cs) = Cardinality(S) - Cardinality(cs \cap Writes)
      /\ TotalSize(S \ cs) = TotalSize(S) - TotalSize(cs)
  BY HeldMinus
<1>2. ~(st.items < Cardinality(cs \cap Writes) \/ st.bytes < TotalSize(cs))
  BY <1>1
<1> QED
  BY <1>1, <1>2 DEF Release

-----------------------------------------------------------------------------
(* Types, one variable at a time.                                          *)

StateType == [phase : {"Open", "Finishing"} \cup Terminal, queue : Seq(Cmds),
              active : Cmds \cup {NoCmd}, items : Nat, bytes : Nat,
              failure : {"None"} \cup Errors, panicked : BOOLEAN, invariant : BOOLEAN]
DoneType == [Cmds \cup {Ready} -> {"None", "Ok"} \cup Errors]
WorkerPcs == {"none", "init", "next", "parked", "check", "encode", "recheck", "settle",
              "clear", "finish", "fail", "panic", "drain", "exit", "done"}
WorkerType == [pc : WorkerPcs, cmd : Cmds \cup {NoCmd},
               outcome : {"None", "Ok"} \cup Errors,
               then : {"next", "finish", "fail", "panic"}, drained : SUBSET Cmds]
FileType == [events : Seq(Writes), closed : BOOLEAN, torn : BOOLEAN, synced : BOOLEAN,
             lost : BOOLEAN]
CancelType == [on : BOOLEAN, cmds : SUBSET Cmds, active : Cmds \cup {NoCmd}]

Typed == /\ state \in StateType /\ done \in DoneType /\ issued \subseteq Cmds
         /\ cancel \in CancelType /\ worker \in WorkerType /\ file \in FileType

LEMMA SinkTypes == (SinkTypeOK <=> Typed) /\ (SinkTypeOK' <=> Typed')
BY DEF SinkTypeOK, Typed, StateType, DoneType, WorkerPcs, WorkerType, FileType, CancelType

-----------------------------------------------------------------------------
(* The steps of the writer.                                                *)

LEMMA CheckCancelledKeeps ==
    ASSUME SinkInv, CheckCancelled
    PROVE  SinkInv'
<1>1. /\ UNCHANGED <<state, done, issued, cancel, file>>
      /\ worker.pc = "check" /\ worker'.cmd = worker.cmd /\ worker'.drained = worker.drained
      /\ \/ /\ state.phase = "Cancelled" /\ worker'.pc = "settle"
            /\ worker'.outcome = "Cancelled" /\ worker'.then = "fail"
         \/ /\ state.phase # "Cancelled" /\ worker'.pc = "encode"
            /\ worker'.outcome = worker.outcome /\ worker'.then = worker.then
  BY DEF CheckCancelled, SinkInv, SinkTypeOK
<1>2. SinkTypeOK'
  <2>1. worker' \in WorkerType
    BY SinkTypes DEF CheckCancelled, SinkInv, Typed, WorkerType, WorkerPcs, Errors
  <2> QED
    BY <1>1, <2>1, SinkTypes DEF SinkInv, Typed
<1>3. HoldersInv' /\ PermitsInv'
  BY <1>1 DEF SinkInv, HoldersInv, PermitsInv, HeldWrites
<1>4. PlaceInv'
  BY <1>1 DEF SinkInv, PlaceInv, Busy, Errors, Alive
<1>5. QueueInv'
  BY <1>1 DEF SinkInv, QueueInv
<1>6. FileInv'
  BY <1>1 DEF SinkInv, FileInv, Flows, Pending
<1>7. AckInv'
  BY <1>1 DEF SinkInv, AckInv, WholeFile
<1> QED
  BY <1>2, <1>3, <1>4, <1>5, <1>6, <1>7 DEF SinkInv

LEMMA NoCommandKeeps ==
    ASSUME SinkInv, NoCommand
    PROVE  SinkInv'
<1>1. /\ UNCHANGED <<state, done, issued, cancel, file>>
      /\ worker.pc = "next" /\ state.queue = <<>>
      /\ worker'.cmd = worker.cmd /\ worker'.drained = worker.drained
      /\ worker'.outcome = worker.outcome /\ worker'.then = worker.then
      /\ worker'.pc \in {"exit", "parked"}
  BY DEF NoCommand, Goto, SinkInv, SinkTypeOK
<1>2. SinkTypeOK'
  <2>1. worker' \in WorkerType
    BY SinkTypes DEF NoCommand, Goto, SinkInv, Typed, WorkerType, WorkerPcs
  <2> QED
    BY <1>1, <2>1, SinkTypes DEF SinkInv, Typed
<1>3. HoldersInv' /\ PermitsInv'
  BY <1>1 DEF SinkInv, HoldersInv, PermitsInv, HeldWrites
<1>4. PlaceInv'
  BY <1>1 DEF SinkInv, PlaceInv, Busy, Errors, Alive
<1>5. QueueInv'
  BY <1>1 DEF SinkInv, QueueInv
<1>6. FileInv'
  BY <1>1 DEF SinkInv, FileInv, Flows, Pending
<1>7. AckInv'
  BY <1>1 DEF SinkInv, AckInv, WholeFile
<1> QED
  BY <1>2, <1>3, <1>4, <1>5, <1>6, <1>7 DEF SinkInv

LEMMA RecheckKeeps ==
    ASSUME SinkInv, Recheck
    PROVE  SinkInv'
<1>1. /\ UNCHANGED <<state, done, issued, cancel, file>>
      /\ worker.pc = "recheck" /\ worker'.pc = "settle"
      /\ worker'.cmd = worker.cmd /\ worker'.drained = worker.drained
      /\ worker'.then = IF worker.cmd = Finish THEN "finish" ELSE "next"
      /\ worker'.outcome = IF state.phase = "Cancelled" /\ worker.cmd # Flush
                           THEN "Cancelled" ELSE "Ok"
  BY DEF Recheck, SinkInv, SinkTypeOK
<1>2. SinkTypeOK'
  <2>1. worker' \in WorkerType
    BY SinkTypes DEF Recheck, SinkInv, Typed, WorkerType, WorkerPcs, Errors
  <2> QED
    BY <1>1, <2>1, SinkTypes DEF SinkInv, Typed
<1>3. HoldersInv' /\ PermitsInv'
  BY <1>1 DEF SinkInv, HoldersInv, PermitsInv, HeldWrites
<1>4. PlaceInv'
  BY <1>1 DEF SinkInv, PlaceInv, Busy, Errors, Alive
<1>5. QueueInv'
  BY <1>1 DEF SinkInv, QueueInv
<1>6. FileInv'
  BY <1>1 DEF SinkInv, FileInv, Flows, Pending
<1>7. AckInv'
  BY <1>1, CmdFacts DEF SinkInv, AckInv, WholeFile
<1> QED
  BY <1>2, <1>3, <1>4, <1>5, <1>6, <1>7 DEF SinkInv

LEMMA CreateEncoderKeeps ==
    ASSUME SinkInv, NEW result \in Results, CreateEncoder(result)
    PROVE  SinkInv'
<1>1. /\ UNCHANGED <<state, issued, cancel, file>>
      /\ worker.pc = "init" /\ worker'.pc \in {"next", "fail", "panic"}
      /\ worker'.cmd = worker.cmd /\ worker'.drained = worker.drained
      /\ worker'.then = worker.then
      /\ worker'.pc # "next" => worker'.outcome = "Failed"
  BY DEF CreateEncoder, SinkInv, SinkTypeOK, Results, ErrorPath, Verdict
<1>2. Verdict(result) \in {"None", "Ok"} \cup Errors
  BY DEF Verdict, Errors
<1>3. done' \in DoneType /\ \A c \in Cmds : done'[c] = done[c]
  BY <1>2, CompleteFacts, CmdFacts, SinkTypes
     DEF CreateEncoder, SinkInv, Typed, DoneType
<1>4. SinkTypeOK'
  <2>1. (IF result = "Ok" THEN "next" ELSE ErrorPath[result]) \in WorkerPcs
    BY DEF Results, ErrorPath, WorkerPcs
  <2>2. worker' \in WorkerType
    BY <1>2, <2>1, SinkTypes DEF CreateEncoder, SinkInv, Typed, WorkerType
  <2> QED
    BY <1>1, <1>3, <2>2, SinkTypes DEF SinkInv, Typed
<1>5. HoldersInv' /\ PermitsInv'
  BY <1>1 DEF SinkInv, HoldersInv, PermitsInv, HeldWrites
<1>6. PlaceInv'
  BY <1>1 DEF SinkInv, PlaceInv, Busy, Errors, Alive
<1>7. QueueInv'
  BY <1>1 DEF SinkInv, QueueInv
<1>8. FileInv'
  BY <1>1 DEF SinkInv, FileInv, Flows, Pending
<1>9. AckInv'
  BY <1>1, <1>3, CmdFacts DEF SinkInv, AckInv, WholeFile
<1> QED
  BY <1>4, <1>5, <1>6, <1>7, <1>8, <1>9 DEF SinkInv

LEMMA SettleCommandKeeps ==
    ASSUME SinkInv, SettleCommand
    PROVE  SinkInv'
<1>1. /\ UNCHANGED <<state, issued, cancel, file>>
      /\ worker.pc = "settle" /\ worker'.pc = "clear"
      /\ worker'.cmd = worker.cmd /\ worker'.drained = worker.drained
      /\ worker'.then = worker.then /\ worker'.outcome = worker.outcome
  BY DEF SettleCommand, Goto, SinkInv, SinkTypeOK
<1>2. /\ done' \in DoneType
      /\ \A c \in Cmds : \/ done'[c] = done[c]
                         \/ c = worker.cmd /\ done'[c] = worker.outcome
  <2>1. done \in DoneType /\ worker.outcome \in {"None", "Ok"} \cup Errors
    BY SinkTypes DEF SinkInv, Typed, WorkerType
  <2>2. done' = Complete(done, {worker.cmd}, worker.outcome)
    BY DEF SettleCommand
  <2> DEFINE d == Complete(done, {worker.cmd}, worker.outcome)
  <2>3. d \in DoneType /\ \A c \in Cmds : \/ d[c] = done[c]
                                          \/ c \in {worker.cmd} /\ d[c] = worker.outcome
    BY <2>1, CompleteFacts DEF DoneType
  <2> HIDE DEF d
  <2> QED
    BY <2>2, <2>3 DEF d
<1>3. SinkTypeOK'
  <2>1. worker' \in WorkerType
    BY SinkTypes DEF SettleCommand, Goto, SinkInv, Typed, WorkerType, WorkerPcs
  <2> QED
    BY <1>1, <1>2, <2>1, SinkTypes DEF SinkInv, Typed
<1>4. HoldersInv' /\ PermitsInv'
  BY <1>1 DEF SinkInv, HoldersInv, PermitsInv, HeldWrites
<1>5. PlaceInv'
  BY <1>1 DEF SinkInv, PlaceInv, Busy, Errors, Alive
<1>6. QueueInv'
  BY <1>1 DEF SinkInv, QueueInv
<1>7. FileInv'
  BY <1>1 DEF SinkInv, FileInv, Flows, Pending
<1>8. AckInv'
  <2>1. worker.cmd # NoCmd /\ worker.cmd \in issued
    BY <1>1 DEF SinkInv, PlaceInv, HoldersInv, Busy
  <2>2. done'[Finish] = "Ok" => \/ done[Finish] = "Ok"
                                \/ worker.cmd = Finish /\ worker.outcome = "Ok"
    BY <1>2, CmdFacts
  <2>3. \A e \in Writes : done'[e] = "Ok" => \/ done[e] = "Ok"
                                             \/ worker.cmd = e /\ worker.outcome = "Ok"
    BY <1>2, CmdFacts
  <2> QED
    BY <1>1, <2>1, <2>2, <2>3 DEF SinkInv, AckInv, PlaceInv, WholeFile
<1> QED
  BY <1>3, <1>4, <1>5, <1>6, <1>7, <1>8 DEF SinkInv

LEMMA ExitWorkerKeeps ==
    ASSUME SinkInv, ExitWorker
    PROVE  SinkInv'
<1>1. /\ UNCHANGED <<done, issued, cancel, file>>
      /\ worker.pc = "exit" /\ worker'.pc = "done"
      /\ worker'.cmd = worker.cmd /\ worker'.drained = worker.drained
      /\ worker'.then = worker.then /\ worker'.outcome = worker.outcome
      /\ state'.phase = state.phase /\ state'.queue = state.queue
      /\ state'.items = state.items /\ state'.bytes = state.bytes
      /\ (state'.invariant <=> state.invariant) /\ (state'.panicked <=> state.panicked)
  BY DEF ExitWorker, Goto, SinkInv, SinkTypeOK
<1>2. SinkTypeOK'
  <2>1. worker' \in WorkerType
    BY SinkTypes DEF ExitWorker, Goto, SinkInv, Typed, WorkerType, WorkerPcs
  <2>2. state' \in StateType
    BY SinkTypes DEF ExitWorker, SinkInv, Typed, StateType
  <2> QED
    BY <1>1, <2>1, <2>2, SinkTypes DEF SinkInv, Typed
<1>3. HoldersInv' /\ PermitsInv'
  BY <1>1 DEF SinkInv, HoldersInv, PermitsInv, HeldWrites
<1>4. PlaceInv'
  BY <1>1 DEF SinkInv, PlaceInv, Busy, Errors, Alive
<1>5. QueueInv'
  BY <1>1 DEF SinkInv, QueueInv
<1>6. FileInv'
  BY <1>1 DEF SinkInv, FileInv, Flows, Pending
<1>7. AckInv'
  BY <1>1 DEF SinkInv, AckInv, WholeFile
<1> QED
  BY <1>2, <1>3, <1>4, <1>5, <1>6, <1>7 DEF SinkInv

LEMMA FinishSinkKeeps ==
    ASSUME SinkInv, FinishSink
    PROVE  SinkInv'
<1>1. /\ UNCHANGED <<done, issued, cancel, file>>
      /\ worker.pc = "finish" /\ worker'.pc = "exit"
      /\ worker'.cmd = worker.cmd /\ worker'.drained = worker.drained
      /\ worker'.then = worker.then /\ worker'.outcome = worker.outcome
      /\ state'.phase = IF state.phase = "Cancelled" THEN "Cancelled" ELSE "Finished"
      /\ state'.queue = state.queue
      /\ state'.items = state.items /\ state'.bytes = state.bytes
      /\ (state'.invariant <=> state.invariant) /\ (state'.panicked <=> state.panicked)
  BY DEF FinishSink, Goto, SinkInv, SinkTypeOK
<1>2. SinkTypeOK'
  <2>1. worker' \in WorkerType
    BY SinkTypes DEF FinishSink, Goto, SinkInv, Typed, WorkerType, WorkerPcs
  <2>2. state' \in StateType
    BY SinkTypes DEF FinishSink, SinkInv, Typed, StateType, Terminal
  <2> QED
    BY <1>1, <2>1, <2>2, SinkTypes DEF SinkInv, Typed
<1>3. HoldersInv' /\ PermitsInv'
  BY <1>1 DEF SinkInv, HoldersInv, PermitsInv, HeldWrites
<1>4. PlaceInv'
  BY <1>1 DEF SinkInv, PlaceInv, Busy, Errors, Alive, Terminal
<1>5. QueueInv'
  BY <1>1 DEF SinkInv, QueueInv
<1>6. FileInv'
  BY <1>1 DEF SinkInv, FileInv, Flows, Pending
<1>7. AckInv'
  BY <1>1 DEF SinkInv, AckInv, WholeFile
<1> QED
  BY <1>2, <1>3, <1>4, <1>5, <1>6, <1>7 DEF SinkInv

LEMMA TakeCommandKeeps ==
    ASSUME SinkInv, TakeCommand
    PROVE  SinkInv'
<1> DEFINE q == state.queue
<1>1. /\ UNCHANGED <<done, issued, cancel, file>>
      /\ worker.pc = "next" /\ worker'.pc = "check" /\ q # <<>>
      /\ worker'.cmd = Head(q) /\ worker'.drained = worker.drained
      /\ worker'.then = worker.then /\ worker'.outcome = worker.outcome
      /\ state'.phase = state.phase /\ state'.queue = Tail(q)
      /\ state'.items = state.items /\ state'.bytes = state.bytes
      /\ (state'.invariant <=> state.invariant) /\ (state'.panicked <=> state.panicked)
      /\ q \in Seq(Cmds)
  BY DEF TakeCommand, SinkInv, SinkTypeOK
<1>2. /\ Tail(q) \in Seq(Cmds) /\ Head(q) \in Cmds /\ Head(q) = q[1]
      /\ Len(q) \in Nat /\ Len(q) >= 1 /\ DOMAIN q = 1 .. Len(q)
      /\ Len(Tail(q)) = Len(q) - 1 /\ DOMAIN Tail(q) = 1 .. Len(q) - 1
      /\ \A i \in 1 .. Len(q) - 1 : Tail(q)[i] = q[i + 1] /\ i + 1 \in 1 .. Len(q)
      /\ Range(Tail(q)) = Range(q) \ {Head(q)} /\ Head(q) \in Range(q)
  BY <1>1, TailQueue DEF SinkInv, HoldersInv
<1>3. worker.cmd = NoCmd /\ worker.drained = {}
  BY <1>1 DEF SinkInv, PlaceInv, Busy
<1>4. SinkTypeOK'
  <2>1. worker' \in WorkerType
    BY <1>2, SinkTypes DEF TakeCommand, SinkInv, Typed, WorkerType, WorkerPcs
  <2>2. state' \in StateType
    BY <1>2, SinkTypes DEF TakeCommand, SinkInv, Typed, StateType
  <2> QED
    BY <1>1, <2>1, <2>2, SinkTypes DEF SinkInv, Typed
<1>5. HoldersInv'
  <2>1. ASSUME NEW i \in DOMAIN Tail(q), NEW j \in DOMAIN Tail(q), Tail(q)[i] = Tail(q)[j]
        PROVE  i = j
    <3>1. q[i + 1] = q[j + 1] /\ i + 1 \in DOMAIN q /\ j + 1 \in DOMAIN q
      BY <1>2, <2>1
    <3>2. i + 1 = j + 1 /\ i \in Int /\ j \in Int
      BY <1>2, <3>1 DEF SinkInv, HoldersInv
    <3> QED
      BY <3>2
  <2> QED
    BY <1>1, <1>2, <2>1 DEF SinkInv, HoldersInv
<1>6. PermitsInv'
  <2>1. HeldWrites' = HeldWrites
    BY <1>1, <1>2, <1>3, CmdFacts DEF HeldWrites
  <2> QED
    BY <1>1, <2>1 DEF SinkInv, PermitsInv
<1>7. PlaceInv'
  BY <1>1, <1>2, CmdFacts DEF SinkInv, PlaceInv, Busy, Errors, Alive
<1>8. QueueInv'
  <2>1. ASSUME NEW i \in DOMAIN Tail(q), NEW j \in DOMAIN Tail(q), i < j,
               Tail(q)[i] \in Writes, Tail(q)[j] \in Writes
        PROVE  Tail(q)[i] < Tail(q)[j]
    <3>1. /\ Tail(q)[i] = q[i + 1] /\ Tail(q)[j] = q[j + 1]
          /\ i + 1 \in DOMAIN q /\ j + 1 \in DOMAIN q
      BY <1>2
    <3>2. i + 1 < j + 1
      BY <1>2, <2>1
    <3> QED
      BY <2>1, <3>1, <3>2 DEF SinkInv, QueueInv
  <2>2. \A i \in DOMAIN Tail(q) : Tail(q)[i] = Finish => i = Len(Tail(q))
    BY <1>2 DEF SinkInv, QueueInv
  <2>3. Head(q) = Finish => Tail(q) = <<>>
    BY <1>2 DEF SinkInv, QueueInv
  <2> QED
    BY <1>1, <2>1, <2>2, <2>3 DEF SinkInv, QueueInv
<1>9. FileInv'
  <2>1. Flows
    BY <1>1 DEF Flows
  <2>2. \A e : Pending(e)' <=> Pending(e)
    BY <1>1, <1>2 DEF Pending
  <2>3. CASE Head(q) \in Writes
    <3>1. state.phase \in {"Open", "Finishing"}
      BY <1>1 DEF SinkInv, SinkTypeOK, PlaceInv, Terminal, Errors
    <3>2. /\ \A e \in issued \cap Writes : e > Len(file.events) <=> e \in Range(q)
          /\ \A e \in issued \cap Writes : 1 .. e \subseteq issued
          /\ Head(q) \in issued
      BY <1>1, <1>2, <2>1, <3>1 DEF SinkInv, FileInv, QueueInv, HoldersInv, Pending
    <3>3. Len(file.events) \in Nat
      BY SinkTypes DEF SinkInv, Typed, FileType
    <3>4. Head(q) \in Nat /\ Head(q) > Len(file.events)
      BY <1>2, <2>3, <3>2, CmdFacts
    <3> DEFINE e == Len(file.events) + 1
    <3>5. e \in 1 .. Head(q) /\ e > Len(file.events) /\ e \in Writes
      BY <2>3, <3>3, <3>4, CmdFacts
    <3>6. e \in Range(q)
      BY <2>3, <3>2, <3>5
    <3> HIDE DEF e
    <3>7. PICK k \in DOMAIN q : q[k] = e
      BY <3>6 DEF Range
    <3>8. Head(q) = e
      <4>1. CASE k = 1
        BY <1>2, <3>7, <4>1
      <4>2. CASE k # 1
        <5>1. 1 \in DOMAIN q /\ 1 < k
          BY <1>2, <4>2
        <5>2. Head(q) < e
          BY <1>2, <2>3, <3>5, <3>7, <5>1 DEF SinkInv, QueueInv
        <5> QED
          BY <3>3, <3>4, <5>2 DEF e
      <4> QED
        BY <4>1, <4>2
    <3> QED
      BY <1>1, <2>1, <2>2, <3>8 DEF SinkInv, FileInv, Flows, e
  <2>4. CASE Head(q) \notin Writes
    BY <1>1, <2>1, <2>2, <2>4 DEF SinkInv, FileInv, Flows
  <2> QED
    BY <2>3, <2>4
<1>10. AckInv'
  BY <1>1 DEF SinkInv, AckInv, WholeFile
<1> QED
  BY <1>4, <1>5, <1>6, <1>7, <1>8, <1>9, <1>10 DEF SinkInv

(* A call of the encoder that fails writes no event.                       *)
LEMMA EncodeFailsKeeps ==
    ASSUME SinkInv, NEW result \in Results, result # "Ok", Encode(result)
    PROVE  SinkInv'
<1>1. /\ UNCHANGED <<state, done, issued, cancel>>
      /\ worker.pc = "encode" /\ worker'.pc = "settle"
      /\ worker'.cmd = worker.cmd /\ worker'.drained = worker.drained
      /\ worker'.then \in {"fail", "panic"} /\ worker'.outcome = "Failed"
  BY DEF Encode, SinkInv, SinkTypeOK, Results, ErrorPath
<1>2. /\ file' \in FileType /\ file'.events = file.events /\ (file'.closed <=> file.closed)
  BY SinkTypes DEF Encode, Torn, SinkInv, Typed, FileType
<1>3. SinkTypeOK'
  <2>1. worker' = [worker EXCEPT !.outcome = "Failed", !.then = ErrorPath[result],
                                 !.pc = "settle"]
        /\ ErrorPath[result] \in {"fail", "panic"}
    BY DEF Encode, Results, ErrorPath
  <2>2. worker' \in WorkerType
    BY <2>1, SinkTypes DEF SinkInv, Typed, WorkerType, WorkerPcs, Errors
  <2> QED
    BY <1>1, <1>2, <2>2, SinkTypes DEF SinkInv, Typed
<1>4. HoldersInv' /\ PermitsInv'
  BY <1>1 DEF SinkInv, HoldersInv, PermitsInv, HeldWrites
<1>5. PlaceInv'
  BY <1>1 DEF SinkInv, PlaceInv, Busy, Errors, Alive
<1>6. QueueInv'
  BY <1>1 DEF SinkInv, QueueInv
<1>7. FileInv'
  BY <1>1, <1>2 DEF SinkInv, FileInv, Flows, Pending
<1>8. AckInv'
  BY <1>1, <1>2 DEF SinkInv, AckInv, WholeFile
<1> QED
  BY <1>3, <1>4, <1>5, <1>6, <1>7, <1>8 DEF SinkInv

(* One that succeeds appends the next event, or closes a file that has     *)
(* them all unless the sink is cancelled.                                  *)
LEMMA EncodeKeeps ==
    ASSUME SinkInv, NEW result \in Results, Encode(result)
    PROVE  SinkInv'
<1>1. CASE result # "Ok"
  BY <1>1, EncodeFailsKeeps
<1>2. CASE result = "Ok"
  <2> DEFINE n == Len(file.events)
  <2>1. /\ UNCHANGED <<state, done, issued, cancel>>
        /\ worker.pc = "encode" /\ worker'.pc = "recheck"
        /\ worker'.cmd = worker.cmd /\ worker'.drained = worker.drained
        /\ worker'.then = worker.then /\ worker'.outcome = worker.outcome
        /\ file' = Written(file, worker.cmd)
    BY <1>2 DEF Encode, SinkInv, SinkTypeOK
  <2>2. /\ file \in FileType /\ file.events \in Seq(Writes) /\ n \in Nat
        /\ DOMAIN file.events = 1 .. n
    BY SinkTypes DEF SinkInv, Typed, FileType
  <2>3. worker.cmd \in Cmds /\ worker.cmd \in issued /\ worker.cmd # NoCmd
    BY <2>1, SinkTypes DEF SinkInv, PlaceInv, HoldersInv, Busy, Typed, WorkerType
  <2>4. worker.cmd \in Writes \/ worker.cmd = Flush \/ worker.cmd = Finish
    BY <2>3, JtlSinkAssumption DEF Cmds, Writes, Flush, Finish
  <2>5. /\ ~file.torn /\ Flows
        /\ state.phase # "Cancelled" => state.phase \in {"Open", "Finishing"}
    BY <2>1 DEF SinkInv, FileInv, Flows, PlaceInv, SinkTypeOK, Terminal
  <2>6. worker' \in WorkerType
    BY <1>2, SinkTypes DEF Encode, SinkInv, Typed, WorkerType, WorkerPcs
  <2>7. HoldersInv' /\ PermitsInv'
    BY <2>1 DEF SinkInv, HoldersInv, PermitsInv, HeldWrites
  <2>8. PlaceInv'
    BY <2>1 DEF SinkInv, PlaceInv, Busy, Errors, Alive
  <2>9. QueueInv'
    BY <2>1 DEF SinkInv, QueueInv
  <2>10. CASE worker.cmd \in Writes
    <3>1. worker.cmd = n + 1
      BY <2>1, <2>10 DEF SinkInv, FileInv
    <3>2. file' = [file EXCEPT !.events = Append(@, n + 1), !.synced = FALSE]
      BY <2>1, <2>10, <3>1, CmdFacts DEF Written
    <3>3. file' \in FileType /\ file'.events = Append(file.events, n + 1) /\ ~file'.torn
      <4> DEFINE w == Append(file.events, n + 1)
      <4>1. w \in Seq(Writes)
        BY <2>2, <2>10, <3>1
      <4>2. file' = [file EXCEPT !.events = w, !.synced = FALSE]
        BY <3>2
      <4> HIDE DEF w
      <4>3. file' \in FileType /\ file'.events = w /\ ~file'.torn
        BY <2>2, <2>5, <4>1, <4>2 DEF FileType
      <4> QED
        BY <4>3 DEF w
    <3>4. /\ Len(file'.events) = n + 1 /\ DOMAIN file'.events = 1 .. n + 1
          /\ \A i \in 1 .. n : file'.events[i] = file.events[i]
          /\ file'.events[n + 1] = n + 1
      BY <2>2, <2>10, <3>1, <3>3
    <3>5. FileInv'
      <4>1. \A i \in DOMAIN file'.events : file'.events[i] = i
        BY <2>2, <3>4 DEF SinkInv, FileInv
      <4>2. 1 .. n + 1 \subseteq issued
        BY <2>2, <2>3, <3>1 DEF SinkInv, FileInv
      <4>3. ASSUME state.phase \in {"Open", "Finishing"}, NEW e \in issued \cap Writes
            PROVE  e > n + 1 <=> e \in Range(state.queue)
        <5>1. e > n <=> e \in Range(state.queue) \/ e = n + 1
          BY <2>1, <2>5, <3>1, <4>3 DEF SinkInv, FileInv, Pending
        <5>2. n + 1 \notin Range(state.queue)
          BY <3>1 DEF SinkInv, HoldersInv
        <5>3. e \in Int
          BY CmdFacts
        <5> QED
          BY <2>2, <5>1, <5>2, <5>3
      <4> QED
        BY <2>1, <3>3, <3>4, <4>1, <4>2, <4>3 DEF FileInv, Pending
    <3>6. AckInv'
      BY <2>1, <2>2, <2>10, <3>1, <3>4, CmdFacts DEF SinkInv, AckInv, WholeFile
    <3> QED
      BY <2>1, <2>6, <2>7, <2>8, <2>9, <3>3, <3>5, <3>6, SinkTypes DEF SinkInv, Typed
  <2>11. CASE worker.cmd \notin Writes
    <3>1. /\ file' \in FileType /\ file'.events = file.events /\ (file'.torn <=> file.torn)
          /\ worker.cmd = Finish => file'.closed
      <4>1. CASE worker.cmd = Flush
        BY <2>1, <2>2, <2>11, <4>1, CmdFacts DEF Written
      <4>2. CASE worker.cmd = Finish
        <5>1. file' = [file EXCEPT !.closed = TRUE, !.synced = FALSE]
          BY <2>1, <4>2, CmdFacts DEF Written
        <5> QED
          BY <2>2, <4>2, <5>1 DEF FileType
      <4> QED
        BY <2>4, <2>11, <4>1, <4>2
    <3>2. FileInv'
      BY <2>1, <2>5, <2>11, <3>1 DEF SinkInv, FileInv, Flows, Pending
    <3>3. ASSUME worker.cmd = Finish, state.phase # "Cancelled",
                 NEW e \in issued \cap Writes
          PROVE  e \in 1 .. n
      <4>1. ~Pending(e)
        BY <2>1, <2>11, <3>3, EmptyQueue DEF SinkInv, QueueInv, Pending
      <4>2. ~(e > n) /\ e \in Nat /\ e >= 1
        BY <2>5, <3>3, <4>1, CmdFacts DEF SinkInv, FileInv
      <4> QED
        BY <2>2, <4>2
    <3>4. AckInv'
      BY <2>1, <2>5, <2>11, <3>1, <3>3 DEF SinkInv, AckInv, WholeFile
    <3> QED
      BY <2>1, <2>6, <2>7, <2>8, <2>9, <3>1, <3>2, <3>4, SinkTypes DEF SinkInv, Typed
  <2> QED
    BY <2>10, <2>11
<1> QED
  BY <1>1, <1>2

LEMMA ClearCommandKeeps ==
    ASSUME SinkInv, ClearCommand
    PROVE  SinkInv'
<1> DEFINE st == [state EXCEPT !.active = IF @ = worker.cmd THEN NoCmd ELSE @]
           S  == HeldWrites \ {worker.cmd}
<1>1. /\ UNCHANGED <<done, issued, cancel, file>>
      /\ worker.pc = "clear" /\ worker'.pc = worker.then
      /\ worker'.cmd = NoCmd /\ worker'.drained = worker.drained
      /\ worker'.then = worker.then /\ worker'.outcome = worker.outcome
      /\ worker.then \in {"next", "finish", "fail", "panic"}
  BY DEF ClearCommand, SinkInv, SinkTypeOK
<1>2. /\ st \in StateType /\ st.items = state.items /\ st.bytes = state.bytes
      /\ st.phase = state.phase /\ st.queue = state.queue
      /\ (st.invariant <=> state.invariant) /\ (st.panicked <=> state.panicked)
  BY SinkTypes DEF SinkInv, Typed, StateType
<1>3. state' = [st EXCEPT !.items = Cardinality(S), !.bytes = TotalSize(S)]
  <2>1. HeldWrites \subseteq Writes /\ {worker.cmd} \cap Writes \subseteq HeldWrites
    BY DEF HeldWrites
  <2>2. st.items = Cardinality(HeldWrites) /\ st.bytes = TotalSize(HeldWrites)
    BY <1>2 DEF SinkInv, PermitsInv
  <2>3. state' = Release(st, {worker.cmd})
    BY DEF ClearCommand
  <2> HIDE DEF st
  <2> QED
    BY <2>1, <2>2, <2>3, ReleaseHeld
<1>4. Cardinality(S) \in Nat /\ TotalSize(S) \in Nat
  BY HeldMinus DEF HeldWrites
<1>5. /\ state' \in StateType /\ state'.items = Cardinality(S) /\ state'.bytes = TotalSize(S)
      /\ state'.phase = state.phase /\ state'.queue = state.queue
      /\ (state'.invariant <=> state.invariant) /\ (state'.panicked <=> state.panicked)
  <2> HIDE DEF st, S
  <2> QED
    BY <1>2, <1>3, <1>4 DEF StateType
<1>6. SinkTypeOK'
  <2>1. worker' \in WorkerType
    BY <1>1, SinkTypes DEF ClearCommand, SinkInv, Typed, WorkerType, WorkerPcs
  <2> QED
    BY <1>1, <1>5, <2>1, SinkTypes DEF SinkInv, Typed
<1>7. HoldersInv'
  <2>1. NoCmd \notin Range(state.queue) \cup worker.drained \cup cancel.cmds
    BY CmdFacts, SinkTypes DEF SinkInv, HoldersInv, Typed
  <2> QED
    BY <1>1, <1>5, <2>1 DEF SinkInv, HoldersInv
<1>8. PermitsInv'
  <2>1. HeldWrites' = S
    BY <1>1, <1>5, CmdFacts DEF SinkInv, HoldersInv, HeldWrites
  <2> HIDE DEF S
  <2> QED
    BY <1>5, <2>1 DEF SinkInv, PermitsInv
<1>9. PlaceInv'
  BY <1>1, <1>5 DEF SinkInv, PlaceInv, Busy, Errors, Alive
<1>10. QueueInv'
  BY <1>1, <1>5, CmdFacts DEF SinkInv, QueueInv
<1>11. FileInv'
  BY <1>1, <1>5 DEF SinkInv, FileInv, Flows, Pending
<1>12. AckInv'
  BY <1>1, <1>5 DEF SinkInv, AckInv, WholeFile
<1> QED
  BY <1>6, <1>7, <1>8, <1>9, <1>10, <1>11, <1>12 DEF SinkInv

LEMMA FailSinkKeeps ==
    ASSUME SinkInv, FailSink
    PROVE  SinkInv'
<1>1. worker.outcome \in Errors
  BY DEF FailSink, SinkInv, PlaceInv
<1>2. /\ UNCHANGED <<done, issued, cancel, file>>
      /\ worker.pc \in {"fail", "panic"} /\ worker'.pc = "drain"
      /\ worker'.cmd = worker.cmd /\ worker'.drained = Range(state.queue)
      /\ worker'.then = worker.then /\ worker'.outcome = worker.outcome
  BY DEF FailSink, SinkInv, SinkTypeOK
<1>3. /\ state' \in StateType /\ state'.phase = "Failed" /\ state'.queue = <<>>
      /\ state'.items = state.items /\ state'.bytes = state.bytes
      /\ state'.invariant <=> state.invariant \/ worker.pc = "panic"
      /\ state'.panicked <=> state.panicked \/ worker.pc = "panic"
  <2>1. PICK f \in {"None"} \cup Errors, b \in BOOLEAN :
           /\ state' = [state EXCEPT !.phase = "Failed", !.queue = <<>>, !.failure = f,
                          !.panicked = @ \/ b, !.invariant = @ \/ b]
           /\ b <=> worker.pc = "panic"
    <3>1. state.failure \in {"None"} \cup Errors /\ "Failed" \in Errors
      BY SinkTypes DEF SinkInv, Typed, StateType, Errors
    <3> QED
      BY <1>1, <3>1 DEF FailSink
  <2> DEFINE p == state.panicked \/ b
             v == state.invariant \/ b
  <2>2. state' = [state EXCEPT !.phase = "Failed", !.queue = <<>>, !.failure = f,
                    !.panicked = p, !.invariant = v]
        /\ p \in BOOLEAN /\ v \in BOOLEAN
    BY <2>1
  <2> HIDE DEF p, v
  <2>3. /\ state' \in StateType /\ state'.phase = "Failed" /\ state'.queue = <<>>
        /\ state'.items = state.items /\ state'.bytes = state.bytes
        /\ (state'.invariant <=> v) /\ (state'.panicked <=> p)
    BY <2>2, EmptyQueue, SinkTypes DEF SinkInv, Typed, StateType, Terminal
  <2> QED
    BY <2>1, <2>3 DEF p, v
<1>4. worker.cmd = NoCmd /\ worker.drained = {}
  BY <1>2 DEF SinkInv, PlaceInv, Busy
<1>5. SinkTypeOK'
  <2>1. Range(state.queue) \subseteq Cmds
    BY SinkTypes DEF SinkInv, HoldersInv, Typed
  <2>2. worker' \in WorkerType
    BY <2>1, SinkTypes DEF FailSink, SinkInv, Typed, WorkerType, WorkerPcs
  <2> QED
    BY <1>2, <1>3, <2>2, SinkTypes DEF SinkInv, Typed
<1>6. HoldersInv'
  BY <1>2, <1>3, EmptyQueue DEF SinkInv, HoldersInv
<1>7. PermitsInv'
  <2>1. HeldWrites' = HeldWrites
    BY <1>2, <1>3, <1>4, EmptyQueue DEF HeldWrites
  <2> QED
    BY <1>2, <1>3, <2>1 DEF SinkInv, PermitsInv
<1>8. PlaceInv'
  BY <1>1, <1>2, <1>3 DEF SinkInv, PlaceInv, Busy, Alive, Terminal
<1>9. QueueInv'
  BY <1>2, <1>3, EmptyQueue DEF SinkInv, QueueInv
<1>10. FileInv'
  BY <1>2, <1>3 DEF SinkInv, FileInv, Flows, Pending
<1>11. AckInv'
  BY <1>2, <1>3 DEF SinkInv, AckInv, WholeFile
<1> QED
  BY <1>5, <1>6, <1>7, <1>8, <1>9, <1>10, <1>11 DEF SinkInv

LEMMA SettleDrainedKeeps ==
    ASSUME SinkInv, SettleDrained
    PROVE  SinkInv'
<1> DEFINE S == HeldWrites \ worker.drained
<1>1. worker.outcome \in Errors
  BY DEF SettleDrained, SinkInv, PlaceInv
<1>2. /\ UNCHANGED <<issued, cancel, file>>
      /\ worker.pc = "drain" /\ worker'.pc = "exit"
      /\ worker'.cmd = worker.cmd /\ worker'.drained = {}
      /\ worker'.then = worker.then /\ worker'.outcome = worker.outcome
  BY DEF SettleDrained, SinkInv, SinkTypeOK
<1>3. state' = [state EXCEPT !.items = Cardinality(S), !.bytes = TotalSize(S)]
  <2>1. HeldWrites \subseteq Writes /\ worker.drained \cap Writes \subseteq HeldWrites
    BY DEF HeldWrites
  <2>2. state.items = Cardinality(HeldWrites) /\ state.bytes = TotalSize(HeldWrites)
    BY DEF SinkInv, PermitsInv
  <2>3. state' = Release(state, worker.drained)
    BY DEF SettleDrained
  <2> DEFINE dr == worker.drained
  <2>4. Release(state, dr) = [state EXCEPT !.items = Cardinality(HeldWrites \ dr),
                                           !.bytes = TotalSize(HeldWrites \ dr)]
    <3>1. dr \cap Writes \subseteq HeldWrites
      BY <2>1
    <3> HIDE DEF dr
    <3> QED
      BY <2>1, <2>2, <3>1, ReleaseHeld
  <2> QED
    BY <2>3, <2>4
<1>4. Cardinality(S) \in Nat /\ TotalSize(S) \in Nat
  BY HeldMinus DEF HeldWrites
<1>5. /\ state' \in StateType /\ state'.items = Cardinality(S) /\ state'.bytes = TotalSize(S)
      /\ state'.phase = state.phase /\ state'.queue = state.queue
      /\ (state'.invariant <=> state.invariant) /\ (state'.panicked <=> state.panicked)
  <2> HIDE DEF S
  <2> QED
    BY <1>3, <1>4, SinkTypes DEF SinkInv, Typed, StateType
<1>6. done' \in DoneType /\ \A c \in Cmds : done'[c] = "Ok" => done[c] = "Ok"
  <2> DEFINE cs == worker.drained \cup {Ready}
             d  == Complete(done, cs, worker.outcome)
  <2>1. done \in DoneType /\ worker.outcome \in {"None", "Ok"} \cup Errors
    BY <1>1, SinkTypes DEF SinkInv, Typed
  <2>2. done' = d
    BY DEF SettleDrained
  <2> HIDE DEF cs
  <2>3. d \in DoneType /\ \A c \in Cmds : d[c] = done[c] \/ d[c] = worker.outcome
    BY <2>1, CompleteFacts DEF DoneType
  <2> HIDE DEF d
  <2> QED
    BY <1>1, <2>2, <2>3 DEF Errors
<1>7. SinkTypeOK'
  <2>1. worker' \in WorkerType
    BY SinkTypes DEF SettleDrained, SinkInv, Typed, WorkerType, WorkerPcs
  <2> QED
    BY <1>2, <1>5, <1>6, <2>1, SinkTypes DEF SinkInv, Typed
<1>8. HoldersInv'
  BY <1>2, <1>5 DEF SinkInv, HoldersInv
<1>9. PermitsInv'
  <2>1. HeldWrites' = S
    BY <1>2, <1>5 DEF SinkInv, HoldersInv, HeldWrites
  <2> HIDE DEF S
  <2> QED
    BY <1>5, <2>1 DEF SinkInv, PermitsInv
<1>10. PlaceInv'
  BY <1>2, <1>5 DEF SinkInv, PlaceInv, Busy, Errors, Alive
<1>11. QueueInv'
  BY <1>2, <1>5 DEF SinkInv, QueueInv
<1>12. FileInv'
  BY <1>2, <1>5 DEF SinkInv, FileInv, Flows, Pending
<1>13. AckInv'
  BY <1>2, <1>5, <1>6, CmdFacts DEF SinkInv, AckInv, WholeFile
<1> QED
  BY <1>7, <1>8, <1>9, <1>10, <1>11, <1>12, <1>13 DEF SinkInv

(* The writer thread.                                                      *)
LEMMA WorkerStepKeeps ==
    ASSUME SinkInv, WorkerStep
    PROVE  SinkInv'
BY CreateEncoderKeeps, EncodeKeeps, TakeCommandKeeps, NoCommandKeeps, CheckCancelledKeeps,
   RecheckKeeps, SettleCommandKeeps, ClearCommandKeeps, FinishSinkKeeps, FailSinkKeeps,
   SettleDrainedKeeps, ExitWorkerKeeps
   DEF WorkerStep

-----------------------------------------------------------------------------
(* The steps of the run thread at the sink.                                *)

LEMMA NotifiedFacts ==
    ASSUME worker \in WorkerType, worker' = Notified
    PROVE  /\ worker' \in WorkerType /\ worker'.cmd = worker.cmd
           /\ worker'.drained = worker.drained /\ worker'.then = worker.then
           /\ worker'.outcome = worker.outcome
           /\ \/ worker'.pc = worker.pc
              \/ worker.pc = "parked" /\ worker'.pc = "next"
BY DEF Notified, WorkerType, WorkerPcs

(* A command that was not issued before joins the queue of an open sink.   *)
Enqueues(c) ==
    /\ c \notin issued /\ state.phase = "Open" /\ (c \in Writes => 1 .. c - 1 \subseteq issued)
    /\ state' \in StateType /\ state'.queue = Append(state.queue, c)
    /\ state'.phase = IF c = Finish THEN "Finishing" ELSE "Open"
    /\ state'.items = IF c \in Writes THEN state.items + 1 ELSE state.items
    /\ state'.bytes = IF c \in Writes THEN state.bytes + Size[c] ELSE state.bytes
    /\ (state'.invariant <=> state.invariant) /\ (state'.panicked <=> state.panicked)
    /\ issued' = issued \cup {c} /\ worker' = Notified
    /\ UNCHANGED <<done, cancel, file>>

LEMMA EnqueuesKeeps ==
    ASSUME SinkInv, Alive, NEW c \in Cmds, Enqueues(c)
    PROVE  SinkInv'
<1> DEFINE q == state.queue
<1>1. /\ worker' \in WorkerType /\ worker'.cmd = worker.cmd
      /\ worker'.drained = worker.drained /\ worker'.then = worker.then
      /\ worker'.outcome = worker.outcome
      /\ \/ worker'.pc = worker.pc
         \/ worker.pc = "parked" /\ worker'.pc = "next"
  BY NotifiedFacts, SinkTypes DEF SinkInv, Typed, Enqueues
<1>2. /\ UNCHANGED <<done, cancel, file>> /\ issued' = issued \cup {c}
      /\ c \notin issued /\ state.phase = "Open" /\ state'.queue = Append(q, c)
      /\ state'.phase = IF c = Finish THEN "Finishing" ELSE "Open"
  BY DEF Enqueues
<1>3. /\ q \in Seq(Cmds) /\ Append(q, c) # <<>>
      /\ Len(q) \in Nat /\ DOMAIN q = 1 .. Len(q)
      /\ Len(Append(q, c)) = Len(q) + 1
      /\ DOMAIN Append(q, c) = 1 .. Len(q) + 1
      /\ \A i \in 1 .. Len(q) : Append(q, c)[i] = q[i]
      /\ Append(q, c)[Len(q) + 1] = c
      /\ Range(Append(q, c)) = Range(q) \cup {c}
  <2>1. q \in Seq(Cmds)
    BY SinkTypes DEF SinkInv, Typed, StateType
  <2> HIDE DEF q
  <2> QED
    BY <2>1, AppendQueue
<1>4. /\ c \notin Range(q) \cup worker.drained \cup cancel.cmds /\ c # worker.cmd
      /\ \A i \in 1 .. Len(q) : q[i] \in issued /\ q[i] # c
  BY <1>2, <1>3, CmdFacts DEF SinkInv, HoldersInv, Range
<1>5. Finish \notin issued /\ worker.cmd # Finish
  BY <1>2, CmdFacts DEF SinkInv, PlaceInv, HoldersInv
<1>6. \A i \in 1 .. Len(q) + 1 : i \in 1 .. Len(q) \/ i = Len(q) + 1
  BY <1>3
<1>7. SinkTypeOK'
  BY <1>1, <1>2, SinkTypes DEF SinkInv, Typed, Enqueues
<1>8. HoldersInv'
  <2>1. \A i, j \in DOMAIN Append(q, c) : Append(q, c)[i] = Append(q, c)[j] => i = j
    BY <1>3, <1>4, <1>6 DEF SinkInv, HoldersInv
  <2> QED
    BY <1>1, <1>2, <1>3, <1>4, <2>1 DEF SinkInv, HoldersInv
<1>9. PermitsInv'
  <2>1. CASE c \in Writes
    <3>1. HeldWrites' = HeldWrites \cup {c} /\ c \notin HeldWrites /\ HeldWrites \subseteq Writes
      BY <1>1, <1>2, <1>3, <1>4, <2>1 DEF HeldWrites
    <3> QED
      BY <2>1, <3>1, HeldPlus DEF SinkInv, PermitsInv, Enqueues
  <2>2. CASE c \notin Writes
    <3>1. HeldWrites' = HeldWrites
      BY <1>1, <1>2, <1>3, <2>2 DEF HeldWrites
    <3> QED
      BY <2>2, <3>1 DEF SinkInv, PermitsInv, Enqueues
  <2> QED
    BY <2>1, <2>2
<1>10. PlaceInv'
  BY <1>1, <1>2, <1>5 DEF SinkInv, PlaceInv, Busy, Errors, Terminal, Alive
<1>11. \A e \in issued \cap Writes : c \in Writes => e < c
  <2>1. ASSUME NEW e \in issued \cap Writes, c \in Writes PROVE e < c
    <3>1. 1 .. e \subseteq issued /\ c \notin 1 .. e /\ e \in Nat /\ c \in Nat /\ c >= 1
      BY <1>2, <2>1, CmdFacts DEF SinkInv, QueueInv
    <3> QED
      BY <3>1
  <2> QED
    BY <2>1
<1>12. QueueInv'
  <2>1. ASSUME NEW i \in DOMAIN Append(q, c), NEW j \in DOMAIN Append(q, c), i < j,
               Append(q, c)[i] \in Writes, Append(q, c)[j] \in Writes
        PROVE  Append(q, c)[i] < Append(q, c)[j]
    <3>1. i \in 1 .. Len(q)
      BY <1>3, <1>6, <2>1
    <3>2. CASE j \in 1 .. Len(q)
      BY <1>3, <2>1, <3>1, <3>2 DEF SinkInv, QueueInv
    <3>3. CASE j = Len(q) + 1
      BY <1>3, <1>4, <1>11, <2>1, <3>1, <3>3
    <3> QED
      BY <1>3, <1>6, <3>2, <3>3
  <2>2. \A i \in DOMAIN Append(q, c) : Append(q, c)[i] = Finish => i = Len(Append(q, c))
    BY <1>3, <1>4, <1>5, <1>6
  <2>3. \A e \in issued' \cap Writes : 1 .. e \subseteq issued'
    <3>1. c \in Writes => 1 .. c \subseteq issued'
      <4>1. c \in Writes => \A i \in 1 .. c : i \in 1 .. c - 1 \/ i = c
        BY CmdFacts
      <4> QED
        BY <1>2, <4>1 DEF Enqueues
    <3> QED
      BY <1>2, <3>1 DEF SinkInv, QueueInv
  <2> QED
    BY <1>1, <1>2, <1>5, <2>1, <2>2, <2>3 DEF QueueInv
<1>13. FileInv'
  <2>1. Flows' <=> Flows
    BY <1>1 DEF Flows
  <2>2. \A e : Pending(e)' <=> Pending(e) \/ e = c
    BY <1>1, <1>2, <1>3 DEF Pending
  <2>3. c \in Writes => c > Len(file.events)
    <3>1. Len(file.events) \in Nat /\ c \notin 1 .. Len(file.events)
      BY <1>2, SinkTypes DEF SinkInv, Typed, FileType, FileInv
    <3> QED
      BY <3>1, CmdFacts
  <2>4. ASSUME Flows, NEW e \in issued' \cap Writes
        PROVE  e > Len(file.events) <=> Pending(e)'
    BY <1>2, <2>2, <2>3, <2>4 DEF SinkInv, FileInv
  <2> QED
    BY <1>1, <1>2, <2>1, <2>4 DEF SinkInv, FileInv
<1>14. AckInv'
  BY <1>1, <1>2, <1>5 DEF SinkInv, AckInv
<1> QED
  BY <1>7, <1>8, <1>9, <1>10, <1>12, <1>13, <1>14 DEF SinkInv

LEMMA EnqueueWriteKeeps ==
    ASSUME SinkInv, Alive, NEW e \in Writes, EnqueueWrite(e)
    PROVE  SinkInv'
<1> DEFINE q == Append(state.queue, e)
           i == state.items + 1
           b == state.bytes + Size[e]
<1>1. state \in StateType /\ e \in Cmds /\ e # Finish
  BY CmdFacts, SinkTypes DEF SinkInv, Typed
<1>2. q \in Seq(Cmds) /\ i \in Nat /\ b \in Nat
  BY <1>1, JtlSinkAssumption DEF StateType
<1>3. state' = [state EXCEPT !.items = i, !.bytes = b, !.queue = q]
  BY DEF EnqueueWrite
<1>4. /\ state' \in StateType /\ state'.queue = q /\ state'.items = i /\ state'.bytes = b
      /\ state'.phase = state.phase
      /\ (state'.invariant <=> state.invariant) /\ (state'.panicked <=> state.panicked)
  <2> HIDE DEF q, i, b
  <2> QED
    BY <1>1, <1>2, <1>3 DEF StateType
<1>5. Enqueues(e)
  BY <1>1, <1>4 DEF EnqueueWrite, Enqueues
<1> QED
  BY <1>1, <1>5, EnqueuesKeeps

LEMMA EnqueueFlushKeeps ==
    ASSUME SinkInv, Alive, EnqueueFlush
    PROVE  SinkInv'
<1> DEFINE q == Append(state.queue, Flush)
<1>1. state \in StateType /\ Flush \in Cmds /\ Flush # Finish /\ Flush \notin Writes
  BY CmdFacts, SinkTypes DEF SinkInv, Typed
<1>2. q \in Seq(Cmds)
  BY <1>1 DEF StateType
<1>3. state' = [state EXCEPT !.queue = q]
  BY DEF EnqueueFlush
<1>4. /\ state' \in StateType /\ state'.queue = q /\ state'.items = state.items
      /\ state'.bytes = state.bytes /\ state'.phase = state.phase
      /\ (state'.invariant <=> state.invariant) /\ (state'.panicked <=> state.panicked)
  <2> HIDE DEF q
  <2> QED
    BY <1>1, <1>2, <1>3 DEF StateType
<1>5. Enqueues(Flush)
  BY <1>1, <1>4 DEF EnqueueFlush, Enqueues
<1> QED
  BY <1>1, <1>5, EnqueuesKeeps

LEMMA EnqueueFinishKeeps ==
    ASSUME SinkInv, Alive, EnqueueFinish
    PROVE  SinkInv'
<1>1. /\ UNCHANGED <<cancel, file>> /\ issued' = issued \cup {Finish}
      /\ Finish \in Cmds /\ Finish \notin Writes
  BY CmdFacts DEF EnqueueFinish
<1>2. CASE Finish \in issued
  <2>1. UNCHANGED sinkVars
    BY <1>1, <1>2 DEF EnqueueFinish, sinkVars
  <2> QED
    BY <2>1 DEF sinkVars, SinkInv, SinkTypeOK, HoldersInv, PermitsInv, HeldWrites, PlaceInv,
                Alive, QueueInv, FileInv, Flows, Pending, AckInv, WholeFile
<1>3. CASE Finish \notin issued /\ state.phase = "Open"
  <2> DEFINE q == Append(state.queue, Finish)
  <2>1. state \in StateType
    BY SinkTypes DEF SinkInv, Typed
  <2>2. q \in Seq(Cmds)
    BY <1>1, <2>1 DEF StateType
  <2>3. /\ state' = [state EXCEPT !.phase = "Finishing", !.queue = q]
        /\ worker' = Notified /\ UNCHANGED done
    BY <1>3 DEF EnqueueFinish
  <2>4. /\ state' \in StateType /\ state'.queue = q /\ state'.items = state.items
        /\ state'.bytes = state.bytes /\ state'.phase = "Finishing"
        /\ (state'.invariant <=> state.invariant) /\ (state'.panicked <=> state.panicked)
    <3> HIDE DEF q
    <3> QED
      BY <2>1, <2>2, <2>3 DEF StateType
  <2>5. Enqueues(Finish)
    BY <1>1, <1>3, <2>3, <2>4 DEF Enqueues
  <2> QED
    BY <1>1, <2>5, EnqueuesKeeps
<1>4. CASE Finish \notin issued /\ state.phase # "Open"
  <2> DEFINE r == IF state.phase = "Cancelled" THEN "Cancelled" ELSE state.failure
             d == Complete(done, {Finish}, r)
  <2>1. UNCHANGED <<state, worker>> /\ done' = d /\ state.phase \in Errors
    BY <1>4 DEF EnqueueFinish, Errors
  <2>2. r \in {"None", "Ok"} \cup Errors /\ r # "Ok" /\ done \in DoneType
    BY SinkTypes DEF SinkInv, Typed, StateType, Errors
  <2>3. d \in DoneType /\ \A c \in Cmds : d[c] = "Ok" => done[c] = "Ok"
    <3> HIDE DEF r
    <3>1. d \in DoneType /\ \A c \in Cmds : d[c] = done[c] \/ d[c] = r
      BY <2>2, CompleteFacts DEF DoneType
    <3> HIDE DEF d
    <3> QED
      BY <2>2, <3>1
  <2> HIDE DEF d, r
  <2>4. SinkTypeOK'
    BY <1>1, <2>1, <2>3, SinkTypes DEF SinkInv, Typed
  <2>5. HoldersInv' /\ PermitsInv'
    BY <1>1, <2>1 DEF SinkInv, HoldersInv, PermitsInv, HeldWrites
  <2>6. PlaceInv'
    BY <1>1, <1>4, <2>1 DEF SinkInv, PlaceInv, Alive
  <2>7. issued' \cap Writes = issued \cap Writes /\ issued \subseteq issued'
    BY <1>1
  <2>8. QueueInv'
    BY <1>1, <2>1, <2>7 DEF SinkInv, QueueInv
  <2>9. FileInv'
    BY <1>1, <2>1, <2>7 DEF SinkInv, FileInv, Flows, Pending
  <2>10. AckInv'
    BY <1>1, <2>1, <2>3, <2>7, CmdFacts DEF SinkInv, AckInv, WholeFile
  <2> QED
    BY <2>4, <2>5, <2>6, <2>8, <2>9, <2>10 DEF SinkInv
<1> QED
  BY <1>2, <1>3, <1>4

LEMMA CancelLockedKeeps ==
    ASSUME SinkInv, CancelLocked
    PROVE  SinkInv'
<1>1. CASE state.phase \in Terminal
  <2>1. UNCHANGED sinkVars
    BY <1>1 DEF CancelLocked, sinkVars
  <2> QED
    BY <2>1 DEF sinkVars, SinkInv, SinkTypeOK, HoldersInv, PermitsInv, HeldWrites, PlaceInv,
                Alive, QueueInv, FileInv, Flows, Pending, AckInv, WholeFile
<1>2. CASE state.phase \notin Terminal
  <2>1. /\ UNCHANGED <<done, issued, worker, file>>
        /\ state' = [state EXCEPT !.phase = "Cancelled", !.queue = <<>>, !.active = NoCmd]
        /\ cancel' = [on |-> TRUE, cmds |-> Range(state.queue), active |-> state.active]
    BY <1>2 DEF CancelLocked
  <2>2. state \in StateType /\ Range(state.queue) \subseteq Cmds
    BY SinkTypes DEF SinkInv, Typed, HoldersInv
  <2>3. /\ state' \in StateType /\ state'.phase = "Cancelled" /\ state'.queue = <<>>
        /\ state'.items = state.items /\ state'.bytes = state.bytes
        /\ (state'.invariant <=> state.invariant) /\ (state'.panicked <=> state.panicked)
    BY <2>1, <2>2, EmptyQueue DEF StateType, Terminal
  <2>4. cancel' \in CancelType /\ cancel'.on /\ cancel'.cmds = Range(state.queue)
    BY <2>1, <2>2 DEF CancelType, StateType
  <2>5. cancel.cmds = {}
    BY <1>2 DEF SinkInv, PlaceInv
  <2>6. SinkTypeOK'
    BY <2>1, <2>3, <2>4, SinkTypes DEF SinkInv, Typed
  <2>7. HoldersInv'
    BY <2>1, <2>3, <2>4, EmptyQueue DEF SinkInv, HoldersInv
  <2>8. PermitsInv'
    <3>1. HeldWrites' = HeldWrites
      BY <2>1, <2>3, <2>4, <2>5, EmptyQueue DEF HeldWrites
    <3> QED
      BY <2>3, <3>1 DEF SinkInv, PermitsInv
  <2>9. PlaceInv'
    BY <2>1, <2>3, <2>4 DEF SinkInv, PlaceInv, Terminal, Errors, Alive
  <2>10. QueueInv'
    BY <2>1, <2>3, EmptyQueue DEF SinkInv, QueueInv
  <2>11. FileInv'
    BY <2>1, <2>3 DEF SinkInv, FileInv, Flows
  <2>12. AckInv'
    BY <2>1, <2>3 DEF SinkInv, AckInv, WholeFile
  <2> QED
    BY <2>6, <2>7, <2>8, <2>9, <2>10, <2>11, <2>12 DEF SinkInv
<1> QED
  BY <1>1, <1>2

LEMMA CancelSettleKeeps ==
    ASSUME SinkInv, CancelSettle
    PROVE  SinkInv'
<1> DEFINE cs == cancel.cmds
           S  == HeldWrites \ cs
<1>1. /\ worker' \in WorkerType /\ worker'.cmd = worker.cmd
      /\ worker'.drained = worker.drained /\ worker'.then = worker.then
      /\ worker'.outcome = worker.outcome
      /\ \/ worker'.pc = worker.pc
         \/ worker.pc = "parked" /\ worker'.pc = "next"
  BY NotifiedFacts, SinkTypes DEF SinkInv, Typed, CancelSettle
<1>2. /\ UNCHANGED <<issued, file>> /\ cancel.on /\ cancel' = NoCancel
      /\ ~cancel'.on /\ cancel'.cmds = {} /\ cancel' \in CancelType
  BY DEF CancelSettle, NoCancel, CancelType
<1>3. state' = [state EXCEPT !.items = Cardinality(S), !.bytes = TotalSize(S)]
  <2>1. HeldWrites \subseteq Writes /\ cs \cap Writes \subseteq HeldWrites
    BY DEF HeldWrites
  <2>2. state.items = Cardinality(HeldWrites) /\ state.bytes = TotalSize(HeldWrites)
    BY DEF SinkInv, PermitsInv
  <2>3. state' = Release(state, cs)
    BY DEF CancelSettle
  <2> HIDE DEF cs
  <2> QED
    BY <2>1, <2>2, <2>3, ReleaseHeld
<1>4. Cardinality(S) \in Nat /\ TotalSize(S) \in Nat
  BY HeldMinus DEF HeldWrites
<1>5. /\ state' \in StateType /\ state'.items = Cardinality(S) /\ state'.bytes = TotalSize(S)
      /\ state'.phase = state.phase /\ state'.queue = state.queue
      /\ (state'.invariant <=> state.invariant) /\ (state'.panicked <=> state.panicked)
  <2> HIDE DEF S
  <2> QED
    BY <1>3, <1>4, SinkTypes DEF SinkInv, Typed, StateType
<1>6. done' \in DoneType /\ \A c \in Cmds : done'[c] = "Ok" => done[c] = "Ok"
  <2> DEFINE rs == cancel.cmds \cup {cancel.active, Ready}
             d  == Complete(done, rs, "Cancelled")
  <2>1. done \in DoneType /\ "Cancelled" \in {"None", "Ok"} \cup Errors
    BY SinkTypes DEF SinkInv, Typed, Errors
  <2>2. done' = d
    BY DEF CancelSettle
  <2> HIDE DEF rs
  <2>3. d \in DoneType /\ \A c \in Cmds : d[c] = done[c] \/ d[c] = "Cancelled"
    BY <2>1, CompleteFacts DEF DoneType
  <2> HIDE DEF d
  <2> QED
    BY <2>2, <2>3
<1>7. SinkTypeOK'
  BY <1>1, <1>2, <1>5, <1>6, SinkTypes DEF SinkInv, Typed
<1>8. HoldersInv'
  BY <1>1, <1>2, <1>5 DEF SinkInv, HoldersInv
<1>9. PermitsInv'
  <2>1. HeldWrites' = S
    BY <1>1, <1>2, <1>5 DEF SinkInv, HoldersInv, HeldWrites
  <2> HIDE DEF S
  <2> QED
    BY <1>5, <2>1 DEF SinkInv, PermitsInv
<1>10. PlaceInv'
  BY <1>1, <1>2, <1>5 DEF SinkInv, PlaceInv, Busy, Errors, Alive
<1>11. QueueInv'
  BY <1>1, <1>2, <1>5 DEF SinkInv, QueueInv
<1>12. FileInv'
  BY <1>1, <1>2, <1>5 DEF SinkInv, FileInv, Flows, Pending
<1>13. AckInv'
  BY <1>1, <1>2, <1>5, <1>6, CmdFacts DEF SinkInv, AckInv, WholeFile
<1> QED
  BY <1>7, <1>8, <1>9, <1>10, <1>11, <1>12, <1>13 DEF SinkInv

-----------------------------------------------------------------------------
(* The sink as a whole: its start, its end, and steps that leave it alone. *)

LEMMA SinkUnchanged ==
    ASSUME SinkInv, UNCHANGED sinkVars
    PROVE  SinkInv' /\ (WholeFile => WholeFile')
BY DEF sinkVars, SinkInv, SinkTypeOK, HoldersInv, PermitsInv, HeldWrites, PlaceInv, Alive,
       QueueInv, FileInv, Flows, Pending, AckInv, WholeFile

LEMMA NothingHeld == Cardinality({}) = 0 /\ TotalSize({}) = 0
<1>1. TotalSize({} \ {}) = TotalSize({}) - TotalSize({}) /\ TotalSize({}) \in Nat
  BY TotalSizeMinus, TotalSizeType
<1>2. TotalSize({} \ {}) = TotalSize({})
  OBVIOUS
<1> QED
  BY <1>1, <1>2, FS_EmptySet

LEMMA NewStateFacts ==
    /\ NewState \in StateType /\ NewState.phase = "Open" /\ NewState.queue = <<>>
    /\ NewState.items = 0 /\ NewState.bytes = 0
    /\ ~NewState.invariant /\ ~NewState.panicked
    /\ NewDone \in DoneType /\ \A c \in Cmds : NewDone[c] = "None"
    /\ NoCancel \in CancelType /\ ~NoCancel.on /\ NoCancel.cmds = {}
    /\ NoWorker \in WorkerType /\ NoWorker.pc = "none" /\ NoWorker.cmd = NoCmd
    /\ NoWorker.drained = {}
BY EmptyQueue DEF NewState, NewDone, NoCancel, NoWorker, StateType, DoneType, CancelType,
                  WorkerType, WorkerPcs

(* A sink at rest, whatever is in the file.                                *)
LEMMA RestingSink ==
    ASSUME state = NewState, done = NewDone, cancel = NoCancel,
           worker = NoWorker, file \in FileType, issued \subseteq Cmds,
           \A e \in issued \cap Writes : 1 .. e \subseteq issued,
           \A i \in DOMAIN file.events : file.events[i] = i,
           1 .. Len(file.events) \subseteq issued
    PROVE  SinkInv
<1>1. SinkTypeOK
  BY NewStateFacts, SinkTypes DEF Typed
<1>2. HoldersInv
  BY NewStateFacts, EmptyQueue DEF HoldersInv
<1>3. PermitsInv
  <2>1. HeldWrites = {}
    BY NewStateFacts, EmptyQueue, CmdFacts DEF HeldWrites
  <2> QED
    BY <2>1, NothingHeld, NewStateFacts DEF PermitsInv
<1>4. PlaceInv
  BY NewStateFacts DEF PlaceInv, Busy, Errors, Alive
<1>5. QueueInv
  BY NewStateFacts, EmptyQueue DEF QueueInv
<1>6. FileInv
  BY NewStateFacts DEF FileInv, Flows
<1>7. AckInv
  BY NewStateFacts, CmdFacts DEF AckInv
<1> QED
  BY <1>1, <1>2, <1>3, <1>4, <1>5, <1>6, <1>7 DEF SinkInv

LEMMA EmptyFile ==
    ASSUME SinkInit
    PROVE  /\ file \in FileType /\ file.events = <<>> /\ DOMAIN file.events = {}
           /\ Len(file.events) = 0 /\ ~file.torn /\ ~file.lost
BY DEF SinkInit, FileType

LEMMA SinkInitInv ==
    ASSUME SinkInit
    PROVE  SinkInv
<1>1. 1 .. Len(file.events) = {}
  BY EmptyFile
<1> QED
  BY <1>1, EmptyFile, RestingSink DEF SinkInit

LEMMA StartKeeps ==
    ASSUME SinkInit, Goto("init"), UNCHANGED <<state, done, issued, cancel, file>>
    PROVE  SinkInv'
<1>1. /\ worker' \in WorkerType /\ worker'.pc = "init" /\ worker'.cmd = NoCmd
      /\ worker'.drained = {} /\ worker.pc = "none" /\ worker.cmd = NoCmd
      /\ worker.drained = {}
  BY DEF SinkInit, NoWorker, Goto, WorkerType, WorkerPcs
<1>2. SinkInv /\ issued = {}
  BY SinkInitInv DEF SinkInit
<1>3. SinkTypeOK'
  BY <1>1, <1>2, SinkTypes DEF SinkInv, Typed
<1>4. HoldersInv' /\ PermitsInv'
  BY <1>1, <1>2 DEF SinkInv, HoldersInv, PermitsInv, HeldWrites
<1>5. PlaceInv'
  BY <1>1, <1>2, NewStateFacts DEF SinkInit, SinkInv, PlaceInv, Busy, Errors, Alive
<1>6. QueueInv'
  BY <1>1, <1>2 DEF SinkInv, QueueInv
<1>7. FileInv'
  BY <1>1, <1>2, EmptyFile DEF SinkInv, FileInv
<1>8. AckInv'
  BY <1>1, <1>2, NewStateFacts, CmdFacts DEF SinkInit, SinkInv, AckInv
<1> QED
  BY <1>3, <1>4, <1>5, <1>6, <1>7, <1>8 DEF SinkInv

LEMMA SyncKeeps ==
    ASSUME SinkInv, UNCHANGED <<state, done, issued, cancel, worker>>,
           file' = [file EXCEPT !.synced = TRUE]
    PROVE  /\ SinkInv' /\ file'.synced /\ (file'.lost <=> file.lost)
           /\ WholeFile => WholeFile'
<1>1. /\ file' \in FileType /\ file'.events = file.events /\ (file'.closed <=> file.closed)
      /\ (file'.torn <=> file.torn) /\ file'.synced /\ (file'.lost <=> file.lost)
  BY SinkTypes DEF SinkInv, Typed, FileType
<1>2. SinkTypeOK'
  BY <1>1, SinkTypes DEF SinkInv, Typed
<1>3. HoldersInv' /\ PermitsInv' /\ PlaceInv' /\ QueueInv'
  BY DEF SinkInv, HoldersInv, PermitsInv, HeldWrites, PlaceInv, Alive, QueueInv
<1>4. FileInv' /\ AckInv' /\ (WholeFile => WholeFile')
  BY <1>1 DEF SinkInv, FileInv, Flows, Pending, AckInv, WholeFile
<1> QED
  BY <1>1, <1>2, <1>3, <1>4 DEF SinkInv

(* After a crash only the file and what was issued are left.               *)
LEMMA CrashKeepsSink ==
    ASSUME SinkInv, issued' = issued, state' = NewState, done' = NewDone,
           cancel' = NoCancel, worker' = NoWorker,
           file' \in IF file.synced THEN {file} ELSE {file, [file EXCEPT !.lost = TRUE]}
    PROVE  /\ SinkInv' /\ (file.synced => file' = file)
           /\ file'.events = file.events /\ (file'.synced <=> file.synced)
           /\ file'.lost => file.lost \/ ~file.synced
           /\ WholeFile => WholeFile'
<1>1. /\ file' \in FileType /\ file'.events = file.events /\ (file'.closed <=> file.closed)
      /\ (file'.torn <=> file.torn) /\ (file'.synced <=> file.synced)
      /\ (file.synced => file' = file) /\ (file'.lost => file.lost \/ ~file.synced)
  BY SinkTypes DEF SinkInv, Typed, FileType
<1>2. /\ issued' \subseteq Cmds
      /\ \A e \in issued' \cap Writes : 1 .. e \subseteq issued'
      /\ \A i \in DOMAIN file'.events : file'.events[i] = i
      /\ 1 .. Len(file'.events) \subseteq issued'
  BY <1>1, SinkTypes DEF SinkInv, Typed, QueueInv, FileInv
<1>3. SinkTypeOK'
  BY <1>1, <1>2, NewStateFacts, SinkTypes DEF Typed
<1>4. HoldersInv'
  BY NewStateFacts, EmptyQueue DEF HoldersInv
<1>5. PermitsInv'
  <2>1. HeldWrites' = {}
    BY NewStateFacts, EmptyQueue, CmdFacts DEF HeldWrites
  <2> QED
    BY <2>1, NothingHeld, NewStateFacts DEF PermitsInv
<1>6. PlaceInv' /\ QueueInv'
  BY <1>2, NewStateFacts, EmptyQueue DEF PlaceInv, Busy, Errors, Alive, QueueInv
<1>7. FileInv' /\ AckInv'
  BY <1>2, NewStateFacts, CmdFacts DEF FileInv, Flows, AckInv
<1> QED
  BY <1>1, <1>3, <1>4, <1>5, <1>6, <1>7 DEF SinkInv, WholeFile

-----------------------------------------------------------------------------
(* Stages, errors and the disk.                                            *)

LEMMA StageFacts ==
    /\ Prepared = Preparing
    /\ Range(FailureOrder) = {"router", "sink", "pool", "http", "time", "target", "logger"}
    /\ Range(SuccessOrder) = {"pool", "http", "time", "logger"}
BY DEF Prepared, Preparation, Preparing, BeforeSink, FailureOrder, SuccessOrder, Range

LEMMA FollowingFacts ==
    /\ Following("time") = "http" /\ Following("http") = "pool" /\ Following("pool") = "bind"
    /\ Following("bind") = "target" /\ Following("target") = "sink"
    /\ Following("sink") = "report" /\ Following("report") = "logger"
    /\ Following("logger") = "router" /\ Following("router") = "engine"
<1>1. ASSUME NEW i \in 1 .. 9
      PROVE  Following(Preparation[i]) = IF i = 9 THEN "engine" ELSE Preparation[i + 1]
  <2>1. DOMAIN Preparation = 1 .. 9 /\ Len(Preparation) = 9
    BY DEF Preparation
  <2>2. \A j \in 1 .. 9 : Preparation[j] = Preparation[i] => j = i
    BY DEF Preparation
  <2>3. (CHOOSE j \in DOMAIN Preparation : Preparation[j] = Preparation[i]) = i
    BY <2>1, <2>2
  <2> HIDE DEF Preparation
  <2> QED
    BY <2>1, <2>3 DEF Following
<1> QED
  BY <1>1 DEF Preparation

LEMMA NeededFacts ==
    /\ Needed("target") <=> plan.file
    /\ Needed("sink") <=> plan.file
    /\ Needed("router") <=> plan.file
BY DEF Needed

ErrorTyped ==
    /\ error \in [primary : SUBSET Failures, cleanup : Seq(Met)]
    /\ raised \in Seq(Met)

ErrorFollows ==
    IF raised = <<>> THEN error = NoError
    ELSE error.primary = Head(raised) /\ error.cleanup \in {raised, Tail(raised)}

(* A failure is the first one, or it is appended to those before.          *)
Records(m) ==
    /\ raised' = Append(raised, m)
    /\ \/ error' = record_cleanup_error(error, m)
       \/ raised # <<>> /\ error' = append_cleanup(error, m)
       \/ raised = <<>> /\ error' = [primary |-> m, cleanup |-> <<>>]

LEMMA AppendFailure ==
    ASSUME NEW r \in Seq(Met), NEW m \in Met
    PROVE  /\ Append(r, m) \in Seq(Met) /\ Append(r, m) # <<>>
           /\ r = <<>> => Append(r, m) = <<m>>
           /\ r # <<>> => /\ Head(Append(r, m)) = Head(r) /\ Head(r) \in Met
                          /\ Tail(Append(r, m)) = Append(Tail(r), m)
           /\ Range(Append(r, m)) = Range(r) \cup {m}
<1>1. /\ Append(r, m) \in Seq(Met) /\ Append(r, m) # <<>>
      /\ Len(r) \in Nat /\ DOMAIN r = 1 .. Len(r)
      /\ DOMAIN Append(r, m) = 1 .. Len(r) + 1 /\ Len(Append(r, m)) = Len(r) + 1
      /\ \A i \in 1 .. Len(r) : Append(r, m)[i] = r[i]
      /\ Append(r, m)[Len(r) + 1] = m
  OBVIOUS
<1>2. r = <<>> => Append(r, m) = <<m>>
  OBVIOUS
<1>3. \A i \in 1 .. Len(r) + 1 : i \in 1 .. Len(r) \/ i = Len(r) + 1
  BY <1>1
<1>4. Len(r) + 1 \in 1 .. Len(r) + 1 /\ \A i \in 1 .. Len(r) : i \in 1 .. Len(r) + 1
  BY <1>1
<1>5. Range(Append(r, m)) = Range(r) \cup {m}
  BY <1>1, <1>3, <1>4 DEF Range
<1>6. ASSUME r # <<>>
      PROVE  /\ Head(Append(r, m)) = Head(r) /\ Head(r) \in Met
             /\ Tail(Append(r, m)) = Append(Tail(r), m)
  BY <1>6
<1> QED
  BY <1>1, <1>2, <1>5, <1>6

LEMMA OneFailure ==
    ASSUME NEW m \in Met
    PROVE  /\ <<m>> \in Seq(Met) /\ <<>> \in Seq(Met) /\ Head(<<m>>) = m
           /\ Tail(<<m>>) = <<>>
<1>1. <<m>> \in Seq(Met) /\ Len(<<m>>) = 1 /\ Head(<<m>>) = m
  OBVIOUS
<1>2. Tail(<<m>>) \in Seq(Met) /\ Len(Tail(<<m>>)) = 0
  BY <1>1
<1> QED
  BY <1>1, <1>2

LEMMA NotNone == {} \notin Met /\ Met \subseteq SUBSET Failures
BY DEF Met

LEMMA RecordsFollows ==
    ASSUME ErrorTyped, ErrorFollows, NEW m \in Met, Records(m)
    PROVE  /\ ErrorTyped' /\ ErrorFollows' /\ raised' # <<>>
           /\ StagingReported => StagingReported'
           /\ "Staging" \in m => StagingReported'
<1> DEFINE cl == error.cleanup
<1>1. /\ error \in [primary : SUBSET Failures, cleanup : Seq(Met)]
      /\ raised \in Seq(Met) /\ cl \in Seq(Met)
      /\ raised' = Append(raised, m)
  BY DEF ErrorTyped, Records
<1>2. /\ raised' \in Seq(Met) /\ raised' # <<>>
      /\ raised = <<>> => raised' = <<m>>
      /\ raised # <<>> => /\ Head(raised') = Head(raised) /\ Head(raised) \in Met
                          /\ Tail(raised') = Append(Tail(raised), m)
  BY <1>1, AppendFailure
<1>3. /\ Append(cl, m) \in Seq(Met) /\ Append(cl, m) # <<>>
      /\ Range(Append(cl, m)) = Range(cl) \cup {m}
  BY <1>1, AppendFailure
<1>4. CASE raised = <<>>
  <2>1. error = NoError /\ error.primary = {} /\ cl = <<>>
    BY <1>4 DEF ErrorFollows, NoError
  <2>2. \/ error' = [primary |-> m, cleanup |-> <<m>>]
        \/ error' = [primary |-> m, cleanup |-> <<>>]
    BY <1>4, <2>1 DEF Records, record_cleanup_error
  <2>3. /\ error' \in [primary : SUBSET Failures, cleanup : Seq(Met)]
        /\ error'.primary = m /\ error'.cleanup \in {<<m>>, <<>>}
    <3> DEFINE one == <<m>>
               nil == <<>>
    <3>1. one \in Seq(Met) /\ nil \in Seq(Met)
      BY OneFailure
    <3>2. error' = [primary |-> m, cleanup |-> one] \/ error' = [primary |-> m, cleanup |-> nil]
      BY <2>2
    <3> HIDE DEF one, nil
    <3>3. /\ error' \in [primary : SUBSET Failures, cleanup : Seq(Met)]
          /\ error'.primary = m /\ error'.cleanup \in {one, nil}
      BY <3>1, <3>2, NotNone
    <3> QED
      BY <3>3 DEF one, nil
  <2>4. raised' = <<m>> /\ Head(raised') = m /\ Tail(raised') = <<>>
    BY <1>2, <1>4, OneFailure
  <2>5. ~StagingReported
    BY <2>1, StageFacts DEF StagingReported, Range
  <2>6. Range(<<m>>) = {m}
    BY DEF Range
  <2> QED
    BY <1>2, <2>3, <2>4, <2>5, <2>6 DEF ErrorTyped, ErrorFollows, StagingReported
<1>5. CASE raised # <<>>
  <2>1. error.primary = Head(raised) /\ cl \in {raised, Tail(raised)}
    BY <1>5 DEF ErrorFollows
  <2>2. error.primary # {}
    BY <1>2, <1>5, <2>1, NotNone
  <2>3. error' = [error EXCEPT !.cleanup = Append(cl, m)]
    BY <1>5, <2>2 DEF Records, record_cleanup_error, append_cleanup
  <2>4. /\ error' \in [primary : SUBSET Failures, cleanup : Seq(Met)]
        /\ error'.primary = error.primary /\ error'.cleanup = Append(cl, m)
    <3> DEFINE a == Append(cl, m)
    <3>1. a \in Seq(Met)
      BY <1>3
    <3> HIDE DEF a, cl
    <3>2. error' = [error EXCEPT !.cleanup = a]
      BY <2>3 DEF a
    <3>3. /\ error' \in [primary : SUBSET Failures, cleanup : Seq(Met)]
          /\ error'.primary = error.primary /\ error'.cleanup = a
      BY <1>1, <3>1, <3>2
    <3> QED
      BY <3>3 DEF a
  <2>5. error'.cleanup \in {raised', Tail(raised')}
    BY <1>1, <1>2, <1>5, <2>1, <2>4
  <2>6. StagingReported => StagingReported'
    BY <1>3, <2>4 DEF StagingReported
  <2>7. "Staging" \in m => StagingReported'
    BY <1>3, <2>4 DEF StagingReported
  <2> QED
    BY <1>2, <1>5, <2>1, <2>4, <2>5, <2>6, <2>7 DEF ErrorTyped, ErrorFollows
<1> QED
  BY <1>4, <1>5

LEMMA CategoryType ==
    ASSUME NEW s \in Prepared
    PROVE  {s} \in Met /\ {Category(s)} \in Met
BY DEF Category, Failures, Met

DiskType ==
    [visible : {"none", "old", "foreign", "new"}, admitted : {"none", "old", "foreign"},
     staged : BOOLEAN, dash : {"none", "empty", "old", "new"},
     oldDash : {"none", "empty", "old"}, dashStaged : BOOLEAN,
     changed : {"never", "revalidate", "rename"}]
RunStages ==
    Preparing \cup Publishing \cup Reporting \cup Ending \cup
        {"engine", "fail", "failJoin", "finish", "wait", "release", "unstage", "crashed"}
RunTyped ==
    plan \in Plans /\ stage \in RunStages /\ held \subseteq Preparing /\ ErrorTyped
    /\ disk \in DiskType

LEMMA RunTypes == (TypeOK <=> RunTyped) /\ (TypeOK' <=> RunTyped')
<1>1. RunStages = Prepared \cup
         {"engine", "fail", "failJoin", "finish", "wait", "release", "sync", "revalidate",
          "rename", "dashStage", "dashMove", "dashCheck", "dashRename", "dashRemove",
          "unstage", "return", "returned", "crashed"}
  BY StageFacts DEF RunStages, Publishing, Reporting, Ending
<1>2. Prepared = Preparing
  BY StageFacts
<1> QED
  BY <1>1, <1>2 DEF TypeOK, RunTyped, ErrorTyped, DiskType

LEMMA ErrorInvParts ==
    /\ ErrorInv => ErrorFollows
    /\ ErrorInv' <=>
          /\ ErrorFollows'
          /\ stage' \in Preparing \cup Publishing \cup Reporting \cup {"engine", "finish", "wait"}
                => raised' = <<>>
          /\ stage' \in {"fail", "failJoin"} => raised' # <<>>
BY DEF ErrorInv, ErrorFollows

(* The run thread leaves the writer and its file alone.                    *)
SinkFrame == SinkInv' /\ worker' = worker /\ file' = file /\ issued' = issued

LEMMA FrameFacts ==
    /\ SinkInv /\ UNCHANGED sinkVars => SinkFrame
    /\ SinkInv /\ CancelLocked => SinkFrame
    /\ SinkFrame => (WholeFile' <=> WholeFile)
<1>1. SinkInv /\ UNCHANGED sinkVars => SinkFrame
  BY SinkUnchanged DEF sinkVars, SinkFrame
<1>2. SinkInv /\ CancelLocked => SinkFrame
  BY CancelLockedKeeps DEF CancelLocked, SinkFrame
<1> QED
  BY <1>1, <1>2 DEF SinkFrame, WholeFile

-----------------------------------------------------------------------------
(* The steps that only the sink takes part in.                             *)

LEMMA SinkStepKeeps ==
    ASSUME RunInv, UNCHANGED runVars, SinkInv', Alive => Alive',
           worker.pc \in {"none", "done"} => worker'.pc = worker.pc /\ file' = file,
           stage \in BeforeSink => UNCHANGED sinkVars,
           stage # "engine" => issued' = issued,
           file'.lost <=> file.lost
    PROVE  RunInv'
<1>1. /\ plan' = plan /\ stage' = stage /\ held' = held /\ error' = error
      /\ raised' = raised /\ disk' = disk
  BY DEF runVars
<1>2. TypeOK'
  BY <1>1, RunTypes DEF RunInv, RunTyped, ErrorTyped
<1>3. stage \in BeforeSink => SinkInit'
  BY DEF RunInv, OwnersInv, sinkVars, SinkInit
<1>4. OwnersInv'
  BY <1>1, <1>3 DEF RunInv, OwnersInv
<1>5. ErrorInv'
  BY <1>1 DEF RunInv, ErrorInv
<1>6. "sink" \notin held /\ stage # "engine" => file' = file /\ (WholeFile => WholeFile')
  BY DEF RunInv, OwnersInv, WholeFile
<1>7. DiskInv'
  <2>1. \/ stage \in {"release", "unstage", "crashed"} \cup Publishing \cup Reporting \cup Ending
        \/ disk.visible = "new"
        => "sink" \notin held /\ stage # "engine"
    BY DEF RunInv, OwnersInv, DiskInv, Publishing, Reporting, Ending
  <2>2. StagingReported' <=> StagingReported
    BY <1>1 DEF StagingReported
  <2>3. file'.lost => stage = "crashed" /\ ~file'.synced
    BY <1>6, <2>1 DEF RunInv, DiskInv
  <2> QED
    BY <1>1, <1>6, <2>1, <2>2, <2>3
       DEF RunInv, DiskInv, Publishable, Publishing, Reporting, Ending
<1> QED
  BY <1>2, <1>4, <1>5, <1>7 DEF RunInv

LEMMA WriterKeepsRun ==
    ASSUME RunInv, WriterStep
    PROVE  RunInv'
<1>1. WorkerStep /\ UNCHANGED runVars /\ SinkInv'
  BY WorkerStepKeeps DEF WriterStep, RunInv
<1>2. issued' = issued
  BY <1>1 DEF WorkerStep, CreateEncoder, Encode, TakeCommand, NoCommand, CheckCancelled,
              Recheck, SettleCommand, ClearCommand, FinishSink, FailSink, SettleDrained,
              ExitWorker
<1>3. worker.pc \notin {"none", "done"}
  BY <1>1 DEF WorkerStep, CreateEncoder, Encode, TakeCommand, NoCommand, CheckCancelled,
              Recheck, SettleCommand, ClearCommand, FinishSink, FailSink, SettleDrained,
              ExitWorker
<1>4. worker'.pc # "none"
  <2>1. worker \in WorkerType
    BY SinkTypes DEF RunInv, SinkInv, Typed
  <2>2. ASSUME NEW result \in Results, CreateEncoder(result) \/ Encode(result)
        PROVE  worker'.pc # "none"
    <3>1. ErrorPath[result] # "none" \/ result = "Ok"
      BY DEF Results, ErrorPath
    <3>2. CASE CreateEncoder(result)
      BY <2>1, <3>1, <3>2 DEF CreateEncoder, WorkerType
    <3>3. CASE Encode(result)
      BY <2>1, <3>3 DEF Encode, WorkerType
    <3> QED
      BY <2>2, <3>2, <3>3
  <2>3. CASE TakeCommand \/ NoCommand \/ CheckCancelled \/ Recheck \/ SettleCommand
    BY <2>1, <2>3 DEF TakeCommand, NoCommand, CheckCancelled, Recheck, SettleCommand, Goto,
                      WorkerType
  <2>4. CASE ClearCommand \/ FinishSink \/ FailSink \/ SettleDrained \/ ExitWorker
    BY <2>1, <2>4 DEF ClearCommand, FinishSink, FailSink, SettleDrained, ExitWorker, Goto,
                      WorkerType
  <2> QED
    BY <1>1, <2>2, <2>3, <2>4 DEF WorkerStep
<1>5. file'.lost <=> file.lost
  <2>1. file \in FileType /\ worker.cmd \in Cmds \cup {NoCmd}
    BY SinkTypes DEF RunInv, SinkInv, Typed, WorkerType
  <2>2. ASSUME NEW result \in Results, Encode(result)
        PROVE  file'.lost <=> file.lost
    <3>1. worker.cmd \in Writes \/ worker.cmd = Flush \/ worker.cmd = Finish
      <4>1. worker.cmd # NoCmd
        BY <2>2 DEF RunInv, SinkInv, PlaceInv, Busy, Encode
      <4> QED
        BY <2>1, <4>1, JtlSinkAssumption DEF Cmds, Writes, Flush, Finish
    <3>2. Written(file, worker.cmd).lost <=> file.lost
      BY <2>1, <3>1, CmdFacts DEF Written, FileType
    <3>3. Torn(file).lost <=> file.lost
      BY <2>1 DEF Torn, FileType
    <3>4. file' \in {file, Torn(file), Written(file, worker.cmd)}
      BY <2>2 DEF Encode
    <3> HIDE DEF Written, Torn
    <3> QED
      BY <3>2, <3>3, <3>4
  <2>3. CASE ~\E result \in Results : Encode(result)
    BY <1>1, <2>3 DEF WorkerStep, CreateEncoder, TakeCommand, NoCommand, CheckCancelled,
                      Recheck, SettleCommand, ClearCommand, FinishSink, FailSink,
                      SettleDrained, ExitWorker
  <2> QED
    BY <2>2, <2>3
<1>6. stage \notin BeforeSink
  BY <1>3 DEF RunInv, OwnersInv, SinkInit, NoWorker
<1> QED
  BY <1>1, <1>2, <1>3, <1>4, <1>5, <1>6, SinkStepKeeps DEF Alive

LEMMA SettleKeepsRun ==
    ASSUME RunInv, SettleCancel
    PROVE  RunInv'
<1>1. CancelSettle /\ UNCHANGED runVars /\ SinkInv'
  BY CancelSettleKeeps DEF SettleCancel, RunInv
<1>2. UNCHANGED <<issued, file>> /\ cancel.on /\ worker' = Notified
  BY <1>1 DEF CancelSettle
<1>3. worker'.pc = worker.pc \/ (worker.pc = "parked" /\ worker'.pc = "next")
  BY <1>2, NotifiedFacts, SinkTypes DEF RunInv, SinkInv, Typed
<1>4. stage \notin BeforeSink
  BY <1>2, NewStateFacts DEF RunInv, OwnersInv, SinkInit
<1> QED
  BY <1>1, <1>2, <1>3, <1>4, SinkStepKeeps DEF Alive

LEMMA EngineUseKeepsRun ==
    ASSUME RunInv, EngineUsesSink
    PROVE  RunInv'
<1>1. stage = "engine" /\ Alive /\ UNCHANGED runVars /\ SinkInv
  BY DEF EngineUsesSink, RunInv, OwnersInv
<1>2. SinkInv' /\ file' = file /\ (worker' = worker \/ worker' = Notified)
  <2>1. CASE \E e \in Writes : EnqueueWrite(e)
    BY <1>1, <2>1, EnqueueWriteKeeps DEF EnqueueWrite
  <2>2. CASE EnqueueFlush
    BY <1>1, <2>2, EnqueueFlushKeeps DEF EnqueueFlush
  <2>3. CASE EnqueueFinish
    BY <1>1, <2>3, EnqueueFinishKeeps DEF EnqueueFinish
  <2>4. CASE CancelLocked
    BY <1>1, <2>4, CancelLockedKeeps DEF CancelLocked
  <2> QED
    BY <2>1, <2>2, <2>3, <2>4 DEF EngineUsesSink
<1>3. worker'.pc = worker.pc \/ (worker.pc = "parked" /\ worker'.pc = "next")
  BY <1>2, NotifiedFacts, SinkTypes DEF RunInv, SinkInv, Typed
<1> QED
  BY <1>1, <1>2, <1>3, SinkStepKeeps DEF Alive, BeforeSink

-----------------------------------------------------------------------------
(* Preparation and the engine.                                             *)

LEMMA PrepareKeepsRun ==
    ASSUME RunInv, NEW s \in Prepared, Prepare(s)
    PROVE  RunInv'
<1>1. /\ UNCHANGED <<sinkVars, plan, error, raised, disk>>
      /\ stage = s /\ stage' = Following(s) /\ s \in Preparing
      /\ (Needed(s) => s \notin {"target", "sink"})
      /\ held' = IF Needed(s) THEN held \cup ({s} \ {"bind", "report"}) ELSE held
  BY StageFacts DEF Prepare
<1>2. SinkFrame /\ (WholeFile' <=> WholeFile) /\ (SinkInit => SinkInit')
  BY <1>1, FrameFacts DEF RunInv, sinkVars, SinkInit
<1>3. /\ stage' \in Preparing \cup {"engine"}
      /\ stage' \in BeforeSink => stage \in BeforeSink
      /\ stage' \in {"report", "logger", "router", "engine"} =>
            stage \in {"report", "logger", "router"} \/ (stage = "sink" /\ ~Needed("sink"))
  BY <1>1, FollowingFacts DEF Preparing, BeforeSink
<1>4. /\ held \subseteq held' /\ held' \subseteq Preparing
      /\ held' \subseteq {"router", "sink", "pool", "http", "time", "target", "logger"}
      /\ "sink" \in held' => "sink" \in held
  BY <1>1 DEF RunInv, OwnersInv, Preparing, BeforeSink
<1>5. TypeOK'
  BY <1>1, <1>3, <1>4, RunTypes DEF RunInv, RunTyped, ErrorTyped, RunStages
<1>6. OwnersInv'
  BY <1>1, <1>2, <1>3, <1>4, NeededFacts
     DEF RunInv, OwnersInv, SinkFrame, Alive, Preparing, BeforeSink, Publishing, Reporting,
         Ending
<1>7. ErrorInv'
  BY <1>1, <1>3 DEF RunInv, ErrorInv, Preparing, BeforeSink
<1>8. DiskInv'
  BY <1>1, <1>2, <1>3, <1>4
     DEF RunInv, DiskInv, Publishable, SinkFrame, StagingReported, Preparing, BeforeSink,
         Publishing, Reporting, Ending
<1> QED
  BY <1>2, <1>5, <1>6, <1>7, <1>8 DEF RunInv, SinkFrame

LEMMA PrepareTargetKeepsRun ==
    ASSUME RunInv, PrepareTarget
    PROVE  RunInv'
<1>1. /\ UNCHANGED <<sinkVars, plan, error, raised>>
      /\ stage = "target" /\ stage' = "sink" /\ plan.file
      /\ held' = held \cup {"target"}
      /\ disk' = [disk EXCEPT !.admitted = disk.visible, !.staged = TRUE]
  BY FollowingFacts, NeededFacts DEF PrepareTarget
<1>2. SinkFrame /\ (WholeFile' <=> WholeFile) /\ (SinkInit => SinkInit')
  BY <1>1, FrameFacts DEF RunInv, sinkVars, SinkInit
<1>3. disk \in DiskType /\ disk.visible # "new" /\ disk.dash # "new"
  BY <1>1, RunTypes DEF RunInv, RunTyped, DiskInv, Reporting, Ending
<1>4. /\ disk' \in DiskType /\ disk'.visible = disk.visible /\ disk'.dash = disk.dash
  BY <1>1, <1>3 DEF DiskType
<1>5. TypeOK'
  BY <1>1, <1>4, RunTypes DEF RunInv, RunTyped, ErrorTyped, RunStages, Preparing, BeforeSink
<1>6. OwnersInv'
  BY <1>1, <1>2
     DEF RunInv, OwnersInv, SinkFrame, Alive, BeforeSink, Publishing, Reporting, Ending
<1>7. ErrorInv'
  BY <1>1 DEF RunInv, ErrorInv, Preparing, BeforeSink
<1>8. DiskInv'
  BY <1>1, <1>2, <1>3, <1>4
     DEF RunInv, DiskInv, Publishable, SinkFrame, Preparing, BeforeSink, Publishing,
         Reporting, Ending
<1> QED
  BY <1>2, <1>5, <1>6, <1>7, <1>8 DEF RunInv, SinkFrame

LEMMA StartSinkKeepsRun ==
    ASSUME RunInv, StartSink
    PROVE  RunInv'
<1>1. /\ UNCHANGED <<state, done, issued, cancel, file, plan, error, raised, disk>>
      /\ stage = "sink" /\ stage' = "report" /\ plan.file
      /\ held' = held \cup {"sink"} /\ Goto("init")
  BY FollowingFacts, NeededFacts DEF StartSink
<1>2. SinkInit
  BY <1>1 DEF RunInv, OwnersInv, BeforeSink
<1>3. SinkInv' /\ worker'.pc = "init"
  BY <1>1, <1>2, StartKeeps DEF SinkInit, NoWorker, Goto
<1>4. TypeOK'
  BY <1>1, RunTypes DEF RunInv, RunTyped, ErrorTyped, RunStages, Preparing, BeforeSink
<1>5. OwnersInv'
  BY <1>1, <1>3
     DEF RunInv, OwnersInv, Alive, BeforeSink, Publishing, Reporting, Ending
<1>6. ErrorInv'
  BY <1>1 DEF RunInv, ErrorInv, Preparing, BeforeSink
<1>7. DiskInv'
  BY <1>1 DEF RunInv, DiskInv, Publishable, Preparing, BeforeSink, Publishing, Reporting, Ending
<1> QED
  BY <1>3, <1>4, <1>5, <1>6, <1>7 DEF RunInv

(* A first failure, of a step of the preparation or of the engine.         *)
LEMMA FirstFailureKeeps ==
    ASSUME RunInv, UNCHANGED <<sinkVars, plan, held>>, stage \in Preparing \cup {"engine"},
           stage' = "fail", NEW m \in Met, RaiseFirst(m),
           disk' = disk \/ ("Staging" \in m /\ disk' = [disk EXCEPT !.staged = TRUE])
    PROVE  RunInv'
<1>1. SinkFrame /\ (WholeFile' <=> WholeFile)
  BY FrameFacts DEF RunInv
<1>2. raised = <<>> /\ ErrorTyped /\ ErrorFollows
  BY RunTypes, ErrorInvParts DEF RunInv, ErrorInv, RunTyped, Preparing, BeforeSink
<1>3. ErrorTyped' /\ ErrorFollows' /\ raised' # <<>>
      /\ (StagingReported => StagingReported') /\ ("Staging" \in m => StagingReported')
  BY <1>2, RecordsFollows DEF Records, Raise, RaiseFirst
<1>4. disk \in DiskType /\ disk.visible # "new" /\ disk.dash # "new"
  BY RunTypes DEF RunInv, RunTyped, DiskInv, Reporting, Ending, Preparing, BeforeSink
<1>5. /\ disk' \in DiskType /\ disk'.visible = disk.visible /\ disk'.dash = disk.dash
      /\ "Staging" \in m \/ (disk'.staged <=> disk.staged)
  BY <1>4 DEF DiskType
<1>6. TypeOK'
  BY <1>3, <1>5, RunTypes DEF RunInv, RunTyped, RunStages
<1>7. OwnersInv'
  BY <1>1
     DEF RunInv, OwnersInv, SinkFrame, Alive, BeforeSink, Publishing, Reporting, Ending
<1>8. ErrorInv'
  BY <1>3, ErrorInvParts DEF Preparing, BeforeSink, Publishing, Reporting
<1>9. DiskInv'
  BY <1>1, <1>3, <1>4, <1>5
     DEF RunInv, DiskInv, Publishable, SinkFrame, Preparing, BeforeSink, Publishing,
         Reporting, Ending
<1> QED
  BY <1>1, <1>6, <1>7, <1>8, <1>9 DEF RunInv, SinkFrame

LEMMA FailuresKeepRun ==
    ASSUME RunInv, EngineFails \/ \E s \in Prepared : PrepareFails(s)
    PROVE  RunInv'
<1>1. CASE EngineFails
  <2>1. {"engine"} \in Met
    BY DEF Failures, Met
  <2> QED
    BY <1>1, <2>1, FirstFailureKeeps DEF EngineFails
<1>2. ASSUME NEW s \in Prepared, PrepareFails(s)
      PROVE  RunInv'
  <2>1. {s} \in Met /\ s \in Preparing
    BY CategoryType, StageFacts
  <2>2. {"target", "Staging"} \in Met
    BY StageFacts DEF Failures, Met, Preparing, BeforeSink
  <2>3. CASE UNCHANGED disk /\ RaiseFirst({s})
    BY <1>2, <2>1, <2>3, FirstFailureKeeps DEF PrepareFails
  <2>4. CASE /\ disk' = [disk EXCEPT !.staged = TRUE]
             /\ RaiseFirst({"target", "Staging"})
    <3> DEFINE m == {"target", "Staging"}
    <3>1. m \in Met /\ "Staging" \in m /\ RaiseFirst(m)
      BY <2>2, <2>4
    <3> HIDE DEF m
    <3> QED
      BY <1>2, <2>1, <2>4, <3>1, FirstFailureKeeps DEF PrepareFails
  <2> QED
    BY <1>2, <2>3, <2>4 DEF PrepareFails
<1> QED
  BY <1>1, <1>2

LEMMA EngineSucceedsKeepsRun ==
    ASSUME RunInv, EngineSucceeds
    PROVE  RunInv'
<1>1. /\ UNCHANGED <<sinkVars, plan, error, raised, disk>>
      /\ stage = "engine" /\ stage' = IF plan.file THEN "finish" ELSE "release"
      /\ held' = held \ {"router"}
  BY DEF EngineSucceeds
<1>2. SinkFrame /\ (WholeFile' <=> WholeFile)
  BY <1>1, FrameFacts DEF RunInv
<1>3. TypeOK'
  BY <1>1, RunTypes DEF RunInv, RunTyped, ErrorTyped, RunStages
<1>4. OwnersInv'
  BY <1>1, <1>2
     DEF RunInv, OwnersInv, SinkFrame, Alive, BeforeSink, Publishing, Reporting, Ending
<1>5. ErrorInv'
  BY <1>1 DEF RunInv, ErrorInv
<1>6. DiskInv'
  BY <1>1, <1>2
     DEF RunInv, DiskInv, Publishable, SinkFrame, Preparing, BeforeSink, Publishing,
         Reporting, Ending
<1> QED
  BY <1>2, <1>3, <1>4, <1>5, <1>6 DEF RunInv, SinkFrame

-----------------------------------------------------------------------------
(* The failure path.                                                       *)

(* The error stays or records one more failure.                            *)
ErrorStep == UNCHANGED <<error, raised>> \/ \E m \in Met : Records(m)

LEMMA ErrorStepFacts ==
    ASSUME ErrorTyped, ErrorFollows, ErrorStep
    PROVE  /\ ErrorTyped' /\ ErrorFollows'
           /\ raised' = <<>> => raised = <<>> /\ error' = error
           /\ StagingReported => StagingReported'
<1>1. CASE UNCHANGED <<error, raised>>
  BY <1>1 DEF ErrorTyped, ErrorFollows, StagingReported
<1>2. CASE \E m \in Met : Records(m)
  BY <1>2, RecordsFollows
<1> QED
  BY <1>1, <1>2 DEF ErrorStep

LEMMA OutcomeStep ==
    ASSUME NEW s \in Prepared, NEW r, Outcome(s, r),
           \/ r = record_cleanup_error(error, {Category(s)})
           \/ raised # <<>> /\ r = append_cleanup(error, {Category(s)})
    PROVE  ErrorStep
BY CategoryType DEF Outcome, Raise, Records, ErrorStep

LEMMA UnstagedFacts ==
    ASSUME disk \in DiskType
    PROVE  /\ Unstaged \in DiskType /\ ~Unstaged.staged /\ Unstaged.visible = disk.visible
           /\ Unstaged.dash = disk.dash /\ Unstaged.oldDash = disk.oldDash
BY DEF Unstaged, DiskType

LEMMA FailurePathKeeps ==
    ASSUME RunInv, stage \in {"fail", "failJoin"}, stage' \in {"fail", "failJoin"},
           SinkFrame, plan' = plan, held' \subseteq held, ErrorStep,
           "sink" \in held \ held' => worker.pc = "done",
           disk' \in {disk, Unstaged},
           "target" \in held \ held' => ~disk'.staged \/ StagingReported'
    PROVE  RunInv'
<1>1. /\ raised # <<>> /\ ErrorTyped /\ ErrorFollows /\ disk \in DiskType
      /\ disk.visible # "new" /\ disk.dash # "new"
  BY RunTypes, ErrorInvParts DEF RunInv, ErrorInv, DiskInv, RunTyped, Reporting, Ending
<1>2. ErrorTyped' /\ ErrorFollows' /\ raised' # <<>> /\ (StagingReported => StagingReported')
  BY <1>1, ErrorStepFacts
<1>3. /\ disk' \in DiskType /\ disk'.visible = disk.visible /\ disk'.dash = disk.dash
      /\ disk'.staged => disk.staged
  BY <1>1, UnstagedFacts
<1>4. TypeOK'
  BY <1>2, <1>3, RunTypes DEF RunInv, RunTyped, RunStages
<1>5. OwnersInv'
  BY DEF RunInv, OwnersInv, SinkFrame, Alive, BeforeSink, Publishing, Reporting, Ending
<1>6. ErrorInv'
  BY <1>2, ErrorInvParts DEF Preparing, BeforeSink, Publishing, Reporting
<1>7. DiskInv'
  BY <1>1, <1>2, <1>3, FrameFacts
     DEF RunInv, DiskInv, Publishable, SinkFrame, Preparing, BeforeSink, Publishing,
         Reporting, Ending
<1> QED
  BY <1>4, <1>5, <1>6, <1>7 DEF RunInv, SinkFrame

LEMMA FailurePath ==
    ASSUME RunInv, \/ CancelRouter \/ CancelSink \/ JoinCancelled \/ FailureUnstages
                   \/ \E s \in Prepared : FailureReleases(s)
    PROVE  RunInv'
<1>1. ASSUME stage \in {"fail", "failJoin"} PROVE raised # <<>>
  BY <1>1 DEF RunInv, ErrorInv
<1>2. {"Jtl"} \in Met /\ {"Staging"} \in Met /\ "router" \in Prepared
  BY StageFacts DEF Failures, Met, Preparing, BeforeSink
<1>3. CASE CancelRouter
  <2>1. ErrorStep
    BY <1>1, <1>2, <1>3, OutcomeStep DEF CancelRouter
  <2>2. SinkFrame
    BY <1>3, FrameFacts DEF CancelRouter, RunInv
  <2> QED
    BY <1>3, <2>1, <2>2, FailurePathKeeps DEF CancelRouter
<1>4. CASE CancelSink
  <2>1. SinkFrame /\ ErrorStep
    BY <1>4, FrameFacts DEF CancelSink, RunInv, ErrorStep
  <2> QED
    BY <1>4, <2>1, FailurePathKeeps DEF CancelSink
<1>5. CASE JoinCancelled
  <2>1. SinkFrame
    BY <1>5, FrameFacts DEF JoinCancelled, RunInv
  <2>2. ErrorStep
    BY <1>1, <1>2, <1>5 DEF JoinCancelled, Raise, Records, ErrorStep
  <2> QED
    BY <1>5, <2>1, <2>2, FailurePathKeeps DEF JoinCancelled, Joined
<1>6. CASE FailureUnstages
  <2>1. SinkFrame
    BY <1>6, FrameFacts DEF FailureUnstages, RunInv
  <2>2. ErrorTyped /\ ErrorFollows /\ disk \in DiskType /\ raised # <<>> /\ stage = "fail"
    BY <1>1, <1>6, RunTypes, ErrorInvParts DEF RunInv, RunTyped, FailureUnstages
  <2>3. CASE disk' = Unstaged /\ UNCHANGED <<error, raised>>
    BY <1>6, <2>1, <2>2, <2>3, UnstagedFacts, FailurePathKeeps DEF FailureUnstages, ErrorStep
  <2>4. CASE UNCHANGED disk /\ Raise({"Staging"}, append_cleanup(error, {"Staging"}))
    <3>1. Records({"Staging"}) /\ ErrorStep
      BY <1>2, <2>2, <2>4 DEF Raise, Records, ErrorStep
    <3>2. "Staging" \in {"Staging"}
      OBVIOUS
    <3>3. StagingReported'
      BY <1>2, <2>2, <3>1, <3>2, RecordsFollows
    <3> QED
      BY <1>6, <2>1, <2>2, <2>4, <3>1, <3>3, FailurePathKeeps DEF FailureUnstages
  <2> QED
    BY <1>6, <2>3, <2>4 DEF FailureUnstages
<1>7. ASSUME NEW s \in Prepared, FailureReleases(s)
      PROVE  RunInv'
  <2>1. SinkFrame
    BY <1>7, FrameFacts DEF FailureReleases, RunInv
  <2>2. ErrorStep
    BY <1>1, <1>7, OutcomeStep DEF FailureReleases
  <2> QED
    BY <1>7, <2>1, <2>2, FailurePathKeeps DEF FailureReleases
<1> QED
  BY <1>3, <1>4, <1>5, <1>6, <1>7

LEMMA FailureDoneKeepsRun ==
    ASSUME RunInv, FailureDone
    PROVE  RunInv'
<1>1. /\ UNCHANGED <<sinkVars, plan, held, error, raised, disk>>
      /\ stage = "fail" /\ stage' = "return" /\ held = {}
  BY StageFacts DEF FailureDone, RunInv, OwnersInv
<1>2. SinkFrame /\ (WholeFile' <=> WholeFile) /\ (StagingReported' <=> StagingReported)
  BY <1>1, FrameFacts DEF RunInv, StagingReported
<1>3. TypeOK'
  BY <1>1, RunTypes DEF RunInv, RunTyped, ErrorTyped, RunStages, Ending
<1>4. OwnersInv'
  BY <1>1, <1>2
     DEF RunInv, OwnersInv, SinkFrame, Alive, BeforeSink, Publishing, Reporting, Ending
<1>5. ErrorInv'
  BY <1>1 DEF RunInv, ErrorInv, Preparing, BeforeSink, Publishing, Reporting
<1>6. DiskInv'
  BY <1>1, <1>2
     DEF RunInv, DiskInv, Publishable, SinkFrame, Preparing, BeforeSink, Publishing,
         Reporting, Ending
<1> QED
  BY <1>2, <1>3, <1>4, <1>5, <1>6 DEF RunInv, SinkFrame

-----------------------------------------------------------------------------
(* The success path: finalization.                                         *)

LEMMA FinishSinkOwnerKeepsRun ==
    ASSUME RunInv, FinishSinkOwner
    PROVE  RunInv'
<1>1. /\ UNCHANGED <<plan, held, error, raised, disk>> /\ EnqueueFinish
      /\ stage = "finish" /\ stage' = "wait"
  BY DEF FinishSinkOwner
<1>2. Alive /\ SinkInv
  BY <1>1 DEF RunInv, OwnersInv
<1>3. SinkInv' /\ file' = file /\ (worker' = worker \/ worker' = Notified)
  BY <1>1, <1>2, EnqueueFinishKeeps DEF EnqueueFinish
<1>4. worker'.pc = worker.pc \/ (worker.pc = "parked" /\ worker'.pc = "next")
  BY <1>3, NotifiedFacts, SinkTypes DEF RunInv, SinkInv, Typed
<1>5. TypeOK'
  BY <1>1, RunTypes DEF RunInv, RunTyped, ErrorTyped, RunStages
<1>6. OwnersInv'
  BY <1>1, <1>4 DEF RunInv, OwnersInv, Alive, BeforeSink, Publishing, Reporting, Ending
<1>7. ErrorInv'
  BY <1>1 DEF RunInv, ErrorInv
<1>8. DiskInv'
  BY <1>1, <1>3 DEF RunInv, DiskInv, Publishable, Preparing, BeforeSink, Publishing,
                    Reporting, Ending
<1> QED
  BY <1>3, <1>5, <1>6, <1>7, <1>8 DEF RunInv

(* An owner is released; whatever fails is recorded.  Only a file that is  *)
(* whole stays without an error.                                           *)
LEMMA ReleaseKeeps ==
    ASSUME RunInv, stage \in {"wait", "release"}, stage' = "release", SinkFrame,
           plan' = plan, held' \subseteq held, "sink" \notin held', ErrorStep, disk' = disk,
           stage = "wait" => worker.pc = "done" /\ (raised' = <<>> => WholeFile)
    PROVE  RunInv'
<1>1. ErrorTyped /\ ErrorFollows /\ disk.visible # "new" /\ disk.dash # "new"
  BY RunTypes, ErrorInvParts DEF RunInv, DiskInv, RunTyped, Reporting, Ending
<1>2. ErrorTyped' /\ ErrorFollows' /\ (raised' = <<>> => raised = <<>>)
  BY <1>1, ErrorStepFacts
<1>3. TypeOK'
  BY <1>2, RunTypes DEF RunInv, RunTyped, RunStages
<1>4. OwnersInv'
  BY DEF RunInv, OwnersInv, SinkFrame, Alive, BeforeSink, Publishing, Reporting, Ending
<1>5. ErrorInv'
  BY <1>2, ErrorInvParts DEF Preparing, BeforeSink, Publishing, Reporting
<1>6. DiskInv'
  BY <1>1, <1>2, FrameFacts
     DEF RunInv, DiskInv, Publishable, SinkFrame, Preparing, BeforeSink, Publishing,
         Reporting, Ending
<1> QED
  BY <1>3, <1>4, <1>5, <1>6 DEF RunInv, SinkFrame

LEMMA ReleasesKeepRun ==
    ASSUME RunInv, FinishWaited \/ \E s \in Prepared : SuccessReleases(s)
    PROVE  RunInv'
<1>1. CASE FinishWaited
  <2>1. SinkFrame
    BY <1>1, FrameFacts DEF FinishWaited, RunInv
  <2>2. {"Jtl"} \in Met
    BY DEF Failures, Met
  <2>3. ErrorStep
    BY <1>1, <2>2 DEF FinishWaited, Raise, Records, ErrorStep
  <2>4. raised' = <<>> => WholeFile
    <3>1. done[Finish] = "Ok" => WholeFile
      BY DEF RunInv, SinkInv, AckInv
    <3>2. raised \in Seq(Met)
      BY RunTypes DEF RunInv, RunTyped, ErrorTyped
    <3>3. Append(raised, {"Jtl"}) # <<>>
      BY <2>2, <3>2, AppendFailure
    <3> QED
      BY <1>1, <3>1, <3>3 DEF FinishWaited, Raise
  <2> QED
    BY <1>1, <2>1, <2>3, <2>4, ReleaseKeeps DEF FinishWaited, Joined
<1>2. ASSUME NEW s \in Prepared, SuccessReleases(s)
      PROVE  RunInv'
  <2>1. SinkFrame
    BY <1>2, FrameFacts DEF SuccessReleases, RunInv
  <2>2. ErrorStep
    BY <1>2, OutcomeStep DEF SuccessReleases
  <2>3. "sink" \notin held
    BY <1>2 DEF SuccessReleases, RunInv, OwnersInv
  <2> QED
    BY <1>2, <2>1, <2>2, <2>3, ReleaseKeeps DEF SuccessReleases
<1> QED
  BY <1>1, <1>2

LEMMA SuccessReleasedKeepsRun ==
    ASSUME RunInv, SuccessReleased
    PROVE  RunInv'
<1>1. /\ UNCHANGED <<sinkVars, plan, held, error, raised, disk>> /\ stage = "release"
      /\ stage' \in {"sync", "unstage"} /\ held \subseteq {"target"}
      /\ stage' = "sync" => plan.file /\ error.primary = {}
  BY StageFacts DEF SuccessReleased, publication_allowed, RunInv, OwnersInv
<1>2. SinkFrame /\ (WholeFile' <=> WholeFile)
  BY <1>1, FrameFacts DEF RunInv
<1>3. stage' = "sync" => raised = <<>>
  <2>1. raised \in Seq(Met) /\ ErrorFollows
    BY RunTypes, ErrorInvParts DEF RunInv, RunTyped, ErrorTyped
  <2>2. raised # <<>> => Head(raised) \in Met
    BY <2>1
  <2> QED
    BY <1>1, <2>1, <2>2, NotNone DEF ErrorFollows
<1>4. TypeOK'
  BY <1>1, RunTypes DEF RunInv, RunTyped, ErrorTyped, RunStages, Publishing
<1>5. OwnersInv'
  BY <1>1, <1>2
     DEF RunInv, OwnersInv, SinkFrame, Alive, BeforeSink, Publishing, Reporting, Ending
<1>6. ErrorInv'
  BY <1>1, <1>3 DEF RunInv, ErrorInv, Preparing, BeforeSink, Publishing, Reporting
<1>7. DiskInv'
  BY <1>1, <1>2, <1>3
     DEF RunInv, DiskInv, Publishable, SinkFrame, Preparing, BeforeSink, Publishing,
         Reporting, Ending
<1> QED
  BY <1>2, <1>4, <1>5, <1>6, <1>7 DEF RunInv, SinkFrame

-----------------------------------------------------------------------------
(* The success path: publication.                                          *)

LEMMA SyncResultKeepsRun ==
    ASSUME RunInv, SyncResult
    PROVE  RunInv'
<1>1. /\ UNCHANGED <<state, done, issued, cancel, worker, plan, held, error, raised, disk>>
      /\ stage = "sync" /\ stage' = "revalidate" /\ file' = [file EXCEPT !.synced = TRUE]
  BY DEF SyncResult
<1>2. SinkInv' /\ file'.synced /\ (file'.lost <=> file.lost) /\ (WholeFile => WholeFile')
  BY <1>1, SyncKeeps DEF RunInv
<1>3. TypeOK'
  BY <1>1, RunTypes DEF RunInv, RunTyped, ErrorTyped, RunStages, Publishing
<1>4. OwnersInv'
  BY <1>1 DEF RunInv, OwnersInv, Alive, BeforeSink, Publishing, Reporting, Ending
<1>5. ErrorInv'
  BY <1>1 DEF RunInv, ErrorInv, Preparing, BeforeSink, Publishing, Reporting
<1>6. DiskInv'
  BY <1>1, <1>2 DEF RunInv, DiskInv, Publishable, Preparing, BeforeSink, Publishing,
                    Reporting, Ending
<1> QED
  BY <1>2, <1>3, <1>4, <1>5, <1>6 DEF RunInv

LEMMA PublicationKeepsRun ==
    ASSUME RunInv, \/ Revalidate \/ RenameResult
                   \/ \E v \in {"none", "foreign"} : ForeignChange(v)
    PROVE  RunInv'
<1>1. /\ UNCHANGED <<sinkVars, plan, held, error, raised>>
      /\ stage \in {"revalidate", "rename"}
  BY DEF Revalidate, RenameResult, ForeignChange
<1>2. SinkFrame /\ (WholeFile' <=> WholeFile)
  BY <1>1, FrameFacts DEF RunInv
<1>3. /\ disk \in DiskType /\ disk.visible # "new" /\ disk.dash # "new" /\ raised = <<>>
      /\ WholeFile /\ file.synced /\ ~file.lost /\ error = NoError /\ plan.file
      /\ held \subseteq {"target"}
  BY <1>1, RunTypes
     DEF RunInv, RunTyped, DiskInv, OwnersInv, ErrorInv, Publishing, Reporting, Ending
<1>4. /\ disk' \in DiskType /\ disk'.dash = disk.dash
      /\ \/ stage' \in {"revalidate", "rename"} /\ disk'.visible # "new"
         \/ /\ stage' \in {"dashStage", "unstage"}
            /\ disk'.visible = "new" /\ ~disk'.staged
  <2>1. CASE Revalidate
    BY <1>3, <2>1 DEF Revalidate
  <2>2. CASE RenameResult
    BY <1>3, <2>2 DEF RenameResult, DiskType
  <2>3. ASSUME NEW v \in {"none", "foreign"}, ForeignChange(v)
        PROVE  disk' \in DiskType /\ disk'.dash = disk.dash /\ disk'.visible = v
               /\ stage' = stage
    <3>1. disk' = [disk EXCEPT !.visible = v, !.changed = stage] /\ stage' = stage
      BY <2>3 DEF ForeignChange
    <3> QED
      BY <1>1, <1>3, <3>1 DEF DiskType
  <2> QED
    BY <1>1, <2>1, <2>2, <2>3
<1>5. TypeOK'
  BY <1>1, <1>4, RunTypes DEF RunInv, RunTyped, ErrorTyped, RunStages, Publishing, Reporting
<1>6. OwnersInv'
  BY <1>1, <1>2, <1>3, <1>4
     DEF RunInv, OwnersInv, SinkFrame, Alive, BeforeSink, Publishing, Reporting, Ending
<1>7. ErrorInv'
  BY <1>1, <1>3, <1>4 DEF RunInv, ErrorInv, Preparing, BeforeSink, Publishing, Reporting
<1>8. DiskInv'
  BY <1>1, <1>2, <1>3, <1>4
     DEF DiskInv, Publishable, SinkFrame, NoError, Preparing, BeforeSink, Publishing, Reporting,
         Ending
<1> QED
  BY <1>2, <1>5, <1>6, <1>7, <1>8 DEF RunInv, SinkFrame

LEMMA PublishFailsKeepsRun ==
    ASSUME RunInv, PublishFails
    PROVE  RunInv'
<1>1. /\ UNCHANGED <<sinkVars, plan, held, disk>>
      /\ stage \in Publishing /\ stage' = "unstage"
      /\ Raise({"Staging"}, record_cleanup_error(error, {"Staging"}))
  BY DEF PublishFails, Publishing
<1>2. SinkFrame /\ (WholeFile' <=> WholeFile)
  BY <1>1, FrameFacts DEF RunInv
<1>3. ErrorTyped /\ ErrorFollows /\ disk.visible # "new" /\ disk.dash # "new"
  BY <1>1, RunTypes, ErrorInvParts
     DEF RunInv, RunTyped, DiskInv, Publishing, Reporting, Ending
<1>4. ErrorTyped' /\ ErrorFollows'
  <2>1. {"Staging"} \in Met
    BY DEF Failures, Met
  <2> QED
    BY <1>1, <1>3, <2>1, RecordsFollows DEF Raise, Records
<1>5. TypeOK'
  BY <1>1, <1>4, RunTypes DEF RunInv, RunTyped, RunStages
<1>6. OwnersInv'
  BY <1>1, <1>2
     DEF RunInv, OwnersInv, SinkFrame, Alive, BeforeSink, Publishing, Reporting, Ending
<1>7. ErrorInv'
  BY <1>1, <1>4, ErrorInvParts DEF Preparing, BeforeSink, Publishing, Reporting
<1>8. DiskInv'
  BY <1>1, <1>2, <1>3
     DEF RunInv, DiskInv, Publishable, SinkFrame, Preparing, BeforeSink, Publishing,
         Reporting, Ending
<1> QED
  BY <1>2, <1>5, <1>6, <1>7, <1>8 DEF RunInv, SinkFrame

-----------------------------------------------------------------------------
(* The success path: the dashboard.                                        *)

(* The dashboard's directories change, the result does not.                *)
SameResult(d) == d \in DiskType /\ d.visible = disk.visible /\ (d.staged <=> disk.staged)

LEMMA DashboardKeeps ==
    ASSUME RunInv, stage \in Reporting, NEW d, SameResult(d),
           NEW next \in Reporting \cup {"unstage"},
           next \in Reporting => (d.dash = "new" <=> next = "dashRemove"),
           Dashboard(d, next)
    PROVE  RunInv'
<1>1. /\ UNCHANGED <<sinkVars, plan, held, error, raised>> /\ disk' = d /\ stage' = next
  BY DEF Dashboard
<1>2. SinkFrame /\ (WholeFile' <=> WholeFile)
  BY <1>1, FrameFacts DEF RunInv
<1>3. TypeOK'
  BY <1>1, RunTypes DEF RunInv, RunTyped, ErrorTyped, RunStages, SameResult
<1>4. OwnersInv'
  BY <1>1, <1>2
     DEF RunInv, OwnersInv, SinkFrame, Alive, BeforeSink, Publishing, Reporting, Ending
<1>5. ErrorInv'
  BY <1>1 DEF RunInv, ErrorInv, Preparing, BeforeSink, Publishing, Reporting
<1>6. DiskInv'
  BY <1>1, <1>2
     DEF RunInv, DiskInv, Publishable, SinkFrame, SameResult, Preparing, BeforeSink, Publishing,
         Reporting, Ending
<1> QED
  BY <1>2, <1>3, <1>4, <1>5, <1>6 DEF RunInv, SinkFrame

LEMMA ReportFailsKeeps ==
    ASSUME RunInv, stage \in Reporting, NEW d, SameResult(d),
           NEW m \in SUBSET Failures, ReportFails(d, m)
    PROVE  RunInv'
<1>1. /\ UNCHANGED <<sinkVars, plan, held>> /\ stage' = "unstage"
      /\ disk' \in {d, [d EXCEPT !.dashStaged = FALSE]}
  BY DEF ReportFails
<1>2. disk' \in DiskType /\ disk'.visible = disk.visible /\ (disk'.staged <=> disk.staged)
  BY <1>1 DEF SameResult, DiskType
<1>3. SinkFrame /\ (WholeFile' <=> WholeFile)
  BY <1>1, FrameFacts DEF RunInv
<1>4. ErrorTyped /\ ErrorFollows /\ raised = <<>>
  BY RunTypes, ErrorInvParts DEF RunInv, RunTyped, ErrorInv
<1>5. ErrorTyped' /\ ErrorFollows' /\ Publishable'
  <2>1. PICK f \in Met : "dashboard" \in f /\ RaiseFirst(f)
    <3>1. {"dashboard"} \cup m \in Met /\ {"dashboard", "dashStage"} \cup m \in Met
      BY DEF Failures, Met
    <3> QED
      BY <3>1 DEF ReportFails
  <2>2. error'.primary = f
    BY <2>1 DEF RaiseFirst, Raise
  <2> QED
    BY <1>4, <2>1, <2>2, RecordsFollows DEF RaiseFirst, Raise, Records, Publishable
<1>6. TypeOK'
  BY <1>1, <1>2, <1>5, RunTypes DEF RunInv, RunTyped, RunStages
<1>7. OwnersInv'
  BY <1>1, <1>3
     DEF RunInv, OwnersInv, SinkFrame, Alive, BeforeSink, Publishing, Reporting, Ending
<1>8. ErrorInv'
  BY <1>1, <1>5, ErrorInvParts DEF Preparing, BeforeSink, Publishing, Reporting
<1>9. DiskInv'
  BY <1>1, <1>2, <1>3, <1>5
     DEF RunInv, DiskInv, Publishable, SinkFrame, Preparing, BeforeSink, Publishing,
         Reporting, Ending
<1> QED
  BY <1>3, <1>6, <1>7, <1>8, <1>9 DEF RunInv, SinkFrame

LEMMA DashboardKeepsRun ==
    ASSUME RunInv, \/ StageDashboard \/ MoveOldDashboard \/ CheckOldDashboard
                   \/ RenameDashboard \/ RemoveOldDashboard
    PROVE  RunInv'
<1>1. stage \in Reporting /\ (disk.dash = "new" <=> stage = "dashRemove")
  BY DEF RunInv, DiskInv, StageDashboard, MoveOldDashboard, CheckOldDashboard, RenameDashboard,
         RemoveOldDashboard, Reporting
<1>2. disk \in DiskType
  BY RunTypes DEF RunInv, RunTyped
<1>3. SameResult(disk) /\ SameResult(Restored(disk))
  BY <1>2 DEF SameResult, Restored, DiskType
<1>4. /\ {} \in SUBSET Failures /\ {"dashAside"} \in SUBSET Failures
      /\ {"dashBack"} \in SUBSET Failures
  BY DEF Failures
<1>5. CASE StageDashboard
  <2> DEFINE d == [disk EXCEPT !.dashStaged = TRUE]
             n == IF disk.dash = "none" THEN "dashRename" ELSE "dashMove"
  <2>1. SameResult(d) /\ n \in Reporting /\ n # "dashRemove" /\ d.dash # "new"
    BY <1>1, <1>2, <1>5 DEF StageDashboard, SameResult, DiskType, Reporting
  <2>2. Dashboard(d, n) \/ ReportFails(disk, {}) \/ ReportFails(d, {})
    BY <1>5 DEF StageDashboard
  <2> HIDE DEF d, n
  <2> QED
    BY <1>1, <1>3, <1>4, <2>1, <2>2, DashboardKeeps, ReportFailsKeeps
<1>6. CASE MoveOldDashboard
  <2>1. disk.dash # "new"
    BY <1>1, <1>6 DEF MoveOldDashboard
  <2>2. SameResult(Kept(disk)) /\ Kept(disk).dash # "new"
    BY <1>2, <2>1 DEF SameResult, Kept, DiskType
  <2>3. \/ Dashboard(Kept(disk), "dashCheck")
        \/ ReportFails(disk, {}) \/ ReportFails(disk, {"dashAside"})
    BY <1>6 DEF MoveOldDashboard
  <2> HIDE DEF Kept
  <2> QED
    BY <1>1, <1>3, <1>4, <2>2, <2>3, "dashCheck" \in Reporting, DashboardKeeps,
       ReportFailsKeeps DEF Reporting
<1>7. ASSUME RollBack
      PROVE  RunInv'
  <2>1. ReportFails(Restored(disk), {}) \/ ReportFails(disk, {"dashBack"})
    BY <1>7 DEF RollBack
  <2> HIDE DEF Restored
  <2> QED
    BY <1>1, <1>3, <1>4, <2>1, ReportFailsKeeps
<1>8. CASE CheckOldDashboard
  <2>1. (Dashboard(disk, "dashRename") \/ RollBack) /\ disk.dash # "new"
    BY <1>1, <1>8 DEF CheckOldDashboard
  <2> QED
    BY <1>1, <1>3, <1>7, <2>1, "dashRename" \in Reporting, DashboardKeeps DEF Reporting
<1>9. CASE RenameDashboard
  <2> DEFINE d == [disk EXCEPT !.dash = "new", !.dashStaged = FALSE]
             n == IF disk.oldDash = "none" THEN "unstage" ELSE "dashRemove"
  <2>1. /\ SameResult(d) /\ n \in Reporting \cup {"unstage"} /\ d.dash = "new"
        /\ n \in Reporting => n = "dashRemove"
    BY <1>2 DEF SameResult, DiskType, Reporting
  <2>2. Dashboard(d, n) \/ RollBack
    BY <1>9 DEF RenameDashboard
  <2> HIDE DEF d, n
  <2> QED
    BY <1>1, <1>7, <2>1, <2>2, DashboardKeeps
<1>10. CASE RemoveOldDashboard
  <2> DEFINE d == [disk EXCEPT !.oldDash = "none"]
  <2>1. SameResult(d)
    BY <1>2 DEF SameResult, DiskType
  <2>2. Dashboard(d, "unstage") \/ ReportFails(disk, {})
    BY <1>10 DEF RemoveOldDashboard
  <2>3. "unstage" \notin Reporting
    BY DEF Reporting
  <2> HIDE DEF d
  <2> QED
    BY <1>1, <1>3, <1>4, <2>1, <2>2, <2>3, DashboardKeeps, ReportFailsKeeps
<1> QED
  BY <1>5, <1>6, <1>8, <1>9, <1>10
-----------------------------------------------------------------------------
(* The end of the run.                                                     *)

LEMMA UnstageKeepsRun ==
    ASSUME RunInv, Unstage
    PROVE  RunInv'
<1>1. /\ UNCHANGED <<sinkVars, plan>> /\ stage = "unstage" /\ stage' = "return"
      /\ held' = held \ {"target"}
  BY DEF Unstage
<1>2. SinkFrame /\ (WholeFile' <=> WholeFile)
  BY <1>1, FrameFacts DEF RunInv
<1>3. ErrorTyped /\ ErrorFollows /\ disk \in DiskType
  BY RunTypes, ErrorInvParts DEF RunInv, RunTyped
<1>4. /\ ErrorTyped' /\ ErrorFollows' /\ disk' \in DiskType
      /\ disk'.visible = disk.visible /\ disk'.dash = disk.dash
      /\ disk'.staged => disk.staged /\ StagingReported'
      /\ ~disk.staged => error' = error
  <2>1. CASE disk' = Unstaged /\ UNCHANGED <<error, raised>>
    BY <1>3, <2>1, UnstagedFacts DEF ErrorTyped, ErrorFollows
  <2>2. CASE /\ disk.staged /\ UNCHANGED disk
             /\ Raise({"Staging"}, record_cleanup_error(error, {"Staging"}))
    <3>1. {"Staging"} \in Met /\ Records({"Staging"})
      BY <2>2 DEF Failures, Met, Raise, Records
    <3>2. "Staging" \in {"Staging"}
      OBVIOUS
    <3> QED
      BY <1>3, <2>2, <3>1, <3>2, RecordsFollows
  <2> QED
    BY <2>1, <2>2 DEF Unstage
<1>5. TypeOK'
  BY <1>1, <1>4, RunTypes DEF RunInv, RunTyped, RunStages, Ending
<1>6. OwnersInv'
  BY <1>1, <1>2
     DEF RunInv, OwnersInv, SinkFrame, Alive, BeforeSink, Publishing, Reporting, Ending
<1>7. ErrorInv'
  BY <1>1, <1>4, ErrorInvParts DEF Preparing, BeforeSink, Publishing, Reporting, Ending
<1>8. DiskInv'
  BY <1>1, <1>2, <1>4
     DEF RunInv, DiskInv, Publishable, SinkFrame, Preparing, BeforeSink, Publishing,
         Reporting, Ending
<1> QED
  BY <1>2, <1>5, <1>6, <1>7, <1>8 DEF RunInv, SinkFrame

LEMMA ReturnKeepsRun ==
    ASSUME RunInv, Return
    PROVE  RunInv'
<1>1. /\ UNCHANGED <<sinkVars, plan, held, error, raised>>
      /\ stage = "return" /\ stage' = "returned" /\ disk' \in {disk, Unstaged}
  BY DEF Return
<1>2. SinkFrame /\ (WholeFile' <=> WholeFile) /\ (StagingReported' <=> StagingReported)
  BY <1>1, FrameFacts DEF RunInv, StagingReported
<1>3. disk \in DiskType
  BY RunTypes DEF RunInv, RunTyped
<1>4. /\ disk' \in DiskType /\ disk'.visible = disk.visible /\ disk'.dash = disk.dash
      /\ disk'.staged => disk.staged
  BY <1>1, <1>3, UnstagedFacts
<1>5. TypeOK'
  BY <1>1, <1>4, RunTypes DEF RunInv, RunTyped, ErrorTyped, RunStages, Ending
<1>6. OwnersInv'
  BY <1>1, <1>2
     DEF RunInv, OwnersInv, SinkFrame, Alive, BeforeSink, Publishing, Reporting, Ending
<1>7. ErrorInv'
  BY <1>1 DEF RunInv, ErrorInv, Preparing, BeforeSink, Publishing, Reporting
<1>8. DiskInv'
  BY <1>1, <1>2, <1>4
     DEF RunInv, DiskInv, Publishable, SinkFrame, Preparing, BeforeSink, Publishing,
         Reporting, Ending
<1> QED
  BY <1>2, <1>5, <1>6, <1>7, <1>8 DEF RunInv, SinkFrame

LEMMA CrashKeepsRun ==
    ASSUME RunInv, Crash
    PROVE  RunInv'
<1>1. /\ UNCHANGED <<issued, plan, disk>> /\ stage # "crashed" /\ stage' = "crashed"
      /\ held' = {} /\ error' = NoError /\ raised' = <<>> /\ worker' = NoWorker
  BY DEF Crash
<1>2. /\ SinkInv' /\ (file.synced => file' = file) /\ (file'.synced <=> file.synced)
      /\ (file'.lost => file.lost \/ ~file.synced) /\ (WholeFile => WholeFile')
  BY CrashKeepsSink DEF Crash, RunInv
<1>3. worker'.pc = "none"
  BY <1>1 DEF NoWorker
<1>4. ErrorTyped' /\ ErrorFollows' /\ Publishable'
  BY <1>1 DEF NoError, ErrorTyped, ErrorFollows, Publishable
<1>5. TypeOK'
  BY <1>1, <1>4, RunTypes DEF RunInv, RunTyped, RunStages
<1>6. OwnersInv'
  BY <1>1, <1>3 DEF RunInv, OwnersInv, BeforeSink, Publishing, Reporting, Ending
<1>7. ErrorInv'
  BY <1>1, <1>4, ErrorInvParts
<1>8. DiskInv'
  BY <1>1, <1>2, <1>4
     DEF RunInv, DiskInv, Publishable, Preparing, BeforeSink, Publishing, Reporting, Ending
<1> QED
  BY <1>2, <1>5, <1>6, <1>7, <1>8 DEF RunInv

-----------------------------------------------------------------------------
(* The theorems.                                                           *)

LEMMA RunInit == Init => RunInv
<1> SUFFICES ASSUME Init PROVE RunInv
  OBVIOUS
<1>1. SinkInit /\ SinkInv /\ worker.pc = "none" /\ ~file.lost
  BY SinkInitInv, EmptyFile DEF Init, SinkInit, NoWorker
<1>2. /\ plan \in Plans /\ stage = "time" /\ held = {} /\ error = NoError /\ raised = <<>>
      /\ disk \in DiskType /\ disk.visible # "new" /\ disk.dash # "new" /\ ~disk.staged
  BY RunTransactionAssumption DEF Init, DiskType
<1>3. ErrorTyped
  BY <1>2 DEF ErrorTyped, NoError
<1>4. TypeOK
  BY <1>2, <1>3, RunTypes DEF RunTyped, RunStages, Preparing, BeforeSink
<1>5. OwnersInv /\ ErrorInv
  BY <1>1, <1>2
     DEF OwnersInv, ErrorInv, BeforeSink, Publishing, Reporting, Ending
<1>6. DiskInv
  BY <1>1, <1>2 DEF DiskInv, Publishing, Reporting
<1> QED
  BY <1>1, <1>4, <1>5, <1>6 DEF RunInv

LEMMA RunNext == RunInv /\ [Next]_vars => RunInv'
<1> SUFFICES ASSUME RunInv, [Next]_vars PROVE RunInv'
  OBVIOUS
<1>1. CASE RunStep
  BY <1>1, PrepareKeepsRun, PrepareTargetKeepsRun, StartSinkKeepsRun, FailuresKeepRun,
     EngineUseKeepsRun, EngineSucceedsKeepsRun, FailurePath, SettleKeepsRun,
     FailureDoneKeepsRun, FinishSinkOwnerKeepsRun, ReleasesKeepRun, SuccessReleasedKeepsRun,
     SyncResultKeepsRun, PublicationKeepsRun, PublishFailsKeepsRun, DashboardKeepsRun,
     UnstageKeepsRun, ReturnKeepsRun
     DEF RunStep
<1>2. CASE UNCHANGED vars
  <2>1. UNCHANGED sinkVars /\ UNCHANGED runVars
    BY <1>2 DEF vars
  <2> QED
    BY <2>1, SinkStepKeeps, FrameFacts DEF RunInv, SinkFrame, Alive
<1> QED
  BY <1>1, <1>2, WriterKeepsRun, CrashKeepsRun, PublicationKeepsRun DEF Next

(* The invariant of the run and its writer.                                *)
THEOREM TransactionInvariant == Spec => []RunInv
BY RunInit, RunNext, PTL DEF Spec

LEMMA VisibleInit == Init => VisibleInv
BY DEF Init, VisibleInv, Admitted, Publishing

(* The stage goes on and the disk stays, as far as VisibleInv looks at it. *)
LEMMA StageKeepsVisible ==
    ASSUME VisibleInv, plan' = plan, disk'.visible = disk.visible,
           disk'.admitted = disk.admitted, disk'.changed = disk.changed,
           disk'.oldDash = disk.oldDash, disk'.dash = disk.dash,
           plan.file /\ stage' \in Admitted \cup Publishing =>
               stage \in Admitted \cup Publishing,
           stage' \in {"revalidate", "rename"} \cup Late
               \/ stage \notin {"revalidate", "rename"} \cup Late,
           stage' \in Late \ {"dashStage", "dashMove"}
               \/ stage \notin Late \ {"dashStage", "dashMove"},
           stage' = "revalidate" => disk.changed = "never",
           stage' = "rename" => disk.changed # "revalidate",
           stage' \notin {"dashCheck", "dashRename"}
    PROVE  VisibleInv'
BY DEF VisibleInv

(* Steps of a stage that is neither a publishing nor a late one.           *)
LEMMA EarlyKeepsVisible ==
    ASSUME VisibleInv, UNCHANGED <<plan, disk>>,
           stage \notin {"revalidate", "rename"} \cup Late,
           stage' \in {"fail", "failJoin", "return", "unstage", "revalidate", stage}
             \/ (stage \in Preparing /\ stage' = Following(stage)
                   /\ (stage = "target" => ~plan.file))
             \/ (stage = "engine" /\ stage' \in {"finish", "release"})
             \/ (stage = "finish" /\ stage' = "wait") \/ (stage = "wait" /\ stage' = "release")
             \/ (stage = "release" /\ stage' = "sync"),
           stage' = "revalidate" => stage = "sync"
    PROVE  VisibleInv'
<1>1. disk.changed = "never"
  BY DEF VisibleInv
<1>2. stage' \in Admitted \cup Publishing /\ plan.file => stage \in Admitted \cup Publishing
  BY FollowingFacts DEF Admitted, Publishing, Preparing, BeforeSink, Late, Reporting, Ending
<1>3. stage' \notin {"rename", "dashCheck", "dashRename"}
  BY FollowingFacts DEF Preparing, BeforeSink, Late, Reporting
<1> QED
  BY <1>1, <1>2, <1>3, StageKeepsVisible

LEMMA DashBack ==
    ASSUME RunInv, VisibleInv, stage \in {"dashCheck", "dashRename"}, RollBack
    PROVE  /\ disk'.visible = disk.visible /\ disk'.admitted = disk.admitted
           /\ disk'.changed = disk.changed
           /\ disk.oldDash = "old" => disk'.dash = "old" \/ disk'.oldDash = "old"
           /\ disk.dash = "none" /\ stage' = "unstage" /\ plan' = plan
<1>1. disk \in DiskType /\ disk.dash = "none"
  BY RunTypes DEF RunInv, RunTyped, VisibleInv
<1> QED
  BY <1>1 DEF RollBack, ReportFails, Restored, DiskType

LEMMA VisibleNext ==
    ASSUME RunInv, VisibleInv, [Next]_vars
    PROVE  VisibleInv'
<1>1. disk \in DiskType /\ stage \in RunStages
  BY RunTypes DEF RunInv, RunTyped
<1>2. CASE \/ \E s \in Prepared : Prepare(s) \/ FailureReleases(s) \/ SuccessReleases(s)
           \/ StartSink \/ EngineUsesSink \/ EngineSucceeds \/ EngineFails
           \/ CancelRouter \/ CancelSink \/ JoinCancelled
           \/ FailureDone \/ FinishSinkOwner \/ FinishWaited \/ SuccessReleased \/ SyncResult
  <2>1. /\ UNCHANGED <<plan, disk>>
        /\ stage \notin {"revalidate", "rename"} \cup Late
    BY <1>2, StageFacts
       DEF Prepare, FailureReleases, SuccessReleases, StartSink, EngineUsesSink,
           EngineSucceeds, EngineFails, CancelRouter, CancelSink, JoinCancelled, FailureDone,
           FinishSinkOwner, FinishWaited, SuccessReleased, SyncResult, runVars, Late,
           Reporting, Ending, Preparing, BeforeSink
  <2>2. /\ \/ stage' \in {"fail", "failJoin", "return", "unstage", "revalidate", stage}
           \/ /\ stage \in Preparing /\ stage' = Following(stage)
              /\ stage = "target" => ~plan.file
           \/ stage = "engine" /\ stage' \in {"finish", "release"}
           \/ stage = "finish" /\ stage' = "wait"
           \/ stage = "wait" /\ stage' = "release"
           \/ stage = "release" /\ stage' = "sync"
        /\ stage' = "revalidate" => stage = "sync"
    BY <1>2, <2>1, StageFacts, NeededFacts, FollowingFacts
       DEF Prepare, FailureReleases, SuccessReleases, StartSink, EngineUsesSink,
           EngineSucceeds, EngineFails, CancelRouter, CancelSink, JoinCancelled, FailureDone,
           FinishSinkOwner, FinishWaited, SuccessReleased, SyncResult, runVars,
           Preparing, BeforeSink
  <2> QED
    BY <2>1, <2>2, EarlyKeepsVisible
<1>3. CASE \E s \in Prepared : PrepareFails(s)
  <2>1. /\ plan' = plan /\ stage' = "fail" /\ stage \in Preparing
        /\ disk' \in {disk, [disk EXCEPT !.staged = TRUE]}
    BY <1>3, StageFacts DEF PrepareFails
  <2>2. /\ disk'.visible = disk.visible /\ disk'.admitted = disk.admitted
        /\ disk'.changed = disk.changed /\ disk'.oldDash = disk.oldDash
    BY <1>1, <2>1 DEF DiskType
  <2> QED
    BY <2>1, <2>2
       DEF VisibleInv, Late, Reporting, Ending, Preparing, BeforeSink, Admitted, Publishing
<1>4. CASE PrepareTarget
  <2>1. /\ plan' = plan /\ stage = "target" /\ stage' = "sink"
        /\ disk' = [disk EXCEPT !.admitted = disk.visible, !.staged = TRUE]
    BY <1>4, FollowingFacts DEF PrepareTarget
  <2>2. /\ disk'.visible = disk.visible /\ disk'.admitted = disk'.visible
        /\ disk'.changed = disk.changed /\ disk'.oldDash = disk.oldDash
    BY <1>1, <2>1 DEF DiskType
  <2> QED
    BY <2>1, <2>2 DEF VisibleInv, Late, Reporting, Ending
<1>5. CASE FailureUnstages \/ Unstage \/ Return
  <2>1. /\ plan' = plan /\ disk' \in {disk, Unstaged}
        /\ \/ stage = "fail" /\ stage' = "fail"
           \/ stage = "unstage" /\ stage' = "return"
           \/ stage = "return" /\ stage' = "returned"
    BY <1>5 DEF FailureUnstages, Unstage, Return
  <2>2. /\ disk'.visible = disk.visible /\ disk'.admitted = disk.admitted
        /\ disk'.changed = disk.changed /\ disk'.oldDash = disk.oldDash
    BY <1>1, <2>1 DEF DiskType, Unstaged
  <2> QED
    BY <2>1, <2>2 DEF VisibleInv, Late, Reporting, Ending, Admitted, Publishing
<1>6. CASE Revalidate \/ PublishFails \/ RenameResult
  <2>1. CASE Revalidate
    BY <2>1 DEF Revalidate, VisibleInv, Late, Reporting, Ending, Admitted, Publishing
  <2>2. CASE PublishFails
    BY <2>2 DEF PublishFails, VisibleInv, Late, Reporting, Ending, Admitted, Publishing
  <2>3. CASE RenameResult
    <3>1. /\ plan' = plan /\ stage = "rename" /\ stage' \in {"dashStage", "unstage"}
          /\ disk'.changed = disk.changed /\ disk'.oldDash = disk.oldDash
      BY <1>1, <2>3 DEF RenameResult, DiskType
    <3> QED
      BY <3>1 DEF VisibleInv, Late, Reporting, Ending, Admitted, Publishing
  <2> QED
    BY <1>6, <2>1, <2>2, <2>3
<1>7. ASSUME NEW v \in {"none", "foreign"}, ForeignChange(v)
      PROVE  VisibleInv'
  <2>1. /\ plan' = plan /\ stage' = stage /\ stage \in {"revalidate", "rename"}
        /\ disk.changed = "never" /\ disk.visible # v
        /\ disk' = [disk EXCEPT !.visible = v, !.changed = stage]
    BY <1>7 DEF ForeignChange
  <2>2. /\ disk'.visible = v /\ disk'.admitted = disk.admitted
        /\ disk'.changed = stage /\ disk'.oldDash = disk.oldDash
    BY <1>1, <2>1 DEF DiskType
  <2>3. disk.visible = disk.admitted
    BY <2>1 DEF VisibleInv, RunInv, OwnersInv, Publishing
  <2> QED
    BY <2>1, <2>2, <2>3 DEF VisibleInv, Late, Reporting, Ending
<1>8. CASE \/ StageDashboard \/ MoveOldDashboard \/ CheckOldDashboard
           \/ RenameDashboard \/ RemoveOldDashboard
  <2>1. /\ plan' = plan /\ stage \in Reporting
        /\ disk'.visible = disk.visible /\ disk'.changed = disk.changed
        /\ stage' \in Reporting \cup {"unstage"}
        /\ stage' \in {"dashStage", "dashMove"} =>
              disk'.oldDash = disk.oldDash /\ stage = "dashStage"
        /\ stage' \in {"dashCheck", "dashRename"} => disk'.dash = "none"
    <3>1. CASE StageDashboard
      BY <1>1, <3>1 DEF StageDashboard, Dashboard, ReportFails, DiskType, Reporting
    <3>2. CASE MoveOldDashboard
      BY <1>1, <3>2 DEF MoveOldDashboard, Dashboard, ReportFails, Kept, DiskType, Reporting
    <3>3. CASE CheckOldDashboard
      BY <1>1, <3>3, DashBack
         DEF CheckOldDashboard, Dashboard, DiskType, Reporting, VisibleInv
    <3>4. CASE RenameDashboard
      BY <1>1, <3>4, DashBack DEF RenameDashboard, Dashboard, DiskType, Reporting
    <3>5. CASE RemoveOldDashboard
      BY <1>1, <3>5 DEF RemoveOldDashboard, Dashboard, ReportFails, DiskType, Reporting
    <3> QED
      BY <1>8, <3>1, <3>2, <3>3, <3>4, <3>5
  <2> QED
    BY <2>1 DEF VisibleInv, Late, Reporting, Ending, Admitted, Publishing
<1>9. CASE Crash
  BY <1>9 DEF Crash, VisibleInv, Late, Reporting, Ending, Admitted, Publishing
<1>10. CASE WriterStep \/ SettleCancel \/ UNCHANGED vars
  BY <1>10 DEF WriterStep, SettleCancel, vars, runVars, VisibleInv
<1> QED
  BY <1>2, <1>3, <1>4, <1>5, <1>6, <1>7, <1>8, <1>9, <1>10 DEF Next, RunStep

(* The visible result is the admitted one until somebody changes it, and   *)
(* the stages at which it may be changed and the dashboard moved aside.    *)
THEOREM VisibleInvariant == Spec => []VisibleInv
BY TransactionInvariant, VisibleInit, VisibleNext, PTL DEF Spec

(* A successful completion is true: acknowledged events are in the file,   *)
(* in order and without gaps, an acknowledged finish closed a file that    *)
(* has them all, and the permits of the queue are exact, whatever was      *)
(* cancelled, failed or panicked.                                          *)
THEOREM AcknowledgementsAreTrue == Spec => []AcknowledgedIsWritten
<1>1. RunInv => AcknowledgedIsWritten
  <2> SUFFICES ASSUME RunInv PROVE AcknowledgedIsWritten
    OBVIOUS
  <2>1. PermitsAccounted
    BY DEF RunInv, SinkInv, PermitsInv, PermitsAccounted
  <2>2. \A i \in DOMAIN file.events : file.events[i] = i
    BY DEF RunInv, SinkInv, FileInv
  <2>3. Range(file.events) = 1 .. Len(file.events) /\ Len(file.events) \in Nat
    BY <2>2, SinkTypes DEF RunInv, SinkInv, Typed, FileType, Range
  <2>4. 1 .. Len(file.events) \subseteq issued \cap Writes
    <3>1. Range(file.events) \subseteq Writes
      BY SinkTypes DEF RunInv, SinkInv, Typed, FileType, Range
    <3> QED
      BY <2>3, <3>1 DEF RunInv, SinkInv, FileInv
  <2>5. \A e \in Writes : done[e] = "Ok" => e \in Range(file.events)
    BY <2>3, CmdFacts DEF RunInv, SinkInv, AckInv
  <2> QED
    BY <2>1, <2>2, <2>3, <2>4, <2>5 DEF RunInv, SinkInv, AckInv, WholeFile, AcknowledgedIsWritten
<1> QED
  BY <1>1, TransactionInvariant, PTL

(* A visible result is complete and durable, after a crash too, and has    *)
(* not replaced one that somebody put there before the last check.         *)
THEOREM PublishedResultIsComplete == Spec => []PublishedIsComplete
<1>1. RunInv /\ VisibleInv => PublishedIsComplete
  <2> SUFFICES ASSUME RunInv, VisibleInv, disk.visible = "new"
               PROVE  /\ file.closed /\ ~file.torn /\ ~file.lost
                      /\ file.events = [i \in 1 .. Cardinality(issued \cap Writes) |-> i]
                      /\ held \subseteq {"target"} /\ worker.pc \in {"none", "done"}
                      /\ Publishable /\ disk.changed # "revalidate"
    BY DEF PublishedIsComplete, Publishable
  <2> DEFINE n == Len(file.events)
  <2>1. WholeFile /\ ~file.lost /\ Publishable /\ disk.changed # "revalidate"
    BY DEF RunInv, DiskInv, VisibleInv
  <2>2. held \subseteq {"target"} /\ worker.pc \in {"none", "done"}
    BY DEF RunInv, DiskInv, OwnersInv, Reporting, Ending
  <2>3. /\ n \in Nat /\ DOMAIN file.events = 1 .. n /\ file.events \in Seq(Writes)
        /\ \A i \in 1 .. n : file.events[i] = i
    BY SinkTypes DEF RunInv, SinkInv, Typed, FileType, FileInv
  <2>4. issued \cap Writes = 1 .. n
    <3>1. \A i \in 1 .. n : i \in Writes
      BY <2>3
    <3> QED
      BY <2>1, <3>1 DEF RunInv, SinkInv, FileInv, WholeFile
  <2>5. Cardinality(1 .. n) = n
    <3> HIDE DEF n
    <3>1. n \in Int /\ 1 \in Int
      BY <2>3
    <3>2. Cardinality(1 .. n) = IF 1 > n THEN 0 ELSE n - 1 + 1
      BY <3>1, FS_Interval
    <3> QED
      BY <2>3, <3>2
  <2>6. file.events = [i \in 1 .. n |-> i]
    BY <2>3
  <2> QED
    BY <2>1, <2>2, <2>4, <2>5, <2>6 DEF WholeFile
<1> QED
  BY <1>1, TransactionInvariant, VisibleInvariant, PTL

(* A run that returns has released every owner and joined its writer, a    *)
(* failed one has published nothing but what a failed report found, and a  *)
(* staging file that is left is reported.                                  *)
THEOREM FailedRunsAreClean == Spec => []FailureIsClean
<1>1. RunInv => FailureIsClean
  BY DEF RunInv, OwnersInv, DiskInv, Ending, FailureIsClean, StagingReported, Publishable
<1> QED
  BY <1>1, TransactionInvariant, PTL

(* No failure is dropped: the returned error holds those that the first    *)
(* failing step met as its primary one, and those of every later step, in  *)
(* order, as cleanup.  (That they keep their types is not true.)           *)
THEOREM FailuresAreReported == Spec => []EveryFailureReported
<1>1. RunInv => EveryFailureReported
  BY DEF RunInv, ErrorInv, EveryFailureReported
<1> QED
  BY <1>1, TransactionInvariant, PTL

(* No step loses the previous dashboard before the new one is in place.    *)
THEOREM DashboardIsKept == Spec => DashboardNotLost
<1>1. RunInv /\ VisibleInv /\ [Next]_vars =>
        [disk.dash = "old" \/ disk.oldDash = "old" =>
           disk'.dash \in {"old", "new"} \/ disk'.oldDash = "old"]_vars
  <2> SUFFICES ASSUME RunInv, VisibleInv, Next, disk.dash = "old" \/ disk.oldDash = "old"
               PROVE  disk'.dash \in {"old", "new"} \/ disk'.oldDash = "old"
    OBVIOUS
  <2>1. disk \in DiskType
    BY RunTypes DEF RunInv, RunTyped
  <2> USE DEF DiskType
  <2>2. CASE disk'.dash = disk.dash /\ disk'.oldDash = disk.oldDash
    BY <2>2
  <2>3. CASE StageDashboard
    BY <2>1, <2>3 DEF StageDashboard, Dashboard, ReportFails
  <2>4. CASE MoveOldDashboard
    <3>1. disk.oldDash = "none"
      BY <2>4 DEF VisibleInv, MoveOldDashboard, Late, Ending
    <3> QED
      BY <2>1, <2>4, <3>1 DEF MoveOldDashboard, Dashboard, ReportFails, Kept
  <2>5. CASE CheckOldDashboard
    BY <2>1, <2>5, DashBack DEF CheckOldDashboard, Dashboard
  <2>6. CASE RenameDashboard
    BY <2>1, <2>6, DashBack DEF RenameDashboard, Dashboard
  <2>7. CASE RemoveOldDashboard
    BY <2>1, <2>7 DEF RemoveOldDashboard, Dashboard, ReportFails, RunInv, DiskInv, Reporting
  <2>8. CASE UNCHANGED disk
    BY <2>2, <2>8
  <2>9. CASE WriterStep \/ Crash \/ \E v \in {"none", "foreign"} : ForeignChange(v)
    BY <2>1, <2>2, <2>8, <2>9 DEF WriterStep, runVars, Crash, ForeignChange
  <2>10. CASE PrepareTarget \/ RenameResult \/ \E s \in Prepared : PrepareFails(s)
    BY <2>1, <2>2, <2>8, <2>10 DEF PrepareTarget, RenameResult, PrepareFails
  <2>11. CASE FailureUnstages \/ Unstage \/ Return
    BY <2>1, <2>2, <2>8, <2>11 DEF FailureUnstages, Unstage, Return, Unstaged
  <2>12. CASE \/ \E s \in Prepared : Prepare(s) \/ FailureReleases(s) \/ SuccessReleases(s)
              \/ StartSink \/ EngineUsesSink \/ EngineSucceeds \/ EngineFails
              \/ CancelRouter \/ CancelSink \/ SettleCancel \/ JoinCancelled
              \/ FailureDone \/ FinishSinkOwner \/ FinishWaited \/ SuccessReleased
              \/ SyncResult \/ Revalidate \/ PublishFails
    BY <2>8, <2>12
       DEF Prepare, FailureReleases, SuccessReleases, StartSink, EngineUsesSink,
           EngineSucceeds, EngineFails, CancelRouter, CancelSink, SettleCancel, JoinCancelled,
           FailureDone, FinishSinkOwner, FinishWaited, SuccessReleased, SyncResult,
           Revalidate, PublishFails, runVars
  <2> QED
    BY <2>3, <2>4, <2>5, <2>6, <2>7, <2>9, <2>10, <2>11, <2>12 DEF Next, RunStep
<1> QED
  BY <1>1, TransactionInvariant, VisibleInvariant, PTL DEF Spec, DashboardNotLost

=============================================================================

----------------------- MODULE ProcessRegistryProofs -----------------------
(***************************************************************************)
(* Proofs about the process-supervision registry, for every number of      *)
(* slots and callers and every bound on generations and attempts.          *)
(*                                                                         *)
(* A slot goes round free, reserved but not yet reset, in use, being       *)
(* released (between the two halves of release_slot) and free or retired   *)
(* again.  The two halves of reserve and of release_slot are under         *)
(* different locks, so the invariant says of each slot which combination   *)
(* of the control block, the slot and the callers it can be in.            *)
(***************************************************************************)
EXTENDS ProcessRegistry, FiniteSetTheorems, WellFoundedInduction, TLAPS

(* The callers between the two halves of reserve for slot i.               *)
Resetting(i) == {c \in Callers : caller[c].pc = "reset" /\ caller[c].i = i}

(* States in which a process may be launched for, or answered for by, a    *)
(* caller, and states that own no root.                                    *)
LiveStates  == {"Reserved", "Creating", "HandoffPending", "Active"}
EmptyStates == {"Free", "Reserved", "Creating", "Complete", "Retired"}

(* The control block and the slot agree.                                   *)
FreeIsEmpty(i) == free[i] => slot[i].state = "Free" /\ i \notin freeing

FreeingIsEmpty(i) ==
    i \in freeing => ~free[i] /\ slot[i].state \in {"Free", "Retired"}

(* A slot is reserved by one caller, which will reset it to the generation *)
(* the control block gave out.                                             *)
ResetIsExclusive(i) ==
    /\ \A c \in Resetting(i) :
          /\ ~free[i] /\ i \notin freeing /\ slot[i].state = "Free"
          /\ caller[c].g = generations[i]
          /\ \A d \in Resetting(i) : d = c
    /\ Resetting(i) = {} => generations[i] = slot[i].gen

RootHasState(i) == slot[i].state \in EmptyStates => slot[i].root = "none"

(* A launch without a diagnostic has a caller or an abandonment mark.      *)
LiveIsAnswered(i) ==
    slot[i].state \in LiveStates =>
        /\ ~slot[i].terminal
        /\ Holders(i) # {} \/ abandonedGen[i] # 0

SlotInv(i) ==
    /\ FreeIsEmpty(i)
    /\ FreeingIsEmpty(i)
    /\ ResetIsExclusive(i)
    /\ RootHasState(i)
    /\ LiveIsAnswered(i)

(* Shutdown stops the service only when nothing is owned, and nothing is   *)
(* reserved after it.                                                      *)
ShutdownInv ==
    /\ serviceStop => admission # "Open" /\ owned = 0
    /\ service = "stopped" => serviceStop
    /\ admission = "Joined" => service = "stopped"

RegistryInv ==
    /\ TypeOK
    /\ owned = Cardinality(OwnedSlots)
    /\ \A i \in Slots : SlotInv(i)
    /\ ShutdownInv

(* The launch requests queued or in the hand of a pass, and the states     *)
(* that only a launch leads to.                                            *)
Pending  == ({queue[k] : k \in Slots} \cup {inHand[p] : p \in Passes}) \ {NoRequest}
Launched == {"Creating", "HandoffPending", "Active"}

Capability(c) == [i |-> caller[c].i, g |-> caller[c].g]

(* No slot and generation is given out twice, and no request for it exists *)
(* before its caller enqueued it: a cancelled reservation was not launched.*)
LaunchInv ==
    /\ \A c \in Callers : caller[c].pc # "idle" => caller[c].g <= generations[caller[c].i]
    /\ \A c, d \in Callers :
          c # d /\ caller[c].pc # "idle" /\ caller[d].i = caller[c].i
              => caller[d].g # caller[c].g
    /\ \A r \in Pending : r.g <= generations[r.i]
    /\ \A c \in Callers :
          caller[c].pc \in {"reset", "enqueue"} => Capability(c) \notin Pending
    /\ \A c \in Callers :
          caller[c].pc = "enqueue" /\ Current(c)
              => slot[caller[c].i].state \notin Launched

-----------------------------------------------------------------------------
(* Facts about the model's operators.                                      *)

(* The least element of a non-empty set of naturals belongs to it.         *)
LEMMA MinIsMember ==
    ASSUME NEW S \in SUBSET Nat, S # {}
    PROVE  Min(S) \in S
<1> DEFINE R == OpToRel(<, Nat)
<1>1. IsWellFoundedOn(R, Nat)
  BY NatLessThanWellFounded
<1>2. R = {ss \in Nat \X Nat : ss[1] < ss[2]}
  BY DEF OpToRel
<1> HIDE DEF R
<1>3. PICK x \in S : \A y \in S : ~ (<<y, x>> \in R)
  BY <1>1, WFMin
<1>4. ASSUME NEW y \in S, ~(x <= y)
      PROVE  FALSE
  <2>1. <<y, x>> \in Nat \X Nat /\ y < x
    BY <1>4
  <2>2. <<y, x>>[1] = y /\ <<y, x>>[2] = x
    OBVIOUS
  <2> QED
    BY <1>2, <1>3, <2>1, <2>2
<1> QED
  BY <1>3, <1>4 DEF Min

(* Every value a slot record can take between actions.                     *)
SlotRecords(states) ==
    [gen : Gens, state : states, root : {"none", "live", "exited", "reaped"},
     terminal : BOOLEAN, attempts : 0 .. MaxAttempts]

(* A caller outside idle refers to a slot by a generation above zero.      *)
LEMMA CallerType ==
    ASSUME TypeOK, NEW c \in Callers, caller[c].pc # "idle"
    PROVE  /\ caller[c] = [pc |-> caller[c].pc, i |-> caller[c].i, g |-> caller[c].g]
           /\ caller[c].i \in Slots
           /\ caller[c].g \in 1 .. MaxGen
           /\ caller[c].pc \in {"reset", "enqueue", "await", "prepared", "active",
                                "asking", "cleaning"}
BY DEF TypeOK, Idle

LEMMA RequestType ==
    ASSUME TypeOK, NEW p \in Passes, inHand[p] # NoRequest
    PROVE  inHand[p] \in Requests /\ inHand[p].i \in Slots /\ inHand[p].g \in 1 .. MaxGen
BY DEF TypeOK, Requests

LEMMA CompletedType ==
    ASSUME NEW s \in SlotRecords(States), NEW terminal \in BOOLEAN
    PROVE  /\ Completed(s, terminal) \in SlotRecords({"Complete"})
           /\ Completed(s, terminal).gen = s.gen
           /\ Completed(s, terminal).state = "Complete"
           /\ Completed(s, terminal).root = "none"
BY RegistryAssumption DEF Completed, SlotRecords

LEMMA RetainedType ==
    ASSUME NEW s \in SlotRecords(States),
           NEW state \in {"CleanupRequested", "ContainmentLost"}
    PROVE  /\ Retained(s, state) \in SlotRecords({state, "Quarantined"})
           /\ Retained(s, state).gen = s.gen
           /\ Retained(s, state).state \in {state, "Quarantined"}
           /\ Retained(s, state).root = s.root
<1> DEFINE n == IF s.attempts + 1 > MaxAttempts THEN MaxAttempts ELSE s.attempts + 1
<1>1. n \in 0 .. MaxAttempts
  BY RegistryAssumption DEF SlotRecords
<1>2. Retained(s, state) = IF n >= MaxAttempts
        THEN [s EXCEPT !.attempts = n, !.state = "Quarantined", !.terminal = TRUE]
        ELSE [s EXCEPT !.attempts = n, !.state = state]
  BY DEF Retained
<1> HIDE DEF n
<1> QED
  BY <1>1, <1>2 DEF SlotRecords

(* One cleanup attempt keeps the generation, drops a root only by          *)
(* completing the slot and revives none.                                   *)
LEMMA CleanupResult ==
    ASSUME NEW s \in SlotRecords(States), NEW outcome \in Outcomes,
           NEW t \in cleanup_slot(s, outcome)
    PROVE  /\ t \in SlotRecords({"CleanupRequested", "ContainmentLost", "Quarantined",
                                "Complete"})
           /\ t.gen = s.gen
           /\ t.state = "Complete" => t.root = "none"
           /\ t.root = "none" => t.state = "Complete"
           /\ t.root = "live" => s.root = "live"
<1> DEFINE r == [s EXCEPT !.root = "reaped"]
           q == [s EXCEPT !.state = "Quarantined", !.terminal = TRUE]
<1>1. /\ r \in SlotRecords(States) /\ r.gen = s.gen /\ r.root = "reaped"
      /\ q \in SlotRecords({"Quarantined"}) /\ q.gen = s.gen /\ q.root = s.root
      /\ q.state = "Quarantined" /\ s.terminal \in BOOLEAN
  BY DEF SlotRecords, States
<1>2. CASE t = Completed(s, s.terminal) \/ t = Completed(s, TRUE)
  <2>1. t \in SlotRecords({"Complete"}) /\ t.gen = s.gen /\ t.state = "Complete"
        /\ t.root = "none"
    BY <1>1, <1>2, CompletedType
  <2> QED
    BY <2>1 DEF SlotRecords
<1>3. CASE s.root # "none" /\ \E state \in {"CleanupRequested", "ContainmentLost"} :
               t = Retained(s, state)
  <2>1. PICK state \in {"CleanupRequested", "ContainmentLost"} : t = Retained(s, state)
    BY <1>3
  <2>2. /\ t \in SlotRecords({state, "Quarantined"}) /\ t.gen = s.gen
        /\ t.root = s.root /\ t.state \in {state, "Quarantined"}
    BY <2>1, RetainedType
  <2> QED
    BY <1>3, <2>2 DEF SlotRecords
<1>4. CASE t = Retained(r, "CleanupRequested")
  <2>1. /\ t \in SlotRecords({"CleanupRequested", "Quarantined"}) /\ t.gen = s.gen
        /\ t.root = "reaped" /\ t.state \in {"CleanupRequested", "Quarantined"}
    BY <1>1, <1>4, RetainedType
  <2> QED
    BY <2>1 DEF SlotRecords
<1>5. CASE s.root # "none" /\ t = q
  <2> HIDE DEF q
  <2> QED
    BY <1>1, <1>5 DEF SlotRecords
<1> QED
  BY <1>2, <1>3, <1>4, <1>5 DEF cleanup_slot, Outcomes

-----------------------------------------------------------------------------
(* What a step leaves alone.                                               *)

LEMMA SlotType ==
    ASSUME TypeOK, NEW i \in Slots
    PROVE  slot[i] \in SlotRecords(States \ {"RootWaitable"})
BY DEF TypeOK, SlotRecords

(* A launch that goes on in slot i had a caller or a mark and still has    *)
(* one.                                                                    *)
StillAnswered(i) ==
    slot[i].state \in LiveStates /\ slot'[i].state \in LiveStates =>
        (Holders(i) # {} \/ abandonedGen[i] # 0
            => Holders(i)' # {} \/ abandonedGen'[i] # 0)

ControlKept(i) ==
    /\ free'[i] = free[i] /\ generations'[i] = generations[i]
    /\ i \in freeing' <=> i \in freeing

ResettersKept(i) ==
    /\ Resetting(i)' = Resetting(i)
    /\ \A c \in Resetting(i) : caller'[c] = caller[c]

LEMMA SlotUntouched ==
    ASSUME NEW i \in Slots, SlotInv(i), ControlKept(i), ResettersKept(i),
           slot'[i] = slot[i], StillAnswered(i)
    PROVE  SlotInv(i)'
<1> USE DEF SlotInv, ControlKept, ResettersKept
<1>1. FreeIsEmpty(i)' /\ FreeingIsEmpty(i)' /\ RootHasState(i)'
  BY DEF FreeIsEmpty, FreeingIsEmpty, RootHasState
<1>2. ResetIsExclusive(i)'
  BY DEF ResetIsExclusive
<1>3. LiveIsAnswered(i)'
  BY DEF LiveIsAnswered, StillAnswered
<1> QED
  BY <1>1, <1>2, <1>3

(* A slot in use that is given another state in use.                       *)
LEMMA SlotUpdated ==
    ASSUME NEW i \in Slots, SlotInv(i), ControlKept(i), ResettersKept(i),
           StillAnswered(i),
           slot'[i].gen = slot[i].gen,
           slot[i].state \notin {"Free", "Retired"},
           slot'[i].state \notin {"Free", "Retired"},
           slot'[i].state \in EmptyStates => slot'[i].root = "none",
           slot'[i].state \in LiveStates =>
               slot[i].state \in LiveStates /\ slot'[i].terminal = slot[i].terminal
    PROVE  SlotInv(i)'
<1> USE DEF SlotInv, ControlKept, ResettersKept
<1>1. FreeIsEmpty(i)' /\ FreeingIsEmpty(i)' /\ RootHasState(i)'
  BY DEF FreeIsEmpty, FreeingIsEmpty, RootHasState
<1>2. ResetIsExclusive(i)'
  BY DEF ResetIsExclusive
<1>3. LiveIsAnswered(i)'
  BY DEF LiveIsAnswered, StillAnswered
<1> QED
  BY <1>1, <1>2, <1>3

(* The count is about the free flags, the slots being released and which   *)
(* slots are retired.                                                      *)
LEMMA OwnedKept ==
    ASSUME free' = free, freeing' = freeing,
           \A i \in Slots : slot'[i].state = "Retired" <=> slot[i].state = "Retired"
    PROVE  OwnedSlots' = OwnedSlots
BY DEF OwnedSlots

(* A caller that moves on with the capability it has, past its reset.      *)
LEMMA GotoKeeps ==
    ASSUME TypeOK, NEW c \in Callers, NEW pc, Goto(c, pc),
           caller[c].pc \notin {"idle", "reset"},
           pc \in {"enqueue", "await", "prepared", "active", "asking", "cleaning"}
    PROVE  /\ caller' \in [Callers ->
                  {Idle} \cup [pc : {"reset", "enqueue", "await", "prepared", "active",
                                    "asking", "cleaning"},
                              i : Slots, g : 1 .. MaxGen]]
           /\ \A i \in Slots : ResettersKept(i)
           /\ \A i \in Slots : slot'[i].gen = slot[i].gen => Holders(i)' = Holders(i)
<1>0. /\ caller[c] = [pc |-> caller[c].pc, i |-> caller[c].i, g |-> caller[c].g]
      /\ caller[c].i \in Slots /\ caller[c].g \in 1 .. MaxGen
  BY CallerType
<1>1. /\ caller'[c] = [pc |-> pc, i |-> caller[c].i, g |-> caller[c].g]
      /\ \A d \in Callers \ {c} : caller'[d] = caller[d]
      /\ caller' = [d \in Callers |-> IF d = c THEN caller'[c] ELSE caller[d]]
  <2>1. /\ caller' = [caller EXCEPT ![c] = [caller[c] EXCEPT !.pc = pc]]
        /\ caller = [d \in Callers |-> caller[d]]
    BY DEF Goto, TypeOK
  <2>2. [caller[c] EXCEPT !.pc = pc] = [pc |-> pc, i |-> caller[c].i, g |-> caller[c].g]
    BY <1>0
  <2> QED
    BY <2>1, <2>2
<1>2. caller'[c] \in [pc : {"reset", "enqueue", "await", "prepared", "active",
                           "asking", "cleaning"},
                     i : Slots, g : 1 .. MaxGen]
  BY <1>0, <1>1
<1>3. caller'[c].pc = pc /\ caller'[c].i = caller[c].i /\ caller'[c].g = caller[c].g
  BY <1>1
<1>4. \A i \in Slots : ResettersKept(i)
  BY <1>1, <1>3 DEF ResettersKept, Resetting
<1>5. \A i \in Slots : slot'[i].gen = slot[i].gen => Holders(i)' = Holders(i)
  BY <1>1, <1>3 DEF Holders
<1> QED
  BY <1>1, <1>2, <1>4, <1>5 DEF TypeOK

(* A caller that gives its capability up, past its reset.                  *)
LEMMA ReturnKeeps ==
    ASSUME TypeOK, NEW c \in Callers, Return(c), caller[c].pc \notin {"idle", "reset"}
    PROVE  /\ caller' \in [Callers ->
                  {Idle} \cup [pc : {"reset", "enqueue", "await", "prepared", "active",
                                    "asking", "cleaning"},
                              i : Slots, g : 1 .. MaxGen]]
           /\ \A i \in Slots : ResettersKept(i)
           /\ \A i \in Slots :
                 slot'[i].gen = slot[i].gen => Holders(i)' = Holders(i) \ {c}
<1>1. /\ caller'[c] = Idle
      /\ \A d \in Callers \ {c} : caller'[d] = caller[d]
      /\ caller' = [d \in Callers |-> IF d = c THEN caller'[c] ELSE caller[d]]
  BY DEF Return, TypeOK
<1>2. caller'[c].pc = "idle" /\ caller'[c].i \notin Slots
  BY <1>1 DEF Idle, Slots
<1>3. \A i \in Slots : ResettersKept(i)
  BY <1>1, <1>2 DEF ResettersKept, Resetting
<1>4. \A i \in Slots : slot'[i].gen = slot[i].gen => Holders(i)' = Holders(i) \ {c}
  BY <1>1, <1>2 DEF Holders
<1> QED
  BY <1>1, <1>3, <1>4 DEF TypeOK

(* A step that changes no slot and nothing of the control block but the    *)
(* queue.                                                                  *)
LEMMA QuietStep ==
    ASSUME RegistryInv, TypeOK',
           UNCHANGED <<admission, free, generations, owned, slot, freeing, service,
                       serviceStop>>,
           \A i \in Slots : ResettersKept(i) /\ StillAnswered(i)
    PROVE  RegistryInv'
<1>1. \A i \in Slots : ControlKept(i) /\ slot'[i] = slot[i]
  BY DEF ControlKept
<1>2. \A i \in Slots : SlotInv(i)'
  BY <1>1, SlotUntouched DEF RegistryInv
<1>3. OwnedSlots' = OwnedSlots
  BY OwnedKept
<1>4. ShutdownInv'
  BY DEF RegistryInv, ShutdownInv
<1> QED
  BY <1>2, <1>3, <1>4 DEF RegistryInv

(* A step that changes the one slot i, in use before and after.            *)
LEMMA SlotStep ==
    ASSUME RegistryInv, TypeOK', NEW i \in Slots, NEW t, Put(i, t),
           UNCHANGED <<admission, free, generations, owned, freeing, service, serviceStop>>,
           \A j \in Slots : ResettersKept(j) /\ StillAnswered(j),
           t.gen = slot[i].gen,
           slot[i].state \notin {"Free", "Retired"},
           t.state \notin {"Free", "Retired"},
           t.state \in EmptyStates => t.root = "none",
           t.state \in LiveStates =>
               slot[i].state \in LiveStates /\ t.terminal = slot[i].terminal
    PROVE  RegistryInv'
<1>1. slot'[i] = t /\ \A j \in Slots \ {i} : slot'[j] = slot[j]
  BY DEF Put, RegistryInv, TypeOK
<1>2. \A j \in Slots : ControlKept(j)
  BY DEF ControlKept
<1>3. SlotInv(i)'
  BY <1>1, <1>2, SlotUpdated DEF RegistryInv
<1>4. \A j \in Slots \ {i} : SlotInv(j)'
  BY <1>1, <1>2, SlotUntouched DEF RegistryInv
<1>5. OwnedSlots' = OwnedSlots
  BY <1>1, OwnedKept
<1>6. ShutdownInv'
  BY DEF RegistryInv, ShutdownInv
<1> QED
  BY <1>3, <1>4, <1>5, <1>6 DEF RegistryInv

(* With the callers and the marks unchanged everyone who answered still    *)
(* does.                                                                   *)
LEMMA CallersUnchanged ==
    ASSUME caller' = caller, NEW i \in Slots,
           slot'[i].gen = slot[i].gen,
           abandonedGen[i] # 0 => abandonedGen'[i] # 0
    PROVE  ResettersKept(i) /\ StillAnswered(i)
<1>1. Resetting(i)' = Resetting(i) /\ Holders(i)' = Holders(i)
  BY DEF Resetting, Holders
<1> QED
  BY <1>1 DEF ResettersKept, StillAnswered

-----------------------------------------------------------------------------
(* The callers: one lemma per action.                                      *)

LEMMA MoveOnStep ==
    ASSUME RegistryInv, NEW c \in Callers, NEW pc, Goto(c, pc),
           caller[c].pc \notin {"idle", "reset"},
           pc \in {"enqueue", "await", "prepared", "active", "asking", "cleaning"},
           UNCHANGED <<admission, free, generations, owned, slot, freeing,
                       abandonedGen, marking, inHand, service, serviceStop>>,
           queue' \in [Slots -> Requests \cup {NoRequest}],
           cleanupGen' \in [Slots -> Gens]
    PROVE  RegistryInv'
<1>1. TypeOK'
  BY GotoKeeps DEF RegistryInv, TypeOK
<1>2. \A i \in Slots : ResettersKept(i) /\ StillAnswered(i)
  BY GotoKeeps DEF RegistryInv, StillAnswered
<1> QED
  BY <1>1, <1>2, QuietStep

LEMMA EnqueueStep ==
    ASSUME RegistryInv, NEW c \in Callers, Enqueue(c)
    PROVE  RegistryInv'
<1>1. caller[c].i \in Slots /\ caller[c].g \in 1 .. MaxGen
  BY CallerType DEF Enqueue, RegistryInv
<1>2. [i |-> caller[c].i, g |-> caller[c].g] \in Requests
  BY <1>1 DEF Requests
<1>3. queue' \in [Slots -> Requests \cup {NoRequest}]
  BY <1>2 DEF Enqueue, RegistryInv, TypeOK
<1>4. cleanupGen' \in [Slots -> Gens]
  BY DEF Enqueue, marks, RegistryInv, TypeOK
<1> QED
  BY <1>3, <1>4, MoveOnStep DEF Enqueue, marks

LEMMA AwaitReadyStep ==
    ASSUME RegistryInv, NEW c \in Callers, AwaitReady(c)
    PROVE  RegistryInv'
<1>1. queue' \in [Slots -> Requests \cup {NoRequest}] /\ cleanupGen' \in [Slots -> Gens]
  BY DEF AwaitReady, control, marks, RegistryInv, TypeOK
<1> QED
  BY <1>1, MoveOnStep DEF AwaitReady, control, marks

LEMMA RequestCleanupStep ==
    ASSUME RegistryInv, NEW c \in Callers, RequestCleanup(c)
    PROVE  RegistryInv'
<1>1. queue' \in [Slots -> Requests \cup {NoRequest}] /\ cleanupGen' \in [Slots -> Gens]
  BY DEF RequestCleanup, control, marks, RegistryInv, TypeOK
<1> QED
  BY <1>1, MoveOnStep DEF RequestCleanup, control, marks

LEMMA MarkCleanupStep ==
    ASSUME RegistryInv, NEW c \in Callers, MarkCleanup(c)
    PROVE  RegistryInv'
<1>0. caller[c].i \in Slots /\ caller[c].g \in 1 .. MaxGen
  BY CallerType DEF MarkCleanup, RegistryInv
<1>1. caller[c].i \in Slots /\ caller[c].g \in Gens
  BY <1>0, RegistryAssumption DEF Gens
<1>2. queue' \in [Slots -> Requests \cup {NoRequest}] /\ cleanupGen' \in [Slots -> Gens]
  BY <1>1 DEF MarkCleanup, control, RegistryInv, TypeOK
<1> QED
  BY <1>2, MoveOnStep DEF MarkCleanup, control

LEMMA CleanupReturnsStep ==
    ASSUME RegistryInv, NEW c \in Callers, CleanupReturns(c)
    PROVE  RegistryInv'
<1>1. queue' \in [Slots -> Requests \cup {NoRequest}] /\ cleanupGen' \in [Slots -> Gens]
  BY DEF CleanupReturns, control, marks, RegistryInv, TypeOK
<1> QED
  BY <1>1, MoveOnStep DEF CleanupReturns, control, marks

(* A caller that leaves a mark behind answers through it.                  *)
LEMMA MarkAnswers ==
    ASSUME RegistryInv, NEW c \in Callers, caller[c].pc \notin {"idle", "reset"},
           Return(c), mark_abandoned(caller[c].i, caller[c].g),
           \A i \in Slots : slot'[i].gen = slot[i].gen
    PROVE  /\ abandonedGen' \in [Slots -> Gens]
           /\ \A i \in Slots : ResettersKept(i) /\ StillAnswered(i)
<1>1. /\ caller[c].i \in Slots /\ caller[c].g \in Gens /\ caller[c].g # 0
      /\ abandonedGen \in [Slots -> Gens]
  BY RegistryAssumption, CallerType DEF RegistryInv, Gens, TypeOK
<1>2. /\ abandonedGen' \in [Slots -> Gens]
      /\ abandonedGen'[caller[c].i] # 0
      /\ \A i \in Slots \ {caller[c].i} : abandonedGen'[i] = abandonedGen[i]
  BY <1>1 DEF mark_abandoned
<1>3. \A i \in Slots : ResettersKept(i) /\ Holders(i)' = Holders(i) \ {c}
  BY ReturnKeeps DEF RegistryInv
<1>4. \A i \in Slots \ {caller[c].i} : c \notin Holders(i)
  BY DEF Holders
<1> QED
  BY <1>2, <1>3, <1>4 DEF StillAnswered

LEMMA AwaitDeadlineStep ==
    ASSUME RegistryInv, NEW c \in Callers, AwaitDeadline(c)
    PROVE  RegistryInv'
<1>1. /\ abandonedGen' \in [Slots -> Gens]
      /\ \A i \in Slots : ResettersKept(i) /\ StillAnswered(i)
  BY MarkAnswers DEF AwaitDeadline
<1>2. TypeOK'
  BY <1>1, ReturnKeeps DEF AwaitDeadline, control, RegistryInv, TypeOK
<1> QED
  BY <1>1, <1>2, QuietStep DEF AwaitDeadline, control

LEMMA DropStep ==
    ASSUME RegistryInv, NEW c \in Callers, Drop(c)
    PROVE  RegistryInv'
<1>1. /\ abandonedGen' \in [Slots -> Gens]
      /\ \A i \in Slots : ResettersKept(i) /\ StillAnswered(i)
  BY MarkAnswers DEF Drop
<1>2. TypeOK'
  BY <1>1, ReturnKeeps DEF Drop, control, RegistryInv, TypeOK
<1> QED
  BY <1>1, <1>2, QuietStep DEF Drop, control

(* A caller that leaves without a mark leaves a launch that is over.       *)
LEMMA AwaitFailsStep ==
    ASSUME RegistryInv, NEW c \in Callers, AwaitFails(c)
    PROVE  RegistryInv'
<1>1. /\ caller[c].pc = "await" /\ Return(c)
      /\ UNCHANGED <<control, slot, freeing, marks, inHand, service, serviceStop>>
  BY DEF AwaitFails
<1>2. TypeOK'
  BY <1>1, ReturnKeeps DEF control, marks, RegistryInv, TypeOK
<1>3. \A i \in Slots : ResettersKept(i) /\ Holders(i)' = Holders(i) \ {c}
  BY <1>1, ReturnKeeps DEF RegistryInv
<1>4. ASSUME NEW i \in Slots, slot[i].state \in LiveStates, c \in Holders(i)
      PROVE  FALSE
  <2>1. caller[c].i = i /\ Current(c) /\ ~slot[i].terminal
    BY <1>4 DEF Holders, Current, RegistryInv, SlotInv, LiveIsAnswered
  <2> QED
    BY <1>4, <2>1 DEF AwaitFails, LiveStates
<1>5. \A i \in Slots : StillAnswered(i)
  BY <1>1, <1>3, <1>4 DEF StillAnswered, marks
<1> QED
  BY <1>1, <1>2, <1>3, <1>5, QuietStep DEF control

LEMMA ActivateStep ==
    ASSUME RegistryInv, NEW c \in Callers, Activate(c)
    PROVE  RegistryInv'
<1> DEFINE i == caller[c].i
           t == [slot[i] EXCEPT !.state = "Active"]
           u == [slot[i] EXCEPT !.state = "CleanupRequested"]
<1>1. /\ caller[c].pc = "prepared" /\ i \in Slots /\ TypeOK
      /\ slot[i] \in SlotRecords(States \ {"RootWaitable"})
      /\ UNCHANGED <<control, freeing, cleanupGen, marking, inHand, service, serviceStop>>
  BY CallerType, SlotType DEF Activate, RegistryInv
<1>2. /\ t \in SlotRecords(States \ {"RootWaitable"}) /\ t.gen = slot[i].gen
      /\ t.state = "Active" /\ t.terminal = slot[i].terminal
      /\ u \in SlotRecords(States \ {"RootWaitable"}) /\ u.gen = slot[i].gen
      /\ u.state = "CleanupRequested"
  BY <1>1 DEF SlotRecords, States
<1>3. ASSUME NEW r \in SlotRecords(States \ {"RootWaitable"}), Put(i, r)
      PROVE  /\ slot' \in [Slots -> SlotRecords(States \ {"RootWaitable"})]
             /\ slot'[i] = r /\ \A j \in Slots \ {i} : slot'[j] = slot[j]
  BY <1>1, <1>3, SlotType DEF Put, TypeOK
<1> HIDE DEF t, u
<1>4. CASE /\ Current(c) /\ slot[i].state = "HandoffPending"
           /\ Put(i, t) /\ Goto(c, "active") /\ UNCHANGED abandonedGen
  <2>1. TypeOK'
    BY <1>1, <1>2, <1>3, <1>4, GotoKeeps DEF TypeOK, control, SlotRecords
  <2>2. \A j \in Slots : slot'[j].gen = slot[j].gen
    BY <1>2, <1>3, <1>4
  <2>3. \A j \in Slots : ResettersKept(j) /\ StillAnswered(j)
    BY <1>1, <1>4, <2>2, GotoKeeps DEF StillAnswered
  <2> QED
    BY <1>1, <1>2, <1>4, <2>1, <2>3, SlotStep DEF control, EmptyStates, LiveStates
<1>5. CASE /\ IF Current(c) /\ slot[i].state = "HandoffPending"
              THEN Put(i, u) ELSE UNCHANGED slot
           /\ mark_abandoned(i, caller[c].g) /\ Return(c)
  <2>1. slot' \in [Slots -> SlotRecords(States \ {"RootWaitable"})]
    BY <1>1, <1>2, <1>3, <1>5 DEF TypeOK, SlotRecords
  <2>2. \A j \in Slots : slot'[j].gen = slot[j].gen
    BY <1>2, <1>3, <1>5
  <2>3. /\ abandonedGen' \in [Slots -> Gens]
        /\ \A j \in Slots : ResettersKept(j) /\ StillAnswered(j)
    BY <1>1, <1>5, <2>2, MarkAnswers
  <2>4. TypeOK'
    BY <1>1, <1>5, <2>1, <2>3, ReturnKeeps DEF TypeOK, control, SlotRecords
  <2>5. CASE Current(c) /\ slot[i].state = "HandoffPending"
    BY <1>1, <1>2, <1>5, <2>3, <2>4, <2>5, SlotStep DEF control, EmptyStates, LiveStates
  <2>6. CASE ~(Current(c) /\ slot[i].state = "HandoffPending")
    BY <1>1, <1>5, <2>3, <2>4, <2>6, QuietStep DEF control
  <2> QED
    BY <2>5, <2>6
<1> QED
  BY <1>4, <1>5 DEF Activate, t, u

LEMMA CancelReservationStep ==
    ASSUME RegistryInv, NEW c \in Callers, CancelReservation(c)
    PROVE  LaunchInv => RegistryInv'
<1> HAVE LaunchInv
<1> DEFINE i == caller[c].i
           t == Completed(slot[i], TRUE)
<1>1. /\ caller[c].pc = "enqueue" /\ i \in Slots /\ TypeOK
      /\ slot[i] \in SlotRecords(States)
      /\ UNCHANGED <<control, freeing, marks, inHand, service, serviceStop>>
      /\ Return(c)
  BY CallerType, SlotType DEF CancelReservation, RegistryInv, SlotRecords
<1>2. /\ t \in SlotRecords(States \ {"RootWaitable"}) /\ t.gen = slot[i].gen
      /\ t.state = "Complete" /\ t.root = "none"
  BY <1>1, CompletedType DEF SlotRecords, States
<1> HIDE DEF t
<1>3. /\ slot' \in [Slots -> SlotRecords(States \ {"RootWaitable"})]
      /\ \A j \in Slots : slot'[j].gen = slot[j].gen
  BY <1>1, <1>2, SlotType DEF CancelReservation, Put, TypeOK, t
<1>4. TypeOK'
  BY <1>1, <1>3, ReturnKeeps DEF TypeOK, control, marks, SlotRecords
<1>5. \A j \in Slots : ResettersKept(j) /\ Holders(j)' = Holders(j) \ {c}
  BY <1>1, <1>3, ReturnKeeps
<1>6. ASSUME NEW j \in Slots, slot[j].state \in LiveStates, c \in Holders(j)
      PROVE  i = j /\ Current(c) /\ slot[i].state = "Reserved"
  BY <1>1, <1>6 DEF Holders, Current, LaunchInv, LiveStates, Launched
<1>7. CASE Current(c) /\ slot[i].state = "Reserved"
  <2>1. Put(i, t)
    BY <1>7 DEF CancelReservation, t
  <2>2. slot'[i].state = "Complete"
    BY <1>1, <1>2, <2>1 DEF Put, TypeOK
  <2>3. \A j \in Slots : StillAnswered(j)
    BY <1>1, <1>5, <1>6, <2>2 DEF StillAnswered, LiveStates, marks
  <2> QED
    BY <1>1, <1>2, <1>4, <1>5, <1>7, <2>1, <2>3, SlotStep DEF control, LiveStates
<1>8. CASE ~(Current(c) /\ slot[i].state = "Reserved")
  <2>1. slot' = slot
    BY <1>8 DEF CancelReservation
  <2>2. \A j \in Slots : StillAnswered(j)
    BY <1>1, <1>5, <1>6, <1>8 DEF StillAnswered, marks
  <2> QED
    BY <1>1, <1>4, <1>5, <2>1, <2>2, QuietStep DEF control
<1> QED
  BY <1>7, <1>8

(* reserve, first half: the slot leaves the free list and is counted.      *)
LEMMA ReserveStep ==
    ASSUME RegistryInv, NEW c \in Callers, Reserve(c)
    PROVE  RegistryInv'
<1> DEFINE able == {i \in Slots : free[i] /\ generations[i] < MaxGen}
           h(m) == [pc |-> "reset", i |-> m, g |-> generations[m] + 1]
<1>1. PICK m \in Slots :
      /\ m \in able
      /\ caller[c] = Idle /\ admission = "Open"
      /\ free' = [free EXCEPT ![m] = FALSE]
      /\ generations' = [generations EXCEPT ![m] = generations[m] + 1]
      /\ caller' = [caller EXCEPT ![c] = h(m)]
      /\ owned' = owned + 1
      /\ UNCHANGED <<admission, queue, slot, freeing, marks, inHand, service, serviceStop>>
  <2>1. able \in SUBSET Nat /\ able # {}
    BY RegistryAssumption DEF Reserve, Slots
  <2>2. Min(able) \in able
    BY <2>1, MinIsMember
  <2> QED
    BY <2>2 DEF Reserve
<1>2. free[m] /\ generations[m] < MaxGen
  BY <1>1
<1>3. /\ TypeOK /\ SlotInv(m) /\ \A i \in Slots : SlotInv(i)
      /\ owned = Cardinality(OwnedSlots) /\ ShutdownInv
  BY <1>2 DEF RegistryInv
<1>4. /\ slot[m].state = "Free" /\ m \notin freeing /\ m \notin OwnedSlots
      /\ Resetting(m) = {}
  BY <1>2, <1>3 DEF SlotInv, FreeIsEmpty, ResetIsExclusive, OwnedSlots
<1>5. /\ free' \in [Slots -> BOOLEAN] /\ ~free'[m]
      /\ \A i \in Slots \ {m} : free'[i] = free[i] /\ generations'[i] = generations[i]
      /\ generations' \in [Slots -> Gens] /\ generations'[m] = generations[m] + 1
      /\ generations[m] + 1 \in 1 .. MaxGen
  BY <1>1, <1>2, <1>3, RegistryAssumption DEF TypeOK, Gens
<1>6. /\ caller'[c] = h(m) /\ \A d \in Callers \ {c} : caller'[d] = caller[d]
      /\ h(m).pc = "reset" /\ h(m).i = m /\ h(m).g = generations[m] + 1
      /\ h(m) \in [pc : {"reset", "enqueue", "await", "prepared", "active", "asking",
                      "cleaning"}, i : Slots, g : 1 .. MaxGen]
  BY <1>1, <1>2, <1>3, <1>5 DEF TypeOK
<1> HIDE DEF h, able
<1>7. OwnedSlots' = OwnedSlots \cup {m}
  BY <1>1, <1>2, <1>4, <1>5 DEF OwnedSlots
<1>8. owned' = Cardinality(OwnedSlots') /\ owned' \in 0 .. Capacity
  <2>1. IsFiniteSet(Slots) /\ Cardinality(Slots) = Capacity
    BY FS_Interval, RegistryAssumption DEF Slots
  <2>2. IsFiniteSet(OwnedSlots) /\ OwnedSlots' \subseteq Slots
    BY <2>1, FS_Subset DEF OwnedSlots
  <2>3. Cardinality(OwnedSlots') = owned + 1 /\ Cardinality(OwnedSlots') <= Capacity
    BY <1>3, <1>4, <1>7, <2>1, <2>2, FS_AddElement, FS_Subset
  <2> QED
    BY <1>1, <1>3, <2>3 DEF TypeOK
<1>9. TypeOK'
  BY <1>1, <1>3, <1>5, <1>6, <1>8 DEF TypeOK, marks
<1>10. SlotInv(m)'
  <2>1. Resetting(m)' = {c}
    BY <1>4, <1>6 DEF Resetting
  <2>2. /\ FreeIsEmpty(m)' /\ FreeingIsEmpty(m)' /\ RootHasState(m)'
    BY <1>1, <1>3, <1>4, <1>5 DEF FreeIsEmpty, FreeingIsEmpty, RootHasState, SlotInv
  <2>3. ResetIsExclusive(m)'
    BY <1>1, <1>4, <1>5, <1>6, <2>1 DEF ResetIsExclusive
  <2>4. LiveIsAnswered(m)'
    BY <1>1, <1>4 DEF LiveIsAnswered, LiveStates
  <2> QED
    BY <2>2, <2>3, <2>4 DEF SlotInv
<1>11. ASSUME NEW i \in Slots \ {m}
       PROVE  SlotInv(i)'
  <2>1. caller[c].pc = "idle" /\ caller[c].i \notin Slots
    BY <1>1 DEF Idle, Slots
  <2>2. Resetting(i)' = Resetting(i) /\ Holders(i)' = Holders(i)
    BY <1>1, <1>6, <2>1 DEF Resetting, Holders
  <2>3. ResettersKept(i) /\ StillAnswered(i) /\ ControlKept(i)
    BY <1>1, <1>5, <1>6, <2>1, <2>2
       DEF ResettersKept, StillAnswered, ControlKept, Resetting, marks
  <2> QED
    BY <1>1, <1>3, <2>3, SlotUntouched
<1>12. ShutdownInv'
  BY <1>1, <1>3 DEF ShutdownInv
<1> QED
  BY <1>8, <1>9, <1>10, <1>11, <1>12 DEF RegistryInv

(* reserve, second half: only a slot that is free, root and all, is reset. *)
LEMMA ResetSlotStep ==
    ASSUME RegistryInv, NEW c \in Callers, ResetSlot(c)
    PROVE  RegistryInv'
<1> DEFINE t == [gen |-> caller[c].g, state |-> "Reserved", root |-> "none",
                 terminal |-> FALSE, attempts |-> 0]
<1>1. PICK i \in Slots :
        /\ i = caller[c].i /\ c \in Resetting(i)
        /\ caller[c] = [pc |-> "reset", i |-> i, g |-> caller[c].g]
        /\ caller[c].g \in 1 .. MaxGen
        /\ slot' = [slot EXCEPT ![i] = t]
        /\ abandonedGen' = [abandonedGen EXCEPT ![i] = 0]
        /\ cleanupGen' = [cleanupGen EXCEPT ![i] = 0]
        /\ Goto(c, "enqueue")
        /\ UNCHANGED <<control, freeing, marking, inHand, service, serviceStop>>
  <2>1. caller[c].pc = "reset"
    BY DEF ResetSlot
  <2> QED
    BY <2>1, CallerType DEF ResetSlot, Put, RegistryInv, Resetting
<1>2. /\ TypeOK /\ SlotInv(i) /\ \A j \in Slots : SlotInv(j)
      /\ owned = Cardinality(OwnedSlots) /\ ShutdownInv
  BY DEF RegistryInv
<1>3. /\ ~free[i] /\ i \notin freeing /\ slot[i].state = "Free"
      /\ caller[c].g = generations[i] /\ \A d \in Resetting(i) : d = c
  BY <1>1, <1>2 DEF SlotInv, ResetIsExclusive
<1>4. /\ slot'[i] = t /\ \A j \in Slots \ {i} : slot'[j] = slot[j]
      /\ abandonedGen' \in [Slots -> Gens] /\ cleanupGen' \in [Slots -> Gens]
      /\ \A j \in Slots \ {i} : abandonedGen'[j] = abandonedGen[j]
  BY <1>1, <1>2, RegistryAssumption DEF TypeOK, Gens
<1>5. /\ t \in SlotRecords(States \ {"RootWaitable"})
      /\ t.gen = caller[c].g /\ t.state = "Reserved" /\ t.root = "none" /\ t.terminal = FALSE
  BY <1>1, RegistryAssumption DEF SlotRecords, States, Gens
<1> HIDE DEF t
<1>6. slot' \in [Slots -> SlotRecords(States \ {"RootWaitable"})]
  BY <1>1, <1>2, <1>5 DEF TypeOK, SlotRecords
<1>7. /\ caller'[c] = [pc |-> "enqueue", i |-> i, g |-> caller[c].g]
      /\ \A d \in Callers \ {c} : caller'[d] = caller[d]
      /\ caller' \in [Callers ->
           {Idle} \cup [pc : {"reset", "enqueue", "await", "prepared", "active",
                              "asking", "cleaning"},
                        i : Slots, g : 1 .. MaxGen]]
  <2>1. [caller[c] EXCEPT !.pc = "enqueue"] = [pc |-> "enqueue", i |-> i, g |-> caller[c].g]
    BY <1>1
  <2>2. caller' = [caller EXCEPT ![c] = [caller[c] EXCEPT !.pc = "enqueue"]]
    BY <1>1 DEF Goto
  <2> QED
    BY <1>1, <1>2, <2>1, <2>2 DEF TypeOK
<1>8. caller'[c].pc = "enqueue" /\ caller'[c].i = i /\ caller'[c].g = caller[c].g
  BY <1>7
<1>9. TypeOK'
  BY <1>1, <1>2, <1>4, <1>6, <1>7 DEF TypeOK, SlotRecords, control
<1>10. OwnedSlots' = OwnedSlots
  BY <1>1, <1>3, <1>4, <1>5 DEF OwnedSlots, control
<1>11. SlotInv(i)'
  <2>1. Resetting(i)' = {}
    BY <1>3, <1>7, <1>8 DEF Resetting
  <2>2. c \in Holders(i)'
    BY <1>4, <1>5, <1>8 DEF Holders
  <2>3. FreeIsEmpty(i)' /\ FreeingIsEmpty(i)' /\ RootHasState(i)'
    BY <1>1, <1>3, <1>4, <1>5 DEF FreeIsEmpty, FreeingIsEmpty, RootHasState, control
  <2>4. ResetIsExclusive(i)'
    BY <1>1, <1>3, <1>4, <1>5, <2>1 DEF ResetIsExclusive, control
  <2>5. LiveIsAnswered(i)'
    BY <1>4, <1>5, <2>2 DEF LiveIsAnswered
  <2> QED
    BY <2>3, <2>4, <2>5 DEF SlotInv
<1>12. ASSUME NEW j \in Slots \ {i}
       PROVE  SlotInv(j)'
  <2>1. Resetting(j)' = Resetting(j) /\ c \notin Resetting(j)
    BY <1>1, <1>7, <1>8 DEF Resetting
  <2>2. Holders(j)' = Holders(j)
    BY <1>1, <1>4, <1>7, <1>8 DEF Holders
  <2>3. ResettersKept(j) /\ StillAnswered(j) /\ ControlKept(j)
    BY <1>1, <1>4, <1>7, <2>1, <2>2
       DEF ResettersKept, StillAnswered, ControlKept, Resetting, control
  <2> QED
    BY <1>2, <1>4, <2>3, SlotUntouched
<1>13. ShutdownInv'
  BY <1>1, <1>2 DEF ShutdownInv, control
<1> QED
  BY <1>1, <1>2, <1>9, <1>10, <1>11, <1>12, <1>13 DEF RegistryInv, control

-----------------------------------------------------------------------------
(* The passes and the release of a slot.                                   *)

LEMMA PopRequestStep ==
    ASSUME RegistryInv, NEW p \in Passes, PopRequest(p)
    PROVE  RegistryInv'
<1> DEFINE cells == {k \in Slots : queue[k] # NoRequest}
<1>1. cells \in SUBSET Nat /\ cells # {}
  BY RegistryAssumption DEF PopRequest, Slots
<1>2. PICK k \in Slots : /\ inHand' = [inHand EXCEPT ![p] = queue[k]]
                         /\ queue' = [queue EXCEPT ![k] = NoRequest]
  BY <1>1, MinIsMember DEF PopRequest
<1>3. UNCHANGED <<admission, free, generations, owned, slot, freeing, marks,
                  caller, service, serviceStop>>
  BY DEF PopRequest
<1>4. TypeOK'
  BY <1>2, <1>3 DEF RegistryInv, TypeOK, marks
<1>5. \A i \in Slots : ResettersKept(i) /\ StillAnswered(i)
  BY <1>3, CallersUnchanged DEF marks
<1> QED
  BY <1>3, <1>4, <1>5, QuietStep

(* A step on one slot in use that leaves the callers and the marks alone.  *)
LEMMA ServiceStep ==
    ASSUME RegistryInv, NEW i \in Slots, NEW t \in SlotRecords(States \ {"RootWaitable"}),
           Put(i, t), UNCHANGED <<control, freeing, marks, caller, service, serviceStop>>,
           inHand' \in [Passes -> Requests \cup {NoRequest}],
           t.gen = slot[i].gen,
           slot[i].state \notin {"Free", "Retired"},
           t.state \notin {"Free", "Retired"},
           t.state \in EmptyStates => t.root = "none",
           t.state \in LiveStates =>
               slot[i].state \in LiveStates /\ t.terminal = slot[i].terminal
    PROVE  RegistryInv'
<1>1. /\ slot' \in [Slots -> SlotRecords(States \ {"RootWaitable"})]
      /\ \A j \in Slots : slot'[j].gen = slot[j].gen
  BY DEF Put, RegistryInv, TypeOK, SlotRecords
<1>2. TypeOK'
  BY <1>1 DEF RegistryInv, TypeOK, SlotRecords, control, marks
<1>3. \A j \in Slots : ResettersKept(j) /\ StillAnswered(j)
  BY <1>1, CallersUnchanged DEF marks
<1> QED
  BY <1>2, <1>3, SlotStep DEF control

LEMMA LaunchBeginStep ==
    ASSUME RegistryInv, NEW p \in Passes, LaunchBegin(p)
    PROVE  RegistryInv'
<1>1. PICK i \in Slots :
        /\ i = inHand[p].i
        /\ UNCHANGED <<control, freeing, marks, caller, service, serviceStop>>
        /\ slot[i] \in SlotRecords(States \ {"RootWaitable"})
  BY RequestType, SlotType DEF LaunchBegin, RegistryInv
<1> DEFINE done == Completed(slot[i], TRUE)
           made == [slot[i] EXCEPT !.state = "Creating"]
<1>2. \/ inHand' = [inHand EXCEPT ![p] = NoRequest] /\ UNCHANGED slot
      \/ /\ slot[i].state = "Reserved" /\ Put(i, done)
         /\ inHand' = [inHand EXCEPT ![p] = NoRequest]
      \/ slot[i].state = "Reserved" /\ Put(i, made) /\ UNCHANGED inHand
  BY <1>1 DEF LaunchBegin, Wanted
<1>3. inHand' \in [Passes -> Requests \cup {NoRequest}]
  BY <1>2 DEF RegistryInv, TypeOK
<1>4. /\ done \in SlotRecords(States \ {"RootWaitable"})
      /\ done.gen = slot[i].gen /\ done.state = "Complete" /\ done.root = "none"
  <2>1. slot[i] \in SlotRecords(States)
    BY <1>1 DEF SlotRecords
  <2> QED
    BY <2>1, CompletedType DEF SlotRecords, States
<1>5. /\ made \in SlotRecords(States \ {"RootWaitable"})
      /\ made.gen = slot[i].gen /\ made.state = "Creating" /\ made.root = slot[i].root
      /\ made.terminal = slot[i].terminal
  BY <1>1 DEF SlotRecords, States
<1> HIDE DEF done, made
<1>6. slot[i].state = "Reserved" => slot[i].root = "none"
  BY DEF RegistryInv, SlotInv, RootHasState, EmptyStates
<1>7. CASE UNCHANGED slot
  <2>1. TypeOK'
    BY <1>1, <1>3, <1>7 DEF RegistryInv, TypeOK, control, marks
  <2>2. \A j \in Slots : ResettersKept(j) /\ StillAnswered(j)
    BY <1>1, <1>7, CallersUnchanged DEF marks
  <2> QED
    BY <1>1, <1>7, <2>1, <2>2, QuietStep DEF control
<1>8. CASE slot[i].state = "Reserved" /\ Put(i, done)
  BY <1>1, <1>3, <1>4, <1>8, ServiceStep DEF LiveStates
<1>9. CASE slot[i].state = "Reserved" /\ Put(i, made)
  BY <1>1, <1>3, <1>5, <1>6, <1>9, ServiceStep DEF LiveStates
<1> QED
  BY <1>2, <1>7, <1>8, <1>9

LEMMA LaunchEndStep ==
    ASSUME RegistryInv, NEW p \in Passes, LaunchEnd(p)
    PROVE  RegistryInv'
<1>1. PICK i \in Slots :
        /\ i = inHand[p].i /\ slot[i].state = "Creating"
        /\ UNCHANGED <<control, freeing, marks, caller, service, serviceStop>>
        /\ slot[i] \in SlotRecords(States \ {"RootWaitable"})
        /\ inHand' = [inHand EXCEPT ![p] = NoRequest]
  BY RequestType, SlotType DEF LaunchEnd, RegistryInv
<1> DEFINE s    == [slot[i] EXCEPT !.root = "live"]
           fail == [s EXCEPT !.terminal = TRUE]
           done == Completed(slot[i], TRUE)
<1>2. \E t \in {[s EXCEPT !.state = "HandoffPending"], [s EXCEPT !.state = "CleanupRequested"],
                [fail EXCEPT !.state = "ContainmentLost"],
                [fail EXCEPT !.state = "CleanupRequested"], done} : Put(i, t)
  BY <1>1 DEF LaunchEnd
<1>3. inHand' \in [Passes -> Requests \cup {NoRequest}]
  BY <1>1 DEF RegistryInv, TypeOK
<1>4. ~slot[i].terminal
  BY <1>1 DEF RegistryInv, SlotInv, LiveIsAnswered, LiveStates
<1>5. ASSUME NEW t \in {[s EXCEPT !.state = "HandoffPending"],
                        [s EXCEPT !.state = "CleanupRequested"],
                        [fail EXCEPT !.state = "ContainmentLost"],
                        [fail EXCEPT !.state = "CleanupRequested"]}
      PROVE  /\ t \in SlotRecords(States \ {"RootWaitable"}) /\ t.gen = slot[i].gen
             /\ t.state \in {"HandoffPending", "CleanupRequested", "ContainmentLost"}
             /\ t.state = "HandoffPending" => t.terminal = slot[i].terminal
  <2>1. /\ s \in SlotRecords(States \ {"RootWaitable"}) /\ s.gen = slot[i].gen
        /\ s.terminal = slot[i].terminal
    BY <1>1 DEF SlotRecords
  <2>2. fail \in SlotRecords(States \ {"RootWaitable"}) /\ fail.gen = slot[i].gen
    BY <2>1 DEF SlotRecords
  <2> HIDE DEF s, fail
  <2> QED
    BY <2>1, <2>2 DEF SlotRecords, States
<1>6. /\ done \in SlotRecords(States \ {"RootWaitable"})
      /\ done.gen = slot[i].gen /\ done.state = "Complete" /\ done.root = "none"
  <2>1. slot[i] \in SlotRecords(States)
    BY <1>1 DEF SlotRecords
  <2> QED
    BY <2>1, CompletedType DEF SlotRecords, States
<1> HIDE DEF s, fail, done
<1>7. PICK t : /\ Put(i, t) /\ t \in SlotRecords(States \ {"RootWaitable"})
               /\ t.gen = slot[i].gen
               /\ t.state \in {"HandoffPending", "CleanupRequested", "ContainmentLost",
                               "Complete"}
               /\ t.state = "HandoffPending" => t.terminal = slot[i].terminal
               /\ t.state = "Complete" => t.root = "none"
  BY <1>2, <1>5, <1>6
<1> QED
  BY <1>1, <1>3, <1>7, ServiceStep DEF LiveStates, EmptyStates

LEMMA MarkReadStep ==
    ASSUME RegistryInv, NEW i \in Slots, MarkRead(i)
    PROVE  RegistryInv'
<1>1. slot[i].gen \in Gens
  BY SlotType DEF RegistryInv, SlotRecords
<1>2. TypeOK'
  BY <1>1 DEF MarkRead, control, threads, RegistryInv, TypeOK
<1>3. \A j \in Slots : ResettersKept(j) /\ StillAnswered(j)
  BY CallersUnchanged DEF MarkRead, threads
<1> QED
  BY <1>2, <1>3, QuietStep DEF MarkRead, control, threads

(* The mark a pass stores without the lock is never zero.                  *)
LEMMA MarkStoreStep ==
    ASSUME RegistryInv, NEW i \in Slots, MarkStore(i)
    PROVE  RegistryInv'
<1>1. marking[i] \in Gens /\ 0 \in Gens
  BY RegistryAssumption DEF RegistryInv, TypeOK, Gens
<1>2. TypeOK'
  BY <1>1 DEF MarkStore, mark_abandoned, control, threads, RegistryInv, TypeOK
<1>3. \A j \in Slots : abandonedGen[j] # 0 => abandonedGen'[j] # 0
  BY DEF MarkStore, mark_abandoned, RegistryInv, TypeOK
<1>4. \A j \in Slots : ResettersKept(j) /\ StillAnswered(j)
  BY <1>3, CallersUnchanged DEF MarkStore, threads
<1> QED
  BY <1>2, <1>4, QuietStep DEF MarkStore, control, threads

(* What a pass makes of a slot before it cleans keeps its generation and   *)
(* its root.                                                               *)
LEMMA ObservedType ==
    ASSUME TypeOK, NEW i \in Slots, NEW explicit \in BOOLEAN, NEW s \in Observed(i, explicit)
    PROVE  s \in SlotRecords(States) /\ s.gen = slot[i].gen /\ s.root = slot[i].root
<1>1. slot[i] \in SlotRecords(States) /\ 0 \in 0 .. MaxAttempts
  BY SlotType, RegistryAssumption DEF SlotRecords
<1>2. s \in {slot[i], [slot[i] EXCEPT !.state = "CleanupRequested"],
             [slot[i] EXCEPT !.state = "ContainmentLost"],
             [slot[i] EXCEPT !.state = "RootWaitable"],
             [slot[i] EXCEPT !.state = "CleanupRequested", !.attempts = 0]}
  BY DEF Observed
<1> QED
  BY <1>1, <1>2 DEF SlotRecords, States

LEMMA VisitStep ==
    ASSUME RegistryInv, NEW i \in Slots, NEW explicit \in BOOLEAN, NEW outcome \in Outcomes,
           Visit(i, explicit, outcome)
    PROVE  RegistryInv'
<1>1. PICK s \in Observed(i, explicit) : \E t \in cleanup_slot(s, outcome) : Put(i, t)
  BY DEF Visit
<1>2. PICK t \in cleanup_slot(s, outcome) : Put(i, t)
  BY <1>1
<1>3. s \in SlotRecords(States) /\ s.gen = slot[i].gen
  BY ObservedType DEF RegistryInv
<1>4. /\ t \in SlotRecords({"CleanupRequested", "ContainmentLost", "Quarantined", "Complete"})
      /\ t.gen = slot[i].gen /\ t.state = "Complete" => t.root = "none"
  BY <1>3, CleanupResult
<1>5. /\ t \in SlotRecords(States \ {"RootWaitable"})
      /\ t.state \in {"CleanupRequested", "ContainmentLost", "Quarantined", "Complete"}
      /\ t.gen = slot[i].gen
  BY <1>3, <1>4, CleanupResult DEF SlotRecords, States
<1>6. slot[i].state \notin {"Free", "Retired"}
  BY DEF Visit, Occupied, RegistryInv, SlotInv, RootHasState, EmptyStates
<1>7. /\ UNCHANGED <<control, freeing, marks, caller, service, serviceStop>>
      /\ inHand' \in [Passes -> Requests \cup {NoRequest}]
  BY DEF Visit, threads, RegistryInv, TypeOK
<1> QED
  BY <1>2, <1>4, <1>5, <1>6, <1>7, ServiceStep DEF LiveStates, EmptyStates

LEMMA RootExitStep ==
    ASSUME RegistryInv, NEW i \in Slots, RootExit(i)
    PROVE  RegistryInv'
<1> DEFINE t == [slot[i] EXCEPT !.root = "exited"]
<1>1. slot[i] \in SlotRecords(States \ {"RootWaitable"})
  BY SlotType DEF RegistryInv
<1>2. /\ t \in SlotRecords(States \ {"RootWaitable"}) /\ t.gen = slot[i].gen
      /\ t.state = slot[i].state /\ t.terminal = slot[i].terminal
  BY <1>1 DEF SlotRecords
<1>3. slot[i].state \notin EmptyStates
  BY DEF RootExit, RegistryInv, SlotInv, RootHasState
<1>4. /\ UNCHANGED <<control, freeing, marks, caller, service, serviceStop>>
      /\ inHand' \in [Passes -> Requests \cup {NoRequest}] /\ Put(i, t)
  BY DEF RootExit, threads, RegistryInv, TypeOK
<1> HIDE DEF t
<1> QED
  BY <1>2, <1>3, <1>4, ServiceStep DEF EmptyStates

(* release_slot, first half: the slot stays counted.                       *)
LEMMA ReleaseSlotStep ==
    ASSUME RegistryInv, NEW i \in Slots, ReleaseSlot(i)
    PROVE  RegistryInv'
<1> DEFINE t == [slot[i] EXCEPT !.state = IF slot[i].gen = MaxGen THEN "Retired" ELSE "Free"]
<1>1. /\ TypeOK /\ SlotInv(i) /\ \A j \in Slots : SlotInv(j)
      /\ owned = Cardinality(OwnedSlots) /\ ShutdownInv
  BY DEF RegistryInv
<1>2. slot[i] \in SlotRecords(States \ {"RootWaitable"}) /\ slot[i].state = "Complete"
  BY <1>1, SlotType DEF ReleaseSlot
<1>3. /\ t \in SlotRecords(States \ {"RootWaitable"}) /\ t.gen = slot[i].gen
      /\ t.state \in {"Free", "Retired"} /\ t.root = slot[i].root
  BY <1>2 DEF SlotRecords, States
<1>4. /\ slot' = [slot EXCEPT ![i] = t] /\ freeing' = freeing \cup {i}
      /\ UNCHANGED <<control, marks, threads>>
  BY DEF ReleaseSlot, Put
<1> HIDE DEF t
<1>5. /\ ~free[i] /\ i \notin freeing /\ slot[i].root = "none" /\ Resetting(i) = {}
      /\ generations[i] = slot[i].gen
  BY <1>1, <1>2 DEF SlotInv, FreeIsEmpty, FreeingIsEmpty, RootHasState, EmptyStates,
                    ResetIsExclusive
<1>6. slot'[i] = t /\ \A j \in Slots \ {i} : slot'[j] = slot[j]
  BY <1>1, <1>4 DEF TypeOK
<1>7. slot' \in [Slots -> SlotRecords(States \ {"RootWaitable"})]
  BY <1>1, <1>3, <1>4 DEF TypeOK, SlotRecords
<1>8. TypeOK'
  BY <1>1, <1>4, <1>7 DEF TypeOK, SlotRecords, control, marks, threads
<1>9. OwnedSlots' = OwnedSlots
  BY <1>2, <1>4, <1>5, <1>6 DEF OwnedSlots, control
<1>10. SlotInv(i)'
  <2>1. Resetting(i)' = {}
    BY <1>4, <1>5 DEF Resetting, threads
  <2> QED
    BY <1>3, <1>4, <1>5, <1>6, <2>1
       DEF SlotInv, FreeIsEmpty, FreeingIsEmpty, RootHasState, ResetIsExclusive,
           LiveIsAnswered, LiveStates, control
<1>11. ASSUME NEW j \in Slots \ {i}
       PROVE  SlotInv(j)'
  <2>1. ControlKept(j) /\ ResettersKept(j) /\ StillAnswered(j)
    BY <1>4, <1>6, CallersUnchanged DEF ControlKept, control, marks, threads
  <2> QED
    BY <1>1, <1>6, <2>1, SlotUntouched
<1>12. ShutdownInv'
  BY <1>1, <1>4 DEF ShutdownInv, control, threads
<1> QED
  BY <1>1, <1>4, <1>8, <1>9, <1>10, <1>11, <1>12 DEF RegistryInv, control

(* release_slot, second half: the slot goes back to the free list, or out  *)
(* of use, and is counted no more.                                         *)
LEMMA FreeSlotStep ==
    ASSUME RegistryInv, NEW i \in Slots, FreeSlot(i)
    PROVE  RegistryInv'
<1>1. /\ TypeOK /\ SlotInv(i) /\ \A j \in Slots : SlotInv(j)
      /\ owned = Cardinality(OwnedSlots) /\ ShutdownInv
  BY DEF RegistryInv
<1>2. /\ i \in freeing /\ freeing' = freeing \ {i}
      /\ free' = [free EXCEPT ![i] = slot[i].state # "Retired"]
      /\ owned' = owned - 1
      /\ abandonedGen' = [abandonedGen EXCEPT ![i] = 0]
      /\ cleanupGen' = [cleanupGen EXCEPT ![i] = 0]
      /\ UNCHANGED <<admission, generations, queue, slot, marking, threads>>
  BY DEF FreeSlot
<1>3. ~free[i] /\ slot[i].state \in {"Free", "Retired"} /\ Resetting(i) = {}
      /\ generations[i] = slot[i].gen
  BY <1>1, <1>2 DEF SlotInv, FreeingIsEmpty, ResetIsExclusive
<1>4. /\ free' \in [Slots -> BOOLEAN] /\ free'[i] = (slot[i].state # "Retired")
      /\ \A j \in Slots \ {i} : free'[j] = free[j] /\ abandonedGen'[j] = abandonedGen[j]
      /\ abandonedGen' \in [Slots -> Gens] /\ cleanupGen' \in [Slots -> Gens]
  BY <1>1, <1>2, RegistryAssumption DEF TypeOK, Gens
<1>5. OwnedSlots' = OwnedSlots \ {i} /\ i \in OwnedSlots
  BY <1>2, <1>3, <1>4 DEF OwnedSlots
<1>6. owned' = Cardinality(OwnedSlots') /\ owned' \in 0 .. Capacity
  <2>0. IsFiniteSet(Slots) /\ OwnedSlots \in SUBSET Slots
    BY FS_Interval, RegistryAssumption DEF Slots, OwnedSlots
  <2>1. IsFiniteSet(OwnedSlots)
    BY <2>0, FS_Subset
  <2>2. IsFiniteSet(OwnedSlots \ {i}) /\ Cardinality(OwnedSlots') = owned - 1
    BY <1>1, <1>5, <2>1, FS_RemoveElement
  <2>3. Cardinality(OwnedSlots') \in Nat
    BY <1>5, <2>2, FS_CardinalityType
  <2> QED
    BY <1>1, <1>2, <2>2, <2>3, RegistryAssumption DEF TypeOK
<1>7. TypeOK'
  BY <1>1, <1>2, <1>4, <1>6 DEF TypeOK, threads
<1>8. SlotInv(i)'
  <2>1. Resetting(i)' = {}
    BY <1>2, <1>3 DEF Resetting, threads
  <2>2. FreeIsEmpty(i)' /\ FreeingIsEmpty(i)'
    BY <1>2, <1>3, <1>4 DEF FreeIsEmpty, FreeingIsEmpty
  <2>3. RootHasState(i)' /\ ResetIsExclusive(i)' /\ LiveIsAnswered(i)'
    BY <1>1, <1>2, <1>3, <2>1
       DEF SlotInv, RootHasState, ResetIsExclusive, LiveIsAnswered, LiveStates
  <2> QED
    BY <2>2, <2>3 DEF SlotInv
<1>9. ASSUME NEW j \in Slots \ {i}
      PROVE  SlotInv(j)'
  <2>1. ControlKept(j) /\ ResettersKept(j) /\ StillAnswered(j)
    BY <1>2, <1>4, CallersUnchanged DEF ControlKept, threads
  <2> QED
    BY <1>1, <1>2, <2>1, SlotUntouched
<1>10. ShutdownInv'
  BY <1>1, <1>2, <1>6, RegistryAssumption DEF ShutdownInv, threads, TypeOK
<1> QED
  BY <1>6, <1>7, <1>8, <1>9, <1>10 DEF RegistryInv

-----------------------------------------------------------------------------
(* Shutdown.                                                               *)

LEMMA ShutdownStep ==
    ASSUME RegistryInv, CloseAdmission \/ StopService \/ ServiceExit \/ JoinService
    PROVE  RegistryInv'
<1>1. /\ UNCHANGED <<free, generations, owned, queue, slot, freeing, marks, inHand, caller>>
      /\ admission' \in {"Open", "Closing", "Joined"}
      /\ service' \in {"running", "stopped"} /\ serviceStop' \in BOOLEAN
  BY DEF CloseAdmission, StopService, ServiceExit, JoinService, control, threads,
         RegistryInv, TypeOK
<1>2. TypeOK'
  BY <1>1 DEF RegistryInv, TypeOK, marks
<1>3. \A i \in Slots : ControlKept(i) /\ slot'[i] = slot[i]
  BY <1>1 DEF ControlKept
<1>4. \A i \in Slots : ResettersKept(i) /\ StillAnswered(i)
  BY <1>1, CallersUnchanged DEF marks
<1>5. \A i \in Slots : SlotInv(i)'
  BY <1>3, <1>4, SlotUntouched DEF RegistryInv
<1>6. OwnedSlots' = OwnedSlots
  BY <1>1, OwnedKept
<1>7. ShutdownInv'
  BY DEF CloseAdmission, StopService, ServiceExit, JoinService, control, threads,
         RegistryInv, ShutdownInv, zero_owned
<1> QED
  BY <1>1, <1>2, <1>5, <1>6, <1>7 DEF RegistryInv

(* The registry's part of the induction.                                   *)
LEMMA RegistryStep ==
    RegistryInv /\ LaunchInv /\ [Next]_vars => RegistryInv'
<1> SUFFICES ASSUME RegistryInv, LaunchInv, [Next]_vars
             PROVE  RegistryInv'
  OBVIOUS
<1>1. ASSUME NEW c \in Callers,
             \/ Reserve(c) \/ Spawning(c)
             \/ AwaitReady(c) \/ AwaitFails(c) \/ AwaitDeadline(c)
             \/ Activate(c) \/ Drop(c)
             \/ RequestCleanup(c) \/ MarkCleanup(c) \/ CleanupReturns(c)
      PROVE  RegistryInv'
  BY <1>1, ReserveStep, ResetSlotStep, EnqueueStep, CancelReservationStep, AwaitReadyStep,
     AwaitFailsStep, AwaitDeadlineStep, ActivateStep, DropStep, RequestCleanupStep,
     MarkCleanupStep, CleanupReturnsStep DEF Spawning
<1>2. ASSUME NEW p \in Passes, PopRequest(p) \/ LaunchBegin(p) \/ LaunchEnd(p)
      PROVE  RegistryInv'
  BY <1>2, PopRequestStep, LaunchBeginStep, LaunchEndStep
<1>3. ASSUME NEW i \in Slots,
             \/ MarkRead(i) \/ MarkStore(i) \/ ReleaseSlot(i) \/ FreeSlot(i) \/ RootExit(i)
             \/ \E explicit \in BOOLEAN, outcome \in Outcomes : Visit(i, explicit, outcome)
      PROVE  RegistryInv'
  BY <1>3, MarkReadStep, MarkStoreStep, ReleaseSlotStep, FreeSlotStep, RootExitStep, VisitStep
<1>4. CASE CloseAdmission \/ StopService \/ ServiceExit \/ JoinService
  BY <1>4, ShutdownStep
<1>5. CASE UNCHANGED vars
  <2>1. UNCHANGED <<admission, free, generations, owned, queue, slot, freeing, abandonedGen,
                    cleanupGen, marking, inHand, caller, service, serviceStop>>
    BY <1>5 DEF vars, control, marks, threads
  <2>2. TypeOK'
    BY <2>1 DEF RegistryInv, TypeOK
  <2>3. \A i \in Slots : ResettersKept(i) /\ StillAnswered(i)
    BY <2>1, CallersUnchanged
  <2> QED
    BY <2>1, <2>2, <2>3, QuietStep
<1> QED
  BY <1>1, <1>2, <1>3, <1>4, <1>5 DEF Next

-----------------------------------------------------------------------------
(* No capability and no request twice.                                     *)

(* A caller stands still, gives its capability up or goes on past the      *)
(* queue with it.                                                          *)
CallerAdvances(c) ==
    \/ caller'[c] = caller[c]
    \/ caller'[c] = Idle
    \/ /\ caller[c].pc # "idle" /\ caller'[c].pc \notin {"idle", "reset", "enqueue"}
       /\ caller'[c].i = caller[c].i /\ caller'[c].g = caller[c].g

(* Only a pending request of its generation starts a launch in slot i.     *)
LaunchIsAsked(i) ==
    slot'[i].state \in Launched =>
        /\ slot'[i].gen = slot[i].gen
        /\ slot[i].state \in Launched \/ [i |-> i, g |-> slot[i].gen] \in Pending

LEMMA LaunchFrame ==
    ASSUME TypeOK, TypeOK', LaunchInv, generations' = generations, Pending' \subseteq Pending,
           \A c \in Callers : CallerAdvances(c),
           \A i \in Slots : LaunchIsAsked(i)
    PROVE  LaunchInv'
<1>1. Idle.pc = "idle" /\ Idle.i = 0 /\ Idle.g = 0 /\ 0 \notin Slots
  BY DEF Idle, Slots
<1>2. ASSUME NEW c \in Callers, caller'[c].pc # "idle"
      PROVE  /\ caller[c].pc # "idle" /\ caller'[c].i = caller[c].i
             /\ caller'[c].g = caller[c].g /\ caller[c].i \in Slots
             /\ caller'[c].pc \in {"reset", "enqueue"} => caller'[c] = caller[c]
  BY <1>1, <1>2, CallerType DEF CallerAdvances
<1>3. \A c \in Callers :
        caller'[c].pc # "idle" => caller'[c].g <= generations'[caller'[c].i]
  BY <1>2 DEF LaunchInv
<1>4. ASSUME NEW c \in Callers, NEW d \in Callers, c # d, caller'[c].pc # "idle",
             caller'[d].i = caller'[c].i
      PROVE  caller'[d].g # caller'[c].g
  <2>0. caller'[d].i \in Slots
    BY <1>2, <1>4
  <2>1. caller'[d].pc # "idle"
    <3>1. caller'[d] = Idle \/ caller'[d].pc # "idle"
      BY DEF TypeOK
    <3> QED
      BY <1>1, <2>0, <3>1
  <2> QED
    BY <1>2, <1>4, <2>1 DEF LaunchInv
<1>5. \A r \in Pending' : r.g <= generations'[r.i]
  BY DEF LaunchInv
<1>6. \A c \in Callers :
        caller'[c].pc \in {"reset", "enqueue"} => Capability(c)' \notin Pending'
  BY <1>2 DEF LaunchInv, Capability
<1>7. ASSUME NEW c \in Callers, caller'[c].pc = "enqueue", Current(c)',
             slot'[caller'[c].i].state \in Launched
      PROVE  FALSE
  <2>1. caller'[c] = caller[c] /\ caller[c].i \in Slots /\ caller[c].pc = "enqueue"
    BY <1>2, <1>7
  <2>2. LaunchIsAsked(caller[c].i) /\ slot'[caller[c].i].gen = caller[c].g
    BY <1>7, <2>1 DEF Current
  <2>3. Current(c)
    BY <1>7, <2>1, <2>2 DEF Current, LaunchIsAsked
  <2>4. [i |-> caller[c].i, g |-> slot[caller[c].i].gen] = Capability(c)
    BY <2>3 DEF Current, Capability
  <2> QED
    BY <1>7, <2>1, <2>2, <2>3, <2>4 DEF LaunchIsAsked, LaunchInv
<1> QED
  BY <1>3, <1>4, <1>5, <1>6, <1>7 DEF LaunchInv

LEMMA ReserveLaunch ==
    ASSUME RegistryInv, LaunchInv, NEW c \in Callers, Reserve(c)
    PROVE  LaunchInv'
<1> DEFINE able == {i \in Slots : free[i] /\ generations[i] < MaxGen}
<1>1. PICK m \in Slots :
      /\ caller[c] = Idle
      /\ generations' = [generations EXCEPT ![m] = generations[m] + 1]
      /\ caller' = [caller EXCEPT ![c] = [pc |-> "reset", i |-> m, g |-> generations[m] + 1]]
      /\ UNCHANGED <<queue, slot, inHand>>
  <2>1. able \in SUBSET Nat /\ able # {}
    BY RegistryAssumption DEF Reserve, Slots
  <2>2. Min(able) \in able
    BY <2>1, MinIsMember
  <2> QED
    BY <2>2 DEF Reserve
<1>2. TypeOK /\ generations \in [Slots -> Gens] /\ \A i \in Slots : generations[i] \in Nat
  BY RegistryAssumption DEF RegistryInv, TypeOK, Gens
<1>3. /\ caller'[c].pc = "reset" /\ caller'[c].i = m /\ caller'[c].g = generations[m] + 1
      /\ \A d \in Callers \ {c} : caller'[d] = caller[d]
      /\ generations'[m] = generations[m] + 1
      /\ \A i \in Slots : generations'[i] \in Nat /\ generations[i] <= generations'[i]
  BY <1>1, <1>2 DEF TypeOK
<1>4. Pending' = Pending
  BY <1>1 DEF Pending
<1>5. ASSUME NEW d \in Callers, caller[d].pc # "idle"
      PROVE  /\ d # c /\ caller[d].i \in Slots /\ caller[d].g \in Nat
             /\ caller[d].g <= generations[caller[d].i]
             /\ caller[d].g <= generations'[caller[d].i]
  <2>0. d # c
    BY <1>1, <1>5 DEF Idle
  <2>1. caller[d].i \in Slots /\ caller[d].g \in Nat
    <3>1. caller[d].i \in Slots /\ caller[d].g \in 1 .. MaxGen
      BY <1>2, <1>5, CallerType
    <3> QED
      BY <3>1, RegistryAssumption
  <2> QED
    BY <1>2, <1>3, <1>5, <2>0, <2>1 DEF LaunchInv
<1>6. ASSUME NEW r \in Pending
      PROVE  /\ r.i \in Slots /\ r.g \in Nat /\ r.g <= generations[r.i]
             /\ r.g <= generations'[r.i]
  <2>1. r \in Requests
    BY <1>2 DEF Pending, TypeOK
  <2>2. r.i \in Slots /\ r.g \in Nat
    BY <2>1 DEF Requests
  <2> QED
    BY <1>2, <1>3, <2>2 DEF LaunchInv
<1>7. \A d \in Callers : caller[d].i = m /\ caller[d].pc # "idle" => caller[d].g # generations[m] + 1
  BY <1>2, <1>5
<1>8. \A d \in Callers : caller'[d].pc # "idle" => caller'[d].g <= generations'[caller'[d].i]
  BY <1>2, <1>3, <1>5
<1>9. ASSUME NEW d \in Callers, NEW e \in Callers, d # e, caller'[d].pc # "idle",
             caller'[e].i = caller'[d].i
      PROVE  caller'[e].g # caller'[d].g
  <2>1. \A x \in Callers : caller[x].i \in Slots => caller[x].pc # "idle"
    BY <1>2 DEF TypeOK, Idle, Slots
  <2>2. CASE d = c
    BY <1>3, <1>7, <1>9, <2>1, <2>2
  <2>3. CASE e = c
    BY <1>3, <1>7, <1>9, <2>3
  <2>4. CASE d # c /\ e # c
    BY <1>3, <1>9, <2>4 DEF LaunchInv
  <2> QED
    BY <2>2, <2>3, <2>4
<1>10. ASSUME NEW d \in Callers, caller'[d].pc \in {"reset", "enqueue"}
       PROVE  Capability(d)' \notin Pending'
  <2>1. CASE d = c
    <3>1. Capability(c)'.i = m /\ Capability(c)'.g = generations[m] + 1
      BY <1>3 DEF Capability
    <3> QED
      BY <1>2, <1>4, <1>6, <2>1, <3>1
  <2>2. CASE d # c
    BY <1>3, <1>4, <1>10, <2>2 DEF LaunchInv, Capability
  <2> QED
    BY <2>1, <2>2
<1>11. ASSUME NEW d \in Callers, caller'[d].pc = "enqueue", Current(d)'
       PROVE  slot'[caller'[d].i].state \notin Launched
  BY <1>1, <1>3, <1>11 DEF LaunchInv, Current
<1> QED
  BY <1>4, <1>6, <1>8, <1>9, <1>10, <1>11 DEF LaunchInv

(* Resetting or enqueueing: the caller keeps its capability.               *)
LEMMA SpawningLaunch ==
    ASSUME RegistryInv, LaunchInv, NEW c \in Callers, ResetSlot(c) \/ Enqueue(c)
    PROVE  LaunchInv'
<1>1. /\ TypeOK /\ caller[c].pc \in {"reset", "enqueue"} /\ generations' = generations
      /\ \E pc \in {"enqueue", "await"} : Goto(c, pc)
  BY DEF RegistryInv, ResetSlot, Enqueue, control
<1>2. PICK pc \in {"enqueue", "await"} : Goto(c, pc)
  BY <1>1
<1>3. caller[c].i \in Slots /\ caller[c] = [pc |-> caller[c].pc, i |-> caller[c].i,
                                            g |-> caller[c].g]
  BY <1>1, CallerType
<1>4. /\ caller'[c].i = caller[c].i /\ caller'[c].g = caller[c].g /\ caller'[c].pc = pc
      /\ \A d \in Callers \ {c} : caller'[d] = caller[d]
  <2>1. [caller[c] EXCEPT !.pc = pc] = [pc |-> pc, i |-> caller[c].i, g |-> caller[c].g]
    BY <1>3
  <2>2. caller' = [caller EXCEPT ![c] = [caller[c] EXCEPT !.pc = pc]]
    BY <1>2 DEF Goto
  <2> QED
    BY <1>1, <2>1, <2>2 DEF TypeOK
<1>5. \A d \in Callers : /\ Capability(d)' = Capability(d)
                         /\ caller'[d].pc # "idle" => caller[d].pc # "idle"
                         /\ caller'[d].i = caller[d].i /\ caller'[d].g = caller[d].g
  BY <1>1, <1>4 DEF Capability
<1>6. CASE ResetSlot(c)
  <2>1. Pending' = Pending
    BY <1>6 DEF ResetSlot, Pending, control
  <2>2. /\ slot'[caller[c].i].state = "Reserved"
        /\ \A i \in Slots \ {caller[c].i} : slot'[i] = slot[i]
    BY <1>1, <1>3, <1>6 DEF ResetSlot, Put, TypeOK
  <2>3. ASSUME NEW d \in Callers, caller'[d].pc = "enqueue", Current(d)'
        PROVE  slot'[caller'[d].i].state \notin Launched
    <3>1. CASE caller[d].i = caller[c].i
      BY <1>5, <2>2, <3>1 DEF Launched
    <3>2. CASE caller[d].i # caller[c].i
      <4>1. d # c /\ caller[d].pc = "enqueue" /\ caller[d].i \in Slots
        BY <1>1, <1>4, <2>3, <3>2, CallerType
      <4> QED
        BY <1>5, <2>2, <2>3, <3>2, <4>1 DEF Current, LaunchInv
    <3> QED
      BY <3>1, <3>2
  <2>4. \A d \in Callers : caller'[d].pc \in {"reset", "enqueue"}
                              => caller[d].pc \in {"reset", "enqueue"}
    BY <1>1, <1>4
  <2> QED
    BY <1>1, <1>5, <2>1, <2>3, <2>4 DEF LaunchInv
<1>7. CASE Enqueue(c)
  <2>1. Pending' \subseteq Pending \cup {Capability(c)} /\ UNCHANGED slot
    BY <1>1, <1>7 DEF Enqueue, Pending, Capability, TypeOK
  <2>2. ASSUME NEW d \in Callers, caller'[d].pc \in {"reset", "enqueue"}
        PROVE  d # c /\ caller[d].pc \in {"reset", "enqueue"} /\ Capability(d) # Capability(c)
    <3>1. caller'[c].pc = "await"
      BY <1>1, <1>3, <1>7 DEF Enqueue, Goto, TypeOK
    <3>2. d # c /\ caller[d].pc \in {"reset", "enqueue"}
      BY <1>4, <2>2, <3>1
    <3>3. ~(caller[d].i = caller[c].i /\ caller[d].g = caller[c].g)
      BY <1>1, <3>2 DEF LaunchInv
    <3> QED
      BY <3>2, <3>3 DEF Capability
  <2>3. \A r \in Pending' : r.g <= generations'[r.i]
    <3>1. Capability(c).g <= generations[Capability(c).i]
      BY <1>1 DEF Capability, LaunchInv
    <3> QED
      BY <1>1, <2>1, <3>1 DEF LaunchInv
  <2>4. ASSUME NEW d \in Callers, caller'[d].pc = "enqueue", Current(d)'
        PROVE  slot'[caller'[d].i].state \notin Launched
    <3>1. caller[d].pc = "enqueue" /\ Current(d)
      BY <1>4, <2>1, <2>2, <2>4 DEF Current
    <3> QED
      BY <1>5, <2>1, <3>1 DEF LaunchInv
  <2> QED
    BY <1>1, <1>5, <2>1, <2>2, <2>3, <2>4 DEF LaunchInv
<1> QED
  BY <1>6, <1>7

(* The remaining actions of the callers.                                   *)
LEMMA CallerLaunch ==
    ASSUME RegistryInv, LaunchInv, TypeOK', NEW c \in Callers,
           \/ CancelReservation(c) \/ AwaitReady(c) \/ AwaitFails(c) \/ AwaitDeadline(c)
           \/ Activate(c) \/ Drop(c)
           \/ RequestCleanup(c) \/ MarkCleanup(c) \/ CleanupReturns(c)
    PROVE  LaunchInv'
<1>1. /\ TypeOK /\ caller[c].pc \notin {"idle", "reset"}
      /\ UNCHANGED <<queue, generations, inHand>>
      /\ Return(c) \/ \E pc \in {"prepared", "active", "asking", "cleaning"} : Goto(c, pc)
  BY DEF CancelReservation, AwaitReady, AwaitFails, AwaitDeadline, Activate, Drop,
         RequestCleanup, MarkCleanup, CleanupReturns, control, RegistryInv
<1>2. /\ caller[c].i \in Slots
      /\ caller[c] = [pc |-> caller[c].pc, i |-> caller[c].i, g |-> caller[c].g]
      /\ slot[caller[c].i] \in SlotRecords(States \ {"RootWaitable"})
  BY <1>1, CallerType, SlotType
<1>3. \A d \in Callers : CallerAdvances(d)
  <2>1. CASE Return(c)
    BY <1>1, <2>1 DEF Return, TypeOK, CallerAdvances
  <2>2. ASSUME NEW pc \in {"prepared", "active", "asking", "cleaning"}, Goto(c, pc)
        PROVE  \A d \in Callers : CallerAdvances(d)
    <3>1. [caller[c] EXCEPT !.pc = pc] = [pc |-> pc, i |-> caller[c].i, g |-> caller[c].g]
      BY <1>2
    <3>2. caller' = [caller EXCEPT ![c] = [caller[c] EXCEPT !.pc = pc]]
      BY <2>2 DEF Goto
    <3>3. /\ caller'[c].pc = pc /\ caller'[c].i = caller[c].i /\ caller'[c].g = caller[c].g
          /\ \A d \in Callers \ {c} : caller'[d] = caller[d]
      BY <1>1, <3>1, <3>2 DEF TypeOK
    <3> QED
      BY <1>1, <3>3 DEF CallerAdvances
  <2> QED
    BY <1>1, <2>1, <2>2
<1>4. Pending' = Pending
  BY <1>1 DEF Pending
<1> DEFINE i == caller[c].i
           t == [slot[i] EXCEPT !.state = "Active"]
           u == [slot[i] EXCEPT !.state = "CleanupRequested"]
           v == Completed(slot[i], TRUE)
<1>5. /\ t.gen = slot[i].gen /\ t.state = "Active"
      /\ u.state = "CleanupRequested" /\ v.state = "Complete"
  BY <1>2 DEF SlotRecords, Completed
<1>6. \/ UNCHANGED slot
      \/ slot[i].state = "HandoffPending" /\ Put(i, t)
      \/ Put(i, u) \/ Put(i, v)
  BY DEF CancelReservation, AwaitReady, AwaitFails, AwaitDeadline, Activate, Drop,
         RequestCleanup, MarkCleanup, CleanupReturns
<1> HIDE DEF t, u, v
<1>7. \A j \in Slots : LaunchIsAsked(j)
  BY <1>1, <1>2, <1>5, <1>6 DEF LaunchIsAsked, Launched, Put, TypeOK
<1> QED
  BY <1>1, <1>3, <1>4, <1>7, LaunchFrame

(* The passes: a launch begins with the request in hand.                   *)
LEMMA PassLaunch ==
    ASSUME RegistryInv, LaunchInv, TypeOK', NEW p \in Passes,
           PopRequest(p) \/ LaunchBegin(p) \/ LaunchEnd(p)
    PROVE  LaunchInv'
<1>1. TypeOK /\ UNCHANGED <<generations, caller>>
  BY DEF PopRequest, LaunchBegin, LaunchEnd, control, RegistryInv
<1>2. \A d \in Callers : CallerAdvances(d)
  BY <1>1 DEF CallerAdvances
<1>3. CASE PopRequest(p)
  <2> DEFINE cells == {k \in Slots : queue[k] # NoRequest}
  <2>1. cells \in SUBSET Nat /\ cells # {}
    BY <1>3, RegistryAssumption DEF PopRequest, Slots
  <2>2. PICK k \in Slots : /\ inHand' = [inHand EXCEPT ![p] = queue[k]]
                           /\ queue' = [queue EXCEPT ![k] = NoRequest]
    BY <1>3, <2>1, MinIsMember DEF PopRequest
  <2>3. Pending' \subseteq Pending
    BY <1>1, <2>2 DEF Pending, TypeOK
  <2>4. \A i \in Slots : LaunchIsAsked(i)
    BY <1>3 DEF PopRequest, LaunchIsAsked
  <2> QED
    BY <1>1, <1>2, <2>3, <2>4, LaunchFrame
<1>4. CASE LaunchBegin(p) \/ LaunchEnd(p)
  <2>1. PICK i \in Slots : /\ i = inHand[p].i /\ inHand[p] # NoRequest
                           /\ slot[i] \in SlotRecords(States \ {"RootWaitable"})
                           /\ inHand[p] = [i |-> i, g |-> inHand[p].g]
    <3>1. inHand[p] # NoRequest
      BY <1>4 DEF LaunchBegin, LaunchEnd
    <3>2. inHand[p] \in Requests /\ inHand[p].i \in Slots
      BY <1>1, <3>1, RequestType
    <3>3. inHand[p] = [i |-> inHand[p].i, g |-> inHand[p].g]
      BY <3>2 DEF Requests
    <3> QED
      BY <1>1, <3>1, <3>2, <3>3, SlotType
  <2>2. Pending' \subseteq Pending
    <3>1. queue' = queue /\ (inHand' = inHand \/ inHand' = [inHand EXCEPT ![p] = NoRequest])
      BY <1>4 DEF LaunchBegin, LaunchEnd, control
    <3>2. \A q \in Passes : inHand'[q] = inHand[q] \/ inHand'[q] = NoRequest
      BY <1>1, <3>1 DEF TypeOK
    <3> QED
      BY <3>1, <3>2 DEF Pending
  <2>3. inHand[p] \in Pending
    BY <2>1 DEF Pending
  <2> DEFINE made == [slot[i] EXCEPT !.state = "Creating"]
             done == Completed(slot[i], TRUE)
             s    == [slot[i] EXCEPT !.root = "live"]
             fail == [s EXCEPT !.terminal = TRUE]
             hand == [s EXCEPT !.state = "HandoffPending"]
             T    == {done, [s EXCEPT !.state = "CleanupRequested"],
                      [fail EXCEPT !.state = "ContainmentLost"],
                      [fail EXCEPT !.state = "CleanupRequested"]}
  <2>4. /\ made.gen = slot[i].gen /\ hand.gen = slot[i].gen
        /\ \A t \in T : t.state \notin Launched
    BY <2>1 DEF SlotRecords, Launched, Completed
  <2>5. \/ UNCHANGED slot
        \/ slot[i].gen = inHand[p].g /\ Put(i, made)
        \/ slot[i].state = "Creating" /\ Put(i, hand)
        \/ \E t \in T : Put(i, t)
    BY <1>4, <2>1 DEF LaunchBegin, LaunchEnd, Wanted
  <2> HIDE DEF made, hand, T
  <2>6. ASSUME NEW j \in Slots
        PROVE  LaunchIsAsked(j)
    <3>1. CASE UNCHANGED slot
      BY <3>1 DEF LaunchIsAsked
    <3>2. CASE slot[i].gen = inHand[p].g /\ Put(i, made)
      BY <1>1, <2>1, <2>3, <2>4, <3>2 DEF LaunchIsAsked, Put, TypeOK
    <3>3. CASE slot[i].state = "Creating" /\ Put(i, hand)
      BY <1>1, <2>1, <2>4, <3>3 DEF LaunchIsAsked, Put, TypeOK, Launched
    <3>4. CASE \E t \in T : Put(i, t)
      BY <1>1, <2>1, <2>4, <3>4 DEF LaunchIsAsked, Put, TypeOK
    <3> QED
      BY <2>5, <3>1, <3>2, <3>3, <3>4
  <2> QED
    BY <1>1, <1>2, <2>2, <2>6, LaunchFrame
<1> QED
  BY <1>3, <1>4

(* What happens at a slot launches nothing.                                *)
LEMMA SlotLaunch ==
    ASSUME RegistryInv, LaunchInv, TypeOK', NEW i \in Slots,
           \/ MarkRead(i) \/ MarkStore(i) \/ ReleaseSlot(i) \/ FreeSlot(i) \/ RootExit(i)
           \/ \E explicit \in BOOLEAN, outcome \in Outcomes : Visit(i, explicit, outcome)
    PROVE  LaunchInv'
<1>1. TypeOK /\ UNCHANGED <<generations, caller, queue, inHand>>
  BY DEF MarkRead, MarkStore, ReleaseSlot, FreeSlot, RootExit, Visit, control, threads,
         RegistryInv
<1>2. \A d \in Callers : CallerAdvances(d)
  BY <1>1 DEF CallerAdvances
<1>3. Pending' = Pending
  BY <1>1 DEF Pending
<1>4. slot[i] \in SlotRecords(States \ {"RootWaitable"})
  BY <1>1, SlotType
<1>5. \/ UNCHANGED slot
      \/ \E t : /\ Put(i, t)
                /\ t.state \in Launched => t.gen = slot[i].gen /\ t.state = slot[i].state
  <2>1. CASE ReleaseSlot(i)
    <3> DEFINE t == [slot[i] EXCEPT !.state = IF slot[i].gen = MaxGen THEN "Retired" ELSE "Free"]
    <3>1. t.state \notin Launched
      BY <1>4 DEF SlotRecords, Launched
    <3> QED
      BY <2>1, <3>1 DEF ReleaseSlot
  <2>2. CASE RootExit(i)
    <3> DEFINE t == [slot[i] EXCEPT !.root = "exited"]
    <3>1. t.gen = slot[i].gen /\ t.state = slot[i].state
      BY <1>4 DEF SlotRecords
    <3> QED
      BY <2>2, <3>1 DEF RootExit
  <2>3. ASSUME NEW explicit \in BOOLEAN, NEW outcome \in Outcomes, Visit(i, explicit, outcome)
        PROVE  \E t : Put(i, t) /\ t.state \notin Launched
    <3>1. PICK s \in Observed(i, explicit) : \E t \in cleanup_slot(s, outcome) : Put(i, t)
      BY <2>3 DEF Visit
    <3>2. PICK t \in cleanup_slot(s, outcome) : Put(i, t)
      BY <3>1
    <3>3. s \in SlotRecords(States)
      BY <1>1, ObservedType
    <3>4. t \in SlotRecords({"CleanupRequested", "ContainmentLost", "Quarantined", "Complete"})
      BY <3>3, CleanupResult
    <3> QED
      BY <3>2, <3>4 DEF SlotRecords, Launched
  <2>4. CASE MarkRead(i) \/ MarkStore(i) \/ FreeSlot(i)
    BY <2>4 DEF MarkRead, MarkStore, FreeSlot
  <2> QED
    BY <2>1, <2>2, <2>3, <2>4
<1>6. \A j \in Slots : LaunchIsAsked(j)
  BY <1>1, <1>5 DEF LaunchIsAsked, Put, TypeOK
<1> QED
  BY <1>1, <1>2, <1>3, <1>6, LaunchFrame

LEMMA QuietLaunch ==
    ASSUME RegistryInv, LaunchInv, TypeOK',
           \/ CloseAdmission \/ StopService \/ ServiceExit \/ JoinService
           \/ UNCHANGED vars
    PROVE  LaunchInv'
<1>1. TypeOK /\ UNCHANGED <<generations, caller, queue, inHand, slot>>
  BY DEF CloseAdmission, StopService, ServiceExit, JoinService, vars, control, threads,
         RegistryInv
<1>2. Pending' = Pending
  BY <1>1 DEF Pending
<1> QED
  BY <1>1, <1>2, LaunchFrame DEF CallerAdvances, LaunchIsAsked

-----------------------------------------------------------------------------
(* Theorems.                                                               *)

LEMMA LaunchStep ==
    RegistryInv /\ LaunchInv /\ [Next]_vars /\ TypeOK' => LaunchInv'
<1> SUFFICES ASSUME RegistryInv, LaunchInv, [Next]_vars, TypeOK'
             PROVE  LaunchInv'
  OBVIOUS
<1>1. ASSUME NEW c \in Callers,
             \/ Reserve(c) \/ Spawning(c)
             \/ AwaitReady(c) \/ AwaitFails(c) \/ AwaitDeadline(c)
             \/ Activate(c) \/ Drop(c)
             \/ RequestCleanup(c) \/ MarkCleanup(c) \/ CleanupReturns(c)
      PROVE  LaunchInv'
  BY <1>1, ReserveLaunch, SpawningLaunch, CallerLaunch DEF Spawning
<1> QED
  BY <1>1, PassLaunch, SlotLaunch, QuietLaunch DEF Next

LEMMA RegistryInit ==
    Init => RegistryInv /\ LaunchInv
<1> SUFFICES ASSUME Init PROVE RegistryInv /\ LaunchInv
  OBVIOUS
<1> DEFINE s == [gen |-> 0, state |-> "Free", root |-> "none", terminal |-> FALSE,
                 attempts |-> 0]
<1>1. s \in SlotRecords(States \ {"RootWaitable"})
  BY RegistryAssumption DEF SlotRecords, States, Gens
<1>2. /\ \A i \in Slots : slot[i] = s /\ free[i] /\ generations[i] = 0 /\ i \notin freeing
      /\ \A c \in Callers : caller[c].pc = "idle"
      /\ slot \in [Slots -> SlotRecords(States \ {"RootWaitable"})]
  BY <1>1 DEF Init, Idle
<1>3. TypeOK
  <2>1. 0 \in Gens /\ 0 \in 0 .. Capacity
    BY RegistryAssumption DEF Gens
  <2>2. /\ slot \in [Slots -> [gen : Gens, state : States \ {"RootWaitable"},
                              root : {"none", "live", "exited", "reaped"},
                              terminal : BOOLEAN, attempts : 0 .. MaxAttempts]]
        /\ freeing \subseteq Slots
    BY <1>2 DEF Init, SlotRecords
  <2> QED
    BY <2>1, <2>2 DEF Init, TypeOK
<1>4. owned = Cardinality(OwnedSlots)
  <2>1. OwnedSlots = {}
    BY <1>2 DEF OwnedSlots
  <2> QED
    BY <2>1, FS_EmptySet DEF Init
<1>5. ASSUME NEW i \in Slots
      PROVE  SlotInv(i)
  <2>1. Resetting(i) = {}
    BY <1>2 DEF Resetting
  <2> QED
    BY <1>2, <2>1 DEF SlotInv, FreeIsEmpty, FreeingIsEmpty, ResetIsExclusive, RootHasState,
                      LiveIsAnswered, LiveStates
<1>6. ShutdownInv
  BY DEF Init, ShutdownInv
<1>7. Pending = {}
  BY DEF Init, Pending
<1>8. LaunchInv
  BY <1>2, <1>7 DEF LaunchInv
<1> QED
  BY <1>3, <1>4, <1>5, <1>6, <1>8 DEF RegistryInv

(* The inductive invariant of the registry: the control block, the slots,  *)
(* the callers between two locks and the pending launch requests agree.    *)
THEOREM RegistryInvariant == Spec => [](RegistryInv /\ LaunchInv)
<1>1. Init => RegistryInv /\ LaunchInv
  BY RegistryInit
<1>2. RegistryInv /\ LaunchInv /\ [Next]_vars => (RegistryInv /\ LaunchInv)'
  <2>1. RegistryInv => TypeOK
    BY DEF RegistryInv
  <2>2. RegistryInv' => TypeOK'
    BY DEF RegistryInv
  <2> QED
    BY <2>2, RegistryStep, LaunchStep
<1> QED
  BY <1>1, <1>2, PTL DEF Spec

(* The owned counter of the control block is the number of slots between   *)
(* their reservation and the end of their release, and a slot that can be  *)
(* reserved is empty: reserve and release_slot, each under two locks, do   *)
(* not lose or double-count a slot whatever runs between their halves.     *)
THEOREM RegistryAccounts == Spec => []OwnedAccounted
<1>1. RegistryInv => OwnedAccounted
  <2> SUFFICES ASSUME RegistryInv, NEW i \in Slots, free[i]
               PROVE  /\ slot[i].state = "Free" /\ slot[i].root = "none" /\ i \notin freeing
                      /\ generations[i] = slot[i].gen
    BY DEF RegistryInv, OwnedAccounted
  <2> QED
    BY DEF RegistryInv, SlotInv, FreeIsEmpty, ResetIsExclusive, RootHasState, EmptyStates
<1> QED
  BY <1>1, RegistryInvariant, PTL

(* Once shutdown has joined the service, no slot owns a process or a       *)
(* handle and none is being released.                                      *)
THEOREM JoinedIsEmpty == Spec => []JoinedOwnsNothing
<1>1. RegistryInv => JoinedOwnsNothing
  <2> SUFFICES ASSUME RegistryInv, admission = "Joined"
               PROVE  /\ service = "stopped"
                      /\ \A i \in Slots : ~Occupied(slot[i]) /\ i \notin freeing
    BY DEF JoinedOwnsNothing
  <2>1. service = "stopped" /\ owned = 0
    BY DEF RegistryInv, ShutdownInv
  <2>2. IsFiniteSet(Slots) /\ OwnedSlots \in SUBSET Slots
    BY FS_Interval, RegistryAssumption DEF Slots, OwnedSlots
  <2>3. IsFiniteSet(OwnedSlots)
    BY <2>2, FS_Subset
  <2>4. OwnedSlots = {}
    BY <2>1, <2>3, FS_EmptySet DEF RegistryInv
  <2>5. ASSUME NEW i \in Slots
        PROVE  ~Occupied(slot[i]) /\ i \notin freeing
    <3>1. free[i] \/ (slot[i].state = "Retired" /\ i \notin freeing)
      BY <2>4 DEF OwnedSlots
    <3> QED
      BY <3>1 DEF RegistryInv, SlotInv, FreeIsEmpty, RootHasState, EmptyStates, Occupied
  <2> QED
    BY <2>1, <2>5
<1> QED
  BY <1>1, RegistryInvariant, PTL

(* What one step may do to a slot with a root.                             *)
RootKept(i) ==
    slot[i].root # "none" =>
        /\ slot'[i].gen = slot[i].gen
        /\ Occupied(slot'[i])
        /\ slot'[i].root = "none" => slot'[i].state = "Complete"
        /\ slot'[i].root = "live" => slot[i].root = "live"

LEMMA RootKeptByPut ==
    ASSUME TypeOK, NEW i \in Slots, NEW t, Put(i, t),
           slot[i].root # "none" =>
               /\ t.gen = slot[i].gen
               /\ Occupied(t)
               /\ t.root = "none" => t.state = "Complete"
               /\ t.root = "live" => slot[i].root = "live"
    PROVE  \A j \in Slots : RootKept(j)
<1>1. slot'[i] = t /\ \A j \in Slots \ {i} : slot'[j] = slot[j]
  BY DEF Put, TypeOK
<1> QED
  BY <1>1 DEF RootKept, Occupied

LEMMA RootKeptByCaller ==
    ASSUME RegistryInv, NEW c \in Callers, ResetSlot(c) \/ CancelReservation(c) \/ Activate(c)
    PROVE  \A j \in Slots : RootKept(j)
<1>1. TypeOK /\ caller[c].i \in Slots /\ SlotInv(caller[c].i)
  BY CallerType DEF RegistryInv, ResetSlot, CancelReservation, Activate
<1> DEFINE i == caller[c].i
           t == [slot[i] EXCEPT !.state = "Active"]
           u == [slot[i] EXCEPT !.state = "CleanupRequested"]
           v == Completed(slot[i], TRUE)
<1>2. slot[i] \in SlotRecords(States \ {"RootWaitable"})
  BY <1>1, SlotType
<1>3. /\ t.gen = slot[i].gen /\ t.state = "Active" /\ t.root = slot[i].root
      /\ u.gen = slot[i].gen /\ u.state = "CleanupRequested" /\ u.root = slot[i].root
      /\ v.gen = slot[i].gen /\ v.state = "Complete" /\ v.root = "none"
  BY <1>2 DEF SlotRecords, Completed
<1>4. CASE ResetSlot(c)
  <2>1. c \in Resetting(i)
    BY <1>4 DEF ResetSlot, Resetting
  <2>2. slot[i].root = "none"
    BY <1>1, <2>1 DEF SlotInv, ResetIsExclusive, RootHasState, EmptyStates
  <2> QED
    BY <1>1, <1>4, <2>2, RootKeptByPut DEF ResetSlot
<1>5. CASE CancelReservation(c) \/ Activate(c)
  <2>1. Put(i, t) \/ Put(i, u) \/ Put(i, v) \/ UNCHANGED slot
    BY <1>5 DEF CancelReservation, Activate
  <2>2. Occupied(t) /\ Occupied(u) /\ Occupied(v)
    BY <1>3 DEF Occupied
  <2> HIDE DEF t, u, v
  <2>3. CASE UNCHANGED slot
    BY <2>3 DEF RootKept, Occupied
  <2> QED
    BY <1>1, <1>3, <2>1, <2>2, <2>3, RootKeptByPut
<1> QED
  BY <1>4, <1>5

LEMMA RootKeptByPass ==
    ASSUME RegistryInv, NEW p \in Passes, LaunchBegin(p) \/ LaunchEnd(p)
    PROVE  \A j \in Slots : RootKept(j)
<1>1. TypeOK /\ inHand[p].i \in Slots /\ SlotInv(inHand[p].i)
  BY RequestType DEF RegistryInv, LaunchBegin, LaunchEnd
<1>2. UNCHANGED slot \/ (slot[inHand[p].i].state \in EmptyStates /\ \E t : Put(inHand[p].i, t))
  BY DEF LaunchBegin, LaunchEnd, Wanted, EmptyStates
<1>3. slot[inHand[p].i].state \in EmptyStates => slot[inHand[p].i].root = "none"
  BY <1>1 DEF SlotInv, RootHasState
<1>4. CASE UNCHANGED slot
  BY <1>4 DEF RootKept, Occupied
<1> QED
  BY <1>1, <1>2, <1>3, <1>4, RootKeptByPut

LEMMA RootKeptAtSlot ==
    ASSUME RegistryInv, NEW i \in Slots,
           \/ ReleaseSlot(i) \/ RootExit(i)
           \/ \E explicit \in BOOLEAN, outcome \in Outcomes : Visit(i, explicit, outcome)
    PROVE  \A j \in Slots : RootKept(j)
<1>1. TypeOK /\ SlotInv(i) /\ slot[i] \in SlotRecords(States \ {"RootWaitable"})
  BY SlotType DEF RegistryInv
<1>2. CASE ReleaseSlot(i)
  <2>1. slot[i].root = "none"
    BY <1>1, <1>2 DEF ReleaseSlot, SlotInv, RootHasState, EmptyStates
  <2> QED
    BY <1>1, <1>2, <2>1, RootKeptByPut DEF ReleaseSlot
<1>3. CASE RootExit(i)
  <2> DEFINE t == [slot[i] EXCEPT !.root = "exited"]
  <2>1. t.gen = slot[i].gen /\ t.root = "exited" /\ Put(i, t)
    BY <1>1, <1>3 DEF RootExit, SlotRecords
  <2> HIDE DEF t
  <2> QED
    BY <1>1, <2>1, RootKeptByPut DEF Occupied
<1>4. ASSUME NEW explicit \in BOOLEAN, NEW outcome \in Outcomes, Visit(i, explicit, outcome)
      PROVE  \A j \in Slots : RootKept(j)
  <2>1. PICK s \in Observed(i, explicit) : \E t \in cleanup_slot(s, outcome) : Put(i, t)
    BY <1>4 DEF Visit
  <2>2. PICK t \in cleanup_slot(s, outcome) : Put(i, t)
    BY <2>1
  <2>3. s \in SlotRecords(States) /\ s.gen = slot[i].gen /\ s.root = slot[i].root
    BY <1>1, ObservedType
  <2>4. /\ t \in SlotRecords({"CleanupRequested", "ContainmentLost", "Quarantined", "Complete"})
        /\ t.gen = slot[i].gen
        /\ t.root = "none" => t.state = "Complete"
        /\ t.root = "live" => slot[i].root = "live"
    BY <2>3, CleanupResult
  <2>5. Occupied(t)
    BY <2>4 DEF Occupied, SlotRecords
  <2> QED
    BY <1>1, <2>2, <2>4, <2>5, RootKeptByPut
<1> QED
  BY <1>2, <1>3, <1>4

(* No step resets, relaunches or frees a slot that still has a root: a     *)
(* process leaves its slot only by the cleanup that reaped it.             *)
THEOREM RootsAreKept == Spec => RootNeverLost
<1>1. RegistryInv /\ [Next]_vars => \A i \in Slots : RootKept(i)
  <2> SUFFICES ASSUME RegistryInv, [Next]_vars
               PROVE  \A i \in Slots : RootKept(i)
    OBVIOUS
  <2>1. CASE UNCHANGED slot
    BY <2>1 DEF RootKept, Occupied
  <2>2. ASSUME NEW c \in Callers,
               \/ Reserve(c) \/ Spawning(c)
               \/ AwaitReady(c) \/ AwaitFails(c) \/ AwaitDeadline(c)
               \/ Activate(c) \/ Drop(c)
               \/ RequestCleanup(c) \/ MarkCleanup(c) \/ CleanupReturns(c)
        PROVE  \A i \in Slots : RootKept(i)
    <3>1. UNCHANGED slot \/ ResetSlot(c) \/ CancelReservation(c) \/ Activate(c)
      BY <2>2 DEF Reserve, Spawning, Enqueue, AwaitReady, AwaitFails, AwaitDeadline, Drop,
                  RequestCleanup, MarkCleanup, CleanupReturns
    <3> QED
      BY <2>1, <3>1, RootKeptByCaller
  <2>3. ASSUME NEW p \in Passes, PopRequest(p) \/ LaunchBegin(p) \/ LaunchEnd(p)
        PROVE  \A i \in Slots : RootKept(i)
    BY <2>1, <2>3, RootKeptByPass DEF PopRequest
  <2>4. ASSUME NEW i \in Slots,
               \/ MarkRead(i) \/ MarkStore(i) \/ ReleaseSlot(i) \/ FreeSlot(i) \/ RootExit(i)
               \/ \E explicit \in BOOLEAN, outcome \in Outcomes : Visit(i, explicit, outcome)
        PROVE  \A j \in Slots : RootKept(j)
    BY <2>1, <2>4, RootKeptAtSlot DEF MarkRead, MarkStore, FreeSlot
  <2>5. CASE CloseAdmission \/ StopService \/ ServiceExit \/ JoinService \/ UNCHANGED vars
    BY <2>1, <2>5 DEF CloseAdmission, StopService, ServiceExit, JoinService, vars
  <2> QED
    BY <2>2, <2>3, <2>4, <2>5 DEF Next
<1>2. RegistryInv /\ [Next]_vars =>
        [\A i \in Slots : slot[i].root # "none" =>
            /\ slot'[i].gen = slot[i].gen
            /\ Occupied(slot'[i])
            /\ slot'[i].root = "none" => slot'[i].state = "Complete"
            /\ slot'[i].root = "live" => slot[i].root = "live"]_vars
  BY <1>1 DEF RootKept
<1> QED
  BY <1>2, RegistryInvariant, PTL DEF Spec, RootNeverLost

=============================================================================

-------------------------- MODULE SyncBarrierProofs --------------------------
(***************************************************************************)
(* Proofs about the synchronizing barrier, for any sets of participants    *)
(* and keys (infinite too), any group sizes and timeouts, and every bound. *)
(*                                                                         *)
(* The three calls of the coordinator are functions of its state, and a    *)
(* poll applies one or two of them to one key.  The lemmas say what each   *)
(* function does to the key it is called for (KeyOK, with the participants *)
(* that still wait on it), that it leaves the other keys alone, and that   *)
(* it keeps the count of leases.                                           *)
(***************************************************************************)
EXTENDS SyncBarrier, FiniteSetTheorems, TLAPS

BarRecs ==
    [slot : [Keys -> Slot], next : [Keys -> 0 .. MaxGeneration + 1],
     lease : [Keys -> [Participants -> 0 .. MaxGeneration]], count : 0 .. MaxParticipants]

Leases(b)  == {kp \in Keys \X Participants : b.lease[kp[1]][kp[2]] # 0}
Counted(b) == IsFiniteSet(Leases(b)) /\ b.count = Cardinality(Leases(b))

(* The slot of key k when the participants in W wait on it.                *)
OpenOK(slot, W) ==
    slot.generation # 0 /\ slot.outcome = "None" =>
        /\ slot.arrivals = W
        /\ Cardinality(slot.arrivals) < slot.expected
        /\ slot.retired = {}

KeyOK(b, k, W) ==
    /\ Leased(b, k) = W
    /\ Exists(b, k) <=> W # {}
    /\ b.slot[k].arrivals \subseteq W
    /\ b.slot[k].arrivals \cap b.slot[k].retired = {}
    /\ \A p \in W : b.lease[k][p] = b.slot[k].generation
    /\ OpenOK(b.slot[k], W)
    /\ IF Exists(b, k) THEN b.slot[k].generation = b.next[k] ELSE b.slot[k] = NoSlot

Waits(k) == {p \in Participants : future[p].key = k}

BarrierInv ==
    /\ TypeOK
    /\ Counted(bar)
    /\ \A k \in Keys : KeyOK(bar, k, Waits(k))
    /\ \A p \in Participants : future[p].key = NoKey => future[p] = NoFuture

-----------------------------------------------------------------------------
(* What the coordinator's functions do to its state.                       *)

SameElsewhere(b, c, k) ==
    \A j \in Keys \ {k} :
        c.slot[j] = b.slot[j] /\ c.next[j] = b.next[j] /\ c.lease[j] = b.lease[j]

LEMMA Constants ==
    /\ NoKey \notin Keys /\ GroupKeys \subseteq Keys
    /\ MaxGeneration \in Nat \ {0} /\ MaxParticipants \in Nat /\ MaxTime \in Nat
    /\ Timeout \in [Keys -> Nat]
BY BarrierAssumption

LEMMA NoSlotType == NoSlot \in Slot /\ NoSlot.generation = 0
BY Constants DEF NoSlot, Slot

(* One lease more, or one less.                                            *)
LEMMA LeaseAdded ==
    ASSUME NEW b \in BarRecs, NEW c \in BarRecs, Counted(b), NEW p \in Participants,
           NEW k \in Keys, NEW g \in 1 .. MaxGeneration, p \notin Leased(b, k),
           c.lease = [b.lease EXCEPT ![k] = [b.lease[k] EXCEPT ![p] = g]],
           c.count = b.count + 1
    PROVE  Counted(c) /\ Leased(c, k) = Leased(b, k) \cup {p}
<1>1. Leased(c, k) = Leased(b, k) \cup {p}
  BY DEF BarRecs, Leased
<1>2. <<k, p>> \notin Leases(b)
  BY DEF Leases, Leased
<1>3. Leases(c) = Leases(b) \cup {<<k, p>>}
  BY DEF Leases, BarRecs
<1> QED
  BY <1>1, <1>2, <1>3, FS_AddElement DEF Counted

LEMMA LeaseRemoved ==
    ASSUME NEW b \in BarRecs, NEW c \in BarRecs, Counted(b), NEW p \in Participants,
           NEW k \in Keys, p \in Leased(b, k),
           c.lease = [b.lease EXCEPT ![k] = [b.lease[k] EXCEPT ![p] = 0]],
           c.count = b.count - 1
    PROVE  Counted(c) /\ Leased(c, k) = Leased(b, k) \ {p}
<1>1. Leased(c, k) = Leased(b, k) \ {p}
  BY DEF BarRecs, Leased
<1>2. <<k, p>> \in Leases(b)
  BY DEF Leases, Leased
<1>3. Leases(c) = Leases(b) \ {<<k, p>>}
  BY DEF Leases, BarRecs
<1> QED
  BY <1>1, <1>2, <1>3, FS_RemoveElement DEF Counted

LEMMA CountPositive ==
    ASSUME NEW b \in BarRecs, Counted(b), NEW p \in Participants, NEW k \in Keys,
           p \in Leased(b, k)
    PROVE  b.count - 1 \in 0 .. MaxParticipants
<1>1. <<k, p>> \in Leases(b)
  BY DEF Leases, Leased
<1>2. b.count # 0
  BY <1>1, FS_EmptySet DEF Counted
<1>3. b.count \in 0 .. MaxParticipants
  BY DEF BarRecs
<1> QED
  BY <1>2, <1>3, Constants

LEMMA UnleaseFields ==
    ASSUME NEW b \in BarRecs, Counted(b), NEW p \in Participants, NEW k \in Keys,
           p \in Leased(b, k)
    PROVE  LET u == Unlease(b, p, k)
           IN  /\ u \in BarRecs /\ Counted(u)
               /\ u.slot = b.slot /\ u.next = b.next
               /\ u.lease = [b.lease EXCEPT ![k] = [b.lease[k] EXCEPT ![p] = 0]]
               /\ Leased(u, k) = Leased(b, k) \ {p}
<1> DEFINE u == Unlease(b, p, k)
<1>1. /\ u.slot = b.slot /\ u.next = b.next /\ u.count = b.count - 1
      /\ u.lease = [b.lease EXCEPT ![k] = [b.lease[k] EXCEPT ![p] = 0]]
  BY DEF Unlease, BarRecs
<1>2. u \in BarRecs
  <2>1. b.count - 1 \in 0 .. MaxParticipants
    BY CountPositive
  <2>2. [b.lease EXCEPT ![k] = [b.lease[k] EXCEPT ![p] = 0]]
          \in [Keys -> [Participants -> 0 .. MaxGeneration]]
    BY Constants DEF BarRecs
  <2>3. u = [slot |-> b.slot, next |-> b.next,
             lease |-> [b.lease EXCEPT ![k] = [b.lease[k] EXCEPT ![p] = 0]],
             count |-> b.count - 1]
    <3> DEFINE L == [b.lease EXCEPT ![k] = [b.lease[k] EXCEPT ![p] = 0]]
    <3>1. u = [b EXCEPT !.lease = L, !.count = @ - 1]
      BY DEF Unlease
    <3> HIDE DEF L, u
    <3>2. u = [slot |-> b.slot, next |-> b.next, lease |-> L, count |-> b.count - 1]
      BY <3>1 DEF BarRecs
    <3> QED
      BY <3>2 DEF L
  <2> HIDE DEF u
  <2> QED
    BY <2>1, <2>2, <2>3 DEF BarRecs
<1> HIDE DEF u
<1>3. Counted(u) /\ Leased(u, k) = Leased(b, k) \ {p}
  BY <1>1, <1>2, LeaseRemoved
<1> QED
  BY <1>1, <1>2, <1>3 DEF u

(* A participant that leaves: its lease is given up, its slot becomes s,   *)
(* and the slot goes when nobody is left.                                  *)
LEMMA Leave ==
    ASSUME NEW b \in BarRecs, Counted(b), NEW p \in Participants, NEW k \in Keys, NEW W,
           KeyOK(b, k, W), p \in W, NEW s \in Slot,
           s.generation = b.slot[k].generation, s.outcome # "None",
           s.arrivals = b.slot[k].arrivals \ {p}, s.arrivals \cap s.retired = {},
           NEW c \in BarRecs, c.slot = [b.slot EXCEPT ![k] = s], c.next = b.next,
           c.lease = Unlease(b, p, k).lease, c.count = Unlease(b, p, k).count
    PROVE  LET d == RemoveDrained(c, k)
           IN  /\ d \in BarRecs /\ Counted(d) /\ SameElsewhere(b, d, k)
               /\ KeyOK(d, k, W \ {p})
               /\ d.slot[k] \in {s, NoSlot}
<1> DEFINE d == RemoveDrained(c, k)
<1>1. p \in Leased(b, k) /\ Exists(b, k)
  BY DEF KeyOK
<1>2. /\ Counted(c) /\ Leased(c, k) = W \ {p}
      /\ c.lease = [b.lease EXCEPT ![k] = [b.lease[k] EXCEPT ![p] = 0]]
  <2> DEFINE u == Unlease(b, p, k)
  <2>1. /\ Counted(u) /\ Leased(u, k) = Leased(b, k) \ {p}
        /\ u.lease = [b.lease EXCEPT ![k] = [b.lease[k] EXCEPT ![p] = 0]]
    BY <1>1, UnleaseFields
  <2>2. c.lease = u.lease /\ c.count = u.count /\ Leased(b, k) = W
    BY DEF KeyOK
  <2> HIDE DEF u
  <2> QED
    BY <2>1, <2>2 DEF Counted, Leases, Leased
<1>3. c.slot[k] = s /\ Exists(c, k) /\ s.generation = c.next[k]
  BY <1>1 DEF KeyOK, Exists, BarRecs
<1>4. c.next[k] + 1 \in 0 .. MaxGeneration + 1
  BY <1>3, Constants DEF BarRecs, Slot
<1>5. SameElsewhere(b, c, k)
  BY <1>2 DEF SameElsewhere, BarRecs
<1>6. CASE W \ {p} = {}
  <2>1. Drained(c, k)
    BY <1>2, <1>3, <1>6 DEF Drained, KeyOK
  <2>2. d = [c EXCEPT !.slot[k] = NoSlot, !.next[k] = @ + 1]
    BY <2>1 DEF RemoveDrained
  <2>3. /\ d.slot = [c.slot EXCEPT ![k] = NoSlot]
        /\ d.next = [c.next EXCEPT ![k] = @ + 1]
        /\ d.lease = c.lease /\ d.count = c.count
        /\ d \in BarRecs
    <3>1. d = [slot |-> [c.slot EXCEPT ![k] = NoSlot], next |-> [c.next EXCEPT ![k] = @ + 1],
               lease |-> c.lease, count |-> c.count]
      BY <2>2 DEF BarRecs
    <3>2. /\ [c.slot EXCEPT ![k] = NoSlot] \in [Keys -> Slot]
          /\ [c.next EXCEPT ![k] = @ + 1] \in [Keys -> 0 .. MaxGeneration + 1]
      BY <1>4, NoSlotType DEF BarRecs
    <3> HIDE DEF d
    <3> QED
      BY <3>1, <3>2 DEF BarRecs
  <2> HIDE DEF d
  <2>4. Counted(d) /\ Leased(d, k) = {}
    <3>1. d.lease = c.lease /\ d.count = c.count
      BY <2>3
    <3> QED
      BY ONLY <1>2, <1>6, <3>1 DEF Counted, Leases, Leased
  <2>7. SameElsewhere(b, d, k)
    BY <1>5, <2>3 DEF SameElsewhere, BarRecs
  <2>5. d.slot[k] = NoSlot
    BY <2>3 DEF BarRecs
  <2>6. KeyOK(d, k, {})
    BY <2>4, <2>5, NoSlotType DEF KeyOK, OpenOK, Exists, NoSlot
  <2> QED
    BY <1>6, <2>3, <2>4, <2>5, <2>6, <2>7 DEF d
<1>7. CASE W \ {p} # {}
  <2>1. d = c
    BY <1>2, <1>7 DEF RemoveDrained, Drained
  <2>2. \A q \in W \ {p} : c.lease[k][q] = b.lease[k][q]
    BY <1>2 DEF KeyOK, Leased, BarRecs
  <2>3. KeyOK(c, k, W \ {p})
    BY <1>2, <1>3, <1>7, <2>2 DEF KeyOK, OpenOK
  <2> QED
    BY <1>2, <1>3, <1>5, <2>1, <2>3
<1> QED
  BY <1>6, <1>7

(* What a slot s may become while it keeps its generation: OutcomeIsFinal. *)
Final(s, t) ==
    s.generation # 0 /\ t.generation = s.generation =>
        /\ s.outcome # "None" => t.outcome = s.outcome
        /\ \A p \in s.retired : p \in t.retired /\ p \notin t.arrivals

LEMMA BreakFields ==
    ASSUME NEW s \in Slot, NEW p \in Participants
    PROVE  LET t == Break(s, p)
           IN  /\ t \in Slot /\ t.generation = s.generation
               /\ t.arrivals = s.arrivals \ {p} /\ t.retired = s.retired \cup {p}
               /\ t.outcome # "None"
               /\ s.outcome # "None" => t.outcome = s.outcome
BY DEF Break, Slot

LEMMA SettleFields ==
    ASSUME NEW s \in Slot, NEW p \in Participants, NEW outcome \in {"Released", "TimedOut"}
    PROVE  LET t == Settle(s, p, outcome)
           IN  /\ t \in Slot /\ t.generation = s.generation
               /\ t.arrivals = s.arrivals \ {p}
               /\ t.retired \in {s.retired, s.retired \cup {p}}
               /\ t.outcome # "None"
               /\ s.outcome # "None" => t.outcome = s.outcome
BY DEF Settle, Slot

(* The slot of one key is replaced.                                        *)
LEMMA SlotReplaced ==
    ASSUME NEW b \in BarRecs, NEW k \in Keys, NEW s \in Slot
    PROVE  LET c == [b EXCEPT !.slot[k] = s]
           IN  /\ c \in BarRecs
               /\ c.slot = [b.slot EXCEPT ![k] = s]
               /\ c.next = b.next /\ c.lease = b.lease /\ c.count = b.count
<1> DEFINE S == [b.slot EXCEPT ![k] = s]
           c == [b EXCEPT !.slot[k] = s]
<1>1. S \in [Keys -> Slot]
  BY DEF BarRecs
<1>2. c = [b EXCEPT !.slot = S]
  OBVIOUS
<1> HIDE DEF S, c
<1>3. c \in BarRecs /\ c.slot = S /\ c.next = b.next /\ c.lease = b.lease /\ c.count = b.count
  BY <1>1, <1>2 DEF BarRecs
<1> QED
  BY <1>3 DEF S, c

(* Leave, for the two ways a slot changes: who leaves has its lease.       *)
LEMMA LeaveReplaced ==
    ASSUME NEW b \in BarRecs, Counted(b), NEW p \in Participants, NEW k \in Keys, NEW W,
           KeyOK(b, k, W), p \in W, NEW s \in Slot,
           s.generation = b.slot[k].generation, s.outcome # "None",
           s.arrivals = b.slot[k].arrivals \ {p}, s.arrivals \cap s.retired = {}
    PROVE  LET d == RemoveDrained([Unlease(b, p, k) EXCEPT !.slot[k] = s], k)
           IN  /\ d \in BarRecs /\ Counted(d) /\ SameElsewhere(b, d, k)
               /\ KeyOK(d, k, W \ {p})
               /\ d.slot[k] \in {s, NoSlot}
<1> DEFINE u == Unlease(b, p, k)
           c == [u EXCEPT !.slot[k] = s]
<1>1. p \in Leased(b, k)
  BY DEF KeyOK
<1>2. u \in BarRecs /\ u.slot = b.slot /\ u.next = b.next
  BY <1>1, UnleaseFields
<1>3. /\ c \in BarRecs /\ c.slot = [b.slot EXCEPT ![k] = s] /\ c.next = b.next
      /\ c.lease = u.lease /\ c.count = u.count
  <2> HIDE DEF u
  <2> QED
    BY <1>2, SlotReplaced
<1> HIDE DEF c
<1>4. LET d == RemoveDrained(c, k)
      IN  /\ d \in BarRecs /\ Counted(d) /\ SameElsewhere(b, d, k)
          /\ KeyOK(d, k, W \ {p})
          /\ d.slot[k] \in {s, NoSlot}
  BY <1>3, Leave
<1> QED
  BY <1>4 DEF c

LEMMA CancelledOK ==
    ASSUME NEW b \in BarRecs, Counted(b), NEW p \in Participants, NEW k \in Keys, NEW W,
           KeyOK(b, k, W)
    PROVE  LET d == Cancelled(b, p, k)
           IN  /\ d \in BarRecs /\ Counted(d) /\ SameElsewhere(b, d, k)
               /\ KeyOK(d, k, W \ {p})
               /\ Final(b.slot[k], d.slot[k])
<1> DEFINE d == Cancelled(b, p, k)
<1>0. b.slot[k] \in Slot /\ b.slot[k].arrivals \cap b.slot[k].retired = {}
  BY DEF BarRecs, KeyOK
<1>1. CASE p \notin W
  <2>1. d = b /\ W \ {p} = W
    BY <1>1 DEF Cancelled, KeyOK
  <2> QED
    BY <1>0, <2>1 DEF SameElsewhere, Final
<1>2. CASE p \in W /\ p \in b.slot[k].arrivals
  <2> DEFINE s == Break(b.slot[k], p)
  <2>1. p \in Leased(b, k) /\ IsCurrent(b, p, k)
    BY <1>2 DEF KeyOK, IsCurrent
  <2>2. Unlease(b, p, k).slot = b.slot
    BY <2>1, UnleaseFields
  <2>3. d = RemoveDrained([Unlease(b, p, k) EXCEPT !.slot[k] = s], k)
    BY <1>2, <2>1, <2>2 DEF Cancelled
  <2>4. /\ s \in Slot /\ s.generation = b.slot[k].generation /\ s.outcome # "None"
        /\ s.arrivals = b.slot[k].arrivals \ {p} /\ s.retired = b.slot[k].retired \cup {p}
        /\ b.slot[k].outcome # "None" => s.outcome = b.slot[k].outcome
    BY <1>0, BreakFields
  <2> HIDE DEF s, d
  <2>5. s.arrivals \cap s.retired = {}
    BY <1>0, <2>4
  <2>6. /\ d \in BarRecs /\ Counted(d) /\ SameElsewhere(b, d, k)
        /\ KeyOK(d, k, W \ {p})
        /\ d.slot[k] \in {s, NoSlot}
    BY <1>2, <2>3, <2>4, <2>5, LeaveReplaced
  <2>7. Final(b.slot[k], d.slot[k])
    BY <2>4, <2>5, <2>6, NoSlotType DEF Final
  <2> QED
    BY <2>6, <2>7 DEF d
<1>3. CASE p \in W /\ p \notin b.slot[k].arrivals
  <2> DEFINE u == Unlease(b, p, k)
  <2>1. p \in Leased(b, k) /\ IsCurrent(b, p, k)
    BY <1>3 DEF KeyOK, IsCurrent
  <2>2. u \in BarRecs /\ u.slot = b.slot /\ u.next = b.next
    BY <2>1, UnleaseFields
  <2>3. d = RemoveDrained(u, k)
    BY <1>3, <2>1 DEF Cancelled
  <2>4. /\ b.slot[k].outcome # "None"
        /\ b.slot[k].arrivals = b.slot[k].arrivals \ {p}
        /\ u.slot = [b.slot EXCEPT ![k] = b.slot[k]]
    BY <1>3, <2>2 DEF KeyOK, OpenOK, Exists, BarRecs
  <2>5. LET e == RemoveDrained(u, k)
        IN  /\ e \in BarRecs /\ Counted(e) /\ SameElsewhere(b, e, k)
            /\ KeyOK(e, k, W \ {p})
            /\ e.slot[k] \in {b.slot[k], NoSlot}
    BY <1>0, <1>3, <2>2, <2>4, Leave
  <2> HIDE DEF d, u
  <2>6. Final(b.slot[k], d.slot[k])
    BY <1>0, <2>3, <2>5, NoSlotType DEF Final
  <2> QED
    BY <2>3, <2>5, <2>6 DEF d
<1> QED
  BY <1>1, <1>2, <1>3

LEMMA CompletedOK ==
    ASSUME NEW b \in BarRecs, Counted(b), NEW p \in Participants, NEW k \in Keys, NEW W,
           KeyOK(b, k, W), p \in W, NEW outcome \in {"Released", "TimedOut"}
    PROVE  LET d == Completed(b, p, k, outcome)
           IN  /\ d \in BarRecs /\ Counted(d) /\ SameElsewhere(b, d, k)
               /\ KeyOK(d, k, W \ {p})
               /\ Final(b.slot[k], d.slot[k])
<1> DEFINE d == Completed(b, p, k, outcome)
           s == Settle(b.slot[k], p, outcome)
<1>0. b.slot[k] \in Slot /\ b.slot[k].arrivals \cap b.slot[k].retired = {}
  BY DEF BarRecs, KeyOK
<1>1. p \in Leased(b, k) /\ IsCurrent(b, p, k)
  BY DEF KeyOK, IsCurrent
<1>2. Unlease(b, p, k).slot = b.slot
  BY <1>1, UnleaseFields
<1>3. d = RemoveDrained([Unlease(b, p, k) EXCEPT !.slot[k] = s], k)
  BY <1>1, <1>2 DEF Completed
<1>4. /\ s \in Slot /\ s.generation = b.slot[k].generation /\ s.outcome # "None"
      /\ s.arrivals = b.slot[k].arrivals \ {p}
      /\ s.retired \in {b.slot[k].retired, b.slot[k].retired \cup {p}}
      /\ b.slot[k].outcome # "None" => s.outcome = b.slot[k].outcome
  BY <1>0, SettleFields
<1> HIDE DEF s, d
<1>5. s.arrivals \cap s.retired = {}
  BY <1>0, <1>4
<1>6. /\ d \in BarRecs /\ Counted(d) /\ SameElsewhere(b, d, k)
      /\ KeyOK(d, k, W \ {p})
      /\ d.slot[k] \in {s, NoSlot}
  BY <1>3, <1>4, <1>5, LeaveReplaced
<1>7. Final(b.slot[k], d.slot[k])
  BY <1>4, <1>5, <1>6, NoSlotType DEF Final
<1> QED
  BY <1>6, <1>7 DEF d

-----------------------------------------------------------------------------
(* An arrival.                                                             *)

LEMMA LeasedIsFinite ==
    ASSUME NEW b \in BarRecs, Counted(b), NEW k \in Keys
    PROVE  IsFiniteSet(Leased(b, k)) /\ Cardinality(Leased(b, k)) \in Nat
<1> DEFINE f == [p \in Leased(b, k) |-> <<k, p>>]
<1>1. f \in [Leased(b, k) -> Leases(b)]
  BY DEF Leases, Leased
<1>2. \A p, q \in Leased(b, k) : f[p] = f[q] => p = q
  OBVIOUS
<1>3. DOMAIN f = Leased(b, k)
  OBVIOUS
<1> HIDE DEF f
<1>4. f \in Injection(Leased(b, k), Leases(b))
  BY <1>1, <1>2, <1>3 DEF Injection, IsInjective
<1> QED
  BY <1>4, FS_Injection, FS_CardinalityType DEF Counted

(* The key's generation counter is entered before the first arrival.       *)
LEMMA EnteredOK ==
    ASSUME bar \in BarRecs, Counted(bar), NEW k \in Keys, NEW W, KeyOK(bar, k, W)
    PROVE  LET e == Entered(k)
           IN  /\ e \in BarRecs /\ Counted(e) /\ SameElsewhere(bar, e, k)
               /\ KeyOK(e, k, W)
               /\ e.slot = bar.slot /\ e.lease = bar.lease /\ e.count = bar.count
               /\ e.next[k] # 0
               /\ bar.next[k] <= MaxGeneration => e.next[k] <= MaxGeneration
<1> DEFINE e == Entered(k)
<1>1. CASE bar.next[k] = 0
  <2> DEFINE N == [bar.next EXCEPT ![k] = 1]
  <2>1. e = [bar EXCEPT !.next = N]
    BY <1>1 DEF Entered
  <2>2. N \in [Keys -> 0 .. MaxGeneration + 1] /\ N[k] = 1 /\ \A j \in Keys \ {k} : N[j] = bar.next[j]
    BY Constants DEF BarRecs
  <2> HIDE DEF N, e
  <2>3. /\ e \in BarRecs /\ e.slot = bar.slot /\ e.lease = bar.lease /\ e.count = bar.count
        /\ e.next = N
    BY <2>1, <2>2 DEF BarRecs
  <2>4. Counted(e) /\ SameElsewhere(bar, e, k)
    BY <2>2, <2>3 DEF Counted, Leases, SameElsewhere
  <2>5. KeyOK(e, k, W)
    BY <1>1, <2>2, <2>3 DEF KeyOK, Leased, Exists
  <2> QED
    BY <2>2, <2>3, <2>4, <2>5, Constants DEF e
<1>2. CASE bar.next[k] # 0
  BY <1>2 DEF Entered, SameElsewhere
<1> QED
  BY <1>1, <1>2

LEMMA JoinedFields ==
    ASSUME NEW b \in BarRecs, Counted(b), NEW p \in Participants, NEW k \in Keys,
           p \notin Leased(b, k), b.next[k] \in 1 .. MaxGeneration, b.count < MaxParticipants
    PROVE  LET c == Joined(b, p, k)
           IN  /\ c \in BarRecs /\ Counted(c) /\ c.slot = b.slot /\ c.next = b.next
               /\ Leased(c, k) = Leased(b, k) \cup {p}
               /\ c.lease[k][p] = b.next[k]
               /\ \A q \in Leased(b, k) : c.lease[k][q] = b.lease[k][q]
               /\ SameElsewhere(b, c, k)
<1> DEFINE L == [b.lease EXCEPT ![k] = [b.lease[k] EXCEPT ![p] = b.next[k]]]
           c == Joined(b, p, k)
<1>1. L \in [Keys -> [Participants -> 0 .. MaxGeneration]]
  BY Constants DEF BarRecs
<1>2. b.count + 1 \in 0 .. MaxParticipants
  BY Constants DEF BarRecs
<1>3. c = [b EXCEPT !.lease = L, !.count = @ + 1]
  BY DEF Joined
<1>4. /\ L[k][p] = b.next[k] /\ \A q \in Leased(b, k) : L[k][q] = b.lease[k][q]
      /\ \A j \in Keys \ {k} : L[j] = b.lease[j]
  BY DEF BarRecs, Leased
<1> HIDE DEF L, c
<1>5. /\ c \in BarRecs /\ c.slot = b.slot /\ c.next = b.next /\ c.lease = L
      /\ c.count = b.count + 1
  BY <1>1, <1>2, <1>3 DEF BarRecs
<1>6. Counted(c) /\ Leased(c, k) = Leased(b, k) \cup {p}
  BY <1>5, LeaseAdded DEF L
<1>7. SameElsewhere(b, c, k)
  BY <1>4, <1>5 DEF SameElsewhere
<1> QED
  BY <1>4, <1>5, <1>6, <1>7 DEF c

(* The state after an arrival: KeyOK but for the size of the group.        *)
Gathering(b, k, W) ==
    /\ Leased(b, k) = W /\ W # {}
    /\ b.slot[k].generation = b.next[k] /\ b.next[k] # 0
    /\ b.slot[k].arrivals \subseteq W /\ b.slot[k].retired = {}
    /\ \A q \in W : b.lease[k][q] = b.slot[k].generation

LEMMA GatheringCloses ==
    ASSUME NEW b \in BarRecs, Counted(b), NEW k \in Keys, NEW W, Gathering(b, k, W),
           NEW outcome \in {"Released", "TimedOut"}
    PROVE  LET c == [b EXCEPT !.slot[k].outcome = outcome]
           IN  c \in BarRecs /\ Counted(c) /\ SameElsewhere(b, c, k) /\ KeyOK(c, k, W)
<1> DEFINE s == [b.slot[k] EXCEPT !.outcome = outcome]
           c == [b EXCEPT !.slot[k] = s]
<1>1. /\ s \in Slot /\ s.generation = b.slot[k].generation /\ s.arrivals = b.slot[k].arrivals
      /\ s.retired = b.slot[k].retired /\ s.outcome = outcome
  BY DEF BarRecs, Slot
<1>2. [b EXCEPT !.slot[k].outcome = outcome] = c
  OBVIOUS
<1>3. /\ c \in BarRecs /\ c.slot = [b.slot EXCEPT ![k] = s]
      /\ c.next = b.next /\ c.lease = b.lease /\ c.count = b.count
  <2> HIDE DEF s
  <2> QED
    BY <1>1, SlotReplaced
<1> HIDE DEF s, c
<1>4. c.slot[k] = s /\ \A j \in Keys \ {k} : c.slot[j] = b.slot[j]
  BY <1>3 DEF BarRecs
<1>5. Counted(c) /\ SameElsewhere(b, c, k)
  BY <1>3, <1>4 DEF Counted, Leases, SameElsewhere
<1>6. KeyOK(c, k, W)
  BY <1>1, <1>3, <1>4 DEF KeyOK, OpenOK, Gathering, Exists, Leased
<1> QED
  BY <1>2, <1>3, <1>5, <1>6

LEMMA ExpectedType ==
    ASSUME TypeOK, NEW k \in Keys
    PROVE  Expected(k) \in Nat
<1>1. CASE k \in GroupKeys
  <2>1. size[k] \in {0} \cup GroupSizes
    BY <1>1 DEF TypeOK
  <2>2. \A n \in GroupSizes : n \in Nat
    BY BarrierAssumption
  <2>3. size[k] \in Nat
    BY <2>1, <2>2
  <2> QED
    BY <1>1, <2>3 DEF Expected
<1>2. CASE k \notin GroupKeys
  <2>1. GroupSize[k] \in Nat \ {0}
    BY <1>2, BarrierAssumption
  <2> QED
    BY <1>2, <2>1 DEF Expected
<1> QED
  BY <1>1, <1>2

(* A participant that is not waiting joins the open generation.            *)
LEMMA ArrivalOK ==
    ASSUME TypeOK, Counted(bar), NEW p \in Participants, NEW k \in Keys, NEW W,
           KeyOK(bar, k, W), p \notin W, Admitted(p, k), bar.slot[k].outcome = "None",
           NEW now \in 0 .. MaxTime, Exists(bar, k) \/ now + Timeout[k] <= MaxTime
    PROVE  LET b == Arrival(p, k, now)
           IN  /\ b \in BarRecs /\ Counted(b) /\ SameElsewhere(bar, b, k)
               /\ Gathering(b, k, W \cup {p})
               /\ b.slot[k].outcome = "None" /\ b.slot[k].arrivals = W \cup {p}
<1> DEFINE e == Entered(k)
           old == IF Exists(e, k) THEN e.slot[k]
                  ELSE [NoSlot EXCEPT !.generation = e.next[k], !.expected = Expected(k),
                          !.deadline = IF Timeout[k] = 0 THEN 0 ELSE now + Timeout[k]]
           s == [old EXCEPT !.arrivals = @ \cup {p}]
           j == Joined(e, p, k)
           b == [j EXCEPT !.slot[k] = s]
<1>1. bar \in BarRecs /\ Leased(bar, k) = W
  BY DEF TypeOK, BarRecs, KeyOK
<1>2. bar.next[k] <= MaxGeneration /\ bar.count < MaxParticipants
  <2>1. ~(bar.next[k] > MaxGeneration) /\ ~(bar.count >= MaxParticipants)
    BY <1>1 DEF Admitted, Rejected, Refused
  <2> QED
    BY <1>1, <2>1, Constants DEF BarRecs
<1>3. /\ e \in BarRecs /\ Counted(e) /\ SameElsewhere(bar, e, k) /\ KeyOK(e, k, W)
      /\ e.slot = bar.slot /\ e.lease = bar.lease /\ e.count = bar.count
      /\ e.next[k] # 0 /\ e.next[k] <= MaxGeneration
  BY <1>1, <1>2, EnteredOK
<1> HIDE DEF e
<1>4. e.next[k] \in 1 .. MaxGeneration /\ Leased(e, k) = W
  BY <1>3, Constants DEF BarRecs, KeyOK
<1>5. /\ j \in BarRecs /\ Counted(j) /\ j.slot = e.slot /\ j.next = e.next
      /\ Leased(j, k) = W \cup {p} /\ j.lease[k][p] = e.next[k]
      /\ \A q \in W : j.lease[k][q] = e.lease[k][q]
      /\ SameElsewhere(e, j, k)
  BY <1>2, <1>3, <1>4, JoinedFields
<1>6. /\ old \in Slot /\ old.generation = e.next[k] /\ old.arrivals = W /\ old.retired = {}
      /\ old.outcome = "None"
  <2>1. CASE Exists(e, k)
    BY <1>3, <2>1 DEF BarRecs, KeyOK, OpenOK, Exists
  <2>2. CASE ~Exists(e, k)
    <3>1. Expected(k) \in Nat
      BY ExpectedType
    <3>2. (IF Timeout[k] = 0 THEN 0 ELSE now + Timeout[k]) \in 0 .. MaxTime
      BY <1>3, <2>2, Constants DEF Exists
    <3>3. W = {}
      BY <1>3, <2>2 DEF KeyOK
    <3>4. old = [generation |-> e.next[k], expected |-> Expected(k),
                 deadline |-> IF Timeout[k] = 0 THEN 0 ELSE now + Timeout[k],
                 arrivals |-> {}, retired |-> {}, outcome |-> "None"]
      BY <2>2 DEF NoSlot
    <3> HIDE DEF old
    <3> QED
      BY <1>4, <3>1, <3>2, <3>3, <3>4 DEF Slot
  <2> QED
    BY <2>1, <2>2
<1> HIDE DEF old, j
<1>7. /\ s \in Slot /\ s.generation = e.next[k] /\ s.arrivals = W \cup {p} /\ s.retired = {}
      /\ s.outcome = "None"
  BY <1>6 DEF Slot
<1> HIDE DEF s
<1>8. /\ b \in BarRecs /\ b.slot = [j.slot EXCEPT ![k] = s]
      /\ b.next = j.next /\ b.lease = j.lease /\ b.count = j.count
  BY <1>5, <1>7, SlotReplaced
<1> HIDE DEF b
<1>9. b.slot[k] = s /\ \A i \in Keys \ {k} : b.slot[i] = j.slot[i]
  BY <1>5, <1>8 DEF BarRecs
<1>10. Counted(b) /\ SameElsewhere(bar, b, k)
  BY <1>3, <1>5, <1>8, <1>9 DEF Counted, Leases, SameElsewhere
<1>11. \A q \in W : e.lease[k][q] = e.next[k]
  BY <1>3 DEF KeyOK
<1>12. Gathering(b, k, W \cup {p})
  BY <1>4, <1>5, <1>7, <1>8, <1>9, <1>11 DEF Gathering, Leased
<1>13. b = Arrival(p, k, now)
  BY DEF b, s, old, j, e, Arrival
<1> QED
  BY <1>7, <1>8, <1>9, <1>10, <1>12, <1>13

-----------------------------------------------------------------------------
(* A poll.  Its participant waits on the key, or on none and asks for a    *)
(* deadline within the clock.                                              *)

MayPoll(p, k, now) ==
    /\ p \in Participants /\ k \in Keys /\ now \in 0 .. MaxTime
    /\ \/ future[p].key = k
       \/ future[p] = NoFuture /\ now + Timeout[k] <= MaxTime

(* The coordinator's part of a step of participant p on key k: W are the   *)
(* participants that wait on k afterwards.                                 *)
BarStep(k, W) ==
    /\ bar' \in BarRecs /\ Counted(bar') /\ SameElsewhere(bar, bar', k)
    /\ KeyOK(bar', k, W)
    /\ Final(bar.slot[k], bar'.slot[k])

LEMMA Before ==
    ASSUME BarrierInv, NEW p, NEW k, NEW now, MayPoll(p, k, now)
    PROVE  /\ TypeOK /\ bar \in BarRecs /\ Counted(bar) /\ KeyOK(bar, k, Waits(k))
           /\ p \in Participants /\ k \in Keys /\ now \in 0 .. MaxTime
           /\ bar.slot[k] \in Slot /\ Leased(bar, k) = Waits(k)
           /\ Exists(bar, k) \/ now + Timeout[k] <= MaxTime
BY DEF BarrierInv, MayPoll, TypeOK, BarRecs, KeyOK, Waits

(* While a generation is open, no outcome or tombstone can be lost.        *)
LEMMA OpenIsFinal ==
    ASSUME NEW k \in Keys, NEW W, KeyOK(bar, k, W), bar.slot[k].outcome = "None", NEW t
    PROVE  Final(bar.slot[k], t)
BY DEF KeyOK, OpenOK, Final

LEMMA ElsewhereTransitive ==
    ASSUME NEW a, NEW b, NEW c, NEW k, SameElsewhere(a, b, k), SameElsewhere(b, c, k)
    PROVE  SameElsewhere(a, c, k)
BY DEF SameElsewhere

LEMMA PollFailsBar ==
    ASSUME BarrierInv, NEW p, NEW k, NEW now, MayPoll(p, k, now), PollFails(p, k)
    PROVE  BarStep(k, Waits(k) \ {p})
<1> DEFINE b == IF Rejected(k) THEN bar ELSE Entered(k)
<1> USE Before
<1>1. /\ b \in BarRecs /\ Counted(b) /\ SameElsewhere(bar, b, k) /\ KeyOK(b, k, Waits(k))
      /\ b.slot = bar.slot
  BY EnteredOK DEF SameElsewhere
<1>2. bar' = Cancelled(b, p, k)
  BY DEF PollFails
<1> HIDE DEF b
<1>3. LET d == Cancelled(b, p, k)
      IN  /\ d \in BarRecs /\ Counted(d) /\ SameElsewhere(b, d, k)
          /\ KeyOK(d, k, Waits(k) \ {p})
          /\ Final(b.slot[k], d.slot[k])
  BY <1>1, CancelledOK
<1> QED
  BY <1>1, <1>2, <1>3, ElsewhereTransitive DEF BarStep

LEMMA PollClosedBar ==
    ASSUME BarrierInv, NEW p, NEW k, NEW now, MayPoll(p, k, now), PollClosed(p, k)
    PROVE  BarStep(k, Waits(k) \ {p})
<1> USE Before
<1>1. bar.slot[k].outcome \in {"Released", "TimedOut"}
  BY DEF PollClosed, Slot
<1>2. CASE p \in Waits(k)
  <2>1. bar' = Completed(bar, p, k, bar.slot[k].outcome)
    BY <1>2 DEF PollClosed
  <2>2. LET d == Completed(bar, p, k, bar.slot[k].outcome)
        IN  /\ d \in BarRecs /\ Counted(d) /\ SameElsewhere(bar, d, k)
            /\ KeyOK(d, k, Waits(k) \ {p})
            /\ Final(bar.slot[k], d.slot[k])
    BY <1>1, <1>2, CompletedOK
  <2> QED
    BY <2>1, <2>2 DEF BarStep
<1>3. CASE p \notin Waits(k)
  <2> DEFINE s == [bar.slot[k] EXCEPT !.retired = @ \cup {p}]
             c == [bar EXCEPT !.slot[k] = s]
  <2>1. bar' = c
    BY <1>3 DEF PollClosed
  <2>2. /\ s \in Slot /\ s.generation = bar.slot[k].generation
        /\ s.arrivals = bar.slot[k].arrivals /\ s.outcome = bar.slot[k].outcome
        /\ s.retired = bar.slot[k].retired \cup {p}
    BY DEF Slot
  <2> HIDE DEF s
  <2>3. /\ c \in BarRecs /\ c.slot = [bar.slot EXCEPT ![k] = s]
        /\ c.next = bar.next /\ c.lease = bar.lease /\ c.count = bar.count
    BY <2>2, SlotReplaced
  <2> HIDE DEF c
  <2>4. c.slot[k] = s /\ \A j \in Keys \ {k} : c.slot[j] = bar.slot[j]
    BY <2>3 DEF BarRecs
  <2>5. Counted(c) /\ SameElsewhere(bar, c, k) /\ Waits(k) \ {p} = Waits(k)
    BY <1>3, <2>3, <2>4 DEF Counted, Leases, SameElsewhere
  <2>6. Exists(bar, k)
    BY <1>1 DEF KeyOK, NoSlot
  <2>7. KeyOK(c, k, Waits(k))
    BY <1>1, <1>3, <2>2, <2>3, <2>4, <2>6 DEF KeyOK, OpenOK, Exists, Leased
  <2>8. Final(bar.slot[k], s)
    BY <1>3, <2>2 DEF Final, KeyOK
  <2> QED
    BY <2>1, <2>3, <2>4, <2>5, <2>7, <2>8 DEF BarStep
<1> QED
  BY <1>2, <1>3

(* A generation that gathered the participants in W is closed, and p, one  *)
(* of them, completes.                                                     *)
LEMMA CloseAndComplete ==
    ASSUME bar \in BarRecs, NEW k \in Keys, NEW V, KeyOK(bar, k, V), bar.slot[k].outcome = "None",
           NEW b \in BarRecs, Counted(b), SameElsewhere(bar, b, k), NEW W, Gathering(b, k, W),
           NEW p \in Participants, p \in W, NEW outcome \in {"Released", "TimedOut"},
           bar' = Completed([b EXCEPT !.slot[k].outcome = outcome], p, k, outcome)
    PROVE  BarStep(k, W \ {p})
<1> DEFINE c == [b EXCEPT !.slot[k].outcome = outcome]
<1>1. c \in BarRecs /\ Counted(c) /\ SameElsewhere(b, c, k) /\ KeyOK(c, k, W)
  BY GatheringCloses
<1>2. bar' = Completed(c, p, k, outcome)
  OBVIOUS
<1> HIDE DEF c
<1>3. LET d == Completed(c, p, k, outcome)
      IN  /\ d \in BarRecs /\ Counted(d) /\ SameElsewhere(c, d, k) /\ KeyOK(d, k, W \ {p})
  BY <1>1, CompletedOK
<1> QED
  BY <1>1, <1>2, <1>3, ElsewhereTransitive, OpenIsFinal DEF BarStep

(* An open generation that exists has gathered all who wait on its key.    *)
LEMMA OpenGathers ==
    ASSUME NEW k \in Keys, NEW W, KeyOK(bar, k, W), bar.slot[k].outcome = "None",
           Exists(bar, k)
    PROVE  Gathering(bar, k, W)
BY DEF KeyOK, OpenOK, Gathering, Exists

LEMMA PollExpiresBar ==
    ASSUME BarrierInv, NEW p, NEW k, NEW now, MayPoll(p, k, now), PollExpires(p, k, now)
    PROVE  BarStep(k, Waits(k) \ {p})
<1> USE Before
<1> DEFINE b == IF p \in Leased(bar, k) THEN bar ELSE Joined(bar, p, k)
           W == Waits(k) \cup {p}
<1>1. /\ bar.slot[k].outcome = "None"
      /\ bar' = Completed([b EXCEPT !.slot[k].outcome = "TimedOut"], p, k, "TimedOut")
  BY DEF PollExpires
<1>2. Exists(bar, k)
  BY DEF PollExpires, Expired, KeyOK, NoSlot
<1>3. Gathering(bar, k, Waits(k))
  BY <1>1, <1>2, OpenGathers
<1>4. b \in BarRecs /\ Counted(b) /\ SameElsewhere(bar, b, k) /\ Gathering(b, k, W)
  <2>1. CASE p \in Leased(bar, k)
    <3>1. b = bar /\ W = Waits(k)
      BY <2>1
    <3> QED
      BY <1>3, <3>1 DEF SameElsewhere
  <2>2. CASE p \notin Leased(bar, k)
    <3> DEFINE j == Joined(bar, p, k)
    <3>1. bar.next[k] \in 1 .. MaxGeneration
      BY <1>3, Constants DEF Gathering, Slot
    <3>2. bar.count < MaxParticipants
      <4>1. ~(bar.count >= MaxParticipants)
        BY <2>2 DEF PollExpires, Admitted, Refused
      <4> QED
        BY <4>1, Constants DEF BarRecs
    <3>3. /\ j \in BarRecs /\ Counted(j) /\ j.slot = bar.slot /\ j.next = bar.next
          /\ Leased(j, k) = W /\ j.lease[k][p] = bar.next[k]
          /\ \A q \in Waits(k) : j.lease[k][q] = bar.lease[k][q]
          /\ SameElsewhere(bar, j, k)
      BY <2>2, <3>1, <3>2, JoinedFields
    <3>4. b = j
      BY <2>2
    <3> HIDE DEF j, b
    <3>5. Gathering(j, k, W)
      BY <1>3, <3>3 DEF Gathering
    <3> QED
      BY <3>3, <3>4, <3>5
  <2> QED
    BY <2>1, <2>2
<1>5. W \ {p} = Waits(k) \ {p} /\ p \in W
  OBVIOUS
<1> HIDE DEF b, W
<1> QED
  BY <1>1, <1>4, <1>5, CloseAndComplete

LEMMA PollReleasesBar ==
    ASSUME BarrierInv, NEW p, NEW k, NEW now, MayPoll(p, k, now), PollReleases(p, k, now)
    PROVE  BarStep(k, Waits(k) \ {p})
<1> USE Before
<1> DEFINE b == Arrival(p, k, now)
           W == Waits(k) \cup {p}
<1>1. /\ bar.slot[k].outcome = "None" /\ Admitted(p, k) /\ p \notin Waits(k)
      /\ bar' = Completed([b EXCEPT !.slot[k].outcome = "Released"], p, k, "Released")
  BY DEF PollReleases, IsOpen
<1>2. b \in BarRecs /\ Counted(b) /\ SameElsewhere(bar, b, k) /\ Gathering(b, k, W)
  BY <1>1, ArrivalOK
<1>3. W \ {p} = Waits(k) \ {p} /\ p \in W
  OBVIOUS
<1> HIDE DEF b, W
<1> QED
  BY <1>1, <1>2, <1>3, CloseAndComplete

(* A pending poll: the participant is among those the generation gathers.  *)
LEMMA WaitingOK ==
    ASSUME BarrierInv, NEW p, NEW k, NEW now, MayPoll(p, k, now), IsPending(p, k, now)
    PROVE  LET b == Waiting(p, k, now)
           IN  /\ b \in BarRecs /\ Counted(b) /\ SameElsewhere(bar, b, k)
               /\ KeyOK(b, k, Waits(k) \cup {p})
               /\ bar.slot[k].outcome = "None"
<1> USE Before
<1> DEFINE W == Waits(k) \cup {p}
<1>0. bar.slot[k].outcome = "None" /\ Admitted(p, k)
  BY DEF IsPending, IsOpen
<1>1. CASE p \in Waits(k)
  <2>1. Waiting(p, k, now) = bar /\ W = Waits(k)
    BY <1>1 DEF Waiting
  <2> QED
    BY <1>0, <2>1 DEF SameElsewhere
<1>2. CASE p \notin Waits(k)
  <2> DEFINE b == Arrival(p, k, now)
  <2>1. Waiting(p, k, now) = b /\ ~GroupIsComplete(b.slot[k])
    BY <1>2 DEF Waiting, IsPending
  <2>2. /\ b \in BarRecs /\ Counted(b) /\ SameElsewhere(bar, b, k) /\ Gathering(b, k, W)
        /\ b.slot[k].outcome = "None" /\ b.slot[k].arrivals = W
    BY <1>0, <1>2, ArrivalOK
  <2> HIDE DEF b
  <2>3. Cardinality(W) \in Nat /\ b.slot[k].expected \in Nat
    BY <2>2, LeasedIsFinite DEF Gathering, BarRecs, Slot
  <2>4. Cardinality(b.slot[k].arrivals) < b.slot[k].expected
    BY <2>1, <2>2, <2>3 DEF GroupIsComplete
  <2>5. KeyOK(b, k, W)
    BY <2>2, <2>4 DEF KeyOK, OpenOK, Gathering, Exists
  <2> QED
    BY <1>0, <2>1, <2>2, <2>5
<1> QED
  BY <1>1, <1>2

LEMMA OwnTimeoutBar ==
    ASSUME BarrierInv, NEW p, NEW k, NEW now, MayPoll(p, k, now), OwnTimeout(p, k, now)
    PROVE  BarStep(k, Waits(k) \ {p})
<1> USE Before
<1> DEFINE b == Waiting(p, k, now)
           W == Waits(k) \cup {p}
<1>1. bar' = Completed(b, p, k, "TimedOut") /\ IsPending(p, k, now)
  BY DEF OwnTimeout
<1>2. /\ b \in BarRecs /\ Counted(b) /\ SameElsewhere(bar, b, k) /\ KeyOK(b, k, W)
      /\ bar.slot[k].outcome = "None"
  BY <1>1, WaitingOK
<1>3. W \ {p} = Waits(k) \ {p} /\ p \in W
  OBVIOUS
<1> HIDE DEF b, W
<1>4. LET d == Completed(b, p, k, "TimedOut")
      IN  /\ d \in BarRecs /\ Counted(d) /\ SameElsewhere(b, d, k) /\ KeyOK(d, k, W \ {p})
  BY <1>2, <1>3, CompletedOK
<1> QED
  BY <1>1, <1>2, <1>3, <1>4, ElsewhereTransitive, OpenIsFinal DEF BarStep

LEMMA RegistrationRefusedBar ==
    ASSUME BarrierInv, NEW p, NEW k, NEW now, MayPoll(p, k, now), RegistrationRefused(p, k, now)
    PROVE  BarStep(k, Waits(k) \ {p})
<1> USE Before
<1> DEFINE b == Waiting(p, k, now)
           W == Waits(k) \cup {p}
<1>1. bar' = Cancelled(b, p, k) /\ IsPending(p, k, now)
  BY DEF RegistrationRefused
<1>2. /\ b \in BarRecs /\ Counted(b) /\ SameElsewhere(bar, b, k) /\ KeyOK(b, k, W)
      /\ bar.slot[k].outcome = "None"
  BY <1>1, WaitingOK
<1>3. W \ {p} = Waits(k) \ {p}
  OBVIOUS
<1> HIDE DEF b, W
<1>4. LET d == Cancelled(b, p, k)
      IN  /\ d \in BarRecs /\ Counted(d) /\ SameElsewhere(b, d, k) /\ KeyOK(d, k, W \ {p})
  BY <1>2, CancelledOK
<1> QED
  BY <1>1, <1>2, <1>3, <1>4, ElsewhereTransitive, OpenIsFinal DEF BarStep

LEMMA PollPendsBar ==
    ASSUME BarrierInv, NEW p, NEW k, NEW now, MayPoll(p, k, now), PollPends(p, k, now)
    PROVE  BarStep(k, Waits(k) \cup {p})
<1> USE Before
<1>1. bar' = Waiting(p, k, now) /\ IsPending(p, k, now)
  BY DEF PollPends
<1> QED
  BY <1>1, WaitingOK, OpenIsFinal DEF BarStep

-----------------------------------------------------------------------------
(* The steps.                                                              *)

(* The action of OutcomeIsFinal.                                           *)
FinalStep == \A k \in Keys : Final(bar.slot[k], bar'.slot[k])

(* The variables that the properties do not depend on keep their types.    *)
RestOK ==
    /\ size \in [GroupKeys -> {0} \cup GroupSizes] /\ waitGen \in {0, 1}
    /\ clock \in 0 .. MaxTime
    /\ woken \in [Participants -> BOOLEAN] /\ fired \in [Participants -> BOOLEAN]

(* The future of p ends, or it goes on waiting on k.                       *)
LEMMA FutureStep ==
    ASSUME BarrierInv, NEW p, NEW k, NEW now, MayPoll(p, k, now), RestOK',
           NEW f \in {NoFuture, [key |-> k, now |-> now]},
           future' = [future EXCEPT ![p] = f],
           BarStep(k, IF f = NoFuture THEN Waits(k) \ {p} ELSE Waits(k) \cup {p})
    PROVE  BarrierInv' /\ FinalStep
<1> USE Before, Constants
<1>0. p \in Participants /\ k \in Keys /\ f.key \in {NoKey, k} /\ NoKey # k
  BY DEF NoFuture
<1>1. future' \in [Participants -> [key : Keys \cup {NoKey}, now : 0 .. MaxTime]]
  BY DEF TypeOK, NoFuture
<1>2. TypeOK'
  BY <1>1 DEF RestOK, TypeOK, BarStep, BarRecs
<1>3. Waits(k)' = IF f = NoFuture THEN Waits(k) \ {p} ELSE Waits(k) \cup {p}
  <2>1. \A q \in Participants \ {p} : future'[q] = future[q]
    BY DEF TypeOK
  <2>2. future'[p] = f /\ (f = NoFuture <=> f.key # k)
    BY DEF TypeOK, NoFuture
  <2> QED
    BY <2>1, <2>2 DEF Waits
<1>4. ASSUME NEW j \in Keys, j # k
      PROVE  KeyOK(bar', j, Waits(j)') /\ Final(bar.slot[j], bar'.slot[j])
  <2>1. Waits(j)' = Waits(j)
    <3>1. future[p].key # j /\ f.key # j
      BY <1>4 DEF MayPoll, NoFuture
    <3> QED
      BY <3>1 DEF Waits, TypeOK
  <2>2. KeyOK(bar, j, Waits(j))
    BY DEF BarrierInv
  <2>3. bar'.slot[j] = bar.slot[j] /\ bar'.next[j] = bar.next[j] /\ bar'.lease[j] = bar.lease[j]
    BY <1>4 DEF BarStep, SameElsewhere
  <2>4. KeyOK(bar', j, Waits(j))
    BY <2>2, <2>3 DEF KeyOK, Leased, Exists
  <2> QED
    BY <2>1, <2>2, <2>3, <2>4 DEF KeyOK, Final
<1>5. \A q \in Participants : future'[q].key = NoKey => future'[q] = NoFuture
  BY DEF BarrierInv, TypeOK, NoFuture
<1>6. KeyOK(bar', k, Waits(k)') /\ Counted(bar') /\ Final(bar.slot[k], bar'.slot[k])
  BY <1>3 DEF BarStep
<1>7. \A j \in Keys : KeyOK(bar', j, Waits(j)') /\ Final(bar.slot[j], bar'.slot[j])
  BY <1>4, <1>6
<1> QED
  BY <1>2, <1>5, <1>6, <1>7 DEF BarrierInv, FinalStep

LEMMA BumpType ==
    ASSUME TypeOK, Bump \/ UNCHANGED waitGen
    PROVE  waitGen' \in {0, 1}
BY DEF TypeOK, Bump

LEMMA ReadyType ==
    ASSUME TypeOK, NEW p \in Participants, NEW others, Ready(p, others)
    PROVE  woken' \in [Participants -> BOOLEAN] /\ fired' \in [Participants -> BOOLEAN]
<1>1. Registered(p) \in BOOLEAN
  BY DEF Registered
<1> QED
  BY <1>1 DEF TypeOK, Ready

LEMMA PollStep ==
    ASSUME BarrierInv, NEW p, NEW k, NEW now, MayPoll(p, k, now), poll(p, k, now)
    PROVE  BarrierInv' /\ FinalStep
<1> USE Before
<1>1. CASE PollPends(p, k, now)
  <2>1. /\ future' = [future EXCEPT ![p] = [key |-> k, now |-> now]]
        /\ [key |-> k, now |-> now] # NoFuture
    BY <1>1, Constants DEF PollPends, NoFuture
  <2>2. waitGen' \in {0, 1}
    BY <1>1, BumpType DEF PollPends
  <2>3. RestOK'
    BY <1>1, <2>2 DEF PollPends, RestOK, TypeOK, poll
  <2>4. BarStep(k, Waits(k) \cup {p})
    BY <1>1, PollPendsBar
  <2> QED
    BY <2>1, <2>3, <2>4, FutureStep
<1>2. CASE ~PollPends(p, k, now)
  <2>1. PICK others : Ready(p, others)
    BY <1>2 DEF poll, PollFails, PollClosed, PollExpires, PollReleases, OwnTimeout,
                RegistrationRefused
  <2>2. waitGen' \in {0, 1}
    BY <1>2, BumpType DEF poll, PollFails, PollClosed, PollExpires, PollReleases, OwnTimeout,
                          RegistrationRefused
  <2>3. RestOK'
    BY <2>1, <2>2, ReadyType DEF RestOK, TypeOK, poll
  <2>4. BarStep(k, Waits(k) \ {p})
    BY <1>2, PollFailsBar, PollClosedBar, PollExpiresBar, PollReleasesBar, OwnTimeoutBar,
       RegistrationRefusedBar DEF poll
  <2>5. future' = [future EXCEPT ![p] = NoFuture]
    BY <2>1 DEF Ready
  <2> QED
    BY <2>3, <2>4, <2>5, FutureStep
<1> QED
  BY <1>1, <1>2

LEMMA InterruptStep ==
    ASSUME BarrierInv, NEW p \in Participants, Interrupt(p)
    PROVE  BarrierInv' /\ FinalStep
<1> DEFINE k == future[p].key
           now == future[p].now
<1>1. MayPoll(p, k, now)
  BY DEF Interrupt, BarrierInv, TypeOK, MayPoll
<1>2. LET d == Cancelled(bar, p, k)
      IN  /\ d \in BarRecs /\ Counted(d) /\ SameElsewhere(bar, d, k)
          /\ KeyOK(d, k, Waits(k) \ {p})
          /\ Final(bar.slot[k], d.slot[k])
  <2> HIDE DEF k, now
  <2> QED
    BY <1>1, Before, CancelledOK
<1>3. BarStep(k, Waits(k) \ {p})
  BY <1>2 DEF Interrupt, BarStep
<1>4. TypeOK
  BY DEF BarrierInv
<1>5. waitGen' \in {0, 1}
  BY <1>4, BumpType DEF Interrupt
<1>6. woken' \in [Participants -> BOOLEAN]
  BY DEF Interrupt
<1>7. fired' \in [Participants -> BOOLEAN]
  <2>1. Registered(p) \in BOOLEAN
    BY DEF Registered
  <2> QED
    BY <1>4, <2>1 DEF Interrupt, TypeOK
<1>8. RestOK'
  BY <1>4, <1>5, <1>6, <1>7 DEF RestOK, Interrupt, TypeOK
<1>9. future' = [future EXCEPT ![p] = NoFuture]
  BY DEF Interrupt
<1> HIDE DEF k, now
<1> QED
  BY <1>1, <1>3, <1>8, <1>9, FutureStep

(* Nothing happens to the coordinator or the futures.                      *)
LEMMA QuietStep ==
    ASSUME BarrierInv, UNCHANGED <<bar, future>>, RestOK'
    PROVE  BarrierInv' /\ FinalStep
<1>1. \A k \in Keys : Waits(k)' = Waits(k)
  BY DEF Waits
<1>2. TypeOK'
  BY DEF BarrierInv, TypeOK, RestOK
<1>3. \A k \in Keys : KeyOK(bar', k, Waits(k)') /\ Final(bar.slot[k], bar'.slot[k])
  BY <1>1 DEF BarrierInv, KeyOK, Final
<1> QED
  BY <1>2, <1>3 DEF BarrierInv, FinalStep

LEMMA InitBarrier == Init => BarrierInv
<1> SUFFICES ASSUME Init PROVE BarrierInv
  OBVIOUS
<1> USE Constants, NoSlotType DEF Init
<1>1. TypeOK
  BY DEF TypeOK, NoFuture
<1>2. Leases(bar) = {}
  BY DEF Leases
<1>3. Counted(bar)
  BY <1>2, FS_EmptySet DEF Counted
<1>4. ASSUME NEW k \in Keys
      PROVE  KeyOK(bar, k, Waits(k))
  <2>1. Waits(k) = {} /\ Leased(bar, k) = {} /\ bar.slot[k] = NoSlot
    BY DEF Waits, NoFuture, Leased
  <2> QED
    BY <2>1 DEF KeyOK, OpenOK, Exists, NoSlot
<1> QED
  BY <1>1, <1>3, <1>4 DEF BarrierInv

LEMMA NextBarrier == BarrierInv /\ [Next]_vars => BarrierInv' /\ FinalStep
<1> SUFFICES ASSUME BarrierInv, [Next]_vars PROVE BarrierInv' /\ FinalStep
  OBVIOUS
<1>0. TypeOK /\ RestOK
  BY DEF BarrierInv, TypeOK, RestOK
<1>1. ASSUME NEW p \in Participants, NEW k \in Keys, delay(p, k)
      PROVE  BarrierInv' /\ FinalStep
  <2>1. MayPoll(p, k, clock)
    BY <1>0, <1>1 DEF delay, MayPoll, TypeOK
  <2> QED
    BY <1>1, <2>1, PollStep DEF delay
<1>2. ASSUME NEW p \in Participants, PollAgain(p)
      PROVE  BarrierInv' /\ FinalStep
  <2>1. MayPoll(p, future[p].key, future[p].now)
    BY <1>0, <1>2 DEF PollAgain, MayPoll, TypeOK, BarrierInv
  <2> QED
    BY <1>2, <2>1, PollStep DEF PollAgain
<1>3. ASSUME NEW p \in Participants, Interrupt(p)
      PROVE  BarrierInv' /\ FinalStep
  BY <1>3, InterruptStep
<1>4. ASSUME NEW p \in Participants, TimeoutWake(p)
      PROVE  BarrierInv' /\ FinalStep
  BY <1>0, <1>4, QuietStep DEF TimeoutWake, RestOK
<1>5. CASE Tick
  BY <1>0, <1>5, QuietStep, Constants DEF Tick, RestOK
<1>6. ASSUME NEW k \in GroupKeys,
             (\E n \in GroupSizes : register_thread_group(k, n)) \/ unregister_thread_group(k)
      PROVE  BarrierInv' /\ FinalStep
  BY <1>0, <1>6, QuietStep DEF register_thread_group, unregister_thread_group, RestOK
<1>7. CASE UNCHANGED vars
  BY <1>0, <1>7, QuietStep DEF vars, RestOK
<1> QED
  BY <1>1, <1>2, <1>3, <1>4, <1>5, <1>6, <1>7 DEF Next

(* The barrier's inductive invariant: on every key the leases are the      *)
(* pending futures, the slot lives as long as somebody waits, and an open  *)
(* generation has all of them as arrivals.                                 *)
THEOREM BarrierInvariant == Spec => []BarrierInv
BY InitBarrier, NextBarrier, PTL DEF Spec

(* poll_arrival, complete and cancel: leases, slots, futures and the count *)
(* agree, and nobody passes an open generation early.                      *)
THEOREM ReservationsAreAccounted == Spec => []ReservationsAccounted
<1>1. BarrierInv => ReservationsAccounted
  <2> SUFFICES ASSUME BarrierInv PROVE ReservationsAccounted
    OBVIOUS
  <2>1. TypeOK /\ bar.count = Cardinality(Leases(bar))
    BY DEF BarrierInv, Counted
  <2>2. ASSUME NEW k \in Keys
        PROVE  /\ Leased(bar, k) = Waits(k)
               /\ Exists(bar, k) = (Leased(bar, k) # {})
               /\ bar.slot[k].arrivals \subseteq Leased(bar, k)
               /\ \A p \in Leased(bar, k) : bar.lease[k][p] = bar.slot[k].generation
               /\ Exists(bar, k) /\ bar.slot[k].outcome = "None" =>
                     /\ bar.slot[k].arrivals = Leased(bar, k)
                     /\ Cardinality(bar.slot[k].arrivals) < bar.slot[k].expected
                     /\ bar.slot[k].retired = {}
    BY DEF BarrierInv, KeyOK, OpenOK, Exists
  <2> QED
    BY <2>1, <2>2 DEF ReservationsAccounted, Leases, Waits
<1> QED
  BY <1>1, BarrierInvariant, PTL

(* complete, cancel and poll_arrival: a generation's outcome, once         *)
(* decided, and its tombstones stay as they are while it lasts.            *)
THEOREM OutcomesAreFinal == Spec => OutcomeIsFinal
<1>1. BarrierInv /\ [Next]_vars =>
        [\A k \in Keys : SameGeneration(k) =>
            /\ bar.slot[k].outcome # "None" => bar'.slot[k].outcome = bar.slot[k].outcome
            /\ \A p \in bar.slot[k].retired :
                  p \in bar'.slot[k].retired /\ p \notin bar'.slot[k].arrivals]_vars
  BY NextBarrier DEF FinalStep, Final, SameGeneration, Exists
<1> QED
  BY <1>1, BarrierInvariant, PTL DEF Spec, OutcomeIsFinal

=============================================================================

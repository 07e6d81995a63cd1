----------------------- MODULE CriticalSectionProofs -----------------------
(***************************************************************************)
(* Proofs about the named-lock coordinator, for every set of users, every  *)
(* number of names and every bound.  The users may be infinitely many: only*)
(* finitely many ever wait at once, which is part of the invariant.        *)
(***************************************************************************)
EXTENDS CriticalSection, FiniteSetTheorems, TLAPS

(* The users with a suspended acquisition.                                 *)
Suspended == {u \in Users : awaits[u] # NoName}

(* A queue names nobody twice; u is in the queue q.                        *)
Distinct(q) == \A i, j \in DOMAIN q : q[i] = q[j] => i = j
In(u, q)    == \E i \in DOMAIN q : q[i] = u

(* A user is in the queue of the name it waits for and in no other.        *)
QueueOf(n) ==
    /\ Distinct(waiters[n])
    /\ \A u \in Users : In(u, waiters[n]) <=> awaits[u] = n

CriticalInv ==
    /\ TypeOK
    /\ \A n \in Names : QueueOf(n)
    /\ IsFiniteSet(Suspended) /\ waiterCount = Cardinality(Suspended)
    /\ waiterCount <= MaxWaiters
    /\ Cardinality(Held) <= MaxHeld

-----------------------------------------------------------------------------
(* What the queue operations do.                                           *)

LEMMA AppendQueue ==
    ASSUME NEW q \in Seq(Users), NEW u \in Users, Distinct(q), ~In(u, q)
    PROVE  /\ Distinct(Append(q, u))
           /\ \A w : In(w, Append(q, u)) <=> In(w, q) \/ w = u
<1>1. /\ DOMAIN q = 1 .. Len(q) /\ Len(q) \in Nat
      /\ DOMAIN Append(q, u) = 1 .. Len(q) + 1
      /\ \A i \in 1 .. Len(q) : Append(q, u)[i] = q[i]
      /\ Append(q, u)[Len(q) + 1] = u
  OBVIOUS
<1>2. \A i \in 1 .. Len(q) + 1 : i \in 1 .. Len(q) \/ i = Len(q) + 1
  BY <1>1
<1>3. Distinct(Append(q, u))
  BY <1>1, <1>2 DEF Distinct, In
<1>4. \A w : In(w, Append(q, u)) => In(w, q) \/ w = u
  BY <1>1, <1>2 DEF In
<1>5. \A w : In(w, q) \/ w = u => In(w, Append(q, u))
  BY <1>1 DEF In
<1> QED
  BY <1>3, <1>4, <1>5

(* Admission takes the head and keeps the rest in order.                   *)
LEMMA TailQueue ==
    ASSUME NEW q \in Seq(Users), q # <<>>, Distinct(q)
    PROVE  /\ Tail(q) \in Seq(Users)
           /\ Distinct(Tail(q))
           /\ \A w : In(w, Tail(q)) <=> In(w, q) /\ w # Head(q)
<1>1. /\ DOMAIN q = 1 .. Len(q) /\ Len(q) \in Nat /\ Len(q) >= 1
      /\ Head(q) = q[1]
      /\ Tail(q) \in Seq(Users)
      /\ DOMAIN Tail(q) = 1 .. Len(q) - 1
      /\ \A j \in 1 .. Len(q) - 1 : Tail(q)[j] = q[j + 1]
  OBVIOUS
<1>2. \A j \in 1 .. Len(q) - 1 : j + 1 \in 1 .. Len(q) /\ j + 1 # 1
  BY <1>1
<1>3. \A j \in 1 .. Len(q) : j # 1 => j - 1 \in 1 .. Len(q) - 1 /\ Tail(q)[j - 1] = q[j]
  BY <1>1
<1>4. Distinct(Tail(q))
  <2> SUFFICES ASSUME NEW i \in DOMAIN Tail(q), NEW j \in DOMAIN Tail(q),
                      Tail(q)[i] = Tail(q)[j]
               PROVE  i = j
    BY DEF Distinct
  <2>1. i + 1 = j + 1
    BY <1>1, <1>2 DEF Distinct
  <2> QED
    BY <1>1, <2>1
<1>5. \A w : In(w, Tail(q)) => In(w, q) /\ w # Head(q)
  BY <1>1, <1>2 DEF In, Distinct
<1>6. \A w : In(w, q) /\ w # Head(q) => In(w, Tail(q))
  BY <1>1, <1>3 DEF In
<1> QED
  BY <1>1, <1>4, <1>5, <1>6

(* Cancellation removes one entry and keeps the rest in order.             *)
LEMMA WithoutQueue ==
    ASSUME NEW q \in Seq(Users), NEW k \in DOMAIN q, Distinct(q)
    PROVE  /\ Without(q, k) \in Seq(Users)
           /\ Distinct(Without(q, k))
           /\ \A w : In(w, Without(q, k)) <=> In(w, q) /\ w # q[k]
<1> DEFINE r == Without(q, k)
           at(j) == IF j < k THEN j ELSE j + 1
           from(j) == IF j < k THEN j ELSE j - 1
<1>1. /\ DOMAIN q = 1 .. Len(q) /\ Len(q) \in Nat /\ k \in 1 .. Len(q)
      /\ \A j \in 1 .. Len(q) : q[j] \in Users
  OBVIOUS
<1>2. \A j \in 1 .. Len(q) - 1 : at(j) \in 1 .. Len(q) /\ at(j) # k
  BY <1>1
<1>3. \A i, j \in 1 .. Len(q) - 1 : at(i) = at(j) => i = j
  BY <1>1
<1>4. /\ r = [j \in 1 .. Len(q) - 1 |-> q[at(j)]]
      /\ DOMAIN r = 1 .. Len(q) - 1
  BY DEF Without
<1>5. \A j \in 1 .. Len(q) : j # k => from(j) \in 1 .. Len(q) - 1 /\ at(from(j)) = j
  BY <1>1
<1> HIDE DEF r, at, from
<1>6. r \in Seq(Users)
  <2>1. Len(q) - 1 \in Nat
    BY <1>1
  <2>2. r \in [1 .. Len(q) - 1 -> Users]
    BY <1>1, <1>2, <1>4
  <2> QED
    BY <2>1, <2>2
<1>7. Distinct(r)
  BY <1>1, <1>2, <1>3, <1>4 DEF Distinct
<1>8. \A w : In(w, r) => In(w, q) /\ w # q[k]
  BY <1>1, <1>2, <1>4 DEF In, Distinct
<1>9. \A w : In(w, q) /\ w # q[k] => In(w, r)
  BY <1>1, <1>4, <1>5 DEF In
<1> QED
  BY <1>6, <1>7, <1>8, <1>9 DEF r

-----------------------------------------------------------------------------
(* Every action keeps the invariant.                                       *)

LEMMA HeldFinite ==
    ASSUME NEW S \in SUBSET Names
    PROVE  IsFiniteSet(S) /\ Cardinality(S) \in Nat /\ Cardinality(S) <= NNames
<1>1. IsFiniteSet(Names) /\ Cardinality(Names) = NNames
  BY FS_Interval, CriticalAssumption DEF Names
<1> QED
  BY <1>1, FS_Subset, FS_CardinalityType

(* A user that holds a name leaves room for one less.                      *)
LEMMA TakeCount ==
    ASSUME TypeOK, HasRoom, NEW u \in Users, NEW n \in Names,
           owner' = [owner EXCEPT ![n] = u]
    PROVE  Cardinality(Held') <= MaxHeld
<1>1. Held' \subseteq Held \cup {n} /\ Held \in SUBSET Names /\ Held' \in SUBSET Names
  BY DEF Held, TypeOK
<1>2. IsFiniteSet(Held) /\ Cardinality(Held) \in Nat /\ Cardinality(Held') \in Nat
  BY <1>1, HeldFinite
<1>3. /\ IsFiniteSet(Held \cup {n})
      /\ \/ Cardinality(Held \cup {n}) = Cardinality(Held)
         \/ Cardinality(Held \cup {n}) = Cardinality(Held) + 1
  BY <1>2, FS_AddElement
<1>4. Cardinality(Held') <= Cardinality(Held \cup {n})
  BY <1>1, <1>3, FS_Subset
<1>5. Cardinality(Held \cup {n}) \in Nat
  BY <1>3, FS_CardinalityType
<1> QED
  BY <1>2, <1>3, <1>4, <1>5, CriticalAssumption DEF HasRoom

LEMMA WakeType ==
    ASSUME NEW users, Wake(users)
    PROVE  woken' \in [Users -> BOOLEAN]
BY DEF Wake

(* A step that leaves the queues and the suspended users alone.            *)
LEMMA QueuesKept ==
    ASSUME CriticalInv, TypeOK', UNCHANGED <<waiters, waiterCount, awaits>>,
           Cardinality(Held') <= MaxHeld
    PROVE  CriticalInv'
<1>1. Suspended' = Suspended
  BY DEF Suspended
<1>2. \A n \in Names : QueueOf(n)'
  BY DEF CriticalInv, QueueOf, Distinct, In
<1> QED
  BY <1>1, <1>2 DEF CriticalInv

LEMMA TryAcquireStep ==
    ASSUME CriticalInv, NEW u \in Users, NEW n \in Names, try_acquire(u, n)
    PROVE  CriticalInv'
<1>1. TypeOK'
  BY DEF try_acquire, CriticalInv, TypeOK
<1>2. Cardinality(Held') <= MaxHeld
  BY TakeCount DEF try_acquire, CriticalInv
<1> QED
  BY <1>1, <1>2, QueuesKept DEF try_acquire

LEMMA EnqueueStep ==
    ASSUME CriticalInv, NEW u \in Users, NEW n \in Names, Enqueue(u, n)
    PROVE  CriticalInv'
<1>1. /\ TypeOK /\ awaits[u] = NoName /\ NoName \notin Names
      /\ waiters[n] \in Seq(Users) /\ awaits' = [awaits EXCEPT ![u] = n]
      /\ waiters' = [waiters EXCEPT ![n] = Append(waiters[n], u)]
      /\ waiterCount' = waiterCount + 1 /\ waiterCount < MaxWaiters
  BY DEF Enqueue, MayAsk, CriticalInv, TypeOK, NoName, Names
<1>2. TypeOK'
  BY <1>1 DEF TypeOK, Enqueue, Bump
<1>3. \A m \in Names : QueueOf(m)
  BY DEF CriticalInv
<1>4. /\ Distinct(Append(waiters[n], u))
      /\ \A w : In(w, Append(waiters[n], u)) <=> In(w, waiters[n]) \/ w = u
  BY <1>1, <1>3, AppendQueue DEF QueueOf
<1>5. QueueOf(n)'
  <2>1. waiters'[n] = Append(waiters[n], u)
    BY <1>1 DEF TypeOK
  <2>2. \A w \in Users : awaits'[w] = n <=> awaits[w] = n \/ w = u
    BY <1>1 DEF TypeOK
  <2>3. \A w \in Users : In(w, waiters[n]) <=> awaits[w] = n
    BY <1>3 DEF QueueOf
  <2> QED
    BY <1>4, <2>1, <2>2, <2>3 DEF QueueOf
<1>6. ASSUME NEW m \in Names \ {n}
      PROVE  QueueOf(m)'
  <2>1. waiters'[m] = waiters[m] /\ \A w \in Users : awaits'[w] = m <=> awaits[w] = m
    BY <1>1 DEF TypeOK
  <2>2. Distinct(waiters[m]) /\ \A w \in Users : In(w, waiters[m]) <=> awaits[w] = m
    BY <1>3 DEF QueueOf
  <2> QED
    BY <2>1, <2>2 DEF QueueOf
<1>7. Suspended' = Suspended \cup {u} /\ u \notin Suspended
  BY <1>1 DEF Suspended, TypeOK
<1>8. IsFiniteSet(Suspended') /\ waiterCount' = Cardinality(Suspended')
  BY <1>1, <1>7, FS_AddElement DEF CriticalInv
<1>9. waiterCount' <= MaxWaiters
  BY <1>1, CriticalAssumption DEF TypeOK
<1>10. Held' = Held
  BY DEF Enqueue, Held
<1> QED
  BY <1>2, <1>5, <1>6, <1>8, <1>9, <1>10 DEF CriticalInv

(* A user leaves the queue of n, admitted or cancelled, and its queue is   *)
(* what it was without it.                                                 *)
LEMMA LeaveStep ==
    ASSUME CriticalInv, TypeOK', NEW u \in Users, NEW n \in Names, NEW q \in Seq(Users),
           awaits[u] = n,
           waiters' = [waiters EXCEPT ![n] = q],
           awaits' = [awaits EXCEPT ![u] = NoName],
           waiterCount' = waiterCount - 1,
           Distinct(q), \A w : In(w, q) <=> In(w, waiters[n]) /\ w # u,
           Cardinality(Held') <= MaxHeld
    PROVE  CriticalInv'
<1>1. TypeOK /\ NoName \notin Names /\ \A m \in Names : QueueOf(m)
  BY DEF CriticalInv, NoName, Names
<1>2. QueueOf(n)'
  <2>1. waiters'[n] = q /\ \A w \in Users : awaits'[w] = n <=> awaits[w] = n /\ w # u
    BY <1>1 DEF TypeOK
  <2>2. \A w \in Users : In(w, waiters[n]) <=> awaits[w] = n
    BY <1>1 DEF QueueOf
  <2> QED
    BY <2>1, <2>2 DEF QueueOf
<1>3. ASSUME NEW m \in Names \ {n}
      PROVE  QueueOf(m)'
  <2>1. waiters'[m] = waiters[m] /\ \A w \in Users : awaits'[w] = m <=> awaits[w] = m
    BY <1>1 DEF TypeOK
  <2>2. Distinct(waiters[m]) /\ \A w \in Users : In(w, waiters[m]) <=> awaits[w] = m
    BY <1>1 DEF QueueOf
  <2> QED
    BY <2>1, <2>2 DEF QueueOf
<1>4. Suspended' = Suspended \ {u} /\ u \in Suspended
  BY <1>1 DEF Suspended, TypeOK
<1>5. IsFiniteSet(Suspended') /\ waiterCount' = Cardinality(Suspended')
  BY <1>4, FS_RemoveElement DEF CriticalInv
<1>6. waiterCount' <= MaxWaiters
  BY <1>1, CriticalAssumption DEF CriticalInv, TypeOK
<1> QED
  BY <1>2, <1>3, <1>5, <1>6 DEF CriticalInv

(* The counter is not zero while someone waits.                            *)
LEMMA CountPositive ==
    ASSUME CriticalInv, NEW u \in Users, NEW n \in Names, awaits[u] = n
    PROVE  waiterCount - 1 \in Nat
<1>1. Suspended # {} /\ IsFiniteSet(Suspended) /\ waiterCount = Cardinality(Suspended)
  BY DEF Suspended, CriticalInv, NoName, Names
<1>2. waiterCount # 0
  BY <1>1, FS_EmptySet
<1> QED
  BY <1>2 DEF CriticalInv, TypeOK

LEMMA AdmitStep ==
    ASSUME CriticalInv, NEW u \in Users, NEW n \in Names, Admit(u, n)
    PROVE  CriticalInv'
<1> DEFINE q == Tail(waiters[n])
<1>1. /\ TypeOK /\ waiters[n] \in Seq(Users) /\ waiters[n] # <<>> /\ Head(waiters[n]) = u
      /\ awaits[u] = n /\ HasRoom /\ owner' = [owner EXCEPT ![n] = u]
  BY DEF Admit, IsHead, CriticalInv, TypeOK
<1>2. /\ q \in Seq(Users) /\ Distinct(q)
      /\ \A w : In(w, q) <=> In(w, waiters[n]) /\ w # u
  BY <1>1, TailQueue DEF CriticalInv, QueueOf
<1>3. TypeOK'
  <2>1. waiterCount - 1 \in Nat
    BY <1>1, CountPositive
  <2> QED
    BY <1>1, <1>2, <2>1 DEF Admit, TypeOK, Bump
<1>4. Cardinality(Held') <= MaxHeld
  BY <1>1, TakeCount
<1> HIDE DEF q
<1> QED
  BY <1>1, <1>2, <1>3, <1>4, LeaveStep DEF Admit, q

LEMMA CancelStep ==
    ASSUME CriticalInv, NEW u \in Users, NEW n \in Names, cancel_acquire(u, n)
    PROVE  CriticalInv'
<1>1. PICK k \in DOMAIN waiters[n] :
        /\ waiters[n][k] = u /\ waiters' = [waiters EXCEPT ![n] = Without(waiters[n], k)]
        /\ \E users : Wake(users)
  BY DEF cancel_acquire
<1>2. TypeOK /\ waiters[n] \in Seq(Users) /\ awaits[u] = n
  BY DEF cancel_acquire, CriticalInv, TypeOK
<1>3. /\ Without(waiters[n], k) \in Seq(Users) /\ Distinct(Without(waiters[n], k))
      /\ \A w : In(w, Without(waiters[n], k)) <=> In(w, waiters[n]) /\ w # u
  BY <1>1, <1>2, WithoutQueue DEF CriticalInv, QueueOf
<1>4. TypeOK'
  <2>1. waiterCount - 1 \in Nat
    BY <1>2, CountPositive
  <2>2. woken' \in [Users -> BOOLEAN]
    BY <1>1, WakeType
  <2> QED
    BY <1>1, <1>2, <1>3, <2>1, <2>2 DEF cancel_acquire, TypeOK, Bump
<1>5. Cardinality(Held') <= MaxHeld
  BY DEF cancel_acquire, Held, CriticalInv
<1> QED
  BY <1>1, <1>2, <1>3, <1>4, <1>5, LeaveStep DEF cancel_acquire

LEMMA ReleaseStep ==
    ASSUME CriticalInv, NEW u \in Users, NEW n \in Names,
           release(u, n) \/ release_generation(u, n)
    PROVE  CriticalInv'
<1>1. /\ ReleaseLocked(u, n) /\ TypeOK
      /\ woken' = woken \/ \E users : Wake(users)
  BY DEF release, release_generation, CriticalInv
<1>2. woken' \in [Users -> BOOLEAN]
  BY <1>1, WakeType DEF TypeOK
<1>3. TypeOK'
  BY <1>1, <1>2 DEF ReleaseLocked, TypeOK, Bump
<1>4. Held' \subseteq Held /\ Held \in SUBSET Names
  BY <1>1 DEF ReleaseLocked, Held, TypeOK
<1>5. Cardinality(Held') <= MaxHeld
  <2>1. IsFiniteSet(Held) /\ Cardinality(Held) \in Nat /\ Cardinality(Held') \in Nat
    BY <1>4, HeldFinite
  <2>2. Cardinality(Held') <= Cardinality(Held)
    BY <1>4, <2>1, FS_Subset
  <2> QED
    BY <2>1, <2>2, CriticalAssumption DEF CriticalInv
<1> QED
  BY <1>1, <1>3, <1>5, QueuesKept DEF ReleaseLocked

LEMMA CriticalStep ==
    CriticalInv /\ [Next]_vars => CriticalInv'
<1> SUFFICES ASSUME CriticalInv, [Next]_vars
             PROVE  CriticalInv'
  OBVIOUS
<1>1. ASSUME NEW u \in Users, NEW n \in Names, poll_acquire(u, n)
      PROVE  CriticalInv'
  <2>1. CASE StayQueued(u, n)
    <3>1. TypeOK' /\ Cardinality(Held') <= MaxHeld
      BY <2>1 DEF StayQueued, CriticalInv, TypeOK, Held
    <3> QED
      BY <2>1, <3>1, QueuesKept DEF StayQueued
  <2> QED
    BY <1>1, <2>1, TryAcquireStep, EnqueueStep, AdmitStep DEF poll_acquire
<1>2. CASE advance_generation \/ UNCHANGED vars
  <2>0. generation' \in Nat /\ waitGen' \in {0, 1}
    BY <1>2, CriticalAssumption DEF advance_generation, vars, CriticalInv, TypeOK, Bump
  <2>1. TypeOK' /\ Cardinality(Held') <= MaxHeld
    BY <1>2, <2>0 DEF advance_generation, vars, CriticalInv, TypeOK, Held
  <2> QED
    BY <1>2, <2>1, QueuesKept DEF advance_generation, vars
<1> QED
  BY <1>1, <1>2, ReleaseStep, CancelStep DEF Next

-----------------------------------------------------------------------------
(* Theorems.                                                               *)

(* The inductive invariant: queues without duplicates that hold exactly    *)
(* the suspended users, counted, within both bounds.                       *)
THEOREM CriticalInvariant == Spec => []CriticalInv
<1>1. Init => CriticalInv
  <2> SUFFICES ASSUME Init PROVE CriticalInv
    OBVIOUS
  <2>1. TypeOK
    BY CriticalAssumption DEF Init, TypeOK
  <2>2. Suspended = {} /\ Held = {}
    BY DEF Init, Suspended, Held
  <2>3. \A n \in Names : QueueOf(n)
    <3>1. NoName \notin Names
      BY DEF NoName, Names
    <3>2. \A n \in Names : waiters[n] = <<>> /\ \A u \in Users : awaits[u] # n
      BY <3>1 DEF Init
    <3>3. DOMAIN <<>> = {}
      OBVIOUS
    <3> QED
      BY <3>2, <3>3 DEF QueueOf, Distinct, In
  <2> QED
    BY <2>1, <2>2, <2>3, FS_EmptySet, CriticalAssumption DEF CriticalInv, Init
<1> QED
  BY <1>1, CriticalStep, PTL DEF Spec

(* The queues, the waiter counter and the suspended users agree, and both  *)
(* bounds of the coordinator hold.                                         *)
THEOREM WaitersAreAccounted == Spec => []WaitersAccounted
<1>1. CriticalInv => WaitersAccounted
  <2> SUFFICES ASSUME CriticalInv, NEW u \in Users, NEW n \in Names
               PROVE  Cardinality({i \in DOMAIN waiters[n] : waiters[n][i] = u})
                          = IF awaits[u] = n THEN 1 ELSE 0
    BY DEF CriticalInv, WaitersAccounted, Suspended
  <2> DEFINE S == {i \in DOMAIN waiters[n] : waiters[n][i] = u}
  <2>1. Distinct(waiters[n]) /\ (In(u, waiters[n]) <=> awaits[u] = n)
    BY DEF CriticalInv, QueueOf
  <2>2. CASE awaits[u] = n
    <3>1. PICK i \in DOMAIN waiters[n] : waiters[n][i] = u
      BY <2>1, <2>2 DEF In
    <3>2. S = {i}
      BY <2>1, <3>1 DEF Distinct
    <3> QED
      BY <2>2, <3>2, FS_Singleton
  <2>3. CASE awaits[u] # n
    <3>1. S = {}
      BY <2>1, <2>3 DEF In
    <3> QED
      BY <2>3, <3>1, FS_EmptySet
  <2> QED
    BY <2>2, <2>3
<1> QED
  BY <1>1, CriticalInvariant, PTL

(* A free lock with waiters is only ever granted to the first of them.     *)
THEOREM FifoAdmission == Spec => NoOvertaking
<1>1. CriticalInv /\ [Next]_vars =>
        [\A n \in Names :
            owner[n] = NoUser /\ owner'[n] # NoUser /\ waiters[n] # <<>>
                => owner'[n] = Head(waiters[n])]_vars
  <2> SUFFICES ASSUME CriticalInv, Next, NEW n \in Names,
                      owner[n] = NoUser, owner'[n] # NoUser, waiters[n] # <<>>
               PROVE  owner'[n] = Head(waiters[n])
    BY DEF vars
  <2>1. owner \in [Names -> Users \cup {NoUser}]
    BY DEF CriticalInv, TypeOK
  <2>2. owner' # owner
    OBVIOUS
  <2>3. PICK u \in Users, m \in Names :
          try_acquire(u, m) \/ Admit(u, m) \/ ReleaseLocked(u, m)
    BY <2>2 DEF Next, advance_generation, poll_acquire, Enqueue, StayQueued, release,
                release_generation, cancel_acquire
  <2>4. ~ReleaseLocked(u, m)
    BY <2>1 DEF ReleaseLocked
  <2>5. m = n
    BY <2>1, <2>3, <2>4 DEF try_acquire, Admit
  <2> QED
    BY <2>1, <2>3, <2>4, <2>5 DEF try_acquire, Admit, IsHead
<1> QED
  BY <1>1, CriticalInvariant, PTL DEF Spec, NoOvertaking

-----------------------------------------------------------------------------
(* Wake-ups, when there is a held-lock slot for every name.                *)

(* A free name then always finds a slot.                                   *)
LEMMA RoomAlways ==
    ASSUME MaxHeld >= NNames, TypeOK, NEW n \in Names, owner[n] = NoUser
    PROVE  HasRoom
<1>1. Held \in SUBSET Names /\ n \notin Held
  BY DEF Held
<1>2. IsFiniteSet(Names) /\ Cardinality(Names) = NNames
  BY FS_Interval, CriticalAssumption DEF Names
<1>3. Cardinality(Held) <= NNames /\ Cardinality(Held) # NNames /\ Cardinality(Held) \in Nat
  BY <1>1, <1>2, HeldFinite, FS_Subset
<1> QED
  BY <1>3, CriticalAssumption DEF HasRoom

(* A release then wakes the head of every free name with waiters.          *)
LEMMA AvailableAlways ==
    ASSUME MaxHeld >= NNames, NEW own \in [Names -> Users \cup {NoUser}],
           NEW n \in Names, own[n] = NoUser, waiters[n] # <<>>
    PROVE  n \in Available(own)
<1> DEFINE A == {m \in FreeWaiting(own) : m < n}
           H == {m \in Names : own[m] # NoUser}
<1>1. /\ A \in SUBSET Names /\ H \in SUBSET Names /\ A \cap H = {}
      /\ A \cup H \in SUBSET Names /\ n \notin A \cup H
  BY DEF FreeWaiting, Names
<1>2. /\ IsFiniteSet(A) /\ Cardinality(A) \in Nat
      /\ IsFiniteSet(H) /\ Cardinality(H) \in Nat
      /\ Cardinality(A \cup H) \in Nat /\ Cardinality(A \cup H) <= NNames
  BY <1>1, HeldFinite
<1>3. Cardinality(A \cup H) # NNames
  <2>1. IsFiniteSet(Names) /\ Cardinality(Names) = NNames
    BY FS_Interval, CriticalAssumption DEF Names
  <2> QED
    BY <1>1, <2>1, FS_Subset
<1>4. Cardinality(A \cup H) = Cardinality(A) + Cardinality(H)
  <2>1. Cardinality(A \cap H) = 0
    BY <1>1, FS_EmptySet
  <2>2. Cardinality(A \cup H) = Cardinality(A) + Cardinality(H) - Cardinality(A \cap H)
    BY <1>2, FS_Union
  <2> QED
    BY <1>2, <2>1, <2>2
<1>5. Cardinality(A) < MaxHeld - Cardinality(H)
  <2> HIDE DEF A, H
  <2> QED
    BY <1>2, <1>3, <1>4, CriticalAssumption
<1> QED
  BY <1>5 DEF Available, FreeWaiting

WakeInv == CriticalInv /\ NoLostWakeup

LEMMA WakeStep ==
    ASSUME MaxHeld >= NNames, WakeInv, Next
    PROVE  NoLostWakeup'
<1>1. /\ TypeOK /\ \A n \in Names : QueueOf(n)
      /\ NoName \notin Names /\ NoUser \notin Users
  BY CriticalAssumption DEF WakeInv, CriticalInv, NoName, Names
<1>2. TypeOK'
  BY CriticalStep DEF WakeInv, CriticalInv
<1> SUFFICES ASSUME NEW u \in Users, Admissible(u)', awaits'[u] \notin CheckedNames
             PROVE  woken'[u]
  BY DEF NoLostWakeup
<1>3. PICK k \in Names : /\ k = awaits'[u] /\ owner'[k] = NoUser
                         /\ waiters'[k] # <<>> /\ Head(waiters'[k]) = u
  BY <1>2 DEF Admissible, IsHead, TypeOK
(* A user that was next before the step had been woken.                    *)
<1>4. ASSUME awaits[u] = k, owner[k] = NoUser, waiters[k] # <<>>, Head(waiters[k]) = u
      PROVE  woken[u]
  <2>1. HasRoom
    BY <1>1, <1>4, RoomAlways
  <2> QED
    BY <1>1, <1>3, <1>4, <2>1 DEF WakeInv, NoLostWakeup, Admissible, IsHead
<1>5. ASSUME NEW v \in Users, NEW n \in Names, try_acquire(v, n)
      PROVE  woken'[u]
  <2>1. k # n /\ owner[k] = NoUser
    BY <1>1, <1>3, <1>5 DEF try_acquire, TypeOK
  <2> QED
    BY <1>3, <1>4, <1>5, <2>1 DEF try_acquire
<1>6. ASSUME NEW v \in Users, NEW n \in Names, Enqueue(v, n)
      PROVE  woken'[u]
  <2>1. /\ awaits[v] = NoName /\ owner' = owner
        /\ waiters' = [waiters EXCEPT ![n] = Append(waiters[n], v)]
        /\ awaits' = [awaits EXCEPT ![v] = n]
        /\ woken' = [woken EXCEPT ![v] = FALSE]
        /\ owner[n] # NoUser \/ waiters[n] # <<>>
    BY <1>6 DEF Enqueue, MayAsk
  <2>2. CASE k # n
    <3>1. u # v /\ awaits[u] = k /\ waiters'[k] = waiters[k]
      BY <1>1, <1>3, <2>1, <2>2 DEF TypeOK
    <3> QED
      BY <1>1, <1>3, <1>4, <2>1, <3>1 DEF TypeOK
  <2>3. CASE k = n
    <3>1. waiters[n] # <<>> /\ waiters[n] \in Seq(Users)
      BY <1>1, <1>3, <2>1, <2>3 DEF TypeOK
    <3>2. /\ Head(waiters'[n]) = Head(waiters[n]) /\ 1 \in DOMAIN waiters[n]
          /\ waiters[n][1] = Head(waiters[n])
      BY <1>1, <2>1, <3>1 DEF TypeOK
    <3>3. In(u, waiters[n])
      BY <1>3, <2>3, <3>2 DEF In
    <3>4. awaits[u] = n /\ u # v
      BY <1>1, <2>1, <3>3 DEF QueueOf
    <3> QED
      BY <1>1, <1>3, <1>4, <2>1, <2>3, <3>1, <3>2, <3>4 DEF TypeOK
  <2> QED
    BY <2>2, <2>3
<1>7. ASSUME NEW v \in Users, NEW n \in Names, Admit(v, n)
      PROVE  woken'[u]
  <2>1. k # n /\ u # v
    BY <1>1, <1>3, <1>7 DEF Admit, TypeOK
  <2>2. /\ awaits[u] = k /\ owner[k] = NoUser /\ waiters'[k] = waiters[k]
        /\ woken'[u] = woken[u]
    BY <1>1, <1>3, <1>7, <2>1 DEF Admit, TypeOK
  <2> QED
    BY <1>3, <1>4, <2>2
<1>8. ASSUME NEW v \in Users, NEW n \in Names, StayQueued(v, n)
      PROVE  woken'[u]
  <2>1. awaits' = awaits /\ owner' = owner /\ waiters' = waiters
    BY <1>8 DEF StayQueued
  <2>2. u # v
    <3>1. HasRoom
      BY <1>1, <1>3, <2>1, RoomAlways
    <3> QED
      BY <1>3, <1>8, <2>1, <3>1 DEF StayQueued, IsHead
  <2>3. woken'[u] = woken[u]
    BY <1>1, <1>8, <2>2 DEF StayQueued, TypeOK
  <2> QED
    BY <1>3, <1>4, <2>1, <2>3
<1>9. ASSUME NEW v \in Users, NEW n \in Names, release(v, n)
      PROVE  woken'[u]
  <2>1. /\ owner' = [owner EXCEPT ![n] = NoUser] /\ waiters' = waiters
        /\ Wake({Head(waiters[m]) : m \in Available([owner EXCEPT ![n] = NoUser])})
    BY <1>9 DEF release, ReleaseLocked
  <2>2. k \in Available(owner')
    BY <1>2, <1>3, <2>1, AvailableAlways DEF TypeOK
  <2> QED
    BY <1>3, <2>1, <2>2 DEF Wake
<1>10. ASSUME NEW v \in Users, NEW n \in Names, cancel_acquire(v, n)
       PROVE  woken'[u]
  <2>1. PICK left :
          /\ waiters' = [waiters EXCEPT ![n] = left]
          /\ Wake(IF left = <<>> THEN {} ELSE {Head(left)})
    BY <1>10 DEF cancel_acquire
  <2>2. owner' = owner /\ awaits' = [awaits EXCEPT ![v] = NoName]
    BY <1>10 DEF cancel_acquire
  <2>3. CASE k = n
    BY <1>1, <1>3, <2>1, <2>3 DEF TypeOK, Wake
  <2>4. CASE k # n
    <3>1. /\ awaits[u] = k /\ owner[k] = NoUser /\ waiters'[k] = waiters[k]
      BY <1>1, <1>3, <2>1, <2>2, <2>4 DEF TypeOK
    <3> QED
      BY <1>3, <1>4, <2>1, <3>1 DEF Wake
  <2> QED
    BY <2>3, <2>4
<1>11. CASE advance_generation
  BY <1>3, <1>4, <1>11 DEF advance_generation
<1>12. ASSUME NEW v \in Users, NEW n \in Names, release_generation(v, n)
       PROVE  woken'[u]
  <2>1. /\ owner' = [owner EXCEPT ![n] = NoUser] /\ waiters' = waiters
        /\ awaits' = awaits /\ woken' = woken /\ k # n
    BY <1>3, <1>12 DEF release_generation, ReleaseLocked
  <2>2. owner[k] = NoUser
    BY <1>1, <1>3, <2>1 DEF TypeOK
  <2> QED
    BY <1>3, <1>4, <2>1, <2>2
<1> QED
  BY <1>5, <1>6, <1>7, <1>8, <1>9, <1>10, <1>11, <1>12 DEF Next, poll_acquire

(* With a held-lock slot for every name, the first waiter of a free lock   *)
(* has always been woken, unless callers release that lock with the        *)
(* generation-checked release (which wakes nobody).                        *)
THEOREM WakeupsAreNotLost ==
    ASSUME MaxHeld >= NNames
    PROVE  Spec => []NoLostWakeup
<1>1. Init => NoLostWakeup
  BY DEF Init, NoLostWakeup, Admissible
<1>2. CriticalInv /\ NoLostWakeup /\ [Next]_vars => NoLostWakeup'
  <2> SUFFICES ASSUME CriticalInv, NoLostWakeup, [Next]_vars
               PROVE  NoLostWakeup'
    OBVIOUS
  <2>1. CASE UNCHANGED vars
    BY <2>1 DEF vars, NoLostWakeup, Admissible, IsHead, HasRoom, Held
  <2>2. CASE Next
    BY <2>2, WakeStep DEF WakeInv
  <2> QED
    BY <2>1, <2>2
<1> QED
  BY <1>1, <1>2, CriticalInvariant, PTL DEF Spec

=============================================================================

-------------------------- MODULE CriticalSection --------------------------
(***************************************************************************)
(* The named-lock coordinator of crates/runtime/src/coordination.rs        *)
(* (DeterministicCriticalSectionCoordinator) and the virtual users that    *)
(* wait on it through poll_critical_section_acquire of lifecycle.rs.       *)
(*                                                                         *)
(* The coordinator's state is behind one mutex, so each call is one        *)
(* action; the wakers it calls after unlocking are counted with it.  A     *)
(* waiting user may be polled at any time (the engine polls all its users  *)
(* when any of them is woken) and is polled in the end when its own waker  *)
(* was called.  Calls that fail without an effect are stuttering steps and *)
(* are not written.                                                        *)
(***************************************************************************)
EXTENDS Integers, Sequences, FiniteSets

CONSTANTS
    Users,          \* lifecycle identities
    NNames,         \* number of lock names, ranked by their string order
    MaxHeld,        \* bound on held locks over all names
    MaxWaiters,     \* bound on queued acquisitions over all names
    MaxNesting,     \* model bound: locks one user holds at once
    CheckedNames,   \* names that callers also release with release_generation
    MaxGeneration   \* model bound: run generations

Names == 1 .. NNames

NoUser == "no user"
NoName == 0

ASSUME CriticalAssumption ==
    /\ NNames \in Nat /\ MaxHeld \in Nat /\ MaxWaiters \in Nat
    /\ MaxNesting \in Nat /\ MaxGeneration \in Nat
    /\ CheckedNames \subseteq Names
    /\ NoUser \notin Users

VARIABLES
    owner,        \* owner[n]: user holding n, or NoUser
    waiters,      \* waiters[n]: FIFO of queued users
    waiterCount,  \* waiter_count
    generation,   \* run generation of everything held or queued
    waitGen,      \* parity of wait_generation
    awaits,       \* awaits[u]: lock name the user's future is suspended on
    woken         \* woken[u]: the user's waker was called since its last poll

vars == <<owner, waiters, waiterCount, generation, waitGen, awaits, woken>>

(* Type invariant: at most one owner per name, queues of users.            *)
TypeOK ==
    /\ owner \in [Names -> Users \cup {NoUser}]
    /\ waiters \in [Names -> Seq(Users)]
    /\ waiterCount \in Nat
    /\ generation \in Nat
    /\ waitGen \in {0, 1}
    /\ awaits \in [Users -> Names \cup {NoName}]
    /\ woken \in [Users -> BOOLEAN]

Init ==
    /\ owner = [n \in Names |-> NoUser]
    /\ waiters = [n \in Names |-> <<>>]
    /\ waiterCount = 0
    /\ generation = 1
    /\ waitGen = 0
    /\ awaits = [u \in Users |-> NoName]
    /\ woken = [u \in Users |-> FALSE]

-----------------------------------------------------------------------------

(* Mutants: any queued user counts as the first; the last one does.        *)
IsQueued(u, n)   == \E i \in DOMAIN waiters[n] : waiters[n][i] = u
IsLast(u, n)     == waiters[n] # <<>> /\ waiters[n][Len(waiters[n])] = u

Held       == {n \in Names : owner[n] # NoUser}
HeldBy(u)  == {n \in Names : owner[n] = u}
HasRoom    == Cardinality(Held) < MaxHeld
IsHead(u, n) == waiters[n] # <<>> /\ Head(waiters[n]) = u

(* bump_wait_generation.                                                   *)
Bump == waitGen' = 1 - waitGen

(* The names whose head waiter available_waiter_wakers wakes: free names   *)
(* with waiters, in name order, as many as there are held-lock slots.      *)
FreeWaiting(own) == {n \in Names : own[n] = NoUser /\ waiters[n] # <<>>}

Available(own) ==
    {n \in FreeWaiting(own) :
        Cardinality({m \in FreeWaiting(own) : m < n})
            < MaxHeld - Cardinality({m \in Names : own[m] # NoUser})}

(* Mutant: the wakers are dropped.                                         *)
WakeNobody(users) == UNCHANGED woken

Wake(users) == woken' = [u \in Users |-> woken[u] \/ u \in users]

(* A user about to ask for a lock.                                         *)
MayAsk(u, n) ==
    /\ awaits[u] = NoName
    /\ owner[n] # u
    /\ Cardinality(HeldBy(u)) < MaxNesting

try_acquire(u, n) ==
    /\ MayAsk(u, n)
    /\ owner[n] = NoUser
    /\ waiters[n] = <<>>
    /\ HasRoom
    /\ owner' = [owner EXCEPT ![n] = u]
    /\ UNCHANGED <<waiters, waiterCount, generation, waitGen, awaits, woken>>

(* poll_acquire: a first poll that finds the lock taken or contended       *)
(* queues the user; one that finds it free is a try_acquire.               *)
Enqueue(u, n) ==
    /\ MayAsk(u, n)
    /\ owner[n] # NoUser \/ waiters[n] # <<>>
    /\ waiterCount < MaxWaiters
    /\ waiters' = [waiters EXCEPT ![n] = Append(waiters[n], u)]
    /\ waiterCount' = waiterCount + 1
    /\ Bump
    /\ awaits' = [awaits EXCEPT ![u] = n]
    /\ woken' = [woken EXCEPT ![u] = FALSE]
    /\ UNCHANGED <<owner, generation>>

(* poll_acquire of a waiter that is next and finds a free slot.            *)
Admit(u, n) ==
    /\ awaits[u] = n
    /\ owner[n] = NoUser /\ IsHead(u, n)
    /\ HasRoom
    /\ owner' = [owner EXCEPT ![n] = u]
    /\ waiters' = [waiters EXCEPT ![n] = Tail(waiters[n])]
    /\ waiterCount' = waiterCount - 1
    /\ Bump
    /\ awaits' = [awaits EXCEPT ![u] = NoName]
    /\ woken' = [woken EXCEPT ![u] = FALSE]
    /\ UNCHANGED generation

(* poll_acquire of a waiter that must go on waiting.                       *)
StayQueued(u, n) ==
    /\ awaits[u] = n
    /\ ~(owner[n] = NoUser /\ IsHead(u, n) /\ HasRoom)
    /\ woken' = [woken EXCEPT ![u] = FALSE]
    /\ UNCHANGED <<owner, waiters, waiterCount, generation, waitGen, awaits>>

poll_acquire(u, n) == try_acquire(u, n) \/ Enqueue(u, n) \/ Admit(u, n) \/ StayQueued(u, n)

ReleaseLocked(u, n) ==
    /\ owner[n] = u
    /\ awaits[u] = NoName
    /\ owner' = [owner EXCEPT ![n] = NoUser]
    /\ IF waiterCount # 0 THEN Bump ELSE UNCHANGED waitGen
    /\ UNCHANGED <<waiters, waiterCount, generation, awaits>>

release(u, n) ==
    /\ ReleaseLocked(u, n)
    /\ Wake({Head(waiters[m]) : m \in Available([owner EXCEPT ![n] = NoUser])})

(* The generation-checked release wakes nobody.                            *)
release_generation(u, n) ==
    /\ n \in CheckedNames
    /\ ReleaseLocked(u, n)
    /\ UNCHANGED woken

(* Mutant: the queue loses its last entry instead.                         *)
WithoutLast(q, i) == SubSeq(q, 1, Len(q) - 1)

(* cancel_waiter_locked: the queue q without its entry i.                  *)
Without(q, i) == [j \in 1 .. Len(q) - 1 |-> IF j < i THEN q[j] ELSE q[j + 1]]

(* cancel_acquire of a queued user: its first entry is removed, and only   *)
(* the head of the same name is woken.                                     *)
cancel_acquire(u, n) ==
    /\ awaits[u] = n
    /\ \E i \in DOMAIN waiters[n] :
         LET left == Without(waiters[n], i)
         IN  /\ waiters[n][i] = u
             /\ \A j \in 1 .. i - 1 : waiters[n][j] # u
             /\ waiters' = [waiters EXCEPT ![n] = left]
             /\ Wake(IF left = <<>> THEN {} ELSE {Head(left)})
    /\ waiterCount' = waiterCount - 1
    /\ Bump
    /\ awaits' = [awaits EXCEPT ![u] = NoName]
    /\ UNCHANGED <<owner, generation>>

advance_generation ==
    /\ Held = {} /\ waiterCount = 0
    /\ generation < MaxGeneration
    /\ generation' = generation + 1
    /\ Bump
    /\ UNCHANGED <<owner, waiters, waiterCount, awaits, woken>>

Next ==
    \/ advance_generation
    \/ \E u \in Users, n \in Names :
          \/ poll_acquire(u, n)
          \/ release(u, n)
          \/ release_generation(u, n)
          \/ cancel_acquire(u, n)

(* A woken user is polled, and a user that is not waiting ends its section.*)
Fairness ==
    \A u \in Users, n \in Names :
        /\ WF_vars(woken[u] /\ (Admit(u, n) \/ StayQueued(u, n)))
        /\ WF_vars(release(u, n))

Spec == Init /\ [][Next]_vars

FairSpec == Spec /\ Fairness

-----------------------------------------------------------------------------
(* Properties.                                                             *)

(* The queues, the waiter counter and the suspended users agree: a user    *)
(* waits in exactly one queue, once, and nowhere when it is not suspended; *)
(* both bounds hold.                                                       *)
WaitersAccounted ==
    /\ TypeOK
    /\ \A u \in Users, n \in Names :
          Cardinality({i \in DOMAIN waiters[n] : waiters[n][i] = u})
              = IF awaits[u] = n THEN 1 ELSE 0
    /\ waiterCount = Cardinality({u \in Users : awaits[u] # NoName})
    /\ waiterCount <= MaxWaiters
    /\ Cardinality(Held) <= MaxHeld

(* The user a free lock is reserved for, when there is a slot for it.      *)
Admissible(u) ==
    /\ awaits[u] # NoName
    /\ owner[awaits[u]] = NoUser
    /\ IsHead(u, awaits[u])
    /\ HasRoom

(* No lost wake-up: a waiter whose lock is free, who is next in its queue  *)
(* and for whom a slot is left has been woken ("the exact owner release is *)
(* the wake source"), unless its lock is one of those released with        *)
(* release_generation.                                                     *)
NoLostWakeup ==
    \A u \in Users : Admissible(u) /\ awaits[u] \notin CheckedNames => woken[u]

(* FIFO admission: a lock with waiters is only ever granted to the first.  *)
NoOvertaking ==
    [][\A n \in Names :
          owner[n] = NoUser /\ owner'[n] # NoUser /\ waiters[n] # <<>>
              => owner'[n] = Head(waiters[n])]_vars

(* A queued acquisition is eventually granted or cancelled.                *)
WaitersProgress ==
    \A u \in Users, n \in Names \ CheckedNames : awaits[u] = n ~> awaits[u] # n
=============================================================================

-------------------------- MODULE TimeDriverProofs --------------------------
(***************************************************************************)
(* Proofs about the time driver, for any set of registrations (infinite    *)
(* too), every limit and every last instant.                               *)
(*                                                                         *)
(* A record is in one place at a time: the map, the worker's batch, the    *)
(* batch of the thread that shuts the scheduler down, or the hands of the  *)
(* future that cancels it.  The registry is closed only after the          *)
(* registrations in flight have been waited for.                           *)
(***************************************************************************)
EXTENDS TimeDriver, FiniteSetTheorems, WellFoundedInduction, TLAPS

Threads == Regs \cup {Worker, Owner}
Places  == FuturePlaces \cup WorkerPlaces \cup OwnerPlaces

(* The registrations between admission and the end of register.            *)
InFlight == {r \in Regs : pc[r] \in {"admitted", "waited", "inserted"}}

InFlightInv ==
    /\ IsFiniteSet(InFlight) /\ wait.inFlight = Cardinality(InFlight)
    /\ IsFiniteSet(wakes)

(* Both owners of every wait: the second conjunct of TwoExactOwners.       *)
OwnersInv ==
    registry.entries =
        IF registry.shut THEN {}
        ELSE wakes \cup due \cup shutdown.taken
             \cup {r \in Regs : pc[r] \in {"waited", "taken", "takenBack"}}

(* A record is in one place, which its future's own progress agrees with.  *)
RecordInv(r) ==
    /\ r \in wakes => /\ r \notin due \cup shutdown.taken
                      /\ pc[r] \in {"inserted", "rejected", "pending", "subscribed",
                                    "parked", "retiring"}
    /\ r \in due => r \notin shutdown.taken
    /\ r \in due \cup shutdown.taken =>
          pc[r] \notin {"idle", "admitted", "waited", "taken", "takenBack"}

(* The worker holds records only while it delivers.                        *)
WorkerInv ==
    /\ pc[Worker] \notin {"deliver", "wake"} => due = {}
    /\ pc[Worker] # "wake" => firing = {}

(* The scheduler is shut down when admission has ended and nothing is in   *)
(* flight, and the registry is closed after that.                          *)
Quiesced == wait.stopped /\ wait.inFlight = 0

ShutdownInv ==
    /\ \A t \in {Worker, Owner} :
          /\ pc[t] = "drain" => wait.stopped
          /\ pc[t] = "sched" => Quiesced
          /\ pc[t] = "retire" => shutdown.started
    /\ shutdown.started => Quiesced
    /\ ~shutdown.started => shutdown.taken = {} /\ ~registry.shut

(* A future that registered its waker keeps it until it is woken.          *)
WakerInv ==
    \A r \in Regs : pc[r] \in {"subscribed", "parked"} =>
        token[r].subscribed \/ token[r].woken

RecordsInv == OwnersInv /\ (\A r \in Regs : RecordInv(r)) /\ WorkerInv

DriverInv ==
    /\ TypeOK
    /\ InFlightInv
    /\ RecordsInv
    /\ ShutdownInv
    /\ WakerInv
    /\ NoLostWakeup

-----------------------------------------------------------------------------
(* What Goto and Notify do to the places of the threads: t goes to place,  *)
(* and only the worker asleep in its loop may move as well.                *)
Moves(t, place) ==
    /\ pc' \in [Threads -> Places]
    /\ pc'[t] = place
    /\ \A u \in Threads \ {t, Worker} : pc'[u] = pc[u]
    /\ t # Worker => \/ pc'[Worker] = pc[Worker]
                     \/ pc[Worker] = "asleep" /\ pc'[Worker] = "loop"

LEMMA Constants ==
    /\ Worker # Owner /\ Worker \notin Regs /\ Owner \notin Regs
    /\ MaxRegistrations \in Nat /\ MaxTime \in Nat
BY TimeDriverAssumption DEF Worker, Owner

LEMMA GotoMoves ==
    ASSUME TypeOK, NEW t \in Threads, NEW place \in Places, Goto(t, place)
    PROVE  Moves(t, place)
BY DEF TypeOK, Goto, Moves, Threads, Places

LEMMA NotifyMoves ==
    ASSUME TypeOK, NEW t \in Threads, NEW place \in Places, Notify(t, place)
    PROVE  Moves(t, place) /\ asleep' = {}
<1>1. DOMAIN pc = Threads /\ \A u \in Threads : pc[u] \in Places
  BY DEF TypeOK, Threads, Places
<1>2. "loop" \in Places /\ Worker \in Threads
  BY DEF Places, WorkerPlaces, Threads
<1> QED
  BY <1>1, <1>2 DEF Notify, Moves

(* A move that stays among the thread's own places keeps the types.        *)
PcOK ==
    /\ pc \in [Threads -> Places]
    /\ \A r \in Regs : pc[r] \in FuturePlaces
    /\ pc[Worker] \in WorkerPlaces /\ pc[Owner] \in OwnerPlaces

LEMMA FutureMoved ==
    ASSUME TypeOK, NEW r \in Regs, NEW place \in FuturePlaces, Moves(r, place)
    PROVE  PcOK'
<1>1. pc'[Worker] \in WorkerPlaces /\ pc'[Owner] = pc[Owner]
  BY Constants DEF TypeOK, Moves, Threads, WorkerPlaces
<1> QED
  BY <1>1, Constants DEF TypeOK, PcOK, Moves, Threads

LEMMA WorkerMoved ==
    ASSUME TypeOK, NEW place \in WorkerPlaces, Moves(Worker, place)
    PROVE  PcOK'
BY Constants DEF TypeOK, PcOK, Moves, Threads

LEMMA OwnerMoved ==
    ASSUME TypeOK, NEW place \in OwnerPlaces, Moves(Owner, place)
    PROVE  PcOK'
BY Constants DEF TypeOK, PcOK, Moves, Threads, WorkerPlaces

Tokens == [ready : BOOLEAN, subscribed : BOOLEAN, woken : BOOLEAN]

LEMMA TokenTypes ==
    ASSUME NEW tok \in Tokens
    PROVE  /\ NewToken \in Tokens
           /\ Ready(tok) \in Tokens
           /\ Ready(tok).subscribed = tok.subscribed /\ Ready(tok).woken = tok.woken
           /\ WakeLocal(tok) \in Tokens
           /\ WakeLocal(tok).woken <=> (tok.woken \/ tok.subscribed)
<1>1. NewToken \in Tokens /\ Ready(tok) \in Tokens /\ WakeLocal(tok) \in Tokens
  BY DEF Tokens, NewToken, Ready, WakeLocal
<1>2. Ready(tok).subscribed = tok.subscribed /\ Ready(tok).woken = tok.woken
  BY DEF Tokens, Ready
<1>3. WakeLocal(tok).woken <=> (tok.woken \/ tok.subscribed)
  BY DEF Tokens, WakeLocal
<1> QED
  BY <1>1, <1>2, <1>3

LEMMA InitDriver == Init => DriverInv
<1> SUFFICES ASSUME Init PROVE DriverInv
  OBVIOUS
<1> USE Constants
<1>1. TypeOK
  BY DEF Init, TypeOK, Instants, NoBound, NewToken, FuturePlaces, WorkerPlaces, OwnerPlaces, Stopping
<1>2. InFlight = {}
  BY DEF Init, InFlight
<1>3. InFlightInv
  BY <1>2, FS_EmptySet DEF Init, InFlightInv
<1>4. RecordsInv /\ ShutdownInv /\ WakerInv /\ NoLostWakeup
  BY DEF Init, RecordsInv, OwnersInv, RecordInv, WorkerInv, ShutdownInv, WakerInv, NoLostWakeup
<1> QED
  BY <1>1, <1>3, <1>4 DEF DriverInv

(* The count of registrations in flight.                                   *)
LEMMA FlightKept ==
    ASSUME InFlightInv, InFlight' = InFlight, wait'.inFlight = wait.inFlight,
           IsFiniteSet(wakes')
    PROVE  InFlightInv'
BY DEF InFlightInv

LEMMA FlightAdded ==
    ASSUME InFlightInv, NEW r, r \notin InFlight, InFlight' = InFlight \cup {r},
           wait'.inFlight = wait.inFlight + 1, wakes' = wakes
    PROVE  InFlightInv'
BY FS_AddElement DEF InFlightInv

LEMMA FlightRemoved ==
    ASSUME InFlightInv, NEW r \in InFlight, InFlight' = InFlight \ {r},
           wait'.inFlight = wait.inFlight - 1, wakes' = wakes
    PROVE  InFlightInv' /\ wait.inFlight > 0
BY FS_RemoveElement, FS_CardinalityType, FS_EmptySet DEF InFlightInv

LEMMA FlightBusy ==
    ASSUME InFlightInv, InFlight # {}
    PROVE  wait.inFlight # 0
BY FS_EmptySet DEF InFlightInv

-----------------------------------------------------------------------------
LEMMA AdmitStep ==
    ASSUME DriverInv, NEW r \in Regs, NEW d \in Instants, Admit(r, d)
    PROVE  DriverInv'
<1> USE Constants DEF DriverInv
<1>1. Moves(r, "admitted")
  BY GotoMoves DEF Admit, Threads, Places, FuturePlaces
<1>2. wait.inFlight + 1 \in 0 .. MaxRegistrations
  BY FS_CardinalityType DEF Admit, Occupied, InFlightInv, TypeOK
<1>3. TypeOK'
  BY <1>1, <1>2 DEF Admit, TypeOK, Moves, Threads, Places, FuturePlaces, regVars, workerVars, WorkerPlaces
<1>4. InFlightInv'
  <2>1. r \notin InFlight /\ InFlight' = InFlight \cup {r}
    BY <1>1 DEF Admit, InFlight, Moves, Threads
  <2> QED
    BY <2>1, FlightAdded DEF Admit, TypeOK
<1>5. RecordsInv'
  BY <1>1 DEF Admit, RecordsInv, OwnersInv, RecordInv, WorkerInv, Moves, Threads, workerVars
<1>6. ShutdownInv'
  BY <1>1, <1>2 DEF Admit, ShutdownInv, Quiesced, Moves, Threads, TypeOK
<1>7. WakerInv' /\ NoLostWakeup'
  BY <1>1 DEF Admit, WakerInv, NoLostWakeup, Moves, Threads, workerVars
<1> QED
  BY <1>3, <1>4, <1>5, <1>6, <1>7

LEMMA RegisterWaitStep ==
    ASSUME DriverInv, NEW r \in Regs, RegisterWait(r)
    PROVE  DriverInv'
<1> USE Constants DEF DriverInv
<1>1. Moves(r, "waited") /\ asleep' = {}
  BY NotifyMoves DEF RegisterWait, Threads, Places, FuturePlaces
<1>2. TypeOK'
  <2>1. PcOK'
    BY <1>1, FutureMoved DEF FuturePlaces
  <2>2. token' \in [Regs -> Tokens]
    BY DEF RegisterWait, TypeOK, regVars, Tokens
  <2> QED
    BY <1>1, <2>1, <2>2 DEF RegisterWait, TypeOK, PcOK, Threads, Places, regVars, workerVars, Tokens
<1>3. InFlightInv'
  <2>1. InFlight' = InFlight
    BY <1>1 DEF RegisterWait, InFlight, Moves, Threads
  <2>2. IsFiniteSet(wakes') /\ wait'.inFlight = wait.inFlight
    BY DEF RegisterWait, InFlightInv, TypeOK, regVars
  <2> QED
    BY <2>1, <2>2, FlightKept
<1>4. RecordsInv'
  BY <1>1, FlightBusy DEF RegisterWait, RecordsInv, OwnersInv, RecordInv, WorkerInv, Moves, Threads, regVars, workerVars, ShutdownInv, Quiesced, InFlight
<1>5. ShutdownInv'
  BY <1>1 DEF RegisterWait, ShutdownInv, Quiesced, Moves, Threads, TypeOK, regVars
<1>6. WakerInv' /\ NoLostWakeup'
  BY <1>1 DEF RegisterWait, WakerInv, NoLostWakeup, Moves, Threads, TypeOK, regVars, workerVars
<1> QED
  BY <1>2, <1>3, <1>4, <1>5, <1>6

LEMMA InsertStep ==
    ASSUME DriverInv, NEW r \in Regs, Insert(r)
    PROVE  DriverInv'
<1> USE Constants DEF DriverInv
<1>1. Moves(r, "inserted") /\ asleep' = {}
  BY NotifyMoves DEF Insert, Threads, Places, FuturePlaces
<1>2. TypeOK'
  <2>1. PcOK'
    BY <1>1, FutureMoved DEF FuturePlaces
  <2>2. token' \in [Regs -> Tokens]
    BY TokenTypes DEF Insert, TypeOK, Tokens
  <2> QED
    BY <1>1, <2>1, <2>2 DEF Insert, TypeOK, PcOK, Threads, Places, regVars, workerVars, Tokens
<1>3. InFlightInv'
  <2>1. InFlight' = InFlight
    BY <1>1 DEF Insert, InFlight, Moves, Threads
  <2>2. IsFiniteSet(wakes') /\ wait'.inFlight = wait.inFlight
    BY FS_AddElement DEF Insert, InFlightInv, TypeOK, regVars
  <2> QED
    BY <2>1, <2>2, FlightKept
<1>4. RecordsInv'
  BY <1>1 DEF Insert, RecordsInv, OwnersInv, RecordInv, WorkerInv, Moves, Threads, regVars, workerVars
<1>5. ShutdownInv'
  BY <1>1 DEF Insert, ShutdownInv, Quiesced, Moves, Threads, TypeOK, regVars
<1>6. WakerInv' /\ NoLostWakeup'
  BY <1>1 DEF Insert, WakerInv, NoLostWakeup, Moves, Threads, TypeOK, regVars, workerVars
<1> QED
  BY <1>2, <1>3, <1>4, <1>5, <1>6

LEMMA FinishStep ==
    ASSUME DriverInv, NEW r \in Regs, Finish(r)
    PROVE  DriverInv'
<1> USE Constants DEF DriverInv
<1>0. wait.inFlight # 0
  BY FlightBusy DEF Finish, InFlight
<1>1. asleep' = {} /\ \E place \in {"rejected", "pending"} : Moves(r, place)
  BY NotifyMoves DEF Finish, Threads, Places, FuturePlaces
<1>2. TypeOK'
  <2>1. PcOK'
    BY <1>1, FutureMoved DEF FuturePlaces
  <2>2. token' \in [Regs -> Tokens]
    BY DEF Finish, TypeOK, regVars, Tokens
  <2> QED
    <3>0. wait.inFlight \in 0 .. MaxRegistrations
      BY DEF TypeOK
    <3>1. wait.inFlight - 1 \in 0 .. MaxRegistrations
      BY ONLY <1>0, <3>0, Constants
    <3>2. wait' \in [stopped : BOOLEAN, inFlight : 0 .. MaxRegistrations,
                     moved : BOOLEAN, failed : BOOLEAN]
      BY <3>1 DEF Finish, TypeOK
    <3> QED
      BY <1>1, <2>1, <2>2, <3>2
      DEF Finish, TypeOK, PcOK, Threads, Places, regVars, workerVars, Tokens
<1>3. InFlightInv'
  <2>1. r \in InFlight /\ InFlight' = InFlight \ {r}
    BY <1>1 DEF Finish, InFlight, Moves, Threads
  <2>2. wait'.inFlight = wait.inFlight - 1 /\ wakes' = wakes
    BY DEF Finish, TypeOK, regVars
  <2> QED
    BY <2>1, <2>2, FlightRemoved
<1>4. RecordsInv'
  BY <1>1 DEF Finish, RecordsInv, OwnersInv, RecordInv, WorkerInv, Moves, Threads, regVars, workerVars
<1>5. ShutdownInv'
  BY <1>1, <1>0 DEF Finish, ShutdownInv, Quiesced, Moves, Threads, TypeOK, regVars
<1>6. WakerInv' /\ NoLostWakeup'
  BY <1>1 DEF Finish, WakerInv, NoLostWakeup, Moves, Threads, TypeOK, regVars, workerVars
<1> QED
  BY <1>2, <1>3, <1>4, <1>5, <1>6

LEMMA SubscribeStep ==
    ASSUME DriverInv, NEW r \in Regs, Subscribe(r)
    PROVE  DriverInv'
<1> USE Constants DEF DriverInv
<1>1. Moves(r, "subscribed")
  BY GotoMoves DEF Subscribe, Threads, Places, FuturePlaces
<1>2. TypeOK'
  <2>1. PcOK'
    BY <1>1, FutureMoved DEF FuturePlaces
  <2>2. token' \in [Regs -> Tokens]
    BY TokenTypes DEF Subscribe, TypeOK, Tokens
  <2> QED
    BY <1>1, <2>1, <2>2 DEF Subscribe, TypeOK, PcOK, Threads, Places, regVars, workerVars, Tokens
<1>3. InFlightInv'
  <2>1. InFlight' = InFlight
    BY <1>1 DEF Subscribe, InFlight, Moves, Threads
  <2>2. IsFiniteSet(wakes') /\ wait'.inFlight = wait.inFlight
    BY DEF Subscribe, InFlightInv, TypeOK, regVars
  <2> QED
    BY <2>1, <2>2, FlightKept
<1>4. RecordsInv'
  BY <1>1 DEF Subscribe, RecordsInv, OwnersInv, RecordInv, WorkerInv, Moves, Threads, regVars, workerVars
<1>5. ShutdownInv'
  BY <1>1 DEF Subscribe, ShutdownInv, Quiesced, Moves, Threads, TypeOK, regVars
<1>6. WakerInv' /\ NoLostWakeup'
  BY <1>1 DEF Subscribe, WakerInv, NoLostWakeup, Moves, Threads, TypeOK, regVars, workerVars
<1> QED
  BY <1>2, <1>3, <1>4, <1>5, <1>6

LEMMA ParkStep ==
    ASSUME DriverInv, NEW r \in Regs, Park(r)
    PROVE  DriverInv'
<1> USE Constants DEF DriverInv
<1>1. Moves(r, "parked")
  BY GotoMoves DEF Park, Threads, Places, FuturePlaces
<1>2. TypeOK'
  <2>1. PcOK'
    BY <1>1, FutureMoved DEF FuturePlaces
  <2>2. token' \in [Regs -> Tokens]
    <3>1. Recheck(r) \in BOOLEAN
      BY DEF Recheck, TypeOK
    <3>2. token[r] \in Tokens /\ token \in [Regs -> Tokens]
      BY DEF TypeOK, Tokens
    <3>3. token' = [token EXCEPT ![r] = [token[r] EXCEPT !.ready = FALSE,
                                                         !.woken = @ \/ Recheck(r)]]
      BY DEF Park
    <3>4. [token[r] EXCEPT !.ready = FALSE, !.woken = @ \/ Recheck(r)] \in Tokens
      BY <3>1, <3>2 DEF Tokens
    <3> QED
      BY <3>2, <3>3, <3>4
  <2> QED
    BY <1>1, <2>1, <2>2 DEF Park, TypeOK, PcOK, Threads, Places, regVars, workerVars, Tokens
<1>3. InFlightInv'
  <2>1. InFlight' = InFlight
    BY <1>1 DEF Park, InFlight, Moves, Threads
  <2>2. IsFiniteSet(wakes') /\ wait'.inFlight = wait.inFlight
    BY DEF Park, InFlightInv, TypeOK, regVars
  <2> QED
    BY <2>1, <2>2, FlightKept
<1>4. RecordsInv'
  BY <1>1 DEF Park, RecordsInv, OwnersInv, RecordInv, WorkerInv, Moves, Threads, regVars, workerVars
<1>5. ShutdownInv'
  BY <1>1 DEF Park, ShutdownInv, Quiesced, Moves, Threads, TypeOK, regVars
<1>6. WakerInv' /\ NoLostWakeup'
  BY <1>1 DEF Park, Recheck, WakerInv, NoLostWakeup, Moves, Threads, TypeOK, regVars, workerVars
<1> QED
  BY <1>2, <1>3, <1>4, <1>5, <1>6

LEMMA PollStep ==
    ASSUME DriverInv, NEW r \in Regs, Poll(r)
    PROVE  DriverInv'
<1> USE Constants DEF DriverInv
<1>1. \E place \in {"retiring", "pending"} : Moves(r, place)
  BY GotoMoves DEF Poll, Threads, Places, FuturePlaces
<1>2. TypeOK'
  <2>1. PcOK'
    BY <1>1, FutureMoved DEF FuturePlaces
  <2>2. token' \in [Regs -> Tokens]
    <3>1. token' = [token EXCEPT ![r].woken = FALSE]
      BY DEF Poll
    <3> QED
      BY <3>1 DEF TypeOK, Tokens
  <2> QED
    BY <1>1, <2>1, <2>2 DEF Poll, TypeOK, PcOK, Threads, Places, regVars, workerVars, Tokens
<1>3. InFlightInv'
  <2>1. InFlight' = InFlight
    BY <1>1 DEF Poll, InFlight, Moves, Threads
  <2>2. IsFiniteSet(wakes') /\ wait'.inFlight = wait.inFlight
    BY DEF Poll, InFlightInv, TypeOK, regVars
  <2> QED
    BY <2>1, <2>2, FlightKept
<1>4. RecordsInv'
  BY <1>1 DEF Poll, RecordsInv, OwnersInv, RecordInv, WorkerInv, Moves, Threads, regVars, workerVars
<1>5. ShutdownInv'
  BY <1>1 DEF Poll, ShutdownInv, Quiesced, Moves, Threads, TypeOK, regVars
<1>6. WakerInv' /\ NoLostWakeup'
  BY <1>1 DEF Poll, WakerInv, NoLostWakeup, Moves, Threads, TypeOK, regVars, workerVars
<1> QED
  BY <1>2, <1>3, <1>4, <1>5, <1>6

LEMMA AbandonStep ==
    ASSUME DriverInv, NEW r \in Regs, Abandon(r)
    PROVE  DriverInv'
<1> USE Constants DEF DriverInv
<1>1. Moves(r, "retiring")
  BY GotoMoves DEF Abandon, Threads, Places, FuturePlaces
<1>2. TypeOK'
  <2>1. PcOK'
    BY <1>1, FutureMoved DEF FuturePlaces
  <2>2. token' \in [Regs -> Tokens]
    BY DEF Abandon, TypeOK, regVars, Tokens
  <2> QED
    BY <1>1, <2>1, <2>2 DEF Abandon, TypeOK, PcOK, Threads, Places, regVars, workerVars, Tokens
<1>3. InFlightInv'
  <2>1. InFlight' = InFlight
    BY <1>1 DEF Abandon, InFlight, Moves, Threads
  <2>2. IsFiniteSet(wakes') /\ wait'.inFlight = wait.inFlight
    BY DEF Abandon, InFlightInv, TypeOK, regVars
  <2> QED
    BY <2>1, <2>2, FlightKept
<1>4. RecordsInv'
  BY <1>1 DEF Abandon, RecordsInv, OwnersInv, RecordInv, WorkerInv, Moves, Threads, regVars, workerVars
<1>5. ShutdownInv'
  BY <1>1 DEF Abandon, ShutdownInv, Quiesced, Moves, Threads, TypeOK, regVars
<1>6. WakerInv' /\ NoLostWakeup'
  BY <1>1 DEF Abandon, WakerInv, NoLostWakeup, Moves, Threads, TypeOK, regVars, workerVars
<1> QED
  BY <1>2, <1>3, <1>4, <1>5, <1>6

LEMMA CancelTakeStep ==
    ASSUME DriverInv, NEW r \in Regs, CancelTake(r)
    PROVE  DriverInv'
<1> USE Constants DEF DriverInv
<1>1. Moves(r, IF pc[r] = "retiring"
               THEN IF r \in wakes THEN "taken" ELSE "retired"
               ELSE IF r \in wakes THEN "takenBack" ELSE "done")
  BY GotoMoves DEF CancelTake, Threads, Places, FuturePlaces
<1>2. TypeOK'
  <2>1. PcOK'
    BY <1>1, FutureMoved DEF FuturePlaces
  <2>2. token' \in [Regs -> Tokens]
    BY DEF CancelTake, TypeOK, regVars, Tokens
  <2> QED
    BY <1>1, <2>1, <2>2 DEF CancelTake, TypeOK, PcOK, Threads, Places, regVars, workerVars, Tokens
<1>3. InFlightInv'
  <2>1. InFlight' = InFlight
    BY <1>1 DEF CancelTake, InFlight, Moves, Threads
  <2>2. IsFiniteSet(wakes') /\ wait'.inFlight = wait.inFlight
    BY FS_RemoveElement DEF CancelTake, InFlightInv, TypeOK, regVars
  <2> QED
    BY <2>1, <2>2, FlightKept
<1>4. RecordsInv'
  BY <1>1 DEF CancelTake, RecordsInv, OwnersInv, RecordInv, WorkerInv, Moves, Threads, regVars, workerVars
<1>5. ShutdownInv'
  BY <1>1 DEF CancelTake, ShutdownInv, Quiesced, Moves, Threads, TypeOK, regVars
<1>6. WakerInv' /\ NoLostWakeup'
  BY <1>1 DEF CancelTake, WakerInv, NoLostWakeup, Moves, Threads, TypeOK, regVars, workerVars
<1> QED
  BY <1>2, <1>3, <1>4, <1>5, <1>6

LEMMA CancelRetireStep ==
    ASSUME DriverInv, NEW r \in Regs, CancelRetire(r)
    PROVE  DriverInv'
<1> USE Constants DEF DriverInv
<1>1. asleep' = {} /\ \E place \in {"retired", "done"} : Moves(r, place)
  BY NotifyMoves DEF CancelRetire, Threads, Places, FuturePlaces
<1>2. TypeOK'
  <2>1. PcOK'
    BY <1>1, FutureMoved DEF FuturePlaces
  <2>2. token' \in [Regs -> Tokens]
    BY TokenTypes DEF CancelRetire, TypeOK, Tokens
  <2> QED
    BY <1>1, <2>1, <2>2 DEF CancelRetire, TypeOK, PcOK, Threads, Places, regVars, workerVars, Tokens, Retire
<1>3. InFlightInv'
  <2>1. InFlight' = InFlight
    BY <1>1 DEF CancelRetire, InFlight, Moves, Threads
  <2>2. IsFiniteSet(wakes') /\ wait'.inFlight = wait.inFlight
    BY DEF CancelRetire, InFlightInv, TypeOK, regVars
  <2> QED
    BY <2>1, <2>2, FlightKept
<1>4. RecordsInv'
  BY <1>1 DEF CancelRetire, RecordsInv, OwnersInv, RecordInv, WorkerInv, Moves, Threads, regVars, workerVars, Retire
<1>5. ShutdownInv'
  BY <1>1 DEF CancelRetire, ShutdownInv, Quiesced, Moves, Threads, TypeOK, regVars, Retire
<1>6. WakerInv' /\ NoLostWakeup'
  BY <1>1 DEF CancelRetire, WakerInv, NoLostWakeup, Moves, Threads, TypeOK, regVars, workerVars
<1> QED
  BY <1>2, <1>3, <1>4, <1>5, <1>6

LEMMA CancelledStep ==
    ASSUME DriverInv, NEW r \in Regs, Cancelled(r)
    PROVE  DriverInv'
<1> USE Constants DEF DriverInv
<1>1. Moves(r, "done") /\ asleep' = {}
  BY NotifyMoves DEF Cancelled, Threads, Places, FuturePlaces
<1>2. TypeOK'
  <2>1. PcOK'
    BY <1>1, FutureMoved DEF FuturePlaces
  <2>2. token' \in [Regs -> Tokens]
    BY TokenTypes DEF Cancelled, TypeOK, Tokens
  <2> QED
    BY <1>1, <2>1, <2>2 DEF Cancelled, TypeOK, PcOK, Threads, Places, regVars, workerVars, Tokens
<1>3. InFlightInv'
  <2>1. InFlight' = InFlight
    BY <1>1 DEF Cancelled, InFlight, Moves, Threads
  <2>2. IsFiniteSet(wakes') /\ wait'.inFlight = wait.inFlight
    BY DEF Cancelled, InFlightInv, TypeOK, regVars
  <2> QED
    BY <2>1, <2>2, FlightKept
<1>4. RecordsInv'
  BY <1>1 DEF Cancelled, RecordsInv, OwnersInv, RecordInv, WorkerInv, Moves, Threads, regVars, workerVars
<1>5. ShutdownInv'
  BY <1>1 DEF Cancelled, ShutdownInv, Quiesced, Moves, Threads, TypeOK, regVars
<1>6. WakerInv' /\ NoLostWakeup'
  BY <1>1 DEF Cancelled, WakerInv, NoLostWakeup, Moves, Threads, TypeOK, regVars, workerVars
<1> QED
  BY <1>2, <1>3, <1>4, <1>5, <1>6

-----------------------------------------------------------------------------
(* Steps of the worker and of the owner.                                   *)

(* A move of either leaves the futures where they are.                     *)
LEMMA ThreadMoved ==
    ASSUME TypeOK, InFlightInv, NEW t \in {Worker, Owner}, NEW place, Moves(t, place),
           wait'.inFlight = wait.inFlight, IsFiniteSet(wakes'),
           t = Worker => place \in WorkerPlaces,
           t = Owner => place \in OwnerPlaces
    PROVE  /\ PcOK' /\ InFlightInv'
           /\ \A r \in Regs : pc'[r] = pc[r]
<1>1. \A r \in Regs : pc'[r] = pc[r]
  BY Constants DEF Moves, Threads
<1>2. InFlight' = InFlight
  BY <1>1 DEF InFlight
<1> QED
  BY <1>1, <1>2, FlightKept, WorkerMoved, OwnerMoved

(* begin_shutdown, up to the point where the scheduler is shut down.       *)
LEMMA BeginShutdownStep ==
    ASSUME DriverInv, NEW t \in {Worker, Owner}, NEW error \in BOOLEAN,
           begin_shutdown(t, error),
           t = Worker => due = {} /\ firing = {},
           now' \in Instants, bound' \in 0 .. NoBound,
           UNCHANGED <<clock, due, firing, regVars, shutdown, result>>
    PROVE  DriverInv'
<1> USE Constants DEF DriverInv, regVars
<1>1. PICK place \in {"drain", "sched"} :
        /\ Moves(t, place)
        /\ place = "sched" => wait.inFlight = 0
  BY GotoMoves, NotifyMoves DEF begin_shutdown, Threads, Places, WorkerPlaces, Stopping
<1>2. /\ wait' \in [stopped : BOOLEAN, inFlight : 0 .. MaxRegistrations,
                    moved : BOOLEAN, failed : BOOLEAN]
      /\ wait'.stopped /\ wait'.inFlight = wait.inFlight
  BY DEF begin_shutdown, TypeOK
<1>3. asleep' \subseteq {Worker, Owner}
  BY DEF begin_shutdown, Notify, TypeOK
<1>4. PcOK' /\ InFlightInv' /\ \A r \in Regs : pc'[r] = pc[r]
  BY <1>1, <1>2, ThreadMoved DEF InFlightInv, WorkerPlaces, OwnerPlaces, Stopping
<1>5. TypeOK'
  BY <1>2, <1>3, <1>4 DEF TypeOK, PcOK, Threads, Places
<1>6. RecordsInv'
  BY <1>1, <1>4 DEF RecordsInv, OwnersInv, RecordInv, WorkerInv, Moves, Threads
<1>7. ShutdownInv'
  BY <1>1, <1>2 DEF ShutdownInv, Quiesced, Moves, Threads
<1>8. WakerInv' /\ NoLostWakeup'
  BY <1>4 DEF WakerInv, NoLostWakeup
<1> QED
  BY <1>4, <1>5, <1>6, <1>7, <1>8

LEMMA DrainStep ==
    ASSUME DriverInv, NEW t \in {Worker, Owner}, Drain(t)
    PROVE  DriverInv'
<1> USE Constants DEF DriverInv, regVars, workerVars
<1>1. CASE wait.inFlight # 0
  <2>1. /\ UNCHANGED <<clock, wait, wakes, deadline, registry, token, pc, now, due, firing,
                       bound, shutdown, result>>
        /\ asleep' \subseteq {Worker, Owner}
    BY <1>1 DEF Drain, TypeOK
  <2>2. InFlight' = InFlight
    BY <2>1 DEF InFlight
  <2>3. TypeOK' /\ InFlightInv'
    BY <2>1, <2>2 DEF TypeOK, InFlightInv
  <2> QED
    BY <2>1, <2>3 DEF RecordsInv, OwnersInv, RecordInv, WorkerInv, ShutdownInv, Quiesced,
                      WakerInv, NoLostWakeup
<1>2. CASE wait.inFlight = 0
  <2>1. Moves(t, "sched") /\ asleep' = {}
    BY <1>2, NotifyMoves DEF Drain, Threads, Places, WorkerPlaces, Stopping
  <2>2. PcOK' /\ InFlightInv' /\ \A r \in Regs : pc'[r] = pc[r]
    BY <2>1, ThreadMoved DEF Drain, InFlightInv, WorkerPlaces, OwnerPlaces, Stopping
  <2>3. TypeOK'
    BY <2>1, <2>2 DEF Drain, TypeOK, PcOK, Threads, Places
  <2>4. RecordsInv'
    BY <2>1, <2>2 DEF Drain, RecordsInv, OwnersInv, RecordInv, WorkerInv, Moves, Threads
  <2>5. ShutdownInv'
    BY <1>2, <2>1 DEF Drain, ShutdownInv, Quiesced, Moves, Threads
  <2>6. WakerInv' /\ NoLostWakeup'
    BY <2>2 DEF Drain, WakerInv, NoLostWakeup
  <2> QED
    BY <2>2, <2>3, <2>4, <2>5, <2>6
<1> QED
  BY <1>1, <1>2

LEMMA SchedulerShutdownStep ==
    ASSUME DriverInv, NEW t \in {Worker, Owner}, SchedulerShutdown(t)
    PROVE  DriverInv'
<1> USE Constants DEF DriverInv, regVars, workerVars
<1>1. Moves(t, IF shutdown.started THEN "schedWait" ELSE "retire")
  BY GotoMoves DEF SchedulerShutdown, Threads, Places, WorkerPlaces, Stopping
<1>2. wait' = wait /\ IsFiniteSet(wakes')
  BY FS_EmptySet DEF SchedulerShutdown, InFlightInv
<1>3. PcOK' /\ InFlightInv' /\ \A r \in Regs : pc'[r] = pc[r]
  BY <1>1, <1>2, ThreadMoved DEF WorkerPlaces, OwnerPlaces, Stopping
<1>4. /\ shutdown' \in [started : BOOLEAN, taken : SUBSET Regs, done : BOOLEAN]
      /\ shutdown'.started
      /\ \/ shutdown.started /\ wakes' = wakes /\ shutdown'.taken = shutdown.taken
         \/ ~shutdown.started /\ wakes' = {} /\ shutdown'.taken = wakes
  BY DEF SchedulerShutdown, TypeOK
<1>5. TypeOK'
  BY <1>3, <1>4 DEF SchedulerShutdown, TypeOK, PcOK, Threads, Places
<1>6. RecordsInv'
  BY <1>1, <1>3, <1>4
  DEF SchedulerShutdown, RecordsInv, OwnersInv, RecordInv, WorkerInv, ShutdownInv, Moves, Threads
<1>7. ShutdownInv'
  BY <1>1, <1>4 DEF SchedulerShutdown, ShutdownInv, Quiesced, Moves, Threads
<1>8. WakerInv' /\ NoLostWakeup'
  BY <1>3, <1>4 DEF SchedulerShutdown, ShutdownInv, WakerInv, NoLostWakeup
<1> QED
  BY <1>3, <1>5, <1>6, <1>7, <1>8

LEMMA RetireTakenStep ==
    ASSUME DriverInv, NEW t \in {Worker, Owner}, NEW r \in Regs, RetireTaken(t, r)
    PROVE  DriverInv'
<1> USE Constants DEF DriverInv, regVars, workerVars
<1>1. Moves(t, "retire") /\ asleep' = {}
  BY NotifyMoves DEF RetireTaken, Threads, Places, WorkerPlaces, Stopping
<1>2. PcOK' /\ InFlightInv' /\ \A u \in Regs : pc'[u] = pc[u]
  BY <1>1, ThreadMoved DEF RetireTaken, InFlightInv, WorkerPlaces, OwnerPlaces, Stopping
<1>3. /\ shutdown' \in [started : BOOLEAN, taken : SUBSET Regs, done : BOOLEAN]
      /\ shutdown'.started = shutdown.started
      /\ shutdown'.taken = shutdown.taken \ {r}
  BY DEF RetireTaken, TypeOK
<1>4. /\ registry' \in [entries : SUBSET Regs, shut : BOOLEAN]
      /\ registry'.shut = registry.shut
      /\ registry'.entries = registry.entries \ {r}
  BY DEF RetireTaken, Retire, TypeOK
<1>5. /\ token' \in [Regs -> Tokens]
      /\ \A u \in Regs \ {r} : token'[u] = token[u]
      /\ token'[r].woken <=> (token[r].woken \/ token[r].subscribed)
  <2>1. token \in [Regs -> Tokens] /\ token[r] \in Tokens
    BY DEF TypeOK, Tokens
  <2>2. /\ WakeLocal(Ready(token[r])) \in Tokens
        /\ WakeLocal(Ready(token[r])).woken <=> (token[r].woken \/ token[r].subscribed)
    BY <2>1, TokenTypes
  <2>3. token' = [token EXCEPT ![r] = WakeLocal(Ready(token[r]))]
    BY DEF RetireTaken
  <2> QED
    BY <2>1, <2>2, <2>3
<1>6. TypeOK'
  BY <1>1, <1>2, <1>3, <1>4, <1>5 DEF RetireTaken, TypeOK, PcOK, Threads, Places, Tokens
<1>7. RecordsInv'
  BY <1>1, <1>2, <1>3, <1>4
  DEF RetireTaken, RecordsInv, OwnersInv, RecordInv, WorkerInv, Moves, Threads
<1>8. ShutdownInv'
  BY <1>1, <1>3, <1>4 DEF RetireTaken, ShutdownInv, Quiesced, Moves, Threads
<1>9. WakerInv' /\ NoLostWakeup'
  BY <1>2, <1>3, <1>5 DEF RetireTaken, WakerInv, NoLostWakeup
<1> QED
  BY <1>2, <1>6, <1>7, <1>8, <1>9

LEMMA CloseRegistryStep ==
    ASSUME DriverInv, NEW t \in {Worker, Owner}, CloseRegistry(t)
    PROVE  DriverInv'
<1> USE Constants DEF DriverInv, regVars, workerVars
<1>1. Moves(t, AfterShutdown(t)) /\ asleep' = {}
  BY NotifyMoves DEF CloseRegistry, AfterShutdown, Threads, Places, WorkerPlaces, OwnerPlaces
<1>2. PcOK' /\ InFlightInv' /\ \A u \in Regs : pc'[u] = pc[u]
  BY <1>1, ThreadMoved DEF CloseRegistry, AfterShutdown, InFlightInv, WorkerPlaces, OwnerPlaces
<1>3. /\ shutdown' \in [started : BOOLEAN, taken : SUBSET Regs, done : BOOLEAN]
      /\ shutdown'.started = shutdown.started
      /\ shutdown'.taken = shutdown.taken
  BY DEF CloseRegistry, TypeOK
<1>4. TypeOK'
  BY <1>1, <1>2, <1>3 DEF CloseRegistry, TypeOK, PcOK, Threads, Places
<1>5. RecordsInv'
  BY <1>1, <1>2, <1>3
  DEF CloseRegistry, AfterShutdown, RecordsInv, OwnersInv, RecordInv, WorkerInv, Moves, Threads
<1>6. ShutdownInv'
  BY <1>1, <1>3 DEF CloseRegistry, AfterShutdown, ShutdownInv, Quiesced, Moves, Threads
<1>7. WakerInv' /\ NoLostWakeup'
  BY <1>2, <1>3 DEF CloseRegistry, WakerInv, NoLostWakeup
<1> QED
  BY <1>2, <1>4, <1>5, <1>6, <1>7

LEMMA AwaitShutdownStep ==
    ASSUME DriverInv, NEW t \in {Worker, Owner}, AwaitShutdown(t)
    PROVE  DriverInv'
<1> USE Constants DEF DriverInv, regVars, workerVars
<1>1. Moves(t, AfterShutdown(t))
  BY GotoMoves DEF AwaitShutdown, AfterShutdown, Threads, Places, WorkerPlaces, OwnerPlaces
<1>2. PcOK' /\ InFlightInv' /\ \A u \in Regs : pc'[u] = pc[u]
  BY <1>1, ThreadMoved DEF AwaitShutdown, AfterShutdown, InFlightInv, WorkerPlaces, OwnerPlaces
<1>4. TypeOK'
  BY <1>1, <1>2 DEF AwaitShutdown, TypeOK, PcOK, Threads, Places
<1>5. RecordsInv'
  BY <1>1, <1>2
  DEF AwaitShutdown, AfterShutdown, RecordsInv, OwnersInv, RecordInv, WorkerInv, Moves, Threads
<1>6. ShutdownInv'
  BY <1>1 DEF AwaitShutdown, AfterShutdown, ShutdownInv, Quiesced, Moves, Threads
<1>7. WakerInv' /\ NoLostWakeup'
  BY <1>2 DEF AwaitShutdown, WakerInv, NoLostWakeup
<1> QED
  BY <1>2, <1>4, <1>5, <1>6, <1>7

-----------------------------------------------------------------------------
(* The worker's loop.                                                      *)

(* A move of the worker that touches no record: the frame of most steps.   *)
LEMMA WorkerFrame ==
    ASSUME DriverInv, NEW place \in WorkerPlaces, Moves(Worker, place),
           place \in {"deliver", "wake"} => pc[Worker] = place,
           place \notin {"drain", "sched", "retire"},
           pc[Worker] \in {"deliver", "wake"} /\ place # pc[Worker] => due = {} /\ firing = {},
           wait' \in [stopped : BOOLEAN, inFlight : 0 .. MaxRegistrations,
                      moved : BOOLEAN, failed : BOOLEAN],
           wait'.inFlight = wait.inFlight, wait.stopped => wait'.stopped,
           asleep' \subseteq {Worker, Owner},
           now' \in Instants, bound' \in 0 .. NoBound,
           UNCHANGED <<clock, due, firing, regVars, shutdown, result>>
    PROVE  DriverInv'
<1> USE Constants DEF DriverInv, regVars
<1>1. PcOK' /\ InFlightInv' /\ \A u \in Regs : pc'[u] = pc[u]
  BY ThreadMoved DEF InFlightInv
<1>2. TypeOK'
  BY <1>1 DEF TypeOK, PcOK, Threads, Places
<1>3. RecordsInv'
  BY <1>1 DEF RecordsInv, OwnersInv, RecordInv, WorkerInv, Moves, Threads
<1>4. ShutdownInv'
  BY DEF ShutdownInv, Quiesced, Moves, Threads
<1>5. WakerInv' /\ NoLostWakeup'
  BY <1>1 DEF WakerInv, NoLostWakeup
<1> QED
  BY <1>1, <1>2, <1>3, <1>4, <1>5

LEMMA WorkerLoopStep ==
    ASSUME DriverInv, WorkerLoop
    PROVE  DriverInv'
<1> USE Constants DEF DriverInv
<1>0. now' \in Instants /\ bound' \in 0 .. NoBound
  <2>1. clock \in Instants /\ now \in Instants /\ NoBound \in 0 .. NoBound
    BY DEF TypeOK, NoBound
  <2>2. now' \in {clock, now} /\ bound' = NoBound
    BY DEF WorkerLoop
  <2> QED
    BY <2>1, <2>2
<1>1. CASE wait.stopped
  <2>1. begin_shutdown(Worker, FALSE) /\ due = {} /\ firing = {}
    BY <1>1 DEF WorkerLoop, RecordsInv, WorkerInv
  <2> QED
    BY <1>0, <2>1, BeginShutdownStep DEF WorkerLoop
<1>2. CASE ~wait.stopped
  <2>1. Moves(Worker, "advance")
    BY <1>2, GotoMoves DEF WorkerLoop, Threads, Places, WorkerPlaces
  <2> QED
    BY <1>0, <1>2, <2>1, WorkerFrame DEF WorkerLoop, WorkerPlaces, TypeOK
<1> QED
  BY <1>1, <1>2

LEMMA WorkerReadFailsStep ==
    ASSUME DriverInv, WorkerReadFails
    PROVE  DriverInv'
BY BeginShutdownStep DEF DriverInv, WorkerReadFails, RecordsInv, WorkerInv, workerVars, TypeOK

LEMMA AdvancedStep ==
    ASSUME DriverInv, Advanced
    PROVE  DriverInv'
<1> USE Constants DEF DriverInv
<1>0. now' \in Instants /\ bound' \in 0 .. NoBound /\ due = {} /\ firing = {}
  BY DEF Advanced, TypeOK, workerVars, RecordsInv, WorkerInv
<1>1. CASE wait.stopped
  BY <1>0, <1>1, BeginShutdownStep DEF Advanced, workerVars
<1>2. CASE ~wait.stopped
  <2>1. Moves(Worker, "epoch")
    BY <1>2, GotoMoves DEF Advanced, Threads, Places, WorkerPlaces
  <2> QED
    BY <1>0, <1>2, <2>1, WorkerFrame DEF Advanced, WorkerPlaces, TypeOK, workerVars
<1> QED
  BY <1>1, <1>2

LEMMA ReadEpochStep ==
    ASSUME DriverInv, ReadEpoch
    PROVE  DriverInv'
<1> USE Constants DEF DriverInv
<1>1. Moves(Worker, "deadline")
  BY GotoMoves DEF ReadEpoch, Threads, Places, WorkerPlaces
<1>2. /\ wait' \in [stopped : BOOLEAN, inFlight : 0 .. MaxRegistrations,
                    moved : BOOLEAN, failed : BOOLEAN]
      /\ wait'.inFlight = wait.inFlight /\ wait'.stopped = wait.stopped
  BY DEF ReadEpoch, TypeOK
<1> QED
  BY <1>1, <1>2, WorkerFrame DEF ReadEpoch, WorkerPlaces, TypeOK, workerVars

(* A set of instants that is not empty has a first one.                    *)
LEMMA FirstInstant ==
    ASSUME NEW S \in SUBSET Nat, S # {}
    PROVE  \E d \in S : \A e \in S : d <= e
<1> DEFINE R == OpToRel(<, Nat)
<1>1. IsWellFoundedOn(R, Nat)
  BY NatLessThanWellFounded
<1>2. R = {ss \in Nat \X Nat : ss[1] < ss[2]}
  BY DEF OpToRel
<1> HIDE DEF R
<1>3. PICK d \in S : \A e \in S : ~ (<<e, d>> \in R)
  BY <1>1, WFMin
<1>4. ASSUME NEW e \in S, ~(d <= e)
      PROVE  FALSE
  <2>1. <<e, d>> \in Nat \X Nat /\ e < d /\ <<e, d>>[1] = e /\ <<e, d>>[2] = d
    BY <1>4
  <2> QED
    BY <1>2, <1>3, <2>1
<1> QED
  BY <1>3, <1>4

LEMMA NextDeadlineType ==
    ASSUME TypeOK
    PROVE  NextDeadline \in 0 .. NoBound
<1> DEFINE D == {deadline[r] : r \in wakes}
           First(d) == \A r \in wakes : d <= deadline[r]
<1>1. CASE wakes = {}
  BY <1>1, Constants DEF NextDeadline, NoBound
<1>2. CASE wakes # {}
  <2>1. D \subseteq Instants /\ D \subseteq Nat /\ D # {}
    BY <1>2, Constants DEF TypeOK, Instants
  <2>2. PICK d \in D : \A e \in D : d <= e
    BY <2>1, FirstInstant
  <2>3. \E e \in D : First(e)
    BY <2>2
  <2>4. (CHOOSE e \in D : First(e)) \in D
    BY <2>3
  <2>5. \A e \in Instants : e \in 0 .. NoBound
    BY Constants DEF Instants, NoBound
  <2>6. (CHOOSE e \in D : First(e)) \in 0 .. NoBound
    <3> HIDE DEF D, First
    <3> QED
      BY <2>1, <2>4, <2>5
  <2> QED
    BY <2>6, Constants DEF NextDeadline, NoBound
<1> QED
  BY <1>1, <1>2

LEMMA ReadDeadlineStep ==
    ASSUME DriverInv, ReadDeadline
    PROVE  DriverInv'
<1> USE Constants DEF DriverInv
<1>1. Moves(Worker, "sleep")
  BY GotoMoves DEF ReadDeadline, Threads, Places, WorkerPlaces
<1>2. bound' \in 0 .. NoBound
  BY NextDeadlineType DEF ReadDeadline
<1> QED
  BY <1>1, <1>2, WorkerFrame DEF ReadDeadline, WorkerPlaces, TypeOK

LEMMA SleepStep ==
    ASSUME DriverInv, Sleep
    PROVE  DriverInv'
<1> USE Constants DEF DriverInv
<1>1. PICK place \in {"loop", "asleep"} : Moves(Worker, place)
  BY GotoMoves DEF Sleep, Threads, Places, WorkerPlaces
<1>2. asleep' \subseteq {Worker, Owner}
  BY DEF Sleep, TypeOK
<1> QED
  BY <1>1, <1>2, WorkerFrame DEF Sleep, WorkerPlaces, TypeOK, workerVars

LEMMA TimeoutStep ==
    ASSUME DriverInv, Timeout
    PROVE  DriverInv'
<1> USE Constants DEF DriverInv
<1>1. Moves(Worker, "loop")
  BY GotoMoves DEF Timeout, Threads, Places, WorkerPlaces
<1>2. asleep' \subseteq {Worker, Owner}
  BY DEF Timeout, TypeOK
<1> QED
  BY <1>1, <1>2, WorkerFrame DEF Timeout, WorkerPlaces, TypeOK, workerVars

(* The expired records go from the map to the worker's batch.              *)
LEMMA TakeDueStep ==
    ASSUME DriverInv, TakeDue
    PROVE  DriverInv'
<1> USE Constants DEF DriverInv
<1>1. Moves(Worker, "deliver")
  BY GotoMoves DEF TakeDue, Threads, Places, WorkerPlaces
<1>2. due' \subseteq wakes /\ wakes' = wakes \ due' /\ due = {} /\ firing = {} /\ firing' = {}
  BY DEF TakeDue, RecordsInv, WorkerInv
<1>3. IsFiniteSet(wakes')
  BY <1>2, FS_Subset DEF InFlightInv
<1>4. PcOK' /\ InFlightInv' /\ \A u \in Regs : pc'[u] = pc[u]
  BY <1>1, <1>3, ThreadMoved DEF TakeDue, WorkerPlaces
<1>5. TypeOK'
  BY <1>2, <1>4 DEF TakeDue, TypeOK, PcOK, Threads, Places
<1>6. RecordsInv'
  BY <1>1, <1>2, <1>4
  DEF TakeDue, RecordsInv, OwnersInv, RecordInv, WorkerInv, Moves, Threads
<1>7. ShutdownInv'
  BY <1>1 DEF TakeDue, ShutdownInv, Quiesced, Moves, Threads
<1>8. WakerInv' /\ NoLostWakeup'
  BY <1>2, <1>4 DEF TakeDue, WakerInv, NoLostWakeup
<1> QED
  BY <1>4, <1>5, <1>6, <1>7, <1>8

LEMMA CompleteStep ==
    ASSUME DriverInv, NEW r \in Regs, Complete(r)
    PROVE  DriverInv'
<1> USE Constants DEF DriverInv
<1>1. Moves(Worker, "wake") /\ asleep' = {}
  BY NotifyMoves DEF Complete, Threads, Places, WorkerPlaces
<1>2. /\ wait' \in [stopped : BOOLEAN, inFlight : 0 .. MaxRegistrations,
                    moved : BOOLEAN, failed : BOOLEAN]
      /\ wait'.inFlight = wait.inFlight /\ wait'.stopped = wait.stopped
  BY DEF Complete, TypeOK
<1>3. PcOK' /\ InFlightInv' /\ \A u \in Regs : pc'[u] = pc[u]
  BY <1>1, <1>2, ThreadMoved DEF Complete, InFlightInv, WorkerPlaces
<1>4. /\ registry' \in [entries : SUBSET Regs, shut : BOOLEAN]
      /\ registry'.shut = registry.shut
      /\ registry'.entries = registry.entries \ {r}
  BY DEF Complete, Retire, TypeOK
<1>5. /\ token' \in [Regs -> Tokens]
      /\ \A u \in Regs : token'[u].subscribed = token[u].subscribed
                         /\ token'[u].woken = token[u].woken
  <2>1. token \in [Regs -> Tokens] /\ token[r] \in Tokens
    BY DEF TypeOK, Tokens
  <2>2. /\ Ready(token[r]) \in Tokens
        /\ Ready(token[r]).subscribed = token[r].subscribed
        /\ Ready(token[r]).woken = token[r].woken
    BY <2>1, TokenTypes
  <2>3. token' = [token EXCEPT ![r] = Ready(token[r])]
    BY DEF Complete
  <2> QED
    BY <2>1, <2>2, <2>3
<1>6. TypeOK'
  BY <1>1, <1>2, <1>3, <1>4, <1>5 DEF Complete, TypeOK, PcOK, Threads, Places, Tokens
<1>7. RecordsInv'
  BY <1>1, <1>3, <1>4
  DEF Complete, RecordsInv, OwnersInv, RecordInv, WorkerInv, Moves, Threads
<1>8. ShutdownInv'
  BY <1>1, <1>2, <1>4 DEF Complete, ShutdownInv, Quiesced, Moves, Threads
<1>9. WakerInv' /\ NoLostWakeup'
  BY <1>3, <1>5 DEF Complete, RecordsInv, WorkerInv, WakerInv, NoLostWakeup
<1> QED
  BY <1>3, <1>6, <1>7, <1>8, <1>9

LEMMA FireStep ==
    ASSUME DriverInv, Fire
    PROVE  DriverInv'
<1> USE Constants DEF DriverInv
<1>1. Moves(Worker, "deliver")
  BY GotoMoves DEF Fire, Threads, Places, WorkerPlaces
<1>2. PcOK' /\ InFlightInv' /\ \A u \in Regs : pc'[u] = pc[u]
  BY <1>1, ThreadMoved DEF Fire, InFlightInv, WorkerPlaces
<1>3. /\ token' \in [Regs -> Tokens]
      /\ \A u \in Regs \ firing : token'[u] = token[u]
      /\ \A u \in firing : token'[u].woken <=> (token[u].woken \/ token[u].subscribed)
  <2>1. token \in [Regs -> Tokens] /\ firing \subseteq Regs
    BY DEF TypeOK, Tokens
  <2>2. \A u \in Regs : /\ WakeLocal(token[u]) \in Tokens
                        /\ WakeLocal(token[u]).woken <=> (token[u].woken \/ token[u].subscribed)
    BY <2>1, TokenTypes
  <2> QED
    BY <2>1, <2>2 DEF Fire
<1>4. TypeOK'
  BY <1>2, <1>3 DEF Fire, TypeOK, PcOK, Threads, Places, Tokens
<1>5. RecordsInv'
  BY <1>1, <1>2 DEF Fire, RecordsInv, OwnersInv, RecordInv, WorkerInv, Moves, Threads
<1>6. ShutdownInv'
  BY <1>1 DEF Fire, ShutdownInv, Quiesced, Moves, Threads
<1>7. WakerInv' /\ NoLostWakeup'
  BY <1>2, <1>3 DEF Fire, WakerInv, NoLostWakeup
<1> QED
  BY <1>2, <1>4, <1>5, <1>6, <1>7

-----------------------------------------------------------------------------
(* The clock and the owner.                                                *)

LEMMA LossyReadFailsStep ==
    ASSUME DriverInv, LossyReadFails
    PROVE  DriverInv'
<1> USE Constants DEF DriverInv
<1>1. PICK place \in WorkerPlaces :
        /\ Moves(Worker, place) /\ asleep' = {}
        /\ \/ place = pc[Worker]
           \/ place = "loop" /\ pc[Worker] = "asleep"
  BY NotifyMoves DEF LossyReadFails, Threads, Places, WorkerPlaces, TypeOK
<1>2. /\ wait' \in [stopped : BOOLEAN, inFlight : 0 .. MaxRegistrations,
                    moved : BOOLEAN, failed : BOOLEAN]
      /\ wait'.inFlight = wait.inFlight /\ wait'.stopped
  BY DEF LossyReadFails, TypeOK
<1>3. place \notin {"drain", "sched", "retire"}
  BY <1>1 DEF LossyReadFails, ShutdownInv, Quiesced
<1> QED
  BY <1>1, <1>2, <1>3, WorkerFrame DEF LossyReadFails, TypeOK, workerVars

LEMMA TickStep ==
    ASSUME DriverInv, Tick
    PROVE  DriverInv'
<1> USE Constants DEF DriverInv, regVars, workerVars
<1>1. TypeOK'
  BY DEF Tick, TypeOK, Instants
<1>2. InFlight' = InFlight
  BY DEF Tick, InFlight
<1>3. InFlightInv'
  BY <1>2 DEF Tick, InFlightInv
<1> QED
  BY <1>1, <1>3 DEF Tick, RecordsInv, OwnersInv, RecordInv, WorkerInv, ShutdownInv, Quiesced,
                    WakerInv, NoLostWakeup

LEMMA FinalizeStep ==
    ASSUME DriverInv, Finalize
    PROVE  DriverInv'
BY BeginShutdownStep, Constants DEF DriverInv, Finalize, workerVars, TypeOK

LEMMA JoinStep ==
    ASSUME DriverInv, Join
    PROVE  DriverInv'
<1> USE Constants DEF DriverInv, regVars, workerVars
<1>1. Moves(Owner, "done")
  BY GotoMoves DEF Join, Threads, Places, OwnerPlaces
<1>2. PcOK' /\ InFlightInv' /\ \A u \in Regs : pc'[u] = pc[u]
  BY <1>1, ThreadMoved DEF Join, InFlightInv, OwnerPlaces
<1>3. TypeOK'
  BY <1>2 DEF Join, TypeOK, PcOK, Threads, Places
<1>4. RecordsInv'
  BY <1>1, <1>2 DEF Join, RecordsInv, OwnersInv, RecordInv, WorkerInv, Moves, Threads
<1>5. ShutdownInv'
  BY <1>1 DEF Join, ShutdownInv, Quiesced, Moves, Threads
<1>6. WakerInv' /\ NoLostWakeup'
  BY <1>2 DEF Join, WakerInv, NoLostWakeup
<1> QED
  BY <1>2, <1>3, <1>4, <1>5, <1>6

LEMMA ShutdownSteps ==
    ASSUME DriverInv, NEW t \in {Worker, Owner}, ShutdownStep(t)
    PROVE  DriverInv'
BY DrainStep, SchedulerShutdownStep, RetireTakenStep, CloseRegistryStep, AwaitShutdownStep
DEF ShutdownStep

LEMMA StutterStep ==
    ASSUME DriverInv, UNCHANGED vars
    PROVE  DriverInv'
<1> USE DEF DriverInv, vars
<1>1. InFlight' = InFlight
  BY DEF InFlight
<1>2. TypeOK' /\ InFlightInv'
  BY <1>1 DEF TypeOK, InFlightInv
<1> QED
  BY <1>2 DEF RecordsInv, OwnersInv, RecordInv, WorkerInv, ShutdownInv, Quiesced,
              WakerInv, NoLostWakeup

(* The driver's inductive invariant: the count of registrations in flight  *)
(* is exact, every record is in one place and known to the wait registry,  *)
(* a batch is held only by the thread that delivers or retires it, and the *)
(* scheduler is shut down only after the registrations in flight ended.    *)
THEOREM DriverInvariant == Spec => []DriverInv
<1>1. Init => DriverInv
  BY InitDriver
<1>2. DriverInv /\ [Next]_vars => DriverInv'
  <2> SUFFICES ASSUME DriverInv, [Next]_vars PROVE DriverInv'
    OBVIOUS
  <2>1. CASE Tick
    BY <2>1, TickStep
  <2>2. CASE \E r \in Regs, d \in Instants : Admit(r, d)
    BY <2>2, AdmitStep
  <2>3. CASE \E r \in Regs : FutureStep(r) \/ Abandon(r)
    BY <2>3, RegisterWaitStep, InsertStep, FinishStep, SubscribeStep, ParkStep, PollStep,
       AbandonStep, CancelTakeStep, CancelRetireStep, CancelledStep DEF FutureStep
  <2>4. CASE WorkerStep
    BY <2>4, WorkerLoopStep, TakeDueStep, CompleteStep, FireStep, AdvancedStep, ReadEpochStep,
       ReadDeadlineStep, SleepStep, TimeoutStep, ShutdownSteps DEF WorkerStep
  <2>5. CASE WorkerReadFails \/ LossyReadFails \/ Finalize
    BY <2>5, WorkerReadFailsStep, LossyReadFailsStep, FinalizeStep
  <2>6. CASE OwnerStep
    BY <2>6, ShutdownSteps, JoinStep DEF OwnerStep
  <2>7. CASE UNCHANGED vars
    BY <2>7, StutterStep
  <2> QED
    BY <2>1, <2>2, <2>3, <2>4, <2>5, <2>6, <2>7 DEF Next
<1> QED
  BY <1>1, <1>2, PTL DEF Spec

(* register, cancel_registration, advance_to and shutdown: every admitted  *)
(* wait has its two owners or neither, whichever of them race.             *)
THEOREM OwnersAreExact == Spec => []TwoExactOwners
<1>1. DriverInv => TwoExactOwners
  BY DEF DriverInv, TwoExactOwners, RecordsInv, OwnersInv, InFlightInv, InFlight
<1> QED
  BY <1>1, DriverInvariant, PTL

(* TimeSleepFuture::poll: a future that parks after its record was taken   *)
(* has been woken, or the thread that took the record will wake it.        *)
THEOREM SleepersAreWoken == Spec => []NoLostWakeup
<1>1. DriverInv => NoLostWakeup
  BY DEF DriverInv
<1> QED
  BY <1>1, DriverInvariant, PTL

-----------------------------------------------------------------------------
(* What finalize leaves behind.                                            *)

(* The end of the shutdown, seen from the threads that wait for it.        *)
EndInv ==
    /\ shutdown.started => wakes = {}
    /\ shutdown.done => shutdown.started /\ registry.shut
    /\ pc[Owner] \in {"join", "done"} => shutdown.done
    /\ pc[Owner] = "done" => pc[Worker] = "done"

(* A step of a future moves neither the owner nor a worker that has ended. *)
LEMMA FutureEnd ==
    ASSUME DriverInv, EndInv, NEW r \in Regs,
           (\E d \in Instants : Admit(r, d)) \/ FutureStep(r) \/ Abandon(r)
    PROVE  EndInv'
<1> USE Constants DEF DriverInv
<1>1. /\ pc'[Owner] = pc[Owner]
      /\ pc[Worker] = "done" => pc'[Worker] = "done"
  BY DEF Admit, FutureStep, Abandon, RegisterWait, Insert, Finish, Subscribe, Park, Poll,
         CancelTake, CancelRetire, Cancelled, Goto, Notify, TypeOK
<1>2. UNCHANGED shutdown /\ registry'.shut = registry.shut
  BY DEF Admit, FutureStep, Abandon, RegisterWait, Insert, Finish, Subscribe, Park, Poll,
         CancelTake, CancelRetire, Cancelled, Retire, TypeOK, regVars
<1>3. wakes' \subseteq wakes \/ ~shutdown.started
  <2>1. CASE Insert(r)
    BY <2>1, FlightBusy DEF Insert, InFlight, ShutdownInv, Quiesced
  <2>2. CASE ~Insert(r)
    BY <2>2 DEF Admit, FutureStep, Abandon, RegisterWait, Finish, Subscribe, Park, Poll,
                CancelTake, CancelRetire, Cancelled, regVars
  <2> QED
    BY <2>1, <2>2
<1> QED
  BY <1>1, <1>2, <1>3 DEF EndInv

LEMMA ShutdownEnd ==
    ASSUME DriverInv, EndInv, NEW t \in {Worker, Owner}, ShutdownStep(t)
    PROVE  EndInv'
<1> USE Constants DEF DriverInv, EndInv, AfterShutdown, regVars
<1>1. CASE Drain(t)
  BY <1>1 DEF Drain, Notify, TypeOK
<1>2. CASE SchedulerShutdown(t)
  BY <1>2 DEF SchedulerShutdown, Goto, TypeOK
<1>3. ASSUME NEW r \in Regs, RetireTaken(t, r)
      PROVE  EndInv'
  BY <1>3 DEF RetireTaken, Retire, Notify, TypeOK
<1>4. CASE CloseRegistry(t)
  BY <1>4 DEF CloseRegistry, Notify, ShutdownInv, TypeOK
<1>5. CASE AwaitShutdown(t)
  BY <1>5 DEF AwaitShutdown, Goto, TypeOK
<1> QED
  BY <1>1, <1>2, <1>3, <1>4, <1>5 DEF ShutdownStep

LEMMA WorkerEnd ==
    ASSUME DriverInv, EndInv, WorkerStep \/ WorkerReadFails
    PROVE  EndInv'
<1> USE Constants DEF DriverInv, regVars
<1>1. CASE ShutdownStep(Worker)
  BY <1>1, ShutdownEnd
<1>2. CASE ~ShutdownStep(Worker)
  <2>1. pc[Worker] # "done" /\ pc'[Owner] = pc[Owner]
    BY <1>2 DEF WorkerStep, WorkerReadFails, WorkerLoop, TakeDue, Complete, Fire, Advanced,
                ReadEpoch, ReadDeadline, Sleep, Timeout, begin_shutdown, Goto, Notify, TypeOK
  <2>2. UNCHANGED shutdown /\ registry'.shut = registry.shut /\ wakes' \subseteq wakes
    BY <1>2 DEF WorkerStep, WorkerReadFails, WorkerLoop, TakeDue, Complete, Fire, Advanced,
                ReadEpoch, ReadDeadline, Sleep, Timeout, Retire, TypeOK
  <2> QED
    BY <2>1, <2>2 DEF EndInv
<1> QED
  BY <1>1, <1>2

(* finalize: when it has returned the worker has ended, and there is no    *)
(* record, no entry and no registration in flight.                         *)
FinalizedIsEmpty ==
    pc[Owner] = "done" =>
        /\ pc[Worker] = "done"
        /\ wakes \cup due \cup registry.entries = {} /\ wait.inFlight = 0

(* What FinalizeReturns promises of the state in which finalize returns    *)
(* holds for every set of registrations, whatever raced the shutdown.      *)
THEOREM FinalizeLeavesNothing == Spec => []FinalizedIsEmpty
<1>1. Init => EndInv
  BY Constants DEF Init, EndInv
<1>2. DriverInv /\ EndInv /\ [Next]_vars => EndInv'
  <2> SUFFICES ASSUME DriverInv, EndInv, [Next]_vars PROVE EndInv'
    OBVIOUS
  <2>1. CASE \E r \in Regs : (\E d \in Instants : Admit(r, d)) \/ FutureStep(r) \/ Abandon(r)
    BY <2>1, FutureEnd
  <2>2. CASE WorkerStep \/ WorkerReadFails
    BY <2>2, WorkerEnd
  <2>3. CASE ShutdownStep(Owner)
    BY <2>3, ShutdownEnd
  <2>4. CASE Join
    BY <2>4, Constants DEF Join, Goto, EndInv, DriverInv, TypeOK, regVars
  <2>5. CASE Finalize
    BY <2>5, Constants
    DEF Finalize, begin_shutdown, Goto, Notify, EndInv, DriverInv, TypeOK, regVars
  <2>6. CASE LossyReadFails
    BY <2>6, Constants DEF LossyReadFails, Notify, EndInv, DriverInv, TypeOK, regVars
  <2>7. CASE Tick \/ UNCHANGED vars
    BY <2>7 DEF Tick, EndInv, vars, regVars
  <2> QED
    BY <2>1, <2>2, <2>3, <2>4, <2>5, <2>6, <2>7 DEF Next, OwnerStep
<1>3. DriverInv /\ EndInv => FinalizedIsEmpty
  BY DEF DriverInv, EndInv, FinalizedIsEmpty, RecordsInv, OwnersInv, WorkerInv, ShutdownInv,
         Quiesced
<1> QED
  BY <1>1, <1>2, <1>3, DriverInvariant, PTL DEF Spec

=============================================================================

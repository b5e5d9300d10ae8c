------------------------- MODULE ThreadPool_proofs -------------------------
(***************************************************************************)
(* Proofs about ThreadPool, for every size of the pool and any number of   *)
(* threads and tasks.                                                      *)
(***************************************************************************)
EXTENDS ThreadPool, FiniteSetTheorems, TLAPS

(* The owner has released the tasks and not seen the end of them.          *)
Released == pc \in {"unlock", "broadcast", "await", "check", "drowsy", "asleep"}

(* Workers that have taken a task from the count and not finished it.      *)
Busy == {w \in Workers : at[w] \in {"closing", "fetch", "copy", "advance", "run",
                                    "finish", "less"}}
Idle(w) == at[w] \in {"none", "lock", "count", "drowsy", "asleep", "leave", "ended"}

(* Every active task is still counted or in the hands of a worker; before  *)
(* the release no worker has any.                                          *)
Counted ==
  ~closing =>
    IF Released THEN active = count + Cardinality(Busy)
                ELSE count = 0 /\ \A w \in Workers : Idle(w)

(* Threads that are to end have nothing in hand but what makes them end.   *)
Closed ==
  closing =>
    /\ pc \in {"count", "unlock", "broadcast", "join", "destroyed"}
    /\ \A w \in Workers : Idle(w) \/ at[w] = "closing"
    /\ pc = "count" => count = 0

(* Who is where only the holder of a mutex can be.                         *)
Exclusive ==
  /\ \A w \in Workers :
       /\ at[w] \in {"copy", "advance", "less", "last", "signal", "unlock", "leave"}
            => section = w
       /\ at[w] \in {"signal", "unlock"} => activeMutex = w
  /\ pc \in {"check", "drowsy"} => activeMutex = Owner

(* AnyActive is reset by the worker that finished the last task.           *)
LastSignals ==
  /\ \A w \in Workers : at[w] \in {"last", "signal"} => active = 0
  /\ pc = "count" /\ ~closing => anyActive
  /\ Released /\ ~closing /\ ~anyActive =>
       active = 0 /\ \A w \in Workers : at[w] \notin {"last", "signal"}

(* A task that is being added has a slot and a number.                     *)
HasSlot ==
  /\ pc = "store" => active < PoolSize
  /\ pc \in {"create", "full", "store"} => added < MaxTasks
  /\ pc = "create" => created < MaxAllowedThreads
  /\ back = "store" /\ (Released \/ pc \in {"wait", "count"}) => added < MaxTasks \/ closing

Inv == TypeOK /\ Counted /\ Closed /\ Exclusive /\ LastSignals /\ HasSlot

-----------------------------------------------------------------------------
(* Workers, and how many of them are busy.                                 *)

(* The constants are numbers.                                              *)
LEMMA Numbers ==
  /\ MaxAllowedThreads \in Nat \ {0}
  /\ Owner \in Holders /\ Nobody \in Holders /\ Workers \subseteq Holders
  /\ Owner # Nobody
  /\ \A w \in Workers : w # Owner /\ w # Nobody
  BY PoolAssumption DEF MaxAllowedThreads, Owner, Nobody, Holders, Workers

(* There are finitely many busy workers.                                   *)
LEMMA BusyFinite == IsFiniteSet(Busy) /\ Cardinality(Busy) \in Nat
<1>1. IsFiniteSet(Workers)
  BY FS_Interval, Numbers DEF Workers
<1>2. IsFiniteSet(Busy)
  BY <1>1, FS_Subset DEF Busy
<1> QED
  BY <1>2, FS_CardinalityType

(* A worker that takes a task makes one more busy worker.                  *)
LEMMA OneMoreBusy ==
  ASSUME NEW w \in Workers, w \notin Busy, Busy' = Busy \cup {w}
  PROVE  Cardinality(Busy') = Cardinality(Busy) + 1
  BY BusyFinite, FS_AddElement

(* A worker that has finished its task is busy no more.                    *)
LEMMA OneFewerBusy ==
  ASSUME NEW w \in Workers, w \in Busy, Busy' = Busy \ {w}
  PROVE  Cardinality(Busy') = Cardinality(Busy) - 1
  BY BusyFinite, FS_RemoveElement

(* No worker is busy if their number is zero.                              *)
LEMMA NoneBusy ==
  /\ (\A w \in Workers : Idle(w)) => Busy = {} /\ Cardinality(Busy) = 0
  /\ Cardinality(Busy) = 0 => Busy = {}
<1>1. Cardinality(Busy) = 0 <=> Busy = {}
  BY BusyFinite, FS_EmptySet
<1>2. (\A w \in Workers : Idle(w)) => Busy = {}
  BY DEF Idle, Busy
<1> QED
  BY <1>1, <1>2

-----------------------------------------------------------------------------
(* Types.                                                                  *)

(* The ring stays a ring of tasks.                                         *)
LEMMA RingNext ==
  ASSUME PoolSize \in Nat \ {0}, NEW s \in Slots
  PROVE  (s + 1) % PoolSize \in Slots
  BY DEF Slots

(* Every step keeps the types and the bounds.                              *)
LEMMA TypeNext ==
  TypeOK /\ Counted /\ Closed /\ HasSlot /\ [Next]_vars => TypeOK'
<1> SUFFICES ASSUME TypeOK, Counted, Closed, HasSlot, [Next]_vars PROVE TypeOK'
  OBVIOUS
<1> USE PoolAssumption, Numbers DEF TypeOK, OwnerPlaces, WorkerPlaces, owner, ring, locks,
        worker
<1>1. CASE AddTask
  BY <1>1 DEF AddTask
<1>2. ASSUME NEW then \in {"idle", "close"}, WaitDone(then) PROVE TypeOK'
  BY <1>2 DEF WaitDone
<1>3. ASSUME NEW w \in Workers, CreateThread(w) PROVE TypeOK'
  BY <1>3 DEF CreateThread, Workers
<1>4. CASE CreateFails
  BY <1>4 DEF CreateFails
<1>5. CASE IfFull
  BY <1>5 DEF IfFull
<1>6. CASE Store
  <2>1. top' \in Slots
    BY <1>6, RingNext DEF Store
  <2>2. added' \in 0 .. MaxTasks /\ active' \in 0 .. PoolSize
    BY <1>6 DEF Store, HasSlot
  <2> QED
    BY <1>6, <2>1, <2>2 DEF Store
<1>7. CASE IfActive
  BY <1>7 DEF IfActive
<1>8. CASE Close
  BY <1>8 DEF Close
<1>9. CASE Release
  BY <1>9 DEF Release, Counted, Closed, Released
<1>10. CASE UnlockCount
  BY <1>10 DEF UnlockCount
<1>11. CASE Broadcast
  BY <1>11 DEF Broadcast
<1>12. CASE AwaitDone
  BY <1>12 DEF AwaitDone
<1>13. CASE CheckDone
  BY <1>13 DEF CheckDone
<1>14. CASE OwnerSleeps
  BY <1>14 DEF OwnerSleeps
<1>15. CASE Join
  BY <1>15 DEF Join
<1>16. CASE OwnerWakes
  BY <1>16 DEF OwnerWakes
<1>17. ASSUME NEW w \in Workers, LockCount(w) PROVE TypeOK'
  BY <1>17 DEF LockCount, Goes
<1>18. ASSUME NEW w \in Workers, NothingQueued(w) PROVE TypeOK'
  BY <1>18 DEF NothingQueued, Goes
<1>19. ASSUME NEW w \in Workers, Sleep(w) PROVE TypeOK'
  BY <1>19 DEF Sleep, Goes
<1>20. ASSUME NEW w \in Workers, TakeCount(w) PROVE TypeOK'
  BY <1>20 DEF TakeCount, Goes
<1>21. ASSUME NEW w \in Workers, CheckClosing(w) PROVE TypeOK'
  BY <1>21 DEF CheckClosing, Goes
<1>22. ASSUME NEW w \in Workers, EnterFetch(w) PROVE TypeOK'
  BY <1>22 DEF EnterFetch, Goes
<1>23. ASSUME NEW w \in Workers, CopyTask(w) PROVE TypeOK'
  BY <1>23 DEF CopyTask, Goes
<1>24. ASSUME NEW w \in Workers, Advance(w) PROVE TypeOK'
  <2>1. bottom' \in Slots
    BY <1>24, RingNext DEF Advance
  <2> QED
    BY <1>24, <2>1 DEF Advance, Goes
<1>25. ASSUME NEW w \in Workers, Run(w) PROVE TypeOK'
  <2>1. runs' \in [1 .. MaxTasks -> Nat]
    <3>1. CASE task[w] \in 1 .. MaxTasks
      BY <1>25, <3>1 DEF Run
    <3>2. CASE task[w] \notin 1 .. MaxTasks
      BY <1>25, <3>2, runs' = runs DEF Run
    <3> QED
      BY <3>1, <3>2
  <2> QED
    BY <1>25, <2>1 DEF Run, Goes
<1>26. ASSUME NEW w \in Workers, EnterFinish(w) PROVE TypeOK'
  BY <1>26 DEF EnterFinish, Goes
<1>27. ASSUME NEW w \in Workers, OneLess(w) PROVE TypeOK'
  <2>1. w \in Busy /\ ~closing
    BY <1>27 DEF OneLess, Goes, Busy, Closed, Idle
  <2>2. active > 0
    BY <1>27, <2>1, BusyFinite, NoneBusy DEF Counted
  <2> QED
    BY <1>27, <2>2 DEF OneLess, Goes
<1>28. ASSUME NEW w \in Workers, LockActive(w) PROVE TypeOK'
  BY <1>28 DEF LockActive, Goes
<1>29. ASSUME NEW w \in Workers, Signal(w) PROVE TypeOK'
  BY <1>29 DEF Signal, Goes
<1>30. ASSUME NEW w \in Workers, UnlockActive(w) PROVE TypeOK'
  BY <1>30 DEF UnlockActive, Goes
<1>31. ASSUME NEW w \in Workers, Leave(w) PROVE TypeOK'
  BY <1>31 DEF Leave, Goes
<1>32. ASSUME NEW w \in Workers, Wake(w) PROVE TypeOK'
  BY <1>32 DEF Wake, Goes
<1>33. CASE UNCHANGED vars
  BY <1>33 DEF vars
<1> QED
  BY <1>1, <1>2, <1>3, <1>4, <1>5, <1>6, <1>7, <1>8, <1>9, <1>10, <1>11, <1>12,
     <1>13, <1>14, <1>15, <1>16, <1>17, <1>18, <1>19, <1>20, <1>21, <1>22, <1>23,
     <1>24, <1>25, <1>26, <1>27, <1>28, <1>29, <1>30, <1>31, <1>32, <1>33 DEF
     Next, Caller, Inside, PoolThread

-----------------------------------------------------------------------------
(* The count of tasks.                                                     *)

(* Steps that change neither who is busy nor who is idle.                  *)
LEMMA QuietSteps ==
  ASSUME TypeOK, at' = at
  PROVE  Busy' = Busy /\ \A w \in Workers : Idle(w)' <=> Idle(w)
  BY DEF Busy, Idle

(* A step of a worker leaves the other workers alone.                      *)
LEMMA GoesKeepsOthers ==
  ASSUME TypeOK, NEW w \in Workers, NEW from, NEW to, Goes(w, from, to)
  PROVE  /\ at[w] = from /\ at'[w] = to
         /\ \A v \in Workers \ {w} : at'[v] = at[v]
  BY DEF TypeOK, Goes

(* The counters agree with the workers after every step.                   *)
LEMMA CountedNext == Inv /\ [Next]_vars => Counted'
<1> SUFFICES ASSUME Inv, [Next]_vars, ~closing' PROVE Counted'
  BY DEF Counted
<1> USE Numbers DEF owner, ring, locks, worker
<1>0. TypeOK /\ Counted
  BY DEF Inv
<1>1. ~closing
  <2>1. CASE Close
    BY <2>1 DEF Close
  <2>2. CASE ~Close
    BY <2>2 DEF Next, Caller, Inside, PoolThread, vars, AddTask, WaitDone, CreateThread,
       CreateFails, IfFull, Store, IfActive, Release, UnlockCount, Broadcast,
       AwaitDone, CheckDone, OwnerSleeps, Join, OwnerWakes, Wake, LockCount,
       NothingQueued, Sleep, TakeCount, CheckClosing, EnterFetch, CopyTask, Advance,
       Run, EnterFinish, OneLess, LockActive, Signal, UnlockActive, Leave
  <2> QED
    BY <2>1, <2>2
<1>2. ASSUME UNCHANGED <<active, count, at>>, Released' = Released PROVE Counted'
  BY <1>0, <1>1, <1>2, QuietSteps DEF Counted
<1>3. ASSUME ~Released, ~Released', UNCHANGED <<count, at>> PROVE Counted'
  BY <1>0, <1>1, <1>3, QuietSteps DEF Counted
<1>4. CASE Caller
  BY <1>2, <1>4 DEF Caller, AddTask, WaitDone, Released
<1>5. CASE Inside
  <2>1. ASSUME NEW w \in Workers, CreateThread(w) PROVE Counted'
    BY <1>0, <1>1, <2>1 DEF CreateThread, Counted, Released, Idle, TypeOK
  <2>2. CASE Store
    BY <1>3, <2>2 DEF Store, Released
  <2>3. CASE IfActive
    <3>1. back \notin {"unlock", "broadcast", "await", "check", "drowsy", "asleep"}
      BY <1>0 DEF TypeOK
    <3> QED
      BY <1>2, <2>3, <3>1 DEF IfActive, Released
  <2>4. CASE Release
    <3>1. count = 0 /\ Cardinality(Busy) = 0 /\ Busy' = Busy
      BY <1>0, <1>1, <2>4, NoneBusy, QuietSteps DEF Release, Counted, Released
    <3>2. Released' /\ count' = active /\ active' = active
      BY <1>0, <1>1, <2>4, <3>1 DEF Release, Released, TypeOK
    <3> QED
      BY <1>0, <3>1, <3>2 DEF Counted, TypeOK
  <2>5. CASE Broadcast
    <3>1. Busy' = Busy
      BY <1>0, <2>5 DEF Broadcast, Busy, TypeOK
    <3>2. Released /\ Released' /\ UNCHANGED <<active, count>>
      BY <1>1, <2>5 DEF Broadcast, Released
    <3> QED
      BY <1>0, <1>1, <3>1, <3>2 DEF Counted
  <2>6. CASE CheckDone
    <3>1. CASE anyActive
      BY <1>2, <2>6, <3>1 DEF CheckDone, Released
    <3>2. CASE ~anyActive
      <4>1. ~Released' /\ Released /\ UNCHANGED <<count, at>>
        BY <1>0, <2>6, <3>2 DEF CheckDone, Released, TypeOK
      <4>2. active = 0 /\ \A w \in Workers : at[w] \notin {"last", "signal"}
        BY <1>1, <3>2, <4>1 DEF Inv, LastSignals
      <4>3. count = 0 /\ Busy = {}
        BY <1>0, <1>1, <4>1, <4>2, BusyFinite, NoneBusy DEF Counted, TypeOK
      <4>4. \A w \in Workers : at[w] # "unlock"
        BY <2>6 DEF CheckDone, Inv, Exclusive
      <4>5. \A w \in Workers : Idle(w)
        BY <1>0, <4>2, <4>3, <4>4 DEF Busy, Idle, TypeOK, WorkerPlaces
      <4> QED
        BY <4>1, <4>3, <4>5, <1>0, QuietSteps DEF Counted
    <3> QED
      BY <3>1, <3>2
  <2> QED
    BY <1>2, <1>5, <2>1, <2>2, <2>3, <2>4, <2>5, <2>6, ~Close DEF Inside, CreateFails,
       IfFull, UnlockCount, AwaitDone, OwnerSleeps, Join, Released, Close
<1>6. CASE OwnerWakes
  BY <1>2, <1>6 DEF OwnerWakes, Released
<1>7. ASSUME NEW w \in Workers, NEW from, NEW to, Goes(w, from, to), Released' = Released,
             UNCHANGED <<active, count>>,
             from \in {"lock", "count", "drowsy", "asleep", "leave"},
             to \in {"lock", "count", "drowsy", "asleep"}
      PROVE  Counted'
  <2>1. Busy' = Busy
    BY <1>0, <1>7, GoesKeepsOthers DEF Busy
  <2>2. (\A v \in Workers : Idle(v)) => \A v \in Workers : Idle(v)'
    BY <1>0, <1>7, GoesKeepsOthers DEF Idle
  <2> QED
    BY <1>0, <1>1, <1>7, <2>1, <2>2 DEF Counted
<1>8. ASSUME NEW w \in Workers, ~Idle(w) PROVE Released
  BY <1>0, <1>1, <1>8 DEF Counted
<1>9. ASSUME NEW w \in Workers, PoolThread(w) PROVE Counted'
  <2>1. CASE TakeCount(w)
    <3>1. Released /\ Released' /\ active' = active /\ count' = count - 1
      BY <1>0, <1>1, <2>1 DEF TakeCount, Counted, Released
    <3>2. w \notin Busy /\ Busy' = Busy \cup {w}
      BY <1>0, <2>1, GoesKeepsOthers DEF TakeCount, Busy
    <3>3. Cardinality(Busy') = Cardinality(Busy) + 1
      BY <3>2, OneMoreBusy
    <3> QED
      BY <1>0, <1>1, <3>1, <3>3, BusyFinite DEF Counted, TypeOK
  <2>2. CASE OneLess(w)
    <3>1. Released /\ Released' /\ active' = active - 1 /\ count' = count
      BY <1>8, <2>2 DEF OneLess, Goes, Idle, Released
    <3>2. w \in Busy /\ Busy' = Busy \ {w}
      BY <1>0, <2>2, GoesKeepsOthers DEF OneLess, Busy
    <3>3. Cardinality(Busy') = Cardinality(Busy) - 1
      BY <3>2, OneFewerBusy
    <3> QED
      BY <1>0, <1>1, <3>1, <3>3, BusyFinite DEF Counted, TypeOK
  <2>3. ASSUME NEW from, NEW to, Goes(w, from, to), Released' = Released,
               UNCHANGED <<active, count>>,
               \/ /\ from \in {"closing", "fetch", "copy", "advance", "run", "finish"}
                  /\ to \in {"fetch", "copy", "advance", "run", "finish", "less"}
               \/ /\ from \in {"last", "signal", "unlock"}
                  /\ to \in {"signal", "unlock", "leave"}
        PROVE  Counted'
    <3>1. Released
      BY <1>8, <2>3 DEF Goes, Idle
    <3>2. Busy' = Busy
      BY <1>0, <2>3, GoesKeepsOthers DEF Busy
    <3> QED
      BY <1>0, <1>1, <2>3, <3>1, <3>2 DEF Counted
  <2>4. CASE Signal(w)
    <3>1. Released' = Released
      BY <2>4 DEF Signal, Released
    <3> QED
      BY <2>3, <2>4, <3>1 DEF Signal
  <2>5. CASE LockCount(w) \/ NothingQueued(w) \/ Sleep(w) \/ Leave(w)
    BY <1>7, <2>5 DEF LockCount, NothingQueued, Sleep, Leave, Released
  <2>6. CASE CheckClosing(w)
    BY <1>1, <2>3, <2>6 DEF CheckClosing, Released
  <2>7. CASE EnterFetch(w) \/ CopyTask(w) \/ Advance(w) \/ Run(w)
    BY <2>3, <2>7 DEF EnterFetch, CopyTask, Advance, Run, Released
  <2>8. CASE EnterFinish(w) \/ LockActive(w) \/ UnlockActive(w)
    BY <2>3, <2>8 DEF EnterFinish, LockActive, UnlockActive, Released
  <2> QED
    BY <1>9, <2>1, <2>2, <2>4, <2>5, <2>6, <2>7, <2>8 DEF PoolThread
<1>10. ASSUME NEW w \in Workers, Wake(w) PROVE Counted'
  BY <1>7, <1>10 DEF Wake, Released
<1>11. CASE UNCHANGED vars
  BY <1>2, <1>11 DEF vars, Released
<1> QED
  BY <1>4, <1>5, <1>6, <1>9, <1>10, <1>11 DEF Next

-----------------------------------------------------------------------------
(* The end of the threads.                                                 *)

(* After the pool is closed workers only end.                              *)
LEMMA ClosedNext == Inv /\ [Next]_vars => Closed'
<1> SUFFICES ASSUME Inv, [Next]_vars, closing' PROVE Closed'
  BY DEF Closed
<1> USE Numbers DEF owner, ring, locks, worker
<1>0. TypeOK /\ Closed
  BY DEF Inv
<1>1. CASE ~closing
  <2>1. Close
    BY <1>1 DEF Next, Caller, Inside, PoolThread, vars, AddTask, WaitDone, CreateThread,
       CreateFails, IfFull, Store, IfActive, Release, UnlockCount, Broadcast,
       AwaitDone, CheckDone, OwnerSleeps, Join, OwnerWakes, Wake, LockCount,
       NothingQueued, Sleep, TakeCount, CheckClosing, EnterFetch, CopyTask, Advance,
       Run, EnterFinish, OneLess, LockActive, Signal, UnlockActive, Leave
  <2>2. count = 0 /\ \A w \in Workers : Idle(w)
    BY <1>1, <2>1 DEF Inv, Counted, Close, Released
  <2>3. count' = 0 /\ \A w \in Workers : Idle(w)'
    BY <1>0, <2>1, <2>2, QuietSteps DEF Close
  <2> QED
    BY <2>1, <2>3 DEF Closed, Close
<1>2. CASE closing
  <2>0. /\ pc \in {"count", "unlock", "broadcast", "join", "destroyed"}
        /\ \A w \in Workers : Idle(w) \/ at[w] = "closing"
        /\ pc = "count" => count = 0
    BY <1>0, <1>2 DEF Closed
  <2>1. CASE Release \/ UnlockCount \/ Join \/ UNCHANGED vars
    BY <1>0, <2>0, <2>1, QuietSteps DEF Release, UnlockCount, Join, vars, Closed
  <2>2. CASE Broadcast
    BY <1>0, <1>2, <2>0, <2>2 DEF Broadcast, Closed, Idle, TypeOK
  <2>3. ASSUME NEW w \in Workers, NEW from, NEW to, Goes(w, from, to), pc' = pc,
               to \in {"lock", "count", "drowsy", "asleep", "closing", "ended"},
               count' = count \/ pc # "count"
        PROVE  Closed'
    <3>1. \A v \in Workers : Idle(v)' \/ at'[v] = "closing"
      BY <1>0, <2>0, <2>3, GoesKeepsOthers DEF Idle
    <3> QED
      BY <2>0, <2>3, <3>1 DEF Closed
  <2>4. ASSUME NEW w \in Workers, LockCount(w) \/ NothingQueued(w) \/ Sleep(w) \/ Leave(w)
        PROVE  Closed'
    BY <2>3, <2>4 DEF LockCount, NothingQueued, Sleep, Leave
  <2>5. ASSUME NEW w \in Workers, TakeCount(w) PROVE Closed'
    <3>1. pc # "count"
      BY <2>0, <2>5 DEF TakeCount
    <3> QED
      BY <2>3, <2>5, <3>1 DEF TakeCount
  <2>6. ASSUME NEW w \in Workers, CheckClosing(w) PROVE Closed'
    BY <1>2, <2>3, <2>6 DEF CheckClosing
  <2>7. ASSUME NEW w \in Workers, Wake(w) PROVE Closed'
    BY <2>3, <2>7 DEF Wake
  <2>8. ~ \E w \in Workers :
            \/ EnterFetch(w) \/ CopyTask(w) \/ Advance(w) \/ Run(w) \/ EnterFinish(w)
            \/ OneLess(w) \/ LockActive(w) \/ Signal(w) \/ UnlockActive(w)
    BY <2>0 DEF Idle, Goes, EnterFetch, CopyTask, Advance, Run, EnterFinish, OneLess,
       LockActive, Signal, UnlockActive
  <2>9. /\ ~Caller /\ ~OwnerWakes /\ ~(\E w \in Workers : CreateThread(w))
        /\ ~CreateFails /\ ~IfFull /\ ~Store /\ ~IfActive /\ ~Close /\ ~AwaitDone
        /\ ~CheckDone /\ ~OwnerSleeps
    BY <2>0 DEF Caller, AddTask, WaitDone, OwnerWakes, CreateThread, CreateFails, IfFull,
       Store, IfActive, Close, AwaitDone, CheckDone, OwnerSleeps
  <2> QED
    BY <2>1, <2>2, <2>4, <2>5, <2>6, <2>7, <2>8, <2>9 DEF Next, Inside, PoolThread
<1> QED
  BY <1>1, <1>2

-----------------------------------------------------------------------------
(* The mutexes.                                                            *)

(* Where a worker is inside the critical section, or holds AnyActiveMutex. *)
Inner == {"copy", "advance", "less", "last", "signal", "unlock", "leave"}

(* Places behind a lock have one thread.                                   *)
LEMMA ExclusiveNext == Inv /\ [Next]_vars => Exclusive'
<1> SUFFICES ASSUME Inv, [Next]_vars PROVE Exclusive'
  OBVIOUS
<1> USE Numbers DEF owner, ring, locks, worker
<1>0. TypeOK /\ Exclusive
  BY DEF Inv
<1>1. ASSUME UNCHANGED <<section, at>>,
             activeMutex \in {Owner, Nobody} \/ activeMutex' = activeMutex,
             pc' \in {"check", "drowsy"} => activeMutex' = Owner
      PROVE  Exclusive'
  <2>1. \A w \in Workers : at[w] \in {"signal", "unlock"} => activeMutex' = w
    BY <1>0, <1>1 DEF Exclusive
  <2> QED
    BY <1>0, <1>1, <2>1 DEF Exclusive
<1>2. ASSUME UNCHANGED <<section, activeMutex>>, pc' \notin {"check", "drowsy"},
             at' \in [Workers -> WorkerPlaces],
             \A w \in Workers : at'[w] = at[w] \/ at'[w] = "lock"
      PROVE  Exclusive'
  BY <1>0, <1>2 DEF Exclusive
<1>3. CASE Caller \/ OwnerWakes \/ UNCHANGED vars
  BY <1>0, <1>1, <1>3 DEF Caller, AddTask, WaitDone, OwnerWakes, vars, Exclusive
<1>4. CASE Inside
  <2>1. ASSUME NEW w \in Workers, CreateThread(w) PROVE Exclusive'
    BY <1>0, <1>2, <2>1, TypeNext DEF CreateThread, TypeOK, WorkerPlaces
  <2>2. CASE CreateFails \/ IfFull \/ Store \/ Close \/ Release \/ UnlockCount \/ Join
    BY <1>1, <2>2 DEF CreateFails, IfFull, Store, Close, Release, UnlockCount, Join
  <2>3. CASE IfActive
    BY <1>0, <1>1, <2>3 DEF IfActive, TypeOK
  <2>4. CASE Broadcast
    BY <1>0, <1>2, <2>4 DEF Broadcast, TypeOK, WorkerPlaces
  <2>5. CASE AwaitDone
    BY <1>1, <2>5 DEF AwaitDone
  <2>6. CASE CheckDone
    BY <1>0, <1>1, <2>6 DEF CheckDone, TypeOK, Exclusive
  <2>7. CASE OwnerSleeps
    BY <1>0, <1>1, <2>7 DEF OwnerSleeps, Exclusive
  <2> QED
    BY <1>4, <2>1, <2>2, <2>3, <2>4, <2>5, <2>6, <2>7 DEF Inside
<1>5. ASSUME NEW w \in Workers, NEW from, NEW to, Goes(w, from, to),
             \/ UNCHANGED section
             \/ section = Nobody
             \/ section = w,
             to \in Inner => section' = w,
             UNCHANGED activeMutex \/ activeMutex \in {Nobody, w},
             to \in {"signal", "unlock"} => activeMutex' = w,
             pc' \in {"check", "drowsy"} => pc' = pc
      PROVE  Exclusive'
  <2>1. ASSUME NEW v \in Workers
        PROVE  /\ at'[v] \in Inner => section' = v
               /\ at'[v] \in {"signal", "unlock"} => activeMutex' = v
    <3>1. CASE v = w
      BY <1>0, <1>5, <3>1, GoesKeepsOthers
    <3>2. CASE v # w
      <4>1. at'[v] = at[v]
        BY <1>0, <1>5, <3>2, GoesKeepsOthers
      <4> QED
        BY <1>0, <1>5, <3>2, <4>1 DEF Exclusive, Inner
    <3> QED
      BY <3>1, <3>2
  <2>2. pc' \in {"check", "drowsy"} => activeMutex' = Owner
    BY <1>0, <1>5 DEF Exclusive
  <2> QED
    BY <2>1, <2>2 DEF Exclusive, Inner
<1>6. ASSUME NEW w \in Workers, PoolThread(w) PROVE Exclusive'
  <2>1. CASE LockCount(w) \/ NothingQueued(w) \/ Sleep(w) \/ TakeCount(w)
    BY <1>5, <2>1 DEF LockCount, NothingQueued, Sleep, TakeCount, Inner
  <2>2. CASE CheckClosing(w)
    BY <1>5, <2>2 DEF CheckClosing, Inner
  <2>3. CASE EnterFetch(w)
    BY <1>5, <2>3 DEF EnterFetch, Inner
  <2>4. CASE CopyTask(w)
    BY <1>0, <1>5, <2>4 DEF CopyTask, Inner, Exclusive, Goes
  <2>5. CASE Advance(w)
    BY <1>0, <1>5, <2>5 DEF Advance, Inner, Exclusive, Goes
  <2>6. CASE Run(w)
    BY <1>5, <2>6 DEF Run, Inner
  <2>7. CASE EnterFinish(w)
    BY <1>5, <2>7 DEF EnterFinish, Inner
  <2>8. CASE OneLess(w)
    BY <1>0, <1>5, <2>8 DEF OneLess, Inner, Exclusive, Goes
  <2>9. CASE LockActive(w)
    BY <1>0, <1>5, <2>9 DEF LockActive, Inner, Exclusive, Goes
  <2>10. CASE Signal(w)
    BY <1>0, <1>5, <2>10 DEF Signal, Inner, Exclusive, Goes
  <2>11. CASE UnlockActive(w)
    BY <1>0, <1>5, <2>11 DEF UnlockActive, Inner, Exclusive, Goes
  <2>12. CASE Leave(w)
    BY <1>0, <1>5, <2>12 DEF Leave, Inner, Exclusive, Goes
  <2> QED
    BY <1>6, <2>1, <2>2, <2>3, <2>4, <2>5, <2>6, <2>7, <2>8, <2>9, <2>10, <2>11,
       <2>12 DEF PoolThread
<1>7. ASSUME NEW w \in Workers, Wake(w) PROVE Exclusive'
  BY <1>5, <1>7 DEF Wake, Inner
<1> QED
  BY <1>3, <1>4, <1>6, <1>7 DEF Next

-----------------------------------------------------------------------------
(* The report that nothing is active.                                      *)

(* The last worker is the one that signals.                                *)
LEMMA LastSignalsNext == Inv /\ [Next]_vars => LastSignals'
<1> SUFFICES ASSUME Inv, [Next]_vars PROVE LastSignals'
  OBVIOUS
<1> USE Numbers DEF owner, ring, locks, worker
<1> DEFINE Reports(w) == at[w] \in {"last", "signal"}
<1>0. TypeOK /\ Counted /\ Closed /\ LastSignals /\ Exclusive
  BY DEF Inv
<1>1. \A w \in Workers : ~Idle(w) => Released \/ closing
  BY <1>0 DEF Counted
<1>2. ASSUME UNCHANGED <<active, anyActive, closing>>,
             \A w \in Workers : Reports(w)' => Reports(w),
             pc' = "count" => pc = "count",
             Released' => Released \/ anyActive \/ closing
      PROVE  LastSignals'
  BY <1>0, <1>2 DEF LastSignals
<1>3. CASE Caller
  BY <1>2, <1>3 DEF Caller, AddTask, WaitDone, Released
<1>4. CASE Inside
  <2>1. ASSUME NEW w \in Workers, CreateThread(w) PROVE LastSignals'
    <3>1. \A v \in Workers : Reports(v)' => Reports(v)
      BY <1>0, <2>1 DEF CreateThread, TypeOK
    <3> QED
      BY <1>2, <2>1, <3>1 DEF CreateThread, Released
  <2>2. CASE CreateFails \/ IfFull \/ UnlockCount \/ AwaitDone \/ OwnerSleeps \/ Join
    BY <1>2, <2>2 DEF CreateFails, IfFull, UnlockCount, AwaitDone, OwnerSleeps, Join,
       Released
  <2>3. CASE Store
    <3>1. \A w \in Workers : ~Reports(w)
      BY <1>0, <1>1, <2>3 DEF Store, Idle, Released, Closed
    <3> QED
      BY <2>3, <3>1 DEF Store, LastSignals, Released
  <2>4. CASE IfActive
    <3>1. back \in {"idle", "store", "close"}
      BY <1>0 DEF TypeOK
    <3>2. \A w \in Workers : ~Reports(w)
      BY <1>0, <1>1, <2>4 DEF IfActive, Idle, Released, Closed
    <3> QED
      BY <2>4, <3>1, <3>2 DEF IfActive, LastSignals, Released
  <2>5. CASE Close
    BY <1>0, <2>5 DEF Close, LastSignals
  <2>6. CASE Release
    BY <1>0, <1>2, <2>6 DEF Release, LastSignals
  <2>7. CASE Broadcast
    <3>1. \A v \in Workers : Reports(v)' => Reports(v)
      BY <1>0, <2>7 DEF Broadcast, TypeOK
    <3> QED
      BY <1>2, <2>7, <3>1 DEF Broadcast, Released
  <2>8. CASE CheckDone
    <3>1. back # "count"
      BY <1>0 DEF TypeOK
    <3> QED
      BY <1>2, <2>8, <3>1 DEF CheckDone, Released
  <2> QED
    BY <1>4, <2>1, <2>2, <2>3, <2>4, <2>5, <2>6, <2>7, <2>8 DEF Inside
<1>5. CASE OwnerWakes
  BY <1>2, <1>5 DEF OwnerWakes, Released
<1>6. ASSUME NEW w \in Workers, NEW from, NEW to, Goes(w, from, to),
             UNCHANGED <<active, anyActive, closing, pc>>,
             to \notin {"last", "signal"}
      PROVE  LastSignals'
  <2>1. \A v \in Workers : Reports(v)' => Reports(v)
    BY <1>0, <1>6, GoesKeepsOthers
  <2> QED
    BY <1>2, <1>6, <2>1 DEF Released
<1>7. ASSUME NEW w \in Workers, PoolThread(w) PROVE LastSignals'
  <2>1. CASE OneLess(w)
    <3>1. Released /\ ~closing /\ pc' = pc
      BY <1>0, <1>1, <2>1 DEF OneLess, Goes, Idle, Closed
    <3>2. w \in Busy
      BY <2>1 DEF OneLess, Goes, Busy
    <3>3. active # 0
      BY <1>0, <3>1, <3>2, BusyFinite, NoneBusy DEF Counted, TypeOK
    <3>4. anyActive /\ anyActive' = anyActive
      BY <1>0, <2>1, <3>1, <3>3 DEF OneLess, LastSignals
    <3>5. \A v \in Workers : Reports(v)' => active' = 0
      <4>1. ASSUME NEW v \in Workers \ {w} PROVE ~Reports(v)'
        BY <1>0, <2>1, <4>1, GoesKeepsOthers DEF OneLess, Exclusive
      <4>2. Reports(w)' => active' = 0
        BY <1>0, <2>1, GoesKeepsOthers DEF OneLess
      <4> QED
        BY <4>1, <4>2
    <3> QED
      BY <3>1, <3>4, <3>5 DEF LastSignals, Released
  <2>2. CASE LockActive(w)
    <3>1. Reports(w) /\ \A v \in Workers : Reports(v)' => Reports(v)
      BY <1>0, <2>2, GoesKeepsOthers DEF LockActive, Goes
    <3> QED
      BY <1>2, <2>2, <3>1 DEF LockActive, Released
  <2>3. CASE Signal(w)
    <3>1. active' = 0
      BY <1>0, <2>3 DEF Signal, Goes, LastSignals
    <3>2. ASSUME NEW v \in Workers PROVE ~Reports(v)'
      BY <1>0, <2>3, <3>2, GoesKeepsOthers DEF Signal, Exclusive
    <3>3. Released /\ pc' # "count"
      BY <1>0, <1>1, <2>3 DEF Signal, Goes, Idle, Closed, Released
    <3> QED
      BY <3>1, <3>2, <3>3 DEF LastSignals
  <2>4. CASE LockCount(w) \/ NothingQueued(w) \/ Sleep(w) \/ TakeCount(w) \/ CheckClosing(w)
    BY <1>6, <2>4 DEF LockCount, NothingQueued, Sleep, TakeCount, CheckClosing
  <2>5. CASE EnterFetch(w) \/ CopyTask(w) \/ Advance(w) \/ Run(w) \/ EnterFinish(w)
    BY <1>6, <2>5 DEF EnterFetch, CopyTask, Advance, Run, EnterFinish
  <2>6. CASE UnlockActive(w) \/ Leave(w)
    BY <1>6, <2>6 DEF UnlockActive, Leave
  <2> QED
    BY <1>7, <2>1, <2>2, <2>3, <2>4, <2>5, <2>6 DEF PoolThread
<1>8. ASSUME NEW w \in Workers, Wake(w) PROVE LastSignals'
  BY <1>6, <1>8 DEF Wake
<1>9. CASE UNCHANGED vars
  BY <1>2, <1>9 DEF vars, Released
<1> QED
  BY <1>3, <1>4, <1>5, <1>7, <1>8, <1>9 DEF Next

-----------------------------------------------------------------------------
(* Room for a task that is being added.                                    *)

(* AddTask stores only when there is room.                                 *)
LEMMA HasSlotNext == Inv /\ [Next]_vars => HasSlot'
<1> SUFFICES ASSUME Inv, [Next]_vars PROVE HasSlot'
  OBVIOUS
<1> USE PoolAssumption, Numbers DEF owner, ring, locks, worker
<1>0. TypeOK /\ Closed /\ LastSignals /\ HasSlot
  BY DEF Inv
<1>1. ASSUME UNCHANGED <<pc, back, active, added, created, closing>> PROVE HasSlot'
  BY <1>0, <1>1 DEF HasSlot, Released
<1>2. CASE Caller
  BY <1>0, <1>2 DEF Caller, AddTask, WaitDone, HasSlot, Released, TypeOK
<1>3. CASE Inside
  <2>1. ASSUME NEW w \in Workers, CreateThread(w) PROVE HasSlot'
    BY <1>0, <2>1 DEF CreateThread, HasSlot, Released, Workers, TypeOK
  <2>2. CASE CreateFails
    BY <2>2 DEF CreateFails, HasSlot, Released
  <2>3. CASE IfFull
    BY <1>0, <2>3 DEF IfFull, HasSlot, Released, TypeOK
  <2>4. CASE Store
    BY <2>4 DEF Store, HasSlot, Released
  <2>5. CASE IfActive
    BY <1>0, <2>5 DEF IfActive, HasSlot, Released, TypeOK, Closed
  <2>6. CASE Close
    BY <2>6 DEF Close, HasSlot, Released
  <2>7. CASE Release \/ UnlockCount \/ AwaitDone \/ OwnerSleeps
    BY <1>0, <2>7 DEF Release, UnlockCount, AwaitDone, OwnerSleeps, HasSlot, Released
  <2>8. CASE Broadcast
    BY <1>0, <2>8 DEF Broadcast, HasSlot, Released
  <2>9. CASE CheckDone
    <3>1. ~closing
      BY <1>0, <2>9 DEF CheckDone, Closed
    <3>2. ~anyActive => active = 0
      BY <1>0, <2>9, <3>1 DEF CheckDone, LastSignals, Released
    <3> QED
      BY <1>0, <2>9, <3>1, <3>2 DEF CheckDone, HasSlot, Released, TypeOK
  <2>10. CASE Join
    BY <2>10 DEF Join, HasSlot, Released
  <2> QED
    BY <1>3, <2>1, <2>2, <2>3, <2>4, <2>5, <2>6, <2>7, <2>8, <2>9, <2>10 DEF Inside
<1>4. CASE OwnerWakes
  BY <1>0, <1>4 DEF OwnerWakes, HasSlot, Released
<1>5. ASSUME NEW w \in Workers, PoolThread(w) PROVE HasSlot'
  <2>1. CASE OneLess(w)
    BY <1>0, <2>1 DEF OneLess, HasSlot, Released, TypeOK
  <2>2. CASE Signal(w)
    BY <1>0, <2>2 DEF Signal, HasSlot, Released
  <2> QED
    BY <1>1, <1>5, <2>1, <2>2 DEF PoolThread, LockCount, NothingQueued, Sleep, TakeCount,
       CheckClosing, EnterFetch, CopyTask, Advance, Run, EnterFinish, LockActive,
       UnlockActive, Leave
<1>6. ASSUME NEW w \in Workers, Wake(w) PROVE HasSlot'
  BY <1>1, <1>6 DEF Wake
<1>7. CASE UNCHANGED vars
  BY <1>1, <1>7 DEF vars
<1> QED
  BY <1>2, <1>3, <1>4, <1>5, <1>6, <1>7 DEF Next

-----------------------------------------------------------------------------
(* The theorems.                                                           *)

(* The invariant holds when the pool is created.                           *)
LEMMA InitInv == Init => Inv
<1> SUFFICES ASSUME Init PROVE Inv
  OBVIOUS
<1> USE PoolAssumption, Numbers DEF Init
<1>1. TypeOK
  <2>1. 0 \in Slots /\ 0 \in 0 .. PoolSize /\ 0 \in 0 .. MaxAllowedThreads
    BY DEF Slots
  <2>2. 0 \in 0 .. MaxTasks /\ 0 \in 0 .. MaxSpurious
    OBVIOUS
  <2> QED
    BY <2>1, <2>2 DEF TypeOK, OwnerPlaces, WorkerPlaces
<1>2. Counted /\ Closed
  BY DEF Counted, Closed, Released, Idle
<1>3. Exclusive /\ LastSignals /\ HasSlot
  BY DEF Exclusive, LastSignals, HasSlot, Released
<1> QED
  BY <1>1, <1>2, <1>3 DEF Inv

(* The parts are preserved one after another.                              *)
LEMMA NextInv == Inv /\ [Next]_vars => Inv'
  BY TypeNext, CountedNext, ClosedNext, ExclusiveNext, LastSignalsNext, HasSlotNext
     DEF Inv

(* In every behaviour of the pool, active tasks are counted or in the      *)
(* hands of a worker, each mutex has one holder, AnyActive is reset by the *)
(* worker that ends the last task, and closing threads hold nothing.       *)
THEOREM PoolInvariance == Spec => []Inv
<1> QED
  BY InitInv, NextInv, PTL DEF Spec

(* ActiveThreads and QueuedTasksCnt never leave 0 .. MaxPoolThreads: there *)
(* is no more in the queue than it has slots, and the count that a worker  *)
(* decrements is not wrapped around.                                       *)
THEOREM PoolTypeCorrect == Spec => []TypeOK
<1>1. Inv => TypeOK
  BY DEF Inv
<1> QED
  BY <1>1, PoolInvariance, PTL

(* What the owner does without a lock in AddTask, in the beginning of      *)
(* WaitDone and in the destructor never meets a worker at work.            *)
THEOREM NoLocksNeeded == Spec => []NoDataRace
<1>1. Inv => NoDataRace
  BY DEF Inv, Counted, NoDataRace, Working, Released, Idle
<1> QED
  BY <1>1, PoolInvariance, PTL

-----------------------------------------------------------------------------
(* ThreadPool implements ForkJoin: the ring of slots, the two counters and *)
(* the three mutexes together run every task that was added once, while    *)
(* the owner waits.                                                        *)

(* Workers that have moved QueueBottom past a task and not yet reported it *)
(* as done, tasks still in the ring, and tasks that have left it.          *)
Taken == {w \in Workers : at[w] \in {"run", "finish", "less"}}
Queued == active - Cardinality(Taken)
Fetched == added - Queued

(* The slot of the i-th task in the ring, counted from 0.                  *)
Cell(i) == IF bottom + i < PoolSize THEN bottom + i ELSE bottom + i - PoolSize

(* The slots from QueueBottom to QueueTop hold the last tasks that were    *)
(* added, in the order in which they were added.                           *)
RingOK ==
  /\ Queued \in 0 .. added
  /\ top = Cell(Queued)
  /\ \A i \in 0 .. Queued - 1 : queue[Cell(i)] = Fetched + i + 1

(* A worker between the copy and the move of QueueBottom has the oldest    *)
(* task of the ring.  A worker about to run a task is the only one that    *)
(* has it.  What is in the ring has not run, what has left it has run once *)
(* or is about to.                                                         *)
HasTask(w, t) == at[w] = "run" /\ task[w] = t
TasksOK ==
  /\ \A w \in Workers : at[w] = "advance" => task[w] = Fetched + 1
  /\ \A w \in Workers : at[w] = "run" =>
       task[w] \in 1 .. Fetched /\ runs[task[w]] = 0
  /\ \A v, w \in Workers : at[v] = "run" /\ HasTask(w, task[v]) => v = w
  /\ \A t \in 1 .. MaxTasks : t > Fetched => runs[t] = 0
  /\ \A t \in 1 .. Fetched :
       runs[t] = 1 \/ (runs[t] = 0 /\ \E w \in Workers : HasTask(w, t))

(* The pool is released only with tasks to run, and destroyed without any. *)
Occupied ==
  /\ pc = "count" /\ ~closing => active > 0
  /\ pc = "close" \/ closing => active = 0

Kept == RingOK /\ TasksOK /\ Occupied

-----------------------------------------------------------------------------
(* The slots, and how many tasks are in them.                              *)

(* QueueTop and QueueBottom go around.                                     *)
LEMMA GoAround ==
  ASSUME NEW s \in Slots
  PROVE  (s + 1) % PoolSize = IF s + 1 < PoolSize THEN s + 1 ELSE 0
<1>1. CASE s + 1 < PoolSize
  BY <1>1, PoolAssumption DEF Slots
<1>2. CASE s + 1 = PoolSize
  BY <1>2, PoolAssumption DEF Slots
<1> QED
  BY <1>1, <1>2, PoolAssumption DEF Slots

(* The tasks that were taken can be counted.                               *)
LEMMA TakenFinite == IsFiniteSet(Taken) /\ Cardinality(Taken) \in Nat
<1>1. Taken \subseteq Busy
  BY DEF Taken, Busy
<1>2. IsFiniteSet(Taken)
  BY <1>1, BusyFinite, FS_Subset
<1> QED
  BY <1>2, FS_CardinalityType

(* With every worker idle all active tasks are in the ring.                *)
LEMMA AllInRing ==
  ASSUME TypeOK, \A w \in Workers : Idle(w)
  PROVE  Queued = active /\ Fetched = added - active
<1>1. Taken = {}
  BY DEF Taken, Idle
<1>2. Cardinality(Taken) = 0
  BY <1>1, FS_EmptySet
<1> QED
  BY <1>2 DEF Queued, Fetched, TypeOK

(* A worker that is let through to the ring finds a task in it.            *)
LEMMA RingHasTask ==
  ASSUME Inv, NEW w \in Workers, at[w] \in {"copy", "advance"}
  PROVE  Queued > 0 /\ Released /\ ~closing
<1>0. TypeOK /\ Counted /\ Closed
  BY DEF Inv
<1>1. Released /\ ~closing
  BY <1>0 DEF Counted, Closed, Idle
<1>2. Taken \cup {w} \subseteq Busy /\ w \notin Taken
  BY DEF Taken, Busy
<1>3. Cardinality(Taken \cup {w}) = Cardinality(Taken) + 1
  BY <1>2, TakenFinite, FS_AddElement
<1>4. Cardinality(Taken \cup {w}) <= Cardinality(Busy)
  BY <1>2, BusyFinite, FS_Subset
<1>5. active = count + Cardinality(Busy)
  BY <1>0, <1>1 DEF Counted
<1>6. active \in Nat /\ count \in Nat
  BY <1>0, PoolAssumption DEF TypeOK
<1>7. active - Cardinality(Taken) > 0
  BY <1>3, <1>4, <1>5, <1>6, TakenFinite, BusyFinite
<1> QED
  BY <1>1, <1>7 DEF Queued

-----------------------------------------------------------------------------
(* Most steps leave the ring alone, and no worker gets a task, runs one or *)
(* reports one as done.                                                    *)
Elsewhere ==
  {"none", "lock", "count", "drowsy", "asleep", "closing", "fetch", "copy", "last",
   "signal", "unlock", "leave", "ended"}
Aside ==
  /\ UNCHANGED <<ring, active, added, task, runs>>
  /\ \A w \in Workers :
       \/ at'[w] = at[w]
       \/ at[w] \in Elsewhere /\ at'[w] \in Elsewhere
       \/ at[w] = "finish" /\ at'[w] = "less"

(* The steps that touch neither the ring nor the tasks, and the others.    *)
LEMMA MostSteps ==
  ASSUME Inv, [Next]_vars
  PROVE  \/ Aside
         \/ Store
         \/ \E w \in Workers : CopyTask(w) \/ Advance(w) \/ Run(w) \/ OneLess(w)
<1> USE DEF Aside, Elsewhere, owner, ring, locks, worker
<1>0. TypeOK
  BY DEF Inv
<1>1. CASE Caller \/ OwnerWakes \/ UNCHANGED vars
  BY <1>1 DEF Caller, AddTask, WaitDone, OwnerWakes, vars
<1>2. CASE Inside
  <2>1. ASSUME NEW w \in Workers, CreateThread(w) PROVE Aside
    <3>1. at[w] = "none" \/ at[w] \in Elsewhere
      <4>1. ~closing /\ ~Released
        BY <2>1 DEF CreateThread, Released, Inv, Closed
      <4> QED
        BY <4>1 DEF Inv, Counted, Idle
    <3> QED
      BY <1>0, <2>1, <3>1 DEF CreateThread, TypeOK
  <2>2. CASE Broadcast
    BY <1>0, <2>2 DEF Broadcast, TypeOK
  <2> QED
    BY <1>2, <2>1, <2>2 DEF Inside, CreateFails, IfFull, IfActive, Close, Release,
       UnlockCount, AwaitDone, CheckDone, OwnerSleeps, Join
<1>3. ASSUME NEW w \in Workers, NEW from, NEW to, Goes(w, from, to),
             UNCHANGED <<ring, active, added, task, runs>>,
             \/ from \in Elsewhere /\ to \in Elsewhere
             \/ from = "finish" /\ to = "less"
      PROVE  Aside
  BY <1>0, <1>3, GoesKeepsOthers
<1>4. ASSUME NEW w \in Workers,
             PoolThread(w) \/ Wake(w),
             ~(CopyTask(w) \/ Advance(w) \/ Run(w) \/ OneLess(w))
      PROVE  Aside
  <2>1. CASE LockCount(w) \/ NothingQueued(w) \/ Sleep(w) \/ TakeCount(w) \/ Wake(w)
    BY <1>3, <2>1 DEF LockCount, NothingQueued, Sleep, TakeCount, Wake
  <2>2. CASE CheckClosing(w) \/ EnterFetch(w) \/ EnterFinish(w)
    BY <1>3, <2>2 DEF CheckClosing, EnterFetch, EnterFinish
  <2>3. CASE LockActive(w) \/ Signal(w) \/ UnlockActive(w) \/ Leave(w)
    BY <1>3, <2>3 DEF LockActive, Signal, UnlockActive, Leave
  <2> QED
    BY <1>4, <2>1, <2>2, <2>3 DEF PoolThread
<1> QED
  BY <1>1, <1>2, <1>4 DEF Next

(* These preserve what is known of the ring.                               *)
LEMMA AsideKeeps ==
  ASSUME TypeOK, RingOK, TasksOK, Aside
  PROVE  RingOK' /\ TasksOK' /\ Unrun' = Unrun
<1> USE DEF Aside, Elsewhere, ring
<1>1. Taken' = Taken
  BY DEF Taken
<1>2. Queued' = Queued /\ Fetched' = Fetched /\ added' = added
  BY <1>1 DEF Queued, Fetched
<1>3. \A i : Cell(i)' = Cell(i)
  BY DEF Cell
<1>4. RingOK'
  BY <1>2, <1>3 DEF RingOK
<1>5. \A w \in Workers : /\ at'[w] = "run" <=> at[w] = "run"
                         /\ at'[w] = "advance" <=> at[w] = "advance"
  OBVIOUS
<1>6. \A w \in Workers : \A t : HasTask(w, t)' <=> HasTask(w, t)
  BY <1>5 DEF HasTask
<1>7. TasksOK'
  BY <1>2, <1>5, <1>6 DEF TasksOK
<1> QED
  BY <1>4, <1>7 DEF Unrun

-----------------------------------------------------------------------------
(* The steps that move tasks.                                              *)

(* A task is stored in a slot that no other waiting task has.              *)
LEMMA StoreKeeps ==
  ASSUME Inv, RingOK, TasksOK, Store
  PROVE  RingOK' /\ TasksOK'
<1> USE PoolAssumption DEF owner, ring, locks, worker
<1>0. TypeOK /\ active < PoolSize /\ added < MaxTasks
  BY DEF Inv, Store, HasSlot
<1>1. \A w \in Workers : Idle(w)
  BY DEF Inv, Store, Counted, Closed, Released
<1>2. Queued = active /\ Fetched = added - active
  BY <1>0, <1>1, AllInRing
<1>3. active' = active + 1 /\ added' = added + 1 /\ bottom' = bottom
  BY DEF Store
<1>4. Taken' = Taken
  BY DEF Store, Taken
<1>5. Queued' = Queued + 1 /\ Fetched' = Fetched
  BY <1>0, <1>2, <1>3, <1>4, TakenFinite DEF Queued, Fetched, TypeOK
<1>6. \A i : Cell(i)' = Cell(i)
  BY <1>3 DEF Cell
<1>7. RingOK'
  <2>0. Queued \in 0 .. added /\ Queued < PoolSize /\ bottom \in Slots
    BY <1>0, <1>2 DEF RingOK, TypeOK
  <2>1. top = Cell(Queued) /\ top \in Slots
    BY <1>0 DEF RingOK, TypeOK
  <2>2. top' = Cell(Queued + 1)
    <3>1. top' = IF top + 1 < PoolSize THEN top + 1 ELSE 0
      BY <2>1, GoAround DEF Store
    <3> QED
      BY <2>0, <2>1, <3>1 DEF Cell, Slots
  <2>3. \A i \in 0 .. Queued - 1 : Cell(i) \in Slots /\ Cell(i) # top
    BY <2>0, <2>1 DEF Cell, Slots
  <2>4. queue'[top] = added + 1 /\ \A s \in Slots \ {top} : queue'[s] = queue[s]
    BY <1>0, <2>1 DEF Store, TypeOK
  <2>5. \A i \in 0 .. Queued : queue'[Cell(i)] = Fetched + i + 1
    <3>1. ASSUME NEW i \in 0 .. Queued - 1 PROVE queue'[Cell(i)] = Fetched + i + 1
      BY <2>3, <2>4 DEF RingOK
    <3>2. queue'[Cell(Queued)] = Fetched + Queued + 1
      BY <2>0, <2>1, <2>4, <1>0, <1>2 DEF TypeOK
    <3> QED
      BY <2>0, <3>1, <3>2
  <2>6. Queued + 1 \in 0 .. added + 1 /\ (Queued + 1) - 1 = Queued
    BY <1>0, <2>0 DEF TypeOK
  <2> QED
    BY <1>3, <1>5, <1>6, <2>2, <2>5, <2>6 DEF RingOK
<1>8. TasksOK'
  BY <1>1, <1>5 DEF Store, TasksOK, HasTask, Idle
<1> QED
  BY <1>7, <1>8

(* A worker copies the oldest task in the ring.                            *)
LEMMA CopyKeeps ==
  ASSUME Inv, RingOK, TasksOK, NEW w \in Workers, CopyTask(w)
  PROVE  RingOK' /\ TasksOK' /\ Unrun' = Unrun
<1> USE PoolAssumption DEF CopyTask, owner, ring, locks
<1>0. TypeOK
  BY DEF Inv
<1>1. at[w] = "copy" /\ at'[w] = "advance" /\ \A v \in Workers \ {w} : at'[v] = at[v]
  BY <1>0, GoesKeepsOthers
<1>2. Taken' = Taken
  BY <1>1 DEF Taken
<1>3. Queued' = Queued /\ Fetched' = Fetched /\ \A i : Cell(i)' = Cell(i)
  BY <1>2 DEF Queued, Fetched, Cell
<1>4. RingOK'
  BY <1>3 DEF RingOK
<1>5. task'[w] = queue[bottom] /\ \A v \in Workers \ {w} : task'[v] = task[v]
  BY <1>0 DEF TypeOK
<1>6. queue[bottom] = Fetched + 1
  <2>1. Queued > 0 /\ Queued \in Nat
    BY <1>1, RingHasTask DEF RingOK
  <2>2. Cell(0) = bottom
    BY <1>0 DEF TypeOK, Cell, Slots
  <2>3. 0 \in 0 .. Queued - 1 /\ Fetched + 0 + 1 = Fetched + 1
    BY <1>0, <2>1 DEF Fetched, TypeOK
  <2> QED
    BY <2>2, <2>3 DEF RingOK
<1>7. \A v \in Workers : \A t : HasTask(v, t)' <=> HasTask(v, t)
  BY <1>1, <1>5 DEF HasTask
<1>8. TasksOK'
  BY <1>1, <1>3, <1>5, <1>6, <1>7 DEF TasksOK, HasTask
<1> QED
  BY <1>4, <1>8 DEF Unrun

(* The task leaves the ring; only this worker has it.                      *)
LEMMA AdvanceKeeps ==
  ASSUME Inv, RingOK, TasksOK, NEW w \in Workers, Advance(w)
  PROVE  RingOK' /\ TasksOK' /\ Unrun' = Unrun
<1> USE PoolAssumption DEF Advance, owner, ring, locks
<1>0. TypeOK
  BY DEF Inv
<1>1. at[w] = "advance" /\ at'[w] = "run" /\ \A v \in Workers \ {w} : at'[v] = at[v]
  BY <1>0, GoesKeepsOthers
<1>2. w \notin Taken /\ Taken' = Taken \cup {w}
  BY <1>1 DEF Taken
<1>3. Cardinality(Taken') = Cardinality(Taken) + 1
  BY <1>2, TakenFinite, FS_AddElement
<1>4. Queued > 0 /\ Queued \in 0 .. added /\ Queued <= PoolSize
  BY <1>0, <1>1, RingHasTask, TakenFinite DEF RingOK, Queued, TypeOK
<1>5. Queued' = Queued - 1 /\ Fetched' = Fetched + 1 /\ Fetched \in Nat /\ Fetched < added
  <2>1. active' = active /\ added' = added /\ active \in Nat /\ added \in Nat
    BY <1>0 DEF TypeOK
  <2>2. Queued' = Queued - 1
    BY <1>3, <2>1, TakenFinite DEF Queued
  <2>3. Fetched = added - Queued /\ Fetched' = added - Queued'
    BY <2>1 DEF Fetched
  <2> QED
    BY <1>4, <2>1, <2>2, <2>3
<1>6. bottom \in Slots /\ bottom' = IF bottom + 1 < PoolSize THEN bottom + 1 ELSE 0
  BY <1>0, GoAround DEF TypeOK
<1>7. \A i \in 0 .. Queued - 1 : Cell(i)' = Cell(i + 1)
  BY <1>4, <1>6 DEF Cell, Slots
<1>8. RingOK'
  <2>1. Queued' \in 0 .. added' /\ top' = Cell(Queued)'
    <3>1. top = Cell(Queued) /\ top' = top
      BY DEF RingOK
    <3>2. Cell(Queued)' = IF bottom' + Queued' < PoolSize THEN bottom' + Queued'
                          ELSE bottom' + Queued' - PoolSize
      BY DEF Cell
    <3>3. added \in Nat /\ added' = added
      BY <1>0 DEF TypeOK
    <3>4. top' = Cell(Queued)'
      BY <1>4, <1>5, <1>6, <3>1, <3>2, <3>3 DEF Cell, Slots
    <3> QED
      BY <1>4, <1>5, <3>3, <3>4
  <2>2. ASSUME NEW i \in 0 .. Queued' - 1
        PROVE  queue'[Cell(i)'] = Fetched' + i + 1
    <3>1. i + 1 \in 0 .. Queued - 1 /\ i \in 0 .. Queued - 1
      BY <1>4, <1>5
    <3>2. queue[Cell(i + 1)] = Fetched + (i + 1) + 1
      BY <3>1 DEF RingOK
    <3> QED
      BY <1>5, <1>7, <3>1, <3>2
  <2> QED
    BY <2>1, <2>2 DEF RingOK
<1>9. task[w] = Fetched + 1 /\ runs[Fetched + 1] = 0
  BY <1>0, <1>1, <1>5 DEF TasksOK, TypeOK
<1>10. \A v \in Workers \ {w} : at[v] # "advance"
  BY <1>1 DEF Inv, Exclusive
<1>11. TasksOK'
  <2>1. \A v \in Workers : at'[v] # "advance"
    BY <1>1, <1>10
  <2>2. ASSUME NEW v \in Workers, at'[v] = "run"
        PROVE  task[v] \in 1 .. Fetched + 1 /\ runs[task[v]] = 0
    BY <1>1, <1>5, <1>9, <2>2 DEF TasksOK
  <2>3. \A u, v \in Workers : at'[u] = "run" /\ HasTask(v, task[u])' => u = v
    BY <1>1, <1>5, <1>9 DEF TasksOK, HasTask
  <2>4. \A t \in 1 .. MaxTasks : t > Fetched + 1 => runs[t] = 0
    BY <1>5 DEF TasksOK
  <2>5. ASSUME NEW t \in 1 .. Fetched + 1
        PROVE  runs[t] = 1 \/ (runs[t] = 0 /\ \E v \in Workers : HasTask(v, t)')
    <3>1. CASE t = Fetched + 1
      BY <1>1, <1>9, <3>1 DEF HasTask
    <3>2. CASE t # Fetched + 1
      BY <1>1, <1>5, <3>2 DEF TasksOK, HasTask
    <3> QED
      BY <3>1, <3>2
  <2> QED
    BY <1>5, <2>1, <2>2, <2>3, <2>4, <2>5 DEF TasksOK
<1> QED
  BY <1>8, <1>11 DEF Unrun

(* The task a worker runs had not run before, and is marked.               *)
LEMMA RunsOnce ==
  ASSUME TypeOK, RingOK, TasksOK, NEW w \in Workers, Run(w)
  PROVE  /\ task[w] \in Unrun /\ task[w] \in 1 .. MaxTasks
         /\ runs'[task[w]] = 1
         /\ \A t \in (1 .. MaxTasks) \ {task[w]} : runs'[t] = runs[t]
<1>1. task[w] \in 1 .. Fetched /\ runs[task[w]] = 0
  BY DEF Run, Goes, TasksOK
<1>2. added \in 0 .. MaxTasks /\ Fetched \in 0 .. added
  BY PoolAssumption DEF TypeOK, RingOK, Fetched
<1>3. task[w] \in 1 .. added /\ task[w] \in 1 .. MaxTasks
  BY <1>1, <1>2, PoolAssumption
<1> QED
  BY <1>1, <1>3 DEF Run, Unrun, TypeOK

(* A task that runs leaves the others alone.                               *)
LEMMA RunKeeps ==
  ASSUME TypeOK, RingOK, TasksOK, NEW w \in Workers, Run(w)
  PROVE  RingOK' /\ TasksOK' /\ Unrun' = Unrun \ {task[w]}
<1> USE DEF Run, owner, ring, locks
<1>1. at[w] = "run" /\ at'[w] = "finish" /\ \A v \in Workers \ {w} : at'[v] = at[v]
  BY GoesKeepsOthers
<1>2. Taken' = Taken
  BY <1>1 DEF Taken
<1>3. Queued' = Queued /\ Fetched' = Fetched /\ \A i : Cell(i)' = Cell(i)
  BY <1>2 DEF Queued, Fetched, Cell
<1>4. RingOK'
  BY <1>3 DEF RingOK
<1>5. /\ task[w] \in 1 .. MaxTasks /\ runs'[task[w]] = 1
      /\ \A t \in (1 .. MaxTasks) \ {task[w]} : runs'[t] = runs[t]
  BY RunsOnce
<1>6. added \in 0 .. MaxTasks /\ Fetched \in 0 .. added
  BY PoolAssumption DEF TypeOK, RingOK, Fetched
<1>7. TasksOK'
  <2>1. ASSUME NEW v \in Workers, at'[v] = "run"
        PROVE  task[v] \in 1 .. Fetched /\ runs'[task[v]] = 0
    <3>1. v # w /\ at[v] = "run" /\ task[v] # task[w]
      BY <1>1, <2>1 DEF TasksOK, HasTask
    <3>2. task[v] \in 1 .. Fetched /\ runs[task[v]] = 0
      BY <3>1 DEF TasksOK
    <3> QED
      BY <1>5, <1>6, <3>1, <3>2, PoolAssumption
  <2>2. ASSUME NEW t \in 1 .. Fetched
        PROVE  runs'[t] = 1 \/ (runs'[t] = 0 /\ \E v \in Workers : HasTask(v, t)')
    <3>1. CASE t = task[w]
      BY <1>5, <3>1
    <3>2. CASE t # task[w] /\ runs[t] = 1
      BY <1>5, <1>6, <3>2, PoolAssumption
    <3>3. CASE t # task[w] /\ runs[t] # 1
      <4>1. runs[t] = 0 /\ runs'[t] = 0
        BY <1>5, <1>6, <3>3, PoolAssumption DEF TasksOK
      <4>2. PICK v \in Workers : HasTask(v, t)
        BY <3>3 DEF TasksOK
      <4>3. HasTask(v, t)'
        BY <1>1, <3>3, <4>2 DEF HasTask
      <4> QED
        BY <4>1, <4>3
    <3> QED
      BY <3>1, <3>2, <3>3
  <2>3. \A t \in 1 .. MaxTasks : t > Fetched => runs'[t] = 0
    <3>1. task[w] \in 1 .. Fetched
      BY <1>1 DEF TasksOK
    <3> QED
      BY <1>5, <1>6, <3>1, PoolAssumption DEF TasksOK
  <2>4. \A v \in Workers : at'[v] = "advance" => task[v] = Fetched + 1
    BY <1>1 DEF TasksOK
  <2>5. \A u, v \in Workers : at'[u] = "run" /\ HasTask(v, task[u])' => u = v
    BY <1>1 DEF TasksOK, HasTask
  <2> QED
    BY <1>3, <2>1, <2>2, <2>3, <2>4, <2>5 DEF TasksOK
<1>8. Unrun' = Unrun \ {task[w]}
  BY <1>5, <1>6, PoolAssumption DEF Unrun
<1> QED
  BY <1>4, <1>7, <1>8

(* A task that is reported as done is no longer active.                    *)
LEMMA OneLessKeeps ==
  ASSUME TypeOK, RingOK, TasksOK, NEW w \in Workers, OneLess(w)
  PROVE  RingOK' /\ TasksOK' /\ Unrun' = Unrun
<1> USE DEF OneLess, owner, ring, locks
<1>1. at[w] = "less" /\ at'[w] \in {"last", "leave"}
      /\ \A v \in Workers \ {w} : at'[v] = at[v]
  BY GoesKeepsOthers
<1>2. w \in Taken /\ Taken' = Taken \ {w}
  BY <1>1 DEF Taken
<1>3. Cardinality(Taken') = Cardinality(Taken) - 1
  BY <1>2, TakenFinite, FS_RemoveElement
<1>4. Queued' = Queued /\ Fetched' = Fetched /\ \A i : Cell(i)' = Cell(i)
  <2>1. active' = active - 1 /\ added' = added /\ active \in Nat
    BY PoolAssumption DEF TypeOK
  <2>2. Queued' = Queued
    BY <1>3, <2>1, TakenFinite DEF Queued
  <2> QED
    BY <2>1, <2>2 DEF Fetched, Cell
<1>5. RingOK'
  BY <1>4 DEF RingOK
<1>6. \A v \in Workers : /\ at'[v] = "run" <=> at[v] = "run"
                         /\ at'[v] = "advance" <=> at[v] = "advance"
  BY <1>1
<1>7. \A v \in Workers : \A t : HasTask(v, t)' <=> HasTask(v, t)
  BY <1>6 DEF HasTask
<1>8. TasksOK'
  BY <1>4, <1>6, <1>7 DEF TasksOK
<1> QED
  BY <1>5, <1>8 DEF Unrun

-----------------------------------------------------------------------------
(* The pool is released, and closed, at the right time.                    *)
LEMMA OccupiedNext == Inv /\ Occupied /\ [Next]_vars => Occupied'
<1> SUFFICES ASSUME Inv, Occupied, [Next]_vars PROVE Occupied'
  OBVIOUS
<1> USE PoolAssumption DEF Occupied, owner, ring, locks, worker
<1>0. TypeOK
  BY DEF Inv
<1>1. ASSUME UNCHANGED <<active, closing>>, pc' \in {"count", "close"} => pc' = pc
      PROVE  Occupied'
  BY <1>1
<1>2. CASE Caller \/ OwnerWakes \/ UNCHANGED vars
  BY <1>1, <1>2 DEF Caller, AddTask, WaitDone, OwnerWakes, vars
<1>3. CASE Inside
  <2>1. CASE Store
    <3>1. ~closing
      BY <2>1 DEF Store, Inv, Closed
    <3> QED
      BY <2>1, <3>1 DEF Store
  <2>2. CASE IfActive
    <3>1. back # "count" /\ ~closing
      BY <1>0, <2>2 DEF IfActive, TypeOK, Inv, Closed
    <3> QED
      BY <1>0, <2>2, <3>1 DEF IfActive, TypeOK
  <2>3. CASE Close
    BY <2>3 DEF Close
  <2>4. CASE CheckDone
    <3>1. back # "count" /\ ~closing
      BY <1>0, <2>4 DEF CheckDone, TypeOK, Inv, Closed
    <3>2. ~anyActive => active = 0
      BY <2>4, <3>1 DEF CheckDone, Inv, LastSignals, Released
    <3> QED
      BY <2>4, <3>1, <3>2 DEF CheckDone
  <2> QED
    BY <1>1, <1>3, <2>1, <2>2, <2>3, <2>4 DEF Inside, CreateThread, CreateFails, IfFull,
       Release, UnlockCount, Broadcast, AwaitDone, OwnerSleeps, Join
<1>4. ASSUME NEW w \in Workers, PoolThread(w) \/ Wake(w) PROVE Occupied'
  <2>1. CASE OneLess(w)
    <3>1. Released /\ ~closing
      BY <2>1 DEF OneLess, Goes, Inv, Counted, Closed, Idle
    <3> QED
      BY <2>1, <3>1 DEF OneLess, Released
  <2>2. CASE Signal(w)
    BY <1>1, <2>2 DEF Signal
  <2> QED
    BY <1>1, <1>4, <2>1, <2>2 DEF PoolThread, Wake, LockCount, NothingQueued, Sleep,
       TakeCount, CheckClosing, EnterFetch, CopyTask, Advance, Run, EnterFinish,
       LockActive, UnlockActive, Leave
<1> QED
  BY <1>2, <1>3, <1>4 DEF Next

(* A new pool has an empty ring.                                           *)
LEMMA KeptInit == Init => Kept
<1> SUFFICES ASSUME Init PROVE Kept
  OBVIOUS
<1> USE PoolAssumption, Numbers DEF Init
<1>1. Queued = 0 /\ Fetched = 0
  BY InitInv, AllInRing DEF Inv, Idle
<1> QED
  BY <1>1 DEF Kept, RingOK, TasksOK, Occupied, Cell

(* Every step keeps ring and tasks together.                               *)
LEMMA KeptNext == Inv /\ Kept /\ [Next]_vars => Kept'
<1> SUFFICES ASSUME Inv, Kept, [Next]_vars PROVE Kept'
  OBVIOUS
<1>1. TypeOK /\ RingOK /\ TasksOK
  BY DEF Inv, Kept
<1>2. RingOK' /\ TasksOK'
  BY <1>1, MostSteps, AsideKeeps, StoreKeeps, CopyKeeps, AdvanceKeeps, RunKeeps,
     OneLessKeeps
<1>3. Occupied'
  BY OccupiedNext DEF Kept
<1> QED
  BY <1>2, <1>3 DEF Kept

-----------------------------------------------------------------------------
(* Every step of the pool is a step of the promise, or invisible.          *)

(* While the workers are idle, the tasks that have not run are those in    *)
(* the ring.                                                               *)
LEMMA IdleUnrun ==
  ASSUME TypeOK, RingOK, TasksOK, \A w \in Workers : Idle(w)
  PROVE  Unrun = (added - active + 1) .. added /\ Cardinality(Unrun) = active
<1> USE PoolAssumption
<1>1. Queued = active /\ Fetched = added - active
  BY AllInRing
<1>2. active \in 0 .. added /\ added \in 0 .. MaxTasks
  BY <1>1 DEF RingOK, TypeOK
<1>3. \A t \in 1 .. added : runs[t] = 0 <=> t > added - active
  BY <1>1, <1>2 DEF TasksOK, HasTask, Idle
<1>4. Unrun = (added - active + 1) .. added
  BY <1>2, <1>3 DEF Unrun
<1>5. Cardinality((added - active + 1) .. added) = active
  BY <1>2, FS_Interval
<1> QED
  BY <1>4, <1>5

(* A task that is added is a new one, and there is room for it.            *)
LEMMA StoreIsAdd ==
  ASSUME Inv, Kept, Store
  PROVE  \E t \in 1 .. MaxTasks : Promise!Add(t)
<1> USE PoolAssumption DEF Store, owner, ring, locks, worker
<1>0. TypeOK /\ RingOK /\ TasksOK /\ active < PoolSize /\ added < MaxTasks
  BY DEF Inv, Kept, HasSlot
<1>1. (\A w \in Workers : Idle(w)) /\ ~closing
  BY DEF Inv, Counted, Closed, Released
<1>2. added \in Nat /\ added + 1 \in 1 .. MaxTasks
  BY <1>0 DEF TypeOK
<1>3. runs[added + 1] = 0
  BY <1>0, <1>1, <1>2, AllInRing DEF TasksOK, TypeOK
<1>4. Promise!Cardinality(Unrun) < PoolSize
  <2>1. Cardinality(Unrun) < PoolSize
    BY <1>0, <1>1, IdleUnrun
  <2>2. Promise!Cardinality(Unrun) = Cardinality(Unrun)
    BY DEF Promise!Cardinality, Cardinality
  <2> QED
    BY <2>1, <2>2
<1>5. Unrun' = Unrun \cup {added + 1}
  BY <1>2, <1>3 DEF Unrun
<1>6. added + 1 \notin Unrun \cup {t \in 1 .. MaxTasks : runs[t] = 1}
  BY <1>2, <1>3 DEF Unrun
<1>7. pc = "store" /\ pc' = "idle" /\ UNCHANGED <<closing, runs>>
  OBVIOUS
<1> QED
  BY <1>1, <1>2, <1>4, <1>5, <1>6, <1>7 DEF Promise!Add

(* A worker that runs its task is one run of ForkJoin.                     *)
LEMMA RunIsRun ==
  ASSUME Inv, Kept, NEW w \in Workers, Run(w)
  PROVE  \E t \in 1 .. MaxTasks : Promise!Run(t)
<1>0. TypeOK /\ RingOK /\ TasksOK
  BY DEF Inv, Kept
<1>1. Released /\ ~closing
  BY DEF Run, Goes, Inv, Counted, Closed, Idle
<1>2. /\ task[w] \in Unrun /\ task[w] \in 1 .. MaxTasks /\ runs'[task[w]] = 1
      /\ \A t \in (1 .. MaxTasks) \ {task[w]} : runs'[t] = runs[t]
  BY <1>0, RunsOnce
<1>3. Unrun' = Unrun \ {task[w]}
  BY <1>0, RunKeeps
<1>4. {t \in 1 .. MaxTasks : runs[t] = 1}' = {t \in 1 .. MaxTasks : runs[t] = 1} \cup {task[w]}
  BY <1>2
<1>5. pc' = pc /\ closing' = closing
  BY DEF Run, owner
<1> QED
  BY <1>1, <1>2, <1>3, <1>4, <1>5 DEF Promise!Run, Released

(* Steps that leave the tasks alone only move the owner's phase.           *)
LEMMA PhaseSteps ==
  ASSUME Inv, Kept, [Next]_vars, UNCHANGED <<runs, added>>
  PROVE  [Promise!Next]_Promise!vars
<1> USE PoolAssumption DEF owner, ring, locks, worker
<1>0. TypeOK /\ RingOK /\ TasksOK /\ Occupied /\ Closed
  BY DEF Inv, Kept
<1>1. Unrun' = Unrun
  BY DEF Unrun
<1>2. ASSUME closing' = closing, closing \/ (Released' <=> Released)
      PROVE  UNCHANGED Promise!vars
  BY <1>1, <1>2 DEF Promise!vars, Released
<1>3. CASE Caller \/ OwnerWakes \/ UNCHANGED vars
  BY <1>2, <1>3 DEF Caller, AddTask, WaitDone, OwnerWakes, vars, Released
<1>4. CASE Inside
  <2>1. CASE IfActive
    BY <1>0, <1>2, <2>1 DEF IfActive, TypeOK, Released
  <2>2. CASE Close
    <3>1. ~closing /\ ~Released /\ active = 0 /\ closing'
      BY <1>0, <2>2 DEF Close, Closed, Released, Occupied
    <3>2. Unrun = {}
      BY <1>0, <3>1, IdleUnrun, FS_EmptySet DEF Inv, Counted, Unrun, TypeOK
    <3> QED
      BY <1>1, <2>2, <3>1, <3>2 DEF Close, Promise!Close, Promise!Next, Released
  <2>3. CASE Release /\ ~closing
    <3>1. ~Released /\ Released' /\ active > 0 /\ ~closing'
      BY <1>0, <2>3 DEF Release, Released, Occupied
    <3>2. added \in Unrun
      BY <1>0, <2>3, <3>1, IdleUnrun DEF Inv, Counted, TypeOK
    <3> QED
      BY <1>1, <2>3, <3>1, <3>2 DEF Release, Promise!Wait, Promise!Next, Released
  <2>4. CASE Release /\ closing
    BY <1>2, <2>4 DEF Release
  <2>5. CASE CheckDone
    <3>1. ~closing /\ closing' = closing /\ Released
      BY <1>0, <2>5 DEF CheckDone, Closed, Released
    <3>2. CASE anyActive
      BY <1>2, <2>5, <3>1, <3>2 DEF CheckDone, Released
    <3>3. CASE ~anyActive
      <4>1. active = 0 /\ \A w \in Workers : Idle(w)
        <5>1. active = 0 /\ \A w \in Workers : at[w] \notin {"last", "signal"}
          BY <3>1, <3>3 DEF Inv, LastSignals
        <5>2. Busy = {}
          BY <1>0, <3>1, <5>1, BusyFinite, NoneBusy DEF Inv, Counted, TypeOK
        <5>3. \A w \in Workers : at[w] # "unlock"
          BY <2>5, Numbers DEF CheckDone, Inv, Exclusive
        <5> QED
          BY <1>0, <5>1, <5>2, <5>3 DEF Busy, Idle, TypeOK, WorkerPlaces
      <4>2. Unrun = {}
        BY <1>0, <4>1, IdleUnrun DEF TypeOK
      <4>3. ~Released'
        BY <1>0, <2>5, <3>3 DEF CheckDone, TypeOK, Released
      <4> QED
        BY <1>1, <2>5, <3>1, <4>2, <4>3 DEF Promise!Return, Promise!Next, Released
    <3> QED
      BY <3>2, <3>3
  <2>6. CASE Broadcast
    BY <1>2, <2>6 DEF Broadcast, Released
  <2>7. ASSUME NEW w \in Workers, CreateThread(w) PROVE UNCHANGED Promise!vars
    BY <1>2, <2>7 DEF CreateThread, Released
  <2>8. CASE CreateFails \/ IfFull \/ UnlockCount \/ AwaitDone \/ OwnerSleeps \/ Join
    BY <1>2, <2>8 DEF CreateFails, IfFull, UnlockCount, AwaitDone, OwnerSleeps, Join,
       Released
  <2>9. ~Store
    BY <1>0 DEF Store, TypeOK
  <2> QED
    BY <1>4, <2>1, <2>2, <2>3, <2>4, <2>5, <2>6, <2>7, <2>8, <2>9 DEF Inside
<1>5. ASSUME NEW w \in Workers, PoolThread(w) \/ Wake(w) PROVE UNCHANGED Promise!vars
  <2>1. CASE Signal(w)
    BY <1>2, <2>1 DEF Signal, Released
  <2> QED
    BY <1>2, <1>5, <2>1 DEF PoolThread, Wake, LockCount, NothingQueued, Sleep,
       TakeCount, CheckClosing, EnterFetch, CopyTask, Advance, Run, EnterFinish,
       OneLess, LockActive, UnlockActive, Leave, Released
<1> QED
  BY <1>3, <1>4, <1>5 DEF Next

(* Every step is a step of ForkJoin or a stutter.                          *)
LEMMA NextImplements == Inv /\ Kept /\ [Next]_vars => [Promise!Next]_Promise!vars
<1> SUFFICES ASSUME Inv, Kept, [Next]_vars PROVE [Promise!Next]_Promise!vars
  OBVIOUS
<1>1. CASE Store
  BY <1>1, StoreIsAdd DEF Promise!Next
<1>2. ASSUME NEW w \in Workers, Run(w) PROVE [Promise!Next]_Promise!vars
  BY <1>2, RunIsRun DEF Promise!Next
<1>3. CASE ~Store /\ ~\E w \in Workers : Run(w)
  <2>1. UNCHANGED <<runs, added>>
    BY <1>3, MostSteps DEF Aside, CopyTask, Advance, OneLess, owner
  <2> QED
    BY <2>1, PhaseSteps
<1> QED
  BY <1>1, <1>2, <1>3

(* The initial states map to initial states.                               *)
LEMMA InitImplements == Init => Promise!Init
  BY PoolAssumption DEF Init, Promise!Init, Unrun

(* The pool keeps the promise of ForkJoin: AddTask stores a task only      *)
(* where there is room, every task that was added runs exactly once, and   *)
(* only while the owner is in WaitDone, WaitDone returns when all of them  *)
(* have run, and the pool is destroyed with none left.                     *)
THEOREM EachTaskRunsOnce == Spec => KeepsPromise
<1>1. Init => Kept
  BY KeptInit
<1> QED
  BY <1>1, PoolInvariance, KeptNext, InitImplements, NextImplements, PTL
  DEF Spec, KeepsPromise, Promise!Spec
=============================================================================

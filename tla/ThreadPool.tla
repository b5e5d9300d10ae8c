---------------------------- MODULE ThreadPool ----------------------------
(***************************************************************************)
(* ThreadPool on Unix: one owner that adds tasks without any lock, worker  *)
(* threads that sleep until WaitDone releases the tasks, and a destructor  *)
(* that has to wake and end every one of them.                             *)
(*                                                                         *)
(* A step is what a thread does between two operations on a mutex or a     *)
(* condition variable, or one access to shared data where another thread   *)
(* might come between.  A mutex is the thread that holds it; a thread that *)
(* sleeps on a condition variable is one whose position says so.  Wake-ups *)
(* without a reason, which POSIX allows, are limited in number.            *)
(***************************************************************************)
EXTENDS Naturals

CONSTANTS
  PoolSize,     \* MaxPoolThreads, also the number of slots of TaskQueue
  MaxThreads,   \* the number of threads asked for
  MaxTasks,     \* bound: tasks added to the pool
  MaxSpurious   \* bound: wake-ups without a reason

ASSUME PoolAssumption ==
  /\ PoolSize \in Nat \ {0}
  /\ MaxThreads \in Nat
  /\ MaxTasks \in Nat
  /\ MaxSpurious \in Nat

MaxAllowedThreads ==
  IF MaxThreads = 0 THEN 1 ELSE IF MaxThreads > PoolSize THEN PoolSize ELSE MaxThreads

Workers == 1 .. MaxAllowedThreads
Owner == 0
Nobody == MaxAllowedThreads + 1
Holders == Workers \cup {Owner, Nobody}
Slots == 0 .. PoolSize - 1

VARIABLES
  pc,             \* position of the owner, "idle" outside the pool
  back,           \* where WaitDone returns to
  created,        \* ThreadsCreatedCount
  active,         \* ActiveThreads: tasks queued or running
  queue,          \* TaskQueue: the task in each slot
  top,            \* QueueTop
  bottom,         \* QueueBottom
  closing,        \* Closing
  count,          \* QueuedTasksCnt: tasks released to the workers
  anyActive,      \* AnyActive
  countMutex,     \* who holds QueuedTasksCntMutex
  activeMutex,    \* who holds AnyActiveMutex
  section,        \* who holds CritSection
  at,             \* position of each worker
  task,           \* the QueueEntry each worker has copied
  added,          \* tasks added so far; they are numbered
  runs,           \* history: how often each task has run
  spurious        \* wake-ups without a reason so far

ring == <<queue, top, bottom>>
locks == <<countMutex, activeMutex, section>>
worker == <<at, task>>
owner == <<pc, back, created, added>>
vars == <<owner, active, ring, closing, count, anyActive, locks, worker, runs,
          spurious>>

Init ==
  /\ pc = "idle" /\ back = "idle" /\ created = 0 /\ added = 0
  /\ active = 0
  /\ queue = [s \in Slots |-> 0] /\ top = 0 /\ bottom = 0
  /\ closing = FALSE
  /\ count = 0 /\ anyActive = FALSE
  /\ countMutex = Nobody /\ activeMutex = Nobody /\ section = Nobody
  /\ at = [w \in Workers |-> "none"] /\ task = [w \in Workers |-> 0]
  /\ runs = [t \in 1 .. MaxTasks |-> 0]
  /\ spurious = 0

-----------------------------------------------------------------------------
(* AddTask.  A thread that cannot be created throws, and AddTask of a later *)
(* task makes do with the threads there are.                               *)

AddTask ==
  /\ pc = "idle" /\ added < MaxTasks
  /\ pc' = IF created = 0 THEN "create" ELSE "full"
  /\ UNCHANGED <<back, created, added, active, ring, closing, count, anyActive,
                 locks, worker, runs, spurious>>

CreateThread(w) ==
  /\ pc = "create" /\ w = created + 1
  /\ created' = w
  /\ at' = [at EXCEPT ![w] = "lock"]
  /\ pc' = IF w = MaxAllowedThreads THEN "full" ELSE "create"
  /\ UNCHANGED <<back, added, active, ring, closing, count, anyActive, locks, task,
                 runs, spurious>>

CreateFails ==
  /\ pc = "create"
  /\ pc' = "idle"
  /\ UNCHANGED <<back, created, added, active, ring, closing, count, anyActive,
                 locks, worker, runs, spurious>>

(* Mutant: one task too many.                                              *)
IfFull_Late ==
  /\ pc = "full"
  /\ IF active > PoolSize THEN pc' = "wait" /\ back' = "store"
                          ELSE pc' = "store" /\ UNCHANGED back
  /\ UNCHANGED <<created, added, active, ring, closing, count, anyActive, locks,
                 worker, runs, spurious>>

IfFull ==
  /\ pc = "full"
  /\ IF active >= PoolSize THEN pc' = "wait" /\ back' = "store"
                           ELSE pc' = "store" /\ UNCHANGED back
  /\ UNCHANGED <<created, added, active, ring, closing, count, anyActive, locks,
                 worker, runs, spurious>>

Store ==
  /\ pc = "store"
  /\ added' = added + 1
  /\ queue' = [queue EXCEPT ![top] = added + 1]
  /\ top' = (top + 1) % PoolSize
  /\ active' = active + 1
  /\ pc' = "idle"
  /\ UNCHANGED <<back, created, bottom, closing, count, anyActive, locks, worker, runs,
                 spurious>>

-----------------------------------------------------------------------------
(* WaitDone and the destructor, which begins with a WaitDone.              *)

WaitDone(then) ==
  /\ pc = "idle"
  /\ pc' = "wait" /\ back' = then
  /\ UNCHANGED <<created, added, active, ring, closing, count, anyActive, locks,
                 worker, runs, spurious>>

IfActive ==
  /\ pc = "wait"
  /\ IF active = 0 THEN pc' = back /\ UNCHANGED anyActive
                   ELSE pc' = "count" /\ anyActive' = TRUE
  /\ UNCHANGED <<back, created, added, active, ring, closing, count, locks, worker,
                 runs, spurious>>

Close ==
  /\ pc = "close"
  /\ closing' = TRUE
  /\ pc' = "count"
  /\ UNCHANGED <<back, created, added, active, ring, count, anyActive, locks, worker,
                 runs, spurious>>

(* Mutant: the count is changed without the mutex.                         *)
Release_Unlocked ==
  /\ pc = "count"
  /\ count' = count + (IF closing THEN PoolSize ELSE active)
  /\ pc' = "broadcast"
  /\ UNCHANGED <<back, created, added, active, ring, closing, anyActive, locks,
                 worker, runs, spurious>>

(* A task is released for every thread that is to run, or one per slot for *)
(* every thread that is to end.                                            *)
Release ==
  /\ pc = "count" /\ countMutex = Nobody
  /\ countMutex' = Owner
  /\ count' = count + (IF closing THEN PoolSize ELSE active)
  /\ pc' = "unlock"
  /\ UNCHANGED <<back, created, added, active, ring, closing, anyActive, activeMutex,
                 section, worker, runs, spurious>>

UnlockCount ==
  /\ pc = "unlock"
  /\ countMutex' = Nobody
  /\ pc' = "broadcast"
  /\ UNCHANGED <<back, created, added, active, ring, closing, count, anyActive,
                 activeMutex, section, worker, runs, spurious>>

Broadcast ==
  /\ pc = "broadcast"
  /\ at' = [w \in Workers |-> IF at[w] = "asleep" THEN "lock" ELSE at[w]]
  /\ pc' = IF closing THEN "join" ELSE "await"
  /\ UNCHANGED <<back, created, added, active, ring, closing, count, anyActive, locks,
                 task, runs, spurious>>

AwaitDone ==
  /\ pc = "await" /\ activeMutex = Nobody
  /\ activeMutex' = Owner
  /\ pc' = "check"
  /\ UNCHANGED <<back, created, added, active, ring, closing, count, anyActive,
                 countMutex, section, worker, runs, spurious>>

CheckDone ==
  /\ pc = "check"
  /\ IF anyActive THEN pc' = "drowsy" /\ UNCHANGED activeMutex
                  ELSE pc' = back /\ activeMutex' = Nobody
  /\ UNCHANGED <<back, created, added, active, ring, closing, count, anyActive,
                 countMutex, section, worker, runs, spurious>>

(* pthread_cond_wait releases the mutex and sleeps in one step.            *)
OwnerSleeps ==
  /\ pc = "drowsy"
  /\ activeMutex' = Nobody
  /\ pc' = "asleep"
  /\ UNCHANGED <<back, created, added, active, ring, closing, count, anyActive,
                 countMutex, section, worker, runs, spurious>>

OwnerWakes ==
  /\ pc = "asleep" /\ spurious < MaxSpurious
  /\ spurious' = spurious + 1
  /\ pc' = "await"
  /\ UNCHANGED <<back, created, added, active, ring, closing, count, anyActive,
                 locks, worker, runs>>

Join ==
  /\ pc = "join"
  /\ \A w \in 1 .. created : at[w] = "ended"
  /\ pc' = "destroyed"
  /\ UNCHANGED <<back, created, added, active, ring, closing, count, anyActive,
                 locks, worker, runs, spurious>>

-----------------------------------------------------------------------------
(* GetQueuedTask.                                                          *)

Goes(w, from, to) == at[w] = from /\ at' = [at EXCEPT ![w] = to]

LockCount(w) ==
  /\ Goes(w, "lock", "count")
  /\ countMutex = Nobody /\ countMutex' = w
  /\ UNCHANGED <<owner, active, ring, closing, count, anyActive, activeMutex, section,
                 task, runs, spurious>>

NothingQueued(w) ==
  /\ Goes(w, "count", "drowsy")
  /\ count = 0
  /\ UNCHANGED <<owner, active, ring, closing, count, anyActive, locks, task, runs,
                 spurious>>

Sleep(w) ==
  /\ Goes(w, "drowsy", "asleep")
  /\ countMutex' = Nobody
  /\ UNCHANGED <<owner, active, ring, closing, count, anyActive, activeMutex, section,
                 task, runs, spurious>>

Wake(w) ==
  /\ Goes(w, "asleep", "lock")
  /\ spurious < MaxSpurious /\ spurious' = spurious + 1
  /\ UNCHANGED <<owner, active, ring, closing, count, anyActive, locks, task, runs>>

TakeCount(w) ==
  /\ Goes(w, "count", "closing")
  /\ count > 0 /\ count' = count - 1
  /\ countMutex' = Nobody
  /\ UNCHANGED <<owner, active, ring, closing, anyActive, activeMutex, section, task,
                 runs, spurious>>

CheckClosing(w) ==
  /\ Goes(w, "closing", IF closing THEN "ended" ELSE "fetch")
  /\ UNCHANGED <<owner, active, ring, closing, count, anyActive, locks, task, runs,
                 spurious>>

(* Mutant: the queue is read outside the critical section.                 *)
EnterFetch_Unlocked(w) ==
  /\ Goes(w, "fetch", "copy")
  /\ UNCHANGED <<owner, active, ring, closing, count, anyActive, locks, task, runs,
                 spurious>>

EnterFetch(w) ==
  /\ Goes(w, "fetch", "copy")
  /\ section = Nobody /\ section' = w
  /\ UNCHANGED <<owner, active, ring, closing, count, anyActive, countMutex,
                 activeMutex, task, runs, spurious>>

CopyTask(w) ==
  /\ Goes(w, "copy", "advance")
  /\ task' = [task EXCEPT ![w] = queue[bottom]]
  /\ UNCHANGED <<owner, active, ring, closing, count, anyActive, locks, runs, spurious>>

Advance(w) ==
  /\ Goes(w, "advance", "run")
  /\ bottom' = (bottom + 1) % PoolSize
  /\ section' = Nobody
  /\ UNCHANGED <<owner, active, queue, top, closing, count, anyActive, countMutex,
                 activeMutex, task, runs, spurious>>

-----------------------------------------------------------------------------
(* The rest of PoolThreadLoop.                                             *)

Run(w) ==
  /\ Goes(w, "run", "finish")
  /\ runs' = [runs EXCEPT ![task[w]] = @ + 1]
  /\ UNCHANGED <<owner, active, ring, closing, count, anyActive, locks, task, spurious>>

EnterFinish(w) ==
  /\ Goes(w, "finish", "less")
  /\ section = Nobody /\ section' = w
  /\ UNCHANGED <<owner, active, ring, closing, count, anyActive, countMutex,
                 activeMutex, task, runs, spurious>>

(* Mutant: every thread that finishes reports that none is active.         *)
OneLess_Always(w) ==
  /\ Goes(w, "less", "last")
  /\ active' = active - 1
  /\ UNCHANGED <<owner, ring, closing, count, anyActive, locks, task, runs, spurious>>

OneLess(w) ==
  /\ Goes(w, "less", IF active = 1 THEN "last" ELSE "leave")
  /\ active' = active - 1
  /\ UNCHANGED <<owner, ring, closing, count, anyActive, locks, task, runs, spurious>>

LockActive(w) ==
  /\ Goes(w, "last", "signal")
  /\ activeMutex = Nobody /\ activeMutex' = w
  /\ UNCHANGED <<owner, active, ring, closing, count, anyActive, countMutex, section,
                 task, runs, spurious>>

Signal(w) ==
  /\ Goes(w, "signal", "unlock")
  /\ anyActive' = FALSE
  /\ pc' = IF pc = "asleep" THEN "await" ELSE pc
  /\ UNCHANGED <<back, created, added, active, ring, closing, count, locks, task, runs,
                 spurious>>

UnlockActive(w) ==
  /\ Goes(w, "unlock", "leave")
  /\ activeMutex' = Nobody
  /\ UNCHANGED <<owner, active, ring, closing, count, anyActive, countMutex, section,
                 task, runs, spurious>>

Leave(w) ==
  /\ Goes(w, "leave", "lock")
  /\ section' = Nobody
  /\ UNCHANGED <<owner, active, ring, closing, count, anyActive, countMutex,
                 activeMutex, task, runs, spurious>>

-----------------------------------------------------------------------------
(* What the owner's code calls, in any order.                              *)
Caller ==
  \/ AddTask
  \/ WaitDone("idle")      \* WaitDone
  \/ WaitDone("close")     \* delete

Inside ==
  \/ \E w \in Workers : CreateThread(w)
  \/ CreateFails
  \/ IfFull
  \/ Store
  \/ IfActive
  \/ Close
  \/ Release
  \/ UnlockCount
  \/ Broadcast
  \/ AwaitDone
  \/ CheckDone
  \/ OwnerSleeps
  \/ Join

PoolThread(w) ==
  \/ LockCount(w) \/ NothingQueued(w) \/ Sleep(w) \/ TakeCount(w) \/ CheckClosing(w)
  \/ EnterFetch(w) \/ CopyTask(w) \/ Advance(w)
  \/ Run(w)
  \/ EnterFinish(w) \/ OneLess(w) \/ LockActive(w) \/ Signal(w) \/ UnlockActive(w)
  \/ Leave(w)

Next ==
  \/ Caller
  \/ Inside
  \/ \E w \in Workers : PoolThread(w)
  \/ OwnerWakes
  \/ \E w \in Workers : Wake(w)

(* Every thread that can run eventually does, and tasks end.  The owner    *)
(* need not call anything, and no wake-up without a reason is due.         *)
Spec ==
  /\ Init /\ [][Next]_vars
  /\ WF_vars(Inside)
  /\ \A w \in Workers : WF_vars(PoolThread(w))

-----------------------------------------------------------------------------
(* Properties.                                                             *)

OwnerPlaces ==
  {"idle", "create", "full", "store", "wait", "count", "unlock", "broadcast", "await",
   "check", "drowsy", "asleep", "close", "join", "destroyed"}
WorkerPlaces ==
  {"none", "lock", "count", "drowsy", "asleep", "closing", "fetch", "copy", "advance",
   "run", "finish", "less", "last", "signal", "unlock", "leave", "ended"}

(* Every variable has its type; no more is queued than there are slots,    *)
(* and no more is released than was queued, until the pool closes.         *)
TypeOK ==
  /\ pc \in OwnerPlaces
  /\ back \in {"idle", "store", "close"}
  /\ created \in 0 .. MaxAllowedThreads
  /\ added \in 0 .. MaxTasks
  /\ active \in 0 .. PoolSize
  /\ queue \in [Slots -> 0 .. MaxTasks]
  /\ top \in Slots /\ bottom \in Slots
  /\ closing \in BOOLEAN
  /\ count \in 0 .. PoolSize
  /\ anyActive \in BOOLEAN
  /\ countMutex \in Holders /\ activeMutex \in Holders /\ section \in Holders
  /\ at \in [Workers -> WorkerPlaces]
  /\ task \in [Workers -> 0 .. MaxTasks]
  /\ runs \in [1 .. MaxTasks -> Nat]
  /\ spurious \in 0 .. MaxSpurious

(* The comments on AddTask and WaitDone claim that no lock is needed: when *)
(* the owner reads or writes ActiveThreads, TaskQueue, AnyActive or        *)
(* Closing outside the locks that the workers use, no worker is between    *)
(* taking a task and reporting that it is done.                            *)
Working ==
  {w \in Workers : at[w] \in {"closing", "fetch", "copy", "advance", "run", "finish",
                              "less", "last", "signal", "unlock"}}
NoDataRace ==
  pc \in {"full", "store", "wait", "close", "count"} => closing \/ Working = {}

(* The pool does what ForkJoin promises: every task that was added runs    *)
(* once, while the owner waits, before WaitDone returns.                   *)
Unrun == {t \in 1 .. added : runs[t] = 0}
Promise == INSTANCE ForkJoin WITH
  Tasks <- 1 .. MaxTasks,
  Room <- PoolSize,
  phase <- IF closing THEN "closed"
           ELSE IF pc \in {"unlock", "broadcast", "await", "check", "drowsy", "asleep"}
             THEN "waiting" ELSE "free",
  pending <- Unrun,
  done <- {t \in 1 .. MaxTasks : runs[t] = 1}
KeepsPromise == Promise!Spec

(* AddTask, WaitDone and the destructor return: no wake-up is lost, and    *)
(* every thread ends.                                                      *)
CallsReturn == (pc \notin {"idle", "destroyed"}) ~> (pc \in {"idle", "destroyed"})
=============================================================================

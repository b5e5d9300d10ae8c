----------------------------- MODULE ForkJoin -----------------------------
(***************************************************************************)
(* What a ThreadPool promises the thread that owns it: tasks added with    *)
(* AddTask run while the owner waits for them, each of them once, and      *)
(* when WaitDone returns all of them have run.                             *)
(***************************************************************************)
EXTENDS Naturals, FiniteSets

CONSTANTS
  Tasks,      \* the tasks there are
  Room        \* how many tasks can be queued

VARIABLES
  phase,      \* the owner: free to add, waiting, or done with the pool
  pending,    \* tasks added and not run
  done        \* tasks that have run

vars == <<phase, pending, done>>

Init == phase = "free" /\ pending = {} /\ done = {}

Add(t) ==
  /\ phase = "free"
  /\ t \notin pending \cup done
  /\ Cardinality(pending) < Room
  /\ pending' = pending \cup {t}
  /\ UNCHANGED <<phase, done>>

Wait ==
  /\ phase = "free" /\ pending # {}
  /\ phase' = "waiting"
  /\ UNCHANGED <<pending, done>>

Run(t) ==
  /\ phase = "waiting"
  /\ t \in pending
  /\ pending' = pending \ {t}
  /\ done' = done \cup {t}
  /\ UNCHANGED phase

Return ==
  /\ phase = "waiting" /\ pending = {}
  /\ phase' = "free"
  /\ UNCHANGED <<pending, done>>

(* The pool is destroyed only when nothing is left to run.                 *)
Close ==
  /\ phase = "free" /\ pending = {}
  /\ phase' = "closed"
  /\ UNCHANGED <<pending, done>>

Next ==
  \/ \E t \in Tasks : Add(t) \/ Run(t)
  \/ Wait \/ Return \/ Close

Spec == Init /\ [][Next]_vars
=============================================================================

------------------------------- MODULE Monitor -------------------------------
(***************************************************************************)
(* What Atomics.Mutex and Atomics.Condition promise together: at most one  *)
(* thread is inside, and waiting gives up the mutex and begins to wait in  *)
(* one step.                                                               *)
(***************************************************************************)
CONSTANTS Threads, NoThread

VARIABLES
  holder,  \* the thread that has the mutex, or NoThread
  waiting  \* threads that have given it up to wait and were not yet woken

vars == <<holder, waiting>>

Init == holder = NoThread /\ waiting = {}

Acquire(t) ==
  /\ holder = NoThread /\ t \notin waiting
  /\ holder' = t
  /\ UNCHANGED waiting

Release(t) ==
  /\ holder = t
  /\ holder' = NoThread
  /\ UNCHANGED waiting

Wait(t) ==
  /\ holder = t
  /\ holder' = NoThread
  /\ waiting' = waiting \cup {t}

\* By a notification or by a timeout.
Wake(t) ==
  /\ t \in waiting
  /\ waiting' = waiting \ {t}
  /\ UNCHANGED holder

Next == \E t \in Threads : Acquire(t) \/ Release(t) \/ Wait(t) \/ Wake(t)

Spec == Init /\ [][Next]_vars
=============================================================================

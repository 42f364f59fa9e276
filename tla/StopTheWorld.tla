---------------------------- MODULE StopTheWorld -----------------------------
(***************************************************************************)
(* What a safepoint promises, without saying how: the threads that may     *)
(* touch the heap, and the one process, if any, for which the world is     *)
(* stopped.  The world stops only when no other thread has access, and no  *)
(* thread gains access until it is resumed.                                *)
(***************************************************************************)
CONSTANTS
  Mutators,  \* the threads that may ask for access to the heap
  Stoppers,  \* the processes that may stop the world
  None       \* nobody

VARIABLES
  access,    \* the threads that have access now
  stopper    \* for whom the world is stopped

vars == <<access, stopper>>

Init == access \in SUBSET Mutators /\ stopper = None

\* LocalHeap::Unpark has returned.
Gain(t) ==
  /\ t \notin access /\ stopper = None
  /\ access' = access \union {t}
  /\ UNCHANGED stopper

\* LocalHeap::Park or the safepoint poll gives access up.
Lose(t) ==
  /\ t \in access /\ stopper # t
  /\ access' = access \ {t}
  /\ UNCHANGED stopper

\* The safepoint scope is entered ...
Stop(p) ==
  /\ stopper = None /\ access \subseteq {p}
  /\ stopper' = p
  /\ UNCHANGED access

\* ... and left.
Resume(p) ==
  /\ stopper = p
  /\ stopper' = None
  /\ UNCHANGED access

Next ==
  \/ \E t \in Mutators : Gain(t) \/ Lose(t)
  \/ \E p \in Stoppers : Stop(p) \/ Resume(p)

Spec == Init /\ [][Next]_vars
==============================================================================

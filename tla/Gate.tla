-------------------------------- MODULE Gate --------------------------------
(***************************************************************************)
(* What CancelableTaskManager promises to the thread that calls            *)
(* CancelAndWait: once the gate is closed nobody is inside and nobody      *)
(* enters any more, so that what is behind it may be deleted.              *)
(***************************************************************************)
CONSTANT Workers

VARIABLES
  inside,  \* the workers that use what the gate protects
  gate     \* "open", "closing" (somebody waits), "closed" (the wait is over)

vars == <<inside, gate>>

Init == inside = {} /\ gate = "open"

Enter(w) ==
  /\ gate = "open"
  /\ w \notin inside
  /\ inside' = inside \cup {w}
  /\ UNCHANGED gate

Leave(w) ==
  /\ w \in inside
  /\ inside' = inside \ {w}
  /\ UNCHANGED gate

\* Closing waits for the workers inside, and need not wait when there is none.
Close ==
  /\ gate = "open"
  /\ \/ gate' = "closing"
     \/ gate' = "closed" /\ inside = {}
  /\ UNCHANGED inside

Drained ==
  /\ gate = "closing"
  /\ inside = {}
  /\ gate' = "closed"
  /\ UNCHANGED inside

Next ==
  \/ \E w \in Workers : Enter(w) \/ Leave(w)
  \/ Close
  \/ Drained

Spec == Init /\ [][Next]_vars
=============================================================================

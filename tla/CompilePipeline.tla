--------------------------- MODULE CompilePipeline ---------------------------
(***************************************************************************)
(* What a compile dispatcher does with jobs, whatever threads and queues   *)
(* it uses: a job waits in turn, is worked on, is done, and is collected;  *)
(* jobs that wait may be dropped.  No job is in two places.                *)
(***************************************************************************)
EXTENDS Sequences

CONSTANT Jobs

VARIABLES
  waiting,  \* jobs in the order in which they arrived
  working,  \* jobs that a worker has taken
  done      \* jobs in the order in which they were finished

vars == <<waiting, working, done>>

Items(s) == {s[i] : i \in DOMAIN s}

Init == waiting = <<>> /\ working = {} /\ done = <<>>

Arrive(j) ==
  /\ j \notin Items(waiting) \cup working \cup Items(done)
  /\ waiting' = Append(waiting, j)
  /\ UNCHANGED <<working, done>>

Take ==
  /\ waiting # <<>>
  /\ working' = working \cup {Head(waiting)}
  /\ waiting' = Tail(waiting)
  /\ UNCHANGED done

Finish(j) ==
  /\ j \in working
  /\ working' = working \ {j}
  /\ done' = Append(done, j)
  /\ UNCHANGED waiting

Collect ==
  /\ done # <<>>
  /\ done' = Tail(done)
  /\ UNCHANGED <<waiting, working>>

Drop ==
  /\ waiting' = <<>>
  /\ UNCHANGED <<working, done>>

Next ==
  \/ \E j \in Jobs : Arrive(j) \/ Finish(j)
  \/ Take \/ Collect \/ Drop

Spec == Init /\ [][Next]_vars
=============================================================================

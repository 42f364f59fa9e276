-------------------------- MODULE DefaultJobProofs --------------------------
(***************************************************************************)
(* Proofs about DefaultJob, for every number of workers, pool size, limit  *)
(* kMaxWorkersPerJob and amount of work: the counters and the task ids of  *)
(* the job describe its threads, and Run is never entered by more threads  *)
(* than GetMaxConcurrency allows.                                          *)
(***************************************************************************)
EXTENDS DefaultJob, FiniteSetTheorems, TLAPS

(***************************************************************************)
(* The inductive invariant.                                                *)
(***************************************************************************)
Posted == {w \in Workers : pc[w] \in {"posted", "locked"}}
PoolSize == Min({NumWorkerThreads, kMaxWorkersPerJob})

\* Workers do what workers do, and the owner what the owner does.
PcInv ==
  /\ \A w \in Workers : pc[w] \in WorkerStates
  /\ pc[Owner] \in OwnerStates

\* Join, which is called at most once, has added one worker to the pool's.
ThreadsInv ==
  num_worker_threads =
    PoolSize + (IF Joining \/ pc[Owner] \in {"leave", "joined"} THEN 1 ELSE 0)

\* The counters without what follows of them for a dead job.
CountInv ==
  /\ active_workers = Cardinality(ActiveWorkers) + (IF Joining THEN 1 ELSE 0)
  /\ Alive => pending_tasks = Cardinality(Posted)
  /\ active_workers + pending_tasks <= num_worker_threads

\* Whoever cancels or has joined has set is_canceled_, which stays set.
CancelInv ==
  pc[Owner] \in {"leave", "joined", "cancel_wait", "cancel_woken", "canceled", "detached"}
    => is_canceled

\* Only a thread whose delegate exists has a task id.
HolderInv ==
  \A t \in Threads : task_id[t] # kInvalidTaskId =>
    \/ t \in Workers /\ pc[t] \in {"run", "notify", "ran"}
    \/ t = Owner /\ pc[t] \in {"run", "notify", "wait", "woken", "leave"}

\* Work that is left has been added.
WorkInv == items <= added

JobProofInv ==
  /\ TypeOK /\ WorkInv /\ PcInv /\ ThreadsInv /\ CountInv /\ CancelInv
  /\ HolderInv /\ TaskIdsDistinct /\ NobodyRunsAfterReturn

-----------------------------------------------------------------------------
(* Arithmetic and finite sets. *)

\* std::min of two numbers.
LEMMA MinOfTwo ==
  ASSUME NEW a \in Int, NEW b \in Int
  PROVE  Min({a, b}) = IF a <= b THEN a ELSE b
<1>1. \E x \in {a, b} : \A y \in {a, b} : x =< y
  OBVIOUS
<1>2. Min({a, b}) \in {a, b} /\ \A y \in {a, b} : Min({a, b}) =< y
  BY <1>1 DEF Min
<1>3. QED
  BY <1>2

\* std::max of two numbers.
LEMMA MaxOfTwo ==
  ASSUME NEW a \in Int, NEW b \in Int
  PROVE  Max({a, b}) = IF a >= b THEN a ELSE b
<1>1. \E x \in {a, b} : \A y \in {a, b} : x >= y
  OBVIOUS
<1>2. Max({a, b}) \in {a, b} /\ \A y \in {a, b} : Max({a, b}) >= y
  BY <1>1 DEF Max
<1>3. QED
  BY <1>2

\* The right-most zero bit is the smallest free number.
LEMMA MinOfNaturals ==
  ASSUME NEW S \in SUBSET Nat, S # {}
  PROVE  Min(S) \in S /\ \A y \in S : Min(S) <= y
<1> DEFINE R == OpToRel(<, Nat)
<1>1. IsWellFoundedOn(R, Nat)
  BY NatLessThanWellFounded
<1>2. \A x, y \in Nat : y < x => <<y, x>> \in R
  <2>1. SUFFICES ASSUME NEW x \in Nat, NEW y \in Nat, y < x
                 PROVE  <<y, x>> \in R
    OBVIOUS
  <2>2. <<y, x>> \in Nat \X Nat /\ <<y, x>>[1] = y /\ <<y, x>>[2] = x
    OBVIOUS
  <2>3. QED
    BY <2>1, <2>2 DEF OpToRel
<1> HIDE DEF R
<1>3. PICK x \in S : \A y \in S : ~ (<<y, x>> \in R)
  BY <1>1, WFMin
<1>4. \A y \in S : x =< y
  <2>1. \A y \in S : ~ (y < x)
    BY <1>2, <1>3, Zenon
  <2>2. QED
    BY <2>1
<1>5. QED
  BY <1>4 DEF Min

\* The pool is not empty and not larger than kMaxWorkersPerJob.
LEMMA PoolSizeFacts ==
  /\ PoolSize \in Nat \ {0}
  /\ PoolSize <= kMaxWorkersPerJob /\ PoolSize <= NumWorkerThreads
BY NumbersAssumption, MinOfTwo DEF PoolSize

\* What CappedMaxConcurrency returns.
LEMMA CappedFacts ==
  ASSUME TypeOK, NEW n \in Nat
  PROVE  /\ GetMaxConcurrency(n) \in Nat
         /\ CappedMaxConcurrency(n) \in Nat
         /\ CappedMaxConcurrency(n) <= num_worker_threads
         /\ CappedMaxConcurrency(n) <= GetMaxConcurrency(n)
         /\ CappedMaxConcurrency(n) \in {GetMaxConcurrency(n), num_worker_threads}
<1>1. GetMaxConcurrency(n) \in Nat
  BY NumbersAssumption DEF TypeOK, GetMaxConcurrency
<1>2. num_worker_threads \in Nat
  BY DEF TypeOK
<1>3. QED
  BY <1>1, <1>2, MinOfTwo DEF CappedMaxConcurrency

\* The sets of threads are finite.
LEMMA FiniteSetsOfThreads ==
  /\ IsFiniteSet(ActiveWorkers) /\ Cardinality(ActiveWorkers) \in Nat
  /\ IsFiniteSet(Posted) /\ Cardinality(Posted) \in Nat
<1>1. ActiveWorkers \subseteq Workers /\ Posted \subseteq Workers
  BY DEF ActiveWorkers, Posted
<1>2. QED
  BY <1>1, OwnerAssumption, FS_Subset, FS_CardinalityType

\* The same of the next state.
LEMMA FiniteSetsOfThreadsNext ==
  /\ IsFiniteSet(ActiveWorkers') /\ Cardinality(ActiveWorkers') \in Nat
  /\ IsFiniteSet(Posted') /\ Cardinality(Posted') \in Nat
<1>1. ActiveWorkers' \subseteq Workers /\ Posted' \subseteq Workers
  BY DEF ActiveWorkers, Posted
<1>2. QED
  BY <1>1, OwnerAssumption, FS_Subset, FS_CardinalityType

\* One more or one less.
LEMMA CountOneMore ==
  ASSUME NEW S, NEW x, IsFiniteSet(S), x \notin S
  PROVE  Cardinality(S \cup {x}) = Cardinality(S) + 1
BY FS_AddElement

LEMMA CountOneLess ==
  ASSUME NEW S, NEW x, IsFiniteSet(S), x \in S
  PROVE  Cardinality(S \ {x}) = Cardinality(S) - 1 /\ Cardinality(S) > 0
<1>1. Cardinality(S \ {x}) = Cardinality(S) - 1 /\ Cardinality(S \ {x}) \in Nat
  BY FS_RemoveElement, FS_CardinalityType
<1>2. Cardinality(S) \in Nat
  BY FS_CardinalityType
<1>3. QED
  BY <1>1, <1>2

\* Nobody works for a job that is gone.
LEMMA DeadMeansIdle ==
  ASSUME PcInv, ~Alive
  PROVE  ActiveWorkers = {} /\ ~Joining
BY DEF PcInv, Alive, ActiveWorkers, Joining

\* The invariant is strong enough.
LEMMA ProofInvImpliesJobInv ==
  ASSUME JobProofInv
  PROVE  JobInv
<1>1. ~Alive => active_workers = 0
  <2>1. SUFFICES ASSUME ~Alive PROVE active_workers = 0
    OBVIOUS
  <2>2. ActiveWorkers = {} /\ ~Joining
    BY <2>1, DeadMeansIdle DEF JobProofInv
  <2>3. QED
    BY <2>2, FS_EmptySet DEF JobProofInv, CountInv
<1>2. CountersExact
  BY <1>1 DEF JobProofInv, CountInv, CountersExact, Posted
<1>3. QED
  BY <1>2 DEF JobProofInv, JobInv

\* A new job has no threads.
LEMMA InitEstablishes ==
  ASSUME Init
  PROVE  JobProofInv
<1>1. /\ pc[Owner] = "open" /\ \A w \in Workers : pc[w] = "none"
      /\ \A t \in Threads : task_id[t] = kInvalidTaskId
  BY OwnerAssumption DEF Init, Threads
<1>2. TypeOK
  <2>1. pc \in [Threads -> WorkerStates \cup OwnerStates]
    BY DEF Init, WorkerStates, OwnerStates
  <2>2. task_id \in [Threads -> -1..kMaxWorkersPerJob]
    BY NumbersAssumption DEF Init, kInvalidTaskId
  <2>3. num_worker_threads \in Nat
    BY PoolSizeFacts DEF Init, PoolSize
  <2>4. 0 \in 0..MaxItems /\ {} \in SUBSET (0..kMaxWorkersPerJob)
    BY NumbersAssumption
  <2>5. QED
    BY <2>1, <2>2, <2>3, <2>4 DEF Init, TypeOK
<1>3. PcInv /\ CancelInv /\ HolderInv /\ NobodyRunsAfterReturn /\ ~Joining
  BY <1>1 DEF PcInv, CancelInv, HolderInv, NobodyRunsAfterReturn, Joining,
              WorkerStates, OwnerStates
<1>4. ActiveWorkers = {} /\ Posted = {}
  BY <1>1 DEF ActiveWorkers, Posted
<1>5. ThreadsInv /\ WorkInv
  BY <1>1, <1>3, PoolSizeFacts DEF ThreadsInv, WorkInv, Init, PoolSize
<1>6. CountInv
  <2>1. active_workers = 0 /\ pending_tasks = 0 /\ num_worker_threads \in Nat
    BY <1>2 DEF Init, TypeOK
  <2>2. QED
    BY <1>3, <1>4, <2>1, FS_EmptySet DEF CountInv
<1>7. TaskIdsDistinct
  BY <1>1 DEF TaskIdsDistinct, Init
<1>8. QED
  BY <1>2, <1>3, <1>5, <1>6, <1>7 DEF JobProofInv

-----------------------------------------------------------------------------
(* Frames: which part of the invariant a kind of step cannot disturb. *)

\* The counters stay exact when no thread is counted differently.
LEMMA SameThreadsSameCounts ==
  ASSUME JobProofInv, UNCHANGED state,
         ActiveWorkers' = ActiveWorkers, Posted' = Posted, Joining' = Joining,
         pc'[Owner] \in {"leave", "joined"} <=> pc[Owner] \in {"leave", "joined"},
         Alive' => Alive
  PROVE  ThreadsInv' /\ CountInv'
<1>1. ThreadsInv'
  BY DEF JobProofInv, ThreadsInv, state, PoolSize
<1>2. CountInv'
  BY DEF JobProofInv, CountInv, state
<1>3. QED
  BY <1>1, <1>2

\* A step of the job's own work.
LEMMA WorkPreserves ==
  ASSUME JobProofInv, UNCHANGED <<state, ids, pc, counts_workers>>,
         items' \in 0..MaxItems, added' \in 0..MaxItems, items' <= added',
         pc[Owner] \in {"leave", "joined"} => items' = 0
  PROVE  JobProofInv'
<1> USE DEF state, ids
<1>1. ActiveWorkers' = ActiveWorkers /\ Posted' = Posted /\ Joining' = Joining
      /\ Alive' = Alive
  BY DEF ActiveWorkers, Posted, Joining, Alive
<1>2. ThreadsInv' /\ CountInv'
  BY <1>1, SameThreadsSameCounts
<1>3. TypeOK' /\ WorkInv'
  BY DEF JobProofInv, TypeOK, WorkInv
<1>4. PcInv' /\ CancelInv' /\ HolderInv' /\ TaskIdsDistinct'
  BY DEF JobProofInv, PcInv, CancelInv, HolderInv, TaskIdsDistinct
<1>5. NobodyRunsAfterReturn'
  BY <1>1 DEF JobProofInv, NobodyRunsAfterReturn
<1>6. QED
  BY <1>2, <1>3, <1>4, <1>5 DEF JobProofInv

\* A worker goes on and is counted as before.
LEMMA WorkerMovePreserves ==
  ASSUME JobProofInv, NEW w \in Workers, NEW s,
         \/ pc[w] = "run" /\ s \in {"notify", "ran"}
         \/ pc[w] = "posted" /\ s = "locked"
         \/ pc[w] = "unlock" /\ s = "none",
         pc' = [pc EXCEPT ![w] = s], UNCHANGED <<state, ids, counts_workers>>,
         items' \in 0..MaxItems, added' \in 0..MaxItems, items' <= added',
         items # items' => pc[w] = "run", pc[w] = "posted" => Alive
  PROVE  JobProofInv'
<1> USE OwnerAssumption DEF state, ids
<1>1. /\ w # Owner /\ w \in Threads /\ Owner \in Threads
      /\ pc \in [Threads -> WorkerStates \cup OwnerStates]
      /\ s \in {"notify", "ran", "locked", "none"}
      /\ pc[w] \in {"run", "posted", "unlock"}
  BY DEF JobProofInv, TypeOK, Threads
<1>2. pc'[Owner] = pc[Owner] /\ pc'[w] = s /\ \A u \in Workers \ {w} : pc'[u] = pc[u]
  BY <1>1 DEF Threads
<1>3. TypeOK' /\ WorkInv'
  <2>1. pc' \in [Threads -> WorkerStates \cup OwnerStates]
    BY <1>1 DEF WorkerStates
  <2>2. QED
    BY <2>1 DEF JobProofInv, TypeOK, WorkInv
<1>4. PcInv' /\ CancelInv'
  BY <1>1, <1>2 DEF JobProofInv, PcInv, CancelInv, WorkerStates
<1>5. ActiveWorkers' = ActiveWorkers /\ Posted' = Posted /\ Joining' = Joining
      /\ (Alive' => Alive)
  BY <1>1, <1>2 DEF ActiveWorkers, Posted, Joining, Alive
<1>6. ThreadsInv' /\ CountInv'
  BY <1>2, <1>5, SameThreadsSameCounts
<1>7. HolderInv'
  BY <1>1, <1>2 DEF JobProofInv, HolderInv, Threads
<1>8. TaskIdsDistinct'
  BY DEF JobProofInv, TaskIdsDistinct
<1>9. NobodyRunsAfterReturn'
  BY <1>1, <1>2, <1>5 DEF JobProofInv, NobodyRunsAfterReturn, ActiveWorkers
<1>10. QED
  BY <1>3, <1>4, <1>6, <1>7, <1>8, <1>9 DEF JobProofInv

\* The owner goes on, outside the beginning and the end of Join.
LEMMA OwnerMovePreserves ==
  ASSUME JobProofInv, NEW s,
         \/ pc[Owner] = "run" /\ s \in {"notify", "woken"}
         \/ pc[Owner] = "join" /\ s = "join_wait"
         \/ pc[Owner] = "woken" /\ s = "wait"
         \/ pc[Owner] = "open" /\ s \in {"cancel_wait", "canceled", "detached"}
         \/ pc[Owner] = "cancel_woken" /\ s \in {"cancel_wait", "canceled"},
         pc' = [pc EXCEPT ![Owner] = s],
         is_canceled' \in BOOLEAN, is_canceled => is_canceled',
         pc[Owner] = "open" => is_canceled',
         s = "canceled" => active_workers = 0,
         UNCHANGED <<active_workers, pending_tasks, num_worker_threads, ids, counts_workers>>,
         items' \in 0..MaxItems, added' \in 0..MaxItems, items' <= added'
  PROVE  JobProofInv'
<1> USE OwnerAssumption DEF ids
<1>1. /\ Owner \in Threads /\ pc \in [Threads -> WorkerStates \cup OwnerStates]
      /\ s \in OwnerStates \ {"leave", "joined", "open", "join"}
      /\ pc[Owner] \notin {"leave", "joined", "canceled", "detached"}
  BY DEF JobProofInv, TypeOK, Threads, OwnerStates
<1>2. pc'[Owner] = s /\ \A u \in Workers : pc'[u] = pc[u]
  BY <1>1 DEF Threads
<1>3. TypeOK' /\ WorkInv'
  <2>1. pc' \in [Threads -> WorkerStates \cup OwnerStates]
    BY <1>1
  <2>2. QED
    BY <2>1 DEF JobProofInv, TypeOK, WorkInv
<1>4. PcInv' /\ CancelInv'
  BY <1>1, <1>2 DEF JobProofInv, PcInv, CancelInv, OwnerStates
<1>5. ActiveWorkers' = ActiveWorkers /\ Posted' = Posted /\ Joining' = Joining /\ Alive
  BY <1>1, <1>2 DEF ActiveWorkers, Posted, Joining, Alive
<1>6. ThreadsInv' /\ CountInv'
  <2>1. ThreadsInv'
    BY <1>1, <1>2, <1>5 DEF JobProofInv, ThreadsInv, PoolSize
  <2>2. CountInv'
    BY <1>5 DEF JobProofInv, CountInv
  <2>3. QED
    BY <2>1, <2>2
<1>7. HolderInv'
  BY <1>1, <1>2 DEF JobProofInv, HolderInv, Threads
<1>8. TaskIdsDistinct'
  BY DEF JobProofInv, TaskIdsDistinct
<1>9. NobodyRunsAfterReturn'
  <2>1. SUFFICES ASSUME s = "canceled" PROVE is_canceled' /\ ActiveWorkers' = {}
    BY <1>1, <1>2 DEF NobodyRunsAfterReturn
  <2>2. is_canceled'
    BY <1>2, <1>4, <2>1 DEF CancelInv
  <2>3. active_workers = 0 /\ Cardinality(ActiveWorkers) \in Nat
    BY <2>1, FiniteSetsOfThreads
  <2>4. Cardinality(ActiveWorkers) = 0
    BY <2>3 DEF JobProofInv, CountInv
  <2>5. QED
    BY <1>5, <2>2, <2>4, FiniteSetsOfThreads, FS_EmptySet
<1>10. QED
  BY <1>3, <1>4, <1>6, <1>7, <1>8, <1>9 DEF JobProofInv

\* PostTasks posts just as many tasks as keep the job within its threads.
LEMMA PostTasksPreserves ==
  ASSUME JobProofInv, NEW t \in Threads, NEW s, NEW m \in Nat, m <= num_worker_threads,
         \/ t \in Workers /\ pc[t] \in {"notify", "did"} /\ s = "run"
         \/ t = Owner /\ pc[t] \in {"notify", "join", "woken"} /\ s = "run"
         \/ t = Owner /\ pc[t] = "open" /\ s = "open",
         PostTasks(t, s, m),
         UNCHANGED <<active_workers, is_canceled, num_worker_threads, ids, work>>
  PROVE  JobProofInv'
<1> USE OwnerAssumption DEF ids, work
<1> DEFINE n == Max({0, m - active_workers - pending_tasks})
<1>1. /\ active_workers \in Nat /\ pending_tasks \in Nat /\ num_worker_threads \in Nat
      /\ active_workers + pending_tasks <= num_worker_threads
  BY DEF JobProofInv, TypeOK, CountInv
<1>2. n \in Nat /\ active_workers + pending_tasks + n <= num_worker_threads
  BY <1>1, MaxOfTwo
<1>3. PICK new \in SUBSET {w \in Workers : pc[w] = "none"} :
        /\ Cardinality(new) = n
        /\ pending_tasks' = pending_tasks + n
        /\ pc' = [u \in Threads |->
                    IF u = t THEN s ELSE IF u \in new THEN "posted" ELSE pc[u]]
  BY DEF PostTasks
<1> HIDE DEF n
<1>4. /\ pc \in [Threads -> WorkerStates \cup OwnerStates] /\ Owner \in Threads
      /\ t \notin new /\ Owner \notin new
      /\ s \in {"run", "open"}
      /\ pc[t] \in {"notify", "did", "join", "woken", "open"}
  BY DEF JobProofInv, TypeOK, Threads
<1>5. /\ pc'[t] = s
      /\ \A u \in new : pc'[u] = "posted" /\ pc[u] = "none"
      /\ \A u \in Threads : u # t /\ u \notin new => pc'[u] = pc[u]
  BY <1>3, <1>4 DEF Threads
<1>6. pending_tasks' \in Nat /\ active_workers' + pending_tasks' <= num_worker_threads'
  BY <1>1, <1>2, <1>3
<1>7. TypeOK' /\ WorkInv'
  <2>1. pc' \in [Threads -> WorkerStates \cup OwnerStates]
    BY <1>3, <1>4 DEF WorkerStates, OwnerStates
  <2>2. QED
    BY <1>6, <2>1 DEF JobProofInv, TypeOK, WorkInv
<1>8. PcInv'
  <2>1. pc'[Owner] \in OwnerStates
    BY <1>4, <1>5 DEF JobProofInv, PcInv, OwnerStates
  <2>2. \A w \in Workers : pc'[w] \in WorkerStates
    BY <1>4, <1>5 DEF JobProofInv, PcInv, WorkerStates, Threads
  <2>3. QED
    BY <2>1, <2>2 DEF PcInv
<1>9. /\ CancelInv' /\ Joining' = Joining
      /\ pc'[Owner] \in {"leave", "joined"} <=> pc[Owner] \in {"leave", "joined"}
  BY <1>4, <1>5 DEF JobProofInv, CancelInv, Joining
<1>10. ActiveWorkers' = ActiveWorkers
  BY <1>4, <1>5 DEF ActiveWorkers, Threads
<1>11. Posted' = Posted \cup new /\ Posted \cap new = {}
  BY <1>3, <1>4, <1>5 DEF Posted, Threads
<1>12. Alive
  BY <1>4 DEF Alive, Threads
<1>13. Cardinality(Posted') = Cardinality(Posted) + n
  <2>1. IsFiniteSet(new)
    BY FS_Subset
  <2>2. Cardinality(Posted \cup new) = Cardinality(Posted) + Cardinality(new) - Cardinality({})
    BY <1>11, <2>1, FiniteSetsOfThreads, FS_Union
  <2>3. QED
    BY <1>2, <1>3, <1>11, <2>2, FS_EmptySet, FiniteSetsOfThreads
<1>14. CountInv'
  BY <1>3, <1>6, <1>9, <1>10, <1>12, <1>13 DEF JobProofInv, CountInv
<1>15. ThreadsInv'
  BY <1>9 DEF JobProofInv, ThreadsInv, PoolSize
<1>16. HolderInv'
  BY <1>4, <1>5 DEF JobProofInv, HolderInv, Threads
<1>17. TaskIdsDistinct'
  BY DEF JobProofInv, TaskIdsDistinct
<1>18. NobodyRunsAfterReturn'
  BY <1>4, <1>5, <1>10 DEF JobProofInv, NobodyRunsAfterReturn
<1>19. QED
  BY <1>7, <1>8, <1>9, <1>14, <1>15, <1>16, <1>17, <1>18 DEF JobProofInv

-----------------------------------------------------------------------------
(* JobTask::Run. *)

\* Somebody is in Run: then Join and CancelAndWait have not returned.
LEMMA RunningMeansNotReturned ==
  ASSUME JobProofInv, NEW t \in Threads, pc[t] \in {"run", "notify"}
  PROVE  pc[Owner] \notin {"leave", "joined", "canceled"}
<1>1. CASE t = Owner
  BY <1>1
<1>2. CASE t # Owner
  <2>1. t \in ActiveWorkers
    BY <1>2 DEF ActiveWorkers, Threads
  <2>2. QED
    BY <2>1 DEF JobProofInv, NobodyRunsAfterReturn
<1>3. QED
  BY <1>1, <1>2

LEMMA TakeItemPreserves ==
  ASSUME JobProofInv, NEW t \in Threads, TakeItem(t)
  PROVE  JobProofInv'
<1>1. items \in 0..MaxItems /\ added \in 0..MaxItems /\ items <= added
  BY DEF JobProofInv, TypeOK, WorkInv
<1>2. items' \in 0..MaxItems /\ added' \in 0..MaxItems /\ items' <= added'
  BY <1>1, NumbersAssumption DEF TakeItem
<1>3. pc[Owner] \notin {"leave", "joined"} /\ UNCHANGED <<state, ids, pc, counts_workers>>
  BY RunningMeansNotReturned DEF TakeItem, At
<1>4. QED
  BY <1>2, <1>3, WorkPreserves

LEMMA AddItemPreserves ==
  ASSUME JobProofInv, NEW t \in Threads, AddItem(t)
  PROVE  JobProofInv'
<1>1. items \in 0..MaxItems /\ added \in 0..MaxItems /\ items <= added /\ added < MaxItems
  BY DEF JobProofInv, TypeOK, WorkInv, AddItem
<1>2. items' \in 0..MaxItems /\ added' \in 0..MaxItems /\ items' <= added'
  BY <1>1, NumbersAssumption DEF AddItem
<1>3. /\ pc[Owner] \notin {"leave", "joined"} /\ pc[t] = "run"
      /\ UNCHANGED <<state, ids, counts_workers>>
  BY RunningMeansNotReturned DEF AddItem, At
<1>4. CASE is_canceled
  <2>1. UNCHANGED pc
    BY <1>4 DEF AddItem
  <2>2. QED
    BY <1>2, <1>3, <2>1, WorkPreserves
<1>5. CASE ~is_canceled
  <2>1. pc' = [pc EXCEPT ![t] = "notify"]
    BY <1>5 DEF AddItem, GoTo
  <2>2. CASE t \in Workers
    BY <1>2, <1>3, <2>1, <2>2, WorkerMovePreserves
  <2>3. CASE t = Owner
    <3>1. UNCHANGED <<active_workers, pending_tasks, is_canceled, num_worker_threads>>
          /\ is_canceled \in BOOLEAN
      BY <1>3 DEF state, JobProofInv, TypeOK
    <3>2. QED
      BY <1>2, <1>3, <2>1, <2>3, <3>1, OwnerMovePreserves
  <2>4. QED
    BY <2>2, <2>3 DEF Threads
<1>6. QED
  BY <1>4, <1>5

LEMMA NotifyConcurrencyIncreasePreserves ==
  ASSUME JobProofInv, NEW t \in Threads, NotifyConcurrencyIncrease(t)
  PROVE  JobProofInv'
<1>1. TypeOK /\ active_workers \in Nat
  BY DEF JobProofInv, TypeOK
<1>2. /\ CappedMaxConcurrency(active_workers) \in Nat
      /\ CappedMaxConcurrency(active_workers) <= num_worker_threads
  BY <1>1, CappedFacts
<1>3. /\ pc[t] = "notify" /\ PostTasks(t, "run", CappedMaxConcurrency(active_workers))
      /\ UNCHANGED <<active_workers, is_canceled, num_worker_threads, ids, work>>
  BY DEF NotifyConcurrencyIncrease, At
<1>4. QED
  BY <1>2, <1>3, PostTasksPreserves DEF Threads

LEMMA ReturnFromRunPreserves ==
  ASSUME JobProofInv, NEW t \in Threads, ReturnFromRun(t)
  PROVE  JobProofInv'
<1>1. /\ pc[t] = "run" /\ UNCHANGED <<state, ids, work>>
      /\ pc' = [pc EXCEPT ![t] = IF t = Owner THEN "woken" ELSE "ran"]
  BY DEF ReturnFromRun, At, GoTo
<1>2. /\ items' \in 0..MaxItems /\ added' \in 0..MaxItems /\ items' <= added'
      /\ UNCHANGED <<items, counts_workers, active_workers, pending_tasks, is_canceled,
                     num_worker_threads>>
      /\ is_canceled \in BOOLEAN
  BY <1>1 DEF JobProofInv, TypeOK, WorkInv, work, state
<1>3. CASE t \in Workers
  <2>1. pc' = [pc EXCEPT ![t] = "ran"]
    BY <1>1, <1>3, OwnerAssumption
  <2>2. QED
    BY <1>1, <1>2, <1>3, <2>1, WorkerMovePreserves
<1>4. CASE t = Owner
  <2>1. pc' = [pc EXCEPT ![Owner] = "woken"]
    BY <1>1, <1>4
  <2>2. QED
    BY <1>1, <1>2, <1>4, <2>1, OwnerMovePreserves
<1>5. QED
  BY <1>3, <1>4 DEF Threads

\* While a thread in Run has no id yet, fewer ids are assigned than there are
\* active workers: GetTaskId finds a zero bit among the first bits, as many as
\* the job has threads.
LEMMA FreeIdExists ==
  ASSUME JobProofInv, NEW t \in Threads, pc[t] = "run", task_id[t] = kInvalidTaskId
  PROVE  /\ Min(FreeIds) \in FreeIds
         /\ Min(FreeIds) \in 0..(num_worker_threads - 1)
<1> USE NumbersAssumption, OwnerAssumption
<1> DEFINE Holders == {u \in Threads : task_id[u] # kInvalidTaskId}
           Joiner == IF Joining THEN {Owner} ELSE {}
           All == ActiveWorkers \cup Joiner
<1>1. pc[Owner] # "leave"
  BY RunningMeansNotReturned
<1>2. Holders \subseteq All \ {t} /\ t \in All
  <2>1. ASSUME NEW u \in Holders PROVE u \in All
    BY <1>1 DEF JobProofInv, HolderInv, ActiveWorkers, Joining, Threads
  <2>2. t \in All /\ t \notin Holders
    BY DEF ActiveWorkers, Joining, Threads
  <2>3. QED
    BY <2>1, <2>2
<1>3. IsFiniteSet(All) /\ Cardinality(All) = active_workers
  <2>1. CASE Joining
    <3>1. All = ActiveWorkers \cup {Owner} /\ Owner \notin ActiveWorkers
      BY <2>1 DEF ActiveWorkers
    <3>2. QED
      BY <2>1, <3>1, FiniteSetsOfThreads, FS_AddElement DEF JobProofInv, CountInv
  <2>2. CASE ~Joining
    <3>1. All = ActiveWorkers
      BY <2>2
    <3>2. QED
      BY <2>2, <3>1, FiniteSetsOfThreads DEF JobProofInv, CountInv
  <2>3. QED
    BY <2>1, <2>2
<1> HIDE DEF All
<1>4. IsFiniteSet(All \ {t}) /\ Cardinality(All \ {t}) = active_workers - 1
  BY <1>2, <1>3, FS_RemoveElement
<1>5. IsFiniteSet(Holders) /\ Cardinality(Holders) <= active_workers - 1
  BY <1>2, <1>4, FS_Subset
<1>6. /\ IsFiniteSet(assigned_task_ids)
      /\ Cardinality(assigned_task_ids) <= Cardinality(Holders)
  <2> DEFINE f == [u \in Holders |-> task_id[u]]
  <2>1. \A v \in assigned_task_ids : \E u \in Holders : f[u] = v
    BY DEF JobProofInv, TaskIdsDistinct
  <2>2. f \in [Holders -> assigned_task_ids]
    BY DEF JobProofInv, TaskIdsDistinct
  <2> HIDE DEF f, Holders
  <2>3. f \in Surjection(Holders, assigned_task_ids)
    BY <2>1, <2>2 DEF Surjection
  <2>4. QED
    BY <1>5, <2>3, FS_Surjection
<1> HIDE DEF Holders
<1>7. /\ active_workers \in Nat /\ pending_tasks \in Nat /\ num_worker_threads \in Nat
      /\ active_workers + pending_tasks <= num_worker_threads
      /\ num_worker_threads - 1 <= kMaxWorkersPerJob
  BY PoolSizeFacts DEF JobProofInv, TypeOK, CountInv, ThreadsInv
<1>8. Cardinality(assigned_task_ids) \in Nat /\ Cardinality(assigned_task_ids) < num_worker_threads
  <2>1. Cardinality(assigned_task_ids) \in Nat /\ Cardinality(Holders) \in Nat
    BY <1>5, <1>6, FS_CardinalityType
  <2>2. QED
    BY <1>5, <1>6, <1>7, <2>1
<1>9. PICK i \in 0..(num_worker_threads - 1) : i \in FreeIds
  <2>1. SUFFICES ASSUME \A i \in 0..(num_worker_threads - 1) : i \notin FreeIds PROVE FALSE
    OBVIOUS
  <2>2. 0..(num_worker_threads - 1) \subseteq assigned_task_ids
    BY <1>7, <2>1 DEF FreeIds
  <2>3. Cardinality(0..(num_worker_threads - 1)) <= Cardinality(assigned_task_ids)
    BY <1>6, <2>2, FS_Subset
  <2>4. Cardinality(0..(num_worker_threads - 1)) = num_worker_threads
    BY <1>7, <1>8, FS_Interval
  <2>5. QED
    BY <1>7, <1>8, <2>3, <2>4
<1>10. Min(FreeIds) \in FreeIds /\ \A y \in FreeIds : Min(FreeIds) <= y
  <2>1. FreeIds \in SUBSET Nat
    BY DEF FreeIds
  <2>2. QED
    BY <1>9, <2>1, MinOfNaturals
<1>11. Min(FreeIds) <= i /\ Min(FreeIds) \in Nat
  BY <1>9, <1>10 DEF FreeIds
<1>12. QED
  BY <1>7, <1>9, <1>10, <1>11

LEMMA AcquireTaskIdPreserves ==
  ASSUME JobProofInv, NEW t \in Threads, AcquireTaskId(t)
  PROVE  JobProofInv'
<1> DEFINE i == Min(FreeIds)
<1>1. /\ pc[t] = "run" /\ task_id[t] = kInvalidTaskId
      /\ task_id' = [task_id EXCEPT ![t] = i]
      /\ assigned_task_ids' = assigned_task_ids \cup {i}
      /\ UNCHANGED <<state, pc, work>>
  BY DEF AcquireTaskId, At
<1>2. i \in FreeIds /\ i \in 0..(num_worker_threads - 1)
  BY <1>1, FreeIdExists
<1> HIDE DEF i
<1>3. i \in 0..kMaxWorkersPerJob /\ i \notin assigned_task_ids /\ i # kInvalidTaskId
  BY <1>2, NumbersAssumption DEF FreeIds, kInvalidTaskId
<1>4. task_id \in [Threads -> -1..kMaxWorkersPerJob]
  BY DEF JobProofInv, TypeOK
<1>5. task_id'[t] = i /\ \A u \in Threads \ {t} : task_id'[u] = task_id[u]
  BY <1>1, <1>4
<1>6. TypeOK' /\ WorkInv'
  <2>1. task_id' \in [Threads -> -1..kMaxWorkersPerJob]
    BY <1>1, <1>3, <1>4, NumbersAssumption
  <2>2. QED
    BY <1>1, <1>3, <2>1 DEF JobProofInv, TypeOK, WorkInv, state, work
<1>7. /\ ActiveWorkers' = ActiveWorkers /\ Posted' = Posted /\ Joining' = Joining
      /\ Alive' = Alive /\ pc' = pc
  BY <1>1 DEF ActiveWorkers, Posted, Joining, Alive
<1>8. ThreadsInv' /\ CountInv'
  BY <1>1, <1>7, SameThreadsSameCounts
<1>9. PcInv' /\ CancelInv' /\ NobodyRunsAfterReturn'
  BY <1>1, <1>7 DEF JobProofInv, PcInv, CancelInv, NobodyRunsAfterReturn, state, work
<1>10. HolderInv'
  BY <1>1, <1>5 DEF JobProofInv, HolderInv, Threads
<1>11. TaskIdsDistinct'
  <2>1. \A u, v \in Threads : u # v /\ task_id'[u] = task_id'[v] => task_id'[u] = kInvalidTaskId
    BY <1>3, <1>5 DEF JobProofInv, TaskIdsDistinct
  <2>2. {task_id'[u] : u \in Threads} \ {kInvalidTaskId} = assigned_task_ids'
    BY <1>1, <1>3, <1>5 DEF JobProofInv, TaskIdsDistinct
  <2>3. assigned_task_ids' \subseteq 0..(num_worker_threads' - 1)
    BY <1>1, <1>2 DEF JobProofInv, TaskIdsDistinct, state
  <2>4. QED
    BY <2>1, <2>2, <2>3 DEF TaskIdsDistinct
<1>12. QED
  BY <1>6, <1>8, <1>9, <1>10, <1>11 DEF JobProofInv

\* Giving an id back frees that bit and no other.
LEMMA GivingBackAnId ==
  ASSUME JobProofInv, NEW t \in Threads,
         assigned_task_ids' = assigned_task_ids \ {task_id[t]}, UNCHANGED state,
         task_id' = [task_id EXCEPT ![t] = kInvalidTaskId]
  PROVE  /\ TaskIdsDistinct'
         /\ assigned_task_ids' \in SUBSET (0..kMaxWorkersPerJob)
         /\ task_id' \in [Threads -> -1..kMaxWorkersPerJob]
         /\ task_id'[t] = kInvalidTaskId
         /\ \A u \in Threads \ {t} : task_id'[u] = task_id[u]
<1>1. /\ task_id \in [Threads -> -1..kMaxWorkersPerJob]
      /\ assigned_task_ids \in SUBSET (0..kMaxWorkersPerJob)
  BY DEF JobProofInv, TypeOK
<1>2. task_id'[t] = kInvalidTaskId /\ \A u \in Threads \ {t} : task_id'[u] = task_id[u]
  BY <1>1
<1>3. kInvalidTaskId \in -1..kMaxWorkersPerJob
  BY NumbersAssumption DEF kInvalidTaskId
<1>4. task_id' \in [Threads -> -1..kMaxWorkersPerJob]
  BY <1>1, <1>3
<1>5. \A u, v \in Threads : u # v /\ task_id'[u] = task_id'[v] => task_id'[u] = kInvalidTaskId
  BY <1>2 DEF JobProofInv, TaskIdsDistinct
<1>6. {task_id'[u] : u \in Threads} \ {kInvalidTaskId} = assigned_task_ids'
  BY <1>2 DEF JobProofInv, TaskIdsDistinct
<1>7. assigned_task_ids' \subseteq 0..(num_worker_threads' - 1)
  BY DEF JobProofInv, TaskIdsDistinct, state
<1>8. QED
  BY <1>1, <1>2, <1>4, <1>5, <1>6, <1>7 DEF TaskIdsDistinct

-----------------------------------------------------------------------------
(* DefaultJobWorker::Run. *)

\* A task of a job that is gone disappears uncounted.
LEMMA LockPreserves ==
  ASSUME JobProofInv, NEW w \in Workers, Lock(w)
  PROVE  JobProofInv'
<1> USE OwnerAssumption
<1>1. /\ pc[w] = "posted" /\ UNCHANGED <<state, ids, work>>
      /\ pc' = [pc EXCEPT ![w] = IF Alive THEN "locked" ELSE "none"]
  BY DEF Lock, At, GoTo
<1>2. /\ items' \in 0..MaxItems /\ added' \in 0..MaxItems /\ items' <= added'
      /\ UNCHANGED <<items, counts_workers>>
  BY <1>1 DEF JobProofInv, TypeOK, WorkInv, work
<1>3. CASE Alive
  <2>1. pc' = [pc EXCEPT ![w] = "locked"]
    BY <1>1, <1>3
  <2>2. QED
    BY <1>1, <1>2, <1>3, <2>1, WorkerMovePreserves
<1>4. CASE ~Alive
  <2>1. pc' = [pc EXCEPT ![w] = "none"] /\ w \in Threads /\ w # Owner /\ Owner \in Threads
        /\ pc \in [Threads -> WorkerStates \cup OwnerStates]
    BY <1>1, <1>4 DEF JobProofInv, TypeOK, Threads
  <2>2. pc'[w] = "none" /\ \A u \in Threads \ {w} : pc'[u] = pc[u]
    BY <2>1
  <2>3. ~Alive'
    BY <1>1, <1>4, <2>1, <2>2 DEF Alive, Threads
  <2>4. ActiveWorkers' = ActiveWorkers /\ Joining' = Joining /\ pc'[Owner] = pc[Owner]
    BY <1>1, <2>1, <2>2 DEF ActiveWorkers, Joining, Threads
  <2>5. TypeOK' /\ WorkInv'
    <3>1. pc' \in [Threads -> WorkerStates \cup OwnerStates]
      BY <2>1 DEF WorkerStates
    <3>2. QED
      BY <1>1, <3>1 DEF JobProofInv, TypeOK, WorkInv, state, ids, work
  <2>6. PcInv' /\ CancelInv' /\ HolderInv'
    <3>1. PcInv'
      BY <2>1, <2>2 DEF JobProofInv, PcInv, WorkerStates, Threads
    <3>2. CancelInv'
      BY <1>1, <2>4 DEF JobProofInv, CancelInv, state
    <3>3. HolderInv'
      BY <1>1, <2>1, <2>2 DEF JobProofInv, HolderInv, ids, Threads
    <3>4. QED
      BY <3>1, <3>2, <3>3
  <2>7. ThreadsInv' /\ CountInv'
    BY <1>1, <2>3, <2>4 DEF JobProofInv, ThreadsInv, CountInv, state, PoolSize
  <2>8. TaskIdsDistinct'
    BY <1>1 DEF JobProofInv, TaskIdsDistinct, ids, state
  <2>9. NobodyRunsAfterReturn'
    BY <1>1, <2>4 DEF JobProofInv, NobodyRunsAfterReturn, state, work
  <2>10. QED
    BY <2>5, <2>6, <2>7, <2>8, <2>9 DEF JobProofInv
<1>5. QED
  BY <1>3, <1>4

\* A task stops being pending, and either becomes active or goes away.
LEMMA CanRunFirstTaskPreserves ==
  ASSUME JobProofInv, NEW w \in Workers, CanRunFirstTask(w)
  PROVE  JobProofInv'
<1> USE OwnerAssumption
<1> DEFINE goes == is_canceled \/ active_workers >= CappedMaxConcurrency(active_workers)
<1>1. /\ pc[w] = "locked" /\ pending_tasks' = pending_tasks - 1
      /\ UNCHANGED <<is_canceled, num_worker_threads, ids, work>>
      /\ pc' = [pc EXCEPT ![w] = IF goes THEN "unlock" ELSE "run"]
      /\ active_workers' = IF goes THEN active_workers ELSE active_workers + 1
  BY DEF CanRunFirstTask, At, GoTo
<1>2. ~goes => ~is_canceled
  OBVIOUS
<1> HIDE DEF goes
<1>3. /\ w \in Threads /\ w # Owner /\ Owner \in Threads
      /\ pc \in [Threads -> WorkerStates \cup OwnerStates]
      /\ active_workers \in Nat /\ pending_tasks \in Nat /\ num_worker_threads \in Nat
  BY DEF JobProofInv, TypeOK, Threads
<1>4. /\ pc'[w] = IF goes THEN "unlock" ELSE "run"
      /\ \A u \in Threads \ {w} : pc'[u] = pc[u]
  BY <1>1, <1>3
<1>5. Alive
  BY <1>1 DEF Alive
<1>6. Posted' = Posted \ {w} /\ w \in Posted
  BY <1>1, <1>3, <1>4 DEF Posted, Threads
<1>7. pending_tasks = Cardinality(Posted) /\ pending_tasks > 0
      /\ Cardinality(Posted') = pending_tasks - 1
  BY <1>5, <1>6, FiniteSetsOfThreads, CountOneLess DEF JobProofInv, CountInv
<1>8. /\ ActiveWorkers' = IF goes THEN ActiveWorkers ELSE ActiveWorkers \cup {w}
      /\ w \notin ActiveWorkers
  BY <1>1, <1>3, <1>4 DEF ActiveWorkers, Threads
<1>9. Joining' = Joining /\ pc'[Owner] = pc[Owner]
  BY <1>3, <1>4 DEF Joining
<1>10. /\ Cardinality(ActiveWorkers') =
            IF goes THEN Cardinality(ActiveWorkers) ELSE Cardinality(ActiveWorkers) + 1
       /\ Cardinality(ActiveWorkers) \in Nat
  BY <1>8, FiniteSetsOfThreads, CountOneMore
<1>11. CountInv'
  <2>1. active_workers' = Cardinality(ActiveWorkers') + (IF Joining' THEN 1 ELSE 0)
    BY <1>1, <1>9, <1>10 DEF JobProofInv, CountInv
  <2>2. active_workers' + pending_tasks' <= num_worker_threads'
    BY <1>1, <1>3 DEF JobProofInv, CountInv
  <2>3. QED
    BY <1>1, <1>7, <2>1, <2>2 DEF CountInv
<1>12. TypeOK' /\ WorkInv'
  <2>1. pc' \in [Threads -> WorkerStates \cup OwnerStates]
    BY <1>1, <1>3 DEF WorkerStates
  <2>2. active_workers' \in Nat /\ pending_tasks' \in Nat
    BY <1>1, <1>3, <1>7
  <2>3. QED
    BY <1>1, <2>1, <2>2 DEF JobProofInv, TypeOK, WorkInv, ids, work
<1>13. PcInv' /\ CancelInv' /\ HolderInv'
  <2>1. PcInv'
    BY <1>3, <1>4 DEF JobProofInv, PcInv, WorkerStates, Threads
  <2>2. CancelInv'
    BY <1>1, <1>9 DEF JobProofInv, CancelInv
  <2>3. HolderInv'
    BY <1>1, <1>3, <1>4 DEF JobProofInv, HolderInv, ids, Threads
  <2>4. QED
    BY <2>1, <2>2, <2>3
<1>14. ThreadsInv'
  BY <1>1, <1>9 DEF JobProofInv, ThreadsInv, PoolSize
<1>15. TaskIdsDistinct'
  BY <1>1 DEF JobProofInv, TaskIdsDistinct, ids
<1>16. NobodyRunsAfterReturn'
  BY <1>1, <1>2, <1>8, <1>9 DEF JobProofInv, NobodyRunsAfterReturn, work
<1>17. QED
  BY <1>11, <1>12, <1>13, <1>14, <1>15, <1>16 DEF JobProofInv

LEMMA ReleaseTaskIdPreserves ==
  ASSUME JobProofInv, NEW w \in Workers, ReleaseTaskId(w)
  PROVE  JobProofInv'
<1> USE OwnerAssumption
<1>1. /\ pc[w] = "ran" /\ UNCHANGED <<state, work>>
      /\ assigned_task_ids' = assigned_task_ids \ {task_id[w]}
      /\ task_id' = [task_id EXCEPT ![w] = kInvalidTaskId]
      /\ pc' = [pc EXCEPT ![w] = "did"]
  BY DEF ReleaseTaskId, At, GoTo
<1>2. w \in Threads /\ w # Owner /\ Owner \in Threads
      /\ pc \in [Threads -> WorkerStates \cup OwnerStates]
  BY DEF JobProofInv, TypeOK, Threads
<1>3. /\ TaskIdsDistinct'
      /\ assigned_task_ids' \in SUBSET (0..kMaxWorkersPerJob)
      /\ task_id' \in [Threads -> -1..kMaxWorkersPerJob]
      /\ task_id'[w] = kInvalidTaskId
      /\ \A u \in Threads \ {w} : task_id'[u] = task_id[u]
  BY <1>1, <1>2, GivingBackAnId
<1>4. pc'[w] = "did" /\ \A u \in Threads \ {w} : pc'[u] = pc[u]
  BY <1>1, <1>2
<1>5. /\ ActiveWorkers' = ActiveWorkers /\ Posted' = Posted /\ Joining' = Joining
      /\ pc'[Owner] = pc[Owner] /\ Alive
  BY <1>1, <1>2, <1>4 DEF ActiveWorkers, Posted, Joining, Alive, Threads
<1>6. ThreadsInv' /\ CountInv'
  BY <1>1, <1>5, SameThreadsSameCounts
<1>7. TypeOK' /\ WorkInv'
  <2>1. pc' \in [Threads -> WorkerStates \cup OwnerStates]
    BY <1>1, <1>2 DEF WorkerStates
  <2>2. QED
    BY <1>1, <1>3, <2>1 DEF JobProofInv, TypeOK, WorkInv, state, work
<1>8. PcInv' /\ CancelInv' /\ HolderInv'
  <2>1. PcInv'
    BY <1>2, <1>4 DEF JobProofInv, PcInv, WorkerStates, Threads
  <2>2. CancelInv'
    BY <1>1, <1>5 DEF JobProofInv, CancelInv, state
  <2>3. HolderInv'
    BY <1>3, <1>4 DEF JobProofInv, HolderInv
  <2>4. QED
    BY <2>1, <2>2, <2>3
<1>9. NobodyRunsAfterReturn'
  BY <1>1, <1>5 DEF JobProofInv, NobodyRunsAfterReturn, state, work
<1>10. QED
  BY <1>3, <1>6, <1>7, <1>8, <1>9 DEF JobProofInv

\* DidRunTask lets the worker go and wakes the owner, or keeps it.
LEMMA DidRunTaskPreserves ==
  ASSUME JobProofInv, NEW w \in Workers, DidRunTask(w)
  PROVE  JobProofInv'
<1> USE OwnerAssumption
<1> DEFINE m == CappedMaxConcurrency(active_workers - 1)
           goes == is_canceled \/ active_workers > m
<1>1. /\ w \in Threads /\ w # Owner /\ Owner \in Threads
      /\ pc \in [Threads -> WorkerStates \cup OwnerStates]
      /\ active_workers \in Nat /\ pending_tasks \in Nat /\ num_worker_threads \in Nat
      /\ TypeOK
  BY DEF JobProofInv, TypeOK, Threads
<1>2. pc[w] = "did" /\ UNCHANGED <<is_canceled, num_worker_threads, ids, work>>
  BY DEF DidRunTask, At
<1>3. w \in ActiveWorkers
  BY <1>2 DEF ActiveWorkers
<1>4. /\ Cardinality(ActiveWorkers) \in Nat /\ Cardinality(ActiveWorkers) > 0
      /\ Cardinality(ActiveWorkers \ {w}) = Cardinality(ActiveWorkers) - 1
  BY <1>3, FiniteSetsOfThreads, CountOneLess
<1>5. active_workers >= 1
  BY <1>4 DEF JobProofInv, CountInv
<1>6. m \in Nat /\ m <= num_worker_threads
  BY <1>1, <1>5, CappedFacts
<1>7. CASE ~goes
  <2>1. PostTasks(w, "run", m) /\ UNCHANGED active_workers
    BY <1>7 DEF DidRunTask
  <2> HIDE DEF m
  <2>2. QED
    BY <1>1, <1>2, <1>6, <2>1, PostTasksPreserves
<1>8. CASE goes
  <2>1. /\ active_workers' = active_workers - 1 /\ UNCHANGED pending_tasks
        /\ pc' = [pc EXCEPT ![w] = "unlock",
                            ![Owner] = CASE @ = "join_wait" -> "join"
                                         [] @ = "wait" -> "woken"
                                         [] @ = "cancel_wait" -> "cancel_woken"
                                         [] OTHER -> @]
    BY <1>8 DEF DidRunTask, NotifyOwner
  <2> HIDE DEF goes, m
  <2>2. /\ pc'[w] = "unlock" /\ \A u \in Workers \ {w} : pc'[u] = pc[u]
        /\ pc'[Owner] = CASE pc[Owner] = "join_wait" -> "join"
                          [] pc[Owner] = "wait" -> "woken"
                          [] pc[Owner] = "cancel_wait" -> "cancel_woken"
                          [] OTHER -> pc[Owner]
    BY <1>1, <2>1 DEF Threads
  <2>3. /\ pc[Owner] = "join_wait" => pc'[Owner] = "join"
        /\ pc[Owner] = "wait" => pc'[Owner] = "woken"
        /\ pc[Owner] = "cancel_wait" => pc'[Owner] = "cancel_woken"
        /\ pc[Owner] \notin {"join_wait", "wait", "cancel_wait"} => pc'[Owner] = pc[Owner]
    BY <2>2
  <2>4. TypeOK' /\ WorkInv'
    <3>1. pc' \in [Threads -> WorkerStates \cup OwnerStates]
      <4>1. pc'[Owner] \in WorkerStates \cup OwnerStates
        BY <1>1, <2>3 DEF OwnerStates
      <4>2. "unlock" \in WorkerStates \cup OwnerStates
        BY DEF WorkerStates
      <4>3. pc' = [pc EXCEPT ![w] = "unlock", ![Owner] = pc'[Owner]]
        BY <1>1, <2>1, <2>2
      <4>4. QED
        BY <1>1, <4>1, <4>2, <4>3
    <3>2. active_workers' \in Nat
      BY <1>1, <1>5, <2>1
    <3>3. QED
      BY <1>2, <2>1, <3>1, <3>2 DEF JobProofInv, TypeOK, WorkInv, ids, work
  <2>5. PcInv' /\ CancelInv' /\ HolderInv'
    <3>1. PcInv'
      BY <2>2, <2>3 DEF JobProofInv, PcInv, WorkerStates, OwnerStates
    <3>2. CancelInv'
      BY <1>2, <2>3 DEF JobProofInv, CancelInv
    <3>3. HolderInv'
      BY <1>2, <2>2, <2>3 DEF JobProofInv, HolderInv, ids, Threads
    <3>4. QED
      BY <3>1, <3>2, <3>3
  <2>6. /\ Joining' = Joining
        /\ pc'[Owner] \in {"leave", "joined"} <=> pc[Owner] \in {"leave", "joined"}
    BY <2>3 DEF Joining
  <2>7. ThreadsInv'
    BY <1>2, <2>6 DEF JobProofInv, ThreadsInv, PoolSize
  <2>8. ActiveWorkers' = ActiveWorkers \ {w} /\ Posted' = Posted /\ Alive
    BY <1>2, <2>2 DEF ActiveWorkers, Posted, Alive
  <2>9. CountInv'
    <3>1. active_workers' = Cardinality(ActiveWorkers') + (IF Joining' THEN 1 ELSE 0)
      BY <1>4, <2>1, <2>6, <2>8 DEF JobProofInv, CountInv
    <3>2. active_workers' + pending_tasks' <= num_worker_threads'
      BY <1>1, <1>2, <2>1 DEF JobProofInv, CountInv
    <3>3. QED
      BY <2>1, <2>8, <3>1, <3>2 DEF JobProofInv, CountInv
  <2>10. TaskIdsDistinct'
    BY <1>2 DEF JobProofInv, TaskIdsDistinct, ids
  <2>11. NobodyRunsAfterReturn'
    BY <1>2, <1>3, <2>3 DEF JobProofInv, NobodyRunsAfterReturn
  <2>12. QED
    BY <2>4, <2>5, <2>7, <2>9, <2>10, <2>11 DEF JobProofInv
<1>9. QED
  BY <1>7, <1>8

LEMMA UnlockPreserves ==
  ASSUME JobProofInv, NEW w \in Workers, Unlock(w)
  PROVE  JobProofInv'
<1>1. pc[w] = "unlock" /\ UNCHANGED <<state, ids, work>> /\ pc' = [pc EXCEPT ![w] = "none"]
  BY DEF Unlock, At, GoTo
<1>2. /\ items' \in 0..MaxItems /\ added' \in 0..MaxItems /\ items' <= added'
      /\ UNCHANGED <<items, counts_workers>>
  BY <1>1 DEF JobProofInv, TypeOK, WorkInv, work
<1>3. QED
  BY <1>1, <1>2, WorkerMovePreserves

-----------------------------------------------------------------------------
(* The owner of the handle. *)

LEMMA OwnerAddsItemPreserves ==
  ASSUME JobProofInv, OwnerAddsItem
  PROVE  JobProofInv'
<1>1. items \in 0..MaxItems /\ added \in 0..MaxItems /\ items <= added /\ added < MaxItems
  BY DEF JobProofInv, TypeOK, WorkInv, OwnerAddsItem
<1>2. items' \in 0..MaxItems /\ added' \in 0..MaxItems /\ items' <= added'
  BY <1>1, NumbersAssumption DEF OwnerAddsItem
<1>3. pc[Owner] = "open" /\ UNCHANGED <<state, ids, pc, counts_workers>>
  BY DEF OwnerAddsItem, At
<1>4. QED
  BY <1>2, <1>3, WorkPreserves

LEMMA OwnerNotifiesPreserves ==
  ASSUME JobProofInv, OwnerNotifies
  PROVE  JobProofInv'
<1>1. TypeOK /\ active_workers \in Nat /\ Owner \in Threads
  BY DEF JobProofInv, TypeOK, Threads
<1>2. /\ CappedMaxConcurrency(active_workers) \in Nat
      /\ CappedMaxConcurrency(active_workers) <= num_worker_threads
  BY <1>1, CappedFacts
<1>3. /\ pc[Owner] = "open" /\ PostTasks(Owner, "open", CappedMaxConcurrency(active_workers))
      /\ UNCHANGED <<active_workers, is_canceled, num_worker_threads, ids, work>>
  BY DEF OwnerNotifies, At
<1>4. QED
  BY <1>1, <1>2, <1>3, PostTasksPreserves

\* Join and the two ways to cancel leave the threads of the job alone.
LEMMA JoinPreserves ==
  ASSUME JobProofInv, Join
  PROVE  JobProofInv'
<1> USE OwnerAssumption
<1>1. /\ pc[Owner] = "open" /\ pc' = [pc EXCEPT ![Owner] = "join"]
      /\ num_worker_threads' = num_worker_threads + 1
      /\ active_workers' = active_workers + 1
      /\ UNCHANGED <<pending_tasks, is_canceled, ids, work>>
  BY DEF Join, At, GoTo
<1>2. /\ Owner \in Threads /\ pc \in [Threads -> WorkerStates \cup OwnerStates]
      /\ active_workers \in Nat /\ pending_tasks \in Nat /\ num_worker_threads \in Nat
  BY DEF JobProofInv, TypeOK, Threads
<1>3. pc'[Owner] = "join" /\ \A w \in Workers : pc'[w] = pc[w]
  BY <1>1, <1>2 DEF Threads
<1>4. TypeOK' /\ WorkInv'
  <2>1. pc' \in [Threads -> WorkerStates \cup OwnerStates]
    BY <1>1, <1>2 DEF OwnerStates
  <2>2. QED
    BY <1>1, <1>2, <2>1 DEF JobProofInv, TypeOK, WorkInv, ids, work
<1>5. PcInv' /\ CancelInv' /\ NobodyRunsAfterReturn'
  BY <1>3 DEF JobProofInv, PcInv, CancelInv, NobodyRunsAfterReturn, OwnerStates
<1>6. ~Joining /\ Joining' /\ Alive /\ ActiveWorkers' = ActiveWorkers /\ Posted' = Posted
  BY <1>1, <1>3 DEF Joining, Alive, ActiveWorkers, Posted
<1>7. ThreadsInv'
  BY <1>1, <1>6, PoolSizeFacts DEF JobProofInv, ThreadsInv, PoolSize
<1>8. CountInv'
  <2>1. active_workers' = Cardinality(ActiveWorkers') + (IF Joining' THEN 1 ELSE 0)
    BY <1>1, <1>6, FiniteSetsOfThreads DEF JobProofInv, CountInv
  <2>2. active_workers' + pending_tasks' <= num_worker_threads'
    BY <1>1, <1>2 DEF JobProofInv, CountInv
  <2>3. QED
    BY <1>1, <1>6, <2>1, <2>2 DEF JobProofInv, CountInv
<1>9. HolderInv'
  BY <1>1, <1>3 DEF JobProofInv, HolderInv, ids, Threads
<1>10. TaskIdsDistinct'
  <2>1. assigned_task_ids' \subseteq 0..(num_worker_threads' - 1)
    BY <1>1, <1>2 DEF JobProofInv, TaskIdsDistinct, ids
  <2>2. QED
    BY <1>1, <2>1 DEF JobProofInv, TaskIdsDistinct, ids
<1>11. QED
  BY <1>4, <1>5, <1>7, <1>8, <1>9, <1>10 DEF JobProofInv

LEMMA CancelPreserves ==
  ASSUME JobProofInv, CancelAndWait \/ CancelAndDetach \/ WakeInCancelAndWait
  PROVE  JobProofInv'
<1>1. active_workers \in Nat
  BY DEF JobProofInv, TypeOK
<1>2. PICK s \in {"cancel_wait", "canceled", "detached"} :
        /\ pc' = [pc EXCEPT ![Owner] = s]
        /\ \/ pc[Owner] = "open" /\ is_canceled'
           \/ pc[Owner] = "cancel_woken" /\ s # "detached" /\ is_canceled' = is_canceled
        /\ s = "canceled" => ~(active_workers > 0)
  BY DEF CancelAndWait, CancelAndDetach, WakeInCancelAndWait, At, GoTo, state
<1>3. /\ is_canceled' \in BOOLEAN
      /\ UNCHANGED <<active_workers, pending_tasks, num_worker_threads, ids, work>>
  BY DEF CancelAndWait, CancelAndDetach, WakeInCancelAndWait, state, JobProofInv, TypeOK
<1>4. /\ items' \in 0..MaxItems /\ added' \in 0..MaxItems /\ items' <= added'
      /\ UNCHANGED <<items, counts_workers>>
  BY <1>3 DEF JobProofInv, TypeOK, WorkInv, work
<1>5. s = "canceled" => active_workers = 0
  BY <1>1, <1>2
<1>6. (is_canceled => is_canceled') /\ (pc[Owner] = "open" => is_canceled')
  BY <1>2
<1>7. \/ pc[Owner] = "open" /\ s \in {"cancel_wait", "canceled", "detached"}
      \/ pc[Owner] = "cancel_woken" /\ s \in {"cancel_wait", "canceled"}
  BY <1>2
<1>8. QED
  BY <1>2, <1>3, <1>4, <1>5, <1>6, <1>7, OwnerMovePreserves

\* One round of WaitForParticipationOpportunity.  When it says that there is
\* nothing left to do, the joining thread is the last active worker.
LEMMA WaitForParticipationOpportunityPreserves ==
  ASSUME JobProofInv, WaitForParticipationOpportunity
  PROVE  JobProofInv'
<1> USE OwnerAssumption
<1> DEFINE m == CappedMaxConcurrency(active_workers - 1)
<1>1. /\ Owner \in Threads /\ pc \in [Threads -> WorkerStates \cup OwnerStates]
      /\ active_workers \in Nat /\ pending_tasks \in Nat /\ num_worker_threads \in Nat
      /\ TypeOK
  BY DEF JobProofInv, TypeOK, Threads
<1>2. /\ pc[Owner] \in {"join", "woken"} /\ UNCHANGED <<num_worker_threads, ids, work>>
  BY DEF WaitForParticipationOpportunity
<1>3. /\ Joining /\ Cardinality(ActiveWorkers) \in Nat
      /\ active_workers = Cardinality(ActiveWorkers) + 1
  BY <1>2, FiniteSetsOfThreads DEF Joining, JobProofInv, CountInv
<1>4. active_workers - 1 \in Nat
  BY <1>1, <1>3
<1>5. /\ m \in Nat /\ m <= num_worker_threads
      /\ m \in {GetMaxConcurrency(active_workers - 1), num_worker_threads}
  BY <1>1, <1>4, CappedFacts
<1>6. CASE active_workers > m /\ active_workers > 1
  <2>1. /\ pc' = [pc EXCEPT ![Owner] = IF pc[Owner] = "join" THEN "join_wait" ELSE "wait"]
        /\ UNCHANGED <<active_workers, pending_tasks, is_canceled>>
    BY <1>6 DEF WaitForParticipationOpportunity, GoTo, At
  <2>2. /\ items' \in 0..MaxItems /\ added' \in 0..MaxItems /\ items' <= added'
        /\ UNCHANGED <<items, counts_workers>> /\ is_canceled \in BOOLEAN
    BY <1>2 DEF JobProofInv, TypeOK, WorkInv, work
  <2> HIDE DEF m
  <2>3. CASE pc[Owner] = "join"
    <3>1. pc' = [pc EXCEPT ![Owner] = "join_wait"]
      BY <2>1, <2>3
    <3>2. QED
      BY <1>2, <2>1, <2>2, <2>3, <3>1, OwnerMovePreserves
  <2>4. CASE pc[Owner] = "woken"
    <3>1. pc' = [pc EXCEPT ![Owner] = "wait"]
      BY <2>1, <2>4
    <3>2. QED
      BY <1>2, <2>1, <2>2, <2>4, <3>1, OwnerMovePreserves
  <2>5. QED
    BY <1>2, <2>3, <2>4
<1>7. CASE ~(active_workers > m /\ active_workers > 1) /\ m # 0
  <2>1. /\ PostTasks(Owner, "run", IF At(Owner, "join") THEN m ELSE 0)
        /\ UNCHANGED <<active_workers, is_canceled>>
    BY <1>7 DEF WaitForParticipationOpportunity
  <2> DEFINE k == IF At(Owner, "join") THEN m ELSE 0
  <2>2. k \in Nat /\ k <= num_worker_threads /\ PostTasks(Owner, "run", k)
    BY <1>1, <1>5, <2>1
  <2> HIDE DEF k, m
  <2>3. QED
    BY <1>1, <1>2, <2>1, <2>2, PostTasksPreserves
<1>8. CASE ~(active_workers > m /\ active_workers > 1) /\ m = 0
  <2>1. /\ active_workers' = 0 /\ is_canceled' = TRUE /\ UNCHANGED pending_tasks
        /\ pc' = [pc EXCEPT ![Owner] = "leave"]
    BY <1>8 DEF WaitForParticipationOpportunity, GoTo
  <2>2. active_workers = 1 /\ Cardinality(ActiveWorkers) = 0
    BY <1>1, <1>3, <1>8
  <2>3. ActiveWorkers = {}
    BY <2>2, FiniteSetsOfThreads, FS_EmptySet
  <2>4. items = 0
    <3>1. num_worker_threads >= 1
      BY <1>1, <2>2 DEF JobProofInv, CountInv
    <3>2. GetMaxConcurrency(0) = 0
      <4>1. active_workers - 1 = 0
        BY <2>2
      <4>2. QED
        BY <1>1, <1>5, <1>8, <3>1, <4>1
    <3>3. QED
      BY <1>1, <3>2 DEF GetMaxConcurrency, TypeOK
  <2> HIDE DEF m
  <2>5. pc'[Owner] = "leave" /\ \A w \in Workers : pc'[w] = pc[w]
    BY <1>1, <2>1 DEF Threads
  <2>6. ~Joining' /\ Alive /\ ActiveWorkers' = ActiveWorkers /\ Posted' = Posted
    BY <1>2, <2>5 DEF Joining, Alive, ActiveWorkers, Posted
  <2>7. TypeOK' /\ WorkInv'
    <3>1. pc' \in [Threads -> WorkerStates \cup OwnerStates]
      BY <1>1, <2>1 DEF OwnerStates
    <3>2. QED
      BY <1>2, <2>1, <3>1 DEF JobProofInv, TypeOK, WorkInv, ids, work
  <2>8. PcInv' /\ CancelInv'
    BY <2>1, <2>5 DEF JobProofInv, PcInv, CancelInv, OwnerStates
  <2>9. NobodyRunsAfterReturn'
    BY <1>2, <2>1, <2>3, <2>4, <2>6 DEF NobodyRunsAfterReturn, work
  <2>10. ThreadsInv'
    BY <1>2, <1>3, <2>5 DEF JobProofInv, ThreadsInv, PoolSize
  <2>11. CountInv'
    <3>1. active_workers' = Cardinality(ActiveWorkers') + (IF Joining' THEN 1 ELSE 0)
      BY <2>1, <2>2, <2>6
    <3>2. active_workers' + pending_tasks' <= num_worker_threads'
      BY <1>1, <1>2, <2>1, <2>2 DEF JobProofInv, CountInv
    <3>3. QED
      BY <2>1, <2>6, <3>1, <3>2 DEF JobProofInv, CountInv
  <2>12. HolderInv'
    BY <1>2, <2>5 DEF JobProofInv, HolderInv, ids, Threads
  <2>13. TaskIdsDistinct'
    BY <1>2 DEF JobProofInv, TaskIdsDistinct, ids
  <2>14. QED
    BY <2>7, <2>8, <2>9, <2>10, <2>11, <2>12, <2>13 DEF JobProofInv
<1>9. QED
  BY <1>6, <1>7, <1>8

LEMMA LeaveJoinPreserves ==
  ASSUME JobProofInv, LeaveJoin
  PROVE  JobProofInv'
<1> USE OwnerAssumption
<1>1. /\ pc[Owner] = "leave" /\ pc' = [pc EXCEPT ![Owner] = "joined"]
      /\ assigned_task_ids' = assigned_task_ids \ {task_id[Owner]}
      /\ task_id' = [task_id EXCEPT ![Owner] = kInvalidTaskId]
      /\ UNCHANGED <<state, work>>
  BY DEF LeaveJoin, At, GoTo
<1>2. Owner \in Threads /\ pc \in [Threads -> WorkerStates \cup OwnerStates]
  BY DEF JobProofInv, TypeOK, Threads
<1>3. /\ TaskIdsDistinct'
      /\ assigned_task_ids' \in SUBSET (0..kMaxWorkersPerJob)
      /\ task_id' \in [Threads -> -1..kMaxWorkersPerJob]
      /\ task_id'[Owner] = kInvalidTaskId
      /\ \A u \in Threads \ {Owner} : task_id'[u] = task_id[u]
  BY <1>1, <1>2, GivingBackAnId
<1>4. pc'[Owner] = "joined" /\ \A w \in Workers : pc'[w] = pc[w]
  BY <1>1, <1>2 DEF Threads
<1>5. /\ ActiveWorkers' = ActiveWorkers /\ Posted' = Posted /\ Joining' = Joining
      /\ Alive
  BY <1>1, <1>4 DEF ActiveWorkers, Posted, Joining, Alive
<1>6. ThreadsInv' /\ CountInv'
  BY <1>1, <1>4, <1>5, SameThreadsSameCounts
<1>7. TypeOK' /\ WorkInv'
  <2>1. pc' \in [Threads -> WorkerStates \cup OwnerStates]
    BY <1>1, <1>2 DEF OwnerStates
  <2>2. QED
    BY <1>1, <1>3, <2>1 DEF JobProofInv, TypeOK, WorkInv, state, work
<1>8. PcInv' /\ CancelInv' /\ NobodyRunsAfterReturn'
  BY <1>1, <1>4, <1>5 DEF JobProofInv, PcInv, CancelInv, NobodyRunsAfterReturn, OwnerStates,
                         state, work
<1>9. HolderInv'
  BY <1>3, <1>4 DEF JobProofInv, HolderInv, Threads
<1>10. QED
  BY <1>3, <1>6, <1>7, <1>8, <1>9 DEF JobProofInv

-----------------------------------------------------------------------------
(* The theorems. *)

\* Every step preserves the invariant.
LEMMA NextPreserves ==
  ASSUME JobProofInv, [Next]_vars
  PROVE  JobProofInv'
<1>1. CASE UNCHANGED vars
  <2>1. /\ items' \in 0..MaxItems /\ added' \in 0..MaxItems /\ items' <= added'
        /\ UNCHANGED <<state, ids, pc, counts_workers, items>>
    BY <1>1 DEF vars, work, JobProofInv, TypeOK, WorkInv
  <2>2. pc[Owner] \in {"leave", "joined"} => items' = 0
    BY <2>1 DEF JobProofInv, NobodyRunsAfterReturn
  <2>3. QED
    BY <2>1, <2>2, WorkPreserves
<1>2. ASSUME NEW t \in Threads, RunStep(t) \/ AddItem(t) \/ AcquireTaskId(t)
      PROVE  JobProofInv'
  BY <1>2, TakeItemPreserves, AddItemPreserves, NotifyConcurrencyIncreasePreserves,
     AcquireTaskIdPreserves, ReturnFromRunPreserves DEF RunStep
<1>3. ASSUME NEW w \in Workers, WorkerStep(w)
      PROVE  JobProofInv'
  BY <1>3, LockPreserves, CanRunFirstTaskPreserves, ReleaseTaskIdPreserves,
     DidRunTaskPreserves, UnlockPreserves DEF WorkerStep
<1>4. CASE OwnerAddsItem \/ OwnerNotifies \/ Join \/ CancelAndWait \/ CancelAndDetach
  BY <1>4, OwnerAddsItemPreserves, OwnerNotifiesPreserves, JoinPreserves, CancelPreserves
<1>5. CASE OwnerStep
  BY <1>5, WaitForParticipationOpportunityPreserves, LeaveJoinPreserves, CancelPreserves
     DEF OwnerStep
<1>6. QED
  BY <1>1, <1>2, <1>3, <1>4, <1>5 DEF Next

\* The inductive invariant holds in every reachable state.
LEMMA ProofInvHolds == Spec => []JobProofInv
<1>1. Init => JobProofInv
  BY InitEstablishes
<1>2. JobProofInv /\ [Next]_vars => JobProofInv'
  BY NextPreserves
<1>3. QED
  BY <1>1, <1>2, PTL DEF Spec

\* DefaultJobState's counters count the posted tasks, the admitted workers and
\* the joining thread, and stay within num_worker_threads_; live delegates have
\* different task ids that fit the bitfield; and when Join or CancelAndWait has
\* returned nobody is in Run and, after Join, no work is left.
THEOREM JobCorrect == Spec => []JobInv
<1>1. JobProofInv => JobInv
  BY ProofInvImpliesJobInv
<1>2. QED
  BY <1>1, ProofInvHolds, PTL

\* The threads in Run are the active workers and perhaps the joining thread.
LEMMA RunningCount ==
  ASSUME JobProofInv
  PROVE  /\ IsFiniteSet(Running) /\ Cardinality(Running) \in Nat
         /\ Cardinality(Running) <= active_workers
         /\ pc[Owner] \in {"join", "woken"} => Running = ActiveWorkers
<1> USE OwnerAssumption
<1>1. pc[Owner] \notin {"run", "notify"} => Running = ActiveWorkers
  BY DEF JobProofInv, PcInv, Running, ActiveWorkers, Threads, OwnerStates
<1>2. pc[Owner] \in {"run", "notify"} =>
        Running = ActiveWorkers \cup {Owner} /\ Owner \notin ActiveWorkers /\ Joining
  BY DEF Running, ActiveWorkers, Threads, Joining
<1>3. CASE pc[Owner] \in {"run", "notify"}
  BY <1>2, <1>3, FiniteSetsOfThreads, FS_AddElement DEF JobProofInv, CountInv
<1>4. CASE pc[Owner] \notin {"run", "notify"}
  BY <1>1, <1>4, FiniteSetsOfThreads DEF JobProofInv, CountInv
<1>5. QED
  BY <1>3, <1>4

\* Fewer workers, more room: GetMaxConcurrency adds at most its argument.
LEMMA FewerWorkersMoreRoom ==
  ASSUME TypeOK, NEW a \in Nat, NEW b \in Nat, b <= a, a < GetMaxConcurrency(a)
  PROVE  b < GetMaxConcurrency(b)
<1>1. items \in Nat
  BY NumbersAssumption DEF TypeOK
<1>2. CASE counts_workers
  BY <1>1, <1>2 DEF GetMaxConcurrency
<1>3. CASE ~counts_workers
  BY <1>1, <1>3 DEF GetMaxConcurrency
<1>4. QED
  BY <1>2, <1>3

\* JobTask: "Run() is only invoked if the number of threads previously running
\* Run() was less than the value returned" by GetMaxConcurrency, for workers
\* admitted by CanRunFirstTask, workers kept by DidRunTask and the joining thread.
THEOREM ConcurrencyIsRespected == Spec => ConcurrencyRespected
<1> DEFINE Entered == \A t \in Threads :
             ~At(t, "run") /\ ~At(t, "notify") /\ At(t, "run")' =>
               LET others == Cardinality(Running \ {t}) IN
               others < GetMaxConcurrency(others)
<1>1. ASSUME JobProofInv, Next
      PROVE  Entered
  <2> USE OwnerAssumption
  <2>1. SUFFICES ASSUME NEW t \in Threads, pc[t] # "run", pc[t] # "notify", pc'[t] = "run"
                 PROVE  Cardinality(Running \ {t})
                          < GetMaxConcurrency(Cardinality(Running \ {t}))
    BY DEF At
  <2>2. /\ IsFiniteSet(Running) /\ Cardinality(Running) \in Nat
        /\ Cardinality(Running) <= active_workers
    BY <1>1, RunningCount
  <2>3. /\ TypeOK /\ active_workers \in Nat /\ Owner \in Threads
        /\ pc \in [Threads -> WorkerStates \cup OwnerStates]
    BY <1>1 DEF JobProofInv, TypeOK, Threads
  <2>4. /\ IsFiniteSet(Running \ {t}) /\ Cardinality(Running \ {t}) \in Nat
        /\ Cardinality(Running \ {t}) <= Cardinality(Running)
        /\ t \in Running => Cardinality(Running \ {t}) = Cardinality(Running) - 1
    <3>1. /\ IsFiniteSet(Running \ {t})
          /\ Cardinality(Running \ {t}) =
               IF t \in Running THEN Cardinality(Running) - 1 ELSE Cardinality(Running)
      BY <2>2, FS_RemoveElement
    <3>2. Cardinality(Running \ {t}) \in Nat
      BY <3>1, FS_CardinalityType
    <3>3. QED
      BY <2>2, <3>1, <3>2
  <2>5. \/ t \in Workers /\ CanRunFirstTask(t)
        \/ t \in Workers /\ DidRunTask(t)
        \/ t = Owner /\ WaitForParticipationOpportunity
    <3>1. ASSUME NEW u \in Threads, RunStep(u) \/ AddItem(u) \/ AcquireTaskId(u)
          PROVE  FALSE
      BY <2>1, <2>3, <3>1 DEF RunStep, TakeItem, AddItem, NotifyConcurrencyIncrease, PostTasks,
           AcquireTaskId, ReturnFromRun, At, GoTo
    <3>2. ASSUME NEW w \in Workers, Lock(w) \/ ReleaseTaskId(w) \/ Unlock(w)
          PROVE  FALSE
      BY <2>1, <2>3, <3>2 DEF Lock, ReleaseTaskId, Unlock, At, GoTo
    <3>3. ASSUME NEW w \in Workers, CanRunFirstTask(w)
          PROVE  t = w
      BY <2>1, <2>3, <3>3 DEF CanRunFirstTask, At, GoTo, Threads
    <3>4. ASSUME NEW w \in Workers, DidRunTask(w)
          PROVE  t = w
      <4>1. w \in Threads
        BY DEF Threads
      <4>2. \A u \in Threads \ {w} : pc'[u] = "run" => pc[u] = "run"
        <5>1. CASE NotifyOwner(w, "unlock")
          BY <2>3, <4>1, <5>1 DEF NotifyOwner
        <5>2. CASE PostTasks(w, "run", CappedMaxConcurrency(active_workers - 1))
          BY <2>3, <4>1, <5>2 DEF PostTasks
        <5>3. QED
          BY <3>4, <5>1, <5>2 DEF DidRunTask
      <4>3. QED
        BY <2>1, <4>2
    <3>5. ASSUME OwnerAddsItem \/ OwnerNotifies \/ Join \/ CancelAndWait \/ CancelAndDetach
                   \/ LeaveJoin \/ WakeInCancelAndWait
          PROVE  FALSE
      BY <2>1, <2>3, <3>5 DEF OwnerAddsItem, OwnerNotifies, PostTasks, Join, CancelAndWait,
           CancelAndDetach, LeaveJoin, WakeInCancelAndWait, At, GoTo
    <3>6. ASSUME WaitForParticipationOpportunity
          PROVE  t = Owner
      BY <2>1, <2>3, <3>6 DEF WaitForParticipationOpportunity, PostTasks, GoTo
    <3>7. QED
      BY <1>1, <3>1, <3>2, <3>3, <3>4, <3>5, <3>6 DEF Next, WorkerStep, OwnerStep
  <2>6. CASE t \in Workers /\ CanRunFirstTask(t)
    <3>1. active_workers < CappedMaxConcurrency(active_workers)
      <4>1. CappedMaxConcurrency(active_workers) \in Nat
        BY <2>3, CappedFacts
      <4>2. ~(active_workers >= CappedMaxConcurrency(active_workers))
        BY <2>1, <2>3, <2>6 DEF CanRunFirstTask, GoTo
      <4>3. QED
        BY <2>3, <4>1, <4>2
    <3>2. active_workers < GetMaxConcurrency(active_workers)
      BY <2>3, <3>1, CappedFacts
    <3>3. QED
      BY <2>2, <2>3, <2>4, <3>2, FewerWorkersMoreRoom
  <2>7. CASE t \in Workers /\ DidRunTask(t)
    <3>1. pc[t] = "did" /\ t \in Running
      BY <2>7 DEF DidRunTask, At, Running
    <3>2. active_workers - 1 \in Nat /\ Cardinality(Running \ {t}) <= active_workers - 1
      BY <2>2, <2>3, <2>4, <3>1
    <3>3. active_workers <= CappedMaxConcurrency(active_workers - 1)
      <4>1. CappedMaxConcurrency(active_workers - 1) \in Nat
        BY <2>3, <3>2, CappedFacts
      <4>2. ~(active_workers > CappedMaxConcurrency(active_workers - 1))
        BY <2>1, <2>3, <2>7 DEF DidRunTask, NotifyOwner
      <4>3. QED
        BY <2>3, <4>1, <4>2
    <3>4. active_workers - 1 < GetMaxConcurrency(active_workers - 1)
      <4>1. /\ CappedMaxConcurrency(active_workers - 1) \in Nat
            /\ GetMaxConcurrency(active_workers - 1) \in Nat
            /\ CappedMaxConcurrency(active_workers - 1) <= GetMaxConcurrency(active_workers - 1)
        BY <2>3, <3>2, CappedFacts
      <4>2. QED
        BY <2>3, <3>3, <4>1
    <3>5. QED
      BY <2>3, <2>4, <3>2, <3>4, FewerWorkersMoreRoom
  <2>8. CASE t = Owner /\ WaitForParticipationOpportunity
    <3>1. pc[Owner] \in {"join", "woken"} /\ Running = ActiveWorkers
      BY <1>1, <2>8, RunningCount DEF WaitForParticipationOpportunity
    <3>2. active_workers = Cardinality(Running) + 1
      BY <1>1, <3>1 DEF JobProofInv, CountInv, Joining
    <3>3. active_workers - 1 \in Nat /\ Cardinality(Running \ {t}) <= active_workers - 1
      BY <2>2, <2>4, <3>2
    <3>4. /\ CappedMaxConcurrency(active_workers - 1) \in Nat
          /\ GetMaxConcurrency(active_workers - 1) \in Nat
          /\ CappedMaxConcurrency(active_workers - 1) <= GetMaxConcurrency(active_workers - 1)
      BY <2>3, <3>3, CappedFacts
    <3>5. /\ ~(active_workers > CappedMaxConcurrency(active_workers - 1) /\ active_workers > 1)
          /\ CappedMaxConcurrency(active_workers - 1) # 0
      BY <2>1, <2>3, <2>8 DEF WaitForParticipationOpportunity, GoTo
    <3>6. active_workers - 1 < GetMaxConcurrency(active_workers - 1)
      BY <2>3, <3>4, <3>5
    <3>7. QED
      BY <2>3, <2>4, <3>3, <3>6, FewerWorkersMoreRoom
  <2>9. QED
    BY <2>5, <2>6, <2>7, <2>8
<1>2. JobProofInv /\ [Next]_vars => [Entered]_vars
  BY <1>1
<1>3. QED
  BY <1>2, ProofInvHolds, PTL DEF Spec, ConcurrencyRespected
=============================================================================

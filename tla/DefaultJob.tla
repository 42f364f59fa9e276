----------------------------- MODULE DefaultJob -----------------------------
(***************************************************************************)
(* One job of the default platform (libplatform/default-job): worker tasks *)
(* on the thread pool and, in Join, the owner of the handle call           *)
(* JobTask::Run as long as GetMaxConcurrency says that there is work.      *)
(*                                                                         *)
(* The job's work is a number of items, used as the documentation of       *)
(* Platform::PostJob shows: Run takes items until there are none or it is  *)
(* told to yield.  Each critical section of mutex_ is one step; a task is  *)
(* posted with the step that counts it in pending_tasks_.                  *)
(***************************************************************************)
EXTENDS Integers, FiniteSets, FiniteSetsExt

CONSTANTS
  Workers,            \* addresses of DefaultJobWorkers
  Owner,              \* the thread that has the DefaultJobHandle
  NumWorkerThreads,   \* the size of the platform's pool
  kMaxWorkersPerJob,  \* 32 in the code
  MaxItems            \* bound: items of work ever added

ASSUME OwnerAssumption == Owner \notin Workers /\ IsFiniteSet(Workers)
ASSUME NumbersAssumption ==
  /\ NumWorkerThreads \in Nat \ {0} /\ kMaxWorkersPerJob \in Nat \ {0}
  /\ MaxItems \in Nat

Threads == Workers \cup {Owner}
kInvalidTaskId == -1

VARIABLES
  active_workers, pending_tasks, is_canceled, num_worker_threads,
  assigned_task_ids,  \* the bits that are set
  task_id,            \* task_id[t]: task_id_ of the delegate of t
  pc,                 \* pc[t]: where the thread that runs t is
  items,              \* items of work that nobody has taken
  added,              \* items of work added so far
  counts_workers      \* does GetMaxConcurrency add its argument to the items?

state == <<active_workers, pending_tasks, is_canceled, num_worker_threads>>
ids == <<assigned_task_ids, task_id>>
work == <<items, added, counts_workers>>
vars == <<state, ids, pc, work>>

WorkerStates == {"none", "posted", "locked", "run", "notify", "ran", "did", "unlock"}
OwnerStates == {"open", "join", "join_wait", "run", "notify", "wait", "woken",
                "leave", "joined", "cancel", "cancel_wait", "cancel_woken", "canceled",
                "detached"}

TypeOK ==
  /\ active_workers \in Nat /\ pending_tasks \in Nat
  /\ is_canceled \in BOOLEAN
  /\ num_worker_threads \in Nat
  /\ assigned_task_ids \in SUBSET (0..kMaxWorkersPerJob)
  /\ task_id \in [Threads -> -1..kMaxWorkersPerJob]
  /\ pc \in [Threads -> WorkerStates \cup OwnerStates]
  /\ items \in 0..MaxItems /\ added \in 0..MaxItems
  /\ counts_workers \in BOOLEAN

Init ==
  /\ active_workers = 0 /\ pending_tasks = 0 /\ is_canceled = FALSE
  /\ num_worker_threads = Min({NumWorkerThreads, kMaxWorkersPerJob})
  /\ assigned_task_ids = {}
  /\ task_id = [t \in Threads |-> kInvalidTaskId]
  /\ pc = [t \in Threads |-> IF t = Owner THEN "open" ELSE "none"]
  /\ items = 0 /\ added = 0
  /\ counts_workers \in BOOLEAN

At(t, state_) == pc[t] = state_
GoTo(t, state_) == pc' = [pc EXCEPT ![t] = state_]

\* JobTask::GetMaxConcurrency of the job.
GetMaxConcurrency(worker_count) ==
  items + (IF counts_workers THEN worker_count ELSE 0)

CappedMaxConcurrency(worker_count) ==
  Min({GetMaxConcurrency(worker_count), num_worker_threads})

\* The shared state lives as long as the handle or a worker refers to it.
Alive ==
  \/ pc[Owner] \notin {"joined", "canceled", "detached"}
  \/ \E w \in Workers : pc[w] \notin {"none", "posted"}

\* Thread t goes on at next_, and so many tasks are posted that the job has
\* max_concurrency workers.  Bound: task objects; the step waits for free ones.
PostTasks(t, next_, max_concurrency) ==
  LET n == Max({0, max_concurrency - active_workers - pending_tasks}) IN
  \E new \in SUBSET {w \in Workers : pc[w] = "none"} :
    /\ Cardinality(new) = n
    /\ pending_tasks' = pending_tasks + n
    /\ pc' = [u \in Threads |->
                IF u = t THEN next_ ELSE IF u \in new THEN "posted" ELSE pc[u]]

\* The one thread that waits for worker_released_condition_ wakes up.
NotifyOwner(w, next_) ==
  pc' = [pc EXCEPT ![w] = next_,
                   ![Owner] = CASE @ = "join_wait" -> "join"
                                [] @ = "wait" -> "woken"
                                [] @ = "cancel_wait" -> "cancel_woken"
                                [] OTHER -> @]

(***************************************************************************)
(* JobTask::Run, in a worker or in the joining thread.                     *)
(***************************************************************************)
TakeItem(t) ==
  /\ At(t, "run") /\ ~is_canceled /\ items > 0
  /\ items' = items - 1
  /\ UNCHANGED <<state, ids, pc, added, counts_workers>>

\* The job makes more work for itself, and the delegate is told so.
AddItem(t) ==
  /\ At(t, "run") /\ added < MaxItems
  /\ items' = items + 1 /\ added' = added + 1
  /\ IF is_canceled THEN UNCHANGED pc ELSE GoTo(t, "notify")
  /\ UNCHANGED <<state, ids, counts_workers>>

\* The rest of NotifyConcurrencyIncrease: is_canceled_ may be set by now.
NotifyConcurrencyIncrease(t) ==
  /\ At(t, "notify")
  /\ PostTasks(t, "run", CappedMaxConcurrency(active_workers))
  /\ UNCHANGED <<active_workers, is_canceled, num_worker_threads, ids, work>>

FreeIds == 0..kMaxWorkersPerJob \ assigned_task_ids

\* GetTaskId: the right-most zero bit, or kMaxWorkersPerJob if there is none.
AcquireTaskId(t) ==
  /\ At(t, "run") /\ task_id[t] = kInvalidTaskId
  /\ task_id' = [task_id EXCEPT ![t] = Min(FreeIds)]
  /\ assigned_task_ids' = assigned_task_ids \cup {Min(FreeIds)}
  /\ UNCHANGED <<state, pc, work>>

\* ShouldYield answers is_canceled_.
ReturnFromRun(t) ==
  /\ At(t, "run") /\ (is_canceled \/ items = 0)
  /\ GoTo(t, IF t = Owner THEN "woken" ELSE "ran")
  /\ UNCHANGED <<state, ids, work>>

(***************************************************************************)
(* DefaultJobWorker::Run.                                                  *)
(***************************************************************************)
\* The weak pointer may have expired.
Lock(w) ==
  /\ w \in Workers /\ At(w, "posted")
  /\ GoTo(w, IF Alive THEN "locked" ELSE "none")
  /\ UNCHANGED <<state, ids, work>>

CanRunFirstTask(w) ==
  /\ w \in Workers /\ At(w, "locked")
  /\ pending_tasks' = pending_tasks - 1
  /\ IF is_canceled \/ active_workers >= CappedMaxConcurrency(active_workers)
     THEN /\ GoTo(w, "unlock")
          /\ UNCHANGED active_workers
     ELSE /\ GoTo(w, "run")
          /\ active_workers' = active_workers + 1
  /\ UNCHANGED <<is_canceled, num_worker_threads, ids, work>>

\* The delegate goes before DidRunTask is called.
ReleaseTaskId(w) ==
  /\ w \in Workers /\ At(w, "ran")
  /\ assigned_task_ids' = assigned_task_ids \ {task_id[w]}
  /\ task_id' = [task_id EXCEPT ![w] = kInvalidTaskId]
  /\ GoTo(w, "did")
  /\ UNCHANGED <<state, work>>

\* Mutant of DidRunTask: the joining thread is not notified.
LeaveSilently(w) ==
  LET max_concurrency == CappedMaxConcurrency(active_workers - 1) IN
  /\ w \in Workers /\ At(w, "did")
  /\ IF is_canceled \/ active_workers > max_concurrency
     THEN /\ active_workers' = active_workers - 1
          /\ GoTo(w, "unlock")
          /\ UNCHANGED pending_tasks
     ELSE /\ PostTasks(w, "run", max_concurrency)
          /\ UNCHANGED active_workers
  /\ UNCHANGED <<is_canceled, num_worker_threads, ids, work>>

DidRunTask(w) ==
  LET max_concurrency == CappedMaxConcurrency(active_workers - 1) IN
  /\ w \in Workers /\ At(w, "did")
  /\ IF is_canceled \/ active_workers > max_concurrency
     THEN /\ active_workers' = active_workers - 1
          /\ NotifyOwner(w, "unlock")
          /\ UNCHANGED pending_tasks
     ELSE /\ PostTasks(w, "run", max_concurrency)
          /\ UNCHANGED active_workers
  /\ UNCHANGED <<is_canceled, num_worker_threads, ids, work>>

\* The shared pointer and the task object are gone.
Unlock(w) ==
  /\ w \in Workers /\ At(w, "unlock")
  /\ GoTo(w, "none")
  /\ UNCHANGED <<state, ids, work>>

(***************************************************************************)
(* The owner of the handle.                                                *)
(***************************************************************************)
OwnerAddsItem ==
  /\ At(Owner, "open") /\ added < MaxItems
  /\ items' = items + 1 /\ added' = added + 1
  /\ UNCHANGED <<state, ids, pc, counts_workers>>

OwnerNotifies ==
  /\ At(Owner, "open") /\ ~is_canceled
  /\ PostTasks(Owner, "open", CappedMaxConcurrency(active_workers))
  /\ UNCHANGED <<active_workers, is_canceled, num_worker_threads, ids, work>>

\* The beginning of Join: a worker is reserved for the joining thread.
Join ==
  /\ At(Owner, "open")
  /\ num_worker_threads' = num_worker_threads + 1
  /\ active_workers' = active_workers + 1
  /\ GoTo(Owner, "join")
  /\ UNCHANGED <<pending_tasks, is_canceled, ids, work>>

\* Mutant of WaitForParticipationOpportunity: Join does not wait before it posts
\* tasks and takes part.
ParticipateAtOnce ==
  LET max_concurrency == CappedMaxConcurrency(active_workers - 1) IN
  /\ pc[Owner] \in {"join", "woken"}
  /\ IF At(Owner, "woken") /\ active_workers > max_concurrency /\ active_workers > 1
     THEN /\ GoTo(Owner, "wait")
          /\ UNCHANGED <<active_workers, pending_tasks, is_canceled>>
     ELSE IF max_concurrency = 0
     THEN /\ active_workers' = 0 /\ is_canceled' = TRUE
          /\ GoTo(Owner, "leave")
          /\ UNCHANGED pending_tasks
     ELSE /\ PostTasks(Owner, "run", IF At(Owner, "join") THEN max_concurrency ELSE 0)
          /\ UNCHANGED <<active_workers, is_canceled>>
  /\ UNCHANGED <<num_worker_threads, ids, work>>

\* One round of the loop, and what comes behind it: wait for a worker to leave,
\* be done, or take part.  Behind the first call, at the beginning of Join and
\* after any number of waits in it, tasks are posted; behind the calls after Run
\* they are not.
WaitForParticipationOpportunity ==
  LET max_concurrency == CappedMaxConcurrency(active_workers - 1) IN
  /\ pc[Owner] \in {"join", "woken"}
  /\ IF active_workers > max_concurrency /\ active_workers > 1
     THEN /\ GoTo(Owner, IF At(Owner, "join") THEN "join_wait" ELSE "wait")
          /\ UNCHANGED <<active_workers, pending_tasks, is_canceled>>
     ELSE IF max_concurrency = 0
     THEN /\ active_workers' = 0 /\ is_canceled' = TRUE
          /\ GoTo(Owner, "leave")
          /\ UNCHANGED pending_tasks
     ELSE /\ PostTasks(Owner, "run", IF At(Owner, "join") THEN max_concurrency ELSE 0)
          /\ UNCHANGED <<active_workers, is_canceled>>
  /\ UNCHANGED <<num_worker_threads, ids, work>>

\* The joining thread's delegate is destroyed, then the handle lets go.
LeaveJoin ==
  /\ At(Owner, "leave")
  /\ assigned_task_ids' = assigned_task_ids \ {task_id[Owner]}
  /\ task_id' = [task_id EXCEPT ![Owner] = kInvalidTaskId]
  /\ GoTo(Owner, "joined")
  /\ UNCHANGED <<state, work>>

\* CancelAndWait up to its first wait.
CancelAndWait ==
  /\ At(Owner, "open")
  /\ is_canceled' = TRUE
  /\ GoTo(Owner, IF active_workers > 0 THEN "cancel_wait" ELSE "canceled")
  /\ UNCHANGED <<active_workers, pending_tasks, num_worker_threads, ids, work>>

\* Mutant of WakeInCancelAndWait: an if in place of the while.
WakeOnce ==
  /\ At(Owner, "cancel_woken")
  /\ GoTo(Owner, "canceled")
  /\ UNCHANGED <<state, ids, work>>

WakeInCancelAndWait ==
  /\ At(Owner, "cancel_woken")
  /\ GoTo(Owner, IF active_workers > 0 THEN "cancel_wait" ELSE "canceled")
  /\ UNCHANGED <<state, ids, work>>

CancelAndDetach ==
  /\ At(Owner, "open")
  /\ is_canceled' = TRUE
  /\ GoTo(Owner, "detached")
  /\ UNCHANGED <<active_workers, pending_tasks, num_worker_threads, ids, work>>

RunStep(t) ==
  TakeItem(t) \/ NotifyConcurrencyIncrease(t) \/ ReturnFromRun(t)
WorkerStep(w) ==
  \/ Lock(w) \/ CanRunFirstTask(w) \/ ReleaseTaskId(w) \/ DidRunTask(w) \/ Unlock(w)
OwnerStep == WaitForParticipationOpportunity \/ LeaveJoin \/ WakeInCancelAndWait

Next ==
  \/ \E t \in Threads : RunStep(t) \/ AddItem(t) \/ AcquireTaskId(t)
  \/ \E w \in Workers : WorkerStep(w)
  \/ OwnerAddsItem \/ OwnerNotifies
  \/ Join \/ CancelAndWait \/ CancelAndDetach
  \/ OwnerStep

\* Every thread goes on; the owner tells the job about work that it has added.
Fairness ==
  /\ \A t \in Threads : WF_vars(RunStep(t))
  /\ \A w \in Workers : WF_vars(WorkerStep(w))
  /\ WF_vars(OwnerStep)
  /\ WF_vars(OwnerNotifies)

Spec == Init /\ [][Next]_vars
FairSpec == Spec /\ Fairness

-----------------------------------------------------------------------------
(***************************************************************************)
(* Properties.                                                             *)
(***************************************************************************)
\* Threads that have been admitted by CanRunFirstTask and not yet let go.
ActiveWorkers == {w \in Workers : pc[w] \in {"run", "notify", "ran", "did"}}
Joining == pc[Owner] \in {"join", "join_wait", "run", "notify", "wait", "woken"}

\* The counters count: active_workers_ the admitted workers and the joining
\* thread, pending_tasks_ the posted tasks, and together they never exceed the
\* number of threads of the job; the destructor's DCHECK follows.
CountersExact ==
  /\ active_workers = Cardinality(ActiveWorkers) + (IF Joining THEN 1 ELSE 0)
  /\ Alive => pending_tasks = Cardinality({w \in Workers : pc[w] \in {"posted", "locked"}})
  /\ active_workers + pending_tasks <= num_worker_threads
  /\ ~Alive => active_workers = 0

\* Delegates that exist at the same time have different task ids, and the ids
\* are the first numbers of as many as the job has threads.  The DCHECK_LE of
\* AcquireTaskId follows when num_worker_threads_, the joining thread included,
\* is at most kMaxWorkersPerJob; a pool of that size plus Join is one more.
TaskIdsDistinct ==
  /\ \A t, u \in Threads : t # u /\ task_id[t] = task_id[u] => task_id[t] = kInvalidTaskId
  /\ {task_id[t] : t \in Threads} \ {kInvalidTaskId} = assigned_task_ids
  /\ assigned_task_ids \subseteq 0..(num_worker_threads - 1)

\* DCHECK_EQ(1, active_workers_) in Join, and what Join and Cancel are for:
\* when they return, nobody is in Run and nobody will be, and Join leaves no
\* work behind.
NobodyRunsAfterReturn ==
  /\ pc[Owner] \in {"leave", "joined", "canceled"} => is_canceled /\ ActiveWorkers = {}
  /\ pc[Owner] \in {"leave", "joined"} => items = 0

\* The job's counters and task ids describe its threads, although workers read
\* is_canceled_ before they lock mutex_ and are posted for a job that may be
\* over by then; and Join and Cancel do not return before the last worker.
JobInv == TypeOK /\ CountersExact /\ TaskIdsDistinct /\ NobodyRunsAfterReturn

\* JobTask: "Run() is only invoked if the number of threads previously running
\* Run() was less than the value returned" by GetMaxConcurrency.
Running == {t \in Threads : pc[t] \in {"run", "notify", "ran", "did"}}
ConcurrencyRespected ==
  [][\A t \in Threads :
       ~At(t, "run") /\ ~At(t, "notify") /\ At(t, "run")' =>
         LET others == Cardinality(Running \ {t}) IN
         others < GetMaxConcurrency(others)]_vars

\* Join returns once no more work is added, Cancel returns when the workers
\* have yielded, and work that the job has been told of is done although nobody
\* joins: neither a notification of DidRunTask nor a task to post is forgotten.
JoinReturns == At(Owner, "join") ~> At(Owner, "joined")
CancelReturns == At(Owner, "cancel_wait") ~> At(Owner, "canceled")
WorkIsDone == items > 0 /\ ~is_canceled ~> items = 0 \/ is_canceled
JobEnds == JoinReturns /\ CancelReturns /\ WorkIsDone
=============================================================================

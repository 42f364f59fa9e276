------------------------ MODULE LazyCompileDispatcher ------------------------
(***************************************************************************)
(* LazyCompileDispatcher (compiler-dispatcher/): functions are compiled in *)
(* the background before they are called.  The workers of one platform job *)
(* run BackgroundCompileTasks, the main thread finalizes them in idle time *)
(* or when a function is called (FinishNow), and finished jobs go back to  *)
(* the workers to be deleted.                                              *)
(*                                                                         *)
(* Each critical section of mutex_ is one step, together with what the     *)
(* main thread alone touches next to it.  A literal is enqueued only when  *)
(* it gets its SharedFunctionInfo, so that a function has one job at most: *)
(* a job goes by the name of its function.                                 *)
(***************************************************************************)
EXTENDS Integers, FiniteSets, SequencesExt

CONSTANTS
  Functions,         \* functions that are compiled through the dispatcher
  Outer,             \* Outer[f]: the function f is an inner function of, or None
  Workers,           \* threads that run the platform job
  None,              \* null
  IdleTasksEnabled,  \* taskrunner_->IdleTasksEnabled()
  MaxThreads,        \* v8_flags.lazy_compile_dispatcher_max_threads
  AllocationFails    \* may a background thread need a collection to go on?

ASSUME OuterAssumption ==
  /\ None \notin Functions /\ IsFiniteSet(Functions)
  /\ Outer \in [Functions -> Functions \cup {None}]
ASSUME WorkersAssumption == IsFiniteSet(Workers) /\ MaxThreads \in Nat
ASSUME FlagsAssumption == IdleTasksEnabled \in BOOLEAN /\ AllocationFails \in BOOLEAN

VARIABLES
  state,            \* state[f]: Job::state; "none" before, "deleted" after
  slot,             \* slot[f]: the job slot of f's UncompiledData is not null
  compiled,         \* compiled[f]: the result was copied to f
  pending_background_jobs, finalizable_jobs, jobs_to_dispose,
  num_jobs_for_background,
  main_thread_blocking_on_job,
  idle_task_scheduled,
  idle_task,        \* an idle task is posted and not canceled
  canceled,         \* job_handle_->Cancel() was called
  main, main_job,   \* where the main thread is, and its local variable job
  worker, held      \* the same of each worker

lists == <<pending_background_jobs, finalizable_jobs, jobs_to_dispose>>
functions == <<slot, compiled>>
idle == <<idle_task_scheduled, idle_task>>
mainvars == <<main, main_job>>
workers == <<worker, held>>
vars == <<state, functions, lists, num_jobs_for_background,
          main_thread_blocking_on_job, idle, canceled, mainvars, workers>>

Running == {"kRunning", "kAbortRequested"}
Finalizable == {"kReadyToFinalize", "kAborted"}
OnMainThread == {"kPendingToRunOnForeground", "kFinalizingNow", "kAbortingNow"}
States == {"none", "kPending"} \cup Running \cup Finalizable \cup OnMainThread
          \cup {"kFinalized", "deleted"}

TypeOK ==
  /\ state \in [Functions -> States]
  /\ slot \in [Functions -> BOOLEAN] /\ compiled \in [Functions -> BOOLEAN]
  /\ pending_background_jobs \in Seq(Functions)
  /\ finalizable_jobs \in Seq(Functions)
  /\ jobs_to_dispose \in Seq(Functions)
  /\ num_jobs_for_background \in Nat
  /\ main_thread_blocking_on_job \in Functions \cup {None}
  /\ idle_task_scheduled \in BOOLEAN /\ idle_task \in BOOLEAN
  /\ canceled \in BOOLEAN
  /\ main \in {"script", "blocked", "foreground", "finish", "opportunistic",
               "finish_other", "idle", "idle_finish", "abort", "aborted"}
  /\ main_job \in Functions \cup {None}
  /\ worker \in [Workers -> {"out", "loop", "next", "run", "collect", "tidy",
                             "dispose", "delete"}]
  /\ held \in [Workers -> Functions \cup {None}]

Init ==
  /\ state = [f \in Functions |-> "none"]
  /\ slot = [f \in Functions |-> FALSE] /\ compiled = [f \in Functions |-> FALSE]
  /\ pending_background_jobs = <<>> /\ finalizable_jobs = <<>>
  /\ jobs_to_dispose = <<>>
  /\ num_jobs_for_background = 0
  /\ main_thread_blocking_on_job = None
  /\ idle_task_scheduled = FALSE /\ idle_task = FALSE
  /\ canceled = FALSE
  /\ main = "script" /\ main_job = None
  /\ worker = [w \in Workers |-> "out"] /\ held = [w \in Workers |-> None]

\* erase(std::remove(...)) of one position: the DCHECKs count one occurrence.
Without(s, f) == RemoveFirst(s, f)

Active == {w \in Workers : worker[w] # "out"}

GetMaxConcurrency ==
  IF MaxThreads = 0 \/ num_jobs_for_background < MaxThreads
  THEN num_jobs_for_background ELSE MaxThreads

ScheduleIdleTaskFromAnyThread ==
  IF IdleTasksEnabled /\ ~idle_task_scheduled
  THEN idle_task_scheduled' = TRUE /\ idle_task' = TRUE
  ELSE UNCHANGED idle

\* The jobs to dispose of count as one for the workers.
DeleteJob(f) ==
  /\ jobs_to_dispose' = Append(jobs_to_dispose, f)
  /\ num_jobs_for_background' =
       num_jobs_for_background + (IF jobs_to_dispose = <<>> THEN 1 ELSE 0)

(***************************************************************************)
(* Enqueue, by whoever compiles the outer function: a worker, or the main  *)
(* thread, which also compiles the outermost functions' script.            *)
(***************************************************************************)
CompilesOuterOf(f) ==
  \/ Outer[f] = None /\ main = "script"
  \/ Outer[f] # None /\ main = "foreground" /\ main_job = Outer[f]
  \/ Outer[f] # None /\ \E w \in Workers : worker[w] = "run" /\ held[w] = Outer[f]

Enqueue(f) ==
  /\ state[f] = "none" /\ CompilesOuterOf(f)
  /\ state' = [state EXCEPT ![f] = "kPending"]
  /\ slot' = [slot EXCEPT ![f] = TRUE]
  /\ pending_background_jobs' = Append(pending_background_jobs, f)
  /\ num_jobs_for_background' = num_jobs_for_background + 1
  /\ UNCHANGED <<compiled, finalizable_jobs, jobs_to_dispose,
                 main_thread_blocking_on_job, idle, canceled, mainvars, workers>>

(***************************************************************************)
(* DoBackgroundWork.                                                       *)
(***************************************************************************)
StartWorker(w) ==
  /\ worker[w] = "out" /\ ~canceled
  /\ Cardinality(Active) < GetMaxConcurrency
  /\ worker' = [worker EXCEPT ![w] = "loop"]
  /\ UNCHANGED <<state, functions, lists, num_jobs_for_background,
                 main_thread_blocking_on_job, idle, canceled, mainvars, held>>

\* delegate->ShouldYield(), at the top of either loop.
ShouldYield(w) ==
  /\ worker[w] \in {"loop", "tidy"}
  /\ worker' = [worker EXCEPT ![w] =
                  IF canceled THEN "out"
                  ELSE IF @ = "loop" THEN "next" ELSE "dispose"]
  /\ UNCHANGED <<state, functions, lists, num_jobs_for_background,
                 main_thread_blocking_on_job, idle, canceled, mainvars, held>>

\* The newest pending job, or on to the second loop.
TakeJob(w) ==
  /\ worker[w] = "next"
  /\ IF pending_background_jobs = <<>>
     THEN /\ worker' = [worker EXCEPT ![w] = "tidy"]
          /\ UNCHANGED <<state, held, pending_background_jobs>>
     ELSE /\ worker' = [worker EXCEPT ![w] = "run"]
          /\ held' = [held EXCEPT ![w] = Last(pending_background_jobs)]
          /\ state' = [state EXCEPT ![Last(pending_background_jobs)] = "kRunning"]
          /\ pending_background_jobs' = Front(pending_background_jobs)
  /\ UNCHANGED <<functions, finalizable_jobs, jobs_to_dispose,
                 num_jobs_for_background, main_thread_blocking_on_job, idle,
                 canceled, mainvars>>

\* An allocation of job->task->Run fails, and the worker parks itself until
\* the main thread, which is never parked here, has collected.
AwaitCollectionBackground(w) ==
  /\ AllocationFails /\ ~canceled
  /\ worker[w] = "run"
  /\ worker' = [worker EXCEPT ![w] = "collect"]
  /\ UNCHANGED <<state, functions, lists, num_jobs_for_background,
                 main_thread_blocking_on_job, idle, canceled, mainvars, held>>

\* Mutant of PublishJob: leaves the blocked main thread to the idle task.
PublishAndSchedule(w) ==
  LET f == held[w] IN
  /\ worker[w] = "run"
  /\ state' = [state EXCEPT ![f] =
                 IF @ = "kRunning" THEN "kReadyToFinalize" ELSE "kAborted"]
  /\ finalizable_jobs' = Append(finalizable_jobs, f)
  /\ num_jobs_for_background' = num_jobs_for_background - 1
  /\ ScheduleIdleTaskFromAnyThread
  /\ worker' = [worker EXCEPT ![w] = "loop"]
  /\ held' = [held EXCEPT ![w] = None]
  /\ UNCHANGED <<functions, pending_background_jobs, jobs_to_dispose,
                 main_thread_blocking_on_job, canceled, mainvars>>

\* The task has run: the result goes to the blocked main thread or to the
\* idle task.
PublishJob(w) ==
  LET f == held[w] IN
  /\ worker[w] = "run"
  /\ state' = [state EXCEPT ![f] =
                 IF @ = "kRunning" THEN "kReadyToFinalize" ELSE "kAborted"]
  /\ finalizable_jobs' = Append(finalizable_jobs, f)
  /\ num_jobs_for_background' = num_jobs_for_background - 1
  /\ IF main_thread_blocking_on_job = f
     THEN /\ main_thread_blocking_on_job' = None
          /\ UNCHANGED idle
     ELSE /\ ScheduleIdleTaskFromAnyThread
          /\ UNCHANGED main_thread_blocking_on_job
  /\ worker' = [worker EXCEPT ![w] = "loop"]
  /\ held' = [held EXCEPT ![w] = None]
  /\ UNCHANGED <<functions, pending_background_jobs, jobs_to_dispose, canceled,
                 mainvars>>

TakeDisposal(w) ==
  /\ worker[w] = "dispose"
  /\ IF jobs_to_dispose = <<>>
     THEN /\ worker' = [worker EXCEPT ![w] = "out"]
          /\ UNCHANGED <<held, jobs_to_dispose, num_jobs_for_background>>
     ELSE /\ worker' = [worker EXCEPT ![w] = "delete"]
          /\ held' = [held EXCEPT ![w] = Last(jobs_to_dispose)]
          /\ jobs_to_dispose' = Front(jobs_to_dispose)
          /\ num_jobs_for_background' =
               num_jobs_for_background - (IF Len(jobs_to_dispose) = 1 THEN 1 ELSE 0)
  /\ UNCHANGED <<state, functions, pending_background_jobs, finalizable_jobs,
                 main_thread_blocking_on_job, idle, canceled, mainvars>>

DisposeJob(w) ==
  /\ worker[w] = "delete"
  /\ state' = [state EXCEPT ![held[w]] = "deleted"]
  /\ worker' = [worker EXCEPT ![w] = "tidy"]
  /\ held' = [held EXCEPT ![w] = None]
  /\ UNCHANGED <<functions, lists, num_jobs_for_background,
                 main_thread_blocking_on_job, idle, canceled, mainvars>>

(***************************************************************************)
(* The main thread calls f: FinishNow.                                     *)
(***************************************************************************)
\* f is reachable for a caller once its outer function has code.
Callable(f) == Outer[f] \in Functions => compiled[Outer[f]]

\* IsEnqueued and the first part of FinishNow.  The DCHECKs leave it to the
\* caller not to ask for a function whose job it has aborted.
FinishNow(f) ==
  /\ main = "script" /\ slot[f] /\ Callable(f)
  /\ state[f] \notin {"kAbortRequested", "kAborted"}
  /\ main_job' = f
  /\ IF state[f] \in Running
     THEN /\ main' = "blocked" /\ main_thread_blocking_on_job' = f
          /\ UNCHANGED <<state, lists, num_jobs_for_background>>
     ELSE /\ IF state[f] = "kPending"
             THEN /\ main' = "foreground"
                  /\ state' = [state EXCEPT ![f] = "kPendingToRunOnForeground"]
                  /\ pending_background_jobs' = Without(pending_background_jobs, f)
                  /\ num_jobs_for_background' = num_jobs_for_background - 1
                  /\ UNCHANGED finalizable_jobs
             ELSE /\ main' = "finish"
                  /\ state' = [state EXCEPT ![f] = "kFinalizingNow"]
                  /\ finalizable_jobs' = Without(finalizable_jobs, f)
                  /\ UNCHANGED <<pending_background_jobs, num_jobs_for_background>>
          /\ UNCHANGED <<jobs_to_dispose, main_thread_blocking_on_job>>
  /\ UNCHANGED <<functions, idle, canceled, workers>>

\* The main thread wakes up, the mutex held, and takes the job.
WaitForJobIfRunningOnBackground ==
  /\ main = "blocked" /\ main_thread_blocking_on_job = None
  /\ finalizable_jobs' = Without(finalizable_jobs, main_job)
  /\ state' = [state EXCEPT ![main_job] = "kFinalizingNow"]
  /\ main' = "finish"
  /\ UNCHANGED <<functions, pending_background_jobs, jobs_to_dispose,
                 num_jobs_for_background, main_thread_blocking_on_job, idle,
                 canceled, main_job, workers>>

RunOnMainThread ==
  /\ main = "foreground"
  /\ state' = [state EXCEPT ![main_job] = "kFinalizingNow"]
  /\ main' = "finish"
  /\ UNCHANGED <<functions, lists, num_jobs_for_background,
                 main_thread_blocking_on_job, idle, canceled, main_job, workers>>

\* PopSingleFinalizeJob, for the loop of FinishNow or of DoIdleWork.
PopSingleFinalizeJob ==
  LET f == Last(finalizable_jobs) IN
  /\ main \in {"opportunistic", "idle"} /\ finalizable_jobs # <<>>
  /\ finalizable_jobs' = Front(finalizable_jobs)
  /\ state' = [state EXCEPT ![f] =
                 IF @ = "kReadyToFinalize" THEN "kFinalizingNow" ELSE "kAbortingNow"]
  /\ main_job' = f
  /\ main' = IF main = "idle" THEN "idle_finish" ELSE "finish_other"
  /\ UNCHANGED <<functions, pending_background_jobs, jobs_to_dispose,
                 num_jobs_for_background, main_thread_blocking_on_job, idle,
                 canceled, workers>>

\* BackgroundCompileTask::FinalizeFunction, which may fail, or AbortFunction.
\* Both clear the job slot.
FinalizeFunction(f) ==
  /\ slot' = [slot EXCEPT ![f] = FALSE]
  /\ \E success \in BOOLEAN :
       compiled' = [compiled EXCEPT ![f] = success /\ state[f] = "kFinalizingNow"]

\* The rest of FinalizeSingleJob, or of FinishNow before its loop.
FinalizeJob ==
  /\ main \in {"finish", "finish_other", "idle_finish"}
  /\ FinalizeFunction(main_job)
  /\ state' = [state EXCEPT ![main_job] = "kFinalized"]
  /\ DeleteJob(main_job)
  /\ main' = IF main = "idle_finish" THEN "idle" ELSE "opportunistic"
  /\ main_job' = None
  /\ UNCHANGED <<pending_background_jobs, finalizable_jobs,
                 main_thread_blocking_on_job, idle, canceled, workers>>

\* FinishNow returns: there are no more jobs, or the time is up.
EndOpportunistic ==
  /\ main = "opportunistic"
  /\ main' = "script"
  /\ UNCHANGED <<state, functions, lists, num_jobs_for_background,
                 main_thread_blocking_on_job, idle, canceled, main_job, workers>>

(***************************************************************************)
(* The idle task, AbortJob, and the collection a worker has asked for.     *)
(***************************************************************************)
DoIdleWork ==
  /\ main = "script" /\ idle_task
  /\ idle_task' = FALSE /\ idle_task_scheduled' = FALSE
  /\ main' = "idle"
  /\ UNCHANGED <<state, functions, lists, num_jobs_for_background,
                 main_thread_blocking_on_job, canceled, main_job, workers>>

IdleWorkDone ==
  /\ main = "idle" /\ finalizable_jobs = <<>>
  /\ main' = "script"
  /\ UNCHANGED <<state, functions, lists, num_jobs_for_background,
                 main_thread_blocking_on_job, idle, canceled, main_job, workers>>

\* Mutant of IdleTimeIsUp: leaves the rest for some other time.
IdleTimeIsUpAndNoMore ==
  /\ main = "idle"
  /\ main' = "script"
  /\ UNCHANGED <<state, functions, lists, num_jobs_for_background,
                 main_thread_blocking_on_job, idle, canceled, main_job, workers>>

\* The deadline has passed: another idle task goes on.
IdleTimeIsUp ==
  /\ main = "idle"
  /\ ScheduleIdleTaskFromAnyThread
  /\ main' = "script"
  /\ UNCHANGED <<state, functions, lists, num_jobs_for_background,
                 main_thread_blocking_on_job, canceled, main_job, workers>>

\* A job that runs is only marked; its result is dropped when it is popped.
AbortJob(f) ==
  /\ main = "script" /\ slot[f]
  /\ state[f] \in {"kPending", "kRunning", "kReadyToFinalize"}
  /\ IF state[f] = "kRunning"
     THEN /\ state' = [state EXCEPT ![f] = "kAbortRequested"]
          /\ UNCHANGED <<slot, lists, num_jobs_for_background>>
     ELSE /\ state' = [state EXCEPT ![f] = "kFinalized"]
          /\ slot' = [slot EXCEPT ![f] = FALSE]
          /\ pending_background_jobs' = Without(pending_background_jobs, f)
          /\ finalizable_jobs' = Without(finalizable_jobs, f)
          /\ jobs_to_dispose' = Append(jobs_to_dispose, f)
          /\ num_jobs_for_background' =
               num_jobs_for_background
                 - (IF state[f] = "kPending" THEN 1 ELSE 0)
                 + (IF jobs_to_dispose = <<>> THEN 1 ELSE 0)
  /\ UNCHANGED <<compiled, main_thread_blocking_on_job, idle, canceled, mainvars,
                 workers>>

\* The main thread reaches a stack check or the posted task.
CollectGarbage ==
  /\ main = "script" /\ \E w \in Workers : worker[w] = "collect"
  /\ worker' = [w \in Workers |-> IF worker[w] = "collect" THEN "run" ELSE worker[w]]
  /\ UNCHANGED <<state, functions, lists, num_jobs_for_background,
                 main_thread_blocking_on_job, idle, canceled, mainvars, held>>

(***************************************************************************)
(* Isolate::Deinit: StartTearDown, which ends every wait for a collection, *)
(* then AbortAll.                                                          *)
(***************************************************************************)
\* TryAbortAll, and Cancel, which then waits for the workers.
AbortAll ==
  /\ main = "script"
  /\ main' = "abort" /\ canceled' = TRUE /\ idle_task' = FALSE
  /\ worker' = [w \in Workers |-> IF worker[w] = "collect" THEN "run" ELSE worker[w]]
  /\ UNCHANGED <<state, functions, lists, num_jobs_for_background,
                 main_thread_blocking_on_job, idle_task_scheduled, main_job, held>>

\* The workers are gone.  Every job is aborted and deleted, and an idle task
\* that was posted after TryAbortAll is canceled.
DropAllJobs ==
  LET jobs == ToSet(pending_background_jobs) \cup ToSet(finalizable_jobs) IN
  /\ main = "abort" /\ Active = {}
  /\ state' = [f \in Functions |->
                 IF f \in jobs \cup ToSet(jobs_to_dispose) THEN "deleted" ELSE state[f]]
  /\ slot' = [f \in Functions |-> slot[f] /\ f \notin jobs]
  /\ pending_background_jobs' = <<>> /\ finalizable_jobs' = <<>>
  /\ jobs_to_dispose' = <<>>
  /\ num_jobs_for_background' = 0
  /\ idle_task' = FALSE
  /\ main' = "aborted"
  /\ UNCHANGED <<compiled, main_thread_blocking_on_job, idle_task_scheduled,
                 canceled, main_job, workers>>

MainStep ==
  \/ \E f \in Functions : FinishNow(f) \/ AbortJob(f)
  \/ WaitForJobIfRunningOnBackground \/ RunOnMainThread
  \/ PopSingleFinalizeJob \/ FinalizeJob \/ EndOpportunistic
  \/ DoIdleWork \/ IdleWorkDone \/ IdleTimeIsUp
  \/ CollectGarbage \/ AbortAll \/ DropAllJobs

WorkerStep(w) ==
  \/ StartWorker(w) \/ ShouldYield(w) \/ TakeJob(w)
  \/ AwaitCollectionBackground(w) \/ PublishJob(w)
  \/ TakeDisposal(w) \/ DisposeJob(w)

Next ==
  \/ \E f \in Functions : Enqueue(f)
  \/ MainStep
  \/ \E w \in Workers : WorkerStep(w)

Spec == Init /\ [][Next]_vars

(***************************************************************************)
(* Fairness: threads go on with the call they are in; a worker is started  *)
(* for a pending job (Enqueue notifies the platform, not so DeleteJob); a  *)
(* running task ends; the event loop runs posted tasks, and idle time is,  *)
(* time and again, long enough for one job.                                *)
(***************************************************************************)
Fairness ==
  /\ \A w \in Workers :
       /\ WF_vars(pending_background_jobs # <<>> /\ StartWorker(w))
       /\ WF_vars(ShouldYield(w) \/ TakeJob(w) \/ TakeDisposal(w) \/ DisposeJob(w))
       /\ SF_vars(PublishJob(w))
  /\ WF_vars(WaitForJobIfRunningOnBackground \/ RunOnMainThread \/ FinalizeJob)
  /\ WF_vars(EndOpportunistic)
  /\ SF_vars(DoIdleWork)
  /\ SF_vars(main = "idle" /\ PopSingleFinalizeJob)
  /\ WF_vars(IdleWorkDone \/ IdleTimeIsUp)
  /\ SF_vars(CollectGarbage)
  /\ WF_vars(DropAllJobs)

FairSpec == Spec /\ Fairness

(***************************************************************************)
(* Properties.                                                             *)
(***************************************************************************)
Count(ss) == Cardinality({f \in Functions : state[f] \in ss})

\* VerifyBackgroundTaskCount, at every point of the program at which a thread
\* could take the mutex: the lists and num_jobs_for_background_, which decides
\* how many workers the platform starts, agree with the states of the jobs.
BackgroundTaskCount ==
  /\ Len(pending_background_jobs) = Count({"kPending"})
  /\ Len(finalizable_jobs) = Count(Finalizable)
  /\ num_jobs_for_background =
       Count({"kPending"}) + Count(Running) + (IF jobs_to_dispose = <<>> THEN 0 ELSE 1)

\* Every job is with exactly the one list or thread that its state names: no
\* job is run or finalized twice or lost between the lists, and what FinishNow,
\* AbortJob and PopSingleFinalizeJob assert of the job they take holds.
JobIsWhereItsStateSays ==
  /\ \A f \in Functions :
       LET owners == {w \in Workers : held[w] = f} IN
       /\ (f \in ToSet(pending_background_jobs)) = (state[f] = "kPending")
       /\ (f \in ToSet(finalizable_jobs)) = (state[f] \in Finalizable)
       /\ (state[f] \in Running) =
            \E w \in owners : worker[w] \in {"run", "collect"}
       /\ Cardinality(owners) <= 1
       /\ state[f] \in OnMainThread => main_job = f
       /\ state[f] = "kFinalized" =>
            f \in ToSet(jobs_to_dispose) \/ \E w \in owners : worker[w] = "delete"
  /\ main = "finish" => state[main_job] = "kFinalizingNow"
  /\ main_thread_blocking_on_job # None =>
       main = "blocked" /\ state[main_thread_blocking_on_job] = "kRunning"

\* While idle tasks are enabled, a job that waits to be finalized has an idle
\* task to come, or the main thread is about to look: publishing to a blocked
\* FinishNow, running out of idle time and clearing idle_task_scheduled_ never
\* leave a result that nobody fetches.
FinalizableIsAnnounced ==
  \A f \in ToSet(finalizable_jobs) :
    \/ ~IdleTasksEnabled \/ canceled
    \/ idle_task \/ main \in {"idle", "idle_finish"}
    \/ main = "blocked" /\ main_job = f /\ main_thread_blocking_on_job = None

\* The job slot of a function never points to a job that is finalized, queued
\* for disposal or deleted: IsEnqueued is true only while FinishNow can work.
SlotPointsToLiveJob ==
  \A f \in Functions : slot[f] = (state[f] \notin {"none", "kFinalized", "deleted"})

\* When AbortAll returns and the dispatcher is deleted there is no worker in
\* DoBackgroundWork, no idle task, and no job that is not deleted; this although
\* workers enqueue inner functions and publish results while it waits.
NothingAfterAbortAll ==
  main = "aborted" =>
    /\ Active = {} /\ ~idle_task
    /\ \A f \in Functions : state[f] \in {"none", "deleted"}

\* What the lists, the counter, the job slots and the idle task's flag say of
\* the jobs is true whenever mutex_ is free, whatever FinishNow, AbortJob,
\* idle tasks, workers and AbortAll do to a job that another one has just
\* moved on.
LazyInv ==
  /\ TypeOK /\ BackgroundTaskCount /\ JobIsWhereItsStateSays
  /\ FinalizableIsAnnounced /\ SlotPointsToLiveJob /\ NothingAfterAbortAll

\* FinishNow does not park the main thread: if the job that it waits for needs
\* a collection, the two wait for each other.
WaitingForEachOther ==
  main = "blocked" /\ \E w \in Workers : worker[w] = "collect" /\ held[w] = main_job

\* FinishNow returns: a main thread that waits for a running job is woken, and
\* the caller of the function gets on.  A function that is enqueued is finished
\* without being called, by a worker and an idle task, whoever else is working.
\* AbortAll returns.  The one exception is the deadlock above.
JobsFinish ==
  /\ main = "blocked" ~> main \in {"script", "abort"} \/ WaitingForEachOther
  /\ \A f \in Functions :
       state[f] = "kPending" ~>
         state[f] \in {"kFinalized", "deleted"} \/ canceled \/ WaitingForEachOther
  /\ main = "abort" ~> main = "aborted"
=============================================================================

------------------------ MODULE OptimizingDispatcher ------------------------
(***************************************************************************)
(* OptimizingCompileDispatcher (compiler-dispatcher/) with the parts of    *)
(* codegen/compiler.cc that feed it: the main thread puts Turbofan jobs in *)
(* a ring buffer and posts one CompileTask for each, worker threads        *)
(* compile, and the main thread installs or disposes of the results.       *)
(*                                                                         *)
(* Each critical section of one of the three mutexes, and each access to   *)
(* the atomic ref_count_ outside of them, is one step.  What only the main *)
(* thread touches (tiering states, code) changes with its nearest step.    *)
(* The main thread's calls are sequences of such steps, kept in todo.      *)
(***************************************************************************)
EXTENDS Integers, Sequences, FiniteSets

CONSTANTS
  Functions,      \* functions, each with a feedback vector of its own
  Jobs,           \* addresses of TurbofanCompilationJobs
  Tasks,          \* addresses of CompileTasks
  None,           \* null
  Capacity,       \* v8_flags.concurrent_recompilation_queue_length
  AlwaysTurbofan  \* v8_flags.always_turbofan

ASSUME CapacityAssumption == Capacity \in Nat \ {0}
ASSUME SetsAssumption ==
  /\ IsFiniteSet(Tasks)
  /\ None \notin Jobs /\ None \notin [fn : Functions, osr : BOOLEAN]
ASSUME FlagAssumption == AlwaysTurbofan \in BOOLEAN

VARIABLES
  input_queue, input_queue_length, input_queue_shift,
  output_queue,  \* finished jobs, oldest first
  ref_count,     \* CompileTasks that have been made and have not yet left
  task,          \* task[k]: where the CompileTask k is
  held,          \* held[k]: the job that k has taken
  job,           \* job[j]: None, or the function and whether it is for OSR
  tiering,       \* tiering[f][osr]: the tiering state of the vector
  available,     \* available[f]: HasAvailableCodeKind(TURBOFAN)
  install,       \* the stack guard's INSTALL_CODE interrupt
  finalize,      \* finalize_
  todo,          \* what the main thread's current call still has to do
  hasjobs,       \* what HasJobs answered; TRUE again when a job is queued
  dispatcher     \* "alive", "deleted", then "canceled" (CancelAndWait is done)

queue == <<input_queue, input_queue_length, input_queue_shift>>
tasks == <<task, held, ref_count>>
functions == <<tiering, available>>
vars == <<queue, output_queue, tasks, job, functions, install, finalize, todo,
          hasjobs, dispatcher>>

JobInfo == [fn : Functions, osr : BOOLEAN]
MainSteps == {"Post", "FlushInput", "Await", "FlushOutput", "DropOutput",
              "Install", "ClearInstallCode", "SetFinalize", "UnsetFinalize",
              "HasJobs1", "HasJobs2", "Delete", "CancelAndWait"}

TypeOK ==
  /\ input_queue \in [0..(Capacity - 1) -> Jobs \cup {None}]
  /\ input_queue_length \in 0..Capacity
  /\ input_queue_shift \in 0..(Capacity - 1)
  /\ output_queue \in Seq(Jobs)
  /\ ref_count \in Nat
  /\ task \in [Tasks -> {"none", "posted", "next", "compile", "request", "leave"}]
  /\ held \in [Tasks -> Jobs \cup {None}]
  /\ job \in [Jobs -> JobInfo \cup {None}]
  /\ tiering \in [Functions ->
       [BOOLEAN -> {"none", "request", "request_sync", "in_progress"}]]
  /\ available \in [Functions -> BOOLEAN]
  /\ install \in BOOLEAN /\ finalize \in BOOLEAN
  /\ todo \in Seq(MainSteps)
  /\ hasjobs \in BOOLEAN
  /\ dispatcher \in {"alive", "deleted", "canceled"}

Init ==
  /\ input_queue = [i \in 0..(Capacity - 1) |-> None]
  /\ input_queue_length = 0 /\ input_queue_shift = 0
  /\ output_queue = <<>>
  /\ ref_count = 0
  /\ task = [k \in Tasks |-> "none"] /\ held = [k \in Tasks |-> None]
  /\ job = [j \in Jobs |-> None]
  /\ tiering = [f \in Functions |-> [osr \in BOOLEAN |-> "none"]]
  /\ available = [f \in Functions |-> FALSE]
  /\ install = FALSE /\ finalize = TRUE
  /\ todo = <<>> /\ hasjobs = TRUE /\ dispatcher = "alive"

InputQueueIndex(i) == (i + input_queue_shift) % Capacity
Contents == [i \in 1..input_queue_length |-> input_queue[InputQueueIndex(i - 1)]]
IsQueueAvailable == input_queue_length < Capacity

(***************************************************************************)
(* A worker thread runs a CompileTask.                                     *)
(***************************************************************************)
Run(k) ==
  /\ task[k] = "posted"
  /\ task' = [task EXCEPT ![k] = "next"]
  /\ UNCHANGED <<queue, output_queue, held, ref_count, job, functions, install,
                 finalize, todo, hasjobs, dispatcher>>

\* Mutant of NextInput: takes the newest job.
NextInputNewest(k) ==
  /\ task[k] = "next"
  /\ IF input_queue_length = 0
     THEN /\ task' = [task EXCEPT ![k] = "leave"]
          /\ UNCHANGED <<queue, held>>
     ELSE /\ task' = [task EXCEPT ![k] = "compile"]
          /\ held' = [held EXCEPT ![k] = input_queue[InputQueueIndex(input_queue_length - 1)]]
          /\ input_queue_length' = input_queue_length - 1
          /\ UNCHANGED <<input_queue, input_queue_shift>>
  /\ UNCHANGED <<output_queue, ref_count, job, functions, install, finalize, todo,
                 hasjobs, dispatcher>>

\* The queue may have been flushed meanwhile: there need not be a job.
NextInput(k) ==
  /\ task[k] = "next"
  /\ IF input_queue_length = 0
     THEN /\ task' = [task EXCEPT ![k] = "leave"]
          /\ UNCHANGED <<queue, held>>
     ELSE /\ task' = [task EXCEPT ![k] = "compile"]
          /\ held' = [held EXCEPT ![k] = input_queue[InputQueueIndex(0)]]
          /\ input_queue_shift' = InputQueueIndex(1)
          /\ input_queue_length' = input_queue_length - 1
          /\ UNCHANGED input_queue
  /\ UNCHANGED <<output_queue, ref_count, job, functions, install, finalize, todo,
                 hasjobs, dispatcher>>

\* CompileNext: ExecuteJob, whether it succeeds or not, then the output queue.
CompileNext(k) ==
  /\ task[k] = "compile"
  /\ output_queue' = Append(output_queue, held[k])
  /\ held' = [held EXCEPT ![k] = None]
  /\ task' = [task EXCEPT ![k] = "request"]
  /\ UNCHANGED <<queue, ref_count, job, functions, install, finalize, todo,
                 hasjobs, dispatcher>>

RequestInstallCode(k) ==
  /\ task[k] = "request"
  /\ install' = (install \/ finalize)
  /\ task' = [task EXCEPT ![k] = "leave"]
  /\ UNCHANGED <<queue, output_queue, held, ref_count, job, functions, finalize,
                 todo, hasjobs, dispatcher>>

\* The end of RunInternal, under ref_count_mutex_; the main thread is notified
\* at zero.  The task object is destroyed afterwards.
Leave(k) ==
  /\ task[k] = "leave"
  /\ ref_count' = ref_count - 1
  /\ task' = [task EXCEPT ![k] = "none"]
  /\ UNCHANGED <<queue, output_queue, held, job, functions, install, finalize,
                 todo, hasjobs, dispatcher>>

(***************************************************************************)
(* The main thread asks for optimization.                                  *)
(***************************************************************************)
Idle == todo = <<>> /\ dispatcher = "alive"
Does(step) == todo # <<>> /\ Head(todo) = step

\* TieringManager::MaybeOptimizeFrame, or the instantiation of a closure under
\* --always-turbofan, which asks for synchronous compilation and does not look
\* whether a job is in progress.
MarkForOptimization(f) ==
  /\ Idle /\ ~available[f]
  /\ \/ /\ \A osr \in BOOLEAN : tiering[f][osr] # "in_progress"
        /\ tiering[f][FALSE] = "none"
        /\ tiering' = [tiering EXCEPT ![f][FALSE] = "request"]
     \/ /\ AlwaysTurbofan
        /\ tiering' = [tiering EXCEPT ![f][FALSE] = "request_sync"]
  /\ UNCHANGED <<queue, output_queue, tasks, job, available, install, finalize,
                 todo, hasjobs, dispatcher>>

\* CompileTurbofan_Concurrent up to the first half of QueueForOptimization.
Queue(f, osr) ==
  /\ IsQueueAvailable
  /\ \E k \in Tasks : task[k] = "none"  \* bound: tasks at a time
  /\ \E j \in Jobs :
       /\ job[j] = None
       /\ job' = [job EXCEPT ![j] = [fn |-> f, osr |-> osr]]
       /\ input_queue' =
            [input_queue EXCEPT ![InputQueueIndex(input_queue_length)] = j]
  /\ input_queue_length' = input_queue_length + 1
  /\ tiering' = [tiering EXCEPT ![f][osr] = "in_progress"]
  /\ todo' = <<"Post">> /\ hasjobs' = TRUE
  /\ UNCHANGED <<input_queue_shift, output_queue, tasks, available, install,
                 finalize, dispatcher>>

\* Runtime_CompileOptimized: the request is taken back, and then either a job
\* is queued or nothing comes of it (break points, cached code, queue full,
\* memory pressure, a failed PrepareJob).
CompileOptimized(f) ==
  /\ Idle /\ tiering[f][FALSE] = "request"
  /\ \/ Queue(f, FALSE)
     \/ /\ tiering' = [tiering EXCEPT ![f][FALSE] = "none"]
        /\ UNCHANGED <<queue, output_queue, tasks, job, available, install,
                       finalize, todo, hasjobs, dispatcher>>

CompileOptimizedSynchronously(f) ==
  /\ Idle /\ tiering[f][FALSE] = "request_sync"
  /\ tiering' = [tiering EXCEPT ![f][FALSE] = "none"]
  /\ \E success \in BOOLEAN :
       available' = [available EXCEPT ![f] = @ \/ success]
  /\ UNCHANGED <<queue, output_queue, tasks, job, install, finalize, todo,
                 hasjobs, dispatcher>>

\* One OSR job per function at a time.
CompileOptimizedOSR(f) ==
  /\ Idle /\ tiering[f][TRUE] # "in_progress"
  /\ Queue(f, TRUE)

\* The second half of QueueForOptimization: the constructor of CompileTask
\* counts the task, and the platform gets it.
Post ==
  /\ Does("Post")
  /\ \E k \in Tasks :
       /\ task[k] = "none"
       /\ task' = [task EXCEPT ![k] = "posted"]
  /\ ref_count' = ref_count + 1
  /\ todo' = Tail(todo)
  /\ UNCHANGED <<queue, output_queue, held, job, functions, install, finalize,
                 hasjobs, dispatcher>>

\* The code of f is thrown away (a deoptimization, a flushed vector).
DiscardCode(f) ==
  /\ Idle /\ available[f]
  /\ available' = [available EXCEPT ![f] = FALSE]
  /\ UNCHANGED <<queue, output_queue, tasks, job, tiering, install, finalize,
                 todo, hasjobs, dispatcher>>

(***************************************************************************)
(* The main thread's calls, as the steps they consist of.                  *)
(***************************************************************************)
\* Isolate::AbortConcurrentOptimization: Flush.
FlushCalls == {<<"FlushInput", "Await", "FlushOutput">>,
               <<"FlushInput", "FlushOutput">>}
\* The test functions %WaitForBackgroundOptimization, %FinalizeOptimization
\* and %DisableOptimizationFinalization.
TestCalls == {<<"Await">>,
              <<"Await", "Install", "SetFinalize">>,
              <<"Await", "Install", "ClearInstallCode", "UnsetFinalize">>}

Call ==
  /\ Idle
  /\ todo' \in FlushCalls \cup TestCalls
  /\ UNCHANGED <<queue, output_queue, tasks, job, functions, install, finalize,
                 hasjobs, dispatcher>>

\* Mutant of CallHasJobs: looks at the output queue first.
CallHasJobsBackwards ==
  /\ Idle
  /\ todo' = <<"HasJobs2", "HasJobs1">> /\ hasjobs' = FALSE
  /\ UNCHANGED <<queue, output_queue, tasks, job, functions, install, finalize,
                 dispatcher>>

CallHasJobs ==
  /\ Idle
  /\ todo' = <<"HasJobs1", "HasJobs2">> /\ hasjobs' = FALSE
  /\ UNCHANGED <<queue, output_queue, tasks, job, functions, install, finalize,
                 dispatcher>>

\* Mutant of HandleInterrupts: clears the interrupt when it has installed.
ClearAfterInstall ==
  /\ Idle /\ install
  /\ todo' = <<"Install", "ClearInstallCode">>
  /\ UNCHANGED <<queue, output_queue, tasks, job, functions, install, finalize,
                 hasjobs, dispatcher>>

\* StackGuard::HandleInterrupts clears the interrupt before it installs.
HandleInterrupts ==
  /\ Idle /\ install
  /\ install' = FALSE
  /\ todo' = <<"Install">>
  /\ UNCHANGED <<queue, output_queue, tasks, job, functions, finalize, hasjobs,
                 dispatcher>>

\* Mutant of Deinit: cancels the tasks before it stops the dispatcher.
CancelBeforeStop ==
  /\ Idle
  /\ todo' = <<"CancelAndWait", "FlushInput", "Await", "DropOutput", "Delete">>
  /\ UNCHANGED <<queue, output_queue, tasks, job, functions, install, finalize,
                 hasjobs, dispatcher>>

\* Isolate::Deinit: Stop, delete, and later the task manager's CancelAndWait.
Deinit ==
  /\ Idle
  /\ todo' = <<"FlushInput", "Await", "DropOutput", "Delete", "CancelAndWait">>
  /\ UNCHANGED <<queue, output_queue, tasks, job, functions, install, finalize,
                 hasjobs, dispatcher>>

(***************************************************************************)
(* The steps of those calls.                                               *)
(***************************************************************************)
\* ResetTieringState for each of the jobs js.
ResetTieringStates(js) ==
  tiering' = [f \in Functions |-> [osr \in BOOLEAN |->
                IF \E j \in js : job[j] = [fn |-> f, osr |-> osr]
                THEN "none" ELSE tiering[f][osr]]]

\* The jobs are deleted, and with restore_function_code the functions get
\* their unoptimized code back, which may have been all there was.
DisposeTurbofanCompilationJobs(js, restore_function_code) ==
  /\ ResetTieringStates(js)
  /\ \E fs \in SUBSET {job[j].fn : j \in js} :
       /\ restore_function_code \/ fs = {}
       /\ available' = [f \in Functions |-> available[f] /\ f \notin fs]
  /\ job' = [j \in Jobs |-> IF j \in js THEN None ELSE job[j]]

FlushInputQueue ==
  /\ Does("FlushInput")
  /\ DisposeTurbofanCompilationJobs({Contents[i] : i \in DOMAIN Contents}, TRUE)
  /\ input_queue_shift' = InputQueueIndex(input_queue_length)
  /\ input_queue_length' = 0
  /\ todo' = Tail(todo)
  /\ UNCHANGED <<input_queue, output_queue, tasks, install, finalize, hasjobs,
                 dispatcher>>

\* Mutant of AwaitCompileTasks: waits for one task too few.
AwaitAllButOne ==
  /\ Does("Await")
  /\ ref_count <= 1
  /\ todo' = Tail(todo)
  /\ UNCHANGED <<queue, output_queue, tasks, job, functions, install, finalize,
                 hasjobs, dispatcher>>

AwaitCompileTasks ==
  /\ Does("Await")
  /\ ref_count = 0
  /\ todo' = Tail(todo)
  /\ UNCHANGED <<queue, output_queue, tasks, job, functions, install, finalize,
                 hasjobs, dispatcher>>

\* One round of FlushOutputQueue, or its end.
FlushOutputQueue ==
  /\ Does("FlushOutput") \/ Does("DropOutput")
  /\ IF output_queue = <<>>
     THEN /\ todo' = Tail(todo)
          /\ UNCHANGED <<output_queue, functions, job>>
     ELSE /\ output_queue' = Tail(output_queue)
          /\ DisposeTurbofanCompilationJobs({Head(output_queue)}, Does("FlushOutput"))
          /\ UNCHANGED todo
  /\ UNCHANGED <<queue, tasks, install, finalize, hasjobs, dispatcher>>

\* FinalizeTurbofanCompilationJob, for a job that succeeds or fails.
FinalizeTurbofanCompilationJob(j) ==
  /\ ResetTieringStates({j})
  /\ \E success \in BOOLEAN :
       available' = IF job[j].osr THEN available
                    ELSE [available EXCEPT ![job[j].fn] = success]
  /\ job' = [job EXCEPT ![j] = None]

\* One round of InstallOptimizedFunctions, or its end.  A job whose function
\* has the code already is thrown out.
InstallOptimizedFunctions ==
  /\ Does("Install")
  /\ IF output_queue = <<>>
     THEN /\ todo' = Tail(todo)
          /\ UNCHANGED <<output_queue, functions, job>>
     ELSE LET j == Head(output_queue) IN
          /\ output_queue' = Tail(output_queue)
          /\ IF ~job[j].osr /\ available[job[j].fn]
             THEN DisposeTurbofanCompilationJobs({j}, FALSE)
             ELSE FinalizeTurbofanCompilationJob(j)
          /\ UNCHANGED todo
  /\ UNCHANGED <<queue, tasks, install, finalize, hasjobs, dispatcher>>

ClearInstallCode ==
  /\ Does("ClearInstallCode")
  /\ install' = FALSE
  /\ todo' = Tail(todo)
  /\ UNCHANGED <<queue, output_queue, tasks, job, functions, finalize, hasjobs,
                 dispatcher>>

SetFinalize ==
  /\ Does("SetFinalize") \/ Does("UnsetFinalize")
  /\ finalize' = Does("SetFinalize")
  /\ todo' = Tail(todo)
  /\ UNCHANGED <<queue, output_queue, tasks, job, functions, install, hasjobs,
                 dispatcher>>

\* HasJobs reads ref_count_ and then the output queue, without a mutex.
HasJobsRefCount ==
  /\ Does("HasJobs1")
  /\ hasjobs' = (hasjobs \/ ref_count # 0)
  /\ todo' = Tail(todo)
  /\ UNCHANGED <<queue, output_queue, tasks, job, functions, install, finalize,
                 dispatcher>>

HasJobsOutputQueue ==
  /\ Does("HasJobs2")
  /\ hasjobs' = (hasjobs \/ output_queue # <<>>)
  /\ todo' = Tail(todo)
  /\ UNCHANGED <<queue, output_queue, tasks, job, functions, install, finalize,
                 dispatcher>>

DeleteDispatcher ==
  /\ Does("Delete")
  /\ dispatcher' = "deleted"
  /\ todo' = Tail(todo)
  /\ UNCHANGED <<queue, output_queue, tasks, job, functions, install, finalize,
                 hasjobs>>

\* CancelableTaskManager::CancelAndWait, see CancelableTasks: posted tasks will
\* not run, running ones are waited for.
CancelAndWait ==
  /\ Does("CancelAndWait")
  /\ \A k \in Tasks : task[k] \in {"none", "posted"}
  /\ task' = [k \in Tasks |-> "none"]
  /\ dispatcher' = IF dispatcher = "deleted" THEN "canceled" ELSE dispatcher
  /\ todo' = Tail(todo)
  /\ UNCHANGED <<queue, output_queue, held, ref_count, job, functions, install,
                 finalize, hasjobs>>

WorkerStep(k) ==
  Run(k) \/ NextInput(k) \/ CompileNext(k) \/ RequestInstallCode(k) \/ Leave(k)

MainStep ==
  \/ Post \/ FlushInputQueue \/ AwaitCompileTasks \/ FlushOutputQueue
  \/ InstallOptimizedFunctions \/ ClearInstallCode \/ SetFinalize
  \/ HasJobsRefCount \/ HasJobsOutputQueue \/ DeleteDispatcher \/ CancelAndWait

Next ==
  \/ \E k \in Tasks : WorkerStep(k)
  \/ \E f \in Functions :
       \/ MarkForOptimization(f) \/ CompileOptimized(f)
       \/ CompileOptimizedSynchronously(f) \/ CompileOptimizedOSR(f)
       \/ DiscardCode(f)
  \/ Call \/ CallHasJobs \/ HandleInterrupts \/ Deinit
  \/ MainStep

\* The platform runs posted tasks, and the main thread goes on with a call.
Fairness ==
  /\ \A k \in Tasks : WF_vars(WorkerStep(k))
  /\ WF_vars(MainStep)

Spec == Init /\ [][Next]_vars
FairSpec == Spec /\ Fairness

-----------------------------------------------------------------------------
(***************************************************************************)
(* Properties.                                                             *)
(***************************************************************************)
Active(k) == task[k] # "none"
LiveJobs == {j \in Jobs : job[j] # None}
TodoHas(steps) == \E i \in DOMAIN todo : todo[i] \in steps

\* ref_count_ counts the tasks, there are at least as many tasks before
\* NextInput as there are jobs in the input queue (one is about to be posted
\* after a push), and a task has a job while it compiles.
CountsExact ==
  /\ ref_count = Cardinality({k \in Tasks : Active(k)})
  /\ input_queue_length <=
       Cardinality({k \in Tasks : task[k] \in {"posted", "next"}})
         + (IF Does("Post") THEN 1 ELSE 0)
  /\ \A k \in Tasks : held[k] # None <=> task[k] = "compile"

\* The CHECKs and DCHECKs: AwaitCompileTasks leaves no job in the input queue
\* (CHECK_EQ(input_queue_length_, 0)), set_finalize meets no jobs
\* (CHECK(!HasJobs())), and the destructor finds nothing left.
ChecksHold ==
  /\ Does("Await") /\ ref_count = 0 => input_queue_length = 0
  /\ Does("SetFinalize") \/ Does("UnsetFinalize") =>
       ref_count = 0 /\ output_queue = <<>>
  /\ Does("Delete") => ref_count = 0 /\ input_queue_length = 0

\* When the dispatcher is deleted no task uses it any more and no job is left
\* behind in it (Stop blocks, and the tasks are canceled only afterwards).
OutlivesTasks ==
  dispatcher # "alive" =>
    LiveJobs = {} /\ \A k \in Tasks : ~Active(k)

\* The dispatcher's counters say what they should although a task may take a
\* job that was queued for another one and find none itself: its CHECKs and
\* DCHECKs hold, and it is deleted after its last task and job.
DispatcherInv == TypeOK /\ CountsExact /\ ChecksHold /\ OutlivesTasks

\* HasJobs says FALSE only if there is no job that could refer to an object
\* (Heap::CanMoveObjectStart relies on it), though it takes no mutex.
NoJobsMeansNone == Idle /\ ~hasjobs => LiveJobs = {}

\* A finished job has the main thread interrupted, or a worker about to do
\* that, or the main thread emptying the output queue (CompileNext pushes, then
\* requests; HandleInterrupts clears, then installs).
FinishedJobsAnnounced ==
  finalize /\ output_queue # <<>> =>
    \/ install
    \/ \E k \in Tasks : task[k] = "request"
    \/ TodoHas({"Install", "FlushOutput", "DropOutput"})

\* A tiering state that says "in progress" has a job that will reset it.
InProgressHasJob ==
  \A f \in Functions, osr \in BOOLEAN :
    tiering[f][osr] = "in_progress" =>
      \E j \in LiveJobs : job[j] = [fn |-> f, osr |-> osr]

\* Nothing is forgotten, whatever requests, flushes, failures and interrupts
\* meet: no finished job lies in the output queue unannounced, and no function
\* is barred from optimization by a job that does not exist.
NothingForgotten == FinishedJobsAnnounced /\ InProgressHasJob

\* The ring buffer, the tasks and the output queue implement a pipeline that
\* takes jobs in the order in which they were queued.
P == INSTANCE CompilePipeline WITH
       waiting <- Contents,
       working <- {held[k] : k \in Tasks} \ {None},
       done <- output_queue
ImplementsPipeline == P!Spec

\* AwaitCompileTasks returns: every task that is counted leaves.
AwaitReturns == Does("Await") ~> ~Does("Await")
=============================================================================

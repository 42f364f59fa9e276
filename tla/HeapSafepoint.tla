---------------------------- MODULE HeapSafepoint ----------------------------
(***************************************************************************)
(* One isolate's stop-the-world machinery: the LocalHeaps of its main and  *)
(* background threads (heap/local-heap), the IsolateSafepoint that stops   *)
(* them (heap/safepoint), and the CollectionBarrier through which a        *)
(* background thread asks the main thread for a garbage collection and     *)
(* waits for it (heap/collection-barrier, heap/heap.cc).                   *)
(*                                                                         *)
(* Every atomic access to a state word, every critical section of one of   *)
(* the mutexes and every wait on a condition variable is a step of its     *)
(* own.  Initiator is the main thread of another isolate that shares this  *)
(* isolate's heap space: it opens global safepoints, which stop this       *)
(* isolate's main thread too.                                              *)
(***************************************************************************)
EXTENDS Integers, FiniteSets, ThreadState

CONSTANTS
  Main,         \* the isolate's main thread
  Background,   \* its background threads
  Initiator,    \* the main thread of another isolate of the same shared space
  None,         \* the owner of a free mutex
  SharedSpace,  \* has_shared_space(): global safepoints happen
  MaxScopes     \* bound: nesting depth of the main thread's safepoint scopes

Threads == {Main} \union Background
Procs == Threads \union {Initiator}

ASSUME ThreadsAssumption ==
  /\ IsFiniteSet(Background)
  /\ Main \notin Background
  /\ Initiator \notin Threads
  /\ None \notin Procs

ASSUME ParametersAssumption ==
  /\ SharedSpace \in BOOLEAN
  /\ MaxScopes \in Nat \ {0}

VARIABLES
  \* LocalHeap
  state,                 \* LocalHeap::state_ of each thread
  pc,                    \* where each thread is in the code
  caller,                \* who called the Park() or Unpark() a thread is in
  sawCollection,         \* SafepointSlowPath: current_state.IsCollectionRequested()
  task,                  \* why the main thread opens a safepoint scope
  \* IsolateSafepoint and its Barrier
  localHeaps,            \* the list local_heaps_head_
  localHeapsMutex,       \* owner of local_heaps_mutex_
  activeSafepointScopes, \* active_safepoint_scopes_
  armed, stopped,        \* Barrier::armed_, Barrier::stopped_
  running, todo,         \* locals of Set/ClearSafepointRequestedFlags
  clientsMutex,          \* owner of GlobalSafepoint::clients_mutex_
  \* CollectionBarrier
  collectionRequested, blockForCollection, collectionPerformed,
  timerStarted, shutdownRequested,
  interrupt,             \* stack guard request or posted interrupt task
  asleep,                \* processes asleep in a condition variable
  \* history
  collected,             \* threads since whose last request a GC was done
  toldCollected          \* threads whose last wait returned true

localHeapVars == <<state, caller, sawCollection, task>>
listVars == <<localHeaps, localHeapsMutex, activeSafepointScopes>>
barrierVars == <<armed, stopped, running, todo>>
collectionVars == <<collectionRequested, blockForCollection,
                    collectionPerformed, timerStarted, shutdownRequested>>
historyVars == <<collected, toldCollected>>
vars == <<localHeapVars, pc, listVars, barrierVars, clientsMutex,
          collectionVars, interrupt, asleep, historyVars>>

-----------------------------------------------------------------------------
(* Program points.                                                         *)

ParkPcs == {"park", "parkSafepoint", "parkCollection"}
NotifyPcs == {"notifyPark", "notifyParkThenCancel"}
UnparkPcs == {"unpark", "sleepInUnpark", "unparkCollection"}
SleepPcs == {"sleepInSafepoint", "waitInSafepoint", "inSafepoint"}
ScopePcs == {"lockMutex", "lockBlocked", "arm", "setFlags", "safe", "collect",
             "resumeThreads", "leave", "clearFlags", "unlock"}
MainPcs == {"run", "parked", "cancel", "clientsBlocked", "tearDown", "dead"}
             \union ParkPcs \union NotifyPcs \union UnparkPcs
             \union SleepPcs \union ScopePcs
BackgroundPcs == {"absent", "adding", "removing", "run", "parked", "requested",
                  "await", "activate", "waiting", "park", "parkSafepoint",
                  "notifyPark", "unpark", "sleepInUnpark"} \union SleepPcs
InitiatorPcs == {"idle", "lockMutex", "arm", "setFlags", "safe", "clearFlags",
                 "unlock"}

\* Between WaitUntilRunningThreadsInSafepoint and ClearSafepointRequestedFlags
\* the owner of the scope may rely on the world being stopped.
StoppedPcs == {"safe", "collect", "resumeThreads", "leave"}

\* The LocalHeaps a safepoint opened by p stops: IncludeMainThread.
Targets(p) == IF p = Main THEN localHeaps \ {Main} ELSE localHeaps

\* Heap::ignore_local_gc_requests(): the depth is positive exactly while the
\* main thread is in one of the scopes that declare IgnoreLocalGCRequests.
IgnoreLocalGCRequests == caller[Main] \in {"lockMutex", "sleep", "deinit"}

Goto(t, label) == pc' = [pc EXCEPT ![t] = label]
SetState(t, s) == state' = [state EXCEPT ![t] = s]

\* NotifyAll on the condition variable in which the processes at labels sleep.
NotifyAll(labels) == asleep' = {p \in asleep : pc[p] \notin labels}

\* Where Park() and Unpark() return to.
AfterPark(t) == IF caller[t] = "lockMutex" THEN "lockBlocked"
                ELSE IF caller[t] = "deinit" THEN "clientsBlocked"
                ELSE IF caller[t] = "await" THEN "waiting"
                ELSE "parked"
AfterUnpark(t) == IF caller[t] = "lockMutex" THEN "arm"
                  ELSE IF caller[t] = "deinit" THEN "tearDown"
                  ELSE IF caller[t] = "sleep" /\ t = Main /\ sawCollection
                    THEN "lockMutex"
                  ELSE "run"

Init ==
  /\ state = [t \in Threads |-> IF t = Main THEN Running ELSE Parked]
  /\ pc = [p \in Procs |-> IF p = Main THEN "run"
                           ELSE IF p = Initiator THEN "idle"
                           ELSE "absent"]
  /\ caller = [t \in Threads |-> "user"]
  /\ sawCollection = FALSE /\ task = "gc"
  /\ localHeaps = {Main} /\ localHeapsMutex = None /\ activeSafepointScopes = 0
  /\ armed = FALSE /\ stopped = 0 /\ running = 0 /\ todo = {}
  /\ clientsMutex = None
  /\ collectionRequested = FALSE /\ blockForCollection = FALSE
  /\ collectionPerformed = FALSE /\ timerStarted = FALSE
  /\ shutdownRequested = FALSE /\ interrupt = FALSE /\ asleep = {}
  /\ collected = {} /\ toldCollected = {}

-----------------------------------------------------------------------------
(* LocalHeap: construction, destruction, Park, Unpark, Safepoint.          *)

\* The constructor and the destructor take local_heaps_mutex_ to change the
\* list; the constructor leaves the new LocalHeap Parked, the destructor
\* requires it.
LockToAdd(b) ==
  /\ pc[b] = "absent" /\ localHeapsMutex = None
  /\ localHeapsMutex' = b
  /\ Goto(b, "adding")
  /\ UNCHANGED <<localHeapVars, localHeaps, activeSafepointScopes, barrierVars,
                 clientsMutex, collectionVars, interrupt, asleep, historyVars>>

AddLocalHeap(b) ==
  /\ pc[b] = "adding"
  /\ localHeaps' = localHeaps \union {b}
  /\ SetState(b, Parked)
  /\ localHeapsMutex' = None
  /\ Goto(b, "parked")
  /\ UNCHANGED <<caller, sawCollection, task, activeSafepointScopes,
                 barrierVars, clientsMutex, collectionVars, interrupt, asleep,
                 historyVars>>

LockToRemove(b) ==
  /\ b \in Background
  /\ pc[b] = "parked" /\ localHeapsMutex = None
  /\ localHeapsMutex' = b
  /\ Goto(b, "removing")
  /\ UNCHANGED <<localHeapVars, localHeaps, activeSafepointScopes, barrierVars,
                 clientsMutex, collectionVars, interrupt, asleep, historyVars>>

RemoveLocalHeap(b) ==
  /\ pc[b] = "removing"
  /\ localHeaps' = localHeaps \ {b}
  /\ localHeapsMutex' = None
  /\ Goto(b, "absent")
  /\ UNCHANGED <<localHeapVars, activeSafepointScopes, barrierVars,
                 clientsMutex, collectionVars, interrupt, asleep, historyVars>>

\* ParkedScope's constructor and destructor.
CallPark(t) ==
  /\ pc[t] = "run"
  /\ Goto(t, "park")
  /\ caller' = [caller EXCEPT ![t] = "user"]
  /\ UNCHANGED <<state, sawCollection, task, listVars, barrierVars,
                 clientsMutex, collectionVars, interrupt, asleep, historyVars>>

CallUnpark(t) ==
  /\ pc[t] = "parked"
  /\ Goto(t, "unpark")
  /\ caller' = [caller EXCEPT ![t] = "user"]
  /\ UNCHANGED <<state, sawCollection, task, listVars, barrierVars,
                 clientsMutex, collectionVars, interrupt, asleep, historyVars>>

\* Park() and one round of ParkSlowPath's loop up to the decision that the
\* value read by the failed compare-exchange leads to.  The fast path's
\* compare-exchange is the one that the slow path's loop begins with.
Park(t) ==
  /\ pc[t] = "park"
  /\ \/ /\ state[t] = Running
        /\ SetState(t, Parked)
        /\ Goto(t, AfterPark(t))
        /\ UNCHANGED task
     \/ /\ IsSafepointRequested(state[t])
        /\ Goto(t, "parkSafepoint")
        /\ UNCHANGED <<state, task>>
     \/ /\ t = Main /\ state[t] = {"CollectionRequested"}
        /\ IF IgnoreLocalGCRequests
             THEN /\ Goto(t, "parkCollection")
                  /\ UNCHANGED task
             ELSE /\ Goto(t, "lockMutex")
                  /\ task' = "gcInPark"
        /\ UNCHANGED state
  /\ UNCHANGED <<caller, sawCollection, listVars, barrierVars, clientsMutex,
                 collectionVars, interrupt, asleep, historyVars>>

\* The state word asked for a safepoint: park whatever else it holds now.
ParkForSafepoint(t) ==
  /\ pc[t] = "parkSafepoint"
  /\ SetState(t, SetParked(state[t]))
  /\ Goto(t, IF t = Main /\ IsCollectionRequested(state[t])
               THEN "notifyParkThenCancel" ELSE "notifyPark")
  /\ UNCHANGED <<caller, sawCollection, task, listVars, barrierVars,
                 clientsMutex, collectionVars, interrupt, asleep, historyVars>>

\* Mutant: the owner of the scope is not notified.
NotifyParkSilently(t) ==
  /\ pc[t] \in NotifyPcs
  /\ stopped' = stopped + 1
  /\ Goto(t, IF pc[t] = "notifyPark" THEN AfterPark(t) ELSE "cancel")
  /\ UNCHANGED <<localHeapVars, listVars, armed, running, todo, clientsMutex,
                 collectionVars, interrupt, asleep, historyVars>>

\* Barrier::NotifyPark.  (Its NotifyOne reaches the only process that can be
\* asleep in cv_stopped_, the owner of the scope.)
NotifyPark(t) ==
  /\ pc[t] \in NotifyPcs
  /\ stopped' = stopped + 1
  /\ NotifyAll({"setFlags"})
  /\ Goto(t, IF pc[t] = "notifyPark" THEN AfterPark(t) ELSE "cancel")
  /\ UNCHANGED <<localHeapVars, listVars, armed, running, todo, clientsMutex,
                 collectionVars, interrupt, historyVars>>

\* A collection is requested but may not be done here: park, keeping the flag.
ParkWithCollectionRequested(t) ==
  /\ pc[t] = "parkCollection"
  /\ IF state[t] = {"CollectionRequested"}
       THEN /\ SetState(t, SetParked(state[t]))
            /\ Goto(t, "cancel")
       ELSE /\ Goto(t, "park")
            /\ UNCHANGED state
  /\ UNCHANGED <<caller, sawCollection, task, listVars, barrierVars,
                 clientsMutex, collectionVars, interrupt, asleep, historyVars>>

\* Mutant: the timer goes on running.
CancelKeepingTimer(t) ==
  /\ pc[t] = "cancel"
  /\ collectionRequested' = FALSE
  /\ blockForCollection' = FALSE
  /\ collectionPerformed' = FALSE
  /\ NotifyAll({"waiting"})
  /\ Goto(t, AfterPark(t))
  /\ UNCHANGED <<localHeapVars, listVars, barrierVars, clientsMutex,
                 timerStarted, shutdownRequested, interrupt, historyVars>>

\* Mutant: collection_performed_ keeps the value of an earlier collection.
CancelKeepingPerformed(t) ==
  /\ pc[t] = "cancel"
  /\ timerStarted' = FALSE
  /\ collectionRequested' = FALSE
  /\ blockForCollection' = FALSE
  /\ NotifyAll({"waiting"})
  /\ Goto(t, AfterPark(t))
  /\ UNCHANGED <<localHeapVars, listVars, barrierVars, clientsMutex,
                 collectionPerformed, shutdownRequested, interrupt, historyVars>>

\* CollectionBarrier::CancelCollectionAndResumeThreads.
CancelCollectionAndResumeThreads(t) ==
  /\ pc[t] = "cancel"
  /\ timerStarted' = FALSE
  /\ collectionRequested' = FALSE
  /\ blockForCollection' = FALSE
  /\ collectionPerformed' = FALSE
  /\ NotifyAll({"waiting"})
  /\ Goto(t, AfterPark(t))
  /\ UNCHANGED <<localHeapVars, listVars, barrierVars, clientsMutex,
                 shutdownRequested, interrupt, historyVars>>

\* What follows Unpark(): a stale current_state in SafepointSlowPath may still
\* send the main thread to CollectGarbageForBackground.
ReturnFromUnpark(t) ==
  /\ Goto(t, AfterUnpark(t))
  /\ task' = IF AfterUnpark(t) = "lockMutex" THEN "gc" ELSE task

\* Mutant: the parked bit is cleared whatever else is requested.
UnparkAnyway(t) ==
  /\ pc[t] = "unpark"
  /\ SetState(t, SetRunning(state[t]))
  /\ ReturnFromUnpark(t)
  /\ UNCHANGED <<caller, sawCollection, listVars, barrierVars, clientsMutex,
                 collectionVars, interrupt, asleep, historyVars>>

\* Unpark() and one round of UnparkSlowPath's loop.
Unpark(t) ==
  /\ pc[t] = "unpark"
  /\ \/ /\ state[t] = Parked
        /\ SetState(t, Running)
        /\ ReturnFromUnpark(t)
     \/ /\ IsSafepointRequested(state[t])
        /\ Goto(t, "sleepInUnpark")
        /\ UNCHANGED <<state, task>>
     \/ /\ t = Main /\ state[t] = {"Parked", "CollectionRequested"}
        /\ Goto(t, "unparkCollection")
        /\ UNCHANGED <<state, task>>
  /\ UNCHANGED <<caller, sawCollection, listVars, barrierVars, clientsMutex,
                 collectionVars, interrupt, asleep, historyVars>>

\* Barrier::WaitInUnpark.
WaitInUnpark(t) ==
  /\ pc[t] = "sleepInUnpark" /\ t \notin asleep
  /\ IF armed
       THEN /\ asleep' = asleep \union {t}
            /\ UNCHANGED pc
       ELSE /\ Goto(t, "unpark")
            /\ UNCHANGED asleep
  /\ UNCHANGED <<localHeapVars, listVars, barrierVars, clientsMutex,
                 collectionVars, interrupt, historyVars>>

\* The main thread takes over a request made while it was parked: it runs
\* again with the flag set and collects, unless it has to ignore requests.
UnparkWithCollectionRequested(t) ==
  /\ pc[t] = "unparkCollection"
  /\ \/ /\ state[t] = {"Parked", "CollectionRequested"}
        /\ SetState(t, SetRunning(state[t]))
        /\ IF IgnoreLocalGCRequests
             THEN ReturnFromUnpark(t)
             ELSE Goto(t, "lockMutex") /\ task' = "gc"
     \/ /\ state[t] # {"Parked", "CollectionRequested"}
        /\ Goto(t, "unpark")
        /\ UNCHANGED <<state, task>>
  /\ UNCHANGED <<caller, sawCollection, listVars, barrierVars, clientsMutex,
                 collectionVars, interrupt, asleep, historyVars>>

\* Safepoint() and SafepointSlowPath: the state word is read once, here.
Safepoint(t) ==
  /\ pc[t] = "run" /\ IsRunningWithSlowPathFlag(state[t])
  /\ IF t = Main
       THEN sawCollection' = IsCollectionRequested(state[t])
       ELSE UNCHANGED sawCollection
  /\ IF t # Main \/ IsSafepointRequested(state[t])
       THEN /\ Goto(t, "sleepInSafepoint")
            /\ UNCHANGED task
       ELSE /\ Goto(t, "lockMutex")
            /\ task' = "gc"
  /\ UNCHANGED <<state, caller, listVars, barrierVars, clientsMutex,
                 collectionVars, interrupt, asleep, historyVars>>

\* SleepInSafepoint parks the thread before it reports to the barrier.
SleepInSafepoint(t) ==
  /\ pc[t] = "sleepInSafepoint"
  /\ SetState(t, SetParked(state[t]))
  /\ Goto(t, "waitInSafepoint")
  /\ UNCHANGED <<caller, sawCollection, task, listVars, barrierVars,
                 clientsMutex, collectionVars, interrupt, asleep, historyVars>>

\* Barrier::WaitInSafepoint: report, then wait until the barrier is disarmed.
ReportInSafepoint(t) ==
  /\ pc[t] = "waitInSafepoint"
  /\ stopped' = stopped + 1
  /\ asleep' = {p \in asleep : pc[p] # "setFlags"}
                \union (IF armed THEN {t} ELSE {})
  /\ Goto(t, "inSafepoint")
  /\ UNCHANGED <<localHeapVars, listVars, armed, running, todo, clientsMutex,
                 collectionVars, interrupt, historyVars>>

WakeInSafepoint(t) ==
  /\ pc[t] = "inSafepoint" /\ t \notin asleep
  /\ IF armed
       THEN /\ asleep' = asleep \union {t}
            /\ UNCHANGED <<pc, caller>>
       ELSE /\ Goto(t, "unpark")
            /\ caller' = [caller EXCEPT ![t] = "sleep"]
            /\ UNCHANGED asleep
  /\ UNCHANGED <<state, sawCollection, task, listVars, barrierVars,
                 clientsMutex, collectionVars, interrupt, historyVars>>

-----------------------------------------------------------------------------
(* IsolateSafepoint: opening and closing a safepoint scope.  p is the main *)
(* thread (a local safepoint) or the other isolate's Initiator (a global   *)
(* one).                                                                   *)

\* The main thread opens a scope on its own account: a collection it decides
\* on itself, or a scope for something else (starting incremental marking,
\* heap statistics).
OpenScope ==
  /\ pc[Main] = "run"
  /\ Goto(Main, "lockMutex")
  /\ task' \in {"gc", "scope"}
  /\ UNCHANGED <<state, caller, sawCollection, listVars, barrierVars,
                 clientsMutex, collectionVars, interrupt, asleep, historyVars>>

\* Mutant: the main thread blocks for the mutex without parking.
LockMutexRunning ==
  /\ pc[Main] = "lockMutex" /\ localHeapsMutex = None
  /\ localHeapsMutex' = Main
  /\ Goto(Main, "arm")
  /\ UNCHANGED <<localHeapVars, localHeaps, activeSafepointScopes, barrierVars,
                 clientsMutex, collectionVars, interrupt, asleep, historyVars>>

\* LockMutex: try, else park while blocking for the mutex.
LockMutex ==
  /\ pc[Main] = "lockMutex"
  /\ IF localHeapsMutex = None
       THEN /\ localHeapsMutex' = Main
            /\ Goto(Main, "arm")
            /\ UNCHANGED caller
       ELSE /\ Goto(Main, "park")
            /\ caller' = [caller EXCEPT ![Main] = "lockMutex"]
            /\ UNCHANGED localHeapsMutex
  /\ UNCHANGED <<state, sawCollection, task, localHeaps, activeSafepointScopes,
                 barrierVars, clientsMutex, collectionVars, interrupt, asleep,
                 historyVars>>

LockMutexBlocked ==
  /\ pc[Main] = "lockBlocked" /\ localHeapsMutex = None
  /\ localHeapsMutex' = Main
  /\ Goto(Main, "unpark")
  /\ UNCHANGED <<localHeapVars, localHeaps, activeSafepointScopes, barrierVars,
                 clientsMutex, collectionVars, interrupt, asleep, historyVars>>

\* EnterGlobalSafepointScope takes clients_mutex_, then this isolate's
\* local_heaps_mutex_ (TryInitiate..., then Initiate... which blocks).
EnterGlobalSafepointScope ==
  /\ SharedSpace
  /\ pc[Initiator] = "idle" /\ clientsMutex = None
  /\ clientsMutex' = Initiator
  /\ Goto(Initiator, "lockMutex")
  /\ UNCHANGED <<localHeapVars, listVars, barrierVars, collectionVars,
                 interrupt, asleep, historyVars>>

InitiateGlobalSafepointScope ==
  /\ pc[Initiator] = "lockMutex" /\ localHeapsMutex = None
  /\ localHeapsMutex' = Initiator
  /\ Goto(Initiator, "arm")
  /\ UNCHANGED <<localHeapVars, localHeaps, activeSafepointScopes, barrierVars,
                 clientsMutex, collectionVars, interrupt, asleep, historyVars>>

\* Barrier::Arm and the start of SetSafepointRequestedFlags.
Arm(p) ==
  /\ pc[p] = "arm"
  /\ activeSafepointScopes' = activeSafepointScopes + 1
  /\ armed' = TRUE /\ stopped' = 0 /\ running' = 0
  /\ todo' = Targets(p)
  /\ Goto(p, "setFlags")
  /\ UNCHANGED <<localHeapVars, localHeaps, localHeapsMutex, clientsMutex,
                 collectionVars, interrupt, asleep, historyVars>>

\* Mutant: parked threads are counted as running.
SetFlagCountingParked(p, h) ==
  /\ pc[p] = "setFlags" /\ h \in todo
  /\ SetState(h, SetSafepointRequested(state[h]))
  /\ running' = running + 1
  /\ todo' = todo \ {h}
  /\ UNCHANGED <<pc, caller, sawCollection, task, listVars, armed, stopped,
                 clientsMutex, collectionVars, interrupt, asleep, historyVars>>

\* One iteration of SetSafepointRequestedFlags, in any order of the list.
SetSafepointRequestedFlag(p, h) ==
  /\ pc[p] = "setFlags" /\ h \in todo
  /\ SetState(h, SetSafepointRequested(state[h]))
  /\ running' = IF IsRunning(state[h]) THEN running + 1 ELSE running
  /\ todo' = todo \ {h}
  /\ UNCHANGED <<pc, caller, sawCollection, task, listVars, armed, stopped,
                 clientsMutex, collectionVars, interrupt, asleep, historyVars>>

\* Mutant: one report too few is enough.
WaitForAllButOne(p) ==
  /\ pc[p] = "setFlags" /\ todo = {} /\ p \notin asleep
  /\ IF stopped + 1 < running
       THEN /\ asleep' = asleep \union {p}
            /\ UNCHANGED pc
       ELSE /\ Goto(p, "safe")
            /\ UNCHANGED asleep
  /\ UNCHANGED <<localHeapVars, listVars, barrierVars, clientsMutex,
                 collectionVars, interrupt, historyVars>>

\* Barrier::WaitUntilRunningThreadsInSafepoint.
WaitUntilRunningThreadsInSafepoint(p) ==
  /\ pc[p] = "setFlags" /\ todo = {} /\ p \notin asleep
  /\ IF stopped < running
       THEN /\ asleep' = asleep \union {p}
            /\ UNCHANGED pc
       ELSE /\ Goto(p, "safe")
            /\ UNCHANGED asleep
  /\ UNCHANGED <<localHeapVars, listVars, barrierVars, clientsMutex,
                 collectionVars, interrupt, historyVars>>

\* A scope inside a scope: the recursive mutex and the counter alone.
EnterNestedScope ==
  /\ pc[Main] = "safe" /\ activeSafepointScopes < MaxScopes
  /\ activeSafepointScopes' = activeSafepointScopes + 1
  /\ UNCHANGED <<localHeapVars, pc, localHeaps, localHeapsMutex, barrierVars,
                 clientsMutex, collectionVars, interrupt, asleep, historyVars>>

LeaveNestedScope ==
  /\ pc[Main] = "safe" /\ activeSafepointScopes > 1
  /\ activeSafepointScopes' = activeSafepointScopes - 1
  /\ UNCHANGED <<localHeapVars, pc, localHeaps, localHeapsMutex, barrierVars,
                 clientsMutex, collectionVars, interrupt, asleep, historyVars>>

\* LeaveLocalSafepointScope and LeaveGlobalSafepointScope up to the start of
\* ClearSafepointRequestedFlags.
LeaveSafepointScope(p) ==
  /\ \/ pc[p] = "leave"
     \/ pc[p] = "safe" /\ (p = Initiator \/ task = "scope")
  /\ activeSafepointScopes = 1
  /\ activeSafepointScopes' = 0
  /\ todo' = Targets(p)
  /\ Goto(p, "clearFlags")
  /\ UNCHANGED <<localHeapVars, localHeaps, localHeapsMutex, armed, stopped,
                 running, clientsMutex, collectionVars, interrupt, asleep,
                 historyVars>>

ClearSafepointRequestedFlag(p, h) ==
  /\ pc[p] = "clearFlags" /\ h \in todo
  /\ SetState(h, ClearSafepointRequested(state[h]))
  /\ todo' = todo \ {h}
  /\ UNCHANGED <<pc, caller, sawCollection, task, listVars, armed, stopped,
                 running, clientsMutex, collectionVars, interrupt, asleep,
                 historyVars>>

\* Mutant: the barrier is disarmed before the flags are cleared.
DisarmEarly(p) ==
  /\ pc[p] = "clearFlags"
  /\ armed' = FALSE /\ stopped' = 0
  /\ NotifyAll({"inSafepoint", "sleepInUnpark"})
  /\ Goto(p, "unlock")
  /\ UNCHANGED <<localHeapVars, listVars, running, todo, clientsMutex,
                 collectionVars, interrupt, historyVars>>

\* Barrier::Disarm.
Disarm(p) ==
  /\ pc[p] = "clearFlags" /\ todo = {}
  /\ armed' = FALSE /\ stopped' = 0
  /\ NotifyAll({"inSafepoint", "sleepInUnpark"})
  /\ Goto(p, "unlock")
  /\ UNCHANGED <<localHeapVars, listVars, running, todo, clientsMutex,
                 collectionVars, interrupt, historyVars>>

\* The scope ends; a collection run from ParkSlowPath goes back to its loop.
UnlockLocal ==
  /\ pc[Main] = "unlock"
  /\ localHeapsMutex' = None
  /\ Goto(Main, IF task = "gcInPark" THEN "park" ELSE "run")
  /\ caller' = [caller EXCEPT ![Main] = "user"]
  /\ UNCHANGED <<state, sawCollection, task, localHeaps, activeSafepointScopes,
                 barrierVars, clientsMutex, collectionVars, interrupt, asleep,
                 historyVars>>

UnlockGlobal ==
  /\ pc[Initiator] = "unlock"
  /\ localHeapsMutex' = None
  /\ clientsMutex' = None
  /\ Goto(Initiator, "idle")
  /\ UNCHANGED <<localHeapVars, localHeaps, activeSafepointScopes, barrierVars,
                 collectionVars, interrupt, asleep, historyVars>>

-----------------------------------------------------------------------------
(* The collection itself, in the safepoint.                                *)

\* CollectionBarrier::StopTimeToCollectionTimer.
StopTimeToCollectionTimer ==
  /\ pc[Main] = "safe" /\ task # "scope" /\ activeSafepointScopes = 1
  /\ timerStarted' = (timerStarted /\ ~collectionRequested)
  /\ Goto(Main, "collect")
  /\ UNCHANGED <<localHeapVars, listVars, barrierVars, clientsMutex,
                 collectionRequested, blockForCollection, collectionPerformed,
                 shutdownRequested, interrupt, asleep, historyVars>>

\* The collector runs; then the main thread's request flag is dropped.
CollectGarbage ==
  /\ pc[Main] = "collect"
  /\ SetState(Main, ClearCollectionRequested(state[Main]))
  /\ collected' = Background
  /\ Goto(Main, "resumeThreads")
  /\ UNCHANGED <<caller, sawCollection, task, listVars, barrierVars,
                 clientsMutex, collectionVars, interrupt, asleep, toldCollected>>

\* Mutant: the waiting threads are not notified.
ResumeSilently ==
  /\ pc[Main] = "resumeThreads"
  /\ collectionRequested' = FALSE
  /\ blockForCollection' = FALSE
  /\ collectionPerformed' = TRUE
  /\ Goto(Main, "leave")
  /\ UNCHANGED <<localHeapVars, listVars, barrierVars, clientsMutex,
                 timerStarted, shutdownRequested, interrupt, asleep, historyVars>>

ResumeThreadsAwaitingCollection ==
  /\ pc[Main] = "resumeThreads"
  /\ collectionRequested' = FALSE
  /\ blockForCollection' = FALSE
  /\ collectionPerformed' = TRUE
  /\ NotifyAll({"waiting"})
  /\ Goto(Main, "leave")
  /\ UNCHANGED <<localHeapVars, listVars, barrierVars, clientsMutex,
                 timerStarted, shutdownRequested, interrupt, historyVars>>

-----------------------------------------------------------------------------
(* CollectionBarrier: a background thread's failed allocation.             *)

\* TryRequestGC.  (It fails once shutdown is requested, and the caller goes
\* on without a collection.)
TryRequestGC(b) ==
  /\ pc[b] = "run" /\ ~shutdownRequested
  /\ collectionRequested' = TRUE
  /\ timerStarted' = (timerStarted \/ ~collectionRequested)
  /\ collected' = collected \ {b}
  /\ toldCollected' = toldCollected \ {b}
  /\ Goto(b, "requested")
  /\ UNCHANGED <<localHeapVars, listVars, barrierVars, clientsMutex,
                 blockForCollection, collectionPerformed, shutdownRequested,
                 interrupt, asleep>>

\* Mutant: the thread waits whether the main thread is running or not.
RequestAndAlwaysAwait(b) ==
  /\ pc[b] = "requested"
  /\ SetState(Main, SetCollectionRequested(state[Main]))
  /\ Goto(b, "await")
  /\ UNCHANGED <<caller, sawCollection, task, listVars, barrierVars,
                 clientsMutex, collectionVars, interrupt, asleep, historyVars>>

\* CollectGarbageFromAnyThread flags the main thread's state word and waits
\* only if that thread was running.
RequestCollection(b) ==
  /\ pc[b] = "requested"
  /\ SetState(Main, SetCollectionRequested(state[Main]))
  /\ Goto(b, IF IsRunning(state[Main]) THEN "await" ELSE "run")
  /\ UNCHANGED <<caller, sawCollection, task, listVars, barrierVars,
                 clientsMutex, collectionVars, interrupt, asleep, historyVars>>

\* AwaitCollectionBackground, first critical section.
AwaitCollection(b) ==
  /\ pc[b] = "await"
  /\ \/ /\ shutdownRequested \/ ~collectionRequested
        /\ Goto(b, "run")
        /\ UNCHANGED <<blockForCollection, caller>>
     \/ /\ ~shutdownRequested /\ collectionRequested
        /\ blockForCollection' = TRUE
        /\ Goto(b, IF blockForCollection THEN "park" ELSE "activate")
        /\ caller' = [caller EXCEPT ![b] = "await"]
  /\ UNCHANGED <<state, sawCollection, task, listVars, barrierVars,
                 clientsMutex, collectionRequested, collectionPerformed,
                 timerStarted, shutdownRequested, interrupt, asleep,
                 historyVars>>

ActivateStackGuardAndPostTask(b) ==
  /\ pc[b] = "activate"
  /\ interrupt' = TRUE
  /\ Goto(b, "park")
  /\ UNCHANGED <<localHeapVars, listVars, barrierVars, clientsMutex,
                 collectionVars, asleep, historyVars>>

\* AwaitCollectionBackground, the wait loop, parked.
WaitForCollection(b) ==
  /\ pc[b] = "waiting" /\ b \notin asleep
  /\ IF blockForCollection /\ ~shutdownRequested
       THEN /\ asleep' = asleep \union {b}
            /\ UNCHANGED <<pc, toldCollected>>
       ELSE /\ toldCollected' = IF ~blockForCollection /\ collectionPerformed
                                  THEN toldCollected \union {b}
                                  ELSE toldCollected
            /\ Goto(b, "unpark")
            /\ UNCHANGED asleep
  /\ UNCHANGED <<localHeapVars, listVars, barrierVars, clientsMutex,
                 collectionVars, interrupt, collected>>

\* The main thread handles the stack guard interrupt or runs the posted task:
\* HandleGCRequest, CheckCollectionRequested.
CheckCollectionRequested ==
  /\ pc[Main] = "run" /\ interrupt
  /\ interrupt' = FALSE
  /\ IF collectionRequested
       THEN /\ Goto(Main, "lockMutex")
            /\ task' = "gc"
       ELSE UNCHANGED <<pc, task>>
  /\ UNCHANGED <<state, caller, sawCollection, listVars, barrierVars,
                 clientsMutex, collectionVars, asleep, historyVars>>

-----------------------------------------------------------------------------
(* Isolate::Deinit: the main thread leaves the shared space's clients (it  *)
(* keeps clients_mutex_), then the heap's tear-down starts.                *)

Deinit ==
  /\ pc[Main] = "run"
  /\ IF SharedSpace
       THEN /\ Goto(Main, "park")
            /\ caller' = [caller EXCEPT ![Main] = "deinit"]
       ELSE /\ Goto(Main, "tearDown")
            /\ UNCHANGED caller
  /\ UNCHANGED <<state, sawCollection, task, listVars, barrierVars,
                 clientsMutex, collectionVars, interrupt, asleep, historyVars>>

LockClientsMutex ==
  /\ pc[Main] = "clientsBlocked" /\ clientsMutex = None
  /\ clientsMutex' = Main
  /\ Goto(Main, "unpark")
  /\ UNCHANGED <<localHeapVars, listVars, barrierVars, collectionVars,
                 interrupt, asleep, historyVars>>

\* Heap::StartTearDown, CollectionBarrier::NotifyShutdownRequested.
StartTearDown ==
  /\ pc[Main] = "tearDown"
  /\ timerStarted' = FALSE
  /\ shutdownRequested' = TRUE
  /\ NotifyAll({"waiting"})
  /\ Goto(Main, "dead")
  /\ UNCHANGED <<localHeapVars, listVars, barrierVars, clientsMutex,
                 collectionRequested, blockForCollection, collectionPerformed,
                 interrupt, historyVars>>

-----------------------------------------------------------------------------
\* Steps a thread has to take once it is where it is ...
ThreadStep(t) ==
  \/ Park(t) \/ ParkForSafepoint(t) \/ NotifyPark(t)
  \/ ParkWithCollectionRequested(t) \/ CancelCollectionAndResumeThreads(t)
  \/ Unpark(t) \/ WaitInUnpark(t) \/ UnparkWithCollectionRequested(t)
  \/ Safepoint(t) \/ SleepInSafepoint(t) \/ ReportInSafepoint(t)
  \/ WakeInSafepoint(t)

BackgroundStep(b) ==
  \/ AddLocalHeap(b) \/ RemoveLocalHeap(b) \/ RequestCollection(b)
  \/ AwaitCollection(b) \/ ActivateStackGuardAndPostTask(b)
  \/ WaitForCollection(b)

SafepointStep(p) ==
  \/ Arm(p) \/ WaitUntilRunningThreadsInSafepoint(p) \/ Disarm(p)
  \/ LeaveSafepointScope(p)
  \/ \E h \in Threads : SetSafepointRequestedFlag(p, h)
                          \/ ClearSafepointRequestedFlag(p, h)

MainStep ==
  \/ LockMutex \/ LockMutexBlocked \/ LeaveNestedScope \/ UnlockLocal
  \/ StopTimeToCollectionTimer \/ CollectGarbage
  \/ ResumeThreadsAwaitingCollection \/ CheckCollectionRequested
  \/ LockClientsMutex \/ StartTearDown

InitiatorStep == InitiateGlobalSafepointScope \/ UnlockGlobal

\* ... and steps it takes when the program using the heap wants it to.
Choice(t) == CallPark(t) \/ CallUnpark(t)
BackgroundChoice(b) == LockToAdd(b) \/ LockToRemove(b) \/ TryRequestGC(b)
MainChoice == OpenScope \/ EnterNestedScope \/ Deinit

Next ==
  \/ \E t \in Threads : ThreadStep(t) \/ Choice(t)
  \/ \E b \in Background : BackgroundStep(b) \/ BackgroundChoice(b)
  \/ \E p \in {Main, Initiator} : SafepointStep(p)
  \/ MainStep \/ MainChoice \/ InitiatorStep \/ EnterGlobalSafepointScope

Spec == Init /\ [][Next]_vars

-----------------------------------------------------------------------------
(* Safety.                                                                 *)

\* Each variable has the type of the field or local it stands for.
TypeOK ==
  /\ state \in [Threads -> SUBSET StateBits]
  /\ pc \in [Procs -> MainPcs \union BackgroundPcs \union InitiatorPcs]
  /\ pc[Main] \in MainPcs
  /\ \A b \in Background : pc[b] \in BackgroundPcs
  /\ pc[Initiator] \in InitiatorPcs
  /\ caller \in [Threads -> {"user", "lockMutex", "deinit", "await", "sleep"}]
  /\ sawCollection \in BOOLEAN
  /\ task \in {"gc", "gcInPark", "scope"}
  /\ localHeaps \in SUBSET Threads /\ Main \in localHeaps
  /\ localHeapsMutex \in Procs \union {None}
  /\ activeSafepointScopes \in 0..MaxScopes
  /\ armed \in BOOLEAN
  /\ stopped \in Nat /\ running \in Nat
  /\ todo \in SUBSET Threads
  /\ clientsMutex \in {None, Initiator, Main}
  /\ collectionRequested \in BOOLEAN /\ blockForCollection \in BOOLEAN
  /\ collectionPerformed \in BOOLEAN /\ timerStarted \in BOOLEAN
  /\ shutdownRequested \in BOOLEAN /\ interrupt \in BOOLEAN
  /\ asleep \in SUBSET Procs
  /\ collected \in SUBSET Background /\ toldCollected \in SUBSET Background

\* Program points at which a thread may touch the heap: it has returned from
\* Unpark() and not yet entered Park() or SleepInSafepoint().
AccessPcs == {"run", "requested", "await", "activate"}

\* While the owner of a safepoint scope relies on the world being stopped,
\* every LocalHeap the scope covers is parked and its thread is at no point
\* where it may touch the heap (EnterLocalSafepointScope, safepoint.cc:31).
WorldStopped ==
  \A p \in {Main, Initiator} :
    pc[p] \in StoppedPcs =>
      \A h \in Targets(p) : IsParked(state[h]) /\ pc[h] \notin AccessPcs

\* No CHECK or DCHECK of the safepoint protocol can fail: threads report only
\* to an armed barrier and never more often than they were counted, flags are
\* set once and cleared only on parked threads, scopes start from zero.
SafepointChecks ==
  /\ \A t \in Threads :
       /\ pc[t] \in NotifyPcs \union {"waitInSafepoint"} => armed
       /\ pc[t] \in {"parkSafepoint", "sleepInSafepoint"} =>
            /\ IsRunning(state[t]) /\ IsSafepointRequested(state[t])
            /\ IsCollectionRequested(state[t]) => t = Main
  /\ \A p \in {Main, Initiator} :
       /\ pc[p] = "arm" => ~armed /\ activeSafepointScopes = 0
       /\ pc[p] = "setFlags" =>
            /\ stopped <= running
            /\ \A h \in todo : /\ ~IsSafepointRequested(state[h])
                               /\ IsCollectionRequested(state[h]) => h = Main
       /\ pc[p] = "clearFlags" =>
            /\ armed
            /\ \A h \in todo : IsParked(state[h]) /\ IsSafepointRequested(state[h])
  /\ pc[Main] = "collect" => IsRunning(state[Main])

\* No CHECK or DCHECK on the time-to-collection timer can fail: a pending
\* request has the timer running until the collection, a cancellation or the
\* shutdown stops it (collection-barrier.cc:30, 64, 94, 128).
TimerChecks ==
  /\ pc[Main] = "safe" /\ task # "scope" /\ collectionRequested => timerStarted
  /\ pc[Main] = "resumeThreads" => ~timerStarted
  /\ \A b \in Background :
       /\ pc[b] = "await" /\ ~shutdownRequested /\ collectionRequested
            => timerStarted
       /\ pc[b] = "run" /\ ~shutdownRequested /\ ~collectionRequested
            => ~timerStarted

\* AwaitCollectionBackground "Returns whether a GC was performed": a thread it
\* told true asked for a collection that was then really done, however many
\* requests and cancellations of other threads came in between.
AwaitTrueMeansCollected == toldCollected \subseteq collected

\* block_for_collection_ is "Only set if the main thread was actually running"
\* (collection-barrier.h:64): no background thread has to wait for a main
\* thread that has parked itself for a blocking operation of its own.
NoWaitOnParkedMain == pc[Main] = "parked" => ~blockForCollection

-----------------------------------------------------------------------------
(* The inductive invariant behind WorldStopped and SafepointChecks.        *)

\* A thread at these points has its state word Running, at all others Parked.
RunningPcs == AccessPcs \union ParkPcs \union StoppedPcs \union
              {"sleepInSafepoint", "lockMutex", "arm", "setFlags",
               "clearFlags", "unlock", "tearDown", "dead"}

\* Parked, but the barrier has not yet been told.
ReportPcs == NotifyPcs \union {"waitInSafepoint"}

\* The barrier is armed while a scope is at these points.
ArmedPcs == StoppedPcs \union {"setFlags", "clearFlags"}

Scopers == {Main, Initiator}

HoldsMutex(p) ==
  \/ pc[p] \in ArmedPcs \union {"arm", "unlock", "adding", "removing"}
  \/ p = Main /\ pc[p] \in UnparkPcs /\ caller[p] = "lockMutex"

\* Threads counted by SetSafepointRequestedFlags that still owe a report.
Owing == {h \in Threads : /\ IsSafepointRequested(state[h])
                          /\ IsRunning(state[h]) \/ pc[h] \in ReportPcs}

CallerInv ==
  /\ caller[Main] # "await"
  /\ pc[Main] = "lockBlocked" => caller[Main] = "lockMutex"
  /\ pc[Main] = "clientsBlocked" => caller[Main] = "deinit"
  /\ \A b \in Background : caller[b] \in {"user", "await", "sleep"}

MutexInv == \A p \in Procs : localHeapsMutex = p <=> HoldsMutex(p)

ArmedInv ==
  /\ armed <=> \E p \in Scopers : pc[p] \in ArmedPcs
  /\ activeSafepointScopes # 0 =>
       \E p \in Scopers : pc[p] \in StoppedPcs \union {"setFlags"}

HeapsInv == \A b \in Background : b \in localHeaps <=> pc[b] \notin {"absent", "adding"}

StateInv ==
  /\ \A t \in Threads : IsRunning(state[t]) <=> pc[t] \in RunningPcs
  /\ \A b \in Background : ~IsCollectionRequested(state[b])

\* Which state words carry the safepoint bit.
FlagInv ==
  /\ ~armed => \A h \in Threads : ~IsSafepointRequested(state[h])
  /\ \A p \in Scopers :
       /\ pc[p] = "setFlags" =>
            /\ todo \subseteq Targets(p)
            /\ \A h \in Threads :
                 IsSafepointRequested(state[h]) <=> h \in Targets(p) \ todo
       /\ pc[p] \in StoppedPcs =>
            \A h \in Threads : IsSafepointRequested(state[h]) <=> h \in Targets(p)
       /\ pc[p] = "clearFlags" =>
            /\ todo \subseteq Targets(p)
            /\ \A h \in Threads : IsSafepointRequested(state[h]) <=> h \in todo

\* Who is about to report was asked to.
ReportInv ==
  \A t \in Threads : pc[t] \in ReportPcs \union {"parkSafepoint", "sleepInSafepoint"}
                       => IsSafepointRequested(state[t])

\* The count the owner waits for is what was reported plus what is owed.
CountInv ==
  \A p \in Scopers :
    /\ pc[p] = "setFlags" => running = stopped + Cardinality(Owing)
    /\ pc[p] \in StoppedPcs \union {"clearFlags"} => Owing = {}

\* The conjunction that every step of the protocol preserves.
SafepointInv ==
  /\ TypeOK /\ CallerInv /\ MutexInv /\ ArmedInv /\ HeapsInv
  /\ StateInv /\ FlagInv /\ ReportInv /\ CountInv

-----------------------------------------------------------------------------
(* Liveness.                                                               *)

\* A thread inside one of these operations keeps executing it, and running
\* code polls: JS code checks the stack guard at loop back-edges and calls,
\* background code calls LocalHeap::Safepoint() regularly.  A thread blocked
\* on a mutex that is released again and again gets it.  Nothing makes a
\* thread open a scope, park, unpark, allocate, start or end.
Fairness ==
  /\ \A t \in Threads : WF_vars(ThreadStep(t)) /\ SF_vars(Safepoint(t))
  /\ \A b \in Background : WF_vars(BackgroundStep(b))
  /\ \A p \in {Main, Initiator} : WF_vars(SafepointStep(p))
  /\ WF_vars(MainStep) /\ WF_vars(InitiatorStep)
  /\ SF_vars(LockMutexBlocked) /\ SF_vars(LockClientsMutex)
  /\ SF_vars(InitiateGlobalSafepointScope)

FairSpec == Spec /\ Fairness

\* A thread that went to sleep for a collection is woken again, by the
\* collection, by its cancellation or by the shutdown, even if the main thread
\* parks and never unparks (AwaitCollectionBackground).
CollectionWaitersWoken ==
  \A b \in Background :
    (pc[b] = "waiting" /\ b \in asleep) ~> ~(pc[b] = "waiting" /\ b \in asleep)

\* A safepoint that was started is reached, for every running thread that the
\* barrier counts does report (WaitUntilRunningThreadsInSafepoint), and the
\* threads that it holds are released again although scopes may follow each
\* other closely (Disarm, WaitInSafepoint, WaitInUnpark).
SafepointReached ==
  /\ \A p \in {Main, Initiator} : pc[p] = "setFlags" ~> pc[p] = "safe"
  /\ \A t \in Threads :
       (pc[t] \in {"inSafepoint", "sleepInUnpark"} /\ t \in asleep)
         ~> t \notin asleep

\* Two isolates do not wait for each other.  One that has taken clients_mutex_
\* gets its global safepoint: the main thread, which may at that time want the
\* same mutexes for a scope of its own or for Deinit, parks before it blocks
\* for one (LockMutex).  And a main thread that leaves the shared space gets
\* clients_mutex_ although others go on opening global safepoints, and tears
\* down (Isolate::Deinit).
IsolatesDoNotDeadlock ==
  /\ pc[Initiator] = "lockMutex" ~> pc[Initiator] = "safe"
  /\ pc[Main] = "clientsBlocked" ~> pc[Main] = "dead"

-----------------------------------------------------------------------------
(* Refinement.                                                             *)

\* The process for which the world is stopped.
Stopper == IF pc[Main] \in StoppedPcs THEN Main
           ELSE IF pc[Initiator] \in StoppedPcs THEN Initiator
           ELSE None

StopTheWorldSpec ==
  INSTANCE StopTheWorld WITH
    Mutators <- Threads, Stoppers <- {Main, Initiator}, None <- None,
    access <- {t \in localHeaps : IsRunning(state[t])}, stopper <- Stopper

\* The flags, counters, mutexes and condition variables implement the abstract
\* stop-the-world: a thread's state word turns to Running only while nobody
\* has the world stopped, and a scope is entered only when no other LocalHeap
\* is running (safepoint.cc:31, local-heap.cc:219).
ImplementsStopTheWorld == StopTheWorldSpec!Spec
====

--------------------------- MODULE FutexEmulation ---------------------------
(***************************************************************************)
(* FutexEmulation (execution/futex-emulation): Atomics.wait, waitAsync and *)
(* notify on one location of a shared buffer, with the interrupts of       *)
(* StackGuard, the tasks of the foreground thread and the tear down of an  *)
(* isolate.                                                                *)
(*                                                                         *)
(* An isolate names its main thread and its node for synchronous waits; an *)
(* asynchronous node is allocated for each waitAsync.  Every critical      *)
(* section of g_mutex is one step.  A waitAsync that finds another value,  *)
(* or a timeout of zero, changes nothing and is left out.                  *)
(***************************************************************************)
EXTENDS Integers, Sequences, FiniteSets

CONSTANTS
  Isolates,
  AsyncNodes,
  IsolateOf,       \* isolate_for_async_waiters_ of each asynchronous node
  WakeCounts,      \* the counts that notify is called with
  MaxEvents        \* bound: see Events

ASSUME NodesAssumption ==
  /\ Isolates \cap AsyncNodes = {}
  /\ IsolateOf \in [AsyncNodes -> Isolates]
  /\ IsFiniteSet(Isolates) /\ IsFiniteSet(AsyncNodes)
ASSUME NumbersAssumption ==
  /\ WakeCounts \subseteq Nat /\ MaxEvents \in Nat

Nodes == Isolates \cup AsyncNodes

VARIABLES
  list,         \* the location's list of nodes
  to_resolve,   \* isolate_promises_to_resolve_
  waiting,      \* nodes with waiting_
  interrupted,  \* synchronous nodes with interrupted_
  flags,        \* interrupt_flags_ of each isolate's StackGuard
  notifying,    \* calls of NotifyWake that are about to lock g_mutex
  stopped,      \* isolates whose AtomicsWaitWakeHandle has been used
  signaled,     \* isolates whose cond_ has been notified
  requests,     \* interrupts and stops so far
  pc,           \* pc[i]: where the main thread of i is
  timed,        \* isolates whose current wait has a timeout
  result,       \* result[i]: what the last wait returned
  current,      \* current[i]: nodes that i's task works on, off all lists
  state,        \* state[n]: "none", "live" or "deleted"
  timer,        \* timer[n]: the AsyncWaiterTimeoutTask of n
  timer_id,     \* nodes with a valid timeout_task_id_
  timeouts,     \* nodes with a non-zero async_timeout_time_
  resolver,     \* isolates with a ResolveAsyncWaiterPromisesTask posted
  store_of,     \* store_of[n]: the backing store of n
  store,        \* the backing store that has the location now
  no_context,   \* nodes whose native context has been collected
  promise,      \* promise[n]: what the promise of n was resolved with
  counted       \* nodes that a notify has counted as woken

lists == <<list, to_resolve, waiting>>
requesting == <<flags, notifying, stopped, requests>>
sync == <<timed, result>>
async == <<current, state, timer, timer_id, timeouts, resolver, promise>>
stores == <<store_of, store, no_context>>
vars == <<lists, interrupted, requesting, signaled, pc, sync, async, stores, counted>>

InWait == {"interrupts", "relock", "asleep", "terminated"}

TypeOK ==
  /\ list \in Seq(Nodes)
  /\ to_resolve \in [Isolates -> Seq(AsyncNodes)]
  /\ waiting \subseteq Nodes
  /\ interrupted \subseteq Isolates
  /\ flags \in [Isolates -> SUBSET {"terminate", "other"}]
  /\ notifying \in [Isolates -> SUBSET {"interrupt", "stop"}]
  /\ stopped \subseteq Isolates /\ signaled \subseteq Isolates
  /\ timed \subseteq Isolates
  /\ requests \in 0..MaxEvents
  /\ pc \in [Isolates -> InWait \cup
               {"idle", "start", "resolve", "timeout", "timeout_resolve", "deinit", "dead"}]
  /\ result \in [Isolates -> {"none", "ok", "timed-out", "exception"}]
  /\ current \in [Isolates -> Seq(AsyncNodes)]
  /\ state \in [AsyncNodes -> {"none", "live", "deleted"}]
  /\ timer \in [AsyncNodes -> {"none", "posted", "running", "gone"}]
  /\ timer_id \subseteq AsyncNodes /\ timeouts \subseteq AsyncNodes
  /\ resolver \subseteq Isolates
  /\ store_of \in [AsyncNodes -> Nat] /\ store \in Nat
  /\ no_context \subseteq AsyncNodes
  /\ promise \in [AsyncNodes -> {"none", "ok", "timed-out"}]
  /\ counted \subseteq Nodes

Init ==
  /\ list = <<>> /\ to_resolve = [i \in Isolates |-> <<>>]
  /\ waiting = {} /\ interrupted = {}
  /\ flags = [i \in Isolates |-> {}] /\ notifying = [i \in Isolates |-> {}]
  /\ stopped = {} /\ signaled = {} /\ requests = 0
  /\ pc = [i \in Isolates |-> "idle"] /\ timed = {}
  /\ result = [i \in Isolates |-> "none"]
  /\ current = [i \in Isolates |-> <<>>]
  /\ state = [n \in AsyncNodes |-> "none"]
  /\ timer = [n \in AsyncNodes |-> "none"]
  /\ timer_id = {} /\ timeouts = {} /\ resolver = {}
  /\ store_of = [n \in AsyncNodes |-> 0] /\ store = 0 /\ no_context = {}
  /\ promise = [n \in AsyncNodes |-> "none"]
  /\ counted = {}

At(i, where) == pc[i] = where
GoTo(i, where) == pc' = [pc EXCEPT ![i] = where]
Members(seq) == {seq[k] : k \in DOMAIN seq}
Kept(seq, set) == {k \in DOMAIN seq : seq[k] \in set}
Rank(seq, set, k) == Cardinality({j \in Kept(seq, set) : j <= k})
\* The elements of seq that are in set, or are not, in their order.
Only(seq, set) ==
  [r \in 1..Cardinality(Kept(seq, set)) |->
     seq[CHOOSE k \in Kept(seq, set) : Rank(seq, set, k) = r]]
Without(seq, set) == Only(seq, Members(seq) \ set)
AsyncOf(i) == {n \in AsyncNodes : IsolateOf[n] = i}

\* What is bounded: asynchronous waits begun, interrupts and stops requested,
\* and backing stores collected, all together.
Events == Cardinality({n \in AsyncNodes : state[n] # "none"}) + requests + store

(***************************************************************************)
(* Interrupts.  RequestInterrupt keeps ExecutionAccess until NotifyWake    *)
(* has returned, and FetchAndClearInterrupts takes it, too.                *)
(***************************************************************************)
RequestInterrupt(i, flag) ==
  /\ pc[i] \notin {"deinit", "dead"} /\ Events < MaxEvents
  /\ "interrupt" \notin notifying[i]
  /\ flags' = [flags EXCEPT ![i] = @ \cup {flag}]
  /\ notifying' = [notifying EXCEPT ![i] = @ \cup {"interrupt"}]
  /\ requests' = requests + 1
  /\ UNCHANGED <<lists, interrupted, stopped, signaled, pc, sync, async, stores, counted>>

\* AtomicsWaitWakeHandle::Wake, by an embedder that was given the handle: it may
\* come before the thread has locked g_mutex for the first time.
StopWait(i) ==
  /\ pc[i] \in InWait \cup {"start"} /\ Events < MaxEvents /\ "stop" \notin notifying[i]
  /\ stopped' = stopped \cup {i}
  /\ notifying' = [notifying EXCEPT ![i] = @ \cup {"stop"}]
  /\ requests' = requests + 1
  /\ UNCHANGED <<lists, interrupted, flags, signaled, pc, sync, async, stores, counted>>

NotifyWake(i, what) ==
  /\ what \in notifying[i]
  /\ notifying' = [notifying EXCEPT ![i] = @ \ {what}]
  /\ signaled' = IF At(i, "asleep") THEN signaled \cup {i} ELSE signaled
  /\ interrupted' = interrupted \cup {i}
  /\ UNCHANGED <<lists, flags, stopped, requests, pc, sync, async, stores, counted>>

\* FetchAndClearInterrupts: a termination is fetched alone.
FetchAndClear(i) ==
  /\ "interrupt" \notin notifying[i]
  /\ flags' = [flags EXCEPT ![i] =
                 IF "terminate" \in @ THEN @ \ {"terminate"} ELSE {}]

\* A stack check outside of a wait.
HandleInterrupts(i) ==
  /\ At(i, "idle") /\ flags[i] # {}
  /\ FetchAndClear(i)
  /\ UNCHANGED <<lists, interrupted, notifying, stopped, requests, signaled, pc,
                 sync, async, stores, counted>>

(***************************************************************************)
(* WaitSync.                                                               *)
(***************************************************************************)
\* The handle to stop the wait is made and given to the AtomicsWaitCallback.
StartWait(i) ==
  /\ At(i, "idle")
  /\ GoTo(i, "start")
  /\ stopped' = stopped \ {i} /\ counted' = counted \ {i}
  /\ result' = [result EXCEPT ![i] = "none"]
  /\ UNCHANGED <<lists, interrupted, flags, notifying, requests, signaled, timed, async,
                 stores>>

\* The callback has thrown an exception, or the location has another value.
DoNotWait(i) ==
  /\ At(i, "start")
  /\ GoTo(i, "idle")
  /\ stopped' = stopped \ {i}
  /\ UNCHANGED <<lists, interrupted, flags, notifying, requests, signaled, sync, async,
                 stores, counted>>

\* The top of the loop, with the mutex: the flag is read and reset.
LoopTop(i) ==
  /\ GoTo(i, IF i \in interrupted THEN "interrupts" ELSE "relock")
  /\ interrupted' = interrupted \ {i}

\* From the lock to the first time that the loop unlocks.
WaitSync(i, use_timeout) ==
  /\ At(i, "start")
  /\ waiting' = waiting \cup {i}
  /\ list' = Append(list, i)
  /\ timed' = IF use_timeout THEN timed \cup {i} ELSE timed \ {i}
  /\ LoopTop(i)
  /\ UNCHANGED <<to_resolve, requesting, signaled, result, async, stores, counted>>

WaitHandlesInterrupts(i) ==
  /\ At(i, "interrupts")
  /\ FetchAndClear(i)
  /\ GoTo(i, IF "terminate" \in flags[i] THEN "terminated" ELSE "relock")
  /\ UNCHANGED <<lists, interrupted, notifying, stopped, requests, signaled,
                 sync, async, stores, counted>>

\* The wait is over: the node leaves the list and waiting_ is reset.
Return(i, value) ==
  /\ waiting' = waiting \ {i}
  /\ list' = Without(list, {i})
  /\ result' = [result EXCEPT ![i] = value]
  /\ GoTo(i, "idle")
  /\ timed' = timed \ {i}
  /\ UNCHANGED <<to_resolve, interrupted, signaled>>

Sleep(i) ==
  /\ GoTo(i, "asleep")
  /\ signaled' = signaled \ {i}
  /\ UNCHANGED <<lists, interrupted, sync>>

\* Mutant of Relock: the timeout is looked at first.
RelockTimeoutFirst(i) ==
  /\ At(i, "relock")
  /\ \/ i \in timed /\ Return(i, "timed-out")
     \/ IF i \in interrupted
        THEN LoopTop(i) /\ UNCHANGED <<lists, signaled, sync>>
        ELSE IF i \in stopped \/ i \notin waiting THEN Return(i, "ok")
        ELSE Sleep(i)
  /\ UNCHANGED <<requesting, async, stores, counted>>

\* Mutant of Relock: interrupted_ is not looked at again with the mutex held.
RelockAndSleep(i) ==
  /\ At(i, "relock")
  /\ IF i \in stopped \/ i \notin waiting THEN Return(i, "ok")
     ELSE \/ i \in timed /\ Return(i, "timed-out")
          \/ Sleep(i)
  /\ UNCHANGED <<requesting, async, stores, counted>>

\* With the mutex again: an interrupt, a stop, a notify or a timeout may have
\* come while it was unlocked.
Relock(i) ==
  /\ At(i, "relock")
  /\ IF i \in interrupted
     THEN LoopTop(i) /\ UNCHANGED <<lists, signaled, sync>>
     ELSE IF i \in stopped \/ i \notin waiting THEN Return(i, "ok")
     ELSE \/ i \in timed /\ Return(i, "timed-out")
          \/ Sleep(i)
  /\ UNCHANGED <<requesting, async, stores, counted>>

\* Wait or WaitFor on cond_ returns: notified, timed out, or spuriously.
WakeUp(i) ==
  /\ At(i, "asleep")
  /\ signaled' = signaled \ {i}
  /\ LoopTop(i)
  /\ UNCHANGED <<lists, requesting, sync, async, stores, counted>>

ReturnException(i) ==
  /\ At(i, "terminated")
  /\ Return(i, "exception")
  /\ UNCHANGED <<requesting, async, stores, counted>>

(***************************************************************************)
(* WaitAsync and its two tasks.                                            *)
(***************************************************************************)
WaitAsync(n, use_timeout) ==
  /\ At(IsolateOf[n], "idle") /\ state[n] = "none" /\ Events < MaxEvents
  /\ state' = [state EXCEPT ![n] = "live"]
  /\ waiting' = waiting \cup {n}
  /\ list' = Append(list, n)
  /\ store_of' = [store_of EXCEPT ![n] = store]
  /\ IF use_timeout
     THEN /\ timer' = [timer EXCEPT ![n] = "posted"]
          /\ timer_id' = timer_id \cup {n}
          /\ timeouts' = timeouts \cup {n}
     ELSE UNCHANGED <<timer, timer_id, timeouts>>
  /\ UNCHANGED <<to_resolve, interrupted, requesting, signaled, pc, sync, current,
                 resolver, promise, store, no_context, counted>>

\* CancelTimeoutTask of each of the given nodes: TryAbort stops a task that
\* has not started; the id is forgotten in any case.
CancelTimeoutTask(set) ==
  /\ timer_id' = timer_id \ set
  /\ timer' = [n \in AsyncNodes |->
                 IF n \in set \cap timer_id /\ timer[n] = "posted"
                 THEN "gone" ELSE timer[n]]
CancelFails(n) == n \in timer_id /\ timer[n] = "running"

\* ResolveAsyncWaiterPromise and CleanupAsyncWaiterPromise.
ResolvePromise(n) ==
  promise' = IF n \in no_context THEN promise
             ELSE [promise EXCEPT ![n] = IF n \in timeouts THEN "timed-out" ELSE "ok"]

\* ResolveAsyncWaiterPromisesTask takes the list of its isolate.
ResolveAsyncWaiterPromises(i) ==
  /\ At(i, "idle") /\ i \in resolver
  /\ resolver' = resolver \ {i}
  /\ current' = [current EXCEPT ![i] = to_resolve[i]]
  /\ to_resolve' = [to_resolve EXCEPT ![i] = <<>>]
  /\ GoTo(i, "resolve")
  /\ UNCHANGED <<list, waiting, interrupted, requesting, signaled, sync, state, timer,
                 timer_id, timeouts, promise, stores, counted>>

\* One node, without the mutex.
ResolveAsyncWaiterPromise(i) ==
  LET n == Head(current[i]) IN
  /\ At(i, "resolve") /\ current[i] # <<>>
  /\ CancelTimeoutTask({n})
  /\ ResolvePromise(n)
  /\ state' = [state EXCEPT ![n] = "deleted"]
  /\ current' = [current EXCEPT ![i] = Tail(@)]
  /\ GoTo(i, IF Len(current[i]) = 1 THEN "idle" ELSE "resolve")
  /\ UNCHANGED <<lists, interrupted, requesting, signaled, sync, timeouts, resolver,
                 stores, counted>>

\* AsyncWaiterTimeoutTask begins to run.
StartTimeoutTask(n) ==
  /\ At(IsolateOf[n], "idle") /\ timer[n] = "posted"
  /\ timer' = [timer EXCEPT ![n] = "running"]
  /\ current' = [current EXCEPT ![IsolateOf[n]] = <<n>>]
  /\ GoTo(IsolateOf[n], "timeout")
  /\ UNCHANGED <<lists, interrupted, requesting, signaled, sync, state, timer_id,
                 timeouts, resolver, promise, stores, counted>>

\* Mutant of HandleAsyncWaiterTimeout: does not look at waiting_.
TimeoutAlways(i) ==
  LET n == current[i][1] IN
  /\ At(i, "timeout")
  /\ timer_id' = timer_id \ {n}
  /\ list' = Without(list, {n})
  /\ GoTo(i, "timeout_resolve")
  /\ UNCHANGED <<current, timer, to_resolve, waiting, interrupted, requesting,
                 signaled, sync, state, timeouts, resolver, promise, stores, counted>>

\* HandleAsyncWaiterTimeout up to the unlock: a node that has been notified is
\* left to the other task.  What the task reads of a node that has been deleted
\* (see TimeoutTaskHasNode: its buffer is gone) is not defined.
HandleAsyncWaiterTimeout(i) ==
  LET n == current[i][1] IN
  /\ At(i, "timeout")
  /\ timer_id' = timer_id \ {n}
  /\ \E waiting_ \in IF state[n] = "live" THEN {n \in waiting} ELSE BOOLEAN :
     IF waiting_
     THEN /\ list' = Without(list, {n})
          /\ GoTo(i, "timeout_resolve")
          /\ UNCHANGED <<current, timer>>
     ELSE /\ current' = [current EXCEPT ![i] = <<>>]
          /\ timer' = [timer EXCEPT ![n] = "gone"]
          /\ GoTo(i, "idle")
          /\ UNCHANGED list
  /\ UNCHANGED <<to_resolve, waiting, interrupted, requesting, signaled, sync, state,
                 timeouts, resolver, promise, stores, counted>>

\* The rest: the node is on no list any more.
ResolveTimedOut(i) ==
  LET n == current[i][1] IN
  /\ At(i, "timeout_resolve")
  /\ ResolvePromise(n)
  /\ state' = [state EXCEPT ![n] = "deleted"]
  /\ waiting' = waiting \ {n}
  /\ timer' = [timer EXCEPT ![n] = "gone"]
  /\ current' = [current EXCEPT ![i] = <<>>]
  /\ GoTo(i, "idle")
  /\ UNCHANGED <<list, to_resolve, interrupted, requesting, signaled, sync, timer_id,
                 timeouts, resolver, stores, counted>>

(***************************************************************************)
(* Wake.                                                                   *)
(***************************************************************************)
StoreOf(n) == IF n \in AsyncNodes THEN store_of[n] ELSE store
Wakeable(n) == n \in waiting /\ StoreOf(n) = store

WakeableBefore(k) == Cardinality({j \in 1..(k - 1) : Wakeable(list[j])})

\* Mutant of NotifyAsyncWaiters: no task is posted.
NotifyWithoutTask(set) ==
  /\ timeouts' = timeouts \ set
  /\ to_resolve' = [i \in Isolates |->
       to_resolve[i] \o Only(list, set \cap AsyncOf(i))]
  /\ UNCHANGED resolver

\* NotifyAsyncWaiter for each of the given nodes, in the order of the list.
\* A task is posted for an isolate that had nothing to resolve.
NotifyAsyncWaiters(set) ==
  /\ timeouts' = timeouts \ set
  /\ to_resolve' = [i \in Isolates |->
       to_resolve[i] \o Only(list, set \cap AsyncOf(i))]
  /\ resolver' = resolver \cup
       {i \in Isolates : to_resolve[i] = <<>> /\ set \cap AsyncOf(i) # {}}

\* The first count nodes that wait with the caller's backing store are woken;
\* on the way, nodes that nobody can wake any more are cleaned up.
Wake(count) ==
  LET visited == {list[k] : k \in {j \in DOMAIN list : WakeableBefore(j) < count}}
      woken == {n \in visited : Wakeable(n)}
      stale == {n \in visited : n \in waiting /\ ~Wakeable(n)}
      dropped == {n \in stale : n \notin timeouts}
                   \cup {n \in stale \cap no_context : ~CancelFails(n)} IN
  /\ waiting' = waiting \ (woken \cup dropped)
  /\ list' = Without(list, (woken \cap AsyncNodes) \cup dropped)
  /\ signaled' = signaled \cup {i \in woken \cap Isolates : pc[i] = "asleep"}
  /\ counted' = counted \cup woken
  /\ CancelTimeoutTask(stale \cap no_context)
  /\ state' = [n \in AsyncNodes |-> IF n \in dropped THEN "deleted" ELSE state[n]]
  /\ NotifyAsyncWaiters(woken \cap AsyncNodes)
  /\ UNCHANGED <<interrupted, requesting, pc, sync, current, promise, stores>>

(***************************************************************************)
(* The environment, and the end of an isolate.                             *)
(***************************************************************************)
\* The buffer is collected when no thread is in a wait on it, and another one
\* gets the same memory.
ReplaceBackingStore ==
  /\ Events < MaxEvents
  /\ \A i \in Isolates : pc[i] \notin InWait \cup {"start"}
  /\ store' = store + 1
  /\ UNCHANGED <<lists, interrupted, requesting, signaled, pc, sync, async, store_of,
                 no_context, counted>>

\* A garbage collection of the isolate clears the weak handles of the node.  It
\* comes at any time but in a critical section (NoGarbageCollectionMutexGuard).
CollectContext(n) ==
  /\ state[n] = "live" /\ n \notin no_context
  /\ no_context' = no_context \cup {n}
  /\ UNCHANGED <<lists, interrupted, requesting, signaled, pc, sync, async, store_of,
                 store, counted>>

IsolateDeinit(i) ==
  LET nodes == AsyncOf(i) \cap (Members(list) \cup Members(to_resolve[i])) IN
  /\ At(i, "idle") /\ notifying[i] = {}
  /\ list' = Without(list, nodes)
  /\ to_resolve' = [to_resolve EXCEPT ![i] = <<>>]
  /\ waiting' = waiting \ nodes
  /\ timer_id' = timer_id \ nodes
  /\ state' = [n \in AsyncNodes |-> IF n \in nodes THEN "deleted" ELSE state[n]]
  /\ GoTo(i, "deinit")
  /\ UNCHANGED <<interrupted, requesting, signaled, sync, current, timer, timeouts,
                 resolver, promise, stores, counted>>

\* CancelableTaskManager::CancelAndWait: none of the tasks is running.
CancelTasks(i) ==
  /\ At(i, "deinit")
  /\ timer' = [n \in AsyncNodes |-> IF n \in AsyncOf(i) THEN "gone" ELSE timer[n]]
  /\ resolver' = resolver \ {i}
  /\ GoTo(i, "dead")
  /\ UNCHANGED <<lists, interrupted, requesting, signaled, sync, current, state,
                 timer_id, timeouts, promise, stores, counted>>

(***************************************************************************)
(* The specification.                                                      *)
(***************************************************************************)
StartStep(i) == DoNotWait(i) \/ WaitSync(i, TRUE) \/ WaitSync(i, FALSE)
WaitStep(i) == WaitHandlesInterrupts(i) \/ Relock(i) \/ ReturnException(i)
TaskStep(i) ==
  \/ ResolveAsyncWaiterPromise(i) \/ HandleAsyncWaiterTimeout(i) \/ ResolveTimedOut(i)

Next ==
  \/ \E i \in Isolates :
       \/ \E flag \in {"terminate", "other"} : RequestInterrupt(i, flag)
       \/ StopWait(i)
       \/ \E what \in {"interrupt", "stop"} : NotifyWake(i, what)
       \/ HandleInterrupts(i)
       \/ StartWait(i) \/ StartStep(i) \/ WaitStep(i) \/ WakeUp(i)
       \/ ResolveAsyncWaiterPromises(i) \/ TaskStep(i)
       \/ IsolateDeinit(i) \/ CancelTasks(i)
  \/ \E n \in AsyncNodes :
       \/ WaitAsync(n, TRUE) \/ WaitAsync(n, FALSE)
       \/ StartTimeoutTask(n) \/ CollectContext(n)
  \/ \E count \in WakeCounts : Wake(count)
  \/ ReplaceBackingStore

\* In an isolate with asynchronous waiters, a task that has begun goes on, as does
\* a wait whose callback is called, and when the isolate is idle again and again it
\* runs the tasks that were posted to it.
Fairness ==
  /\ \A i \in {IsolateOf[n] : n \in AsyncNodes} :
       WF_vars(StartStep(i) \/ TaskStep(i)) /\ SF_vars(ResolveAsyncWaiterPromises(i))
  /\ \A n \in AsyncNodes : SF_vars(StartTimeoutTask(n))

Spec == Init /\ [][Next]_vars
FairSpec == Spec /\ Fairness

-----------------------------------------------------------------------------
(***************************************************************************)
(* Properties.                                                             *)
(***************************************************************************)
\* Every node is on one list at most, and a node that is on a list, or in the
\* hands of a task, has not been deleted (FutexWaitList::Verify, RemoveNode).
\* A synchronous node is on the list exactly while its thread is in the wait.
ListsInv ==
  LET places(n) ==
        Cardinality({k \in DOMAIN list : list[k] = n})
        + Cardinality({p \in Isolates \X (1..Cardinality(AsyncNodes)) :
             p[2] \in DOMAIN to_resolve[p[1]] /\ to_resolve[p[1]][p[2]] = n}) IN
  /\ \A n \in Nodes : places(n) <= 1
  /\ \A n \in AsyncNodes : places(n) = 1 => state[n] = "live"
  /\ \A i \in Isolates : (pc[i] \in InWait) <=> (i \in Members(list))

\* Waiters are woken in the order in which they came: nobody that still waits
\* is in front of one that has been woken.
WokenInOrder ==
  \A j, k \in DOMAIN list :
    j < k /\ StoreOf(list[j]) = store /\ list[k] \notin waiting => list[j] \notin waiting

\* ResolveAsyncWaiterPromises finds the list that it was posted for, and no
\* list is left without a task (DCHECK_NE(isolate_map.end(), it)).
ResolverHasWork ==
  \A i \in Isolates :
    pc[i] \notin {"deinit", "dead"} => (i \in resolver <=> to_resolve[i] # <<>>)

\* The DCHECKs of ResolveAsyncWaiterPromise(s): the nodes are not waiting, the
\* timeout task is not running, and async_timeout_time_ tells the two apart.
\* It holds of nodes whose buffer is still there, as does the next one.
ResolveChecks ==
  \A i \in Isolates :
    /\ At(i, "resolve") => \A n \in Members(current[i]) : store_of[n] = store =>
         n \notin waiting /\ n \notin timeouts /\ ~CancelFails(n) /\ state[n] = "live"
    /\ At(i, "timeout_resolve") /\ store_of[current[i][1]] = store =>
         current[i][1] \in waiting \cap timeouts

\* "The timeout task is already running and will clean up the node": the node
\* that the task was made for is there when the task gets the mutex.
TimeoutTaskHasNode ==
  \A i \in Isolates :
    pc[i] \in {"timeout", "timeout_resolve"} /\ store_of[current[i][1]] = store =>
      state[current[i][1]] = "live"

\* When the tasks of an isolate are canceled, nothing refers to its nodes: no
\* notify of another isolate can come to its task manager.
DeadIsolateHasNoNodes ==
  \A i \in Isolates : pc[i] \in {"deinit", "dead"} =>
    \A n \in AsyncOf(i) :
      state[n] # "live" /\ n \notin Members(list) \cup Members(to_resolve[i])

\* The integrity of the lists: notify, the timeout task, the resolving task and
\* the end of an isolate hand each node on to one another, so that it is never
\* in two places, never used after it was deleted while its buffer lives, and
\* never left behind; and notify wakes in the order of arrival.
FutexInv ==
  /\ TypeOK /\ ListsInv /\ WokenInOrder /\ ResolverHasWork
  /\ ResolveChecks /\ TimeoutTaskHasNode /\ DeadIsolateHasNoNodes

\* A waiter that notify has counted does not report a timeout, and one that
\* reports that it was woken has been counted or stopped through its handle.
CountedAreWoken ==
  /\ \A i \in Isolates :
       /\ result[i] = "timed-out" => i \notin counted
       /\ result[i] = "ok" => i \in counted \cup stopped
  /\ \A n \in AsyncNodes :
       /\ promise[n] = "timed-out" => n \notin counted
       /\ promise[n] = "ok" => n \in counted

\* "We have to be careful about not dropping an interrupt": a thread does not
\* sleep in a wait with a termination or a stop requested, unless the one who
\* requested it is still about to notify or the notification is on its way.
InterruptsNotDropped ==
  \A i \in Isolates :
    At(i, "asleep") /\ ("terminate" \in flags[i] \/ i \in stopped) =>
      notifying[i] # {} \/ i \in signaled

\* The promise of a waiter that was notified, or had a timeout, is resolved,
\* unless its isolate ends, its context is gone, or its thread sits in a
\* synchronous wait, again and again, and never comes to its tasks.
PromiseIsResolved ==
  \A n \in AsyncNodes :
    state[n] = "live" /\ (n \in counted \/ n \in timeouts)
      ~> \/ promise[n] # "none" \/ n \in no_context
         \/ pc[IsolateOf[n]] \in InWait \cup {"deinit", "dead"}
=============================================================================

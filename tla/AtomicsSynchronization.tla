----------------------- MODULE AtomicsSynchronization -----------------------
(***************************************************************************)
(* JSAtomicsMutex and JSAtomicsCondition (objects/js-atomics-              *)
(* synchronization): one shared mutex and one shared condition variable,   *)
(* used by the main threads of several isolates through the builtins.      *)
(*                                                                         *)
(* The state word of the mutex is (locked, queue_locked, queue), that of   *)
(* the condition (cv_queue_locked, cv_queue).  Every access to a state     *)
(* word or to the owner is one step; between taking a queue lock and the   *)
(* store that releases it only the list is changed, which is done with the *)
(* store.  A weak CAS may fail spuriously, a strong one may not.           *)
(***************************************************************************)
EXTENDS Integers, Sequences

CONSTANTS
  Threads,
  NoThread,      \* ThreadId::Invalid()
  NotifyCounts,  \* the counts that Condition.notify is called with
  kAllWaiters,
  TimedWaits     \* may Condition.wait be given a timeout?

ASSUME ThreadsAssumption == NoThread \notin Threads
ASSUME CountsAssumption ==
  /\ kAllWaiters \in Nat \ {0, 1} /\ NotifyCounts \subseteq 0..kAllWaiters
  /\ TimedWaits \in BOOLEAN

\* In a batch: a pointer to the node of a WaitFor that has returned.
Destroyed == NoThread

VARIABLES
  locked, queue_locked,
  queue,            \* waiters for the mutex, head first
  owner,            \* owner_thread_id
  cv_queue_locked,
  cv_queue,         \* waiters for the condition, head first
  should_wait,      \* threads whose WaiterQueueNode in LockSlowPath has it set
  cv_should_wait,   \* the same for the node in JSAtomicsCondition::WaitFor
  count,            \* count[t]: the argument of t's call of Notify
  call,             \* call[t]: "lock", or the WaitFor that t is in
  batch,            \* batch[t]: nodes that t has dequeued and not notified yet
  pc

mutex == <<locked, queue_locked, queue, should_wait>>
condition == <<cv_queue_locked, cv_queue, cv_should_wait>>
calls == <<call, count>>
vars == <<mutex, owner, condition, calls, batch, pc>>

States == {"idle", "slow", "enqueue", "sleep", "own", "cs", "unlock",
           "unlock_slow", "dequeue", "notify", "cv_lock", "cv_enqueue",
           "cv_unlock", "cv_sleep", "cv_timeout", "cv_remove", "relock",
           "cv_notify", "cv_dequeue", "cv_wake", "hung", "undefined"}

TypeOK ==
  /\ locked \in BOOLEAN /\ queue_locked \in BOOLEAN /\ cv_queue_locked \in BOOLEAN
  /\ queue \in Seq(Threads) /\ cv_queue \in Seq(Threads)
  /\ owner \in Threads \cup {NoThread}
  /\ should_wait \in SUBSET Threads /\ cv_should_wait \in SUBSET Threads
  /\ call \in [Threads -> {"lock", "wait", "timed"}]
  /\ batch \in [Threads -> Seq(Threads \cup {Destroyed})]
  /\ count \in [Threads -> NotifyCounts \cup {0}]
  /\ pc \in [Threads -> States]

Init ==
  /\ locked = FALSE /\ queue_locked = FALSE /\ queue = <<>>
  /\ owner = NoThread
  /\ cv_queue_locked = FALSE /\ cv_queue = <<>>
  /\ should_wait = {} /\ cv_should_wait = {}
  /\ call = [t \in Threads |-> "lock"] /\ count = [t \in Threads |-> 0]
  /\ batch = [t \in Threads |-> <<>>]
  /\ pc = [t \in Threads |-> "idle"]

Nodes(list) == {list[i] : i \in DOMAIN list}

At(t, state) == pc[t] = state
GoTo(t, state) == pc' = [pc EXCEPT ![t] = state]

kUnlocked == ~locked /\ ~queue_locked /\ queue = <<>>
kLockedUncontended == locked /\ ~queue_locked /\ queue = <<>>
kEmptyState == ~cv_queue_locked /\ cv_queue = <<>>

(***************************************************************************)
(* JSAtomicsMutex::Lock and TryLock.                                       *)
(***************************************************************************)
\* The weak CAS of Lock, called by Mutex.lock or at the end of WaitFor.
LockFast(t) ==
  /\ pc[t] \in {"idle", "relock"} /\ kUnlocked
  /\ locked' = TRUE
  /\ GoTo(t, "own")
  /\ UNCHANGED <<queue_locked, queue, should_wait, owner, condition, calls, batch>>

\* It fails, spuriously or not.
LockFastFails(t) ==
  /\ pc[t] \in {"idle", "relock"}
  /\ GoTo(t, "slow")
  /\ UNCHANGED <<mutex, owner, condition, calls, batch>>

\* Mutex.tryLock: if the strong CAS fails the builtin answers false.
TryLock(t) ==
  /\ At(t, "idle") /\ kUnlocked
  /\ locked' = TRUE
  /\ GoTo(t, "own")
  /\ UNCHANGED <<queue_locked, queue, should_wait, owner, condition, calls, batch>>

\* Mutant of TryLockExplicit: does not look at the lock bit.
TryLockBlindly(t) ==
  /\ At(t, "slow") /\ ~queue_locked
  /\ locked' = TRUE
  /\ GoTo(t, "own")
  /\ UNCHANGED <<queue_locked, queue, should_wait, owner, condition, calls, batch>>

\* In LockSlowPath, also of a mutex that has waiters.
TryLockExplicit(t) ==
  /\ At(t, "slow") /\ ~locked
  /\ locked' = TRUE
  /\ GoTo(t, "own")
  /\ UNCHANGED <<queue_locked, queue, should_wait, owner, condition, calls, batch>>

\* In LockSlowPath: only on a locked mutex.
TryLockWaiterQueueExplicit(t) ==
  /\ At(t, "slow") /\ locked /\ ~queue_locked
  /\ queue_locked' = TRUE
  /\ GoTo(t, "enqueue")
  /\ UNCHANGED <<locked, queue, should_wait, owner, condition, calls, batch>>

Enqueue(t) ==
  /\ At(t, "enqueue")
  /\ should_wait' = should_wait \cup {t}
  /\ queue' = Append(queue, t) /\ queue_locked' = FALSE
  /\ GoTo(t, "sleep")
  /\ UNCHANGED <<locked, owner, condition, calls, batch>>

\* WaiterQueueNode::Wait returns, and LockSlowPath begins again.
WakeUp(t) ==
  /\ At(t, "sleep") /\ t \notin should_wait
  /\ GoTo(t, "slow")
  /\ UNCHANGED <<mutex, owner, condition, calls, batch>>

\* this_waiter lives on the stack of WaitFor.  When WaitFor returns after a
\* timeout, a thread in Notify may have dequeued the node and not come to it.
DestroyNode(t) ==
  [u \in Threads |->
     [i \in DOMAIN batch[u] |-> IF batch[u][i] = t THEN Destroyed ELSE batch[u][i]]]

\* Lock returns: to the callback, directly or by way of WaitFor.
SetCurrentThreadAsOwner(t) ==
  /\ At(t, "own")
  /\ owner' = t
  /\ call' = [call EXCEPT ![t] = "lock"]
  /\ batch' = IF call[t] = "lock" THEN batch ELSE DestroyNode(t)
  /\ GoTo(t, "cs")
  /\ UNCHANGED <<count, mutex, condition>>

(***************************************************************************)
(* JSAtomicsMutex::Unlock.                                                 *)
(***************************************************************************)
AfterUnlock(t) == IF call[t] = "lock" THEN "idle" ELSE "cv_sleep"

\* At the end of the callback, or in WaitFor.
ClearOwnerThread(t) ==
  /\ pc[t] \in {"cs", "cv_unlock"}
  /\ owner' = NoThread
  /\ GoTo(t, "unlock")
  /\ UNCHANGED <<mutex, condition, calls, batch>>

\* Mutant of UnlockFast: overlooks the waiters.
UnlockAlways(t) ==
  /\ At(t, "unlock") /\ ~queue_locked
  /\ locked' = FALSE
  /\ GoTo(t, AfterUnlock(t))
  /\ UNCHANGED <<queue_locked, queue, should_wait, owner, condition, calls, batch>>

\* The strong CAS.
UnlockFast(t) ==
  /\ At(t, "unlock")
  /\ IF kLockedUncontended
     THEN /\ locked' = FALSE
          /\ GoTo(t, AfterUnlock(t))
     ELSE /\ GoTo(t, "unlock_slow")
          /\ UNCHANGED locked
  /\ UNCHANGED <<queue_locked, queue, should_wait, owner, condition, calls, batch>>

\* UnlockSlowPath takes the queue lock.
UnlockSlowPath(t) ==
  /\ At(t, "unlock_slow") /\ ~queue_locked
  /\ queue_locked' = TRUE
  /\ GoTo(t, "dequeue")
  /\ UNCHANGED <<locked, queue, should_wait, owner, condition, calls, batch>>

\* The store that unlocks both and installs the rest of the queue.
Dequeue(t) ==
  /\ At(t, "dequeue")
  /\ batch' = [batch EXCEPT ![t] = SubSeq(queue, 1, 1)]
  /\ queue' = SubSeq(queue, 2, Len(queue))
  /\ locked' = FALSE /\ queue_locked' = FALSE
  /\ GoTo(t, "notify")
  /\ UNCHANGED <<should_wait, owner, condition, calls>>

\* WaiterQueueNode::Notify on the old head.
Notify(t) ==
  /\ At(t, "notify")
  /\ should_wait' = should_wait \ Nodes(batch[t])
  /\ batch' = [batch EXCEPT ![t] = <<>>]
  /\ GoTo(t, AfterUnlock(t))
  /\ UNCHANGED <<locked, queue_locked, queue, owner, condition, calls>>

(***************************************************************************)
(* JSAtomicsCondition::WaitFor.  The builtin demands the ownership.        *)
(***************************************************************************)
WaitFor(t, timed) ==
  /\ At(t, "cs") /\ (timed => TimedWaits)
  /\ call' = [call EXCEPT ![t] = IF timed THEN "timed" ELSE "wait"]
  /\ GoTo(t, "cv_lock")
  /\ UNCHANGED <<count, mutex, owner, condition, batch>>

WaitForLocksQueue(t) ==
  /\ At(t, "cv_lock") /\ ~cv_queue_locked
  /\ cv_queue_locked' = TRUE
  /\ GoTo(t, "cv_enqueue")
  /\ UNCHANGED <<mutex, owner, cv_queue, cv_should_wait, calls, batch>>

WaitForEnqueues(t) ==
  /\ At(t, "cv_enqueue")
  /\ cv_should_wait' = cv_should_wait \cup {t}
  /\ cv_queue' = Append(cv_queue, t)
  /\ cv_queue_locked' = FALSE
  /\ GoTo(t, "cv_unlock")
  /\ UNCHANGED <<mutex, owner, calls, batch>>

WaitForIsNotified(t) ==
  /\ At(t, "cv_sleep") /\ t \notin cv_should_wait
  /\ GoTo(t, "relock")
  /\ UNCHANGED <<mutex, owner, condition, calls, batch>>

\* From here on nobody looks at should_wait of the node any more.
WaitForTimesOut(t) ==
  /\ At(t, "cv_sleep") /\ call[t] = "timed" /\ t \in cv_should_wait
  /\ cv_should_wait' = cv_should_wait \ {t}
  /\ GoTo(t, "cv_timeout")
  /\ UNCHANGED <<mutex, owner, cv_queue_locked, cv_queue, calls, batch>>

\* DequeueExplicit up to the queue lock: none is needed if there is no waiter.
DequeueExplicit(t, locks, none) ==
  /\ \/ /\ kEmptyState
        /\ GoTo(t, none)
        /\ UNCHANGED cv_queue_locked
     \/ /\ ~cv_queue_locked
        /\ cv_queue_locked' = TRUE
        /\ GoTo(t, locks)
  /\ UNCHANGED <<mutex, owner, cv_queue, cv_should_wait, calls, batch>>

TimeoutLocksQueue(t) ==
  At(t, "cv_timeout") /\ DequeueExplicit(t, "cv_remove", "relock")

\* DequeueMatching: the node behind the match is compared with the head, which
\* is also what comes behind the last node of a longer queue.
DequeueMatching(q, t) ==
  IF \A i \in DOMAIN q : q[i] # t THEN q
  ELSE IF q[Len(q)] = t THEN <<>>
  ELSE LET i == CHOOSE i \in DOMAIN q : q[i] = t
       IN  SubSeq(q, 1, i - 1) \o SubSeq(q, i + 1, Len(q))

TimeoutDequeues(t) ==
  /\ At(t, "cv_remove")
  /\ cv_queue' = DequeueMatching(cv_queue, t)
  /\ cv_queue_locked' = FALSE
  /\ GoTo(t, "relock")
  /\ UNCHANGED <<mutex, owner, cv_should_wait, calls, batch>>

(***************************************************************************)
(* JSAtomicsCondition::Notify, with or without the mutex.                  *)
(***************************************************************************)
AfterNotify(t) == IF owner = t THEN "cs" ELSE "idle"

CvNotify(t, n) ==
  /\ pc[t] \in {"idle", "cs"}
  /\ count' = [count EXCEPT ![t] = n]
  /\ GoTo(t, "cv_notify")
  /\ UNCHANGED <<mutex, owner, condition, call, batch>>

CvNotifyLocksQueue(t) ==
  At(t, "cv_notify") /\ DequeueExplicit(t, "cv_dequeue", AfterNotify(t))

\* What is taken from a queue and what stays: one node, all, or Split.
Taken(q, n) == IF n = 0 \/ n > Len(q) THEN Len(q) ELSE n
FrontList(q, n) == SubSeq(q, 1, Taken(q, n))
BackList(q, n) == IF n = 0 THEN q ELSE SubSeq(q, Taken(q, n) + 1, Len(q))

\* Mutant of CvNotifyDequeues: what is behind the split is dropped.
DequeueAndDropBack(t) ==
  /\ At(t, "cv_dequeue")
  /\ batch' = [batch EXCEPT ![t] = FrontList(cv_queue, count[t])]
  /\ cv_queue' = <<>>
  /\ cv_queue_locked' = FALSE
  /\ GoTo(t, IF cv_queue = <<>> THEN AfterNotify(t) ELSE "cv_wake")
  /\ UNCHANGED <<mutex, owner, cv_should_wait, calls>>

CvNotifyDequeues(t) ==
  /\ At(t, "cv_dequeue")
  /\ batch' = [batch EXCEPT ![t] = FrontList(cv_queue, count[t])]
  /\ cv_queue' = BackList(cv_queue, count[t])
  /\ cv_queue_locked' = FALSE
  /\ GoTo(t, IF cv_queue = <<>> THEN AfterNotify(t) ELSE "cv_wake")
  /\ UNCHANGED <<mutex, owner, cv_should_wait, calls>>

\* One round of NotifyAllInList, or the Notify of a single node.  The node may
\* be a destroyed one whose memory nobody has written to since.
NotifyAllInList(t) ==
  /\ At(t, "cv_wake")
  /\ cv_should_wait' = cv_should_wait \ {Head(batch[t])}
  /\ batch' = [batch EXCEPT ![t] = Tail(@)]
  /\ GoTo(t, IF Len(batch[t]) = 1 THEN AfterNotify(t) ELSE "cv_wake")
  /\ UNCHANGED <<mutex, owner, cv_queue_locked, cv_queue, calls>>

\* The other outcomes of reading next_ and locking wait_lock_ of a destroyed
\* node.  The thread gets stuck, in the lock or in a loop that does not come
\* back to its first node, and the rest of its list is lost; or anything
\* happens, for instance because the memory belongs to a new node or is written
\* to by its owner, and of what comes after that nothing is said.
NotifyDestroyedNode(t) ==
  /\ At(t, "cv_wake") /\ Head(batch[t]) = Destroyed
  /\ batch' = [batch EXCEPT ![t] = <<>>]
  /\ GoTo(t, "hung") \/ GoTo(t, "undefined")
  /\ UNCHANGED <<mutex, owner, condition, calls>>

(***************************************************************************)
(* The specification.                                                      *)
(***************************************************************************)
MutexStep(t) ==
  \/ TryLockExplicit(t) \/ TryLockWaiterQueueExplicit(t) \/ Enqueue(t)
  \/ WakeUp(t) \/ SetCurrentThreadAsOwner(t)
  \/ UnlockFast(t) \/ UnlockSlowPath(t) \/ Dequeue(t) \/ Notify(t)
WaitStep(t) ==
  \/ WaitForLocksQueue(t) \/ WaitForEnqueues(t) \/ WaitForIsNotified(t)
  \/ TimeoutLocksQueue(t) \/ TimeoutDequeues(t)
NotifyStep(t) ==
  \/ CvNotifyLocksQueue(t) \/ CvNotifyDequeues(t) \/ NotifyAllInList(t)
  \/ NotifyDestroyedNode(t)

Next ==
  /\ \A t \in Threads : ~At(t, "undefined")
  /\ \E t \in Threads :
    \/ LockFast(t) \/ LockFastFails(t) \/ TryLock(t)
    \/ MutexStep(t) \/ ClearOwnerThread(t)
    \/ WaitFor(t, TRUE) \/ WaitFor(t, FALSE) \/ WaitStep(t) \/ WaitForTimesOut(t)
    \/ \E n \in NotifyCounts : CvNotify(t, n)
    \/ NotifyStep(t)

Spec == Init /\ [][Next]_vars
-----------------------------------------------------------------------------
(***************************************************************************)
(* Properties.                                                             *)
(***************************************************************************)
Notifying(t) == pc[t] \in {"cv_notify", "cv_dequeue", "cv_wake", "hung", "undefined"}
Waking(t) == pc[t] = "cv_wake"

\* From the CAS that locks to the CAS or store that unlocks.
Holds(t) ==
  \/ pc[t] \in {"own", "cs", "unlock", "unlock_slow", "dequeue",
                "cv_lock", "cv_enqueue", "cv_unlock"}
  \/ Notifying(t) /\ owner = t

\* The mutex part of the inductive invariant.  The lock bit is set while one
\* thread is between Lock and Unlock; the queue lock belongs to one thread and
\* is only held on a locked mutex; the owner is the thread that runs the
\* callback.  The DCHECKs of IsCurrentThreadOwner, Unlock, UnlockSlowPath and
\* TryLockWaiterQueueExplicit are parts of it.
LockInv ==
  /\ locked <=> \E t \in Threads : Holds(t)
  /\ \A t, u \in Threads : Holds(t) /\ Holds(u) => t = u
  /\ queue_locked <=> \E t \in Threads : pc[t] \in {"enqueue", "dequeue"}
  /\ \A t, u \in Threads :
       pc[t] \in {"enqueue", "dequeue"} /\ pc[u] \in {"enqueue", "dequeue"} => t = u
  /\ queue_locked => locked
  /\ \A t \in Threads :
       /\ pc[t] \in {"cs", "cv_lock", "cv_enqueue", "cv_unlock"} => owner = t
       /\ owner = t => Holds(t)
       /\ pc[t] \in {"own", "unlock", "unlock_slow", "dequeue"} => owner = NoThread
  /\ \A t \in Threads :
       /\ pc[t] \in {"idle", "cs"} \/ Notifying(t) => call[t] = "lock"
       /\ pc[t] \in {"cv_lock", "cv_enqueue", "cv_unlock", "cv_sleep", "cv_timeout",
                     "cv_remove", "relock"} => call[t] # "lock"

\* The waiter queue of the mutex: the threads that have enqueued themselves and
\* have not been notified are asleep, each in the queue or in the hands of one
\* thread in UnlockSlowPath.
QueueInv ==
  /\ \A i, j \in DOMAIN queue : queue[i] = queue[j] => i = j
  /\ \A i \in DOMAIN queue : pc[queue[i]] = "sleep" /\ queue[i] \in should_wait
  /\ \A t \in Threads :
       /\ pc[t] = "notify" =>
            /\ Len(batch[t]) = 1
            /\ batch[t][1] \in should_wait /\ pc[batch[t][1]] = "sleep"
            /\ \A i \in DOMAIN queue : queue[i] # batch[t][1]
       /\ pc[t] # "notify" /\ ~Waking(t) => batch[t] = <<>>
  /\ \A t, u \in Threads :
       pc[t] = "notify" /\ pc[u] = "notify" /\ batch[t] = batch[u] => t = u
  /\ \A t \in Threads :
       t \in should_wait =>
         /\ pc[t] = "sleep"
         /\ \/ \E i \in DOMAIN queue : queue[i] = t
            \/ \E u \in Threads : pc[u] = "notify" /\ batch[u][1] = t

\* Whoever is on the way to a dequeue has somebody to take out: one who waits
\* already, or one who holds the queue lock to enqueue itself.
UnlockInv ==
  \A t \in Threads :
    /\ pc[t] = "dequeue" => queue # <<>>
    /\ pc[t] = "unlock_slow" => queue # <<>> \/ \E u \in Threads : pc[u] = "enqueue"
    /\ Waking(t) => batch[t] # <<>>

\* The inductive invariant of JSAtomicsMutex: mutual exclusion and the integrity
\* of the waiter queue, through fast paths, slow paths and spurious CAS failures.
MutexInv == TypeOK /\ LockInv /\ QueueInv /\ UnlockInv

\* "Get the waiter queue head, which is guaranteed to be non-null": whoever
\* comes to the dequeue in UnlockSlowPath finds a waiter there, also when the
\* strong CAS failed only because somebody was about to enqueue itself.
UnlockFindsWaiter == \A t \in Threads : pc[t] = "dequeue" => queue # <<>>

\* A wakeup of the mutex is not lost: when the mutex is free and threads sleep
\* in its queue, some thread is awake that will take it, and its Unlock will
\* wake the next one.
FreeMutexHasContender ==
  ~locked /\ queue # <<>> =>
    \E t \in Threads :
      \/ pc[t] \in {"slow", "notify"}
      \/ pc[t] = "sleep" /\ t \notin should_wait

\* Who waits for the condition and has not been notified can be, if its node
\* is in the queue or a thread in Notify has it.
Unreachable ==
  cv_should_wait \ (Nodes(cv_queue) \cup
                    UNION {Nodes(batch[u]) : u \in {v \in Threads : Waking(v)}})

\* DequeueMatching is about to take the last of several nodes for the only one.
RemovesLast(t) ==
  pc[t] = "cv_remove" /\ Len(cv_queue) > 1 /\ cv_queue[Len(cv_queue)] = t
MeetsDestroyedNode(t) == Waking(t) /\ Head(batch[t]) = Destroyed

\* A waiter stays in reach of the next notify, or in the hands of a thread in
\* Notify, until it is notified: WaitFor enqueues before it unlocks the mutex,
\* Notify leaves in the queue what it does not take and forgets no node of its
\* list, and a timeout takes its own node out.  It fails in two situations only,
\* both of them left by a timeout: the node that DequeueMatching takes out is
\* the last of several, or NotifyAllInList has come to a destroyed node.
WaitersStayReachable ==
  [][\A w \in Unreachable' \ Unreachable :
       \E t \in Threads :
         /\ pc'[t] # pc[t]
         /\ \/ RemovesLast(t) /\ w \in Nodes(cv_queue)
            \/ MeetsDestroyedNode(t) /\ w \in Nodes(batch[t])]_vars

\* Mutex and condition implement the monitor: the thread between Lock and
\* Unlock holds it, and who has unlocked in WaitFor waits until it is notified
\* or times out.
M == INSTANCE Monitor WITH
       holder <- IF \E t \in Threads : Holds(t)
                 THEN CHOOSE t \in Threads : Holds(t) ELSE NoThread,
       waiting <- {t \in cv_should_wait : pc[t] \in {"cv_sleep", "notify"}}
ImplementsMonitor == M!Spec
=============================================================================

-------------------- MODULE AtomicsSynchronizationProofs --------------------
(***************************************************************************)
(* Proofs about AtomicsSynchronization, for every set of threads: the      *)
(* invariant of the mutex, that no wakeup of a mutex waiter is lost, that  *)
(* mutex and condition implement the abstract monitor, and in which two    *)
(* situations, and no other, a waiter gets out of notify's reach.          *)
(***************************************************************************)
EXTENDS AtomicsSynchronization, SequenceTheorems, TLAPS

USE DEF Destroyed

\* All threads are idle and both state words are empty.
LEMMA InitEstablishes ==
  ASSUME Init
  PROVE  MutexInv
<1> USE ThreadsAssumption, CountsAssumption DEF Init
<1>1. TypeOK
  <2>1. <<>> \in Seq(Threads) /\ <<>> \in Seq(Threads \cup {NoThread})
    OBVIOUS
  <2>2. batch \in [Threads -> Seq(Threads \cup {NoThread})]
    BY <2>1
  <2>3. /\ call \in [Threads -> {"lock", "wait", "timed"}]
        /\ count \in [Threads -> NotifyCounts \cup {0}]
        /\ pc \in [Threads -> States]
    BY DEF States
  <2>4. QED
    BY <2>1, <2>2, <2>3 DEF TypeOK
<1>2. LockInv /\ QueueInv /\ UnlockInv
  BY DEF LockInv, QueueInv, UnlockInv, Holds, Notifying, Waking
<1>3. QED
  BY <1>1, <1>2 DEF MutexInv

\* A step that moves one thread and leaves the waiter queue of the mutex and
\* the batches alone.
LEMMA QueueFrame ==
  ASSUME TypeOK, QueueInv, NEW t \in Threads, NEW state \in States,
         UNCHANGED <<queue, should_wait, batch>>,
         pc' = [pc EXCEPT ![t] = state],
         pc[t] \notin {"notify", "cv_wake"}, state \notin {"notify", "cv_wake"},
         pc[t] = "sleep" => t \notin should_wait
  PROVE  QueueInv'
<1>1. \A u \in Threads :
        /\ pc'[u] = "notify" <=> pc[u] = "notify"
        /\ pc'[u] = "cv_wake" <=> pc[u] = "cv_wake"
  BY DEF TypeOK
<1>2. \A u \in Threads : pc[u] = "sleep" /\ u \in should_wait => pc'[u] = "sleep"
  BY DEF TypeOK
<1>3. \A i \in DOMAIN queue : queue[i] \in Threads
  BY DEF TypeOK
<1>4. \A i \in DOMAIN queue : pc'[queue[i]] = "sleep" /\ queue[i] \in should_wait
  BY <1>2, <1>3 DEF QueueInv
<1>5. \A u \in Threads :
        pc'[u] = "notify" =>
          /\ Len(batch[u]) = 1
          /\ batch[u][1] \in should_wait /\ pc'[batch[u][1]] = "sleep"
          /\ \A i \in DOMAIN queue : queue[i] # batch[u][1]
  BY <1>1, <1>2 DEF QueueInv, TypeOK
<1>6. \A u \in Threads : pc'[u] # "notify" /\ pc'[u] # "cv_wake" => batch[u] = <<>>
  BY <1>1 DEF QueueInv, Waking
<1>7. \A u, v \in Threads :
        pc'[u] = "notify" /\ pc'[v] = "notify" /\ batch[u] = batch[v] => u = v
  BY <1>1 DEF QueueInv
<1>8. \A u \in Threads :
        u \in should_wait =>
          /\ pc'[u] = "sleep"
          /\ \/ \E i \in DOMAIN queue : queue[i] = u
             \/ \E v \in Threads : pc'[v] = "notify" /\ batch[v][1] = u
  BY <1>1, <1>2 DEF QueueInv
<1>9. QED
  BY <1>4, <1>5, <1>6, <1>7, <1>8 DEF QueueInv, Waking

\* A step of one thread that touches neither the state word of the mutex, but
\* for the list of waiters, nor the owner.
LEMMA LockFrame ==
  ASSUME TypeOK, LockInv, NEW t \in Threads, NEW state \in States,
         UNCHANGED <<locked, queue_locked, owner, call>>,
         pc' = [pc EXCEPT ![t] = state],
         pc[t] \notin {"enqueue", "dequeue"}, state \notin {"enqueue", "dequeue"},
         Holds(t)' <=> Holds(t),
         state \in {"cs", "cv_lock", "cv_enqueue", "cv_unlock"} => owner = t,
         state \in {"own", "unlock", "unlock_slow"} => owner = NoThread,
         state \in {"idle", "cs", "cv_notify", "cv_dequeue", "cv_wake", "hung", "undefined"}
           => call[t] = "lock",
         state \in {"cv_lock", "cv_enqueue", "cv_unlock", "cv_sleep", "cv_timeout",
                    "cv_remove", "relock"} => call[t] # "lock"
  PROVE  LockInv'
<1>1. \A u \in Threads : u # t => pc'[u] = pc[u]
  BY DEF TypeOK
<1>2. pc'[t] = state
  BY DEF TypeOK
<1>3. \A u \in Threads : Holds(u)' <=> Holds(u)
  BY <1>1 DEF Holds, Notifying
<1>4. /\ locked' <=> \E u \in Threads : Holds(u)'
      /\ \A u, v \in Threads : Holds(u)' /\ Holds(v)' => u = v
      /\ \A u \in Threads : owner' = u => Holds(u)'
  BY <1>3 DEF LockInv
<1>5. /\ queue_locked' <=> \E u \in Threads : pc'[u] \in {"enqueue", "dequeue"}
      /\ \A u, v \in Threads :
           pc'[u] \in {"enqueue", "dequeue"} /\ pc'[v] \in {"enqueue", "dequeue"} => u = v
      /\ queue_locked' => locked'
  BY <1>1, <1>2 DEF LockInv
<1>6. \A u \in Threads :
        /\ pc'[u] \in {"cs", "cv_lock", "cv_enqueue", "cv_unlock"} => owner' = u
        /\ pc'[u] \in {"own", "unlock", "unlock_slow", "dequeue"} => owner' = NoThread
  BY <1>1, <1>2 DEF LockInv
<1>7. \A u \in Threads :
        /\ pc'[u] \in {"idle", "cs"} \/ Notifying(u)' => call'[u] = "lock"
        /\ pc'[u] \in {"cv_lock", "cv_enqueue", "cv_unlock", "cv_sleep", "cv_timeout",
                       "cv_remove", "relock"} => call'[u] # "lock"
  BY <1>1, <1>2 DEF LockInv, Notifying
<1>8. QED
  BY <1>4, <1>5, <1>6, <1>7 DEF LockInv

-----------------------------------------------------------------------------
(* JSAtomicsMutex::Lock and TryLock. *)

\* The CAS of Lock from the unlocked state, which nobody holds.
LEMMA LockFastPreserves ==
  ASSUME MutexInv, NEW t \in Threads, LockFast(t)
  PROVE  MutexInv'
<1> USE ThreadsAssumption DEF MutexInv, LockFast, GoTo, At, mutex, condition, calls
<1>1. TypeOK'
  BY DEF TypeOK, States
<1>2. LockInv'
  BY DEF TypeOK, LockInv, Holds, Notifying, kUnlocked, kLockedUncontended
<1>3. QueueInv'
  BY QueueFrame DEF TypeOK, States
<1>4. UnlockInv'
  BY DEF TypeOK, LockInv, UnlockInv, Holds, Notifying, Waking, kLockedUncontended
<1>5. QED
  BY <1>1, <1>2, <1>3, <1>4

\* The CAS of Lock fails and the thread enters LockSlowPath.
LEMMA LockFastFailsPreserves ==
  ASSUME MutexInv, NEW t \in Threads, LockFastFails(t)
  PROVE  MutexInv'
<1> USE ThreadsAssumption DEF MutexInv, LockFastFails, GoTo, At, mutex, condition, calls
<1>1. TypeOK'
  BY DEF TypeOK, States
<1>2. LockInv'
  BY DEF TypeOK, LockInv, Holds, Notifying, kUnlocked, kLockedUncontended
<1>3. QueueInv'
  BY QueueFrame DEF TypeOK, States
<1>4. UnlockInv'
  BY DEF TypeOK, LockInv, UnlockInv, Holds, Notifying, Waking, kLockedUncontended
<1>5. QED
  BY <1>1, <1>2, <1>3, <1>4

\* Mutex.tryLock takes the unlocked mutex.
LEMMA TryLockPreserves ==
  ASSUME MutexInv, NEW t \in Threads, TryLock(t)
  PROVE  MutexInv'
<1> USE ThreadsAssumption DEF MutexInv, TryLock, GoTo, At, mutex, condition, calls
<1>1. TypeOK'
  BY DEF TypeOK, States
<1>2. LockInv'
  BY DEF TypeOK, LockInv, Holds, Notifying, kUnlocked, kLockedUncontended
<1>3. QueueInv'
  BY QueueFrame DEF TypeOK, States
<1>4. UnlockInv'
  BY DEF TypeOK, LockInv, UnlockInv, Holds, Notifying, Waking, kLockedUncontended
<1>5. QED
  BY <1>1, <1>2, <1>3, <1>4

\* A thread in LockSlowPath takes a mutex that has waiters.
LEMMA TryLockExplicitPreserves ==
  ASSUME MutexInv, NEW t \in Threads, TryLockExplicit(t)
  PROVE  MutexInv'
<1> USE ThreadsAssumption DEF MutexInv, TryLockExplicit, GoTo, At, mutex, condition, calls
<1>1. TypeOK'
  BY DEF TypeOK, States
<1>2. LockInv'
  BY DEF TypeOK, LockInv, Holds, Notifying, kUnlocked, kLockedUncontended
<1>3. QueueInv'
  BY QueueFrame DEF TypeOK, States
<1>4. UnlockInv'
  BY DEF TypeOK, LockInv, UnlockInv, Holds, Notifying, Waking, kLockedUncontended
<1>5. QED
  BY <1>1, <1>2, <1>3, <1>4

\* The queue lock is taken on a locked mutex only.
LEMMA TryLockWaiterQueueExplicitPreserves ==
  ASSUME MutexInv, NEW t \in Threads, TryLockWaiterQueueExplicit(t)
  PROVE  MutexInv'
<1> USE ThreadsAssumption DEF MutexInv, TryLockWaiterQueueExplicit, GoTo, At, mutex, condition, calls
<1>1. TypeOK'
  BY DEF TypeOK, States
<1>2. LockInv'
  BY DEF TypeOK, LockInv, Holds, Notifying, kUnlocked, kLockedUncontended
<1>3. QueueInv'
  BY QueueFrame DEF TypeOK, States
<1>4. UnlockInv'
  BY DEF TypeOK, LockInv, UnlockInv, Holds, Notifying, Waking, kLockedUncontended
<1>5. QED
  BY <1>1, <1>2, <1>3, <1>4

\* A thread in LockSlowPath enqueues itself and releases the queue lock.
LEMMA EnqueuePreserves ==
  ASSUME MutexInv, NEW t \in Threads, Enqueue(t)
  PROVE  MutexInv'
<1> USE ThreadsAssumption DEF MutexInv, Enqueue, GoTo, At, mutex, condition, calls
<1>0. /\ pc[t] = "enqueue" /\ pc' = [pc EXCEPT ![t] = "sleep"]
      /\ should_wait' = should_wait \cup {t} /\ queue' = Append(queue, t)
      /\ queue_locked' = FALSE /\ UNCHANGED <<locked, owner, call, batch>>
  OBVIOUS
<1>a. /\ queue \in Seq(Threads) /\ queue' \in Seq(Threads)
      /\ Len(queue') = Len(queue) + 1 /\ Len(queue) \in Nat
      /\ queue'[Len(queue) + 1] = t
      /\ \A i \in 1..Len(queue) : queue'[i] = queue[i]
      /\ DOMAIN queue = 1..Len(queue) /\ DOMAIN queue' = 1..(Len(queue) + 1)
  BY <1>0, AppendProperties, LenProperties DEF TypeOK
<1>b. t \notin should_wait
  BY <1>0 DEF QueueInv
<1>1. TypeOK'
  BY <1>a DEF TypeOK, States
<1>2. LockInv'
  BY DEF TypeOK, LockInv, Holds, Notifying
<1>3. QueueInv'
  <2>1. \A u \in Threads :
          /\ pc'[u] = "notify" <=> pc[u] = "notify"
          /\ pc'[u] = "cv_wake" <=> pc[u] = "cv_wake"
          /\ pc[u] = "sleep" => pc'[u] = "sleep"
    BY <1>0 DEF TypeOK
  <2>2. \A i \in 1..Len(queue) : queue[i] \in should_wait /\ queue[i] # t /\ queue[i] \in Threads
    BY <1>a, <1>b DEF QueueInv, TypeOK
  <2>3. \A i, j \in DOMAIN queue' : queue'[i] = queue'[j] => i = j
    <3>1. SUFFICES ASSUME NEW i \in 1..(Len(queue) + 1), NEW j \in 1..(Len(queue) + 1),
                          queue'[i] = queue'[j]
                   PROVE  i = j
      BY <1>a
    <3>2. CASE i \in 1..Len(queue) /\ j \in 1..Len(queue)
      BY <1>a, <3>1, <3>2 DEF QueueInv
    <3>3. CASE ~(i \in 1..Len(queue) /\ j \in 1..Len(queue))
      BY <1>a, <2>2, <3>1, <3>3
    <3>4. QED
      BY <3>2, <3>3
  <2>4. \A i \in DOMAIN queue' : pc'[queue'[i]] = "sleep" /\ queue'[i] \in should_wait'
    <3>1. \A i \in 1..Len(queue) : pc'[queue[i]] = "sleep"
      BY <1>a, <2>1, <2>2 DEF QueueInv
    <3>2. pc'[t] = "sleep"
      BY <1>0 DEF TypeOK
    <3>3. \A i \in 1..(Len(queue) + 1) : i \in 1..Len(queue) \/ i = Len(queue) + 1
      BY <1>a
    <3>4. QED
      BY <1>0, <1>a, <2>2, <3>1, <3>2, <3>3
  <2>5. \A u \in Threads :
          pc'[u] = "notify" =>
            /\ Len(batch'[u]) = 1
            /\ batch'[u][1] \in should_wait' /\ pc'[batch'[u][1]] = "sleep"
            /\ \A i \in DOMAIN queue' : queue'[i] # batch'[u][1]
    <3>1. SUFFICES ASSUME NEW u \in Threads, pc[u] = "notify"
                   PROVE  /\ Len(batch[u]) = 1
                          /\ batch[u][1] \in should_wait' /\ pc'[batch[u][1]] = "sleep"
                          /\ \A i \in DOMAIN queue' : queue'[i] # batch[u][1]
      BY <1>0, <2>1
    <3>2. /\ Len(batch[u]) = 1 /\ batch[u][1] \in should_wait /\ pc[batch[u][1]] = "sleep"
          /\ \A i \in DOMAIN queue : queue[i] # batch[u][1]
      BY <3>1 DEF QueueInv
    <3>3. batch[u][1] \in Threads /\ batch[u][1] # t
      BY <1>b, <3>2 DEF TypeOK
    <3>4. \A i \in 1..(Len(queue) + 1) : i \in 1..Len(queue) \/ i = Len(queue) + 1
      BY <1>a
    <3>5. QED
      BY <1>0, <1>a, <2>1, <3>2, <3>3, <3>4
  <2>6. \A u \in Threads : pc'[u] # "notify" /\ pc'[u] # "cv_wake" => batch'[u] = <<>>
    BY <1>0, <2>1 DEF QueueInv, Waking
  <2>7. \A u, v \in Threads :
          pc'[u] = "notify" /\ pc'[v] = "notify" /\ batch'[u] = batch'[v] => u = v
    BY <1>0, <2>1 DEF QueueInv
  <2>8. \A u \in Threads :
          u \in should_wait' =>
            /\ pc'[u] = "sleep"
            /\ \/ \E i \in DOMAIN queue' : queue'[i] = u
               \/ \E v \in Threads : pc'[v] = "notify" /\ batch'[v][1] = u
    <3>1. pc'[t] = "sleep" /\ \E i \in DOMAIN queue' : queue'[i] = t
      BY <1>0, <1>a DEF TypeOK
    <3>2. SUFFICES ASSUME NEW u \in should_wait
                   PROVE  /\ pc'[u] = "sleep"
                          /\ \/ \E i \in DOMAIN queue' : queue'[i] = u
                             \/ \E v \in Threads : pc'[v] = "notify" /\ batch'[v][1] = u
      BY <1>0, <3>1
    <3>3. u \in Threads /\ pc'[u] = "sleep"
      BY <2>1 DEF QueueInv, TypeOK
    <3>4. CASE \E i \in DOMAIN queue : queue[i] = u
      BY <1>a, <3>3, <3>4
    <3>5. CASE \E v \in Threads : pc[v] = "notify" /\ batch[v][1] = u
      BY <1>0, <2>1, <3>3, <3>5
    <3>6. QED
      BY <3>3, <3>4, <3>5 DEF QueueInv
  <2>9. QED
    BY <2>3, <2>4, <2>5, <2>6, <2>7, <2>8 DEF QueueInv, Waking
<1>4. UnlockInv'
  <2>1. queue' # <<>>
    BY <1>a
  <2>2. QED
    BY <1>0, <2>1 DEF TypeOK, UnlockInv, Waking
<1>5. QED
  BY <1>1, <1>2, <1>3, <1>4

\* A notified thread goes round the loop of LockSlowPath.
LEMMA WakeUpPreserves ==
  ASSUME MutexInv, NEW t \in Threads, WakeUp(t)
  PROVE  MutexInv'
<1> USE ThreadsAssumption DEF MutexInv, WakeUp, GoTo, At, mutex, condition, calls
<1>1. TypeOK'
  BY DEF TypeOK, States
<1>2. LockInv'
  BY DEF TypeOK, LockInv, Holds, Notifying, kUnlocked, kLockedUncontended
<1>3. QueueInv'
  BY QueueFrame DEF TypeOK, States
<1>4. UnlockInv'
  BY DEF TypeOK, LockInv, UnlockInv, Holds, Notifying, Waking, kLockedUncontended
<1>5. QED
  BY <1>1, <1>2, <1>3, <1>4

\* Lock returns; the node of a WaitFor that returns is in nobody's hands as a waiter.
LEMMA SetCurrentThreadAsOwnerPreserves ==
  ASSUME MutexInv, NEW t \in Threads, SetCurrentThreadAsOwner(t)
  PROVE  MutexInv'
<1> USE ThreadsAssumption DEF MutexInv, SetCurrentThreadAsOwner, DestroyNode, GoTo, At, mutex,
                              condition, calls
<1>0. /\ pc[t] = "own" /\ pc' = [pc EXCEPT ![t] = "cs"]
      /\ owner' = t /\ call' = [call EXCEPT ![t] = "lock"]
      /\ UNCHANGED <<locked, queue_locked, queue, should_wait, count, condition>>
  OBVIOUS
<1>a. /\ batch' \in [Threads -> Seq(Threads \cup {NoThread})]
      /\ \A u \in Threads :
           /\ Len(batch'[u]) = Len(batch[u])
           /\ \A i \in 1..Len(batch[u]) : batch[u][i] # t => batch'[u][i] = batch[u][i]
  <2>1. CASE call[t] = "lock"
    BY <2>1 DEF TypeOK
  <2>2. CASE call[t] # "lock"
    <3>1. SUFFICES ASSUME NEW u \in Threads
                   PROVE  /\ batch'[u] \in Seq(Threads \cup {NoThread})
                          /\ Len(batch'[u]) = Len(batch[u])
                          /\ \A i \in 1..Len(batch[u]) :
                               batch[u][i] # t => batch'[u][i] = batch[u][i]
      BY <2>2 DEF TypeOK
    <3>2. batch[u] \in Seq(Threads \cup {NoThread})
      BY DEF TypeOK
    <3>3. DOMAIN batch[u] = 1..Len(batch[u]) /\ Len(batch[u]) \in Nat
            /\ \A i \in 1..Len(batch[u]) : batch[u][i] \in Threads \cup {NoThread}
      BY <3>2, LenProperties, ElementOfSeq
    <3>4. batch'[u] = [i \in 1..Len(batch[u]) |->
                         IF batch[u][i] = t THEN NoThread ELSE batch[u][i]]
      BY <2>2, <3>3
    <3>5. QED
      BY <3>3, <3>4
  <2>3. QED
    BY <2>1, <2>2
<1> HIDE DEF SetCurrentThreadAsOwner
<1>1. TypeOK'
  BY <1>0, <1>a DEF TypeOK, States
<1>2. LockInv'
  BY <1>0 DEF TypeOK, LockInv, Holds, Notifying
<1>3. QueueInv'
  <2>1. \A u \in Threads :
          /\ pc'[u] = "notify" <=> pc[u] = "notify"
          /\ pc'[u] = "cv_wake" <=> pc[u] = "cv_wake"
          /\ pc[u] = "sleep" => pc'[u] = "sleep"
    BY <1>0 DEF TypeOK
  <2>2. \A u \in Threads :
          pc[u] = "notify" =>
            /\ Len(batch[u]) = 1 /\ batch'[u][1] = batch[u][1]
            /\ batch'[u] = batch[u]
    <3>1. SUFFICES ASSUME NEW u \in Threads, pc[u] = "notify"
                   PROVE  /\ Len(batch[u]) = 1 /\ batch'[u][1] = batch[u][1]
                          /\ batch'[u] = batch[u]
      OBVIOUS
    <3>2. Len(batch[u]) = 1 /\ batch[u][1] # t
      BY <1>0, <3>1 DEF QueueInv
    <3>3. batch'[u][1] = batch[u][1] /\ Len(batch'[u]) = 1
      BY <1>a, <3>2
    <3>4. batch'[u] \in Seq(Threads \cup {NoThread}) /\ batch[u] \in Seq(Threads \cup {NoThread})
      BY <1>a DEF TypeOK
    <3>5. QED
      BY <3>2, <3>3, <3>4, SeqEqual
  <2>3. \A u \in Threads : batch[u] = <<>> => batch'[u] = <<>>
    <3>1. SUFFICES ASSUME NEW u \in Threads, batch[u] = <<>> PROVE batch'[u] = <<>>
      OBVIOUS
    <3>2. Len(batch'[u]) = 0 /\ batch'[u] \in Seq(Threads \cup {NoThread})
      BY <1>a, <3>1
    <3>3. QED
      BY <3>2, EmptySeq
  <2>4. \A i \in DOMAIN queue : pc'[queue[i]] = "sleep" /\ queue[i] \in should_wait
    BY <2>1 DEF QueueInv, TypeOK
  <2>5. \A u \in Threads :
          pc'[u] = "notify" =>
            /\ Len(batch'[u]) = 1
            /\ batch'[u][1] \in should_wait /\ pc'[batch'[u][1]] = "sleep"
            /\ \A i \in DOMAIN queue : queue[i] # batch'[u][1]
    BY <2>1, <2>2 DEF QueueInv, TypeOK
  <2>6. \A u \in Threads : pc'[u] # "notify" /\ pc'[u] # "cv_wake" => batch'[u] = <<>>
    BY <1>0, <2>1, <2>3 DEF QueueInv, Waking
  <2>7. \A u, v \in Threads :
          pc'[u] = "notify" /\ pc'[v] = "notify" /\ batch'[u] = batch'[v] => u = v
    BY <2>1, <2>2 DEF QueueInv
  <2>8. \A u \in Threads :
          u \in should_wait =>
            /\ pc'[u] = "sleep"
            /\ \/ \E i \in DOMAIN queue : queue[i] = u
               \/ \E v \in Threads : pc'[v] = "notify" /\ batch'[v][1] = u
    BY <2>1, <2>2 DEF QueueInv
  <2>9. QED
    BY <1>0, <2>4, <2>5, <2>6, <2>7, <2>8 DEF QueueInv, Waking
<1>4. UnlockInv'
  <2>1. \A u \in Threads : batch[u] # <<>> => batch'[u] # <<>>
    <3>1. SUFFICES ASSUME NEW u \in Threads, batch'[u] = <<>> PROVE batch[u] = <<>>
      OBVIOUS
    <3>2. Len(batch[u]) = 0 /\ batch[u] \in Seq(Threads \cup {NoThread})
      BY <1>a, <3>1 DEF TypeOK
    <3>3. QED
      BY <3>2, EmptySeq
  <2>2. QED
    BY <1>0, <2>1 DEF TypeOK, UnlockInv, Waking
<1>5. QED
  BY <1>1, <1>2, <1>3, <1>4

-----------------------------------------------------------------------------
(* JSAtomicsMutex::Unlock. *)

\* Unlock first clears the owner.
LEMMA ClearOwnerThreadPreserves ==
  ASSUME MutexInv, NEW t \in Threads, ClearOwnerThread(t)
  PROVE  MutexInv'
<1> USE ThreadsAssumption DEF MutexInv, ClearOwnerThread, GoTo, At, mutex, condition, calls
<1>1. TypeOK'
  BY DEF TypeOK, States
<1>2. LockInv'
  BY DEF TypeOK, LockInv, Holds, Notifying, kUnlocked, kLockedUncontended
<1>3. QueueInv'
  BY QueueFrame DEF TypeOK, States
<1>4. UnlockInv'
  BY DEF TypeOK, LockInv, UnlockInv, Holds, Notifying, Waking, kLockedUncontended
<1>5. QED
  BY <1>1, <1>2, <1>3, <1>4

\* The strong CAS of Unlock: it fails if somebody waits or is about to.
LEMMA UnlockFastPreserves ==
  ASSUME MutexInv, NEW t \in Threads, UnlockFast(t)
  PROVE  MutexInv'
<1> USE ThreadsAssumption DEF MutexInv, UnlockFast, GoTo, At, mutex, condition, calls, AfterUnlock
<1>1. TypeOK'
  BY DEF TypeOK, States
<1>2. LockInv'
  <2>1. CASE kLockedUncontended
    BY <2>1 DEF TypeOK, LockInv, Holds, Notifying, kLockedUncontended
  <2>2. CASE ~kLockedUncontended
    <3>1. /\ pc[t] = "unlock" /\ pc' = [pc EXCEPT ![t] = "unlock_slow"]
          /\ UNCHANGED <<locked, queue_locked, owner, call>> /\ owner = NoThread
      BY <2>2 DEF LockInv
    <3>2. (Holds(t)' <=> Holds(t)) /\ "unlock_slow" \in States
      BY <3>1 DEF TypeOK, Holds, States
    <3>3. QED
      BY <3>1, <3>2, LockFrame
  <2>3. QED
    BY <2>1, <2>2
<1>3. QueueInv'
  BY QueueFrame DEF TypeOK, States
<1>4. UnlockInv'
  BY DEF TypeOK, LockInv, UnlockInv, Holds, Notifying, Waking, kLockedUncontended
<1>5. QED
  BY <1>1, <1>2, <1>3, <1>4

\* UnlockSlowPath takes the queue lock; who was about to enqueue has done so.
LEMMA UnlockSlowPathPreserves ==
  ASSUME MutexInv, NEW t \in Threads, UnlockSlowPath(t)
  PROVE  MutexInv'
<1> USE ThreadsAssumption DEF MutexInv, UnlockSlowPath, GoTo, At, mutex, condition, calls
<1>1. TypeOK'
  BY DEF TypeOK, States
<1>2. LockInv'
  BY DEF TypeOK, LockInv, Holds, Notifying, kUnlocked, kLockedUncontended
<1>3. QueueInv'
  BY QueueFrame DEF TypeOK, States
<1>4. UnlockInv'
  BY DEF TypeOK, LockInv, UnlockInv, Holds, Notifying, Waking, kLockedUncontended
<1>5. QED
  BY <1>1, <1>2, <1>3, <1>4

\* The head of the queue goes into the hands of the thread that unlocks.
LEMMA DequeuePreserves ==
  ASSUME MutexInv, NEW t \in Threads, Dequeue(t)
  PROVE  MutexInv'
<1> USE ThreadsAssumption DEF MutexInv, Dequeue, GoTo, At, mutex, condition, calls
<1>0. /\ pc[t] = "dequeue" /\ pc' = [pc EXCEPT ![t] = "notify"]
      /\ batch' = [batch EXCEPT ![t] = SubSeq(queue, 1, 1)]
      /\ queue' = SubSeq(queue, 2, Len(queue))
      /\ locked' = FALSE /\ queue_locked' = FALSE
      /\ UNCHANGED <<should_wait, owner, condition, calls>>
  OBVIOUS
<1>a. /\ queue \in Seq(Threads) /\ queue # <<>> /\ Len(queue) \in Nat /\ Len(queue) >= 1
      /\ DOMAIN queue = 1..Len(queue)
  BY <1>0, LenProperties, EmptySeq DEF TypeOK, UnlockInv
<1>b. /\ queue' \in Seq(Threads) /\ Len(queue') = Len(queue) - 1
      /\ \A i \in 1..(Len(queue) - 1) : queue'[i] = queue[i + 1]
      /\ DOMAIN queue' = 1..(Len(queue) - 1)
  BY <1>0, <1>a
<1>c. /\ SubSeq(queue, 1, 1) \in Seq(Threads \cup {NoThread})
      /\ Len(SubSeq(queue, 1, 1)) = 1 /\ SubSeq(queue, 1, 1)[1] = queue[1]
      /\ queue[1] \in Threads /\ 1 \in DOMAIN queue
  BY <1>a
<1> HIDE DEF Dequeue
<1>1. TypeOK'
  BY <1>0, <1>b, <1>c DEF TypeOK, States
<1>2. LockInv'
  BY <1>0 DEF TypeOK, LockInv, Holds, Notifying
<1>3. QueueInv'
  <2> DEFINE w == queue[1]
  <2>1. /\ batch'[t] = SubSeq(queue, 1, 1) /\ Len(batch'[t]) = 1 /\ batch'[t][1] = w
        /\ \A u \in Threads : u # t => batch'[u] = batch[u]
    BY <1>0, <1>c DEF TypeOK
  <2>2. /\ pc'[t] = "notify"
        /\ \A u \in Threads : u # t => pc'[u] = pc[u]
        /\ \A u \in Threads : pc[u] = "sleep" => pc'[u] = "sleep"
    BY <1>0 DEF TypeOK
  <2>3. w \in should_wait /\ w \in Threads /\ pc'[w] = "sleep"
    BY <1>c, <2>2 DEF QueueInv
  <2>4. \A i \in 1..(Len(queue) - 1) :
          /\ i + 1 \in DOMAIN queue /\ queue'[i] = queue[i + 1] /\ queue[i + 1] \in Threads
          /\ queue[i + 1] # w
    BY <1>a, <1>b, <1>c DEF QueueInv
  <2>5. \A u \in Threads : pc[u] = "notify" => u # t /\ batch[u][1] # w
    BY <1>0, <1>c DEF QueueInv
  <2> HIDE DEF w
  <2>6. \A i, j \in DOMAIN queue' : queue'[i] = queue'[j] => i = j
    <3>1. SUFFICES ASSUME NEW i \in 1..(Len(queue) - 1), NEW j \in 1..(Len(queue) - 1),
                          queue[i + 1] = queue[j + 1]
                   PROVE  i = j
      BY <1>b
    <3>2. i + 1 = j + 1
      BY <2>4, <3>1 DEF QueueInv
    <3>3. QED
      BY <1>a, <3>2
  <2>7. \A i \in DOMAIN queue' : pc'[queue'[i]] = "sleep" /\ queue'[i] \in should_wait'
    BY <1>0, <1>b, <2>2, <2>4 DEF QueueInv
  <2>8. \A u \in Threads :
          pc'[u] = "notify" =>
            /\ Len(batch'[u]) = 1
            /\ batch'[u][1] \in should_wait' /\ pc'[batch'[u][1]] = "sleep"
            /\ \A i \in DOMAIN queue' : queue'[i] # batch'[u][1]
    <3>1. SUFFICES ASSUME NEW u \in Threads, pc'[u] = "notify"
                   PROVE  /\ Len(batch'[u]) = 1
                          /\ batch'[u][1] \in should_wait /\ pc'[batch'[u][1]] = "sleep"
                          /\ \A i \in 1..(Len(queue) - 1) : queue[i + 1] # batch'[u][1]
      BY <1>0, <1>b, <2>4
    <3>2. CASE u = t
      BY <2>1, <2>3, <2>4, <3>2
    <3>3. CASE u # t
      <4>1. batch'[u] = batch[u] /\ pc[u] = "notify"
        BY <2>1, <2>2, <3>1, <3>3
      <4>2. /\ Len(batch[u]) = 1 /\ batch[u][1] \in should_wait /\ pc[batch[u][1]] = "sleep"
            /\ \A i \in DOMAIN queue : queue[i] # batch[u][1]
        BY <4>1 DEF QueueInv
      <4>3. batch[u][1] \in Threads
        BY <4>2 DEF TypeOK
      <4>4. QED
        BY <2>2, <2>4, <4>1, <4>2, <4>3
    <3>4. QED
      BY <3>2, <3>3
  <2>9. \A u \in Threads : pc'[u] # "notify" /\ pc'[u] # "cv_wake" => batch'[u] = <<>>
    BY <2>1, <2>2 DEF QueueInv, Waking
  <2>10. \A u, v \in Threads :
           pc'[u] = "notify" /\ pc'[v] = "notify" /\ batch'[u] = batch'[v] => u = v
    <3>1. SUFFICES ASSUME NEW u \in Threads, NEW v \in Threads,
                          pc'[u] = "notify", pc'[v] = "notify", batch'[u] = batch'[v]
                   PROVE  u = v
      OBVIOUS
    <3>2. CASE u # t /\ v # t
      BY <2>1, <2>2, <3>1, <3>2 DEF QueueInv
    <3>3. CASE u = t /\ v # t
      BY <2>1, <2>2, <2>5, <3>1, <3>3
    <3>4. CASE u # t /\ v = t
      BY <2>1, <2>2, <2>5, <3>1, <3>4
    <3>5. QED
      BY <3>2, <3>3, <3>4
  <2>11. \A u \in Threads :
           u \in should_wait' =>
             /\ pc'[u] = "sleep"
             /\ \/ \E i \in DOMAIN queue' : queue'[i] = u
                \/ \E v \in Threads : pc'[v] = "notify" /\ batch'[v][1] = u
    <3>0. SUFFICES ASSUME NEW u \in Threads, u \in should_wait'
                   PROVE  /\ pc'[u] = "sleep"
                          /\ \/ \E i \in DOMAIN queue' : queue'[i] = u
                             \/ \E v \in Threads : pc'[v] = "notify" /\ batch'[v][1] = u
      OBVIOUS
    <3>1. u \in should_wait
      BY <1>0, <3>0
    <3>2. pc'[u] = "sleep"
      BY <2>2, <3>1 DEF QueueInv
    <3>3. CASE \E i \in DOMAIN queue : queue[i] = u
      <4>1. PICK i \in DOMAIN queue : queue[i] = u
        BY <3>3
      <4>2. CASE i = 1
        BY <2>1, <2>2, <3>2, <4>1, <4>2 DEF w
      <4>3. CASE i # 1
        <5>1. i - 1 \in 1..(Len(queue) - 1) /\ (i - 1) + 1 = i
          BY <1>a, <4>1, <4>3
        <5>2. queue'[i - 1] = u /\ i - 1 \in DOMAIN queue'
          BY <1>b, <2>4, <4>1, <5>1
        <5>3. QED
          BY <3>2, <5>2
      <4>4. QED
        BY <4>2, <4>3
    <3>4. CASE \E v \in Threads : pc[v] = "notify" /\ batch[v][1] = u
      BY <2>1, <2>2, <2>5, <3>2, <3>4
    <3>5. QED
      BY <3>1, <3>3, <3>4 DEF QueueInv
  <2>12. QED
    BY <2>6, <2>7, <2>8, <2>9, <2>10, <2>11 DEF QueueInv, Waking
<1>4. UnlockInv'
  <2>1. \A u \in Threads : pc[u] \in {"dequeue", "unlock_slow"} => u = t
    BY <1>0 DEF LockInv, Holds
  <2>2. QED
    BY <1>0, <2>1 DEF TypeOK, UnlockInv, Waking
<1>5. QED
  BY <1>1, <1>2, <1>3, <1>4

\* The old head is notified: it is no longer to wait, and in nobody's hands.
LEMMA NotifyPreserves ==
  ASSUME MutexInv, NEW t \in Threads, Notify(t)
  PROVE  MutexInv'
<1> USE ThreadsAssumption DEF MutexInv, Notify, GoTo, At, mutex, condition, calls, AfterUnlock
<1>0. /\ pc[t] = "notify" /\ batch' = [batch EXCEPT ![t] = <<>>]
      /\ should_wait' = should_wait \ Nodes(batch[t])
      /\ UNCHANGED <<locked, queue_locked, queue, owner, condition, calls>>
  OBVIOUS
<1>a. PICK state \in {"idle", "cv_sleep"} :
        /\ pc' = [pc EXCEPT ![t] = state]
        /\ state = "idle" <=> call[t] = "lock"
  OBVIOUS
<1>b. /\ Len(batch[t]) = 1 /\ batch[t][1] \in Threads
      /\ should_wait' = should_wait \ {batch[t][1]}
  <2>1. Len(batch[t]) = 1 /\ batch[t] \in Seq(Threads \cup {NoThread}) /\ batch[t][1] \in Threads
    BY <1>0 DEF TypeOK, QueueInv
  <2>2. DOMAIN batch[t] = {1}
    BY <2>1, LenProperties
  <2>3. QED
    BY <1>0, <2>1, <2>2 DEF Nodes
<1> HIDE DEF Notify
<1>1. TypeOK'
  <2>1. batch' \in [Threads -> Seq(Threads \cup {NoThread})]
    BY <1>0 DEF TypeOK
  <2>2. pc' \in [Threads -> States]
    BY <1>a DEF TypeOK, States
  <2>3. QED
    BY <1>0, <1>b, <2>1, <2>2 DEF TypeOK
<1>2. LockInv'
  BY <1>0, <1>a, LockFrame DEF TypeOK, States, Holds, Notifying
<1>3. QueueInv'
  <2> DEFINE w == batch[t][1]
  <2>1. /\ batch'[t] = <<>> /\ pc'[t] \notin {"notify", "cv_wake", "sleep"}
        /\ \A u \in Threads : u # t => batch'[u] = batch[u] /\ pc'[u] = pc[u]
    BY <1>0, <1>a DEF TypeOK
  <2>2. \A u \in Threads : pc[u] = "sleep" => pc'[u] = "sleep"
    BY <1>0, <2>1
  <2>3. \A i \in DOMAIN queue : queue[i] # w /\ queue[i] \in Threads
    BY <1>0 DEF QueueInv, TypeOK
  <2>4. \A u \in Threads : pc[u] = "notify" /\ u # t => batch[u][1] # w
    <3>1. SUFFICES ASSUME NEW u \in Threads, pc[u] = "notify", u # t, batch[u][1] = w
                   PROVE  FALSE
      OBVIOUS
    <3>2. /\ Len(batch[u]) = 1 /\ Len(batch[t]) = 1
          /\ batch[u] \in Seq(Threads \cup {NoThread}) /\ batch[t] \in Seq(Threads \cup {NoThread})
      BY <1>b, <3>1 DEF TypeOK, QueueInv
    <3>3. batch[u] = batch[t]
      BY <3>1, <3>2, SeqEqual
    <3>4. QED
      BY <1>0, <3>1, <3>3 DEF QueueInv
  <2>5. should_wait' = should_wait \ {w} /\ queue' = queue
    BY <1>0, <1>b
  <2> HIDE DEF w
  <2>6. \A i \in DOMAIN queue' : pc'[queue'[i]] = "sleep" /\ queue'[i] \in should_wait'
    BY <2>2, <2>3, <2>5 DEF QueueInv
  <2>7. \A u \in Threads :
          pc'[u] = "notify" =>
            /\ Len(batch'[u]) = 1
            /\ batch'[u][1] \in should_wait' /\ pc'[batch'[u][1]] = "sleep"
            /\ \A i \in DOMAIN queue' : queue'[i] # batch'[u][1]
    <3>1. SUFFICES ASSUME NEW u \in Threads, pc[u] = "notify", u # t
                   PROVE  /\ Len(batch[u]) = 1
                          /\ batch[u][1] \in should_wait' /\ pc'[batch[u][1]] = "sleep"
                          /\ \A i \in DOMAIN queue : queue[i] # batch[u][1]
      BY <2>1, <2>5
    <3>2. /\ Len(batch[u]) = 1 /\ batch[u][1] \in should_wait /\ pc[batch[u][1]] = "sleep"
          /\ \A i \in DOMAIN queue : queue[i] # batch[u][1]
      BY <3>1 DEF QueueInv
    <3>3. batch[u][1] \in Threads
      BY <3>2 DEF TypeOK
    <3>4. QED
      BY <2>2, <2>4, <2>5, <3>1, <3>2, <3>3
  <2>8. \A u \in Threads : pc'[u] # "notify" /\ pc'[u] # "cv_wake" => batch'[u] = <<>>
    BY <2>1 DEF QueueInv, Waking
  <2>9. \A u, v \in Threads :
          pc'[u] = "notify" /\ pc'[v] = "notify" /\ batch'[u] = batch'[v] => u = v
    BY <2>1 DEF QueueInv
  <2>10. \A u \in Threads :
           u \in should_wait' =>
             /\ pc'[u] = "sleep"
             /\ \/ \E i \in DOMAIN queue' : queue'[i] = u
                \/ \E v \in Threads : pc'[v] = "notify" /\ batch'[v][1] = u
    <3>1. SUFFICES ASSUME NEW u \in Threads, u \in should_wait, u # w
                   PROVE  /\ pc'[u] = "sleep"
                          /\ \/ \E i \in DOMAIN queue : queue[i] = u
                             \/ \E v \in Threads : pc'[v] = "notify" /\ batch'[v][1] = u
      BY <2>5
    <3>2. pc'[u] = "sleep"
      BY <2>2, <3>1 DEF QueueInv
    <3>3. CASE \E i \in DOMAIN queue : queue[i] = u
      BY <3>2, <3>3
    <3>4. CASE \E v \in Threads : pc[v] = "notify" /\ batch[v][1] = u
      BY <2>1, <3>1, <3>2, <3>4 DEF w
    <3>5. QED
      BY <3>1, <3>3, <3>4 DEF QueueInv
  <2>11. QED
    BY <2>5, <2>6, <2>7, <2>8, <2>9, <2>10 DEF QueueInv, Waking
<1>4. UnlockInv'
  BY <1>0, <1>a DEF TypeOK, UnlockInv, Waking
<1>5. QED
  BY <1>1, <1>2, <1>3, <1>4

-----------------------------------------------------------------------------
(* JSAtomicsCondition. *)

\* The builtin calls WaitFor, which it may do as the owner only.
LEMMA WaitForPreserves ==
  ASSUME MutexInv, NEW t \in Threads, NEW timed \in BOOLEAN, WaitFor(t, timed)
  PROVE  MutexInv'
<1> USE ThreadsAssumption DEF MutexInv, WaitFor, GoTo, At, mutex, condition, calls
<1>1. TypeOK'
  BY DEF TypeOK, States
<1>2. LockInv'
  BY DEF TypeOK, LockInv, Holds, Notifying, kUnlocked, kLockedUncontended
<1>3. QueueInv'
  BY QueueFrame DEF TypeOK, States
<1>4. UnlockInv'
  BY DEF TypeOK, LockInv, UnlockInv, Holds, Notifying, Waking, kLockedUncontended
<1>5. QED
  BY <1>1, <1>2, <1>3, <1>4

\* WaitFor takes the queue lock of the condition.
LEMMA WaitForLocksQueuePreserves ==
  ASSUME MutexInv, NEW t \in Threads, WaitForLocksQueue(t)
  PROVE  MutexInv'
<1> USE ThreadsAssumption DEF MutexInv, WaitForLocksQueue, GoTo, At, mutex, condition, calls
<1>1. TypeOK'
  BY DEF TypeOK, States
<1>2. LockInv'
  BY DEF TypeOK, LockInv, Holds, Notifying, kUnlocked, kLockedUncontended
<1>3. QueueInv'
  BY QueueFrame DEF TypeOK, States
<1>4. UnlockInv'
  BY DEF TypeOK, LockInv, UnlockInv, Holds, Notifying, Waking, kLockedUncontended
<1>5. QED
  BY <1>1, <1>2, <1>3, <1>4

\* The waiter joins the queue of the condition.
LEMMA WaitForEnqueuesPreserves ==
  ASSUME MutexInv, NEW t \in Threads, WaitForEnqueues(t)
  PROVE  MutexInv'
<1> USE ThreadsAssumption DEF MutexInv, WaitForEnqueues, GoTo, At, mutex, condition, calls
<1>1. TypeOK'
  <2>1. Append(cv_queue, t) \in Seq(Threads)
    BY DEF TypeOK
  <2>2. QED
    BY <2>1 DEF TypeOK, States
<1>2. LockInv'
  BY DEF TypeOK, LockInv, Holds, Notifying, kUnlocked, kLockedUncontended
<1>3. QueueInv'
  BY QueueFrame DEF TypeOK, States
<1>4. UnlockInv'
  BY DEF TypeOK, LockInv, UnlockInv, Holds, Notifying, Waking, kLockedUncontended
<1>5. QED
  BY <1>1, <1>2, <1>3, <1>4

\* A notified waiter goes to take the mutex again.
LEMMA WaitForIsNotifiedPreserves ==
  ASSUME MutexInv, NEW t \in Threads, WaitForIsNotified(t)
  PROVE  MutexInv'
<1> USE ThreadsAssumption DEF MutexInv, WaitForIsNotified, GoTo, At, mutex, condition, calls
<1>1. TypeOK'
  BY DEF TypeOK, States
<1>2. LockInv'
  BY DEF TypeOK, LockInv, Holds, Notifying, kUnlocked, kLockedUncontended
<1>3. QueueInv'
  BY QueueFrame DEF TypeOK, States
<1>4. UnlockInv'
  BY DEF TypeOK, LockInv, UnlockInv, Holds, Notifying, Waking, kLockedUncontended
<1>5. QED
  BY <1>1, <1>2, <1>3, <1>4

\* A waiter times out.
LEMMA WaitForTimesOutPreserves ==
  ASSUME MutexInv, NEW t \in Threads, WaitForTimesOut(t)
  PROVE  MutexInv'
<1> USE ThreadsAssumption DEF MutexInv, WaitForTimesOut, GoTo, At, mutex, condition, calls
<1>1. TypeOK'
  BY DEF TypeOK, States
<1>2. LockInv'
  BY DEF TypeOK, LockInv, Holds, Notifying, kUnlocked, kLockedUncontended
<1>3. QueueInv'
  BY QueueFrame DEF TypeOK, States
<1>4. UnlockInv'
  BY DEF TypeOK, LockInv, UnlockInv, Holds, Notifying, Waking, kLockedUncontended
<1>5. QED
  BY <1>1, <1>2, <1>3, <1>4

\* The waiter that timed out takes the queue lock, or finds no waiter.
LEMMA TimeoutLocksQueuePreserves ==
  ASSUME MutexInv, NEW t \in Threads, TimeoutLocksQueue(t)
  PROVE  MutexInv'
<1> USE ThreadsAssumption DEF MutexInv, TimeoutLocksQueue, GoTo, At, mutex, condition, calls, DequeueExplicit
<1>1. TypeOK'
  BY DEF TypeOK, States
<1>2. LockInv'
  BY LockFrame DEF TypeOK, States, LockInv, Holds, Notifying
<1>3. QueueInv'
  BY QueueFrame DEF TypeOK, States
<1>4. UnlockInv'
  BY DEF TypeOK, LockInv, UnlockInv, Holds, Notifying, Waking, kLockedUncontended
<1>5. QED
  BY <1>1, <1>2, <1>3, <1>4

\* DequeueMatching returns a queue.
LEMMA DequeueMatchingType ==
  ASSUME NEW q \in Seq(Threads), NEW t \in Threads
  PROVE  DequeueMatching(q, t) \in Seq(Threads)
<1>1. CASE \A i \in DOMAIN q : q[i] # t
  BY <1>1 DEF DequeueMatching
<1>2. CASE (\E i \in DOMAIN q : q[i] = t) /\ q[Len(q)] = t
  BY <1>2 DEF DequeueMatching
<1>3. CASE (\E i \in DOMAIN q : q[i] = t) /\ q[Len(q)] # t
  <2> DEFINE i == CHOOSE i \in DOMAIN q : q[i] = t
  <2>1. i \in DOMAIN q
    BY <1>3
  <2>2. DequeueMatching(q, t) = SubSeq(q, 1, i - 1) \o SubSeq(q, i + 1, Len(q))
    BY <1>3 DEF DequeueMatching
  <2> HIDE DEF i
  <2>3. SubSeq(q, 1, i - 1) \in Seq(Threads) /\ SubSeq(q, i + 1, Len(q)) \in Seq(Threads)
    BY <2>1
  <2>4. QED
    BY <2>2, <2>3
<1>4. QED
  BY <1>1, <1>2, <1>3

\* The waiter that timed out takes its node out of the queue.
LEMMA TimeoutDequeuesPreserves ==
  ASSUME MutexInv, NEW t \in Threads, TimeoutDequeues(t)
  PROVE  MutexInv'
<1> USE ThreadsAssumption DEF MutexInv, TimeoutDequeues, GoTo, At, mutex, condition, calls
<1>1. TypeOK'
  <2>1. DequeueMatching(cv_queue, t) \in Seq(Threads)
    BY DequeueMatchingType DEF TypeOK
  <2>2. QED
    BY <2>1 DEF TypeOK, States
<1>2. LockInv'
  BY DEF TypeOK, LockInv, Holds, Notifying, kUnlocked, kLockedUncontended
<1>3. QueueInv'
  BY QueueFrame DEF TypeOK, States
<1>4. UnlockInv'
  BY DEF TypeOK, LockInv, UnlockInv, Holds, Notifying, Waking, kLockedUncontended
<1>5. QED
  BY <1>1, <1>2, <1>3, <1>4

\* The builtin calls Notify with a count.
LEMMA CvNotifyPreserves ==
  ASSUME MutexInv, NEW t \in Threads, NEW n \in NotifyCounts, CvNotify(t, n)
  PROVE  MutexInv'
<1> USE ThreadsAssumption DEF MutexInv, CvNotify, GoTo, At, mutex, condition, calls
<1>1. TypeOK'
  BY DEF TypeOK, States
<1>2. LockInv'
  BY DEF TypeOK, LockInv, Holds, Notifying, kUnlocked, kLockedUncontended
<1>3. QueueInv'
  BY QueueFrame DEF TypeOK, States
<1>4. UnlockInv'
  BY DEF TypeOK, LockInv, UnlockInv, Holds, Notifying, Waking, kLockedUncontended
<1>5. QED
  BY <1>1, <1>2, <1>3, <1>4

\* Notify takes the queue lock, or finds no waiter.
LEMMA CvNotifyLocksQueuePreserves ==
  ASSUME MutexInv, NEW t \in Threads, CvNotifyLocksQueue(t)
  PROVE  MutexInv'
<1> USE ThreadsAssumption DEF MutexInv, CvNotifyLocksQueue, GoTo, At, mutex, condition, calls, DequeueExplicit, AfterNotify
<1>1. TypeOK'
  BY DEF TypeOK, States
<1>2. LockInv'
  BY LockFrame DEF TypeOK, States, LockInv, Holds, Notifying
<1>3. QueueInv'
  BY QueueFrame DEF TypeOK, States
<1>4. UnlockInv'
  BY DEF TypeOK, LockInv, UnlockInv, Holds, Notifying, Waking, kLockedUncontended
<1>5. QED
  BY <1>1, <1>2, <1>3, <1>4

\* A thread in Notify changes its batch, which holds nodes of the condition.
LEMMA BatchFrame ==
  ASSUME TypeOK, QueueInv, NEW t \in Threads,
         NEW state \in {"idle", "cs", "cv_wake", "hung", "undefined"},
         NEW nodes \in Seq(Threads \cup {NoThread}),
         UNCHANGED <<queue, should_wait>>,
         batch' = [batch EXCEPT ![t] = nodes],
         pc' = [pc EXCEPT ![t] = state],
         pc[t] \in {"cv_dequeue", "cv_wake"},
         state # "cv_wake" => nodes = <<>>
  PROVE  QueueInv'
<1>1. /\ batch'[t] = nodes /\ pc'[t] = state
      /\ \A u \in Threads : u # t => batch'[u] = batch[u] /\ pc'[u] = pc[u]
  BY DEF TypeOK
<1>2. \A u \in Threads :
        /\ pc'[u] = "notify" <=> pc[u] = "notify"
        /\ pc[u] = "notify" => batch'[u] = batch[u]
        /\ pc[u] = "sleep" => pc'[u] = "sleep"
  BY <1>1
<1>3. \A i \in DOMAIN queue : pc'[queue[i]] = "sleep" /\ queue[i] \in should_wait
  BY <1>2 DEF QueueInv, TypeOK
<1>4. \A u \in Threads :
        pc'[u] = "notify" =>
          /\ Len(batch'[u]) = 1
          /\ batch'[u][1] \in should_wait /\ pc'[batch'[u][1]] = "sleep"
          /\ \A i \in DOMAIN queue : queue[i] # batch'[u][1]
  BY <1>2 DEF QueueInv, TypeOK
<1>5. \A u \in Threads : pc'[u] # "notify" /\ pc'[u] # "cv_wake" => batch'[u] = <<>>
  BY <1>1 DEF QueueInv, Waking
<1>6. \A u, v \in Threads :
        pc'[u] = "notify" /\ pc'[v] = "notify" /\ batch'[u] = batch'[v] => u = v
  BY <1>2 DEF QueueInv
<1>7. \A u \in Threads :
        u \in should_wait =>
          /\ pc'[u] = "sleep"
          /\ \/ \E i \in DOMAIN queue : queue[i] = u
             \/ \E v \in Threads : pc'[v] = "notify" /\ batch'[v][1] = u
  BY <1>2 DEF QueueInv
<1>8. QED
  BY <1>3, <1>4, <1>5, <1>6, <1>7 DEF QueueInv, Waking

\* Notify takes waiters of the condition out of its queue.
LEMMA CvNotifyDequeuesPreserves ==
  ASSUME MutexInv, NEW t \in Threads, CvNotifyDequeues(t)
  PROVE  MutexInv'
<1> USE ThreadsAssumption DEF MutexInv, CvNotifyDequeues, GoTo, At, mutex, condition, calls, AfterNotify
<1>0. /\ pc[t] = "cv_dequeue" /\ batch' = [batch EXCEPT ![t] = FrontList(cv_queue, count[t])]
      /\ cv_queue' = BackList(cv_queue, count[t]) /\ cv_queue_locked' = FALSE
      /\ UNCHANGED <<locked, queue_locked, queue, should_wait, owner, cv_should_wait, calls>>
  OBVIOUS
<1>a. PICK state \in {"idle", "cs", "cv_wake"} :
        /\ pc' = [pc EXCEPT ![t] = state]
        /\ state = "cv_wake" <=> cv_queue # <<>>
        /\ state = "cs" => owner = t
        /\ state = "idle" => owner # t
  OBVIOUS
<1> HIDE DEF CvNotifyDequeues
<1>b. cv_queue \in Seq(Threads) /\ Len(cv_queue) \in Nat /\ count[t] \in Nat
  <2>1. cv_queue \in Seq(Threads) /\ count[t] \in NotifyCounts \cup {0}
    BY DEF TypeOK
  <2>2. NotifyCounts \cup {0} \subseteq Nat
    BY CountsAssumption
  <2>3. count[t] \in Nat
    BY <2>1, <2>2
  <2>4. QED
    BY <2>1, <2>3, LenProperties
<1>c. /\ Taken(cv_queue, count[t]) \in 0..Len(cv_queue)
      /\ cv_queue # <<>> => Taken(cv_queue, count[t]) >= 1
  BY <1>b DEF Taken
<1>d. /\ FrontList(cv_queue, count[t]) \in Seq(Threads)
      /\ Len(FrontList(cv_queue, count[t])) = Taken(cv_queue, count[t])
      /\ BackList(cv_queue, count[t]) \in Seq(Threads)
  BY <1>b, <1>c DEF FrontList, BackList
<1>e. /\ FrontList(cv_queue, count[t]) \in Seq(Threads \cup {NoThread})
      /\ cv_queue = <<>> <=> FrontList(cv_queue, count[t]) = <<>>
  <2>1. cv_queue = <<>> => Taken(cv_queue, count[t]) = 0
    BY <1>b, <1>c
  <2>2. QED
    BY <1>c, <1>d, <2>1, EmptySeq, SeqMonotonic
<1>1. TypeOK'
  <2>1. pc' \in [Threads -> States]
    BY <1>a DEF TypeOK, States
  <2>2. batch' \in [Threads -> Seq(Threads \cup {NoThread})]
    BY <1>0, <1>e DEF TypeOK
  <2>3. QED
    BY <1>0, <1>d, <2>1, <2>2 DEF TypeOK
<1>2. LockInv'
  <2>1. call[t] = "lock"
    BY <1>0 DEF LockInv, Notifying
  <2>2. state \in States
    BY <1>a DEF States
  <2>3. Holds(t)' <=> Holds(t)
    BY <1>0, <1>a DEF Holds, Notifying, TypeOK
  <2>4. QED
    BY <1>0, <1>a, <2>1, <2>2, <2>3, LockFrame
<1>3. QueueInv'
  BY <1>0, <1>a, <1>e, BatchFrame
<1>4. UnlockInv'
  BY <1>0, <1>a, <1>e DEF TypeOK, UnlockInv, Waking
<1>5. QED
  BY <1>1, <1>2, <1>3, <1>4

\* Notify wakes the next of the waiters it has taken.
LEMMA NotifyAllInListPreserves ==
  ASSUME MutexInv, NEW t \in Threads, NotifyAllInList(t)
  PROVE  MutexInv'
<1> USE ThreadsAssumption DEF MutexInv, NotifyAllInList, GoTo, At, mutex, condition, calls, AfterNotify
<1>0. /\ pc[t] = "cv_wake" /\ batch' = [batch EXCEPT ![t] = Tail(batch[t])]
      /\ cv_should_wait' = cv_should_wait \ {Head(batch[t])}
      /\ UNCHANGED <<locked, queue_locked, queue, should_wait, owner, cv_queue_locked,
                     cv_queue, calls>>
  OBVIOUS
<1>a. PICK state \in {"idle", "cs", "cv_wake"} :
        /\ pc' = [pc EXCEPT ![t] = state]
        /\ state = "cv_wake" <=> Len(batch[t]) # 1
        /\ state = "cs" => owner = t
        /\ state = "idle" => owner # t
  OBVIOUS
<1>b. /\ batch[t] \in Seq(Threads \cup {NoThread}) /\ batch[t] # <<>>
      /\ Tail(batch[t]) \in Seq(Threads \cup {NoThread})
      /\ Len(Tail(batch[t])) = Len(batch[t]) - 1 /\ Len(batch[t]) \in Nat
  BY <1>0, HeadTailProperties, LenProperties DEF TypeOK, UnlockInv, Waking
<1>c. Tail(batch[t]) = <<>> <=> Len(batch[t]) = 1
  <2>1. Tail(batch[t]) = <<>> <=> Len(Tail(batch[t])) = 0
    BY <1>b, EmptySeq
  <2>2. QED
    BY <1>b, <2>1
<1> HIDE DEF NotifyAllInList
<1>1. TypeOK'
  <2>1. pc' \in [Threads -> States]
    BY <1>a DEF TypeOK, States
  <2>2. batch' \in [Threads -> Seq(Threads \cup {NoThread})]
    BY <1>0, <1>b DEF TypeOK
  <2>3. QED
    BY <1>0, <2>1, <2>2 DEF TypeOK
<1>2. LockInv'
  <2>1. call[t] = "lock"
    BY <1>0 DEF LockInv, Notifying
  <2>2. state \in States
    BY <1>a DEF States
  <2>3. Holds(t)' <=> Holds(t)
    BY <1>0, <1>a DEF Holds, Notifying, TypeOK
  <2>4. QED
    BY <1>0, <1>a, <2>1, <2>2, <2>3, LockFrame
<1>3. QueueInv'
  BY <1>0, <1>a, <1>b, <1>c, BatchFrame
<1>4. UnlockInv'
  BY <1>0, <1>a, <1>b, <1>c DEF TypeOK, UnlockInv, Waking
<1>5. QED
  BY <1>1, <1>2, <1>3, <1>4

\* A thread that has met a destroyed node has nothing in hand any more.
LEMMA NotifyDestroyedNodePreserves ==
  ASSUME MutexInv, NEW t \in Threads, NotifyDestroyedNode(t)
  PROVE  MutexInv'
<1> USE ThreadsAssumption DEF MutexInv, GoTo, At, mutex, condition, calls
<1>0. /\ pc[t] = "cv_wake" /\ batch' = [batch EXCEPT ![t] = <<>>]
      /\ UNCHANGED <<locked, queue_locked, queue, should_wait, owner, condition, calls>>
  BY DEF NotifyDestroyedNode
<1>a. PICK state \in {"hung", "undefined"} : pc' = [pc EXCEPT ![t] = state]
  BY DEF NotifyDestroyedNode
<1>b. state \in States /\ <<>> \in Seq(Threads \cup {NoThread})
  BY DEF States
<1>1. TypeOK'
  <2>1. pc' \in [Threads -> States]
    BY <1>a, <1>b DEF TypeOK
  <2>2. batch' \in [Threads -> Seq(Threads \cup {NoThread})]
    BY <1>0, <1>b DEF TypeOK
  <2>3. QED
    BY <1>0, <2>1, <2>2 DEF TypeOK
<1>2. LockInv'
  <2>1. call[t] = "lock"
    BY <1>0 DEF LockInv, Notifying
  <2>2. Holds(t)' <=> Holds(t)
    BY <1>0, <1>a DEF Holds, Notifying, TypeOK
  <2>3. QED
    BY <1>0, <1>a, <1>b, <2>1, <2>2, LockFrame
<1>3. QueueInv'
  BY <1>0, <1>a, <1>b, BatchFrame
<1>4. UnlockInv'
  BY <1>0, <1>a DEF TypeOK, UnlockInv, Waking
<1>5. QED
  BY <1>1, <1>2, <1>3, <1>4

-----------------------------------------------------------------------------
(* The theorems. *)

\* Every step of every thread.
LEMMA NextPreserves ==
  ASSUME MutexInv, [Next]_vars
  PROVE  MutexInv'
<1>1. ASSUME NEW t \in Threads, LockFast(t) \/ LockFastFails(t) \/ TryLock(t)
      PROVE  MutexInv'
  BY <1>1, LockFastPreserves, LockFastFailsPreserves, TryLockPreserves
<1>2. ASSUME NEW t \in Threads, MutexStep(t) PROVE MutexInv'
  BY <1>2, TryLockExplicitPreserves, TryLockWaiterQueueExplicitPreserves,
     EnqueuePreserves, WakeUpPreserves, SetCurrentThreadAsOwnerPreserves,
     UnlockFastPreserves, UnlockSlowPathPreserves, DequeuePreserves, NotifyPreserves
     DEF MutexStep
<1>3. ASSUME NEW t \in Threads, ClearOwnerThread(t) PROVE MutexInv'
  BY <1>3, ClearOwnerThreadPreserves
<1>4. ASSUME NEW t \in Threads, WaitFor(t, TRUE) \/ WaitFor(t, FALSE) PROVE MutexInv'
  BY <1>4, WaitForPreserves
<1>5. ASSUME NEW t \in Threads, WaitStep(t) \/ WaitForTimesOut(t) PROVE MutexInv'
  BY <1>5, WaitForLocksQueuePreserves, WaitForEnqueuesPreserves,
     WaitForIsNotifiedPreserves, TimeoutLocksQueuePreserves, TimeoutDequeuesPreserves,
     WaitForTimesOutPreserves DEF WaitStep
<1>6. ASSUME NEW t \in Threads, NEW n \in NotifyCounts, CvNotify(t, n) PROVE MutexInv'
  BY <1>6, CvNotifyPreserves
<1>7. ASSUME NEW t \in Threads, NotifyStep(t) PROVE MutexInv'
  BY <1>7, CvNotifyLocksQueuePreserves, CvNotifyDequeuesPreserves,
     NotifyAllInListPreserves, NotifyDestroyedNodePreserves DEF NotifyStep
<1>8. CASE UNCHANGED vars
  BY <1>8 DEF vars, mutex, condition, calls, MutexInv, TypeOK, LockInv, QueueInv,
     UnlockInv, Holds, Notifying, Waking
<1>9. QED
  BY <1>1, <1>2, <1>3, <1>4, <1>5, <1>6, <1>7, <1>8 DEF Next

\* The lock bit, the queue lock, the owner and the lists of waiters agree with
\* what the threads are doing: mutual exclusion, and the DCHECKs.
THEOREM MutexInvariant == Spec => []MutexInv
<1>1. Init => MutexInv
  BY InitEstablishes
<1>2. MutexInv /\ [Next]_vars => MutexInv'
  BY NextPreserves
<1>3. QED
  BY <1>1, <1>2, PTL DEF Spec

\* The comment in UnlockSlowPath: the head of the queue is not null.
THEOREM UnlockAlwaysFindsWaiter == Spec => []UnlockFindsWaiter
<1>1. MutexInv => UnlockFindsWaiter
  BY DEF MutexInv, UnlockInv, UnlockFindsWaiter
<1>2. QED
  BY <1>1, MutexInvariant, PTL

-----------------------------------------------------------------------------
(* No wakeup of a waiter for the mutex is lost. *)

\* A thread that will take the mutex, or wake somebody who will.
Contender(t) ==
  \/ pc[t] \in {"slow", "notify"}
  \/ pc[t] = "sleep" /\ t \notin should_wait

\* A step of a thread that is no contender, or remains one.
LEMMA ContenderFrame ==
  ASSUME TypeOK, FreeMutexHasContender, NEW t \in Threads, NEW state \in States,
         UNCHANGED <<locked, queue, should_wait>>,
         pc' = [pc EXCEPT ![t] = state],
         Contender(t) => state \in {"slow", "notify"}
  PROVE  FreeMutexHasContender'
<1>1. \A u \in Threads : Contender(u) => Contender(u)'
  BY DEF TypeOK, Contender
<1>2. QED
  BY <1>1 DEF FreeMutexHasContender, Contender

\* Every Unlock that leaves waiters behind has one of them in hand.
LEMMA ContenderPreserved ==
  ASSUME MutexInv, MutexInv', FreeMutexHasContender, [Next]_vars
  PROVE  FreeMutexHasContender'
<1> USE ThreadsAssumption DEF MutexInv
<1>0. ASSUME locked' \/ queue' = <<>> PROVE FreeMutexHasContender'
  BY <1>0 DEF FreeMutexHasContender
<1>1. ASSUME NEW t \in Threads, LockFast(t) \/ TryLock(t) \/ TryLockExplicit(t)
      PROVE  FreeMutexHasContender'
  BY <1>0, <1>1 DEF LockFast, TryLock, TryLockExplicit
<1>2. ASSUME NEW t \in Threads, LockFastFails(t) PROVE FreeMutexHasContender'
  BY <1>2, ContenderFrame DEF LockFastFails, GoTo, mutex, States, Contender
<1>3. ASSUME NEW t \in Threads, TryLockWaiterQueueExplicit(t) \/ Enqueue(t)
      PROVE  FreeMutexHasContender'
  <2>1. locked
    BY <1>3 DEF TryLockWaiterQueueExplicit, Enqueue, LockInv, At
  <2>2. locked' = locked
    BY <1>3 DEF TryLockWaiterQueueExplicit, Enqueue
  <2>3. QED
    BY <1>0, <2>1, <2>2
<1>4. ASSUME NEW t \in Threads, WakeUp(t) PROVE FreeMutexHasContender'
  BY <1>4, ContenderFrame DEF WakeUp, GoTo, mutex, States, Contender
<1>5. ASSUME NEW t \in Threads,
             SetCurrentThreadAsOwner(t) \/ ClearOwnerThread(t) \/ UnlockSlowPath(t)
      PROVE  FreeMutexHasContender'
  <2>1. locked
    BY <1>5 DEF SetCurrentThreadAsOwner, ClearOwnerThread, UnlockSlowPath, At, LockInv, Holds
  <2>2. locked' = locked
    BY <1>5 DEF SetCurrentThreadAsOwner, ClearOwnerThread, UnlockSlowPath, mutex
  <2>3. QED
    BY <1>0, <2>1, <2>2
<1>6. ASSUME NEW t \in Threads, UnlockFast(t) PROVE FreeMutexHasContender'
  <2>1. locked
    BY <1>6 DEF UnlockFast, At, LockInv, Holds
  <2>2. locked' = locked \/ queue' = <<>>
    BY <1>6 DEF UnlockFast, kLockedUncontended
  <2>3. QED
    BY <1>0, <2>1, <2>2
<1>7. ASSUME NEW t \in Threads, Dequeue(t) PROVE FreeMutexHasContender'
  <2>1. pc'[t] = "notify"
    BY <1>7 DEF Dequeue, GoTo, TypeOK
  <2>2. QED
    BY <2>1 DEF FreeMutexHasContender
<1>8. ASSUME NEW t \in Threads, Notify(t) PROVE FreeMutexHasContender'
  <2> DEFINE w == batch[t][1]
  <2>1. w \in Threads /\ pc[w] = "sleep" /\ w # t
    BY <1>8 DEF Notify, At, QueueInv, TypeOK
  <2>2. pc'[w] = "sleep"
    BY <1>8, <2>1 DEF Notify, GoTo, TypeOK
  <2>3. w \in Nodes(batch[t])
    <3>1. batch[t] \in Seq(Threads \cup {NoThread}) /\ Len(batch[t]) = 1
      BY <1>8 DEF Notify, At, QueueInv, TypeOK
    <3>2. 1 \in DOMAIN batch[t]
      BY <3>1, LenProperties
    <3>3. QED
      BY <3>2 DEF Nodes
  <2>4. w \notin should_wait'
    BY <1>8, <2>3 DEF Notify
  <2>5. QED
    BY <2>1, <2>2, <2>4 DEF FreeMutexHasContender
<1>9. ASSUME NEW t \in Threads,
             \/ \E timed \in BOOLEAN : WaitFor(t, timed)
             \/ WaitForLocksQueue(t) \/ WaitForEnqueues(t) \/ WaitForIsNotified(t)
             \/ WaitForTimesOut(t) \/ TimeoutDequeues(t)
             \/ \E n \in NotifyCounts : CvNotify(t, n)
      PROVE  FreeMutexHasContender'
  <2>1. PICK state \in States :
          /\ pc' = [pc EXCEPT ![t] = state]
          /\ UNCHANGED <<locked, queue, should_wait>>
          /\ pc[t] \notin {"slow", "notify", "sleep"}
    BY <1>9 DEF WaitFor, WaitForLocksQueue, WaitForEnqueues, WaitForIsNotified,
       WaitForTimesOut, TimeoutDequeues, CvNotify, At, GoTo, mutex, States
  <2>2. QED
    BY <2>1, ContenderFrame DEF Contender
<1>10. ASSUME NEW t \in Threads,
              \/ TimeoutLocksQueue(t) \/ CvNotifyLocksQueue(t)
              \/ CvNotifyDequeues(t) \/ NotifyAllInList(t) \/ NotifyDestroyedNode(t)
       PROVE  FreeMutexHasContender'
  <2>1. PICK state \in States :
          /\ pc' = [pc EXCEPT ![t] = state]
          /\ UNCHANGED <<locked, queue, should_wait>>
          /\ pc[t] \notin {"slow", "notify", "sleep"}
    BY <1>10 DEF TimeoutLocksQueue, CvNotifyLocksQueue, CvNotifyDequeues,
       NotifyAllInList, NotifyDestroyedNode, DequeueExplicit, AfterNotify, At, GoTo, mutex,
       States
  <2>2. QED
    BY <2>1, ContenderFrame DEF Contender
<1>11. CASE UNCHANGED vars
  BY <1>11 DEF vars, mutex, FreeMutexHasContender
<1>12. QED
  BY <1>1, <1>2, <1>3, <1>4, <1>5, <1>6, <1>7, <1>8, <1>9, <1>10, <1>11
     DEF Next, MutexStep, WaitStep, NotifyStep

\* When the mutex is free and somebody sleeps in its queue, somebody is awake
\* who will take the mutex.
THEOREM NoLostWakeup == Spec => []FreeMutexHasContender
<1>1. Init => FreeMutexHasContender
  BY DEF Init, FreeMutexHasContender
<1>2. MutexInv /\ MutexInv' /\ FreeMutexHasContender /\ [Next]_vars
        => FreeMutexHasContender'
  BY ContenderPreserved
<1>3. QED
  BY <1>1, <1>2, MutexInvariant, PTL DEF Spec

-----------------------------------------------------------------------------
(* Mutex and condition implement the monitor. *)

Holder == IF \E t \in Threads : Holds(t) THEN CHOOSE t \in Threads : Holds(t) ELSE NoThread
Waiting == {t \in cv_should_wait : pc[t] \in {"cv_sleep", "notify"}}

\* The holder of the monitor is the one thread between Lock and Unlock, before
\* and after a step.
LEMMA HolderDefined ==
  ASSUME MutexInv, MutexInv', NEW t \in Threads
  PROVE  /\ Holds(t) => Holder = t /\ locked
         /\ ~locked => Holder = NoThread
         /\ Holds(t)' => Holder' = t
         /\ ~locked' => Holder' = NoThread
<1>1. Holds(t) => Holder = t /\ locked
  BY DEF MutexInv, LockInv, Holder
<1>2. ~locked => Holder = NoThread
  BY DEF MutexInv, LockInv, Holder
<1>3. Holds(t)' => Holder' = t
  <2>1. \A u, v \in Threads : Holds(u)' /\ Holds(v)' => u = v
    BY DEF MutexInv, LockInv
  <2>2. QED
    BY <2>1 DEF Holder
<1>4. ~locked' => Holder' = NoThread
  <2>1. locked' <=> \E u \in Threads : Holds(u)'
    BY DEF MutexInv, LockInv
  <2>2. QED
    BY <2>1 DEF Holder
<1>5. QED
  BY <1>1, <1>2, <1>3, <1>4

\* A step of one thread that neither locks nor unlocks the mutex.
LEMMA HolderFrame ==
  ASSUME MutexInv, MutexInv', NEW t \in Threads, NEW state \in States,
         pc' = [pc EXCEPT ![t] = state],
         \A u \in Threads : u # t => (owner' = u <=> owner = u),
         Holds(t)' <=> Holds(t)
  PROVE  Holder' = Holder
<1>1. \A u \in Threads : Holds(u)' <=> Holds(u)
  BY DEF MutexInv, TypeOK, Holds, Notifying
<1>2. CASE \E u \in Threads : Holds(u)
  <2>1. PICK u \in Threads : Holds(u)
    BY <1>2
  <2>2. QED
    BY <1>1, <2>1, HolderDefined
<1>3. CASE ~\E u \in Threads : Holds(u)
  BY <1>1, <1>3 DEF Holder
<1>4. QED
  BY <1>2, <1>3

\* A step of one thread outside of the wait, who may become a waiter that has
\* not yet given up the mutex.
LEMMA WaitingFrame ==
  ASSUME TypeOK, NEW t \in Threads, NEW state \in States,
         pc' = [pc EXCEPT ![t] = state],
         cv_should_wait' \in {cv_should_wait, cv_should_wait \cup {t}},
         pc[t] \notin {"cv_sleep", "notify"}, state \notin {"cv_sleep", "notify"}
  PROVE  Waiting' = Waiting
BY DEF TypeOK, Waiting

\* The CAS that locks is an Acquire.
LEMMA AcquireStep ==
  ASSUME MutexInv, MutexInv', NEW t \in Threads,
         LockFast(t) \/ TryLock(t) \/ TryLockExplicit(t)
  PROVE  M!Next
<1> USE DEF MutexInv
<1>1. /\ ~locked /\ pc[t] \in {"idle", "relock", "slow"}
      /\ pc' = [pc EXCEPT ![t] = "own"] /\ cv_should_wait' = cv_should_wait
  BY DEF LockFast, TryLock, TryLockExplicit, At, GoTo, kUnlocked, condition
<1>2. Holds(t)'
  BY <1>1 DEF TypeOK, Holds
<1>3. Holder = NoThread /\ Holder' = t
  BY <1>1, <1>2, HolderDefined
<1>4. t \notin Waiting /\ Waiting' = Waiting
  BY <1>1, WaitingFrame DEF States, Waiting
<1>5. M!Acquire(t)
  BY <1>3, <1>4 DEF M!Acquire, Holder, Waiting
<1>6. QED
  BY <1>5 DEF M!Next

\* The CAS or store that unlocks is a Release, or a Wait of a thread in WaitFor
\* that nobody has notified yet.
LEMMA ReleaseStep ==
  ASSUME MutexInv, MutexInv', NEW t \in Threads,
         Holds(t), ~locked', pc[t] \in {"unlock", "dequeue"},
         NEW state \in States, pc' = [pc EXCEPT ![t] = state],
         cv_should_wait' = cv_should_wait
  PROVE  M!Next
<1>1. Holder = t /\ Holder' = NoThread
  BY HolderDefined
<1>2. Waiting' = Waiting \/ Waiting' = Waiting \cup {t}
  BY DEF MutexInv, TypeOK, Waiting
<1>3. M!Release(t) \/ M!Wait(t)
  BY <1>1, <1>2 DEF M!Release, M!Wait, Holder, Waiting
<1>4. QED
  BY <1>3 DEF M!Next

\* Each step is one of the monitor's or leaves holder and waiters alone.
LEMMA StepsRefineMonitor ==
  ASSUME MutexInv, MutexInv', [Next]_vars
  PROVE  [M!Next]_(M!vars)
<1> USE ThreadsAssumption DEF MutexInv
<1>0. SUFFICES \/ Holder' = Holder /\ Waiting' = Waiting
               \/ M!Next
  BY DEF M!vars, Holder, Waiting
<1>1. ASSUME NEW t \in Threads, LockFast(t) \/ TryLock(t) \/ TryLockExplicit(t)
      PROVE  M!Next
  BY <1>1, AcquireStep
<1>2. ASSUME NEW t \in Threads, Dequeue(t) PROVE M!Next
  BY <1>2, ReleaseStep DEF Dequeue, At, GoTo, Holds, States, condition
<1>3. ASSUME NEW t \in Threads, UnlockFast(t), kLockedUncontended PROVE M!Next
  BY <1>3, ReleaseStep DEF UnlockFast, AfterUnlock, At, GoTo, Holds, States, condition
<1>4. ASSUME NEW t \in Threads, Notify(t)
      PROVE  (Holder' = Holder /\ Waiting' = Waiting) \/ M!Next
  <2>1. PICK state \in {"idle", "cv_sleep"} : pc' = [pc EXCEPT ![t] = state]
    BY <1>4 DEF Notify, AfterUnlock, GoTo
  <2>2. pc[t] = "notify" /\ owner' = owner /\ cv_should_wait' = cv_should_wait
    BY <1>4 DEF Notify, At, condition
  <2>3. Holder' = Holder
    <3>1. ~Holds(t) /\ ~Holds(t)' /\ state \in States
      BY <2>1, <2>2 DEF TypeOK, States, Holds, Notifying
    <3>2. QED
      BY <2>1, <2>2, <3>1, HolderFrame
  <2>4. Waiting' = Waiting \/ (t \in Waiting /\ Waiting' = Waiting \ {t})
    BY <2>1, <2>2 DEF TypeOK, Waiting
  <2>5. (Holder' = Holder /\ Waiting' = Waiting) \/ M!Wake(t)
    BY <2>3, <2>4 DEF M!Wake, Holder, Waiting
  <2>6. QED
    BY <2>5 DEF M!Next
<1>5. ASSUME NEW t \in Threads, WaitForTimesOut(t) PROVE M!Next
  <2>1. /\ pc[t] = "cv_sleep" /\ pc' = [pc EXCEPT ![t] = "cv_timeout"] /\ owner' = owner
        /\ t \in cv_should_wait /\ cv_should_wait' = cv_should_wait \ {t}
    BY <1>5 DEF WaitForTimesOut, At, GoTo
  <2>2. Holder' = Holder
    <3>1. ~Holds(t) /\ ~Holds(t)' /\ "cv_timeout" \in States
      BY <2>1 DEF TypeOK, States, Holds, Notifying
    <3>2. QED
      BY <2>1, <3>1, HolderFrame
  <2>3. t \in Waiting /\ Waiting' = Waiting \ {t}
    BY <2>1 DEF TypeOK, Waiting
  <2>4. M!Wake(t)
    BY <2>2, <2>3 DEF M!Wake, Holder, Waiting
  <2>5. QED
    BY <2>4 DEF M!Next
<1>6. ASSUME NEW t \in Threads, WaitForIsNotified(t)
      PROVE  Holder' = Holder /\ Waiting' = Waiting
  <2>1. /\ pc[t] = "cv_sleep" /\ pc' = [pc EXCEPT ![t] = "relock"] /\ owner' = owner
        /\ t \notin cv_should_wait /\ cv_should_wait' = cv_should_wait
    BY <1>6 DEF WaitForIsNotified, At, GoTo, condition
  <2>2. Holder' = Holder
    <3>1. ~Holds(t) /\ ~Holds(t)' /\ "relock" \in States
      BY <2>1 DEF TypeOK, States, Holds, Notifying
    <3>2. QED
      BY <2>1, <3>1, HolderFrame
  <2>3. QED
    BY <2>1, <2>2 DEF TypeOK, Waiting
<1>7. ASSUME NEW t \in Threads, NotifyAllInList(t)
      PROVE  (Holder' = Holder /\ Waiting' = Waiting) \/ M!Next
  <2> DEFINE u == Head(batch[t])
  <2>1. PICK state \in {"idle", "cs", "cv_wake"} :
          /\ pc' = [pc EXCEPT ![t] = state]
          /\ state = "cs" => owner = t
          /\ state = "idle" => owner # t
    BY <1>7 DEF NotifyAllInList, AfterNotify, GoTo
  <2>2. pc[t] = "cv_wake" /\ owner' = owner /\ cv_should_wait' = cv_should_wait \ {u}
    BY <1>7 DEF NotifyAllInList, At
  <2> HIDE DEF u
  <2>3. Holder' = Holder
    <3>1. Holds(t)' <=> Holds(t)
      BY <2>1, <2>2 DEF TypeOK, Holds, Notifying
    <3>2. state \in States
      BY DEF States
    <3>3. QED
      BY <2>1, <2>2, <3>1, <3>2, HolderFrame
  <2>4. Waiting' = Waiting \/ (u \in Waiting /\ Waiting' = Waiting \ {u})
    BY <2>1, <2>2 DEF TypeOK, Waiting
  <2>5. (Holder' = Holder /\ Waiting' = Waiting) \/ \E v \in Threads : M!Wake(v)
    BY <2>3, <2>4 DEF M!Wake, Holder, Waiting, TypeOK
  <2>6. QED
    BY <2>5 DEF M!Next
<1>8. ASSUME NEW t \in Threads, NEW state \in States,
             pc' = [pc EXCEPT ![t] = state],
             cv_should_wait' \in {cv_should_wait, cv_should_wait \cup {t}},
             pc[t] \notin {"cv_sleep", "notify"}, state \notin {"cv_sleep", "notify"},
             \A u \in Threads : u # t => (owner' = u <=> owner = u),
             Holds(t)' <=> Holds(t)
      PROVE  Holder' = Holder /\ Waiting' = Waiting
  <2>1. Holder' = Holder
    BY <1>8, HolderFrame
  <2>2. Waiting' = Waiting
    BY <1>8, WaitingFrame
  <2>3. QED
    BY <2>1, <2>2
<1>9. ASSUME NEW t \in Threads,
             \/ LockFastFails(t) \/ TryLockWaiterQueueExplicit(t) \/ Enqueue(t) \/ WakeUp(t)
             \/ UnlockSlowPath(t) \/ (UnlockFast(t) /\ ~kLockedUncontended)
      PROVE  Holder' = Holder /\ Waiting' = Waiting
  <2>1. PICK state \in States :
          /\ pc' = [pc EXCEPT ![t] = state]
          /\ owner' = owner /\ cv_should_wait' = cv_should_wait
          /\ pc[t] \notin {"cv_sleep", "notify"} /\ state \notin {"cv_sleep", "notify"}
          /\ \/ /\ pc[t] \in {"idle", "relock", "slow", "enqueue", "sleep"}
                /\ state \in {"slow", "enqueue", "sleep"}
             \/ /\ pc[t] \in {"unlock", "unlock_slow"}
                /\ state \in {"unlock_slow", "dequeue"}
    BY <1>9 DEF LockFastFails, TryLockWaiterQueueExplicit, Enqueue, WakeUp,
       UnlockSlowPath, UnlockFast, At, GoTo, condition, States
  <2>2. Holds(t)' <=> Holds(t)
    BY <2>1 DEF TypeOK, Holds, Notifying
  <2>3. QED
    BY <1>8, <2>1, <2>2
<1>10. ASSUME NEW t \in Threads, SetCurrentThreadAsOwner(t) \/ ClearOwnerThread(t)
       PROVE  Holder' = Holder /\ Waiting' = Waiting
  <2>1. PICK state \in {"cs", "unlock"} :
          /\ pc' = [pc EXCEPT ![t] = state]
          /\ pc[t] \in {"own", "cs", "cv_unlock"} /\ cv_should_wait' = cv_should_wait
          /\ owner' \in {t, NoThread}
    BY <1>10 DEF SetCurrentThreadAsOwner, ClearOwnerThread, At, GoTo, condition
  <2>2. owner \in {t, NoThread}
    BY <2>1 DEF LockInv
  <2>3. Holds(t)' <=> Holds(t)
    BY <2>1 DEF TypeOK, Holds, Notifying
  <2>4. state \in States
    BY DEF States
  <2>5. QED
    BY <1>8, <2>1, <2>2, <2>3, <2>4
<1>11. ASSUME NEW t \in Threads,
              \/ \E timed \in BOOLEAN : WaitFor(t, timed)
              \/ WaitForLocksQueue(t) \/ WaitForEnqueues(t) \/ TimeoutDequeues(t)
              \/ TimeoutLocksQueue(t)
       PROVE  Holder' = Holder /\ Waiting' = Waiting
  <2>1. PICK state \in States :
          /\ pc' = [pc EXCEPT ![t] = state] /\ owner' = owner
          /\ cv_should_wait' \in {cv_should_wait, cv_should_wait \cup {t}}
          /\ \/ /\ pc[t] \in {"cs", "cv_lock", "cv_enqueue"}
                /\ state \in {"cv_lock", "cv_enqueue", "cv_unlock"}
             \/ /\ pc[t] \in {"cv_timeout", "cv_remove"}
                /\ state \in {"cv_remove", "relock"}
    BY <1>11 DEF WaitFor, WaitForLocksQueue, WaitForEnqueues, TimeoutDequeues,
       TimeoutLocksQueue, DequeueExplicit, At, GoTo, condition, States
  <2>2. Holds(t)' <=> Holds(t)
    BY <2>1 DEF TypeOK, Holds, Notifying
  <2>3. QED
    BY <1>8, <2>1, <2>2
<1>12. ASSUME NEW t \in Threads,
              \/ \E n \in NotifyCounts : CvNotify(t, n)
              \/ CvNotifyLocksQueue(t) \/ CvNotifyDequeues(t)
       PROVE  Holder' = Holder /\ Waiting' = Waiting
  <2>1. PICK state \in {"idle", "cs", "cv_notify", "cv_dequeue", "cv_wake"} :
          /\ pc' = [pc EXCEPT ![t] = state] /\ owner' = owner
          /\ cv_should_wait' = cv_should_wait
          /\ pc[t] \in {"idle", "cs", "cv_notify", "cv_dequeue"}
          /\ state = "cs" => owner = t
          /\ state = "idle" => owner # t
    BY <1>12 DEF CvNotify, CvNotifyLocksQueue, CvNotifyDequeues, DequeueExplicit,
       AfterNotify, At, GoTo, condition
  <2>2. pc[t] = "idle" => owner # t
    BY DEF LockInv, Holds, Notifying
  <2>3. pc[t] = "cs" => owner = t
    BY DEF LockInv
  <2>4. Holds(t)' <=> Holds(t)
    BY <2>1, <2>2, <2>3 DEF TypeOK, Holds, Notifying
  <2>5. state \in States
    BY DEF States
  <2>6. QED
    BY <1>8, <2>1, <2>4, <2>5
<1>a. ASSUME NEW t \in Threads, NotifyDestroyedNode(t)
      PROVE  Holder' = Holder /\ Waiting' = Waiting
  <2>1. PICK state \in {"hung", "undefined"} : pc' = [pc EXCEPT ![t] = state]
    BY <1>a DEF NotifyDestroyedNode, GoTo
  <2>2. pc[t] = "cv_wake" /\ owner' = owner /\ cv_should_wait' = cv_should_wait
    BY <1>a DEF NotifyDestroyedNode, At, condition
  <2>3. (Holds(t)' <=> Holds(t)) /\ state \in States
    BY <2>1, <2>2 DEF TypeOK, Holds, Notifying, States
  <2>4. QED
    BY <1>8, <2>1, <2>2, <2>3
<1>13. ASSUME UNCHANGED vars PROVE Holder' = Holder /\ Waiting' = Waiting
  BY <1>13 DEF vars, mutex, condition, calls, Holder, Waiting, Holds, Notifying
<1>14. QED
  BY <1>1, <1>2, <1>3, <1>4, <1>5, <1>6, <1>7, <1>9, <1>10, <1>11, <1>12, <1>13,
     <1>a DEF Next, MutexStep, WaitStep, NotifyStep

\* Atomics.Mutex and Atomics.Condition implement the abstract monitor: waiting
\* gives up the mutex and begins to wait in one step.
THEOREM SynchronizationIsAMonitor == Spec => ImplementsMonitor
<1>1. Init => M!Init
  BY DEF Init, M!Init, Holds, Notifying
<1>2. MutexInv /\ MutexInv' /\ [Next]_vars => [M!Next]_(M!vars)
  BY StepsRefineMonitor
<1>3. QED
  BY <1>1, <1>2, MutexInvariant, PTL DEF Spec, ImplementsMonitor, M!Spec

-----------------------------------------------------------------------------
(* How a waiter of the condition gets out of reach. *)

\* A node that has not been notified belongs to a thread in WaitFor, between
\* the enqueue and the end of its sleep.
WaitersInv ==
  \A t \in cv_should_wait :
    /\ call[t] # "lock"
    /\ pc[t] \in {"cv_unlock", "unlock", "unlock_slow", "dequeue", "notify", "cv_sleep"}

\* A later notify will find x in the queue, or a thread in Notify has it.
Reached(x) ==
  \/ x \in Nodes(cv_queue)
  \/ \E u \in Threads : Waking(u) /\ x \in Nodes(batch[u])

\* No waiter that could be reached before is out of reach.
KeepsReach ==
  \A x \in cv_should_wait' : Reached(x)' \/ (x \in cv_should_wait /\ ~Reached(x))

LEMMA KeepsReachMeans == KeepsReach => Unreachable' \subseteq Unreachable
<1>1. Unreachable = {x \in cv_should_wait : ~Reached(x)}
  BY Zenon DEF Unreachable, Reached
<1>2. Unreachable' = {x \in cv_should_wait' : ~Reached(x)'}
  BY Zenon DEF Unreachable, Reached
<1>3. QED
  BY <1>1, <1>2, Zenon DEF KeepsReach

\* One thread moves and no list of the condition changes.
LEMMA ReachFrame ==
  ASSUME TypeOK, WaitersInv, NEW t \in Threads, NEW state,
         pc' = [pc EXCEPT ![t] = state], pc[t] # "cv_wake", state # "cv_wake",
         UNCHANGED cv_queue, cv_should_wait' \subseteq cv_should_wait,
         \A u \in Threads : u # t => UNCHANGED batch[u],
         \A u \in Threads : u # t => UNCHANGED call[u],
         t \in cv_should_wait' =>
           /\ call'[t] # "lock"
           /\ state \in {"cv_unlock", "unlock", "unlock_slow", "dequeue", "notify", "cv_sleep"}
  PROVE  WaitersInv' /\ KeepsReach
<1>1. /\ pc'[t] = state /\ \A u \in Threads : u # t => pc'[u] = pc[u]
      /\ cv_should_wait \subseteq Threads
  BY DEF TypeOK
<1>2. WaitersInv'
  BY <1>1 DEF WaitersInv
<1>3. Nodes(cv_queue)' = Nodes(cv_queue)
  BY DEF Nodes
<1>4. \A u \in Threads : u # t => Nodes(batch[u])' = Nodes(batch[u]) /\ (Waking(u)' <=> Waking(u))
  BY <1>1 DEF Nodes, Waking
<1>5. ~Waking(t) /\ ~Waking(t)'
  BY <1>1 DEF Waking
<1>6. \A x \in cv_should_wait' : x \in cv_should_wait /\ (Reached(x)' <=> Reached(x))
  BY <1>3, <1>4, <1>5, Zenon DEF Reached
<1>7. QED
  BY <1>2, <1>6, Zenon DEF KeepsReach

\* The steps of the mutex.
LEMMA MutexKeepsReach ==
  ASSUME MutexInv, WaitersInv, NEW t \in Threads,
         \/ LockFast(t) \/ LockFastFails(t) \/ TryLock(t) \/ MutexStep(t) \/ ClearOwnerThread(t)
  PROVE  WaitersInv' /\ KeepsReach
<1> USE DEF MutexInv, GoTo, At, mutex, condition, calls
<1>1. CASE LockFast(t) \/ LockFastFails(t) \/ TryLock(t)
  BY <1>1, ReachFrame DEF LockFast, LockFastFails, TryLock, WaitersInv
<1>2. CASE TryLockExplicit(t) \/ TryLockWaiterQueueExplicit(t) \/ Enqueue(t) \/ WakeUp(t)
  BY <1>2, ReachFrame DEF TryLockExplicit, TryLockWaiterQueueExplicit, Enqueue, WakeUp, WaitersInv
<1>3. CASE UnlockFast(t) \/ UnlockSlowPath(t) \/ ClearOwnerThread(t)
  BY <1>3, ReachFrame DEF UnlockFast, UnlockSlowPath, ClearOwnerThread, AfterUnlock, WaitersInv
<1>4. CASE Dequeue(t) \/ Notify(t)
  <2>1. \A u \in Threads : u # t => UNCHANGED batch[u]
    BY <1>4 DEF Dequeue, Notify, TypeOK
  <2>2. QED
    BY <1>4, <2>1, ReachFrame DEF Dequeue, Notify, AfterUnlock, WaitersInv
<1>5. CASE SetCurrentThreadAsOwner(t)
  <2>1. /\ pc[t] = "own" /\ pc' = [pc EXCEPT ![t] = "cs"] /\ t \notin cv_should_wait
        /\ call' = [call EXCEPT ![t] = "lock"]
        /\ UNCHANGED <<cv_queue, cv_should_wait>>
    BY <1>5 DEF SetCurrentThreadAsOwner, WaitersInv
  <2>2. /\ \A u \in Threads : DOMAIN batch'[u] = DOMAIN batch[u]
        /\ \A u \in Threads : \A i \in DOMAIN batch[u] : batch[u][i] # t => batch'[u][i] = batch[u][i]
    <3>1. CASE call[t] = "lock"
      BY <1>5, <3>1 DEF SetCurrentThreadAsOwner
    <3>2. CASE call[t] # "lock"
      <4>1. \A u \in Threads : batch'[u] = [i \in DOMAIN batch[u] |->
                         IF batch[u][i] = t THEN NoThread ELSE batch[u][i]]
        BY <1>5, <3>2, Zenon DEF SetCurrentThreadAsOwner, DestroyNode
      <4>2. QED
        BY <4>1, Zenon
    <3>3. QED
      BY <3>1, <3>2
  <2>3. /\ \A u \in Threads : u # t => pc'[u] = pc[u] /\ call'[u] = call[u]
        /\ pc'[t] = "cs" /\ cv_should_wait \subseteq Threads
    BY <2>1 DEF TypeOK
  <2>4. WaitersInv'
    BY <2>1, <2>3 DEF WaitersInv
  <2>5. \A u \in Threads : Waking(u)' <=> Waking(u)
    BY <2>1, <2>3 DEF Waking
  <2>6. \A u \in Threads : \A x \in cv_should_wait : x \in Nodes(batch[u]) => x \in Nodes(batch[u])'
    BY <2>1, <2>2, Zenon DEF Nodes
  <2>7. Nodes(cv_queue)' = Nodes(cv_queue)
    BY <2>1 DEF Nodes
  <2>8. KeepsReach
    BY <2>1, <2>5, <2>6, <2>7, Zenon DEF KeepsReach, Reached
  <2>9. QED
    BY <2>4, <2>8
<1>6. QED
  BY <1>1, <1>2, <1>3, <1>4, <1>5, Zenon DEF MutexStep

\* WaitFor, but for the step in which a timeout takes its node out.
LEMMA WaitKeepsReach ==
  ASSUME MutexInv, WaitersInv, NEW t \in Threads,
         \/ WaitFor(t, TRUE) \/ WaitFor(t, FALSE) \/ WaitForLocksQueue(t) \/ WaitForEnqueues(t)
         \/ WaitForIsNotified(t) \/ WaitForTimesOut(t) \/ TimeoutLocksQueue(t)
  PROVE  WaitersInv' /\ KeepsReach
<1> USE DEF MutexInv, GoTo, At, mutex, condition, calls
<1>1. CASE WaitFor(t, TRUE) \/ WaitFor(t, FALSE)
  <2>1. /\ pc[t] = "cs" /\ pc' = [pc EXCEPT ![t] = "cv_lock"] /\ t \notin cv_should_wait
        /\ UNCHANGED <<cv_queue, cv_should_wait, batch>>
        /\ \A u \in Threads : u # t => call'[u] = call[u]
    BY <1>1 DEF WaitFor, WaitersInv, TypeOK
  <2>2. QED
    BY <2>1, ReachFrame
<1>2. CASE WaitForLocksQueue(t) \/ WaitForIsNotified(t) \/ WaitForTimesOut(t)
  BY <1>2, ReachFrame DEF WaitForLocksQueue, WaitForIsNotified, WaitForTimesOut, WaitersInv
<1>3. CASE TimeoutLocksQueue(t)
  <2>1. PICK state \in {"cv_remove", "relock"} : pc' = [pc EXCEPT ![t] = state]
    BY <1>3 DEF TimeoutLocksQueue, DequeueExplicit
  <2>2. QED
    BY <1>3, <2>1, ReachFrame DEF TimeoutLocksQueue, DequeueExplicit, WaitersInv
<1>4. CASE WaitForEnqueues(t)
  <2>1. /\ pc[t] = "cv_enqueue" /\ pc' = [pc EXCEPT ![t] = "cv_unlock"]
        /\ cv_should_wait' = cv_should_wait \cup {t} /\ cv_queue' = Append(cv_queue, t)
        /\ UNCHANGED <<call, batch>> /\ call[t] # "lock"
    BY <1>4 DEF WaitForEnqueues, LockInv
  <2>2. /\ \A u \in Threads : u # t => pc'[u] = pc[u]
        /\ pc'[t] = "cv_unlock" /\ cv_should_wait \subseteq Threads
    BY <2>1 DEF TypeOK
  <2>3. WaitersInv'
    BY <2>1, <2>2 DEF WaitersInv
  <2>4. Nodes(cv_queue)' = Nodes(cv_queue) \cup {t}
    <3>1. /\ cv_queue \in Seq(Threads) /\ Len(cv_queue) \in Nat /\ DOMAIN cv_queue = 1..Len(cv_queue)
          /\ DOMAIN cv_queue' = 1..(Len(cv_queue) + 1)
          /\ \A i \in 1..Len(cv_queue) : cv_queue'[i] = cv_queue[i]
          /\ cv_queue'[Len(cv_queue) + 1] = t
      BY <2>1 DEF TypeOK
    <3>2. /\ \A i \in 1..(Len(cv_queue) + 1) : i \in 1..Len(cv_queue) \/ i = Len(cv_queue) + 1
          /\ 1..Len(cv_queue) \subseteq 1..(Len(cv_queue) + 1)
          /\ Len(cv_queue) + 1 \in 1..(Len(cv_queue) + 1)
      BY <3>1
    <3>3. QED
      BY <3>1, <3>2, Zenon DEF Nodes
  <2>5. \A u \in Threads : (Waking(u)' <=> Waking(u)) /\ Nodes(batch[u])' = Nodes(batch[u])
    BY <2>1, <2>2 DEF Waking, Nodes
  <2>6. KeepsReach
    BY <2>1, <2>4, <2>5, Zenon DEF KeepsReach, Reached
  <2>7. QED
    BY <2>3, <2>6
<1>5. QED
  BY <1>1, <1>2, <1>3, <1>4

\* Notify splits the queue: each node is in the batch or stays.
LEMMA SplitNodes ==
  ASSUME NEW q \in Seq(Threads), NEW n \in Nat
  PROVE  Nodes(q) \subseteq Nodes(FrontList(q, n)) \cup Nodes(BackList(q, n))
<1>1. SUFFICES ASSUME NEW i \in 1..Len(q)
               PROVE  q[i] \in Nodes(FrontList(q, n)) \cup Nodes(BackList(q, n))
  BY DEF Nodes
<1> DEFINE m == Taken(q, n)
<1>2. Len(q) \in Nat /\ m \in 0..Len(q)
  BY LenProperties DEF Taken
<1>3. CASE i <= m
  <2>1. /\ i \in DOMAIN FrontList(q, n) /\ FrontList(q, n)[i] = q[i]
    BY <1>2, <1>3 DEF FrontList
  <2>2. QED
    BY <2>1, Zenon DEF Nodes
<1>4. CASE ~(i <= m)
  <2>1. n # 0
    BY <1>1, <1>2, <1>4 DEF Taken
  <2>2. /\ i - m \in DOMAIN BackList(q, n) /\ BackList(q, n)[i - m] = q[i]
    <3>1. BackList(q, n) = SubSeq(q, m + 1, Len(q))
      BY <2>1 DEF BackList
    <3>2. m + 1 \in 1..Len(q) /\ i - m \in 1..(Len(q) - m)
      BY <1>1, <1>2, <1>4
    <3> HIDE DEF m
    <3>3. QED
      BY <1>2, <3>1, <3>2
  <2>3. QED
    BY <2>2, Zenon DEF Nodes
<1>5. QED
  BY <1>3, <1>4

LEMMA NotifyKeepsReach ==
  ASSUME MutexInv, WaitersInv, NEW t \in Threads,
         \/ \E n \in NotifyCounts : CvNotify(t, n)
         \/ CvNotifyLocksQueue(t) \/ CvNotifyDequeues(t) \/ NotifyAllInList(t)
  PROVE  WaitersInv' /\ KeepsReach
<1> USE DEF MutexInv, GoTo, At, mutex, condition, calls
<1>1. CASE \E n \in NotifyCounts : CvNotify(t, n)
  BY <1>1, ReachFrame DEF CvNotify, WaitersInv
<1>2. CASE CvNotifyLocksQueue(t)
  <2>1. PICK state \in {"cv_dequeue", "cs", "idle"} : pc' = [pc EXCEPT ![t] = state]
    BY <1>2 DEF CvNotifyLocksQueue, DequeueExplicit, AfterNotify
  <2>2. QED
    BY <1>2, <2>1, ReachFrame DEF CvNotifyLocksQueue, DequeueExplicit, WaitersInv
<1>3. CASE CvNotifyDequeues(t)
  <2>1. /\ pc[t] = "cv_dequeue" /\ batch' = [batch EXCEPT ![t] = FrontList(cv_queue, count[t])]
        /\ cv_queue' = BackList(cv_queue, count[t])
        /\ UNCHANGED <<cv_should_wait, call>>
    BY <1>3 DEF CvNotifyDequeues
  <2>2. PICK state \in {"idle", "cs", "cv_wake"} :
          /\ pc' = [pc EXCEPT ![t] = state]
          /\ cv_queue # <<>> => state = "cv_wake"
    BY <1>3 DEF CvNotifyDequeues, AfterNotify
  <2>3. /\ pc'[t] = state /\ batch'[t] = FrontList(cv_queue, count[t])
        /\ \A u \in Threads : u # t => pc'[u] = pc[u] /\ batch'[u] = batch[u]
        /\ t \notin cv_should_wait /\ cv_should_wait \subseteq Threads
    BY <2>1, <2>2 DEF TypeOK, WaitersInv
  <2>4. WaitersInv'
    BY <2>1, <2>3 DEF WaitersInv
  <2>5. cv_queue \in Seq(Threads) /\ count[t] \in Nat
    <3>1. cv_queue \in Seq(Threads) /\ count[t] \in NotifyCounts \cup {0}
      BY DEF TypeOK
    <3>2. NotifyCounts \cup {0} \subseteq Nat
      BY CountsAssumption
    <3>3. QED
      BY <3>1, <3>2
  <2>6. Nodes(cv_queue) \subseteq Nodes(batch[t])' \cup Nodes(cv_queue)'
    <3>1. /\ Nodes(batch[t])' = Nodes(FrontList(cv_queue, count[t]))
          /\ Nodes(cv_queue)' = Nodes(BackList(cv_queue, count[t]))
      BY <2>1, <2>3, Zenon DEF Nodes
    <3>2. QED
      BY <2>5, <3>1, SplitNodes, Zenon
  <2>7. ASSUME NEW x \in cv_should_wait, Reached(x) PROVE Reached(x)'
    <3>1. CASE x \in Nodes(cv_queue)
      <4>1. cv_queue # <<>>
        BY <3>1 DEF Nodes
      <4>2. Waking(t)'
        BY <2>2, <2>3, <4>1 DEF Waking
      <4>3. QED
        BY <2>6, <3>1, <4>2, Zenon DEF Reached
    <3>2. CASE \E u \in Threads : Waking(u) /\ x \in Nodes(batch[u])
      <4>1. PICK u \in Threads : Waking(u) /\ x \in Nodes(batch[u])
        BY <3>2
      <4>2. u # t
        BY <2>1, <4>1 DEF Waking
      <4>3. Waking(u)' /\ x \in Nodes(batch[u])'
        BY <2>3, <4>1, <4>2 DEF Waking, Nodes
      <4>4. QED
        BY <4>3 DEF Reached
    <3>3. QED
      BY <2>7, <3>1, <3>2 DEF Reached
  <2>8. QED
    BY <2>1, <2>4, <2>7, Zenon DEF KeepsReach
<1>4. CASE NotifyAllInList(t)
  <2>1. /\ pc[t] = "cv_wake" /\ cv_should_wait' = cv_should_wait \ {Head(batch[t])}
        /\ batch' = [batch EXCEPT ![t] = Tail(batch[t])]
        /\ UNCHANGED <<cv_queue, call>>
    BY <1>4 DEF NotifyAllInList
  <2>2. PICK state \in {"idle", "cs", "cv_wake"} :
          /\ pc' = [pc EXCEPT ![t] = state]
          /\ state = "cv_wake" <=> Len(batch[t]) # 1
    BY <1>4 DEF NotifyAllInList, AfterNotify
  <2>3. /\ pc'[t] = state /\ batch'[t] = Tail(batch[t])
        /\ \A u \in Threads : u # t => pc'[u] = pc[u] /\ batch'[u] = batch[u]
        /\ t \notin cv_should_wait /\ cv_should_wait \subseteq Threads
    BY <2>1, <2>2 DEF TypeOK, WaitersInv
  <2>4. WaitersInv'
    BY <2>1, <2>3 DEF WaitersInv
  <2>5. ASSUME NEW x \in Nodes(batch[t]), x # Head(batch[t])
        PROVE  x \in Nodes(batch[t])' /\ Waking(t)'
    <3>1. /\ batch[t] \in Seq(Threads \cup {NoThread}) /\ batch[t] # <<>>
      BY <2>1 DEF TypeOK, UnlockInv, Waking
    <3>2. PICK i \in 1..Len(batch[t]) : x = batch[t][i]
      BY <2>5, <3>1 DEF Nodes
    <3>3. i # 1 /\ Len(batch[t]) \in Nat
      BY <2>5, <3>1, <3>2
    <3>4. Len(batch[t]) # 1
      BY <3>2, <3>3
    <3>5. i - 1 \in DOMAIN Tail(batch[t]) /\ Tail(batch[t])[i - 1] = x
      BY <3>1, <3>2, <3>3, HeadTailProperties
    <3>6. x \in Nodes(batch[t])'
      BY <2>3, <3>5 DEF Nodes
    <3>7. QED
      BY <2>2, <2>3, <3>4, <3>6 DEF Waking
  <2>6. Nodes(cv_queue)' = Nodes(cv_queue)
    BY <2>1 DEF Nodes
  <2>7. \A u \in Threads : u # t => Nodes(batch[u])' = Nodes(batch[u]) /\ (Waking(u)' <=> Waking(u))
    BY <2>3 DEF Nodes, Waking
  <2>8. ASSUME NEW x \in cv_should_wait', Reached(x) PROVE Reached(x)'
    <3>1. x # Head(batch[t])
      BY <2>1, <2>8
    <3>2. QED
      BY <2>5, <2>6, <2>7, <2>8, <3>1, Zenon DEF Reached
  <2>9. cv_should_wait' \subseteq cv_should_wait
    BY <2>1
  <2>10. QED
    BY <2>4, <2>8, <2>9, Zenon DEF KeepsReach
<1>5. QED
  BY <1>1, <1>2, <1>3, <1>4

\* A waiter that gets out of reach does so in one of the two situations.
LostIn(t) ==
  \A w \in Unreachable' \ Unreachable :
    /\ pc'[t] # pc[t]
    /\ \/ RemovesLast(t) /\ w \in Nodes(cv_queue)
       \/ MeetsDestroyedNode(t) /\ w \in Nodes(batch[t])

\* Taking one node out keeps the others.
LEMMA OthersStay ==
  ASSUME NEW q \in Seq(Threads), NEW i \in 1..Len(q), NEW j \in 1..Len(q), i # j
  PROVE  q[j] \in Nodes(SubSeq(q, 1, i - 1) \o SubSeq(q, i + 1, Len(q)))
<1>1. PICK n \in Nat : n = Len(q)
  BY LenProperties
<1>2. i \in 1..n /\ j \in 1..n /\ i \in Int /\ j \in Int
  BY <1>1
<1>3. \A k \in 1..n : q[k] \in Threads
  BY <1>1, ElementOfSeq
<1>4. PICK front : front = SubSeq(q, 1, i - 1)
  OBVIOUS
<1>5. PICK back : back = SubSeq(q, i + 1, n)
  OBVIOUS
<1>6. /\ front \in Seq(Threads) /\ Len(front) = i - 1
      /\ \A k \in 1..(i - 1) : front[k] = q[k]
  <2>1. /\ front \in Seq(Threads)
        /\ Len(front) = IF 1 <= i - 1 THEN (i - 1) - 1 + 1 ELSE 0
        /\ \A k \in 1..((i - 1) - 1 + 1) : front[k] = q[1 + k - 1]
    BY <1>2, <1>3, <1>4, SubSeqProperties
  <2>2. QED
    BY <1>2, <2>1
<1>7. /\ back \in Seq(Threads) /\ Len(back) = n - i
      /\ \A k \in 1..(n - i) : back[k] = q[i + k]
  <2>1. /\ back \in Seq(Threads)
        /\ Len(back) = IF i + 1 <= n THEN n - (i + 1) + 1 ELSE 0
        /\ \A k \in 1..(n - (i + 1) + 1) : back[k] = q[(i + 1) + k - 1]
    BY <1>2, <1>3, <1>5, SubSeqProperties
  <2>2. QED
    BY <1>2, <2>1
<1>8. PICK rest : rest = front \o back
  OBVIOUS
<1>9. /\ rest \in Seq(Threads) /\ Len(rest) = n - 1
      /\ \A k \in 1..(n - 1) : rest[k] = IF k <= i - 1 THEN front[k] ELSE back[k - (i - 1)]
  <2>1. /\ rest \in Seq(Threads) /\ Len(rest) = (i - 1) + (n - i)
        /\ \A k \in 1..((i - 1) + (n - i)) :
             rest[k] = IF k <= i - 1 THEN front[k] ELSE back[k - (i - 1)]
    <3>1. /\ rest \in Seq(Threads) /\ Len(rest) = Len(front) + Len(back)
          /\ \A k \in 1..(Len(front) + Len(back)) :
               rest[k] = IF k <= Len(front) THEN front[k] ELSE back[k - Len(front)]
      <4>1. front \in Seq(Threads) /\ back \in Seq(Threads)
        BY <1>6, <1>7
      <4>2. QED
        BY <1>8, <4>1, ConcatProperties, Zenon
    <3>2. QED
      BY <1>6, <1>7, <3>1, Zenon
  <2>2. QED
    BY <1>2, <2>1
<1>10. \E k \in 1..(n - 1) : rest[k] = q[j]
  <2>1. CASE j < i
    <3>1. j \in 1..(n - 1) /\ j \in 1..(i - 1) /\ j <= i - 1
      BY <1>2, <2>1
    <3>2. QED
      BY <1>6, <1>9, <3>1
  <2>2. CASE j > i
    <3>1. /\ j - 1 \in 1..(n - 1) /\ j - i \in 1..(n - i) /\ (j - 1) - (i - 1) = j - i
          /\ ~(j - 1 <= i - 1) /\ i + (j - i) = j
      BY <1>2, <2>2
    <3>2. rest[j - 1] = back[j - i] /\ back[j - i] = q[j]
      BY <1>7, <1>9, <3>1
    <3>3. QED
      BY <3>1, <3>2
  <2>3. QED
    BY <1>2, <2>1, <2>2
<1>11. DOMAIN rest = 1..(n - 1)
  BY <1>9, LenProperties
<1>12. q[j] \in Nodes(rest)
  BY <1>10, <1>11 DEF Nodes
<1>13. QED
  BY <1>1, <1>4, <1>5, <1>8, <1>12

\* DequeueMatching takes one node out, unless that is the last of several.
LEMMA DequeueMatchingKeeps ==
  ASSUME NEW q \in Seq(Threads), NEW t \in Threads, NEW w \in Nodes(q), w # t,
         ~(Len(q) > 1 /\ q[Len(q)] = t)
  PROVE  w \in Nodes(DequeueMatching(q, t))
<1>1. PICK j \in 1..Len(q) : q[j] = w
  BY DEF Nodes
<1>2. Len(q) \in Nat /\ DOMAIN q = 1..Len(q)
  BY LenProperties
<1>3. q[Len(q)] # t
  <2>1. SUFFICES ASSUME q[Len(q)] = t PROVE FALSE
    OBVIOUS
  <2>2. Len(q) = 1 /\ j = 1
    BY <1>1, <1>2, <2>1
  <2>3. QED
    BY <1>1, <2>1, <2>2
<1>4. CASE \A i \in DOMAIN q : q[i] # t
  BY <1>4 DEF DequeueMatching
<1>5. CASE ~(\A i \in DOMAIN q : q[i] # t)
  <2>1. PICK i \in DOMAIN q : i = CHOOSE k \in DOMAIN q : q[k] = t
    BY <1>5
  <2>2. q[i] = t
    BY <1>5, <2>1
  <2>3. DequeueMatching(q, t) = SubSeq(q, 1, i - 1) \o SubSeq(q, i + 1, Len(q))
    BY <1>3, <1>5, <2>1 DEF DequeueMatching
  <2>4. i \in 1..Len(q) /\ i # j
    BY <1>1, <1>2, <2>2
  <2>5. QED
    BY <1>1, <2>3, <2>4, OthersStay
<1>6. QED
  BY <1>4, <1>5

\* The step in which a timeout takes its node out.
LEMMA TimeoutLoses ==
  ASSUME MutexInv, WaitersInv, NEW t \in Threads, TimeoutDequeues(t)
  PROVE  WaitersInv' /\ LostIn(t)
<1>1. /\ pc[t] = "cv_remove" /\ pc' = [pc EXCEPT ![t] = "relock"]
      /\ UNCHANGED <<cv_should_wait, call, batch>>
      /\ cv_queue' = DequeueMatching(cv_queue, t)
  BY DEF TimeoutDequeues, At, GoTo, calls
<1>2. /\ \A u \in Threads : u # t => pc'[u] = pc[u]
      /\ pc'[t] = "relock" /\ cv_queue \in Seq(Threads)
      /\ t \notin cv_should_wait /\ cv_should_wait \subseteq Threads
  BY <1>1 DEF MutexInv, TypeOK, WaitersInv
<1>3. WaitersInv'
  BY <1>1, <1>2 DEF WaitersInv
<1>4. \A u \in Threads : (Waking(u)' <=> Waking(u)) /\ Nodes(batch[u])' = Nodes(batch[u])
  BY <1>1, <1>2 DEF Waking, Nodes
<1>5. ASSUME NEW w \in Unreachable' \ Unreachable
      PROVE  pc'[t] # pc[t] /\ RemovesLast(t) /\ w \in Nodes(cv_queue)
  <2>1. /\ w \in cv_should_wait /\ ~Reached(w)' /\ Reached(w)
    BY <1>1, <1>5, Zenon DEF Unreachable, Reached
  <2>2. w \in Nodes(cv_queue) /\ w \notin Nodes(cv_queue)' /\ w # t
    BY <1>2, <1>4, <2>1, Zenon DEF Reached
  <2>3. Nodes(cv_queue)' = Nodes(DequeueMatching(cv_queue, t))
    BY <1>1, Zenon DEF Nodes
  <2>4. Len(cv_queue) > 1 /\ cv_queue[Len(cv_queue)] = t
    BY <1>2, <2>2, <2>3, DequeueMatchingKeeps, Zenon
  <2>5. QED
    BY <1>1, <1>2, <2>2, <2>4 DEF RemovesLast
<1>6. QED
  BY <1>3, <1>5, Zenon DEF LostIn

\* A destroyed node is dereferenced, and what the thread had in hand is lost.
LEMMA DestroyedNodeLoses ==
  ASSUME MutexInv, WaitersInv, NEW t \in Threads, NotifyDestroyedNode(t)
  PROVE  WaitersInv' /\ LostIn(t)
<1>1. /\ pc[t] = "cv_wake" /\ Head(batch[t]) = Destroyed
      /\ UNCHANGED <<cv_should_wait, cv_queue, call>>
      /\ batch' = [batch EXCEPT ![t] = <<>>]
  BY DEF NotifyDestroyedNode, At, condition, calls
<1>a. PICK state \in {"hung", "undefined"} : pc' = [pc EXCEPT ![t] = state]
  BY DEF NotifyDestroyedNode, GoTo
<1>2. /\ \A u \in Threads : u # t => pc'[u] = pc[u] /\ batch'[u] = batch[u]
      /\ pc'[t] = state /\ t \notin cv_should_wait /\ cv_should_wait \subseteq Threads
  BY <1>1, <1>a DEF MutexInv, TypeOK, WaitersInv
<1>3. WaitersInv'
  BY <1>1, <1>2 DEF WaitersInv
<1>4. \A u \in Threads : u # t => (Waking(u)' <=> Waking(u)) /\ Nodes(batch[u])' = Nodes(batch[u])
  BY <1>2 DEF Waking, Nodes
<1>5. Nodes(cv_queue)' = Nodes(cv_queue)
  BY <1>1 DEF Nodes
<1>6. pc'[t] # pc[t] /\ MeetsDestroyedNode(t)
  BY <1>1, <1>2, <1>a DEF MeetsDestroyedNode, Waking
<1>7. ASSUME NEW w \in Unreachable' \ Unreachable
      PROVE  w \in Nodes(batch[t])
  <2>1. /\ w \in cv_should_wait /\ ~Reached(w)' /\ Reached(w)
    BY <1>1, <1>7, Zenon DEF Unreachable, Reached
  <2>2. QED
    BY <1>4, <1>5, <2>1, Zenon DEF Reached
<1>8. QED
  BY <1>3, <1>6, <1>7, Zenon DEF LostIn

LEMMA StepKeepsReach ==
  ASSUME MutexInv, WaitersInv, [Next]_vars
  PROVE  /\ WaitersInv'
         /\ \/ Unreachable' \subseteq Unreachable
            \/ \E t \in Threads : LostIn(t)
<1>1. CASE UNCHANGED vars
  <2>1. Unreachable' = Unreachable
    BY <1>1 DEF vars, condition, Unreachable, Nodes, Waking
  <2>2. QED
    BY <1>1, <2>1 DEF vars, condition, calls, WaitersInv
<1>2. CASE Next
  <2>1. PICK t \in Threads :
          \/ LockFast(t) \/ LockFastFails(t) \/ TryLock(t)
          \/ MutexStep(t) \/ ClearOwnerThread(t)
          \/ WaitFor(t, TRUE) \/ WaitFor(t, FALSE) \/ WaitStep(t) \/ WaitForTimesOut(t)
          \/ \E n \in NotifyCounts : CvNotify(t, n)
          \/ NotifyStep(t)
    BY <1>2, Zenon DEF Next
  <2>2. CASE TimeoutDequeues(t)
    BY <2>2, TimeoutLoses
  <2>3. CASE NotifyDestroyedNode(t)
    BY <2>3, DestroyedNodeLoses
  <2>4. CASE ~TimeoutDequeues(t) /\ ~NotifyDestroyedNode(t)
    <3>1. WaitersInv' /\ KeepsReach
      BY <2>1, <2>4, MutexKeepsReach, WaitKeepsReach, NotifyKeepsReach, Zenon
         DEF WaitStep, NotifyStep
    <3>2. QED
      BY <3>1, KeepsReachMeans
  <2>5. QED
    BY <2>2, <2>3, <2>4
<1>3. QED
  BY <1>1, <1>2

\* For every set of threads: a waiter of the condition that has not been
\* notified stays in reach of a notify (WaitFor enqueues before it unlocks the
\* mutex, Notify leaves those that it does not take, NotifyAllInList forgets
\* none, and a timeout takes out its own node), but for the two situations that
\* timeouts leave: DequeueMatching takes the last of several nodes out, or
\* NotifyAllInList dereferences a destroyed node.
THEOREM NotifyReachesWaiters == Spec => WaitersStayReachable
<1> DEFINE Kept ==
      \A w \in Unreachable' \ Unreachable :
        \E t \in Threads :
          /\ pc'[t] # pc[t]
          /\ \/ RemovesLast(t) /\ w \in Nodes(cv_queue)
             \/ MeetsDestroyedNode(t) /\ w \in Nodes(batch[t])
<1>1. Init => WaitersInv
  BY DEF Init, WaitersInv
<1>2. MutexInv /\ WaitersInv /\ [Next]_vars => WaitersInv' /\ [Kept]_vars
  <2>1. SUFFICES ASSUME MutexInv, WaitersInv, [Next]_vars PROVE WaitersInv' /\ Kept
    OBVIOUS
  <2>2. CASE Unreachable' \subseteq Unreachable
    BY <2>1, <2>2, StepKeepsReach
  <2>3. CASE \E t \in Threads : LostIn(t)
    BY <2>1, <2>3, StepKeepsReach, Zenon DEF LostIn
  <2>4. QED
    BY <2>1, <2>2, <2>3, StepKeepsReach
<1>3. QED
  BY <1>1, <1>2, MutexInvariant, PTL DEF Spec, WaitersStayReachable
=============================================================================

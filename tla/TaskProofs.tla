----------------------------- MODULE TaskProofs -----------------------------
(***************************************************************************)
(* Proofs about the work that is handed to somebody to be run later: the   *)
(* cancelable tasks of CancelableTasks, and the microtasks of              *)
(* MicrotaskQueue.                                                         *)
(*                                                                         *)
(* The first part: TaskInv is inductive as it stands, and the manager      *)
(* implements Gate.  The second part starts with the words and capacities  *)
(* that the buffer's positions are computed with, treats the buffer and    *)
(* the stack as values, and then the steps; MicrotaskProofInv is the       *)
(* inductive invariant.                                                    *)
(***************************************************************************)
EXTENDS CancelableTasks, MicrotaskQueue, SequenceTheorems, FiniteSetTheorems, TLAPS

-----------------------------------------------------------------------------
(* CancelableTasks. *)

\* Before the first Register call there is no object and no entry.
LEMMA InitEstablishes ==
  ASSUME Init
  PROVE  TaskInv
<1> USE TasksAssumption, IdAssumption DEF Init, kInvalidTaskId
<1>1. TypeOK
  <2>1. 0 \in 0..MaxId /\ {} \subseteq 1..MaxId
    OBVIOUS
  <2>2. QED
    BY <2>1 DEF TypeOK
<1>2. Registered = {} /\ Cancelables = {}
  BY DEF Registered, Cancelables
<1>3. ObjectInv /\ EntryInv /\ StatusInv /\ ManagerInv
  BY <1>2 DEF ObjectInv, EntryInv, StatusInv, ManagerInv, Live
<1>4. QED
  BY <1>1, <1>3 DEF TaskInv

-----------------------------------------------------------------------------
(* The life of a task object. *)

\* Register either gives the object a fresh id and an entry, or, after
\* CancelAndWait has begun, makes it a canceled one.
LEMMA RegisterPreserves ==
  ASSUME TaskInv, NEW t \in Tasks, Register(t)
  PROVE  TaskInv'
<1> USE TasksAssumption, IdAssumption DEF TaskInv, TypeOK, kInvalidTaskId
<1>1. pc[t] = "none" /\ pc' = [pc EXCEPT ![t] = "posted"]
  BY DEF Register
<1>2. \A i \in 1..MaxId : entry[i] # t
  BY <1>1 DEF EntryInv, Live
<1>3. CASE canceled
  <2>1. /\ status' = [status EXCEPT ![t] = "canceled"]
        /\ id' = [id EXCEPT ![t] = 0]
        /\ UNCHANGED <<entry, counter, canceled, manager, settled>>
    BY <1>3 DEF Register
  <2>2. TypeOK'
    BY <1>1, <2>1
  <2>3. ObjectInv' /\ EntryInv' /\ StatusInv'
    BY <1>1, <1>2, <2>1 DEF ObjectInv, EntryInv, StatusInv, Live
  <2>4. Registered' = Registered /\ Cancelables' = Cancelables
    BY <1>2, <2>1 DEF Registered, Cancelables
  <2>5. QED
    BY <2>1, <2>2, <2>3, <2>4 DEF ManagerInv
<1>4. CASE ~canceled
  <2>1. /\ counter < MaxId /\ counter' = counter + 1
        /\ status' = [status EXCEPT ![t] = "waiting"]
        /\ id' = [id EXCEPT ![t] = counter + 1]
        /\ entry' = [entry EXCEPT ![counter + 1] = t]
        /\ UNCHANGED <<canceled, manager, settled>>
    BY <1>4 DEF Register
  <2>2. entry[counter + 1] = NoTask
    BY <2>1 DEF EntryInv
  <2>3. TypeOK'
    BY <1>1, <2>1
  <2>4. ObjectInv'
    BY <1>1, <2>1, <2>2 DEF ObjectInv, Live
  <2>5. EntryInv'
    <3>1. SUFFICES ASSUME NEW i \in 1..MaxId, entry'[i] # NoTask
                   PROVE  /\ i <= counter' /\ id'[entry'[i]] = i
                          /\ pc'[entry'[i]] # "none" /\ status'[entry'[i]] # "canceled"
      BY DEF EntryInv, Live
    <3>2. CASE i = counter + 1
      BY <1>1, <2>1, <3>2
    <3>3. CASE i # counter + 1
      <4>1. entry'[i] = entry[i] /\ entry[i] \in Tasks /\ entry[i] # t
        BY <1>2, <2>1, <3>1, <3>3
      <4>2. QED
        BY <1>1, <2>1, <3>1, <4>1 DEF EntryInv, Live
    <3>4. QED
      BY <3>2, <3>3
  <2>6. StatusInv'
    BY <1>1, <2>1 DEF StatusInv
  <2>7. settled' \subseteq (1..counter') \ Registered'
    BY <2>1 DEF Registered, ManagerInv
  <2>8. QED
    BY <1>4, <2>1, <2>3, <2>4, <2>5, <2>6, <2>7 DEF ManagerInv
<1>5. QED
  BY <1>3, <1>4

\* A step that changes only what happens to one object, not the map, and makes
\* nothing waiting or canceled.
LEMMA ObjectStepPreserves ==
  ASSUME TaskInv, TypeOK', NEW t \in Tasks,
         UNCHANGED <<id, entry, counter, canceled, manager, settled>>,
         pc[t] # "none", \A u \in Tasks \ {t} : pc'[u] = pc[u] /\ status'[u] = status[u],
         status'[t] \in {status[t], "running"},
         status[t] = "canceled" => status'[t] = "canceled",
         status[t] # "canceled" => pc'[t] # "none",
         StatusInv'
  PROVE  TaskInv'
<1> USE TasksAssumption DEF TaskInv, TypeOK
<1>1. ObjectInv'
  BY DEF ObjectInv, Live
<1>2. EntryInv'
  <2>1. SUFFICES ASSUME NEW i \in 1..MaxId, entry[i] # NoTask
                 PROVE  pc'[entry[i]] # "none" /\ status'[entry[i]] # "canceled"
    BY DEF EntryInv, Live
  <2>2. entry[i] \in Tasks /\ pc[entry[i]] # "none" /\ status[entry[i]] # "canceled"
    BY <2>1 DEF EntryInv, Live
  <2>3. QED
    BY <2>2
<1>3. Registered' = Registered /\ Cancelables' \subseteq Cancelables
  BY DEF Registered, Cancelables
<1>4. ManagerInv'
  BY <1>3 DEF ManagerInv
<1>5. QED
  BY <1>1, <1>2, <1>4

\* The compare-exchange to running succeeds only on a waiting object, of
\* which there is none any more once CancelAndWait has begun.
LEMMA TryRunPreserves ==
  ASSUME TaskInv, NEW t \in Tasks, TryRun(t)
  PROVE  TaskInv'
<1>1. TypeOK' /\ StatusInv'
  BY DEF TaskInv, TypeOK, StatusInv, TryRun
<1>2. QED
  BY <1>1, ObjectStepPreserves DEF TaskInv, TypeOK, TryRun

\* RunInternal returns.
LEMMA RunInternalReturnsPreserves ==
  ASSUME TaskInv, NEW t \in Tasks, RunInternalReturns(t)
  PROVE  TaskInv'
<1>1. TypeOK' /\ StatusInv'
  BY DEF TaskInv, TypeOK, StatusInv, RunInternalReturns
<1>2. QED
  BY <1>1, ObjectStepPreserves DEF TaskInv, TypeOK, RunInternalReturns

\* The destructor claims the object unless somebody has canceled it.
LEMMA DestroyPreserves ==
  ASSUME TaskInv, NEW t \in Tasks, Destroy(t)
  PROVE  TaskInv'
<1>1. TypeOK' /\ StatusInv'
  BY DEF TaskInv, TypeOK, StatusInv, Destroy
<1>2. QED
  BY <1>1, ObjectStepPreserves DEF TaskInv, TypeOK, Destroy

\* RemoveFinishedTask erases the entry of its own object and no other one.
LEMMA RemoveFinishedTaskPreserves ==
  ASSUME TaskInv, NEW t \in Tasks, RemoveFinishedTask(t)
  PROVE  TaskInv'
<1> USE TasksAssumption DEF TaskInv, TypeOK
<1>1. pc[t] = "remove" /\ status[t] = "running" /\ id[t] \in 1..MaxId /\ entry[id[t]] = t
  BY DEF RemoveFinishedTask, StatusInv, ObjectInv, Live
<1>2. /\ entry' = [entry EXCEPT ![id[t]] = NoTask]
      /\ pc' = [pc EXCEPT ![t] = "none"]
      /\ UNCHANGED <<status, id, counter, canceled, settled>>
  BY DEF RemoveFinishedTask
<1>3. Registered' = Registered \ {id[t]} /\ Cancelables' \subseteq Cancelables
  BY <1>1, <1>2 DEF Registered, Cancelables
<1>4. /\ manager' \in {"open", "asleep", "woken", "returned", "deleted"}
      /\ manager' = "open" <=> manager = "open"
      /\ manager' \in {"returned", "deleted"} => manager' = manager
  BY DEF RemoveFinishedTask, NotifyOne
<1>5. TypeOK'
  BY <1>1, <1>2, <1>4
<1>6. ObjectInv'
  BY <1>1, <1>2 DEF ObjectInv, Live
<1>7. EntryInv'
  <2>1. SUFFICES ASSUME NEW i \in 1..MaxId, entry'[i] # NoTask
                 PROVE  /\ i <= counter /\ id[entry'[i]] = i
                        /\ pc'[entry'[i]] # "none" /\ status[entry'[i]] # "canceled"
    BY <1>2 DEF EntryInv, Live
  <2>2. entry'[i] = entry[i] /\ entry[i] \in Tasks /\ entry[i] # t
    BY <1>1, <1>2, <2>1 DEF EntryInv
  <2>3. QED
    BY <1>2, <2>1, <2>2 DEF EntryInv, Live
<1>8. StatusInv'
  BY <1>2 DEF StatusInv
<1>9. ManagerInv'
  BY <1>2, <1>3, <1>4 DEF ManagerInv
<1>10. QED
  BY <1>5, <1>6, <1>7, <1>8, <1>9

-----------------------------------------------------------------------------
(* Canceling. *)

\* What CancelEntries does to the map and to the objects: it takes matching
\* pairs of both, all of them in state waiting.
LEMMA CancelEntriesEffect ==
  ASSUME TaskInv, NEW is \in SUBSET (1..MaxId), CancelEntries(is),
         pc' = pc, id' = id, counter' = counter
  PROVE  /\ status' \in [Tasks -> {"waiting", "canceled", "running"}]
         /\ entry' \in [1..MaxId -> Tasks \cup {NoTask}]
         /\ ObjectInv' /\ EntryInv' /\ StatusInv'
         /\ \A t \in Tasks : status'[t] = "running" <=> status[t] = "running"
         /\ Registered' = Registered \ (is \cap Cancelables)
         /\ Cancelables' = Cancelables \ is
<1> USE TasksAssumption DEF TaskInv, TypeOK
<1>1. \A t \in Tasks :
        status'[t] = IF \E i \in is \cap Cancelables : entry[i] = t
                     THEN "canceled" ELSE status[t]
  BY DEF CancelEntries
<1>2. \A i \in 1..MaxId :
        entry'[i] = IF i \in is \cap Cancelables THEN NoTask ELSE entry[i]
  BY DEF CancelEntries
<1>3. Cancelables = {i \in 1..MaxId : entry[i] # NoTask /\ status[entry[i]] = "waiting"}
  BY DEF Cancelables, Registered
<1>4. \A t \in Tasks :
        status'[t] = status[t] \/ (status[t] = "waiting" /\ status'[t] = "canceled")
  BY <1>1, <1>3
<1>5. status' \in [Tasks -> {"waiting", "canceled", "running"}]
  BY <1>4 DEF CancelEntries
<1>6. entry' \in [1..MaxId -> Tasks \cup {NoTask}]
  BY DEF CancelEntries
<1>7. ObjectInv'
  <2>1. SUFFICES ASSUME NEW t \in Tasks, pc[t] # "none", status'[t] # "canceled"
                 PROVE  id[t] \in 1..counter /\ entry'[id[t]] = t
    BY DEF ObjectInv, Live
  <2>2. status'[t] = status[t] /\ id[t] \in 1..MaxId /\ id[t] \in 1..counter
          /\ entry[id[t]] = t
    BY <1>4, <2>1 DEF ObjectInv, Live
  <2>3. id[t] \notin is \cap Cancelables
    BY <1>1, <2>1, <2>2
  <2>4. QED
    BY <1>2, <2>2, <2>3
<1>8. \A i \in 1..MaxId :
        entry'[i] # NoTask =>
          /\ entry'[i] = entry[i] /\ entry[i] # NoTask
          /\ status'[entry[i]] = status[entry[i]]
  <2>1. SUFFICES ASSUME NEW i \in 1..MaxId, entry'[i] # NoTask
                 PROVE  /\ entry'[i] = entry[i] /\ entry[i] # NoTask
                        /\ status'[entry[i]] = status[entry[i]]
    OBVIOUS
  <2>2. i \notin is \cap Cancelables /\ entry'[i] = entry[i] /\ entry[i] \in Tasks
    BY <1>2, <2>1
  <2>3. \A j \in is \cap Cancelables : entry[j] # entry[i]
    BY <1>3, <2>1, <2>2 DEF EntryInv
  <2>4. QED
    BY <1>1, <2>1, <2>2, <2>3
<1>9. EntryInv'
  BY <1>8 DEF EntryInv, Live
<1>10. StatusInv'
  BY <1>4 DEF StatusInv
<1>11. Registered' = Registered \ (is \cap Cancelables)
  BY <1>2, <1>3 DEF Registered
<1>12. Cancelables' = {i \in 1..MaxId : entry'[i] # NoTask /\ status'[entry'[i]] = "waiting"}
  BY DEF Cancelables, Registered
<1>13. Cancelables' = Cancelables \ is
  BY <1>2, <1>3, <1>8, <1>12
<1>14. QED
  BY <1>4, <1>5, <1>6, <1>7, <1>9, <1>10, <1>11, <1>13

\* TryAbort of a task that is gone or has not started.
LEMMA TryAbortPreserves ==
  ASSUME TaskInv, NEW i \in 1..MaxId, TryAbort(i)
  PROVE  TaskInv'
<1> DEFINE is == {i}
<1>1. CancelEntries(is) /\ is \in SUBSET (1..MaxId)
  BY DEF TryAbort
<1>2. pc' = pc /\ id' = id /\ counter' = counter /\ canceled' = canceled
  BY DEF TryAbort
<1>3. /\ manager' \in {"open", "asleep", "woken", "returned", "deleted"}
      /\ manager' = "open" <=> manager = "open"
      /\ manager' \in {"returned", "deleted"} => manager' = manager
  BY DEF TryAbort, NotifyOne, TaskInv, TypeOK
<1>4. /\ i <= counter /\ settled' = settled \cup {i}
      /\ i \notin Registered \/ i \in Cancelables
  BY DEF TryAbort
<1>5. i \in is
  OBVIOUS
<1> HIDE DEF is
<1>6. /\ status' \in [Tasks -> {"waiting", "canceled", "running"}]
      /\ entry' \in [1..MaxId -> Tasks \cup {NoTask}]
      /\ ObjectInv' /\ EntryInv' /\ StatusInv'
      /\ Registered' = Registered \ (is \cap Cancelables)
      /\ Cancelables' = Cancelables \ is
  BY <1>1, <1>2, CancelEntriesEffect
<1>7. TypeOK'
  BY <1>2, <1>3, <1>4, <1>6 DEF TaskInv, TypeOK
<1>8. ManagerInv'
  BY <1>2, <1>3, <1>4, <1>5, <1>6 DEF TaskInv, TypeOK, ManagerInv
<1>9. QED
  BY <1>6, <1>7, <1>8 DEF TaskInv

\* TryAbortAll cancels everything that has not started.
LEMMA TryAbortAllPreserves ==
  ASSUME TaskInv, TryAbortAll
  PROVE  TaskInv'
<1>1. CancelEntries(Registered) /\ Registered \in SUBSET (1..MaxId)
  BY DEF TryAbortAll, Registered
<1>2. pc' = pc /\ id' = id /\ counter' = counter /\ UNCHANGED <<canceled, manager, settled>>
  BY DEF TryAbortAll
<1>3. /\ status' \in [Tasks -> {"waiting", "canceled", "running"}]
      /\ entry' \in [1..MaxId -> Tasks \cup {NoTask}]
      /\ ObjectInv' /\ EntryInv' /\ StatusInv'
      /\ Registered' \subseteq Registered
      /\ Cancelables' \subseteq Cancelables
  BY <1>1, <1>2, CancelEntriesEffect
<1>4. TypeOK'
  BY <1>2, <1>3 DEF TaskInv, TypeOK
<1>5. ManagerInv'
  BY <1>2, <1>3 DEF TaskInv, ManagerInv
<1>6. QED
  BY <1>3, <1>4, <1>5 DEF TaskInv

\* One round of CancelAndWait leaves no object that could start, and returns
\* only when the map is empty.
LEMMA CancelRoundPreserves ==
  ASSUME TaskInv, CancelRound, manager \in {"open", "woken"}, canceled' = TRUE
  PROVE  TaskInv'
<1>1. CancelEntries(Registered) /\ Registered \in SUBSET (1..MaxId)
  BY DEF CancelRound, Registered
<1>2. /\ pc' = pc /\ id' = id /\ counter' = counter /\ settled' = settled
      /\ manager' = IF Registered = Cancelables THEN "returned" ELSE "asleep"
  BY DEF CancelRound
<1>3. Cancelables \subseteq Registered
  BY DEF Cancelables
<1>4. /\ status' \in [Tasks -> {"waiting", "canceled", "running"}]
      /\ entry' \in [1..MaxId -> Tasks \cup {NoTask}]
      /\ ObjectInv' /\ EntryInv' /\ StatusInv'
      /\ Cancelables' = {} /\ Registered' = Registered \ Cancelables
  BY <1>1, <1>2, <1>3, CancelEntriesEffect
<1>5. TypeOK'
  BY <1>2, <1>4 DEF TaskInv, TypeOK
<1>6. ManagerInv'
  BY <1>2, <1>4 DEF TaskInv, ManagerInv
<1>7. QED
  BY <1>4, <1>5, <1>6 DEF TaskInv

\* ~CancelableTaskManager.
LEMMA DeleteManagerPreserves ==
  ASSUME TaskInv, DeleteManager
  PROVE  TaskInv'
BY DEF TaskInv, TypeOK, ObjectInv, EntryInv, StatusInv, ManagerInv, Live,
   DeleteManager, Registered, Cancelables

\* Every step of the objects' threads and of the threads that cancel.
LEMMA NextPreserves ==
  ASSUME TaskInv, [Next]_vars
  PROVE  TaskInv'
<1>1. CASE Next
  <2>1. ASSUME NEW t \in Tasks, Register(t) PROVE TaskInv'
    BY <2>1, RegisterPreserves
  <2>2. ASSUME NEW t \in Tasks, TryRun(t) PROVE TaskInv'
    BY <2>2, TryRunPreserves
  <2>3. ASSUME NEW t \in Tasks, RunInternalReturns(t) PROVE TaskInv'
    BY <2>3, RunInternalReturnsPreserves
  <2>4. ASSUME NEW t \in Tasks, Destroy(t) PROVE TaskInv'
    BY <2>4, DestroyPreserves
  <2>5. ASSUME NEW t \in Tasks, RemoveFinishedTask(t) PROVE TaskInv'
    BY <2>5, RemoveFinishedTaskPreserves
  <2>6. ASSUME NEW i \in 1..MaxId, TryAbort(i) PROVE TaskInv'
    BY <2>6, TryAbortPreserves
  <2>7. CASE TryAbortAll
    BY <2>7, TryAbortAllPreserves
  <2>8. CASE CancelAndWait
    BY <2>8, CancelRoundPreserves DEF CancelAndWait
  <2>9. CASE WakeInCancelAndWait
    <3>1. manager = "woken" /\ CancelRound /\ canceled' = canceled
      BY <2>9 DEF WakeInCancelAndWait
    <3>2. canceled = TRUE
      BY <3>1 DEF TaskInv, TypeOK, ManagerInv
    <3>3. QED
      BY <3>1, <3>2, CancelRoundPreserves
  <2>10. CASE DeleteManager
    BY <2>10, DeleteManagerPreserves
  <2>11. QED
    BY <1>1, <2>1, <2>2, <2>3, <2>4, <2>5, <2>6, <2>7, <2>8, <2>9, <2>10 DEF Next
<1>2. CASE UNCHANGED vars
  BY <1>2 DEF vars, TaskInv, TypeOK, ObjectInv, EntryInv, StatusInv, ManagerInv, Live,
     Registered, Cancelables
<1>3. QED
  BY <1>1, <1>2

-----------------------------------------------------------------------------
(* The theorems. *)

\* The manager's map and the objects' status words agree in every state.
THEOREM TaskInvariant == Spec => []TaskInv
<1>1. Init => TaskInv
  BY InitEstablishes
<1>2. TaskInv /\ [Next]_vars => TaskInv'
  BY NextPreserves
<1>3. QED
  BY <1>1, <1>2, PTL DEF Spec

\* Once CancelAndWait has returned nothing runs, and no destructor calls the
\* manager that may be deleted.
THEOREM ManagerMayBeDeleted == Spec => []NothingAfterCancelAndWait
<1>1. TaskInv => NothingAfterCancelAndWait
  BY TasksAssumption DEF TaskInv, TypeOK, ObjectInv, StatusInv, ManagerInv,
     NothingAfterCancelAndWait, Live, Registered
<1>2. QED
  BY <1>1, TaskInvariant, PTL

\* What TryAbort has reported as aborted or removed does not run, however
\* addresses are used again.
THEOREM AbortedNeverRuns == Spec => []SettledNeverRuns
<1>1. TaskInv => SettledNeverRuns
  BY TasksAssumption DEF TaskInv, TypeOK, ObjectInv, StatusInv, ManagerInv,
     SettledNeverRuns, Live, Registered
<1>2. QED
  BY <1>1, TaskInvariant, PTL

\* The DCHECK of RemoveFinishedTask.
THEOREM RemovalAlwaysFindsEntry == Spec => []RemovalFindsEntry
<1>1. TaskInv => RemovalFindsEntry
  BY TasksAssumption DEF TaskInv, TypeOK, ObjectInv, StatusInv, RemovalFindsEntry, Live, kInvalidTaskId
<1>2. QED
  BY <1>1, TaskInvariant, PTL

-----------------------------------------------------------------------------
(* CancelAndWait implements the gate. *)

Inside == {t \in Tasks : Live(t) /\ status[t] = "running"}

\* While the gate is closing or closed nobody starts; a started task leaves
\* when its entry is removed; the wait ends when nobody is inside.
LEMMA StepsRefineGate ==
  ASSUME TaskInv, TaskInv', [Next]_vars
  PROVE  [G!Next]_(G!vars)
<1> USE TasksAssumption DEF TaskInv, TypeOK
<1>0. SUFFICES \/ Inside' = Inside /\ gateState' = gateState
               \/ G!Next
  BY DEF G!vars, Inside
<1>1. ASSUME NEW t \in Tasks, Register(t) PROVE Inside' = Inside /\ gateState' = gateState
  BY <1>1 DEF Register, Inside, Live, gateState
<1>2. ASSUME NEW t \in Tasks, TryRun(t)
      PROVE  (Inside' = Inside /\ gateState' = gateState) \/ G!Next
  <2>1. CASE status[t] = "waiting"
    <3>1. manager = "open"
      <4>1. id[t] \in 1..MaxId /\ entry[id[t]] = t
        BY <1>2, <2>1 DEF TryRun, ObjectInv, Live
      <4>2. id[t] \in Cancelables
        BY <2>1, <4>1 DEF Cancelables, Registered
      <4>3. QED
        BY <4>2 DEF ManagerInv
    <3>2. t \notin Inside /\ Inside' = Inside \cup {t} /\ gateState' = gateState
      BY <1>2, <2>1 DEF TryRun, Inside, Live, gateState
    <3>3. G!Enter(t)
      BY <3>1, <3>2 DEF G!Enter, gateState, Inside
    <3>4. QED
      BY <3>3 DEF G!Next
  <2>2. CASE status[t] # "waiting"
    BY <1>2, <2>2 DEF TryRun, Inside, Live, gateState
  <2>3. QED
    BY <2>1, <2>2
<1>3. ASSUME NEW t \in Tasks, RunInternalReturns(t)
      PROVE  Inside' = Inside /\ gateState' = gateState
  BY <1>3 DEF RunInternalReturns, Inside, Live, gateState
<1>4. ASSUME NEW t \in Tasks, Destroy(t)
      PROVE  (Inside' = Inside /\ gateState' = gateState) \/ G!Next
  <2>1. CASE status[t] = "waiting"
    <3>1. manager = "open"
      <4>1. id[t] \in 1..MaxId /\ entry[id[t]] = t
        BY <1>4, <2>1 DEF Destroy, ObjectInv, Live
      <4>2. id[t] \in Cancelables
        BY <2>1, <4>1 DEF Cancelables, Registered
      <4>3. QED
        BY <4>2 DEF ManagerInv
    <3>2. t \notin Inside /\ Inside' = Inside \cup {t} /\ gateState' = gateState
      BY <1>4, <2>1 DEF Destroy, Inside, Live, gateState
    <3>3. G!Enter(t)
      BY <3>1, <3>2 DEF G!Enter, gateState, Inside
    <3>4. QED
      BY <3>3 DEF G!Next
  <2>2. CASE status[t] # "waiting"
    BY <1>4, <2>2 DEF Destroy, Inside, Live, gateState
  <2>3. QED
    BY <2>1, <2>2
<1>5. ASSUME NEW t \in Tasks, RemoveFinishedTask(t) PROVE G!Next
  <2>1. t \in Inside /\ Inside' = Inside \ {t}
    BY <1>5 DEF RemoveFinishedTask, StatusInv, Inside, Live
  <2>2. gateState' = gateState
    BY <1>5 DEF RemoveFinishedTask, NotifyOne, gateState
  <2>3. G!Leave(t)
    BY <2>1, <2>2 DEF G!Leave, Inside
  <2>4. QED
    BY <2>3 DEF G!Next
<1>6. ASSUME NEW is \in SUBSET (1..MaxId), CancelEntries(is),
             pc' = pc, id' = id, counter' = counter
      PROVE  Inside' = Inside
  <2>1. \A t \in Tasks : status'[t] = "running" <=> status[t] = "running"
    BY <1>6, CancelEntriesEffect
  <2>2. QED
    BY <1>6, <2>1 DEF Inside, Live
<1>7. ASSUME NEW i \in 1..MaxId, TryAbort(i)
      PROVE  Inside' = Inside /\ gateState' = gateState
  <2> DEFINE is == {i}
  <2>1. is \in SUBSET (1..MaxId) /\ CancelEntries(is) /\ pc' = pc /\ id' = id /\ counter' = counter
    BY <1>7 DEF TryAbort
  <2>2. gateState' = gateState
    BY <1>7 DEF TryAbort, NotifyOne, gateState
  <2> HIDE DEF is
  <2>3. QED
    BY <1>6, <2>1, <2>2
<1>8. ASSUME TryAbortAll PROVE Inside' = Inside /\ gateState' = gateState
  <2>1. /\ Registered \in SUBSET (1..MaxId) /\ CancelEntries(Registered)
        /\ pc' = pc /\ id' = id /\ counter' = counter /\ manager' = manager
    BY <1>8 DEF TryAbortAll, Registered
  <2>2. QED
    BY <1>6, <2>1 DEF gateState
<1>9. ASSUME CancelRound, manager \in {"open", "woken"}
      PROVE  (Inside' = Inside /\ gateState' = gateState) \/ G!Next
  <2>1. /\ Registered \in SUBSET (1..MaxId) /\ CancelEntries(Registered)
        /\ pc' = pc /\ id' = id /\ counter' = counter
        /\ manager' = IF Registered = Cancelables THEN "returned" ELSE "asleep"
    BY <1>9 DEF CancelRound, Registered
  <2>2. Inside' = Inside
    BY <1>6, <2>1
  <2>3. CASE manager' = "returned"
    <3>1. Registered' = {}
      BY <2>3 DEF ManagerInv
    <3>2. Inside' = {}
      <4>1. \A t \in Tasks : ~(Live(t)' /\ status'[t] = "running")
        <5>1. SUFFICES ASSUME NEW t \in Tasks, Live(t)', status'[t] = "running"
                       PROVE  FALSE
          OBVIOUS
        <5>2. id'[t] \in 1..MaxId /\ entry'[id'[t]] # NoTask
          BY <5>1 DEF ObjectInv
        <5>3. QED
          BY <3>1, <5>2 DEF Registered
      <4>2. QED
        BY <4>1 DEF Inside
    <3>3. Inside = {} /\ gateState' = "closed"
      BY <2>2, <2>3, <3>2 DEF gateState
    <3>4. gateState \in {"open", "closing"}
      BY <1>9 DEF gateState
    <3>5. G!Close \/ G!Drained
      BY <2>2, <3>3, <3>4 DEF G!Close, G!Drained, Inside
    <3>6. QED
      BY <3>5 DEF G!Next
  <2>4. CASE manager' = "asleep"
    <3>1. gateState' = "closing"
      BY <2>4 DEF gateState
    <3>2. CASE manager = "open"
      <4>1. G!Close
        BY <2>2, <3>1, <3>2 DEF G!Close, gateState, Inside
      <4>2. QED
        BY <4>1 DEF G!Next
    <3>3. CASE manager = "woken"
      BY <2>2, <3>1, <3>3 DEF gateState
    <3>4. QED
      BY <1>9, <3>2, <3>3
  <2>5. QED
    BY <2>1, <2>3, <2>4
<1>10. ASSUME DeleteManager PROVE Inside' = Inside /\ gateState' = gateState
  BY <1>10 DEF DeleteManager, Inside, Live, gateState
<1>11. ASSUME UNCHANGED vars PROVE Inside' = Inside /\ gateState' = gateState
  BY <1>11 DEF vars, Inside, Live, gateState
<1>12. QED
  BY <1>1, <1>2, <1>3, <1>4, <1>5, <1>7, <1>8, <1>9, <1>10, <1>11
     DEF Next, CancelAndWait, WakeInCancelAndWait

\* CancelableTaskManager implements the abstract gate: after CancelAndWait has
\* returned nobody is inside and nobody enters.
THEOREM CancelAndWaitIsAGate == Spec => ImplementsGate
<1>1. Init => G!Init
  BY DEF Init, G!Init, Live, gateState
<1>2. TaskInv /\ TaskInv' /\ [Next]_vars => [G!Next]_(G!vars)
  BY StepsRefineGate
<1>3. QED
  BY <1>1, <1>2, TaskInvariant, PTL DEF Spec, ImplementsGate, G!Spec

-----------------------------------------------------------------------------
(* MicrotaskQueue: words. *)

\* A set of numbers has a least one, from which the inductions below start.
LEMMA LeastNumber ==
  ASSUME NEW S, S \subseteq Nat, S # {}
  PROVE  \E x \in S : \A y \in S : x <= y
<1> DEFINE R == OpToRel(<, Nat)
<1>1. IsWellFoundedOn(R, Nat)
  BY NatLessThanWellFounded
<1>2. \A x, y \in Nat : x < y => <<x, y>> \in R
  BY DEF OpToRel
<1> HIDE DEF R
<1>3. PICK x \in S : \A y \in S : ~ (<<y, x>> \in R)
  BY <1>1, WFMin
<1>4. \A y \in S : ~ (y < x)
  BY <1>2, <1>3, Zenon
<1>5. QED
  BY <1>4

\* The last bit of a conjunction.
Both(p, q) == IF p = 1 /\ q = 1 THEN 1 ELSE 0
Bit(x, y) == Both(x % 2, y % 2)

\* The first rows of the table of WordAnd.
Rows(f, n) ==
  /\ f \in [0..n -> [Nat -> Nat]]
  /\ \A x \in 0..n : \A y \in Nat :
       f[x][y] = IF x = 0 THEN 0 ELSE 2 * f[x \div 2][y \div 2] + Bit(x, y)

\* Quotient and remainder.
LEMMA Division ==
  ASSUME NEW x \in Nat, NEW h \in Nat, h > 0
  PROVE  x \div h \in Nat /\ x % h \in 0..(h - 1) /\ h * (x \div h) + (x % h) = x
<1> DEFINE d == x \div h
           m == x % h
<1>1. d \in Nat /\ m \in 0..(h - 1) /\ h * d + m = x
  OBVIOUS
<1>2. QED
  BY <1>1

\* The remainder of a number that is written with a quotient.
LEMMA Remainder ==
  ASSUME NEW h \in Nat, h > 0, NEW d \in Nat, NEW m \in 0..(h - 1)
  PROVE  (h * d + m) % h = m
OBVIOUS

LEMMA DoubledRemainder ==
  ASSUME NEW z \in Nat, NEW h \in Nat, h > 0, NEW q \in 0..1
  PROVE  (2 * z + q) % (2 * h) = 2 * (z % h) + q
<1>1. PICK d \in Nat, m \in 0..(h - 1) : z % h = m /\ h * d + m = z
  BY Division
<1>2. PICK g \in Nat : g = 2 * h /\ g > 0
  OBVIOUS
<1>3. PICK k \in 0..(g - 1) : k = 2 * m + q
  BY <1>1, <1>2
<1>4. 2 * (h * d + m) + q = (2 * h) * d + (2 * m + q)
  BY <1>1
<1>5. (g * d + k) % g = k
  BY <1>1, <1>2, <1>3, Remainder
<1>6. 2 * z + q = g * d + k
  BY <1>1, <1>2, <1>3, <1>4
<1>7. QED
  BY <1>1, <1>2, <1>3, <1>5, <1>6

\* Every number is its half and a bit.
LEMMA HalfIsLess ==
  ASSUME NEW x \in Nat
  PROVE  /\ x \div 2 \in Nat /\ x % 2 \in 0..1 /\ 2 * (x \div 2) + (x % 2) = x
         /\ x # 0 => x \div 2 < x
<1> DEFINE d == x \div 2
           m == x % 2
<1>1. 2 \in Nat /\ 2 > 0 /\ 2 - 1 = 1
  OBVIOUS
<1>2. d \in Nat /\ m \in 0..(2 - 1) /\ 2 * d + m = x
  BY <1>1, Division
<1> HIDE DEF d, m
<1>3. m \in 0..1 /\ (x # 0 => d < x)
  BY <1>1, <1>2
<1>4. QED
  BY <1>2, <1>3 DEF d, m

\* There is such a table of any length, and only one.
LEMMA RowsExist ==
  ASSUME NEW n \in Nat
  PROVE  \E f : Rows(f, n)
<1> DEFINE missing == {k \in Nat : ~ \E f : Rows(f, k)}
<1> SUFFICES ASSUME missing # {} PROVE FALSE
  OBVIOUS
<1>1. PICK k \in missing : \A j \in missing : k <= j
  BY LeastNumber
<1>2. k \in Nat /\ \A j \in Nat : j < k => \E f : Rows(f, j)
  BY <1>1
<1>3. CASE k = 0
  <2> DEFINE f == [x \in 0..0 |-> [y \in Nat |-> 0]]
  <2>1. \A x \in 0..0 : x = 0
    OBVIOUS
  <2>2. f \in [0..0 -> [Nat -> Nat]] /\ \A y \in Nat : f[0][y] = 0
    OBVIOUS
  <2> HIDE DEF f
  <2>3. Rows(f, 0)
    BY <2>1, <2>2 DEF Rows
  <2>4. QED
    BY <1>1, <1>3, <2>3
<1>4. CASE k # 0
  <2>1. k - 1 \in Nat /\ k - 1 < k
    BY <1>2, <1>4
  <2>2. PICK g : Rows(g, k - 1)
    BY <1>2, <2>1
  <2>3. k \div 2 \in 0..(k - 1)
    BY <1>2, <1>4
  <2> DEFINE last == [y \in Nat |-> 2 * g[k \div 2][y \div 2] + Bit(k, y)]
             f == [x \in 0..k |-> IF x = k THEN last ELSE g[x]]
  <2>4. /\ g \in [0..(k - 1) -> [Nat -> Nat]]
        /\ \A x \in 0..(k - 1) : \A y \in Nat :
             g[x][y] = IF x = 0 THEN 0 ELSE 2 * g[x \div 2][y \div 2] + Bit(x, y)
    BY <2>2 DEF Rows
  <2>5. last \in [Nat -> Nat]
    <3>1. \A y \in Nat : y \div 2 \in Nat /\ Bit(k, y) \in Nat
      BY DEF Bit, Both
    <3>2. \A y \in Nat : g[k \div 2][y] \in Nat
      BY <2>3, <2>4
    <3>3. \A y \in Nat : 2 * g[k \div 2][y \div 2] + Bit(k, y) \in Nat
      BY <3>1, <3>2
    <3>4. QED
      BY <3>3
  <2>6. /\ \A x \in 0..k : x # k => x \in 0..(k - 1)
        /\ \A x \in 0..(k - 1) : x \in 0..k /\ x # k /\ x \div 2 \in 0..(k - 1)
        /\ k \in 0..k
    BY <1>2
  <2>7. f \in [0..k -> [Nat -> Nat]]
    <3> HIDE DEF last
    <3>1. QED
      BY <2>4, <2>5, <2>6
  <2>8. f[k] = last /\ \A x \in 0..(k - 1) : f[x] = g[x]
    <3> HIDE DEF last
    <3>1. QED
      BY <2>6
  <2>9. \A y \in Nat : last[y] = 2 * g[k \div 2][y \div 2] + Bit(k, y)
    OBVIOUS
  <2> HIDE DEF f, last
  <2>10. ASSUME NEW x \in 0..k, NEW y \in Nat
         PROVE  f[x][y] = IF x = 0 THEN 0 ELSE 2 * f[x \div 2][y \div 2] + Bit(x, y)
    <3>1. CASE x = k
      BY <1>4, <2>3, <2>8, <2>9, <3>1, Zenon
    <3>2. CASE x # k
      <4>1. x \in 0..(k - 1) /\ x \div 2 \in 0..(k - 1)
        BY <2>6, <3>2
      <4>2. f[x] = g[x] /\ f[x \div 2] = g[x \div 2]
        BY <2>8, <4>1
      <4>3. QED
        BY <2>4, <4>1, <4>2
    <3>3. QED
      BY <3>1, <3>2
  <2>11. Rows(f, k)
    BY <2>7, <2>10 DEF Rows
  <2>12. QED
    BY <1>1, <2>11
<1>5. QED
  BY <1>3, <1>4

LEMMA RowsAgree ==
  ASSUME NEW n \in Nat, NEW m \in Nat, NEW f, NEW g, Rows(f, n), Rows(g, m),
         NEW x \in Nat, x <= n, x <= m
  PROVE  f[x] = g[x]
<1> DEFINE differ == {k \in Nat : k <= n /\ k <= m /\ f[k] # g[k]}
<1> SUFFICES ASSUME differ # {} PROVE FALSE
  OBVIOUS
<1>1. PICK k \in differ : \A j \in differ : k <= j
  BY LeastNumber
<1>2. /\ k \in Nat /\ k \in 0..n /\ k \in 0..m /\ f[k] # g[k]
      /\ \A j \in Nat : j < k => f[j] = g[j]
  BY <1>1
<1>3. f[k] \in [Nat -> Nat] /\ g[k] \in [Nat -> Nat]
  BY <1>2 DEF Rows
<1>4. PICK y \in Nat : f[k][y] # g[k][y]
  BY <1>2, <1>3
<1>5. /\ f[k][y] = IF k = 0 THEN 0 ELSE 2 * f[k \div 2][y \div 2] + Bit(k, y)
      /\ g[k][y] = IF k = 0 THEN 0 ELSE 2 * g[k \div 2][y \div 2] + Bit(k, y)
  BY <1>2 DEF Rows
<1>6. k # 0
  BY <1>4, <1>5
<1>7. k \div 2 \in Nat /\ k \div 2 < k
  BY <1>2, <1>6
<1>8. f[k \div 2] = g[k \div 2]
  BY <1>2, <1>7
<1>9. QED
  BY <1>4, <1>5, <1>8

\* WordAnd is what its recursive definition says.
LEMMA WordAndFacts ==
  \A x, y \in Nat :
    /\ WordAnd[x][y] \in Nat
    /\ WordAnd[x][y] =
         IF x = 0 THEN 0 ELSE 2 * WordAnd[x \div 2][y \div 2] + Bit(x, y)
<1> DEFINE R(x) == CHOOSE f : Rows(f, x)
           w == [x \in Nat |-> R(x)[x]]
           body(f, x) == [y \in Nat |-> IF x = 0 THEN 0
                                        ELSE 2 * f[x \div 2][y \div 2]
                                          + (IF x % 2 = 1 /\ y % 2 = 1 THEN 1 ELSE 0)]
           P(f) == f = [x \in Nat |-> body(f, x)]
<1>1. \A x \in Nat : Rows(R(x), x)
  BY RowsExist
<1> HIDE DEF R
<1>2. ASSUME NEW x \in Nat PROVE w[x] \in [Nat -> Nat] /\ w[x] = body(w, x)
  <2>1. /\ x \in 0..x /\ x \div 2 \in 0..x /\ x \div 2 \in Nat /\ x \div 2 <= x
    OBVIOUS
  <2>2. /\ w[x] = R(x)[x] /\ w[x] \in [Nat -> Nat]
    BY <1>1, <2>1 DEF Rows
  <2>3. w[x \div 2] = R(x)[x \div 2]
    <3>1. w[x \div 2] = R(x \div 2)[x \div 2]
      BY <2>1
    <3>2. R(x \div 2)[x \div 2] = R(x)[x \div 2]
      <4>1. x \div 2 <= x \div 2
        BY <2>1
      <4>2. QED
        BY <1>1, <2>1, <4>1, RowsAgree
    <3>3. QED
      BY <3>1, <3>2
  <2> HIDE DEF w
  <2>4. \A y \in Nat : R(x)[x][y] =
                        IF x = 0 THEN 0 ELSE 2 * R(x)[x \div 2][y \div 2] + Bit(x, y)
    BY <1>1, <2>1 DEF Rows
  <2>5. \A y \in Nat : w[x][y] = IF x = 0 THEN 0 ELSE 2 * w[x \div 2][y \div 2] + Bit(x, y)
    BY <2>2, <2>3, <2>4
  <2>6. QED
    BY <2>2, <2>5 DEF Bit, Both
<1>3. P(w)
  <2> SUFFICES w = [x \in Nat |-> body(w, x)]
    OBVIOUS
  <2> DEFINE v == [x \in Nat |-> body(w, x)]
  <2>1. DOMAIN w = Nat /\ w = [x \in Nat |-> w[x]]
    OBVIOUS
  <2> HIDE DEF w, body
  <2>2. QED
    BY <1>2, <2>1
<1>4. WordAnd = CHOOSE f : P(f)
  BY DEF WordAnd
<1>5. P(WordAnd)
  <2> HIDE DEF P, w
  <2>1. QED
    BY <1>3, <1>4, Zenon
<1>6. \A x \in Nat : WordAnd[x] = body(WordAnd, x)
  <2> HIDE DEF body
  <2>1. WordAnd = [x \in Nat |-> body(WordAnd, x)]
    BY <1>5
  <2>2. QED
    BY <2>1
<1>7. \A x, y \in Nat : WordAnd[x][y] =
        IF x = 0 THEN 0 ELSE 2 * WordAnd[x \div 2][y \div 2] + Bit(x, y)
  BY <1>6 DEF Bit, Both
<1>8. \A x, y \in Nat : WordAnd[x][y] \in Nat
  <2> DEFINE bad == {x \in Nat : \E y \in Nat : WordAnd[x][y] \notin Nat}
  <2> SUFFICES ASSUME bad # {} PROVE FALSE
    OBVIOUS
  <2>1. PICK k \in bad : \A j \in bad : k <= j
    BY LeastNumber
  <2>2. PICK y \in Nat : WordAnd[k][y] \notin Nat
    BY <2>1
  <2>3. k \in Nat /\ \A j \in Nat : j < k => \A z \in Nat : WordAnd[j][z] \in Nat
    BY <2>1
  <2>4. k # 0
    BY <1>7, <2>2
  <2>5. k \div 2 \in Nat /\ k \div 2 < k /\ y \div 2 \in Nat
    BY <2>3, <2>4
  <2>6. WordAnd[k \div 2][y \div 2] \in Nat
    BY <2>3, <2>5
  <2>7. WordAnd[k][y] = 2 * WordAnd[k \div 2][y \div 2] + Bit(k, y)
    BY <1>7, <2>3, <2>4
  <2>8. Bit(k, y) \in Nat
    BY DEF Bit, Both
  <2>9. QED
    BY <2>2, <2>6, <2>7, <2>8
<1>9. QED
  BY <1>7, <1>8, Zenon

\* One step of WordAnd, for the numbers that are written with one bit more.
LEMMA WordAndStep ==
  ASSUME NEW a \in Nat, NEW b \in Nat, NEW p \in 0..1, NEW q \in 0..1
  PROVE  WordAnd[2 * a + p][2 * b + q] =
           2 * WordAnd[a][b] + Both(p, q)
<1>1. /\ 2 * a + p \in Nat /\ (2 * a + p) \div 2 = a /\ (2 * a + p) % 2 = p
      /\ 2 * b + q \in Nat /\ (2 * b + q) \div 2 = b /\ (2 * b + q) % 2 = q
  OBVIOUS
<1>2. CASE 2 * a + p = 0
  <2>1. a = 0 /\ p = 0
    BY <1>2
  <2>2. WordAnd[a][b] = 0 /\ WordAnd[2 * a + p][2 * b + q] = 0
    BY <1>1, <1>2, <2>1, WordAndFacts
  <2>3. QED
    BY <2>1, <2>2 DEF Both
<1>3. CASE 2 * a + p # 0
  <2> DEFINE u == 2 * a + p
             v == 2 * b + q
  <2> HIDE DEF u, v
  <2>1. u \in Nat /\ v \in Nat /\ u # 0 /\ u \div 2 = a /\ v \div 2 = b
    BY <1>1, <1>3 DEF u, v
  <2>2. WordAnd[u][v] = 2 * WordAnd[u \div 2][v \div 2] + Bit(u, v)
    BY <2>1, WordAndFacts
  <2>3. Bit(u, v) = Both(p, q)
    BY <1>1 DEF Bit, u, v
  <2>4. QED
    BY <2>1, <2>2, <2>3 DEF u, v
<1>4. QED
  BY <1>2, <1>3

LEMMA Bits == 0 \in 0..1 /\ 1 \in 0..1 /\ \A p \in 0..1 : p = 0 \/ p = 1
OBVIOUS

\* A mask with its last bit set keeps the last bit.
LEMMA WordAndOdd ==
  ASSUME NEW a \in Nat, NEW b \in Nat, NEW p \in 0..1
  PROVE  WordAnd[2 * a + p][2 * b + 1] = 2 * WordAnd[a][b] + p
<1>1. PICK q \in 0..1 : q = 1
  BY Bits
<1>2. WordAnd[2 * a + p][2 * b + q] = 2 * WordAnd[a][b] + Both(p, q)
  BY <1>1, WordAndStep
<1>3. Both(p, q) = p
  BY <1>1, Bits DEF Both
<1>4. QED
  BY <1>1, <1>2, <1>3

\* A word and itself.
LEMMA WordAndSame ==
  ASSUME NEW x \in Nat
  PROVE  WordAnd[x][x] = x
<1> DEFINE bad == {k \in Nat : WordAnd[k][k] # k}
<1> SUFFICES ASSUME bad # {} PROVE FALSE
  OBVIOUS
<1>1. PICK k \in bad : \A j \in bad : k <= j
  BY LeastNumber
<1>2. k \in Nat /\ WordAnd[k][k] # k /\ \A j \in Nat : j < k => WordAnd[j][j] = j
  BY <1>1
<1>3. k # 0
  BY <1>2, WordAndFacts
<1>4. PICK h \in Nat, p \in 0..1 : k = 2 * h + p
  BY <1>2, HalfIsLess
<1>5. h < k
  BY <1>3, <1>4
<1>6. WordAnd[h][h] = h
  BY <1>2, <1>5
<1>7. WordAnd[2 * h + p][2 * h + p] = 2 * h + p
  <2>1. WordAnd[2 * h + p][2 * h + p] = 2 * WordAnd[h][h] + Both(p, p)
    BY WordAndStep
  <2>2. QED
    BY <1>6, <2>1, Bits DEF Both
<1>8. QED
  BY <1>2, <1>4, <1>7

\* A word and nothing.
LEMMA WordAndZero ==
  ASSUME NEW x \in Nat
  PROVE  WordAnd[x][0] = 0
<1> DEFINE bad == {k \in Nat : WordAnd[k][0] # 0}
<1> SUFFICES ASSUME bad # {} PROVE FALSE
  OBVIOUS
<1>1. PICK k \in bad : \A j \in bad : k <= j
  BY LeastNumber
<1>2. k \in Nat /\ WordAnd[k][0] # 0 /\ \A j \in Nat : j < k => WordAnd[j][0] = 0
  BY <1>1
<1>3. k # 0
  BY <1>2, WordAndFacts
<1>4. k \div 2 \in Nat /\ k \div 2 < k /\ 0 \div 2 = 0 /\ 0 % 2 = 0
  BY <1>2, <1>3, HalfIsLess
<1>5. WordAnd[k][0] = 2 * WordAnd[k \div 2][0 \div 2] + Bit(k, 0)
  BY <1>2, <1>3, WordAndFacts
<1>6. WordAnd[k \div 2][0] = 0 /\ Bit(k, 0) = 0
  BY <1>2, <1>4 DEF Bit, Both
<1>7. QED
  BY <1>2, <1>4, <1>5, <1>6

\* An odd power of two is one; the half of an even one is one again, and so is
\* the double of any.
LEMMA PowersOfTwo ==
  ASSUME NEW n \in Nat
  PROVE  /\ IsPowerOfTwo(2 * n + 1) <=> n = 0
         /\ IsPowerOfTwo(2 * n) <=> IsPowerOfTwo(n)
<1>1. WordAnd[2 * n + 1][2 * n] = 2 * n
  <2>1. WordAnd[2 * n + 1][2 * n + 0] = 2 * WordAnd[n][n] + Both(1, 0)
    BY Bits, WordAndStep, Zenon
  <2>2. QED
    BY <2>1, WordAndSame DEF Both
<1>2. ASSUME n > 0
      PROVE  WordAnd[2 * n][2 * n - 1] = 2 * WordAnd[n][n - 1]
  <2>1. n - 1 \in Nat /\ 2 * (n - 1) + 1 = 2 * n - 1
    BY <1>2
  <2>2. WordAnd[2 * n + 0][2 * (n - 1) + 1]
          = 2 * WordAnd[n][n - 1] + Both(0, 1)
    BY <2>1, Bits, WordAndStep, Zenon
  <2>3. WordAnd[n][n - 1] \in Nat
    BY <2>1, WordAndFacts
  <2>4. QED
    BY <2>1, <2>2, <2>3 DEF Both
<1>3. n > 0 => WordAnd[n][n - 1] \in Nat
  BY WordAndFacts
<1>4. IsPowerOfTwo(2 * n + 1) <=> n = 0
  BY <1>1 DEF IsPowerOfTwo
<1>5. IsPowerOfTwo(2 * n) <=> IsPowerOfTwo(n)
  BY <1>2, <1>3 DEF IsPowerOfTwo
<1>6. QED
  BY <1>4, <1>5

\* The comment in MicrotaskQueue::EnqueueMicrotask, "Keep the capacity of
\* ring_buffer_ power of 2, so that the JIT implementation can calculate the
\* modulo easily": for a power of two the mask of CalculateRingBufferOffset is
\* the remainder that the C++ code computes.
THEOREM MaskIsRemainder ==
  ASSUME NEW c \in Nat, IsPowerOfTwo(c), NEW x \in Nat
  PROVE  WordAnd[x][c - 1] = x % c
<1> DEFINE bad == {k \in Nat : IsPowerOfTwo(k) /\ \E y \in Nat : WordAnd[y][k - 1] # y % k}
<1> SUFFICES ASSUME bad # {} PROVE FALSE
  OBVIOUS
<1>1. PICK k \in bad : \A j \in bad : k <= j
  BY LeastNumber
<1>2. PICK y \in Nat : WordAnd[y][k - 1] # y % k
  BY <1>1
<1>3. /\ k \in Nat /\ k > 0 /\ IsPowerOfTwo(k)
      /\ \A j \in Nat : j < k /\ IsPowerOfTwo(j) =>
           \A z \in Nat : WordAnd[z][j - 1] = z % j
  BY <1>1 DEF IsPowerOfTwo
<1>4. PICK h \in Nat, p \in 0..1 : k = 2 * h + p
  BY <1>3, HalfIsLess
<1>5. CASE p = 1
  <2>1. IsPowerOfTwo(2 * h + 1) <=> h = 0
    BY PowersOfTwo
  <2>2. k = 1
    BY <1>3, <1>4, <1>5, <2>1
  <2>3. WordAnd[y][0] = 0 /\ y % 1 = 0
    BY WordAndZero
  <2>4. QED
    BY <1>2, <2>2, <2>3
<1>6. CASE p = 0
  <2>1. k = 2 * h /\ h > 0 /\ h < k /\ IsPowerOfTwo(h)
    BY <1>3, <1>4, <1>6, PowersOfTwo
  <2>2. PICK z \in Nat, q \in 0..1 : y = 2 * z + q
    BY HalfIsLess
  <2>3. WordAnd[z][h - 1] = z % h
    BY <1>3, <2>1
  <2>4. k - 1 = 2 * (h - 1) + 1
    BY <2>1
  <2>5. WordAnd[2 * z + q][2 * (h - 1) + 1] = 2 * WordAnd[z][h - 1] + q
    <3>1. PICK g \in Nat : g = h - 1
      BY <2>1
    <3>2. WordAnd[2 * z + q][2 * g + 1] = 2 * WordAnd[z][g] + q
      BY <2>2, <3>1, WordAndOdd
    <3>3. QED
      BY <3>1, <3>2
  <2>6. z % h \in Nat
    BY <2>1
  <2>7. WordAnd[y][k - 1] = 2 * (z % h) + q
    BY <2>2, <2>3, <2>4, <2>5, <2>6
  <2>8. (2 * z + q) % (2 * h) = 2 * (z % h) + q
    BY <2>1, <2>2, DoubledRemainder
  <2>9. QED
    BY <1>2, <2>1, <2>2, <2>7, <2>8
<1>7. QED
  BY <1>4, <1>5, <1>6

-----------------------------------------------------------------------------
(* Capacities. *)

\* The first values of the function Halving(n).
Halves(f, n, k) ==
  /\ f \in [0..k -> Nat]
  /\ \A c \in 0..k : f[c] = IF c > 2 * n THEN f[c \div 2] ELSE c

\* They exist, and are the only ones.
LEMMA HalvesExist ==
  ASSUME NEW n \in Nat, NEW k0 \in Nat
  PROVE  \E f : Halves(f, n, k0)
<1> DEFINE missing == {k \in Nat : ~ \E f : Halves(f, n, k)}
<1> SUFFICES ASSUME missing # {} PROVE FALSE
  OBVIOUS
<1>1. PICK k \in missing : \A j \in missing : k <= j
  BY LeastNumber
<1>2. k \in Nat /\ \A j \in Nat : j < k => \E f : Halves(f, n, j)
  BY <1>1
<1>3. CASE k = 0
  <2> DEFINE f == [c \in 0..0 |-> 0]
  <2>1. \A c \in 0..0 : c = 0 /\ ~ (c > 2 * n) /\ c \in Nat
    OBVIOUS
  <2>2. f \in [0..0 -> Nat] /\ \A c \in 0..0 : f[c] = 0
    OBVIOUS
  <2> HIDE DEF f
  <2>3. Halves(f, n, 0)
    BY <2>1, <2>2 DEF Halves
  <2>4. QED
    BY <1>1, <1>3, <2>3
<1>4. CASE k # 0
  <2>1. k - 1 \in Nat /\ k - 1 < k
    BY <1>2, <1>4
  <2>2. PICK g : Halves(g, n, k - 1)
    BY <1>2, <2>1
  <2>3. k \div 2 \in 0..(k - 1)
    BY <1>2, <1>4
  <2> DEFINE last == IF k > 2 * n THEN g[k \div 2] ELSE k
             f == [c \in 0..k |-> IF c = k THEN last ELSE g[c]]
  <2>4. /\ g \in [0..(k - 1) -> Nat]
        /\ \A c \in 0..(k - 1) : g[c] = IF c > 2 * n THEN g[c \div 2] ELSE c
    BY <2>2 DEF Halves
  <2>5. last \in Nat
    BY <1>2, <2>3, <2>4
  <2>6. /\ \A c \in 0..k : c # k => c \in 0..(k - 1)
        /\ \A c \in 0..(k - 1) : c \in 0..k /\ c # k /\ c \div 2 \in 0..(k - 1)
        /\ k \in 0..k
    BY <1>2
  <2>7. f \in [0..k -> Nat] /\ f[k] = last /\ \A c \in 0..(k - 1) : f[c] = g[c]
    <3> HIDE DEF last
    <3>1. QED
      BY <2>4, <2>5, <2>6
  <2> HIDE DEF f
  <2>8. ASSUME NEW c \in 0..k
        PROVE  f[c] = IF c > 2 * n THEN f[c \div 2] ELSE c
    <3>1. CASE c = k
      BY <2>3, <2>7, <3>1
    <3>2. CASE c # k
      <4>1. c \in 0..(k - 1) /\ c \div 2 \in 0..(k - 1)
        BY <2>6, <3>2
      <4>2. f[c] = g[c] /\ f[c \div 2] = g[c \div 2]
        BY <2>7, <4>1
      <4>3. QED
        BY <2>4, <4>1, <4>2
    <3>3. QED
      BY <3>1, <3>2
  <2>9. Halves(f, n, k)
    BY <2>7, <2>8 DEF Halves
  <2>10. QED
    BY <1>1, <2>9
<1>5. QED
  BY <1>3, <1>4

LEMMA HalvesAgree ==
  ASSUME NEW n \in Nat, NEW j \in Nat, NEW k \in Nat, NEW f, NEW g,
         Halves(f, n, j), Halves(g, n, k), NEW c \in Nat, c <= j, c <= k
  PROVE  f[c] = g[c]
<1> DEFINE differ == {d \in Nat : d <= j /\ d <= k /\ f[d] # g[d]}
<1> SUFFICES ASSUME differ # {} PROVE FALSE
  OBVIOUS
<1>1. PICK d \in differ : \A e \in differ : d <= e
  BY LeastNumber
<1>2. /\ d \in Nat /\ d \in 0..j /\ d \in 0..k /\ f[d] # g[d]
      /\ \A e \in Nat : e < d => f[e] = g[e]
  BY <1>1
<1>3. /\ f[d] = IF d > 2 * n THEN f[d \div 2] ELSE d
      /\ g[d] = IF d > 2 * n THEN g[d \div 2] ELSE d
  BY <1>2 DEF Halves
<1>4. d > 2 * n /\ d # 0
  BY <1>2, <1>3
<1>5. d \div 2 \in Nat /\ d \div 2 < d
  BY <1>2, <1>4
<1>6. f[d \div 2] = g[d \div 2]
  BY <1>2, <1>5
<1>7. QED
  BY <1>2, <1>3, <1>6

\* Halving is what its recursive definition says.
LEMMA HalvingFacts ==
  ASSUME NEW n \in Nat
  PROVE  \A c \in Nat :
           /\ Halving(n)[c] \in Nat
           /\ Halving(n)[c] = IF c > 2 * n THEN Halving(n)[c \div 2] ELSE c
<1> DEFINE R(c) == CHOOSE f : Halves(f, n, c)
           w == [c \in Nat |-> R(c)[c]]
           body(f, c) == IF c > 2 * n THEN f[c \div 2] ELSE c
           P(f) == f = [c \in Nat |-> body(f, c)]
           h == Halving(n)
<1>1. \A c \in Nat : Halves(R(c), n, c)
  BY HalvesExist
<1> HIDE DEF R
<1>2. ASSUME NEW c \in Nat PROVE w[c] = body(w, c)
  <2>1. /\ c \in 0..c /\ c \div 2 \in 0..c /\ c \div 2 \in Nat /\ c \div 2 <= c
    OBVIOUS
  <2>2. w[c] = R(c)[c]
    OBVIOUS
  <2>3. w[c \div 2] = R(c)[c \div 2]
    <3>1. w[c \div 2] = R(c \div 2)[c \div 2]
      BY <2>1
    <3>2. R(c \div 2)[c \div 2] = R(c)[c \div 2]
      <4>1. c \div 2 <= c \div 2
        BY <2>1
      <4>2. QED
        BY <1>1, <2>1, <4>1, HalvesAgree
    <3>3. QED
      BY <3>1, <3>2
  <2> HIDE DEF w
  <2>4. R(c)[c] = IF c > 2 * n THEN R(c)[c \div 2] ELSE c
    BY <1>1, <2>1 DEF Halves
  <2>5. QED
    BY <2>2, <2>3, <2>4
<1>3. P(w)
  <2> SUFFICES w = [c \in Nat |-> body(w, c)]
    OBVIOUS
  <2>1. DOMAIN w = Nat /\ w = [c \in Nat |-> w[c]]
    OBVIOUS
  <2> HIDE DEF w, body
  <2>2. QED
    BY <1>2, <2>1
<1>4. h = CHOOSE f : P(f)
  BY DEF Halving
<1> HIDE DEF h
<1>5. P(h)
  <2> HIDE DEF P, w
  <2>1. QED
    BY <1>3, <1>4, Zenon
<1>6. \A c \in Nat : h[c] = body(h, c)
  <2> HIDE DEF body
  <2>1. h = [c \in Nat |-> body(h, c)]
    BY <1>5
  <2>2. QED
    BY <2>1
<1>7. \A c \in Nat : h[c] \in Nat
  <2> DEFINE bad == {c \in Nat : h[c] \notin Nat}
  <2> SUFFICES ASSUME bad # {} PROVE FALSE
    OBVIOUS
  <2>1. PICK k \in bad : \A j \in bad : k <= j
    BY LeastNumber
  <2>2. k \in Nat /\ h[k] \notin Nat /\ \A j \in Nat : j < k => h[j] \in Nat
    BY <2>1
  <2>3. k > 2 * n /\ k # 0 /\ h[k] = h[k \div 2]
    BY <1>6, <2>2
  <2>4. k \div 2 \in Nat /\ k \div 2 < k
    BY <2>2, <2>3
  <2>5. QED
    BY <2>2, <2>3, <2>4
<1>8. QED
  BY <1>6, <1>7 DEF h

\* The capacity of a buffer: none at all before the first microtask.
IsCapacity(c) == c \in Nat /\ (c = 0 \/ IsPowerOfTwo(c))

\* The half of a capacity, rounded down, is one.
LEMMA HalfOfCapacity ==
  ASSUME NEW c, IsCapacity(c)
  PROVE  IsCapacity(c \div 2)
<1>1. PICK h \in Nat, p \in 0..1 : c = 2 * h + p /\ c \div 2 = h
  BY HalfIsLess DEF IsCapacity
<1>2. CASE c = 0
  BY <1>1, <1>2 DEF IsCapacity
<1>3. CASE c # 0 /\ p = 1
  <2>1. IsPowerOfTwo(2 * h + 1)
    BY <1>1, <1>3 DEF IsCapacity
  <2>2. h = 0
    BY <2>1, PowersOfTwo
  <2>3. QED
    BY <1>1, <2>2 DEF IsCapacity
<1>4. CASE c # 0 /\ p = 0
  <2>1. IsPowerOfTwo(2 * h)
    BY <1>1, <1>4 DEF IsCapacity
  <2>2. IsPowerOfTwo(h)
    BY <2>1, PowersOfTwo
  <2>3. QED
    BY <1>1, <2>2 DEF IsCapacity
<1>5. QED
  BY <1>1, <1>2, <1>3, <1>4, Bits

\* The loop ends with a capacity that still holds the n microtasks.
LEMMA HalvedCapacity ==
  ASSUME NEW n \in Nat, NEW c0, IsCapacity(c0), n <= c0
  PROVE  IsCapacity(Halving(n)[c0]) /\ n <= Halving(n)[c0]
<1> DEFINE h == Halving(n)
           bad == {c \in Nat : /\ IsCapacity(c) /\ n <= c
                               /\ ~ (IsCapacity(h[c]) /\ n <= h[c])}
<1>1. \A c \in Nat : h[c] \in Nat /\ h[c] = IF c > 2 * n THEN h[c \div 2] ELSE c
  BY HalvingFacts
<1> HIDE DEF h
<1> SUFFICES ASSUME bad # {} PROVE FALSE
  BY DEF IsCapacity, h
<1>2. PICK k \in bad : \A j \in bad : k <= j
  BY LeastNumber
<1>3. /\ k \in Nat /\ IsCapacity(k) /\ n <= k
      /\ ~ (IsCapacity(h[k]) /\ n <= h[k])
      /\ \A j \in Nat : j < k /\ IsCapacity(j) /\ n <= j => IsCapacity(h[j]) /\ n <= h[j]
  BY <1>2
<1>4. k > 2 * n /\ h[k] = h[k \div 2]
  BY <1>1, <1>3
<1>5. k \div 2 \in Nat /\ k \div 2 < k /\ n <= k \div 2
  BY <1>3, <1>4
<1>6. IsCapacity(k \div 2)
  BY <1>3, HalfOfCapacity
<1>7. QED
  BY <1>3, <1>4, <1>5, <1>6

\* std::max and std::min.
LEMMA MaxOfTwo ==
  ASSUME NEW a \in Int, NEW b \in Int
  PROVE  Max({a, b}) = IF a <= b THEN b ELSE a
<1>1. \E x \in {a, b} : \A y \in {a, b} : x >= y
  OBVIOUS
<1>2. Max({a, b}) \in {a, b} /\ \A y \in {a, b} : Max({a, b}) >= y
  BY <1>1 DEF Max
<1>3. QED
  BY <1>2

LEMMA MinOfTwo ==
  ASSUME NEW a \in Int, NEW b \in Int
  PROVE  Min({a, b}) = IF a <= b THEN a ELSE b
<1>1. \E x \in {a, b} : \A y \in {a, b} : x <= y
  OBVIOUS
<1>2. Min({a, b}) \in {a, b} /\ \A y \in {a, b} : Min({a, b}) <= y
  BY <1>1 DEF Min
<1>3. QED
  BY <1>2

LEMMA MinimumCapacity ==
  kMinimumCapacity \in Nat /\ kMinimumCapacity > 0 /\ IsCapacity(kMinimumCapacity)
BY BoundsAssumption DEF IsPowerOfTwo, IsCapacity

\* A buffer that is full grows to a power of two.
LEMMA GrownFacts ==
  ASSUME IsCapacity(capacity)
  PROVE  IsCapacity(GrownCapacity) /\ GrownCapacity > capacity
<1>1. PICK c \in Nat : c = capacity /\ (c = 0 \/ IsPowerOfTwo(c))
  BY DEF IsCapacity
<1>2. 2 * c \in Nat /\ (c = 0 => 2 * c = 0) /\ (c # 0 => 2 * c > c)
  OBVIOUS
<1>3. IsCapacity(2 * c)
  BY <1>1, <1>2, PowersOfTwo DEF IsCapacity
<1>4. GrownCapacity = IF kMinimumCapacity <= 2 * c THEN 2 * c ELSE kMinimumCapacity
  BY <1>1, <1>2, MinimumCapacity, MaxOfTwo DEF GrownCapacity
<1>5. CASE kMinimumCapacity <= 2 * c
  BY <1>1, <1>2, <1>3, <1>4, <1>5, MinimumCapacity
<1>6. CASE ~ (kMinimumCapacity <= 2 * c)
  BY <1>1, <1>2, <1>4, <1>6, MinimumCapacity
<1>7. QED
  BY <1>5, <1>6

\* The garbage collector leaves room for the microtasks.
LEMMA ShrunkFacts ==
  ASSUME IsCapacity(capacity), size \in Nat, size <= capacity
  PROVE  IsCapacity(ShrunkCapacity) /\ ShrunkCapacity > 0 /\ size <= ShrunkCapacity
<1>1. PICK r \in Nat : r = Halving(size)[capacity] /\ IsCapacity(r) /\ size <= r
  BY HalvedCapacity DEF IsCapacity
<1>2. ShrunkCapacity = IF r <= kMinimumCapacity THEN kMinimumCapacity ELSE r
  BY <1>1, MinimumCapacity, MaxOfTwo DEF ShrunkCapacity
<1>3. QED
  BY <1>1, <1>2, MinimumCapacity

-----------------------------------------------------------------------------
(* The ring buffer b of c places, with n microtasks from place s on. *)

\* It is sound: a power of two of places, those in use hold microtasks.
RingOK(b, c, n, s) ==
  /\ IsCapacity(c) /\ n \in Nat /\ s \in Nat /\ n <= c
  /\ c = 0 => s = 0
  /\ c > 0 => s < c
  /\ b \in [0..(c - 1) -> Microtasks \cup {None}]
  /\ \A i \in 0..(n - 1) : b[(s + i) % c] \in Microtasks

\* Its contents.
Queue(b, c, n, s) == [i \in 1..n |-> b[(s + i - 1) % c]]

\* Places wrap around, and different offsets are different places.
LEMMA Places ==
  ASSUME NEW c \in Nat, c > 0, NEW s \in Nat, s < c
  PROVE  /\ \A i \in 0..c : /\ (s + i) % c = IF s + i < c THEN s + i ELSE s + i - c
                            /\ (s + i) % c \in 0..(c - 1)
         /\ \A i, j \in 0..(c - 1) : (s + i) % c = (s + j) % c => i = j
<1>1. ASSUME NEW i \in 0..c
      PROVE  /\ (s + i) % c = IF s + i < c THEN s + i ELSE s + i - c
             /\ (s + i) % c \in 0..(c - 1)
  <2>1. s + i \in 0..(2 * c - 1)
    OBVIOUS
  <2>2. (s + i) % c = IF s + i < c THEN s + i ELSE s + i - c
    BY <2>1
  <2>3. QED
    BY <2>1, <2>2
<1>2. ASSUME NEW i \in 0..(c - 1), NEW j \in 0..(c - 1), (s + i) % c = (s + j) % c
      PROVE  i = j
  <2>1. i \in 0..c /\ j \in 0..c
    OBVIOUS
  <2>2. /\ (s + i) % c = IF s + i < c THEN s + i ELSE s + i - c
        /\ (s + j) % c = IF s + j < c THEN s + j ELSE s + j - c
    BY <1>1, <2>1
  <2>3. QED
    BY <1>2, <2>2
<1>3. QED
  BY <1>1, <1>2

\* The queue is a sequence of microtasks.
LEMMA QueueFacts ==
  ASSUME NEW b, NEW c, NEW n, NEW s, RingOK(b, c, n, s)
  PROVE  /\ Queue(b, c, n, s) \in Seq(Microtasks)
         /\ Len(Queue(b, c, n, s)) = n
         /\ DOMAIN Queue(b, c, n, s) = 1..n
         /\ \A i \in 0..(n - 1) : Queue(b, c, n, s)[i + 1] = b[(s + i) % c]
<1>1. /\ n \in Nat /\ s \in Nat /\ c \in Nat
      /\ \A i \in 0..(n - 1) : b[(s + i) % c] \in Microtasks
  BY DEF RingOK, IsCapacity
<1>2. /\ \A i \in 1..n : i - 1 \in 0..(n - 1) /\ s + i - 1 = s + (i - 1)
      /\ \A i \in 0..(n - 1) : i + 1 \in 1..n /\ s + (i + 1) - 1 = s + i
  BY <1>1
<1>3. \A i \in 1..n : b[(s + i - 1) % c] \in Microtasks
  BY <1>1, <1>2
<1>4. Queue(b, c, n, s) \in [1..n -> Microtasks]
  BY <1>3 DEF Queue
<1>5. Queue(b, c, n, s) \in Seq(Microtasks)
  BY <1>1, <1>4
<1>6. Len(Queue(b, c, n, s)) = n /\ DOMAIN Queue(b, c, n, s) = 1..n
  BY <1>1, <1>4, <1>5
<1>7. \A i \in 0..(n - 1) : Queue(b, c, n, s)[i + 1] = b[(s + i) % c]
  BY <1>2 DEF Queue
<1>8. QED
  BY <1>5, <1>6, <1>7

\* The first n microtasks of one buffer are those of another.
Copied(b, c, n, s, b2, c2, s2) ==
  \A i \in 0..(n - 1) : b2[(s2 + i) % c2] = b[(s + i) % c]

\* Two buffers with the same microtasks, from the front on, hold the same queue.
LEMMA SameQueue ==
  ASSUME NEW b, NEW c, NEW n, NEW s, RingOK(b, c, n, s),
         NEW b2, NEW c2, NEW s2, RingOK(b2, c2, n, s2),
         Copied(b, c, n, s, b2, c2, s2)
  PROVE  Queue(b2, c2, n, s2) = Queue(b, c, n, s)
<1> DEFINE q == Queue(b, c, n, s)
           q2 == Queue(b2, c2, n, s2)
<1>1. /\ q \in Seq(Microtasks) /\ Len(q) = n
      /\ \A i \in 0..(n - 1) : q[i + 1] = b[(s + i) % c]
  BY QueueFacts
<1>2. /\ q2 \in Seq(Microtasks) /\ Len(q2) = n
      /\ \A i \in 0..(n - 1) : q2[i + 1] = b2[(s2 + i) % c2]
  BY QueueFacts
<1> HIDE DEF q, q2
<1>3. n \in Nat
  BY DEF RingOK
<1>4. \A i \in 1..n : i - 1 \in 0..(n - 1) /\ (i - 1) + 1 = i
  BY <1>3
<1>5. \A i \in 0..(n - 1) : q2[i + 1] = q[i + 1]
  BY <1>1, <1>2 DEF Copied
<1>6. \A i \in 1..n : q2[i] = q[i]
  BY <1>4, <1>5
<1>7. q2 = q
  BY <1>1, <1>2, <1>6, SeqEqual
<1>8. QED
  BY <1>7 DEF q, q2

\* One microtask more, as a number, as a queue and as a buffer.
OneMore(n, n2) == n2 = n + 1
OneLonger(q2, q, m) == q2 = Append(q, m)
Stored(b2, b, k, m) == b2 = [b EXCEPT ![k] = m]

\* A buffer with one more at the end holds the queue with that one appended.
LEMMA LongerQueue ==
  ASSUME NEW b, NEW c, NEW n, NEW s, RingOK(b, c, n, s),
         NEW b2, NEW c2, NEW n2, NEW s2, RingOK(b2, c2, n2, s2), OneMore(n, n2),
         Copied(b, c, n, s, b2, c2, s2)
  PROVE  OneLonger(Queue(b2, c2, n2, s2), Queue(b, c, n, s), b2[(s2 + n) % c2])
<1> DEFINE q == Queue(b, c, n, s)
           q2 == Queue(b2, c2, n2, s2)
           m == b2[(s2 + n) % c2]
<1>1. n \in Nat /\ n2 - 1 = n /\ n2 = n + 1
  BY DEF RingOK, OneMore
<1>2. /\ q \in Seq(Microtasks) /\ Len(q) = n
      /\ \A i \in 0..(n - 1) : q[i + 1] = b[(s + i) % c]
  BY QueueFacts
<1>3. /\ q2 \in Seq(Microtasks) /\ Len(q2) = n + 1
      /\ \A i \in 0..(n2 - 1) : q2[i + 1] = b2[(s2 + i) % c2]
  BY <1>1, QueueFacts
<1>4. /\ \A i \in 1..(n + 1) : i = n + 1 \/ i \in 1..n
      /\ \A i \in 1..n : i - 1 \in 0..(n - 1) /\ (i - 1) + 1 = i
      /\ \A i \in 0..(n - 1) : i \in 0..(n2 - 1)
      /\ n \in 0..(n2 - 1)
  BY <1>1
<1>5. m \in Microtasks
  BY <1>4 DEF RingOK
<1> HIDE DEF q, q2
<1>6. q2[n + 1] = m
  BY <1>3, <1>4
<1>7. \A i \in 0..(n - 1) : q2[i + 1] = q[i + 1]
  BY <1>2, <1>3, <1>4 DEF Copied
<1> HIDE DEF m
<1>8. /\ Append(q, m) \in Seq(Microtasks) /\ Len(Append(q, m)) = n + 1
      /\ \A i \in 1..n : Append(q, m)[i] = q[i]
      /\ Append(q, m)[n + 1] = m
  BY <1>1, <1>2, <1>5
<1>9. \A i \in 1..n : q2[i] = q[i]
  BY <1>4, <1>7
<1>10. \A i \in 1..(n + 1) : q2[i] = Append(q, m)[i]
  BY <1>4, <1>6, <1>8, <1>9, Zenon
<1>11. q2 = Append(q, m)
  BY <1>3, <1>8, <1>10, SeqEqual
<1>12. QED
  BY <1>11 DEF q, q2, m, OneLonger

\* A microtask is added to a buffer that is not full.
LEMMA RingPut ==
  ASSUME NEW b, NEW c, NEW n, NEW s, RingOK(b, c, n, s), n # c,
         NEW m \in Microtasks, NEW b2, Stored(b2, b, (s + n) % c, m)
  PROVE  /\ RingOK(b2, c, n + 1, s)
         /\ Queue(b2, c, n + 1, s) = Append(Queue(b, c, n, s), m)
<1>1. /\ c \in Nat /\ c > 0 /\ n \in Nat /\ n < c /\ s \in Nat /\ s < c
      /\ IsCapacity(c) /\ b \in [0..(c - 1) -> Microtasks \cup {None}]
      /\ \A i \in 0..(n - 1) : b[(s + i) % c] \in Microtasks
  BY DEF RingOK, IsCapacity
<1>2. /\ \A i \in 0..c : (s + i) % c \in 0..(c - 1)
      /\ \A i, j \in 0..(c - 1) : (s + i) % c = (s + j) % c => i = j
  BY <1>1, Places
<1>3. /\ n \in 0..c /\ n \in 0..(c - 1)
      /\ \A i \in 0..(n - 1) : i \in 0..c /\ i \in 0..(c - 1) /\ i # n
      /\ \A i \in 0..n : i = n \/ i \in 0..(n - 1)
      /\ (n + 1) - 1 = n /\ n + 1 \in Nat /\ n + 1 <= c
  BY <1>1
<1>4. PICK k \in 0..(c - 1) : k = (s + n) % c
  BY <1>2, <1>3
<1>5. /\ b2 \in [0..(c - 1) -> Microtasks \cup {None}] /\ b2[k] = m
      /\ \A i \in 0..(c - 1) : i # k => b2[i] = b[i]
  BY <1>1, <1>4 DEF Stored
<1>6. \A i \in 0..(n - 1) : (s + i) % c \in 0..(c - 1) /\ (s + i) % c # k
  BY <1>2, <1>3, <1>4
<1>7. \A i \in 0..(n - 1) : b2[(s + i) % c] = b[(s + i) % c]
  BY <1>5, <1>6
<1>8. b2[(s + n) % c] = m
  BY <1>4, <1>5
<1>9. \A i \in 0..((n + 1) - 1) : b2[(s + i) % c] \in Microtasks
  BY <1>1, <1>3, <1>7, <1>8, Zenon
<1>10. RingOK(b2, c, n + 1, s)
  BY <1>1, <1>3, <1>5, <1>9 DEF RingOK
<1>11. Copied(b, c, n, s, b2, c, s)
  BY <1>7 DEF Copied
<1>12. PICK n2 : n2 = n + 1 /\ OneMore(n, n2)
  BY DEF OneMore
<1>13. OneLonger(Queue(b2, c, n2, s), Queue(b, c, n, s), b2[(s + n) % c])
  <2>1. RingOK(b2, c, n2, s)
    BY <1>10, <1>12
  <2>2. QED
    BY <1>11, <1>12, <2>1, LongerQueue
<1>14. QED
  BY <1>8, <1>10, <1>12, <1>13 DEF OneLonger

\* A microtask leaves the buffer.
LEMMA RingGet ==
  ASSUME NEW b, NEW c, NEW n, NEW s, RingOK(b, c, n, s), n > 0
  PROVE  /\ RingOK(b, c, n - 1, (s + 1) % c)
         /\ Queue(b, c, n, s) # <<>>
         /\ Queue(b, c, n - 1, (s + 1) % c) = Tail(Queue(b, c, n, s))
         /\ b[s % c] \in Microtasks
<1>1. /\ c \in Nat /\ c > 0 /\ n \in Nat /\ n <= c /\ s \in Nat /\ s < c
      /\ IsCapacity(c) /\ b \in [0..(c - 1) -> Microtasks \cup {None}]
      /\ \A i \in 0..(n - 1) : b[(s + i) % c] \in Microtasks
  BY DEF RingOK, IsCapacity
<1>2. \A i \in 0..c : /\ (s + i) % c = IF s + i < c THEN s + i ELSE s + i - c
                      /\ (s + i) % c \in 0..(c - 1)
  BY <1>1, Places
<1>3. PICK t \in Nat : t = (s + 1) % c /\ t < c /\ t = IF s + 1 < c THEN s + 1 ELSE s + 1 - c
  BY <1>1, <1>2
<1>4. \A i \in 0..c : (t + i) % c = IF t + i < c THEN t + i ELSE t + i - c
  BY <1>1, <1>3, Places
<1>5. ASSUME NEW i \in 0..(c - 1)
      PROVE  (t + i) % c = (s + (i + 1)) % c
  <2>1. i \in 0..c /\ i + 1 \in 0..c
    BY <1>1
  <2>2. /\ (t + i) % c = IF t + i < c THEN t + i ELSE t + i - c
        /\ (s + (i + 1)) % c = IF s + (i + 1) < c THEN s + (i + 1) ELSE s + (i + 1) - c
    BY <1>2, <1>4, <2>1
  <2>3. (t + i) % c \in 0..(c - 1) /\ t + i < 2 * c
    BY <1>1, <1>3, <2>1, <2>2
  <2>4. CASE s + 1 < c
    BY <1>1, <1>3, <2>2, <2>4
  <2>5. CASE ~ (s + 1 < c)
    BY <1>1, <1>3, <2>2, <2>5
  <2>6. QED
    BY <2>4, <2>5
<1>6. /\ n - 1 \in Nat /\ n - 1 <= c
      /\ \A i \in 0..((n - 1) - 1) : i \in 0..(c - 1) /\ i + 1 \in 0..(n - 1)
      /\ 0 \in 0..(n - 1) /\ s + 0 = s
  BY <1>1
<1>7. \A i \in 0..((n - 1) - 1) : b[(t + i) % c] = b[(s + (i + 1)) % c]
  BY <1>5, <1>6
<1>8. \A i \in 0..((n - 1) - 1) : b[(t + i) % c] \in Microtasks
  BY <1>1, <1>6, <1>7
<1>9. RingOK(b, c, n - 1, t)
  BY <1>1, <1>3, <1>6, <1>8 DEF RingOK
<1>10. b[s % c] \in Microtasks
  BY <1>1, <1>6
<1> DEFINE q == Queue(b, c, n, s)
           q2 == Queue(b, c, n - 1, t)
<1>11. /\ q \in Seq(Microtasks) /\ Len(q) = n
       /\ \A i \in 0..(n - 1) : q[i + 1] = b[(s + i) % c]
  BY QueueFacts
<1>12. /\ q2 \in Seq(Microtasks) /\ Len(q2) = n - 1
       /\ \A i \in 0..((n - 1) - 1) : q2[i + 1] = b[(t + i) % c]
  BY <1>9, QueueFacts
<1> HIDE DEF q, q2
<1>13. /\ q # <<>> /\ Tail(q) \in Seq(Microtasks) /\ Len(Tail(q)) = n - 1
       /\ \A i \in 1..(n - 1) : Tail(q)[i] = q[i + 1]
  BY <1>1, <1>11, HeadTailProperties
<1>14. /\ \A i \in 1..(n - 1) : /\ i - 1 \in 0..((n - 1) - 1) /\ (i - 1) + 1 = i
                                /\ i \in 0..(n - 1)
  BY <1>1
<1>15. ASSUME NEW i \in 1..(n - 1) PROVE q2[i] = Tail(q)[i]
  <2>1. PICK j \in 0..((n - 1) - 1) : j = i - 1 /\ j + 1 = i /\ i \in 0..(n - 1)
    BY <1>14
  <2>2. q2[j + 1] = b[(s + (j + 1)) % c]
    BY <1>7, <1>12, <2>1
  <2>3. q[i + 1] = b[(s + i) % c]
    BY <1>11, <2>1
  <2>4. QED
    BY <1>13, <2>1, <2>2, <2>3
<1>16. q2 = Tail(q)
  BY <1>12, <1>13, <1>15, SeqEqual
<1>17. QED
  BY <1>3, <1>9, <1>10, <1>13, <1>16 DEF q, q2

\* The microtasks are copied to the front of another buffer.
LEMMA RingResize ==
  ASSUME NEW b, NEW c, NEW n, NEW s, RingOK(b, c, n, s),
         NEW c2, IsCapacity(c2), c2 > 0, n <= c2,
         NEW b2, b2 = [i \in 0..(c2 - 1) |-> IF i < n THEN b[(s + i) % c] ELSE None]
  PROVE  /\ RingOK(b2, c2, n, 0)
         /\ Queue(b2, c2, n, 0) = Queue(b, c, n, s)
<1>1. /\ n \in Nat /\ c2 \in Nat
      /\ \A i \in 0..(n - 1) : b[(s + i) % c] \in Microtasks
  BY DEF RingOK, IsCapacity
<1>2. /\ \A i \in 0..(c2 - 1) : i < n => i \in 0..(n - 1)
      /\ \A i \in 0..(n - 1) : i \in 0..(c2 - 1) /\ i < n /\ (0 + i) % c2 = i
      /\ 0 < c2
  <2>1. ASSUME NEW i \in 0..(n - 1) PROVE (0 + i) % c2 = i
    <3>1. 0 + i \in 0..(c2 - 1)
      BY <1>1
    <3>2. QED
      BY <1>1, <3>1
  <2>2. QED
    BY <1>1, <2>1
<1>3. b2 \in [0..(c2 - 1) -> Microtasks \cup {None}]
  <2>1. \A i \in 0..(c2 - 1) :
          (IF i < n THEN b[(s + i) % c] ELSE None) \in Microtasks \cup {None}
    BY <1>1, <1>2
  <2>2. QED
    BY <2>1
<1>4. \A i \in 0..(n - 1) : b2[i] = b[(s + i) % c]
  BY <1>2
<1>5. \A i \in 0..(n - 1) : b2[(0 + i) % c2] = b[(s + i) % c]
  BY <1>2, <1>4
<1>6. RingOK(b2, c2, n, 0)
  BY <1>1, <1>2, <1>3, <1>5 DEF RingOK
<1>7. Copied(b, c, n, s, b2, c2, 0)
  BY <1>5 DEF Copied
<1>8. QED
  BY <1>6, <1>7, SameQueue

\* The same, with one more microtask behind the others.
LEMMA RingGrow ==
  ASSUME NEW b, NEW c, NEW n, NEW s, RingOK(b, c, n, s), NEW m \in Microtasks,
         NEW c2, IsCapacity(c2), n < c2,
         NEW b2, b2 = [i \in 0..(c2 - 1) |-> IF i < n THEN b[(s + i) % c]
                                             ELSE IF i = n THEN m ELSE None]
  PROVE  /\ RingOK(b2, c2, n + 1, 0)
         /\ Queue(b2, c2, n + 1, 0) = Append(Queue(b, c, n, s), m)
<1>1. /\ n \in Nat /\ c2 \in Nat /\ (n + 1) - 1 = n /\ n + 1 \in Nat /\ n + 1 <= c2
      /\ \A i \in 0..(n - 1) : b[(s + i) % c] \in Microtasks
  BY DEF RingOK, IsCapacity
<1>2. /\ \A i \in 0..(c2 - 1) : i < n => i \in 0..(n - 1)
      /\ \A i \in 0..(n - 1) : i \in 0..(c2 - 1) /\ i < n /\ i \in 0..n
      /\ \A i \in 0..n : (0 + i) % c2 = i
      /\ \A i \in 0..n : i = n \/ i \in 0..(n - 1)
      /\ n \in 0..(c2 - 1) /\ ~ (n < n) /\ n \in 0..n
      /\ 0 < c2
  <2>1. ASSUME NEW i \in 0..n PROVE (0 + i) % c2 = i
    <3>1. 0 + i \in 0..(c2 - 1)
      BY <1>1
    <3>2. QED
      BY <1>1, <3>1
  <2>2. QED
    BY <1>1, <2>1
<1>3. b2 \in [0..(c2 - 1) -> Microtasks \cup {None}]
  <2>1. \A i \in 0..(c2 - 1) :
          (IF i < n THEN b[(s + i) % c] ELSE IF i = n THEN m ELSE None)
            \in Microtasks \cup {None}
    BY <1>1, <1>2
  <2>2. QED
    BY <2>1
<1>4. b2[n] = m /\ \A i \in 0..(n - 1) : b2[i] = b[(s + i) % c]
  BY <1>2
<1>5. /\ b2[(0 + n) % c2] = m
      /\ \A i \in 0..(n - 1) : b2[(0 + i) % c2] = b[(s + i) % c]
  BY <1>2, <1>4
<1>6. \A i \in 0..((n + 1) - 1) : b2[(0 + i) % c2] \in Microtasks
  BY <1>1, <1>2, <1>5, Zenon
<1>7. RingOK(b2, c2, n + 1, 0)
  BY <1>1, <1>2, <1>3, <1>6 DEF RingOK
<1>8. Copied(b, c, n, s, b2, c2, 0)
  BY <1>5 DEF Copied
<1>9. PICK n2 : n2 = n + 1 /\ OneMore(n, n2)
  BY DEF OneMore
<1>10. OneLonger(Queue(b2, c2, n2, 0), Queue(b, c, n, s), b2[(0 + n) % c2])
  <2>1. RingOK(b2, c2, n2, 0)
    BY <1>7, <1>9
  <2>2. QED
    BY <1>8, <1>9, <2>1, LongerQueue
<1>11. QED
  BY <1>5, <1>7, <1>9, <1>10 DEF OneLonger

\* The slots that IterateMicrotasks visits, and the ones in use.
Visited(c, n, s) == s..(Min({s + n, c}) - 1) \cup 0..(Max({s + n - c, 0}) - 1)
Used(c, n, s) == {(s + i) % c : i \in 0..(n - 1)}

LEMMA RingSlots ==
  ASSUME NEW b, NEW c, NEW n, NEW s, RingOK(b, c, n, s)
  PROVE  Visited(c, n, s) = Used(c, n, s)
<1>1. c \in Nat /\ n \in Nat /\ s \in Nat /\ n <= c
  BY DEF RingOK, IsCapacity
<1>2. /\ Min({s + n, c}) = IF s + n <= c THEN s + n ELSE c
      /\ Max({s + n - c, 0}) = IF s + n - c <= 0 THEN 0 ELSE s + n - c
  BY <1>1, MinOfTwo, MaxOfTwo
<1>3. PICK lo \in Nat : lo = IF s + n <= c THEN s + n ELSE c
  BY <1>1
<1>4. PICK hi \in Nat : hi = IF s + n - c <= 0 THEN 0 ELSE s + n - c
  BY <1>1
<1> SUFFICES s..(lo - 1) \cup 0..(hi - 1) = {(s + i) % c : i \in 0..(n - 1)}
  BY <1>2, <1>3, <1>4 DEF Visited, Used
<1>5. CASE c = 0
  <2>1. n = 0 /\ s = 0 /\ lo = 0 /\ hi = 0
    BY <1>1, <1>3, <1>4, <1>5 DEF RingOK
  <2>2. s..(lo - 1) = {} /\ 0..(hi - 1) = {} /\ 0..(n - 1) = {}
    BY <2>1
  <2>3. QED
    BY <2>2, Zenon
<1>6. CASE c > 0
  <2>1. s < c
    BY <1>6 DEF RingOK
  <2>2. \A i \in 0..c : (s + i) % c = IF s + i < c THEN s + i ELSE s + i - c
    BY <1>1, <1>6, <2>1, Places
  <2>3. ASSUME NEW i \in 0..(n - 1)
        PROVE  (s + i) % c \in s..(lo - 1) \cup 0..(hi - 1)
    <3>1. (s + i) % c = IF s + i < c THEN s + i ELSE s + i - c
      BY <1>1, <2>2
    <3>2. QED
      BY <1>1, <1>3, <1>4, <2>1, <3>1
  <2>4. ASSUME NEW k \in s..(lo - 1)
        PROVE  \E i \in 0..(n - 1) : (s + i) % c = k
    <3>1. PICK i \in 0..(n - 1) : i = k - s /\ i \in 0..c /\ s + i = k /\ k < c
      BY <1>1, <1>3, <2>1
    <3>2. (s + i) % c = k
      BY <2>2, <3>1
    <3>3. QED
      BY <3>1, <3>2
  <2>5. ASSUME NEW k \in 0..(hi - 1)
        PROVE  \E i \in 0..(n - 1) : (s + i) % c = k
    <3>1. PICK i \in 0..(n - 1) : i = k + c - s /\ i \in 0..c /\ ~ (s + i < c) /\ s + i - c = k
      BY <1>1, <1>4, <2>1
    <3>2. (s + i) % c = k
      BY <2>2, <3>1
    <3>3. QED
      BY <3>1, <3>2
  <2>6. QED
    BY <2>3, <2>4, <2>5, Zenon
<1>7. c = 0 \/ c > 0
  BY <1>1
<1>8. QED
  BY <1>5, <1>6, <1>7, Zenon

-----------------------------------------------------------------------------
(* The native stack. *)

\* Where on the stack st there are such frames, how many, and the frames that
\* keep RunMicrotasks from starting.
At(st, frames) == {i \in DOMAIN st : st[i] \in frames}
Count(st, frames) == Cardinality(At(st, frames))
Deferring == {"run", "scope", "suppress"}

\* The stack st with counters d and u, and r for is_running_microtasks.
StackOK(st, d, u, r) ==
  /\ st \in Seq(Frames)
  /\ d = Count(st, {"scope"}) /\ u = Count(st, {"suppress", "run"})
  /\ r \in BOOLEAN
  /\ r <=> At(st, {"run"}) # {}
  /\ \A j \in At(st, {"run"}) : \A i \in At(st, Deferring) : ~ (i < j)

LEMMA FrameSets ==
  /\ "run" \in Frames /\ "scope" \in Frames /\ "suppress" \in Frames
  /\ "completed" \in Frames /\ "fire" \in Frames /\ "call" \in Frames
BY DEF Frames

\* What a frame that is entered adds.
LEMMA FramesPushed ==
  ASSUME NEW st \in Seq(Frames), NEW f \in Frames, NEW frames
  PROVE  /\ Append(st, f) \in Seq(Frames)
         /\ Len(st) \in Nat /\ Len(st) + 1 \notin At(st, frames)
         /\ \A i \in At(st, frames) : i \in Nat /\ i < Len(st) + 1
         /\ f \in frames => At(Append(st, f), frames) = At(st, frames) \cup {Len(st) + 1}
         /\ f \notin frames => At(Append(st, f), frames) = At(st, frames)
<1>1. /\ Append(st, f) \in Seq(Frames)
      /\ Len(st) \in Nat /\ DOMAIN st = 1..Len(st)
      /\ DOMAIN Append(st, f) = 1..(Len(st) + 1)
      /\ \A i \in 1..Len(st) : Append(st, f)[i] = st[i]
      /\ Append(st, f)[Len(st) + 1] = f
  OBVIOUS
<1>2. /\ \A i \in 1..(Len(st) + 1) : i \in 1..Len(st) \/ i = Len(st) + 1
      /\ \A i \in 1..Len(st) : i \in 1..(Len(st) + 1) /\ i < Len(st) + 1 /\ i \in Nat
      /\ Len(st) + 1 \in 1..(Len(st) + 1) /\ Len(st) + 1 \notin 1..Len(st)
  BY <1>1
<1>3. /\ f \in frames => At(Append(st, f), frames) = At(st, frames) \cup {Len(st) + 1}
      /\ f \notin frames => At(Append(st, f), frames) = At(st, frames)
  <2>1. ASSUME f \in frames
        PROVE  At(Append(st, f), frames) = At(st, frames) \cup {Len(st) + 1}
    BY <1>1, <1>2, <2>1, Zenon DEF At
  <2>2. ASSUME f \notin frames PROVE At(Append(st, f), frames) = At(st, frames)
    BY <1>1, <1>2, <2>2, Zenon DEF At
  <2>3. QED
    BY <2>1, <2>2
<1>4. /\ Len(st) + 1 \notin At(st, frames)
      /\ \A i \in At(st, frames) : i \in Nat /\ i < Len(st) + 1
  BY <1>1, <1>2 DEF At
<1>5. QED
  BY <1>1, <1>3, <1>4

LEMMA AtFinite ==
  ASSUME NEW st \in Seq(Frames), NEW frames
  PROVE  /\ IsFiniteSet(At(st, frames)) /\ Count(st, frames) \in Nat
         /\ Count(st, frames) = 0 <=> At(st, frames) = {}
<1>1. DOMAIN st = 1..Len(st) /\ Len(st) \in Nat
  OBVIOUS
<1>2. IsFiniteSet(1..Len(st))
  BY <1>1, FS_Interval
<1>3. At(st, frames) \in SUBSET (1..Len(st))
  BY <1>1 DEF At
<1>4. IsFiniteSet(At(st, frames))
  BY <1>2, <1>3, FS_Subset
<1>5. QED
  BY <1>4, FS_CardinalityType, FS_EmptySet DEF Count

LEMMA CountPushed ==
  ASSUME NEW st \in Seq(Frames), NEW f \in Frames, NEW frames
  PROVE  /\ f \in frames => Count(Append(st, f), frames) = Count(st, frames) + 1
         /\ f \notin frames => Count(Append(st, f), frames) = Count(st, frames)
<1> DEFINE a == At(st, frames)
           n == Len(st) + 1
<1>1. /\ IsFiniteSet(a) /\ n \notin a /\ Cardinality(a) \in Nat
      /\ f \in frames => At(Append(st, f), frames) = a \cup {n}
      /\ f \notin frames => At(Append(st, f), frames) = a
  BY AtFinite, FramesPushed DEF Count
<1> HIDE DEF a, n
<1>2. CASE f \in frames
  <2>1. Cardinality(a \cup {n}) = Cardinality(a) + 1
    BY <1>1, FS_AddElement
  <2>2. QED
    BY <1>1, <1>2, <2>1 DEF Count, a
<1>3. CASE f \notin frames
  <2>1. At(Append(st, f), frames) = a
    BY <1>1, <1>3
  <2>2. QED
    BY <1>1, <1>3, <2>1 DEF Count, a
<1>4. QED
  BY <1>2, <1>3

\* A frame other than RunMicrotasks is entered.
LEMMA PushFrame ==
  ASSUME NEW st, NEW d, NEW u, NEW r, StackOK(st, d, u, r), NEW f \in Frames, f # "run"
  PROVE  StackOK(Append(st, f), d + (IF f = "scope" THEN 1 ELSE 0),
                 u + (IF f = "suppress" THEN 1 ELSE 0), r)
<1>1. /\ st \in Seq(Frames) /\ d = Count(st, {"scope"}) /\ u = Count(st, {"suppress", "run"})
      /\ r \in BOOLEAN /\ (r <=> At(st, {"run"}) # {})
      /\ \A j \in At(st, {"run"}) : \A i \in At(st, Deferring) : ~ (i < j)
  BY DEF StackOK
<1>2. /\ f \in {"scope"} <=> f = "scope"
      /\ f \in {"suppress", "run"} <=> f = "suppress"
      /\ f \notin {"run"}
  OBVIOUS
<1>3. /\ Count(Append(st, f), {"scope"}) = d + (IF f = "scope" THEN 1 ELSE 0)
      /\ Count(Append(st, f), {"suppress", "run"}) = u + (IF f = "suppress" THEN 1 ELSE 0)
  <2>1. d \in Nat /\ u \in Nat
    BY <1>1, AtFinite
  <2>2. QED
    BY <1>1, <1>2, <2>1, CountPushed
<1>4. At(Append(st, f), {"run"}) = At(st, {"run"}) /\ Append(st, f) \in Seq(Frames)
  BY <1>1, <1>2, FramesPushed
<1>5. ASSUME NEW j \in At(st, {"run"}), NEW i \in At(Append(st, f), Deferring)
      PROVE  ~ (i < j)
  <2>1. i \in At(st, Deferring) \/ i = Len(st) + 1
    BY <1>1, FramesPushed
  <2>2. j \in Nat /\ j < Len(st) + 1 /\ Len(st) \in Nat
    BY <1>1, FramesPushed
  <2>3. QED
    BY <1>1, <2>1, <2>2
<1>6. QED
  BY <1>1, <1>3, <1>4, <1>5 DEF StackOK

\* RunMicrotasks is entered where nothing defers it.
LEMMA PushRun ==
  ASSUME NEW st, NEW d, NEW u, NEW r, StackOK(st, d, u, r), r = FALSE, d = 0, u = 0
  PROVE  StackOK(Append(st, "run"), d, u + 1, TRUE)
<1>1. /\ st \in Seq(Frames) /\ d = Count(st, {"scope"}) /\ u = Count(st, {"suppress", "run"})
      /\ At(st, {"run"}) = {}
  BY DEF StackOK
<1>2. At(st, {"scope"}) = {} /\ At(st, {"suppress", "run"}) = {}
  BY <1>1, AtFinite
<1>3. At(st, Deferring) = {}
  BY <1>2 DEF At, Deferring
<1>4. PICK f \in Frames : f = "run"
  BY FrameSets
<1>5. /\ f \notin {"scope"} /\ f \in {"suppress", "run"} /\ f \in {"run"} /\ f \in Deferring
  BY <1>4 DEF Deferring
<1>6. /\ Count(Append(st, f), {"scope"}) = d
      /\ Count(Append(st, f), {"suppress", "run"}) = u + 1
  <2>1. d \in Nat /\ u \in Nat
    OBVIOUS
  <2>2. QED
    BY <1>1, <1>5, <2>1, CountPushed
<1>7. /\ At(Append(st, f), {"run"}) = {Len(st) + 1} /\ Append(st, f) \in Seq(Frames)
      /\ At(Append(st, f), Deferring) = {Len(st) + 1} /\ Len(st) \in Nat
  <2>1. /\ At(Append(st, f), {"run"}) = At(st, {"run"}) \cup {Len(st) + 1}
        /\ At(Append(st, f), Deferring) = At(st, Deferring) \cup {Len(st) + 1}
        /\ Append(st, f) \in Seq(Frames) /\ Len(st) \in Nat
    BY <1>1, <1>5, FramesPushed
  <2>2. QED
    BY <1>1, <1>3, <2>1
<1>8. ~ (Len(st) + 1 < Len(st) + 1)
  BY <1>7
<1>9. QED
  BY <1>4, <1>6, <1>7, <1>8 DEF StackOK

\* The stack without its top frame, and that frame.
LEMMA FrontAndLast ==
  ASSUME NEW st \in Seq(Frames), st # <<>>
  PROVE  /\ Front(st) \in Seq(Frames) /\ Last(st) \in Frames
         /\ st = Append(Front(st), Last(st))
<1>1. Len(st) \in Nat /\ Len(st) > 0
  OBVIOUS
<1>2. /\ Front(st) \in Seq(Frames) /\ Last(st) \in Frames
      /\ Len(Front(st)) = Len(st) - 1
      /\ \A i \in 1..(Len(st) - 1) : Front(st)[i] = st[i]
  <2>1. PICK k \in Nat : k = Len(st) - 1 /\ k + 1 = Len(st)
    BY <1>1
  <2>2. SubSeq(st, 1, k) \in Seq(Frames) /\ Len(SubSeq(st, 1, k)) = k
    BY <2>1
  <2>3. \A i \in 1..k : SubSeq(st, 1, k)[i] = st[i]
    BY <2>1
  <2>4. st[Len(st)] \in Frames
    BY <1>1
  <2>5. QED
    BY <2>1, <2>2, <2>3, <2>4 DEF Front, Last
<1> DEFINE a == Append(Front(st), Last(st))
<1>3. /\ a \in Seq(Frames) /\ Len(a) = Len(st)
      /\ \A i \in 1..(Len(st) - 1) : a[i] = Front(st)[i]
      /\ a[Len(st)] = Last(st)
  <2>1. PICK t \in Seq(Frames), f \in Frames : t = Front(st) /\ f = Last(st)
    BY <1>2
  <2>2. /\ Append(t, f) \in Seq(Frames) /\ Len(Append(t, f)) = Len(t) + 1
        /\ \A i \in 1..Len(t) : Append(t, f)[i] = t[i]
        /\ Append(t, f)[Len(t) + 1] = f
    OBVIOUS
  <2>3. Len(t) = Len(st) - 1 /\ Len(t) + 1 = Len(st)
    BY <1>1, <1>2, <2>1
  <2>4. QED
    BY <2>1, <2>2, <2>3
<1>4. \A i \in 1..Len(st) : i \in 1..(Len(st) - 1) \/ i = Len(st)
  BY <1>1
<1>5. \A i \in 1..Len(st) : a[i] = st[i]
  BY <1>2, <1>3, <1>4 DEF Last
<1> HIDE DEF a
<1>6. a = st
  BY <1>3, <1>5, SeqEqual
<1>7. QED
  BY <1>2, <1>6 DEF a

\* The top frame is left.
LEMMA PopFrame ==
  ASSUME NEW st, NEW d, NEW u, NEW r, StackOK(st, d, u, r), st # <<>>, Last(st) # "run"
  PROVE  /\ StackOK(Front(st), d - (IF Last(st) = "scope" THEN 1 ELSE 0),
                    u - (IF Last(st) = "suppress" THEN 1 ELSE 0), r)
         /\ Last(st) = "scope" => d > 0
         /\ Last(st) = "suppress" => u > 0
<1>1. /\ st \in Seq(Frames) /\ d = Count(st, {"scope"}) /\ u = Count(st, {"suppress", "run"})
      /\ r \in BOOLEAN /\ (r <=> At(st, {"run"}) # {})
      /\ \A j \in At(st, {"run"}) : \A i \in At(st, Deferring) : ~ (i < j)
  BY DEF StackOK
<1>2. PICK t \in Seq(Frames), f \in Frames : t = Front(st) /\ f = Last(st) /\ st = Append(t, f)
  BY <1>1, FrontAndLast
<1>3. /\ f \in {"scope"} <=> f = "scope"
      /\ f \in {"suppress", "run"} <=> f = "suppress"
      /\ f \notin {"run"}
  BY <1>2
<1>4. /\ d = Count(t, {"scope"}) + (IF f = "scope" THEN 1 ELSE 0)
      /\ u = Count(t, {"suppress", "run"}) + (IF f = "suppress" THEN 1 ELSE 0)
      /\ Count(t, {"scope"}) \in Nat /\ Count(t, {"suppress", "run"}) \in Nat
  <2>1. /\ Count(Append(t, f), {"scope"}) = Count(t, {"scope"}) + (IF f = "scope" THEN 1 ELSE 0)
        /\ Count(Append(t, f), {"suppress", "run"})
             = Count(t, {"suppress", "run"}) + (IF f = "suppress" THEN 1 ELSE 0)
        /\ Count(t, {"scope"}) \in Nat /\ Count(t, {"suppress", "run"}) \in Nat
    BY <1>2, <1>3, CountPushed, AtFinite
  <2>2. QED
    BY <1>1, <1>2, <2>1, Zenon
<1>5. At(st, {"run"}) = At(t, {"run"}) /\ At(t, Deferring) \subseteq At(st, Deferring)
  <2>1. /\ At(Append(t, f), {"run"}) = At(t, {"run"})
        /\ At(t, Deferring) \subseteq At(Append(t, f), Deferring)
    BY <1>2, <1>3, FramesPushed
  <2>2. QED
    BY <1>2, <2>1, Zenon
<1>6. /\ Count(t, {"scope"}) = d - (IF f = "scope" THEN 1 ELSE 0)
      /\ Count(t, {"suppress", "run"}) = u - (IF f = "suppress" THEN 1 ELSE 0)
      /\ f = "scope" => d > 0
      /\ f = "suppress" => u > 0
  BY <1>4
<1>7. \A j \in At(t, {"run"}) : \A i \in At(t, Deferring) : ~ (i < j)
  BY <1>1, <1>5, Zenon
<1>8. StackOK(t, d - (IF f = "scope" THEN 1 ELSE 0), u - (IF f = "suppress" THEN 1 ELSE 0), r)
  BY <1>1, <1>2, <1>5, <1>6, <1>7 DEF StackOK
<1>9. QED
  BY <1>2, <1>6, <1>8

\* RunMicrotasks is left: it was the only one.
LEMMA PopRun ==
  ASSUME NEW st, NEW d, NEW u, NEW r, StackOK(st, d, u, r), st # <<>>, Last(st) = "run"
  PROVE  StackOK(Front(st), d, u - 1, FALSE) /\ u > 0 /\ r = TRUE
<1>1. /\ st \in Seq(Frames) /\ d = Count(st, {"scope"}) /\ u = Count(st, {"suppress", "run"})
      /\ r \in BOOLEAN /\ (r <=> At(st, {"run"}) # {})
      /\ \A j \in At(st, {"run"}) : \A i \in At(st, Deferring) : ~ (i < j)
  BY DEF StackOK
<1>2. PICK t \in Seq(Frames), f \in Frames : t = Front(st) /\ f = Last(st) /\ st = Append(t, f)
  BY <1>1, FrontAndLast
<1>3. f \notin {"scope"} /\ f \in {"suppress", "run"} /\ f \in {"run"}
  BY <1>2
<1>4. /\ Count(t, {"scope"}) \in Nat /\ Count(t, {"suppress", "run"}) \in Nat
      /\ d = Count(t, {"scope"}) + 0
      /\ u = Count(t, {"suppress", "run"}) + 1
  <2>1. /\ Count(Append(t, f), {"scope"}) = Count(t, {"scope"}) + 0
        /\ Count(Append(t, f), {"suppress", "run"}) = Count(t, {"suppress", "run"}) + 1
        /\ Count(t, {"scope"}) \in Nat /\ Count(t, {"suppress", "run"}) \in Nat
    BY <1>2, <1>3, CountPushed, AtFinite
  <2>2. QED
    BY <1>1, <1>2, <2>1, Zenon
<1>5. /\ At(st, {"run"}) = At(t, {"run"}) \cup {Len(t) + 1}
      /\ At(t, Deferring) \subseteq At(st, Deferring)
      /\ \A i \in At(t, Deferring) : i < Len(t) + 1
  <2>1. /\ At(Append(t, f), {"run"}) = At(t, {"run"}) \cup {Len(t) + 1}
        /\ At(t, Deferring) \subseteq At(Append(t, f), Deferring)
        /\ \A i \in At(t, Deferring) : i < Len(t) + 1
    BY <1>2, <1>3, FramesPushed
  <2>2. QED
    BY <1>2, <2>1, Zenon
<1>6. Len(t) + 1 \in At(st, {"run"})
  BY <1>5
<1>7. At(t, Deferring) = {}
  BY <1>1, <1>5, <1>6, Zenon
<1>8. At(t, {"run"}) = {}
  BY <1>7 DEF At, Deferring
<1>9. d = Count(t, {"scope"}) /\ u - 1 = Count(t, {"suppress", "run"}) /\ u > 0
  BY <1>4
<1>10. StackOK(t, d, u - 1, FALSE)
  BY <1>2, <1>8, <1>9 DEF StackOK
<1>11. QED
  BY <1>1, <1>2, <1>6, <1>9, <1>10

\* What StackOK says of a state.
LEMMA StackOKMeans ==
  ASSUME StackOK(stack, microtasks_depth, microtasks_suppressions, is_running_microtasks)
  PROVE  /\ microtasks_depth \in Nat /\ microtasks_suppressions \in Nat
         /\ is_running_microtasks \in BOOLEAN /\ stack \in Seq(Frames)
         /\ NoNestedRun
         /\ microtasks_depth = Depth({"scope"})
         /\ microtasks_suppressions = Depth({"suppress", "run"})
         /\ is_running_microtasks = ("run" \in ToSet(stack))
<1>1. /\ stack \in Seq(Frames) /\ microtasks_depth = Count(stack, {"scope"})
      /\ microtasks_suppressions = Count(stack, {"suppress", "run"})
      /\ is_running_microtasks \in BOOLEAN
      /\ is_running_microtasks <=> At(stack, {"run"}) # {}
      /\ \A j \in At(stack, {"run"}) : \A i \in At(stack, Deferring) : ~ (i < j)
  BY DEF StackOK
<1>2. microtasks_depth \in Nat /\ microtasks_suppressions \in Nat
  BY <1>1, AtFinite
<1>3. /\ microtasks_depth = Depth({"scope"})
      /\ microtasks_suppressions = Depth({"suppress", "run"})
  BY <1>1 DEF Depth, Count, At
<1>4. At(stack, {"run"}) # {} <=> "run" \in ToSet(stack)
  BY DEF At, ToSet
<1>5. NoNestedRun
  <2> SUFFICES ASSUME NEW j \in DOMAIN stack, stack[j] = "run", NEW i \in 1..(j - 1)
               PROVE  stack[i] \notin {"run", "scope", "suppress"}
    BY DEF NoNestedRun
  <2>1. j \in At(stack, {"run"})
    BY DEF At
  <2>2. i \in DOMAIN stack /\ i < j
    BY <1>1
  <2>3. QED
    BY <1>1, <2>1, <2>2 DEF At, Deferring
<1>6. QED
  BY <1>1, <1>2, <1>3, <1>4, <1>5

-----------------------------------------------------------------------------
(* The inductive invariant of MicrotaskQueue. *)

\* The types of the variables that neither the buffer nor the stack has.
RestInv ==
  /\ microtasks_policy \in Policies
  /\ current_microtask \in Microtasks \cup {None}
  /\ scheduled_exception \in {"none", "exception", "termination"}
  /\ detached \subseteq Contexts /\ enqueued \subseteq Microtasks

RingInv == RingOK(ring_buffer, capacity, size, start)

StackInv ==
  StackOK(stack, microtasks_depth, microtasks_suppressions, is_running_microtasks)

\* A microtask runs only inside of RunMicrotasks.
RunInv == current_microtask # None => is_running_microtasks

MicrotaskProofInv == RestInv /\ RingInv /\ StackInv /\ RunInv

\* What the step does to the queue.
QueueStep ==
  \/ Contents' = Contents
  \/ \E m \in Microtasks : Contents' = Append(Contents, m)
  \/ Contents # <<>> /\ Contents' = Tail(Contents)
  \/ terminating /\ Contents' = <<>>

\* What is shown of every step, for the buffer.
RingGoal == RingInv' /\ QueueStep

LEMMA ContentsIsQueue ==
  /\ Contents = Queue(ring_buffer, capacity, size, start)
  /\ Contents' = Queue(ring_buffer', capacity', size', start')
BY DEF Contents, Queue

LEMMA RingUnchanged ==
  ASSUME RingInv, UNCHANGED ring
  PROVE  RingGoal
<1>1. /\ ring_buffer' = ring_buffer /\ capacity' = capacity /\ size' = size /\ start' = start
  BY DEF ring
<1>2. Contents' = Contents
  BY <1>1, ContentsIsQueue
<1>3. RingInv'
  BY <1>1 DEF RingInv
<1>4. QED
  BY <1>2, <1>3 DEF RingGoal, QueueStep

\* The position that generated code computes.
LEMMA MaskedOffset ==
  ASSUME RingInv, capacity # 0, NEW i \in Nat
  PROVE  WordAnd[start + i][capacity - 1] = (start + i) % capacity
<1>1. capacity \in Nat /\ IsPowerOfTwo(capacity) /\ start + i \in Nat
  BY DEF RingInv, RingOK, IsCapacity
<1>2. QED
  BY <1>1, MaskIsRemainder

LEMMA AppendedGoal ==
  ASSUME NEW m \in Microtasks, RingOK(ring_buffer', capacity', size', start'),
         Queue(ring_buffer', capacity', size', start')
           = Append(Queue(ring_buffer, capacity, size, start), m)
  PROVE  RingGoal
<1>1. Contents' = Append(Contents, m)
  BY ContentsIsQueue
<1>2. QED
  BY <1>1 DEF RingGoal, RingInv, QueueStep

\* A microtask is put behind the others, where C++ code computes its place.
LEMMA PutGoal ==
  ASSUME RingInv, size # capacity, NEW m \in Microtasks,
         ring_buffer' = [ring_buffer EXCEPT ![(start + size) % capacity] = m],
         size' = size + 1, capacity' = capacity, start' = start
  PROVE  RingGoal
<1>1. /\ RingOK(ring_buffer', capacity, size + 1, start)
      /\ Queue(ring_buffer', capacity, size + 1, start)
           = Append(Queue(ring_buffer, capacity, size, start), m)
  <2>1. Stored(ring_buffer', ring_buffer, (start + size) % capacity, m)
    BY DEF Stored
  <2>2. PICK b, c, n, s, b2 :
          /\ b = ring_buffer /\ c = capacity /\ n = size /\ s = start /\ b2 = ring_buffer'
    OBVIOUS
  <2>3. RingOK(b, c, n, s) /\ n # c /\ Stored(b2, b, (s + n) % c, m)
    BY <2>1, <2>2 DEF RingInv
  <2>4. /\ RingOK(b2, c, n + 1, s)
        /\ Queue(b2, c, n + 1, s) = Append(Queue(b, c, n, s), m)
    BY <2>3, RingPut
  <2>5. QED
    BY <2>2, <2>4
<1>2. QED
  BY <1>1, AppendedGoal

LEMMA EnqueueMicrotaskGoal ==
  ASSUME RingInv, NEW m \in Microtasks, EnqueueMicrotask(m)
  PROVE  RingGoal
<1>1. CASE size = capacity
  <2>1. /\ capacity' = GrownCapacity /\ start' = 0 /\ size' = size + 1
        /\ ring_buffer' = [i \in 0..(GrownCapacity - 1) |->
                             IF i < size THEN ring_buffer[(start + i) % capacity]
                             ELSE IF i = size THEN m ELSE None]
    BY <1>1 DEF EnqueueMicrotask
  <2>2. IsCapacity(GrownCapacity) /\ size < GrownCapacity
    <3>1. IsCapacity(capacity) /\ size \in Nat
      BY DEF RingInv, RingOK
    <3>2. IsCapacity(GrownCapacity) /\ GrownCapacity > capacity
      BY <3>1, GrownFacts
    <3>3. GrownCapacity \in Nat
      BY <3>2 DEF IsCapacity
    <3>4. QED
      BY <1>1, <3>1, <3>2, <3>3
  <2>3. PICK g : g = GrownCapacity
    OBVIOUS
  <2>4. /\ RingOK(ring_buffer', g, size + 1, 0)
        /\ Queue(ring_buffer', g, size + 1, 0)
             = Append(Queue(ring_buffer, capacity, size, start), m)
    BY <2>1, <2>2, <2>3, RingGrow DEF RingInv
  <2>5. QED
    BY <2>1, <2>3, <2>4, AppendedGoal
<1>2. CASE size # capacity
  BY <1>2, PutGoal DEF EnqueueMicrotask
<1>3. QED
  BY <1>1, <1>2

LEMMA EnqueueFromBuiltinGoal ==
  ASSUME RingInv, NEW m \in Microtasks, EnqueueFromBuiltin(m)
  PROVE  RingGoal
<1>1. CASE ContextOf[m] \in detached
  BY <1>1, RingUnchanged DEF EnqueueFromBuiltin
<1>2. CASE ContextOf[m] \notin detached /\ size = capacity
  BY <1>2, EnqueueMicrotaskGoal DEF EnqueueFromBuiltin
<1>3. CASE ContextOf[m] \notin detached /\ size # capacity
  <2>1. /\ ring_buffer' = [ring_buffer EXCEPT ![CalculateRingBufferOffset(size)] = m]
        /\ size' = size + 1 /\ capacity' = capacity /\ start' = start
    BY <1>3 DEF EnqueueFromBuiltin
  <2>2. size \in Nat /\ capacity # 0
    BY <1>3 DEF RingInv, RingOK, IsCapacity
  <2>3. CalculateRingBufferOffset(size) = (start + size) % capacity
    BY <2>2, MaskedOffset DEF CalculateRingBufferOffset
  <2>4. QED
    BY <1>3, <2>1, <2>3, PutGoal
<1>4. QED
  BY <1>1, <1>2, <1>3

LEMMA IterateMicrotasksGoal ==
  ASSUME RingInv, IterateMicrotasks
  PROVE  RingGoal
<1>1. PICK c2 : c2 = ShrunkCapacity
  OBVIOUS
<1>2. /\ capacity' = c2 /\ start' = 0 /\ size' = size
      /\ ring_buffer' = [i \in 0..(c2 - 1) |->
                           IF i < size THEN ring_buffer[(start + i) % capacity] ELSE None]
  BY <1>1 DEF IterateMicrotasks, ResizeBuffer
<1>3. IsCapacity(c2) /\ c2 > 0 /\ size <= c2
  BY <1>1, ShrunkFacts DEF RingInv, RingOK
<1>4. /\ RingOK(ring_buffer', c2, size, 0)
      /\ Queue(ring_buffer', c2, size, 0) = Queue(ring_buffer, capacity, size, start)
  BY <1>2, <1>3, RingResize DEF RingInv
<1>5. Contents' = Contents
  BY <1>2, <1>4, ContentsIsQueue
<1>6. RingInv'
  BY <1>2, <1>4 DEF RingInv
<1>7. QED
  BY <1>5, <1>6 DEF RingGoal, QueueStep

LEMMA RunNextMicrotaskGoal ==
  ASSUME RingInv, RunNextMicrotask
  PROVE  RingGoal /\ ring_buffer[CalculateRingBufferOffset(0)] \in Microtasks
<1>1. /\ size > 0 /\ size' = size - 1 /\ start' = WordAnd[start + 1][capacity - 1]
      /\ ring_buffer' = ring_buffer /\ capacity' = capacity
  BY DEF RunNextMicrotask
<1>2. capacity # 0 /\ start \in Nat /\ start + 0 = start
  BY <1>1 DEF RingInv, RingOK, IsCapacity
<1>3. PICK z \in Nat, e \in Nat : z = 0 /\ e = 1
  OBVIOUS
<1>4. /\ WordAnd[start + z][capacity - 1] = (start + z) % capacity
      /\ WordAnd[start + e][capacity - 1] = (start + e) % capacity
  BY <1>2, <1>3, MaskedOffset
<1>5. /\ CalculateRingBufferOffset(0) = start % capacity
      /\ start' = (start + 1) % capacity
  BY <1>1, <1>2, <1>3, <1>4 DEF CalculateRingBufferOffset
<1>6. /\ RingOK(ring_buffer, capacity, size - 1, (start + 1) % capacity)
      /\ Queue(ring_buffer, capacity, size, start) # <<>>
      /\ Queue(ring_buffer, capacity, size - 1, (start + 1) % capacity)
           = Tail(Queue(ring_buffer, capacity, size, start))
      /\ ring_buffer[start % capacity] \in Microtasks
  BY <1>1, RingGet DEF RingInv
<1>7. Contents # <<>> /\ Contents' = Tail(Contents)
  BY <1>1, <1>5, <1>6, ContentsIsQueue
<1>8. RingInv'
  BY <1>1, <1>5, <1>6 DEF RingInv
<1>9. QED
  BY <1>5, <1>6, <1>7, <1>8 DEF RingGoal, QueueStep

LEMMA EmptyRing ==
  /\ RingOK(Empty, 0, 0, 0)
  /\ Queue(Empty, 0, 0, 0) = <<>>
<1>1. 0..(0 - 1) = {} /\ 1..0 = {}
  OBVIOUS
<1>2. Empty \in [0..(0 - 1) -> Microtasks \cup {None}]
  BY <1>1 DEF Empty
<1>3. RingOK(Empty, 0, 0, 0)
  BY <1>1, <1>2 DEF RingOK, IsCapacity
<1>4. Queue(Empty, 0, 0, 0) = <<>>
  BY <1>1 DEF Queue
<1>5. QED
  BY <1>3, <1>4

LEMMA TerminateRunMicrotasksGoal ==
  ASSUME TerminateRunMicrotasks
  PROVE  RingGoal
<1>1. terminating /\ ring_buffer' = Empty /\ capacity' = 0 /\ size' = 0 /\ start' = 0
  BY DEF TerminateRunMicrotasks
<1>2. Contents' = <<>> /\ RingInv'
  BY <1>1, EmptyRing, ContentsIsQueue DEF RingInv
<1>3. QED
  BY <1>1, <1>2 DEF RingGoal, QueueStep

\* Whatever the step, the buffer stays sound and does what a queue does.
LEMMA NextKeepsRing ==
  ASSUME RingInv, [MicrotaskNext]_queue_vars
  PROVE  RingGoal
<1>1. ASSUME NEW m \in Microtasks, EnqueueFromApi(m) PROVE RingGoal
  BY <1>1, EnqueueMicrotaskGoal DEF EnqueueFromApi
<1>2. ASSUME NEW m \in Microtasks, EnqueueFromBuiltin(m) PROVE RingGoal
  BY <1>2, EnqueueFromBuiltinGoal
<1>3. ASSUME NEW frame, Open(frame) PROVE UNCHANGED ring
  BY <1>3 DEF Open
<1>4. ASSUME NEW c, DetachGlobal(c) PROVE UNCHANGED ring
  BY <1>4 DEF DetachGlobal
<1>5. CASE IterateMicrotasks
  BY <1>5, IterateMicrotasksGoal
<1>6. CASE RunNextMicrotask
  BY <1>6, RunNextMicrotaskGoal
<1>7. CASE TerminateRunMicrotasks
  BY <1>7, TerminateRunMicrotasksGoal
<1>8. CASE ExplicitCheckpoint \/ FinishMicrotask \/ EndRunMicrotasks
  BY <1>8, RingUnchanged DEF ExplicitCheckpoint, FinishMicrotask, EndRunMicrotasks
<1>9. CASE Close
  BY <1>9, RingUnchanged DEF Close, CloseScope, CloseSuppression, CloseCall,
     CloseCompleted, FireCallCompletedCallback
<1>10. CASE \/ ThrowException \/ CatchException
            \/ TerminateExecution \/ ClearTermination
  BY <1>10, RingUnchanged DEF ThrowException, CatchException, TerminateExecution,
     ClearTermination
<1>11. CASE UNCHANGED queue_vars
  BY <1>11, RingUnchanged DEF queue_vars
<1>12. QED
  BY <1>1, <1>2, <1>3, <1>4, <1>5, <1>6, <1>7, <1>8, <1>9, <1>10, <1>11,
     RingUnchanged DEF MicrotaskNext

-----------------------------------------------------------------------------
(* Steps of the stack. *)

\* What is shown of every step but the end of RunMicrotasks, for the stack.
StackGoal ==
  /\ StackOK(stack', microtasks_depth', microtasks_suppressions', is_running_microtasks')
  /\ is_running_microtasks => is_running_microtasks'

\* PerformCheckpoint, where it is called.
LEMMA CheckpointGoal ==
  ASSUME NEW st, NEW d, NEW u, StackOK(st, d, u, is_running_microtasks),
         PerformCheckpoint(st, d, u)
  PROVE  StackGoal
<1>1. microtasks_depth' = d
  BY DEF PerformCheckpoint
<1>2. CASE ShouldPerformCheckpoint(d, u) /\ size # 0
  <2>0. is_running_microtasks \in BOOLEAN
    BY DEF StackOK
  <2>1. /\ is_running_microtasks = FALSE /\ d = 0 /\ u = 0
        /\ stack' = Append(st, "run") /\ microtasks_suppressions' = u + 1
        /\ is_running_microtasks' = TRUE
    BY <1>2, <2>0 DEF PerformCheckpoint, ShouldPerformCheckpoint
  <2>2. StackOK(Append(st, "run"), d, u + 1, TRUE)
    BY <2>1, PushRun
  <2>3. QED
    BY <1>1, <2>1, <2>2 DEF StackGoal
<1>3. CASE ShouldPerformCheckpoint(d, u) /\ size = 0
  <2>1. /\ stack' = Append(st, "completed") /\ microtasks_suppressions' = u
        /\ is_running_microtasks' = is_running_microtasks /\ d = 0 /\ u = 0
    BY <1>3 DEF PerformCheckpoint, ShouldPerformCheckpoint
  <2>2. PICK f \in Frames : f = "completed"
    BY FrameSets
  <2>3. StackOK(Append(st, f), d + (IF f = "scope" THEN 1 ELSE 0),
                u + (IF f = "suppress" THEN 1 ELSE 0), is_running_microtasks)
    BY <2>2, PushFrame
  <2>4. /\ d + (IF f = "scope" THEN 1 ELSE 0) = d
        /\ u + (IF f = "suppress" THEN 1 ELSE 0) = u
    BY <2>1, <2>2
  <2>5. QED
    BY <1>1, <2>1, <2>2, <2>3, <2>4 DEF StackGoal
<1>4. CASE ~ShouldPerformCheckpoint(d, u)
  BY <1>1, <1>4 DEF PerformCheckpoint, StackGoal
<1>5. QED
  BY <1>2, <1>3, <1>4

\* A frame that no counter counts is entered or left.
LEMMA PlainFrames ==
  ASSUME NEW st, NEW d, NEW u, NEW r, StackOK(st, d, u, r)
  PROVE  /\ d \in Nat /\ u \in Nat
         /\ \A f \in {"completed", "fire", "call"} : StackOK(Append(st, f), d, u, r)
         /\ (st # <<>> /\ Last(st) \in {"completed", "fire", "call"}) => StackOK(Front(st), d, u, r)
<1>1. d \in Nat /\ u \in Nat
  BY AtFinite DEF StackOK
<1>2. ASSUME NEW f \in {"completed", "fire", "call"} PROVE StackOK(Append(st, f), d, u, r)
  <2>1. f \in Frames /\ f # "run" /\ f # "scope" /\ f # "suppress"
    BY DEF Frames
  <2>2. StackOK(Append(st, f), d + (IF f = "scope" THEN 1 ELSE 0),
                u + (IF f = "suppress" THEN 1 ELSE 0), r)
    BY <2>1, PushFrame
  <2>3. /\ d + (IF f = "scope" THEN 1 ELSE 0) = d
        /\ u + (IF f = "suppress" THEN 1 ELSE 0) = u
    BY <1>1, <2>1
  <2>4. QED
    BY <2>2, <2>3
<1>3. ASSUME st # <<>>, Last(st) \in {"completed", "fire", "call"}
      PROVE  StackOK(Front(st), d, u, r)
  <2>1. Last(st) # "run" /\ Last(st) # "scope" /\ Last(st) # "suppress"
    BY <1>3
  <2>2. StackOK(Front(st), d - (IF Last(st) = "scope" THEN 1 ELSE 0),
                u - (IF Last(st) = "suppress" THEN 1 ELSE 0), r)
    BY <1>3, <2>1, PopFrame
  <2>3. /\ d - (IF Last(st) = "scope" THEN 1 ELSE 0) = d
        /\ u - (IF Last(st) = "suppress" THEN 1 ELSE 0) = u
    BY <1>1, <2>1
  <2>4. QED
    BY <2>2, <2>3
<1>4. QED
  BY <1>1, <1>2, <1>3

LEMMA TopIs ==
  ASSUME NEW f, Top = f, f # "bottom"
  PROVE  stack # <<>> /\ Last(stack) = f
BY DEF Top

LEMMA OpenGoal ==
  ASSUME StackInv, NEW frame \in {"call", "scope", "suppress"}, Open(frame)
  PROVE  StackGoal
<1>1. frame \in Frames /\ frame # "run"
  BY DEF Frames
<1>2. StackOK(Append(stack, frame), microtasks_depth + (IF frame = "scope" THEN 1 ELSE 0),
              microtasks_suppressions + (IF frame = "suppress" THEN 1 ELSE 0),
              is_running_microtasks)
  BY <1>1, PushFrame DEF StackInv
<1>3. QED
  BY <1>2 DEF Open, StackGoal

LEMMA CloseScopeGoal ==
  ASSUME StackInv, CloseScope
  PROVE  StackGoal
<1>1. stack # <<>> /\ Last(stack) = "scope"
  BY TopIs DEF CloseScope
<1>2. StackOK(stack, microtasks_depth, microtasks_suppressions, is_running_microtasks)
  BY DEF StackInv
<1>3. StackOK(Front(stack), microtasks_depth - 1, microtasks_suppressions, is_running_microtasks)
  <2>1. Last(stack) # "run" /\ Last(stack) # "suppress"
    BY <1>1
  <2>2. StackOK(Front(stack), microtasks_depth - (IF Last(stack) = "scope" THEN 1 ELSE 0),
                microtasks_suppressions - (IF Last(stack) = "suppress" THEN 1 ELSE 0),
                is_running_microtasks)
    BY <1>1, <1>2, <2>1, PopFrame
  <2>3. /\ microtasks_depth - (IF Last(stack) = "scope" THEN 1 ELSE 0) = microtasks_depth - 1
        /\ microtasks_suppressions - (IF Last(stack) = "suppress" THEN 1 ELSE 0)
             = microtasks_suppressions
    <3>1. microtasks_depth \in Nat /\ microtasks_suppressions \in Nat
      BY <1>2, PlainFrames
    <3>2. QED
      BY <1>1, <2>1, <3>1
  <2>4. QED
    BY <2>2, <2>3
<1>4. CASE microtasks_policy = "kScoped" /\ ~has_scheduled_exception
  BY <1>3, <1>4, CheckpointGoal DEF CloseScope
<1>5. CASE ~ (microtasks_policy = "kScoped" /\ ~has_scheduled_exception)
  BY <1>3, <1>5 DEF CloseScope, StackGoal
<1>6. QED
  BY <1>4, <1>5

LEMMA CloseSuppressionGoal ==
  ASSUME StackInv, CloseSuppression
  PROVE  StackGoal
<1>1. stack # <<>> /\ Last(stack) = "suppress"
  BY TopIs DEF CloseSuppression
<1>2. StackOK(stack, microtasks_depth, microtasks_suppressions, is_running_microtasks)
  BY DEF StackInv
<1>3. StackOK(Front(stack), microtasks_depth, microtasks_suppressions - 1, is_running_microtasks)
  <2>1. Last(stack) # "run" /\ Last(stack) # "scope"
    BY <1>1
  <2>2. StackOK(Front(stack), microtasks_depth - (IF Last(stack) = "scope" THEN 1 ELSE 0),
                microtasks_suppressions - (IF Last(stack) = "suppress" THEN 1 ELSE 0),
                is_running_microtasks)
    BY <1>1, <1>2, <2>1, PopFrame
  <2>3. /\ microtasks_depth - (IF Last(stack) = "scope" THEN 1 ELSE 0) = microtasks_depth
        /\ microtasks_suppressions - (IF Last(stack) = "suppress" THEN 1 ELSE 0)
             = microtasks_suppressions - 1
    <3>1. microtasks_depth \in Nat /\ microtasks_suppressions \in Nat
      BY <1>2, PlainFrames
    <3>2. QED
      BY <1>1, <2>1, <3>1
  <2>4. QED
    BY <2>2, <2>3
<1>4. QED
  BY <1>3 DEF CloseSuppression, StackGoal

LEMMA CloseCallGoal ==
  ASSUME StackInv, CloseCall
  PROVE  StackGoal
<1>1. stack # <<>> /\ Last(stack) = "call"
  BY TopIs DEF CloseCall
<1>2. StackOK(stack, microtasks_depth, microtasks_suppressions, is_running_microtasks)
  BY DEF StackInv
<1>3. PICK st : st = Front(stack)
  OBVIOUS
<1>4. StackOK(st, microtasks_depth, microtasks_suppressions, is_running_microtasks)
  BY <1>1, <1>2, <1>3, PlainFrames
<1>5. StackOK(Append(st, "fire"), microtasks_depth, microtasks_suppressions, is_running_microtasks)
  BY <1>4, PlainFrames
<1>6. CASE ~CallDepthIsZero(st)
  BY <1>3, <1>4, <1>6 DEF CloseCall, counters, StackGoal
<1>7. CASE CallDepthIsZero(st) /\ microtasks_policy = "kAuto" /\ ~terminating'
  <2>1. PerformCheckpoint(Append(st, "fire"), microtasks_depth, microtasks_suppressions)
    BY <1>3, <1>7 DEF CloseCall
  <2>2. QED
    BY <1>5, <2>1, CheckpointGoal
<1>8. CASE CallDepthIsZero(st) /\ ~ (microtasks_policy = "kAuto" /\ ~terminating')
  BY <1>3, <1>5, <1>8 DEF CloseCall, counters, StackGoal
<1>9. QED
  BY <1>6, <1>7, <1>8

LEMMA FireGoal ==
  ASSUME StackInv, FireCallCompletedCallback
  PROVE  StackGoal
<1>1. stack # <<>> /\ Last(stack) = "fire"
  BY TopIs DEF FireCallCompletedCallback
<1>2. StackOK(stack, microtasks_depth, microtasks_suppressions, is_running_microtasks)
  BY DEF StackInv
<1>3. PICK st : st = Front(stack)
  OBVIOUS
<1>4. StackOK(st, microtasks_depth, microtasks_suppressions, is_running_microtasks)
  BY <1>1, <1>2, <1>3, PlainFrames
<1>5. CASE stack' = st /\ microtasks_suppressions' = microtasks_suppressions
  BY <1>4, <1>5 DEF FireCallCompletedCallback, StackGoal
<1>6. CASE /\ stack' = Append(st, "suppress")
           /\ microtasks_suppressions' = microtasks_suppressions + 1
  <2>1. PICK f \in Frames : f = "suppress" /\ f # "run"
    BY FrameSets
  <2>2. StackOK(Append(st, f), microtasks_depth + (IF f = "scope" THEN 1 ELSE 0),
                microtasks_suppressions + (IF f = "suppress" THEN 1 ELSE 0),
                is_running_microtasks)
    BY <1>4, <2>1, PushFrame
  <2>3. /\ microtasks_depth + (IF f = "scope" THEN 1 ELSE 0) = microtasks_depth
        /\ microtasks_suppressions + (IF f = "suppress" THEN 1 ELSE 0)
             = microtasks_suppressions + 1
    <3>1. microtasks_depth \in Nat /\ microtasks_suppressions \in Nat
      BY <1>4, PlainFrames
    <3>2. QED
      BY <2>1, <3>1
  <2>4. QED
    BY <1>6, <2>1, <2>2, <2>3 DEF FireCallCompletedCallback, StackGoal
<1>7. QED
  BY <1>3, <1>5, <1>6 DEF FireCallCompletedCallback

LEMMA CloseCompletedGoal ==
  ASSUME StackInv, CloseCompleted
  PROVE  StackGoal
<1>1. stack # <<>> /\ Last(stack) = "completed"
  BY TopIs DEF CloseCompleted
<1>2. StackOK(stack, microtasks_depth, microtasks_suppressions, is_running_microtasks)
  BY DEF StackInv
<1>3. StackOK(Front(stack), microtasks_depth, microtasks_suppressions, is_running_microtasks)
  BY <1>1, <1>2, PlainFrames
<1>4. QED
  BY <1>3 DEF CloseCompleted, counters, StackGoal

\* RunMicrotasks ends.
LEMMA LeaveGoal ==
  ASSUME StackInv, Top = "run", Leave, microtasks_depth' = microtasks_depth
  PROVE  StackInv'
<1>1. stack # <<>> /\ Last(stack) = "run"
  BY TopIs
<1>2. StackOK(Front(stack), microtasks_depth, microtasks_suppressions - 1, FALSE)
  BY <1>1, PopRun DEF StackInv
<1>3. StackOK(Append(Front(stack), "completed"), microtasks_depth,
              microtasks_suppressions - 1, FALSE)
  BY <1>2, PlainFrames
<1>4. QED
  BY <1>3 DEF Leave, StackInv

LEMMA StackUnchanged ==
  ASSUME StackInv, UNCHANGED <<stack, counters>>
  PROVE  StackGoal
BY DEF StackInv, StackGoal, counters

LEMMA RunOnTop ==
  ASSUME StackInv, Top = "run"
  PROVE  is_running_microtasks
<1>1. stack # <<>> /\ Last(stack) = "run"
  BY TopIs
<1>2. stack \in Seq(Frames)
  BY DEF StackInv, StackOK
<1>3. Len(stack) \in DOMAIN stack /\ stack[Len(stack)] = "run"
  BY <1>1, <1>2 DEF Last
<1>4. At(stack, {"run"}) # {}
  BY <1>3 DEF At
<1>5. QED
  BY <1>4 DEF StackInv, StackOK

LEMMA GoalKeepsRun ==
  ASSUME RunInv, StackGoal, current_microtask' = current_microtask \/ current_microtask' = None
  PROVE  StackInv' /\ RunInv'
BY DEF StackGoal, StackInv, RunInv

\* Whatever the step, the counters keep saying what is open.
LEMMA NextKeepsStack ==
  ASSUME StackInv, RunInv, [MicrotaskNext]_queue_vars
  PROVE  StackInv' /\ RunInv'
<1>1. ASSUME NEW m, EnqueueFromApi(m) \/ EnqueueFromBuiltin(m)
      PROVE  StackInv' /\ RunInv'
  <2>1. UNCHANGED <<stack, counters, current_microtask>>
    BY <1>1 DEF EnqueueFromApi, EnqueueFromBuiltin
  <2>2. QED
    BY <2>1, StackUnchanged, GoalKeepsRun
<1>2. ASSUME NEW frame \in {"call", "scope", "suppress"}, Open(frame)
      PROVE  StackInv' /\ RunInv'
  <2>1. current_microtask' = current_microtask
    BY <1>2 DEF Open
  <2>2. QED
    BY <1>2, <2>1, OpenGoal, GoalKeepsRun
<1>3. ASSUME NEW c, DetachGlobal(c)
      PROVE  StackInv' /\ RunInv'
  <2>1. UNCHANGED <<stack, counters, current_microtask>>
    BY <1>3 DEF DetachGlobal
  <2>2. QED
    BY <2>1, StackUnchanged, GoalKeepsRun
<1>4. CASE \/ IterateMicrotasks \/ ThrowException \/ CatchException
           \/ TerminateExecution \/ ClearTermination \/ UNCHANGED queue_vars
  <2>1. UNCHANGED <<stack, counters, current_microtask>>
    BY <1>4 DEF IterateMicrotasks, ThrowException, CatchException, TerminateExecution,
       ClearTermination, queue_vars
  <2>2. QED
    BY <2>1, StackUnchanged, GoalKeepsRun
<1>5. CASE ExplicitCheckpoint
  <2>1. /\ current_microtask' = current_microtask
        /\ PerformCheckpoint(stack, microtasks_depth, microtasks_suppressions)
    BY <1>5 DEF ExplicitCheckpoint
  <2>2. StackOK(stack, microtasks_depth, microtasks_suppressions, is_running_microtasks)
    BY DEF StackInv
  <2>3. StackGoal
    BY <2>1, <2>2, CheckpointGoal
  <2>4. QED
    BY <2>1, <2>3, GoalKeepsRun
<1>6. CASE FinishMicrotask
  <2>1. UNCHANGED <<stack, counters>> /\ current_microtask' = None
    BY <1>6 DEF FinishMicrotask
  <2>2. QED
    BY <2>1, StackUnchanged, GoalKeepsRun
<1>7. CASE RunNextMicrotask
  <2>1. UNCHANGED <<stack, counters>> /\ Top = "run"
    BY <1>7 DEF RunNextMicrotask
  <2>2. StackGoal /\ is_running_microtasks
    BY <2>1, StackUnchanged, RunOnTop
  <2>3. QED
    BY <2>2 DEF StackGoal, StackInv, RunInv
<1>8. CASE EndRunMicrotasks \/ TerminateRunMicrotasks
  <2>1. /\ Top = "run" /\ Leave /\ microtasks_depth' = microtasks_depth
        /\ current_microtask' = None
    BY <1>8 DEF EndRunMicrotasks, TerminateRunMicrotasks
  <2>2. QED
    BY <2>1, LeaveGoal DEF RunInv
<1>9. CASE Close
  <2>1. StackGoal
    BY <1>9, CloseScopeGoal, CloseSuppressionGoal, CloseCallGoal, FireGoal,
       CloseCompletedGoal DEF Close
  <2>2. current_microtask' = current_microtask
    BY <1>9 DEF Close, CloseScope, CloseSuppression, CloseCall, CloseCompleted,
       FireCallCompletedCallback
  <2>3. QED
    BY <2>1, <2>2, GoalKeepsRun
<1>10. QED
  BY <1>1, <1>2, <1>3, <1>4, <1>5, <1>6, <1>7, <1>8, <1>9 DEF MicrotaskNext

-----------------------------------------------------------------------------
(* The theorems about MicrotaskQueue. *)

LEMMA NextKeepsRest ==
  ASSUME RestInv, RingInv, [MicrotaskNext]_queue_vars
  PROVE  RestInv'
<1> USE DEF RestInv
<1>1. ASSUME NEW m \in Microtasks, EnqueueFromApi(m) \/ EnqueueFromBuiltin(m)
      PROVE  RestInv'
  <2>1. /\ enqueued' = enqueued \cup {m}
        /\ UNCHANGED <<microtasks_policy, current_microtask, scheduled_exception, detached>>
    BY <1>1 DEF EnqueueFromApi, EnqueueFromBuiltin
  <2>2. QED
    BY <2>1
<1>2. ASSUME NEW frame, Open(frame) PROVE RestInv'
  BY <1>2 DEF Open
<1>3. ASSUME NEW c \in Contexts, DetachGlobal(c) PROVE RestInv'
  BY <1>3 DEF DetachGlobal
<1>4. CASE IterateMicrotasks \/ ExplicitCheckpoint \/ EndRunMicrotasks \/ UNCHANGED queue_vars
  BY <1>4 DEF IterateMicrotasks, ExplicitCheckpoint, EndRunMicrotasks, queue_vars
<1>5. CASE RunNextMicrotask
  <2>1. ring_buffer[CalculateRingBufferOffset(0)] \in Microtasks
    BY <1>5, RunNextMicrotaskGoal
  <2>2. QED
    BY <1>5, <2>1 DEF RunNextMicrotask
<1>6. CASE FinishMicrotask \/ TerminateRunMicrotasks
  BY <1>6 DEF FinishMicrotask, TerminateRunMicrotasks
<1>7. CASE Close
  <2>1. UNCHANGED <<microtasks_policy, current_microtask, detached, enqueued>>
    BY <1>7 DEF Close, CloseScope, CloseSuppression, CloseCall, CloseCompleted,
       FireCallCompletedCallback
  <2>2. scheduled_exception' \in {"none", "termination", scheduled_exception}
    BY <1>7 DEF Close, CloseScope, CloseSuppression, CloseCall, CloseCompleted,
       FireCallCompletedCallback
  <2>3. QED
    BY <2>1, <2>2
<1>8. CASE ThrowException \/ CatchException \/ TerminateExecution \/ ClearTermination
  BY <1>8 DEF ThrowException, CatchException, TerminateExecution, ClearTermination
<1>9. QED
  BY <1>1, <1>2, <1>3, <1>4, <1>5, <1>6, <1>7, <1>8 DEF MicrotaskNext

LEMMA MicrotaskInitEstablishes == MicrotaskInit => MicrotaskProofInv
<1> SUFFICES ASSUME MicrotaskInit PROVE MicrotaskProofInv
  OBVIOUS
<1>1. RingInv
  BY EmptyRing DEF MicrotaskInit, RingInv
<1>2. At(<<>>, {"scope"}) = {} /\ At(<<>>, {"suppress", "run"}) = {} /\ At(<<>>, {"run"}) = {}
  BY DEF At
<1>3. <<>> \in Seq(Frames) /\ Count(<<>>, {"scope"}) = 0 /\ Count(<<>>, {"suppress", "run"}) = 0
  <2>1. Cardinality({}) = 0
    BY FS_EmptySet
  <2>2. Count(<<>>, {"scope"}) = 0 /\ Count(<<>>, {"suppress", "run"}) = 0
    BY <1>2, <2>1, Zenon DEF Count
  <2>3. QED
    BY <2>2
<1>4. StackInv
  BY <1>2, <1>3 DEF MicrotaskInit, StackInv, StackOK
<1>5. RestInv /\ RunInv
  BY DEF MicrotaskInit, RestInv, RunInv
<1>6. QED
  BY <1>1, <1>4, <1>5 DEF MicrotaskProofInv

\* The inductive invariant of the microtask queue: the capacity is no or a power
\* of two that holds what is queued, every place in use holds a microtask, the
\* counters count the open scopes, and below RunMicrotasks nothing defers it.
THEOREM MicrotaskInvariant == MicrotaskSpec => []MicrotaskProofInv
<1>1. MicrotaskInit => MicrotaskProofInv
  BY MicrotaskInitEstablishes
<1>2. MicrotaskProofInv /\ [MicrotaskNext]_queue_vars => MicrotaskProofInv'
  BY NextKeepsRest, NextKeepsRing, NextKeepsStack DEF MicrotaskProofInv, RingGoal
<1>3. QED
  BY <1>1, <1>2, PTL DEF MicrotaskSpec

LEMMA ProofInvImpliesMicrotaskInv == MicrotaskProofInv => MicrotaskInv
<1> SUFFICES ASSUME RestInv, RingInv, StackInv, RunInv PROVE MicrotaskInv
  BY DEF MicrotaskProofInv
<1>1. /\ capacity \in Nat /\ size \in Nat /\ start \in Nat
      /\ ring_buffer \in [0..(capacity - 1) -> Microtasks \cup {None}]
      /\ \A i \in 0..(size - 1) : ring_buffer[(start + i) % capacity] \in Microtasks
  BY DEF RingInv, RingOK, IsCapacity
<1>2. /\ microtasks_depth \in Nat /\ microtasks_suppressions \in Nat
      /\ is_running_microtasks \in BOOLEAN /\ stack \in Seq(Frames) /\ NoNestedRun
      /\ microtasks_depth = Depth({"scope"})
      /\ microtasks_suppressions = Depth({"suppress", "run"})
      /\ is_running_microtasks = ("run" \in ToSet(stack))
  BY StackOKMeans DEF StackInv
<1>3. MicrotaskTypeOK
  BY <1>1, <1>2 DEF MicrotaskTypeOK, RestInv
<1>4. CountersMatchScopes
  BY <1>2 DEF CountersMatchScopes, RunInv
<1>5. VisitedSlots = {(start + i) % capacity : i \in 0..(size - 1)}
  <2>1. Visited(capacity, size, start) = Used(capacity, size, start)
    BY RingSlots DEF RingInv
  <2>2. QED
    BY <2>1 DEF VisitedSlots, Visited, Used
<1>6. \A i \in VisitedSlots : ring_buffer[i] # None
  BY <1>1, <1>5, ContextAssumption
<1>7. VisitsLiveSlots
  BY <1>5, <1>6 DEF VisitsLiveSlots
<1>8. QED
  BY <1>2, <1>3, <1>4, <1>7 DEF MicrotaskInv

\* IterateMicrotasks visits what the queue holds, RunMicrotasks is never entered
\* while it is active or in a scope that defers it, and the counters agree with
\* the scopes on the stack, for every number of microtasks, contexts and nested
\* scopes and every power of two as the smallest capacity.
THEOREM MicrotasksCorrect == MicrotaskSpec => []MicrotaskInv
BY MicrotaskInvariant, ProofInvImpliesMicrotaskInv, PTL

\* The buffer that C++ code and generated code share is a queue: whatever grows,
\* shrinks or wraps around, microtasks leave it in the order of EnqueueMicrotask,
\* and it is emptied at once only when execution is being terminated.
THEOREM MicrotasksAreAQueue == MicrotaskSpec => ImplementsFifo
<1>1. MicrotaskInit => Fifo!Init
  <2> SUFFICES ASSUME MicrotaskInit PROVE Contents = <<>>
    BY DEF Fifo!Init
  <2>1. QED
    BY EmptyRing, ContentsIsQueue DEF MicrotaskInit
<1>2. MicrotaskProofInv /\ [MicrotaskNext]_queue_vars => [Fifo!Next]_Contents
  <2> SUFFICES ASSUME MicrotaskProofInv, [MicrotaskNext]_queue_vars
               PROVE  [Fifo!Next]_Contents
    OBVIOUS
  <2>1. QueueStep
    BY NextKeepsRing DEF MicrotaskProofInv, RingGoal
  <2>2. QED
    BY <2>1 DEF QueueStep, Fifo!Next, Fifo!Put, Fifo!Get, Fifo!Drop
<1>3. QED
  BY <1>1, <1>2, MicrotaskInvariant, PTL DEF MicrotaskSpec, ImplementsFifo, Fifo!Spec
=============================================================================

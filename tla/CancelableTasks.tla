--------------------------- MODULE CancelableTasks ---------------------------
(***************************************************************************)
(* CancelableTaskManager and the Cancelable objects it keeps track of      *)
(* (tasks/cancelable-task).  A task object is created by one thread, run   *)
(* and destroyed by the platform on another, and may be canceled by a      *)
(* third; its status_ word decides who wins.  The manager may be deleted   *)
(* once CancelAndWait has returned, while canceled objects are still in    *)
(* the platform's queues.                                                  *)
(*                                                                         *)
(* An element of Tasks is the address of an object; it is used again after *)
(* the object has been destroyed, which is why the manager hands out ids.  *)
(* Each critical section of mutex_ and each compare-exchange of a status_  *)
(* word is one step.                                                       *)
(***************************************************************************)
EXTENDS Integers

CONSTANTS
  Tasks,   \* addresses of task objects
  NoTask,  \* no entry in the map
  MaxId    \* bound: how many tasks are ever registered

ASSUME TasksAssumption == NoTask \notin Tasks
ASSUME IdAssumption == MaxId \in Nat \ {0}

kInvalidTaskId == 0

VARIABLES
  pc,       \* pc[t]: what the thread that has the object t does with it
  status,   \* status[t]: Cancelable::status_
  id,       \* id[t]: Cancelable::id_
  entry,    \* cancelable_tasks_: entry[i] is the object registered with id i
  counter,  \* task_id_counter_
  canceled, \* canceled_
  manager,  \* the thread that ends the manager: "open" before CancelAndWait,
            \* "asleep" and "woken" inside it, then "returned" and "deleted"
  settled   \* history: the ids of which TryAbort said "aborted" or "removed"

vars == <<pc, status, id, entry, counter, canceled, manager, settled>>

TypeOK ==
  /\ pc \in [Tasks -> {"none", "posted", "run", "ran", "remove"}]
  /\ status \in [Tasks -> {"waiting", "canceled", "running"}]
  /\ id \in [Tasks -> 0..MaxId]
  /\ entry \in [1..MaxId -> Tasks \cup {NoTask}]
  /\ counter \in 0..MaxId
  /\ canceled \in BOOLEAN
  /\ manager \in {"open", "asleep", "woken", "returned", "deleted"}
  /\ settled \subseteq 1..MaxId

Init ==
  /\ pc = [t \in Tasks |-> "none"]
  /\ status = [t \in Tasks |-> "waiting"]
  /\ id = [t \in Tasks |-> kInvalidTaskId]
  /\ entry = [i \in 1..MaxId |-> NoTask]
  /\ counter = kInvalidTaskId
  /\ canceled = FALSE
  /\ manager = "open"
  /\ settled = {}

\* The one thread in cancelable_tasks_barrier_.Wait is woken by NotifyOne.
NotifyOne == manager' = IF manager = "asleep" THEN "woken" ELSE manager

(***************************************************************************)
(* The life of a task object.                                              *)
(***************************************************************************)
\* The constructor calls Register; afterwards the object goes to the platform.
Register(t) ==
  /\ pc[t] = "none" /\ manager # "deleted"
  /\ IF canceled
     THEN /\ status' = [status EXCEPT ![t] = "canceled"]
          /\ id' = [id EXCEPT ![t] = kInvalidTaskId]
          /\ UNCHANGED <<entry, counter>>
     ELSE /\ counter < MaxId
          /\ counter' = counter + 1
          /\ status' = [status EXCEPT ![t] = "waiting"]
          /\ id' = [id EXCEPT ![t] = counter + 1]
          /\ entry' = [entry EXCEPT ![counter + 1] = t]
  /\ pc' = [pc EXCEPT ![t] = "posted"]
  /\ UNCHANGED <<canceled, manager, settled>>

\* Mutant of TryRun: runs without looking at the status.
RunAlways(t) ==
  /\ pc[t] = "posted"
  /\ status' = [status EXCEPT ![t] = "running"]
  /\ pc' = [pc EXCEPT ![t] = "run"]
  /\ UNCHANGED <<id, entry, counter, canceled, manager, settled>>

\* Run: RunInternal is only entered if the object could be set to running.
TryRun(t) ==
  /\ pc[t] = "posted"
  /\ IF status[t] = "waiting"
     THEN /\ status' = [status EXCEPT ![t] = "running"]
          /\ pc' = [pc EXCEPT ![t] = "run"]
     ELSE /\ pc' = [pc EXCEPT ![t] = "ran"]
          /\ UNCHANGED status
  /\ UNCHANGED <<id, entry, counter, canceled, manager, settled>>

RunInternalReturns(t) ==
  /\ pc[t] = "run"
  /\ pc' = [pc EXCEPT ![t] = "ran"]
  /\ UNCHANGED <<status, id, entry, counter, canceled, manager, settled>>

\* ~Cancelable, after a run or in place of one: only an object that nobody
\* has canceled still has a manager.
Destroy(t) ==
  /\ pc[t] \in {"posted", "ran"}
  /\ IF status[t] = "canceled"
     THEN /\ pc' = [pc EXCEPT ![t] = "none"]
          /\ UNCHANGED status
     ELSE /\ pc' = [pc EXCEPT ![t] = "remove"]
          /\ status' = [status EXCEPT ![t] = "running"]
  /\ UNCHANGED <<id, entry, counter, canceled, manager, settled>>

\* Mutant of RemoveFinishedTask: forgets to wake CancelAndWait.
RemoveSilently(t) ==
  /\ pc[t] = "remove"
  /\ entry' = [entry EXCEPT ![id[t]] = NoTask]
  /\ pc' = [pc EXCEPT ![t] = "none"]
  /\ UNCHANGED <<status, id, counter, canceled, manager, settled>>

RemoveFinishedTask(t) ==
  /\ pc[t] = "remove"
  /\ entry' = [entry EXCEPT ![id[t]] = NoTask]
  /\ pc' = [pc EXCEPT ![t] = "none"]
  /\ NotifyOne
  /\ UNCHANGED <<status, id, counter, canceled, settled>>

(***************************************************************************)
(* Canceling.                                                              *)
(***************************************************************************)
Registered == {i \in 1..MaxId : entry[i] # NoTask}
Cancelables == {i \in Registered : status[entry[i]] = "waiting"}

\* Cancel each of the given entries that has not started, and erase it.
CancelEntries(is) ==
  /\ status' = [t \in Tasks |->
                  IF \E i \in is \cap Cancelables : entry[i] = t
                  THEN "canceled" ELSE status[t]]
  /\ entry' = [i \in 1..MaxId |->
                  IF i \in is \cap Cancelables THEN NoTask ELSE entry[i]]

\* Mutant of TryAbort: erases a running task and calls it aborted.
TryAbortRunning(i) ==
  /\ manager # "deleted" /\ i <= counter
  /\ entry' = [entry EXCEPT ![i] = NoTask]
  /\ settled' = settled \cup {i}
  /\ NotifyOne
  /\ UNCHANGED <<pc, status, id, counter, canceled>>

\* Any thread that has kept an id.  The answer is "running" for a registered
\* task that has started, and then nothing changes.
TryAbort(i) ==
  /\ manager # "deleted" /\ i <= counter
  /\ i \notin Registered \/ i \in Cancelables
  /\ CancelEntries({i})
  /\ settled' = settled \cup {i}
  /\ IF i \in Cancelables THEN NotifyOne ELSE UNCHANGED manager
  /\ UNCHANGED <<pc, id, counter, canceled>>

TryAbortAll ==
  /\ manager # "deleted"
  /\ CancelEntries(Registered)
  /\ UNCHANGED <<pc, id, counter, canceled, manager, settled>>

\* One round of CancelAndWait's loop.  The mutex is held from the first entry
\* to the wait; a task that starts meanwhile might as well have started before.
CancelRound ==
  /\ CancelEntries(Registered)
  /\ manager' = IF Registered = Cancelables THEN "returned" ELSE "asleep"
  /\ UNCHANGED <<pc, id, counter, settled>>

\* Mutant of CancelAndWait: later registrations are not refused.
CancelAndWaitOnce ==
  /\ manager = "open"
  /\ canceled' = canceled
  /\ CancelRound

CancelAndWait ==
  /\ manager = "open"
  /\ canceled' = TRUE
  /\ CancelRound

WakeInCancelAndWait ==
  /\ manager = "woken"
  /\ CancelRound
  /\ UNCHANGED canceled

\* ~CancelableTaskManager.
DeleteManager ==
  /\ manager = "returned"
  /\ manager' = "deleted"
  /\ UNCHANGED <<pc, status, id, entry, counter, canceled, settled>>

Next ==
  \/ \E t \in Tasks :
       \/ Register(t) \/ TryRun(t) \/ RunInternalReturns(t)
       \/ Destroy(t) \/ RemoveFinishedTask(t)
  \/ \E i \in 1..MaxId : TryAbort(i)
  \/ TryAbortAll
  \/ CancelAndWait \/ WakeInCancelAndWait \/ DeleteManager

\* A platform thread that has begun to run a task ends and destroys it.
Fairness ==
  /\ \A t \in Tasks :
       /\ WF_vars(RunInternalReturns(t))
       /\ WF_vars(pc[t] = "ran" /\ Destroy(t))
       /\ WF_vars(RemoveFinishedTask(t))
  /\ WF_vars(WakeInCancelAndWait)

Spec == Init /\ [][Next]_vars
FairSpec == Spec /\ Fairness

-----------------------------------------------------------------------------
(***************************************************************************)
(* Properties.                                                             *)
(***************************************************************************)
Live(t) == pc[t] # "none"

\* A live object that nobody has canceled is in the map, under its id.
ObjectInv ==
  \A t \in Tasks :
    Live(t) /\ status[t] # "canceled" => id[t] \in 1..counter /\ entry[id[t]] = t

\* What is in the map is such an object.
EntryInv ==
  \A i \in 1..MaxId :
    entry[i] # NoTask =>
      /\ i <= counter /\ id[entry[i]] = i
      /\ Live(entry[i]) /\ status[entry[i]] # "canceled"

StatusInv ==
  \A t \in Tasks :
    /\ pc[t] \in {"run", "remove"} => status[t] = "running"
    /\ pc[t] = "ran" => status[t] # "waiting"
    /\ pc[t] = "posted" => status[t] # "running"

ManagerInv ==
  /\ canceled <=> manager # "open"
  /\ canceled => Cancelables = {}
  /\ manager \in {"returned", "deleted"} => Registered = {}
  /\ settled \subseteq (1..counter) \ Registered

\* The inductive invariant: the map holds exactly the live objects that have
\* not been canceled, each under its id; ids are not given out twice; after
\* CancelAndWait has begun no object can start (cancelable-task.cc: Register,
\* ~Cancelable and CancelAndWait agree on who erases an entry).
TaskInv == TypeOK /\ ObjectInv /\ EntryInv /\ StatusInv /\ ManagerInv

\* Once CancelAndWait has returned, nothing is running and no destructor will
\* call the manager, which is about to be deleted; this includes objects that
\* were created while the manager was waiting.
NothingAfterCancelAndWait ==
  manager \in {"returned", "deleted"} =>
    \A t \in Tasks : Live(t) => status[t] = "canceled" /\ pc[t] \notin {"run", "remove"}

\* A task of which TryAbort has said that it is aborted, or gone, never runs,
\* also when a new object has taken its address.
SettledNeverRuns ==
  \A t \in Tasks : pc[t] = "run" => id[t] \notin settled

\* DCHECK_NE(0u, removed): the destructor finds its own entry in the map.
RemovalFindsEntry ==
  \A t \in Tasks : pc[t] = "remove" => id[t] # kInvalidTaskId /\ entry[id[t]] = t

\* CancelAndWait implements the abstract gate: who has started is inside.
gateState ==
  CASE manager = "open" -> "open"
    [] manager \in {"asleep", "woken"} -> "closing"
    [] OTHER -> "closed"
G == INSTANCE Gate WITH
       Workers <- Tasks,
       inside <- {t \in Tasks : Live(t) /\ status[t] = "running"},
       gate <- gateState
ImplementsGate == G!Spec

\* A thread that sleeps in CancelAndWait gets out of it: no notification of
\* the destructors is lost.
CancelAndWaitReturns == manager = "asleep" ~> manager = "returned"
=============================================================================

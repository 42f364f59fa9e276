--------------------- MODULE OptimizingDispatcherProofs ---------------------
(***************************************************************************)
(* Proofs about OptimizingDispatcher, for any number of functions, jobs    *)
(* and tasks and every capacity of the ring buffer: the dispatcher's       *)
(* counters and CHECKs, what HasJobs answers, that nothing is forgotten,   *)
(* and that it implements CompilePipeline.                                 *)
(***************************************************************************)
EXTENDS OptimizingDispatcher, SequenceTheorems, FiniteSetTheorems, TLAPS

(***************************************************************************)
(* What the main thread still has to do, after every step of every call.   *)
(***************************************************************************)
\* After AwaitCompileTasks and the end of the round over the output queue.
Emptied == {<<"SetFinalize">>, <<"ClearInstallCode", "UnsetFinalize">>,
            <<"UnsetFinalize">>, <<"Delete", "CancelAndWait">>, <<"CancelAndWait">>}

\* After AwaitCompileTasks, in that round.
Awaited == {<<"Install", "SetFinalize">>,
            <<"Install", "ClearInstallCode", "UnsetFinalize">>,
            <<"DropOutput", "Delete", "CancelAndWait">>}

\* The output queue is going to be looked at.
Fetching == Awaited \cup
  {<<"FlushInput", "Await", "FlushOutput">>, <<"Await", "FlushOutput">>,
   <<"FlushInput", "FlushOutput">>, <<"FlushOutput">>, <<"Install">>,
   <<"Await", "Install", "SetFinalize">>,
   <<"Await", "Install", "ClearInstallCode", "UnsetFinalize">>,
   <<"FlushInput", "Await", "DropOutput", "Delete", "CancelAndWait">>,
   <<"Await", "DropOutput", "Delete", "CancelAndWait">>}

Plans == Emptied \cup Fetching \cup
  {<<>>, <<"Post">>, <<"Await">>, <<"HasJobs1", "HasJobs2">>, <<"HasJobs2">>}

(***************************************************************************)
(* The inductive invariant.                                                *)
(***************************************************************************)
Items(s) == {s[i] : i \in DOMAIN s}
Distinct(s) == \A i, j \in DOMAIN s : s[i] = s[j] => i = j

ActiveTasks == {k \in Tasks : task[k] # "none"}
TasksBeforeInput == {k \in Tasks : task[k] \in {"posted", "next"}}
NoTasks == \A k \in Tasks : task[k] = "none"

CountInv ==
  /\ ref_count = Cardinality(ActiveTasks)
  /\ input_queue_length <=
       Cardinality(TasksBeforeInput) + (IF todo = <<"Post">> THEN 1 ELSE 0)
  /\ \A k \in Tasks : held[k] # None <=> task[k] = "compile"

\* A job is in one place of the pipeline, exactly while it is not deleted.
PlaceInv ==
  /\ Contents \in Seq(Jobs) /\ Distinct(Contents) /\ Distinct(output_queue)
  /\ \A k, l \in Tasks : held[k] = held[l] /\ held[k] # None => k = l
  /\ Items(Contents) \cap Items(output_queue) = {}
  /\ \A k \in Tasks : held[k] \notin Items(Contents) \cup Items(output_queue)
  /\ \A j \in Jobs :
       job[j] # None <=> \/ j \in Items(Contents) \cup Items(output_queue)
                         \/ \E k \in Tasks : held[k] = j

\* What the main thread knows at each point of its calls.
PlanInv ==
  /\ todo \in Plans
  /\ todo \in Awaited \cup Emptied \/ dispatcher # "alive" =>
       NoTasks /\ input_queue_length = 0
  /\ todo \in Emptied \/ dispatcher # "alive" => output_queue = <<>>
  /\ dispatcher = "deleted" <=> todo = <<"CancelAndWait">>
  /\ dispatcher = "canceled" => todo = <<>>

\* HasJobs has not yet looked, or has seen that there are no tasks, or is done.
HasJobsInv ==
  ~hasjobs => \/ todo = <<"HasJobs1", "HasJobs2">>
              \/ todo = <<"HasJobs2">> /\ NoTasks /\ input_queue_length = 0
              \/ LiveJobs = {}

AnnouncedInv ==
  finalize /\ output_queue # <<>> =>
    install \/ (\E k \in Tasks : task[k] = "request") \/ todo \in Fetching

DispatcherProofInv ==
  /\ TypeOK /\ CountInv /\ PlaceInv /\ PlanInv /\ HasJobsInv /\ AnnouncedInv
  /\ InProgressHasJob

-----------------------------------------------------------------------------
(* The main thread's calls. *)

\* The next step of a call and the rest of it.
LEMMA PlanTable ==
  ASSUME NEW s \in Plans, s # <<>>
  PROVE  \/ s \in Emptied /\ Head(s) = "SetFinalize" /\ Tail(s) = <<>>
         \/ s \in Emptied /\ Head(s) = "UnsetFinalize" /\ Tail(s) = <<>>
         \/ s \in Emptied /\ Head(s) = "ClearInstallCode" /\ Tail(s) = <<"UnsetFinalize">>
         \/ s \in Emptied /\ Head(s) = "Delete" /\ Tail(s) = <<"CancelAndWait">>
         \/ s = <<"CancelAndWait">> /\ Head(s) = "CancelAndWait" /\ Tail(s) = <<>>
         \/ s \in Awaited /\ Head(s) = "Install" /\ Tail(s) = <<"SetFinalize">>
         \/ s \in Awaited /\ Head(s) = "Install" /\ Tail(s) = <<"ClearInstallCode", "UnsetFinalize">>
         \/ s \in Awaited /\ Head(s) = "DropOutput" /\ Tail(s) = <<"Delete", "CancelAndWait">>
         \/ s \in Fetching /\ Head(s) = "FlushInput" /\ Tail(s) = <<"Await", "FlushOutput">>
         \/ s \in Fetching /\ Head(s) = "FlushInput" /\ Tail(s) = <<"FlushOutput">>
         \/ /\ s \in Fetching /\ Head(s) = "FlushInput"
            /\ Tail(s) = <<"Await", "DropOutput", "Delete", "CancelAndWait">>
         \/ s \in Fetching /\ Head(s) = "Await" /\ Tail(s) = <<"FlushOutput">>
         \/ s \in Fetching /\ Head(s) = "Await" /\ Tail(s) \in Awaited
         \/ s \in Fetching /\ Head(s) = "FlushOutput" /\ Tail(s) = <<>>
         \/ s \in Fetching /\ Head(s) = "Install" /\ Tail(s) = <<>>
         \/ s = <<"Post">> /\ Head(s) = "Post" /\ Tail(s) = <<>>
         \/ s = <<"Await">> /\ Head(s) = "Await" /\ Tail(s) = <<>>
         \/ s = <<"HasJobs1", "HasJobs2">> /\ Head(s) = "HasJobs1" /\ Tail(s) = <<"HasJobs2">>
         \/ s = <<"HasJobs2">> /\ Head(s) = "HasJobs2" /\ Tail(s) = <<>>
<1>1. CASE s \in Emptied
  <2>1. /\ Head(<<"SetFinalize">>) = "SetFinalize" /\ Tail(<<"SetFinalize">>) = <<>>
        /\ Head(<<"UnsetFinalize">>) = "UnsetFinalize" /\ Tail(<<"UnsetFinalize">>) = <<>>
        /\ Head(<<"ClearInstallCode", "UnsetFinalize">>) = "ClearInstallCode"
        /\ Tail(<<"ClearInstallCode", "UnsetFinalize">>) = <<"UnsetFinalize">>
        /\ Head(<<"Delete", "CancelAndWait">>) = "Delete"
        /\ Tail(<<"Delete", "CancelAndWait">>) = <<"CancelAndWait">>
        /\ Head(<<"CancelAndWait">>) = "CancelAndWait" /\ Tail(<<"CancelAndWait">>) = <<>>
    OBVIOUS
  <2>2. QED
    BY <1>1, <2>1, Zenon DEF Emptied
<1>2. CASE s \in Awaited
  <2>1. /\ Head(<<"Install", "SetFinalize">>) = "Install"
        /\ Tail(<<"Install", "SetFinalize">>) = <<"SetFinalize">>
        /\ Head(<<"Install", "ClearInstallCode", "UnsetFinalize">>) = "Install"
        /\ Tail(<<"Install", "ClearInstallCode", "UnsetFinalize">>)
             = <<"ClearInstallCode", "UnsetFinalize">>
        /\ Head(<<"DropOutput", "Delete", "CancelAndWait">>) = "DropOutput"
        /\ Tail(<<"DropOutput", "Delete", "CancelAndWait">>) = <<"Delete", "CancelAndWait">>
    OBVIOUS
  <2>2. QED
    BY <1>2, <2>1, Zenon DEF Awaited
<1>3. CASE s \in Fetching \ Awaited
  <2>1. /\ Head(<<"FlushInput", "Await", "FlushOutput">>) = "FlushInput"
        /\ Tail(<<"FlushInput", "Await", "FlushOutput">>) = <<"Await", "FlushOutput">>
        /\ Head(<<"Await", "FlushOutput">>) = "Await"
        /\ Tail(<<"Await", "FlushOutput">>) = <<"FlushOutput">>
        /\ Head(<<"FlushInput", "FlushOutput">>) = "FlushInput"
        /\ Tail(<<"FlushInput", "FlushOutput">>) = <<"FlushOutput">>
        /\ Head(<<"FlushOutput">>) = "FlushOutput" /\ Tail(<<"FlushOutput">>) = <<>>
        /\ Head(<<"Install">>) = "Install" /\ Tail(<<"Install">>) = <<>>
    OBVIOUS
  <2>2. /\ Head(<<"Await", "Install", "SetFinalize">>) = "Await"
        /\ Tail(<<"Await", "Install", "SetFinalize">>) = <<"Install", "SetFinalize">>
        /\ Head(<<"Await", "Install", "ClearInstallCode", "UnsetFinalize">>) = "Await"
        /\ Tail(<<"Await", "Install", "ClearInstallCode", "UnsetFinalize">>)
             = <<"Install", "ClearInstallCode", "UnsetFinalize">>
        /\ Head(<<"FlushInput", "Await", "DropOutput", "Delete", "CancelAndWait">>) = "FlushInput"
        /\ Tail(<<"FlushInput", "Await", "DropOutput", "Delete", "CancelAndWait">>)
             = <<"Await", "DropOutput", "Delete", "CancelAndWait">>
        /\ Head(<<"Await", "DropOutput", "Delete", "CancelAndWait">>) = "Await"
        /\ Tail(<<"Await", "DropOutput", "Delete", "CancelAndWait">>)
             = <<"DropOutput", "Delete", "CancelAndWait">>
    OBVIOUS
  <2>3. QED
    BY <1>3, <2>1, <2>2, Zenon DEF Fetching, Awaited
<1>4. CASE s \in {<<"Post">>, <<"Await">>, <<"HasJobs1", "HasJobs2">>, <<"HasJobs2">>}
  <2>1. /\ Head(<<"Post">>) = "Post" /\ Tail(<<"Post">>) = <<>>
        /\ Head(<<"Await">>) = "Await" /\ Tail(<<"Await">>) = <<>>
        /\ Head(<<"HasJobs1", "HasJobs2">>) = "HasJobs1"
        /\ Tail(<<"HasJobs1", "HasJobs2">>) = <<"HasJobs2">>
        /\ Head(<<"HasJobs2">>) = "HasJobs2" /\ Tail(<<"HasJobs2">>) = <<>>
    OBVIOUS
  <2>2. QED
    BY <1>4, <2>1, Zenon
<1>5. QED
  BY <1>1, <1>2, <1>3, <1>4, Zenon DEF Plans

\* The sets of plans that the invariant tells apart.
LEMMA PlanSets ==
  /\ Awaited \subseteq Fetching /\ Fetching \subseteq Plans /\ Emptied \subseteq Plans
  /\ {<<>>, <<"Post">>, <<"Await">>, <<"HasJobs1", "HasJobs2">>, <<"HasJobs2">>} \subseteq Plans
  /\ <<"FlushOutput">> \in Fetching \ (Awaited \cup Emptied)
  /\ <<"Await", "FlushOutput">> \in Fetching \ (Awaited \cup Emptied)
  /\ <<"Await", "DropOutput", "Delete", "CancelAndWait">> \in Fetching \ (Awaited \cup Emptied)
  /\ <<"Install">> \in Fetching \ (Awaited \cup Emptied)
  /\ <<"SetFinalize">> \in Emptied /\ <<"UnsetFinalize">> \in Emptied
  /\ <<"ClearInstallCode", "UnsetFinalize">> \in Emptied
  /\ <<"Delete", "CancelAndWait">> \in Emptied /\ <<"CancelAndWait">> \in Emptied
BY DEF Awaited, Fetching, Emptied, Plans

LEMMA PlanDifferences ==
  /\ {<<>>, <<"Post">>, <<"Await">>, <<"HasJobs1", "HasJobs2">>, <<"HasJobs2">>}
       \cap (Fetching \cup Emptied) = {}
  /\ Fetching \cap Emptied = {}
  /\ <<"CancelAndWait">> \notin Fetching
BY DEF Awaited, Fetching, Emptied

-----------------------------------------------------------------------------
(* Queues. *)

LEMMA AppendFacts ==
  ASSUME NEW S, NEW s \in Seq(S), NEW x \in S
  PROVE  /\ Append(s, x) \in Seq(S) /\ Append(s, x) # <<>>
         /\ Items(Append(s, x)) = Items(s) \cup {x}
         /\ Distinct(s) /\ x \notin Items(s) => Distinct(Append(s, x))
<1>1. /\ Append(s, x) \in Seq(S) /\ Append(s, x) # <<>>
      /\ Len(s) \in Nat /\ DOMAIN s = 1..Len(s)
      /\ DOMAIN Append(s, x) = 1..(Len(s) + 1)
      /\ \A i \in 1..Len(s) : Append(s, x)[i] = s[i]
      /\ Append(s, x)[Len(s) + 1] = x
  OBVIOUS
<1>2. \A i \in 1..(Len(s) + 1) : i \in 1..Len(s) \/ i = Len(s) + 1
  BY <1>1
<1>3. 1..Len(s) \subseteq 1..(Len(s) + 1) /\ Len(s) + 1 \in 1..(Len(s) + 1)
  BY <1>1
<1>4. Items(Append(s, x)) = Items(s) \cup {x}
  BY <1>1, <1>2, <1>3, Zenon DEF Items
<1>5. ASSUME Distinct(s), x \notin Items(s)
      PROVE  Distinct(Append(s, x))
  BY <1>1, <1>2, <1>5, Zenon DEF Distinct, Items
<1>6. QED
  BY <1>1, <1>4, <1>5

LEMMA TailFacts ==
  ASSUME NEW S, NEW s \in Seq(S), s # <<>>
  PROVE  /\ Tail(s) \in Seq(S) /\ Head(s) \in S /\ Head(s) \in Items(s)
         /\ Distinct(s) => Items(Tail(s)) = Items(s) \ {Head(s)} /\ Distinct(Tail(s))
<1>1. /\ Tail(s) \in Seq(S) /\ Head(s) \in S /\ Head(s) = s[1]
      /\ Len(s) \in Nat \ {0} /\ DOMAIN s = 1..Len(s)
      /\ DOMAIN Tail(s) = 1..(Len(s) - 1)
      /\ \A i \in 1..(Len(s) - 1) : Tail(s)[i] = s[i + 1]
  OBVIOUS
<1>2. /\ 1 \in 1..Len(s)
      /\ \A i \in 1..(Len(s) - 1) : i + 1 \in 1..Len(s) /\ i + 1 # 1
      /\ \A i \in 1..Len(s) : i = 1 \/ (i - 1 \in 1..(Len(s) - 1) /\ (i - 1) + 1 = i)
      /\ \A i, j \in 1..(Len(s) - 1) : i + 1 = j + 1 => i = j
  BY <1>1
<1>3. Head(s) \in Items(s)
  BY <1>1, <1>2 DEF Items
<1>4. ASSUME Distinct(s)
      PROVE  Items(Tail(s)) = Items(s) \ {Head(s)} /\ Distinct(Tail(s))
  <2>1. ASSUME NEW y \in Items(Tail(s)) PROVE y \in Items(s) \ {Head(s)}
    <3>1. PICK i \in 1..(Len(s) - 1) : y = Tail(s)[i]
      BY <2>1, <1>1, Zenon DEF Items
    <3>2. i + 1 \in DOMAIN s /\ i + 1 # 1 /\ 1 \in DOMAIN s /\ y = s[i + 1]
      BY <3>1, <1>1, <1>2, Zenon
    <3>3. s[i + 1] # s[1]
      BY <3>2, <1>4 DEF Distinct
    <3>4. QED
      BY <3>2, <3>3, <1>1, Zenon DEF Items
  <2>2. ASSUME NEW y \in Items(s), y # Head(s) PROVE y \in Items(Tail(s))
    <3>1. PICK i \in 1..Len(s) : y = s[i]
      BY <2>2, <1>1, Zenon DEF Items
    <3>2. i - 1 \in 1..(Len(s) - 1) /\ (i - 1) + 1 = i
      BY <3>1, <2>2, <1>1, <1>2, Zenon
    <3>3. QED
      BY <3>1, <3>2, <1>1, Zenon DEF Items
  <2>3. Distinct(Tail(s))
    <3>1. SUFFICES ASSUME NEW i \in 1..(Len(s) - 1), NEW j \in 1..(Len(s) - 1),
                          Tail(s)[i] = Tail(s)[j]
                   PROVE  i = j
      BY <1>1, Zenon DEF Distinct
    <3>2. s[i + 1] = s[j + 1] /\ i + 1 \in DOMAIN s /\ j + 1 \in DOMAIN s
      BY <3>1, <1>1, <1>2
    <3>3. i + 1 = j + 1
      BY <3>2, <1>4 DEF Distinct
    <3>4. QED
      BY <3>3, <1>2
  <2>4. QED
    BY <2>1, <2>2, <2>3, Zenon
<1>5. QED
  BY <1>1, <1>3, <1>4

LEMMA EmptyFacts ==
  /\ <<>> \in Seq(Jobs) /\ Items(<<>>) = {} /\ Distinct(<<>>)
BY DEF Items, Distinct

\* The places of the ring buffer that are in use.
LEMMA RingIndex ==
  ASSUME TypeOK
  PROVE  /\ \A i \in 0..Capacity : InputQueueIndex(i) \in 0..(Capacity - 1)
         /\ \A i, j \in 0..(Capacity - 1) :
              InputQueueIndex(i) = InputQueueIndex(j) => i = j
         /\ \A i \in 0..(Capacity - 1) : 
              InputQueueIndex(i + 1) = (i + InputQueueIndex(1)) % Capacity
<1>1. /\ Capacity \in Nat \ {0} /\ input_queue_shift \in 0..(Capacity - 1)
  BY CapacityAssumption DEF TypeOK
<1>2. \A i \in 0..Capacity :
        InputQueueIndex(i) = IF i + input_queue_shift < Capacity
                             THEN i + input_queue_shift
                             ELSE i + input_queue_shift - Capacity
  <2>1. SUFFICES ASSUME NEW i \in 0..Capacity
                 PROVE  InputQueueIndex(i) = IF i + input_queue_shift < Capacity
                             THEN i + input_queue_shift
                             ELSE i + input_queue_shift - Capacity
    OBVIOUS
  <2>2. i + input_queue_shift \in 0..(2 * Capacity - 1)
    BY <1>1
  <2>3. QED
    BY <1>1, <2>2 DEF InputQueueIndex
<1>3. ASSUME NEW i \in 0..(Capacity - 1)
      PROVE  InputQueueIndex(i + 1) = (i + InputQueueIndex(1)) % Capacity
  <2>1. 1 \in 0..Capacity /\ i + 1 \in 0..Capacity
    BY <1>1
  <2> DEFINE m == i + InputQueueIndex(1)
  <2>2. m \in 0..(2 * Capacity - 1)
    BY <1>1, <1>2, <2>1
  <2>3. InputQueueIndex(i + 1) = IF m < Capacity THEN m ELSE m - Capacity
    BY <1>1, <1>2, <2>1
  <2> HIDE DEF m
  <2>4. m % Capacity = IF m < Capacity THEN m ELSE m - Capacity
    BY <1>1, <2>2
  <2>5. QED
    BY <2>3, <2>4 DEF m
<1>4. \A i \in 0..Capacity : InputQueueIndex(i) \in 0..(Capacity - 1)
  <2>1. SUFFICES ASSUME NEW i \in 0..Capacity
                 PROVE  InputQueueIndex(i) \in 0..(Capacity - 1)
    OBVIOUS
  <2>2. QED
    BY <1>1, <1>2
<1>5. ASSUME NEW i \in 0..(Capacity - 1), NEW j \in 0..(Capacity - 1),
             InputQueueIndex(i) = InputQueueIndex(j)
      PROVE  i = j
  <2>1. i \in 0..Capacity /\ j \in 0..Capacity
    BY <1>1
  <2>2. QED
    BY <1>1, <1>2, <1>5, <2>1
<1>6. QED
  BY <1>3, <1>4, <1>5, Zenon

LEMMA ContentsDomain ==
  ASSUME TypeOK, Contents \in Seq(Jobs)
  PROVE  /\ DOMAIN Contents = 1..input_queue_length /\ Len(Contents) = input_queue_length
         /\ Contents = <<>> <=> input_queue_length = 0
         /\ Items(Contents) = {} <=> input_queue_length = 0
<1>1. DOMAIN Contents = 1..input_queue_length /\ input_queue_length \in Nat
  BY CapacityAssumption DEF Contents, TypeOK
<1>2. Len(Contents) = input_queue_length
  BY <1>1
<1>3. Contents = <<>> <=> input_queue_length = 0
  BY <1>2
<1>4. Items(Contents) = {} <=> input_queue_length = 0
  <2>1. ASSUME input_queue_length # 0 PROVE Contents[1] \in Items(Contents)
    BY <1>1, <2>1 DEF Items
  <2>2. QED
    BY <1>3, <2>1, EmptyFacts
<1>5. QED
  BY <1>1, <1>2, <1>3, <1>4

\* Queue puts the job behind the others.
LEMMA QueueContents ==
  ASSUME TypeOK, Contents \in Seq(Jobs), IsQueueAvailable, NEW j \in Jobs,
         input_queue' = [input_queue EXCEPT ![InputQueueIndex(input_queue_length)] = j],
         input_queue_length' = input_queue_length + 1, UNCHANGED input_queue_shift
  PROVE  Contents' = Append(Contents, j)
<1>1. /\ Capacity \in Nat \ {0} /\ input_queue_length \in 0..(Capacity - 1)
      /\ input_queue \in [0..(Capacity - 1) -> Jobs \cup {None}]
  BY CapacityAssumption DEF TypeOK, IsQueueAvailable
<1>2. /\ Contents' = [i \in 1..(input_queue_length + 1) |-> input_queue'[InputQueueIndex(i - 1)]]
      /\ DOMAIN Contents = 1..input_queue_length
      /\ \A i \in 1..input_queue_length : Contents[i] = input_queue[InputQueueIndex(i - 1)]
  BY DEF Contents, InputQueueIndex
<1>3. InputQueueIndex(input_queue_length) \in 0..(Capacity - 1)
  <2>1. input_queue_length \in 0..Capacity
    BY <1>1
  <2>2. QED
    BY <2>1, RingIndex, Zenon
<1>4. \A i \in 1..input_queue_length :
        /\ InputQueueIndex(i - 1) \in 0..(Capacity - 1)
        /\ InputQueueIndex(i - 1) # InputQueueIndex(input_queue_length)
  <2>1. \A i \in 1..input_queue_length :
          i - 1 \in 0..(Capacity - 1) /\ i - 1 \in 0..Capacity /\ i - 1 # input_queue_length
    BY <1>1
  <2>2. QED
    BY <1>1, <2>1, RingIndex
<1>5. \A i \in 1..input_queue_length : Contents'[i] = Contents[i]
  <2>1. 1..input_queue_length \subseteq 1..(input_queue_length + 1)
    BY <1>1
  <2>2. \A n \in 0..(Capacity - 1) :
          n # InputQueueIndex(input_queue_length) => input_queue'[n] = input_queue[n]
    BY <1>1
  <2>3. QED
    BY <1>2, <1>4, <2>1, <2>2, Zenon
<1>6. Contents'[input_queue_length + 1] = j
  <2>1. input_queue_length + 1 \in 1..(input_queue_length + 1) /\ (input_queue_length + 1) - 1 = input_queue_length
    BY <1>1
  <2>2. input_queue'[InputQueueIndex(input_queue_length)] = j
    BY <1>1, <1>3
  <2>3. QED
    BY <1>2, <2>1, <2>2, Zenon
<1>7. Len(Contents) = input_queue_length
  BY <1>1, <1>2
<1>8. /\ Append(Contents, j) \in Seq(Jobs)
      /\ Len(Append(Contents, j)) = input_queue_length + 1
      /\ \A i \in 1..input_queue_length : Append(Contents, j)[i] = Contents[i]
      /\ Append(Contents, j)[input_queue_length + 1] = j
  BY <1>1, <1>7
<1>9. \A i \in 1..(input_queue_length + 1) : i = input_queue_length + 1 \/ i \in 1..input_queue_length
  BY <1>1
<1>10. \A i \in 1..input_queue_length : Contents[i] \in Jobs
  BY <1>7
<1>11. /\ \A i \in 1..(input_queue_length + 1) : Contents'[i] = Append(Contents, j)[i]
       /\ \A i \in 1..(input_queue_length + 1) : Contents'[i] \in Jobs
  BY <1>5, <1>6, <1>8, <1>9, <1>10, Zenon
<1>12. Contents' \in [1..(input_queue_length + 1) -> Jobs]
  BY <1>2, <1>11, Zenon
<1>13. Contents' \in Seq(Jobs) /\ Len(Contents') = input_queue_length + 1
  <2>1. input_queue_length + 1 \in Nat
    BY <1>1
  <2>2. Contents' \in Seq(Jobs)
    BY <2>1, <1>12
  <2>3. QED
    BY <2>1, <2>2, <1>12
<1>14. QED
  BY <1>8, <1>11, <1>13, SeqEqual, Zenon

\* NextInput takes the job at the front.
LEMMA NextInputContents ==
  ASSUME TypeOK, Contents \in Seq(Jobs), input_queue_length # 0,
         input_queue_shift' = InputQueueIndex(1),
         input_queue_length' = input_queue_length - 1, UNCHANGED input_queue
  PROVE  /\ Contents' = Tail(Contents) /\ Contents # <<>>
         /\ Head(Contents) = input_queue[InputQueueIndex(0)]
<1>1. /\ Capacity \in Nat \ {0} /\ input_queue_length \in 1..Capacity
  BY CapacityAssumption DEF TypeOK
<1>2. /\ Contents' = [i \in 1..(input_queue_length - 1) |->
                        input_queue[(i - 1 + InputQueueIndex(1)) % Capacity]]
      /\ DOMAIN Contents = 1..input_queue_length
      /\ \A i \in 1..input_queue_length : Contents[i] = input_queue[InputQueueIndex(i - 1)]
  BY DEF Contents, InputQueueIndex
<1>3. Len(Contents) = input_queue_length /\ Contents # <<>>
  BY <1>1, <1>2
<1>4. Head(Contents) = input_queue[InputQueueIndex(0)]
  BY <1>1, <1>2, <1>3
<1>5. ASSUME NEW i \in 1..(input_queue_length - 1)
      PROVE  Contents'[i] = Contents[i + 1]
  <2>1. /\ i - 1 \in 0..(Capacity - 1) /\ (i - 1) + 1 = i /\ i + 1 \in 1..input_queue_length
        /\ (i + 1) - 1 = i
    BY <1>1
  <2>2. InputQueueIndex(i) = ((i - 1) + InputQueueIndex(1)) % Capacity
    BY <2>1, RingIndex
  <2>3. QED
    BY <1>2, <2>1, <2>2
<1>6. /\ Tail(Contents) \in Seq(Jobs) /\ Len(Tail(Contents)) = input_queue_length - 1
      /\ \A i \in 1..(input_queue_length - 1) : Tail(Contents)[i] = Contents[i + 1]
      /\ \A i \in 1..(input_queue_length - 1) : Contents[i + 1] \in Jobs
  BY <1>1, <1>3, HeadTailProperties
<1>7. Contents' \in Seq(Jobs) /\ Len(Contents') = input_queue_length - 1
  <2>1. input_queue_length - 1 \in Nat
    BY <1>1
  <2>2. Contents' \in [1..(input_queue_length - 1) -> Jobs]
    BY <1>2, <1>5, <1>6, Zenon
  <2>3. Contents' \in Seq(Jobs)
    BY <2>1, <2>2
  <2>4. QED
    BY <2>1, <2>2, <2>3
<1>8. Contents' = Tail(Contents)
  BY <1>5, <1>6, <1>7, SeqEqual, Zenon
<1>9. QED
  BY <1>3, <1>4, <1>8

LEMMA SameContents ==
  UNCHANGED queue => UNCHANGED <<Contents, input_queue_length>>
BY DEF queue, Contents, InputQueueIndex

LEMMA NoContents ==
  input_queue_length' = 0 => Contents' = <<>>
<1>1. Contents' = [i \in 1..input_queue_length' |-> input_queue'[InputQueueIndex(i - 1)']]
  BY DEF Contents
<1>2. QED
  BY <1>1

-----------------------------------------------------------------------------
(* Facts about states, and what a step that leaves things alone preserves. *)

LEMMA PlanSteps == Plans \subseteq Seq(MainSteps)
<1>1. Emptied \subseteq Seq(MainSteps)
  BY DEF Emptied, MainSteps
<1>2. Awaited \subseteq Seq(MainSteps)
  BY DEF Awaited, MainSteps
<1>3. Fetching \subseteq Seq(MainSteps)
  <2>1. /\ <<"FlushInput", "Await", "FlushOutput">> \in Seq(MainSteps)
        /\ <<"Await", "FlushOutput">> \in Seq(MainSteps)
        /\ <<"FlushInput", "FlushOutput">> \in Seq(MainSteps)
        /\ <<"FlushOutput">> \in Seq(MainSteps) /\ <<"Install">> \in Seq(MainSteps)
        /\ <<"Await", "Install", "SetFinalize">> \in Seq(MainSteps)
    BY DEF MainSteps
  <2>2. /\ <<"Await", "Install", "ClearInstallCode", "UnsetFinalize">> \in Seq(MainSteps)
        /\ <<"FlushInput", "Await", "DropOutput", "Delete", "CancelAndWait">> \in Seq(MainSteps)
        /\ <<"Await", "DropOutput", "Delete", "CancelAndWait">> \in Seq(MainSteps)
    BY DEF MainSteps
  <2>3. QED
    BY <1>2, <2>1, <2>2, Zenon DEF Fetching
<1>4. {<<>>, <<"Post">>, <<"Await">>, <<"HasJobs1", "HasJobs2">>, <<"HasJobs2">>}
        \subseteq Seq(MainSteps)
  BY DEF MainSteps
<1>5. QED
  BY <1>1, <1>2, <1>3, <1>4, Zenon DEF Plans

\* A flat copy of the tasks' part of TypeOK.
LEMMA TaskSets ==
  ASSUME TypeOK
  PROVE  /\ IsFiniteSet(ActiveTasks) /\ IsFiniteSet(TasksBeforeInput)
         /\ Cardinality(ActiveTasks) \in Nat /\ Cardinality(TasksBeforeInput) \in Nat
<1>1. IsFiniteSet(Tasks) /\ ActiveTasks \subseteq Tasks /\ TasksBeforeInput \subseteq Tasks
  BY SetsAssumption DEF ActiveTasks, TasksBeforeInput
<1>2. IsFiniteSet(ActiveTasks) /\ IsFiniteSet(TasksBeforeInput)
  BY <1>1, FS_Subset
<1>3. QED
  BY <1>2, FS_CardinalityType

\* When the count is zero no task is left, and no job waits for one.
LEMMA NoneLeft ==
  ASSUME TypeOK, CountInv, ref_count = 0, todo # <<"Post">>
  PROVE  NoTasks /\ input_queue_length = 0
<1>1. ActiveTasks = {}
  BY TaskSets, FS_EmptySet DEF CountInv
<1>2. NoTasks
  BY <1>1 DEF ActiveTasks, NoTasks
<1>3. TasksBeforeInput = {}
  BY <1>2 DEF TasksBeforeInput, NoTasks
<1>4. Cardinality(TasksBeforeInput) = 0
  BY <1>3, FS_EmptySet
<1>5. input_queue_length <= 0 /\ input_queue_length \in Nat
  BY <1>4, CapacityAssumption DEF CountInv, TypeOK
<1>6. QED
  BY <1>2, <1>5

LEMMA NoneActive ==
  ASSUME TypeOK, CountInv, NoTasks
  PROVE  ref_count = 0 /\ \A k \in Tasks : held[k] = None
<1>1. ActiveTasks = {}
  BY DEF ActiveTasks, NoTasks
<1>2. ref_count = 0
  BY <1>1, FS_EmptySet DEF CountInv
<1>3. QED
  BY <1>2 DEF CountInv, NoTasks

\* An empty pipeline means that there are no jobs.
LEMMA NoJobsLeft ==
  ASSUME TypeOK, CountInv, PlaceInv, NoTasks, input_queue_length = 0, output_queue = <<>>
  PROVE  LiveJobs = {}
<1>1. Items(Contents) = {} /\ Items(output_queue) = {}
  BY ContentsDomain, EmptyFacts DEF PlaceInv
<1>2. ASSUME NEW j \in Jobs PROVE ~(\E k \in Tasks : held[k] = j)
  BY <1>2, NoneActive, SetsAssumption
<1>3. QED
  BY <1>1, <1>2, Zenon DEF PlaceInv, LiveJobs

LEMMA AliveInCalls ==
  ASSUME TypeOK, PlanInv, todo # <<>>, todo # <<"CancelAndWait">>
  PROVE  dispatcher = "alive"
BY Zenon DEF TypeOK, PlanInv

LEMMA PlaceFrame ==
  ASSUME PlaceInv, UNCHANGED <<queue, output_queue, held, job>>
  PROVE  PlaceInv' /\ UNCHANGED LiveJobs
<1>1. UNCHANGED <<Contents, output_queue, held, job>>
  BY SameContents
<1>2. UNCHANGED <<Items(Contents), Items(output_queue), Distinct(Contents), Distinct(output_queue)>>
  BY <1>1 DEF Items, Distinct
<1>3. UNCHANGED LiveJobs
  BY <1>1 DEF LiveJobs
<1>4. PlaceInv'
  BY <1>1, <1>2, Zenon DEF PlaceInv
<1>5. QED
  BY <1>3, <1>4

LEMMA CountFrame ==
  ASSUME TypeOK, CountInv, UNCHANGED <<tasks, input_queue_length>>,
         todo # <<"Post">> \/ todo' = <<"Post">>
  PROVE  CountInv' /\ UNCHANGED <<ActiveTasks, TasksBeforeInput, NoTasks>>
<1>1. UNCHANGED <<task, held, ref_count, input_queue_length>>
  BY DEF tasks
<1>2. UNCHANGED <<ActiveTasks, TasksBeforeInput, NoTasks>>
  BY <1>1 DEF ActiveTasks, TasksBeforeInput, NoTasks
<1>3. CASE todo' = <<"Post">>
  <2>1. input_queue_length <= Cardinality(TasksBeforeInput) + 1
    BY TaskSets, CapacityAssumption DEF CountInv, TypeOK
  <2>2. QED
    BY <1>1, <1>2, <1>3, <2>1 DEF CountInv
<1>4. CASE todo # <<"Post">> /\ todo' # <<"Post">>
  BY <1>1, <1>2, <1>4 DEF CountInv
<1>5. QED
  BY <1>2, <1>3, <1>4

LEMMA ProgressFrame ==
  ASSUME InProgressHasJob, UNCHANGED job,
         \A f \in Functions, osr \in BOOLEAN :
           tiering'[f][osr] = "in_progress" => tiering[f][osr] = "in_progress"
  PROVE  InProgressHasJob'
BY Zenon DEF InProgressHasJob, LiveJobs

-----------------------------------------------------------------------------
(* The workers. *)

LEMMA InitEstablishes == Init => DispatcherProofInv
<1> SUFFICES ASSUME Init PROVE DispatcherProofInv
  OBVIOUS
<1>1. TypeOK
  <2>1. /\ <<>> \in Seq(Jobs) /\ <<>> \in Seq(MainSteps)
    OBVIOUS
  <2>2. /\ input_queue \in [0..(Capacity - 1) -> Jobs \cup {None}]
        /\ tiering \in [Functions ->
             [BOOLEAN -> {"none", "request", "request_sync", "in_progress"}]]
        /\ available \in [Functions -> BOOLEAN]
        /\ task \in [Tasks -> {"none", "posted", "next", "compile", "request", "leave"}]
        /\ held \in [Tasks -> Jobs \cup {None}] /\ job \in [Jobs -> JobInfo \cup {None}]
    BY DEF Init
  <2>3. input_queue_length \in 0..Capacity /\ input_queue_shift \in 0..(Capacity - 1) /\ ref_count \in Nat
    BY CapacityAssumption DEF Init
  <2>4. QED
    BY <2>1, <2>2, <2>3 DEF Init, TypeOK
<1>2. NoTasks /\ (\A k \in Tasks : held[k] = None) /\ input_queue_length = 0
  BY DEF Init, NoTasks
<1>3. ActiveTasks = {} /\ TasksBeforeInput = {}
  BY <1>2 DEF ActiveTasks, TasksBeforeInput, NoTasks
<1>4. CountInv
  BY <1>2, <1>3, FS_EmptySet DEF CountInv, Init, NoTasks
<1>5. Contents = <<>>
  BY <1>2 DEF Contents
<1>6. PlaceInv
  <2>1. \A k \in Tasks : \A j \in Jobs : held[k] # j
    BY <1>2, SetsAssumption
  <2>2. \A j \in Jobs : job[j] = None
    BY DEF Init
  <2>3. Items(Contents) = {} /\ Items(output_queue) = {}
    BY <1>5, EmptyFacts DEF Init
  <2>4. Contents \in Seq(Jobs) /\ Distinct(Contents) /\ Distinct(output_queue)
    BY <1>5, EmptyFacts DEF Init
  <2>5. QED
    BY <1>2, <2>1, <2>2, <2>3, <2>4, Zenon DEF PlaceInv
<1>7. PlanInv
  <2>1. todo = <<>> /\ dispatcher = "alive" /\ output_queue = <<>>
    BY DEF Init
  <2>2. <<>> # <<"CancelAndWait">>
    OBVIOUS
  <2>3. QED
    BY <1>2, <2>1, <2>2, PlanSets, PlanDifferences DEF PlanInv
<1>8. HasJobsInv /\ AnnouncedInv
  BY DEF Init, HasJobsInv, AnnouncedInv
<1>9. InProgressHasJob
  <2>1. ASSUME NEW f \in Functions, NEW osr \in BOOLEAN PROVE tiering[f][osr] = "none"
    BY DEF Init
  <2>2. QED
    BY <2>1 DEF InProgressHasJob
<1>10. QED
  BY <1>1, <1>4, <1>6, <1>7, <1>8, <1>9 DEF DispatcherProofInv

\* While there is a task, the calls that have waited for all of them are not
\* under way: the main thread's part of the invariant does not depend on it.
LEMMA WorkerFrame ==
  ASSUME DispatcherProofInv, NEW k \in Tasks, task[k] # "none",
         UNCHANGED <<job, functions, todo, hasjobs, dispatcher>>
  PROVE  PlanInv' /\ HasJobsInv' /\ InProgressHasJob'
<1>1. /\ ~NoTasks /\ UNCHANGED <<todo, dispatcher, hasjobs, job, tiering>>
  BY DEF NoTasks, functions
<1>2. todo \notin Awaited \cup Emptied /\ dispatcher = "alive"
  BY <1>1 DEF DispatcherProofInv, PlanInv
<1>3. PlanInv'
  BY <1>1, <1>2 DEF DispatcherProofInv, PlanInv
<1>4. HasJobsInv'
  <2>1. UNCHANGED LiveJobs
    BY <1>1 DEF LiveJobs
  <2>2. QED
    BY <1>1, <2>1 DEF DispatcherProofInv, HasJobsInv
<1>5. InProgressHasJob'
  BY <1>1, ProgressFrame DEF DispatcherProofInv
<1>6. QED
  BY <1>3, <1>4, <1>5

\* A task that goes on stays counted, and is before NextInput or not.
LEMMA TaskMoves ==
  ASSUME TypeOK, NEW k \in Tasks, NEW s, task' = [task EXCEPT ![k] = s]
  PROVE  /\ \A l \in Tasks : task'[l] = IF l = k THEN s ELSE task[l]
         /\ task[k] # "none" /\ s # "none" => UNCHANGED ActiveTasks
         /\ task[k] # "none" /\ s = "none" => ActiveTasks' = ActiveTasks \ {k} /\ k \in ActiveTasks
         /\ task[k] = "none" /\ s # "none" => ActiveTasks' = ActiveTasks \cup {k} /\ k \notin ActiveTasks
         /\ task[k] \notin {"posted", "next"} /\ s \notin {"posted", "next"} => UNCHANGED TasksBeforeInput
         /\ task[k] \in {"posted", "next"} /\ s \in {"posted", "next"} => UNCHANGED TasksBeforeInput
         /\ task[k] \in {"posted", "next"} /\ s \notin {"posted", "next"} =>
              TasksBeforeInput' = TasksBeforeInput \ {k} /\ k \in TasksBeforeInput
         /\ task[k] \notin {"posted", "next"} /\ s \in {"posted", "next"} =>
              TasksBeforeInput' = TasksBeforeInput \cup {k} /\ k \notin TasksBeforeInput
<1>1. \A l \in Tasks : task'[l] = IF l = k THEN s ELSE task[l]
  BY DEF TypeOK
<1>2. QED
  BY <1>1 DEF ActiveTasks, TasksBeforeInput

LEMMA RunPreserves ==
  ASSUME DispatcherProofInv, NEW k \in Tasks, Run(k)
  PROVE  DispatcherProofInv'
<1>1. /\ task[k] = "posted" /\ task' = [task EXCEPT ![k] = "next"]
      /\ UNCHANGED <<queue, output_queue, held, ref_count, job, functions, install,
                     finalize, todo, hasjobs, dispatcher>>
  BY DEF Run
<1>2. TypeOK /\ CountInv /\ PlaceInv /\ AnnouncedInv
  BY DEF DispatcherProofInv
<1>3. TypeOK'
  BY <1>1, <1>2 DEF TypeOK, queue, functions
<1>4. UNCHANGED <<ActiveTasks, TasksBeforeInput>> /\ \A l \in Tasks : task'[l] = IF l = k THEN "next" ELSE task[l]
  BY <1>1, <1>2, TaskMoves
<1>5. CountInv'
  BY <1>1, <1>2, <1>4, SameContents DEF CountInv
<1>6. PlaceInv'
  BY <1>1, <1>2, PlaceFrame
<1>7. AnnouncedInv'
  BY <1>1, <1>2, <1>4 DEF AnnouncedInv
<1>8. QED
  BY <1>1, <1>3, <1>5, <1>6, <1>7, WorkerFrame DEF DispatcherProofInv

LEMMA NextInputPreserves ==
  ASSUME DispatcherProofInv, NEW k \in Tasks, NextInput(k)
  PROVE  DispatcherProofInv'
<1>1. /\ task[k] = "next"
      /\ UNCHANGED <<output_queue, ref_count, job, functions, install, finalize, todo,
                     hasjobs, dispatcher>>
  BY DEF NextInput
<1>2. TypeOK /\ CountInv /\ PlaceInv /\ AnnouncedInv
  BY DEF DispatcherProofInv
<1>3. PlanInv' /\ HasJobsInv' /\ InProgressHasJob'
  BY <1>1, WorkerFrame
<1>4. /\ input_queue_length \in Nat /\ Cardinality(TasksBeforeInput) \in Nat
      /\ IsFiniteSet(TasksBeforeInput)
  BY <1>2, TaskSets, CapacityAssumption DEF TypeOK
<1>5. k \in TasksBeforeInput
  BY <1>1 DEF TasksBeforeInput
<1>6. Cardinality(TasksBeforeInput \ {k}) = Cardinality(TasksBeforeInput) - 1
  BY <1>4, <1>5, FS_RemoveElement
<1>7. CASE input_queue_length = 0
  <2>1. task' = [task EXCEPT ![k] = "leave"] /\ UNCHANGED <<queue, held>>
    BY <1>7 DEF NextInput
  <2>2. /\ UNCHANGED ActiveTasks /\ TasksBeforeInput' = TasksBeforeInput \ {k}
        /\ \A l \in Tasks : task'[l] = IF l = k THEN "leave" ELSE task[l]
    <3>1. /\ "leave" # "none" /\ "leave" \notin {"posted", "next"}
          /\ task[k] # "none" /\ task[k] \in {"posted", "next"}
      BY <1>1
    <3>2. QED
      BY <1>2, <2>1, <3>1, TaskMoves, Zenon
  <2>3. TypeOK'
    BY <1>1, <1>2, <2>1 DEF TypeOK, queue, functions
  <2>4. Cardinality(TasksBeforeInput') \in Nat
    <3>1. IsFiniteSet(TasksBeforeInput \ {k})
      BY <1>4, FS_Subset
    <3>2. QED
      BY <2>2, <3>1, FS_CardinalityType
  <2>5. CountInv'
    <3>1. input_queue_length' = 0
      BY <1>7, <2>1 DEF queue
    <3>2. input_queue_length' <= Cardinality(TasksBeforeInput') + (IF todo' = <<"Post">> THEN 1 ELSE 0)
      BY <1>4, <1>5, <1>6, <2>2, <3>1, <2>4
    <3>3. QED
      BY <1>1, <1>2, <2>1, <2>2, <3>2 DEF CountInv
  <2>6. PlaceInv'
    BY <1>1, <1>2, <2>1, PlaceFrame
  <2>7. AnnouncedInv'
    BY <1>1, <1>2, <2>2 DEF AnnouncedInv
  <2>8. QED
    BY <1>3, <2>3, <2>5, <2>6, <2>7 DEF DispatcherProofInv
<1>8. CASE input_queue_length # 0
  <2>1. /\ task' = [task EXCEPT ![k] = "compile"]
        /\ held' = [held EXCEPT ![k] = input_queue[InputQueueIndex(0)]]
        /\ input_queue_shift' = InputQueueIndex(1)
        /\ input_queue_length' = input_queue_length - 1
        /\ UNCHANGED input_queue
    BY <1>8 DEF NextInput
  <2>2. /\ UNCHANGED ActiveTasks /\ TasksBeforeInput' = TasksBeforeInput \ {k}
        /\ \A l \in Tasks : task'[l] = IF l = k THEN "compile" ELSE task[l]
    <3>1. /\ "compile" # "none" /\ "compile" \notin {"posted", "next"}
          /\ task[k] # "none" /\ task[k] \in {"posted", "next"}
      BY <1>1
    <3>2. QED
      BY <1>2, <2>1, <3>1, TaskMoves, Zenon
  <2> DEFINE h == Head(Contents)
  <2>3. /\ Contents \in Seq(Jobs) /\ Contents # <<>> /\ Contents' = Tail(Contents)
        /\ held' = [held EXCEPT ![k] = h]
    BY <1>2, <1>8, <2>1, NextInputContents DEF PlaceInv
  <2>4. /\ Contents' \in Seq(Jobs) /\ h \in Jobs /\ h \in Items(Contents)
        /\ Items(Contents') = Items(Contents) \ {h} /\ Distinct(Contents')
    BY <1>2, <2>3, TailFacts DEF PlaceInv
  <2>5. held[k] = None /\ h # None
    BY <1>1, <1>2, <2>4, SetsAssumption DEF CountInv
  <2> HIDE DEF h
  <2>6. \A l \in Tasks : held'[l] = IF l = k THEN h ELSE held[l]
    BY <1>2, <2>3 DEF TypeOK
  <2>7. TypeOK'
    <3>1. 1 \in 0..Capacity /\ input_queue_length' \in 0..Capacity
      BY <1>2, <1>8, <2>1, CapacityAssumption DEF TypeOK
    <3>2. input_queue_shift' \in 0..(Capacity - 1)
      BY <1>2, <2>1, <3>1, RingIndex
    <3>3. held' \in [Tasks -> Jobs \cup {None}] /\ task' \in [Tasks -> {"none", "posted", "next", "compile", "request", "leave"}]
      BY <1>2, <2>1, <2>3, <2>4 DEF TypeOK
    <3>4. QED
      BY <1>1, <1>2, <2>1, <3>1, <3>2, <3>3, Zenon DEF TypeOK, functions
  <2>8. CountInv'
    <3>1. input_queue_length' <= Cardinality(TasksBeforeInput') + (IF todo' = <<"Post">> THEN 1 ELSE 0)
      BY <1>1, <1>2, <1>4, <1>6, <2>1, <2>2 DEF CountInv
    <3>2. \A l \in Tasks : held'[l] # None <=> task'[l] = "compile"
      BY <1>2, <2>2, <2>5, <2>6 DEF CountInv
    <3>3. QED
      BY <1>1, <1>2, <2>2, <3>1, <3>2 DEF CountInv
  <2>9. PlaceInv'
    <3>1. UNCHANGED <<output_queue, job>> /\ UNCHANGED <<Items(output_queue), Distinct(output_queue)>>
      BY <1>1 DEF Items, Distinct
    <3>2. /\ \A l \in Tasks : held[l] # h
          /\ h \notin Items(output_queue)
      BY <1>2, <2>4 DEF PlaceInv
    <3>3. \A l, m \in Tasks : held'[l] = held'[m] /\ held'[l] # None => l = m
      BY <1>2, <2>6, <3>2, Zenon DEF PlaceInv
    <3>4. Items(Contents') \cap Items(output_queue') = {}
      BY <1>2, <2>4, <3>1, Zenon DEF PlaceInv
    <3>5. \A l \in Tasks : held'[l] \notin Items(Contents') \cup Items(output_queue')
      BY <1>2, <2>4, <2>6, <3>1, <3>2, Zenon DEF PlaceInv
    <3>6. ASSUME NEW j \in Jobs
          PROVE  job'[j] # None <=> \/ j \in Items(Contents') \cup Items(output_queue')
                                    \/ \E l \in Tasks : held'[l] = j
      <4>1. (\E l \in Tasks : held'[l] = j) <=> (j = h \/ \E l \in Tasks : held[l] = j)
        BY <2>5, <2>6, SetsAssumption, Zenon
      <4>2. j \in Items(Contents') <=> j \in Items(Contents) /\ j # h
        BY <2>4, Zenon
      <4>3. job[j] # None <=> \/ j \in Items(Contents) \cup Items(output_queue)
                              \/ \E l \in Tasks : held[l] = j
        BY <1>2, Zenon DEF PlaceInv
      <4>4. QED
        BY <2>4, <3>1, <4>1, <4>2, <4>3, Zenon
    <3>7. QED
      BY <1>2, <2>4, <3>1, <3>3, <3>4, <3>5, <3>6, Zenon DEF PlaceInv
  <2>10. AnnouncedInv'
    BY <1>1, <1>2, <2>2 DEF AnnouncedInv
  <2>11. QED
    BY <1>3, <2>7, <2>8, <2>9, <2>10 DEF DispatcherProofInv
<1>9. QED
  BY <1>7, <1>8

LEMMA CompileNextPreserves ==
  ASSUME DispatcherProofInv, NEW k \in Tasks, CompileNext(k)
  PROVE  DispatcherProofInv'
<1> DEFINE h == held[k]
<1>1. /\ task[k] = "compile" /\ task' = [task EXCEPT ![k] = "request"]
      /\ output_queue' = Append(output_queue, h) /\ held' = [held EXCEPT ![k] = None]
      /\ UNCHANGED <<queue, ref_count, job, functions, install, finalize, todo,
                     hasjobs, dispatcher>>
  BY DEF CompileNext
<1>2. TypeOK /\ CountInv /\ PlaceInv
  BY DEF DispatcherProofInv
<1>3. /\ UNCHANGED <<ActiveTasks, TasksBeforeInput>>
      /\ \A l \in Tasks : task'[l] = IF l = k THEN "request" ELSE task[l]
  <2>1. /\ "request" # "none" /\ "request" \notin {"posted", "next"}
        /\ task[k] # "none" /\ task[k] \notin {"posted", "next"}
    BY <1>1
  <2>2. QED
    BY <1>1, <1>2, <2>1, TaskMoves, Zenon
<1>4. h \in Jobs /\ h # None /\ output_queue \in Seq(Jobs)
  BY <1>1, <1>2 DEF CountInv, TypeOK
<1>5. h \notin Items(Contents) \cup Items(output_queue)
  BY <1>2 DEF PlaceInv
<1>6. /\ output_queue' \in Seq(Jobs) /\ Items(output_queue') = Items(output_queue) \cup {h}
      /\ Distinct(output_queue')
  BY <1>1, <1>2, <1>4, <1>5, AppendFacts DEF PlaceInv
<1>7. \A l \in Tasks : held'[l] = IF l = k THEN None ELSE held[l]
  BY <1>1, <1>2 DEF TypeOK
<1>8. \A l \in Tasks : l # k => held[l] # h
  BY <1>2, <1>4 DEF PlaceInv
<1>9. h = held[k]
  OBVIOUS
<1> HIDE DEF h
<1>10. TypeOK'
  <2>1. /\ held' \in [Tasks -> Jobs \cup {None}]
        /\ task' \in [Tasks -> {"none", "posted", "next", "compile", "request", "leave"}]
    BY <1>1, <1>2 DEF TypeOK
  <2>2. QED
    BY <1>1, <1>2, <1>6, <2>1, Zenon DEF TypeOK, queue, functions
<1>11. CountInv'
  <2>1. \A l \in Tasks : held'[l] # None <=> task'[l] = "compile"
    BY <1>2, <1>3, <1>7 DEF CountInv
  <2>2. QED
    BY <1>1, <1>2, <1>3, <2>1, SameContents DEF CountInv
<1>12. PlaceInv'
  <2>1. UNCHANGED <<Contents, job>> /\ UNCHANGED <<Items(Contents), Distinct(Contents)>>
    BY <1>1, SameContents DEF Items, Distinct
  <2>2. \A l, m \in Tasks : held'[l] = held'[m] /\ held'[l] # None => l = m
    BY <1>2, <1>7, Zenon DEF PlaceInv
  <2>3. Items(Contents') \cap Items(output_queue') = {}
    BY <1>2, <1>5, <1>6, <2>1 DEF PlaceInv
  <2>4. None \notin Items(Contents') \cup Items(output_queue')
    <3>1. Items(Contents) \subseteq Jobs
      BY <1>2 DEF PlaceInv, Items
    <3>2. Items(output_queue') \subseteq Jobs
      BY <1>6 DEF Items
    <3>3. QED
      BY <2>1, <3>1, <3>2, SetsAssumption
  <2>5. \A l \in Tasks : held'[l] \notin Items(Contents') \cup Items(output_queue')
    <3>1. \A l \in Tasks : held[l] \notin Items(Contents) \cup Items(output_queue)
      BY <1>2 DEF PlaceInv
    <3>2. QED
      BY <3>1, <1>6, <1>7, <1>8, <2>1, <2>4
  <2>6. ASSUME NEW j \in Jobs
        PROVE  job'[j] # None <=> \/ j \in Items(Contents') \cup Items(output_queue')
                                  \/ \E l \in Tasks : held'[l] = j
    <3>1. (\E l \in Tasks : held'[l] = j) <=> (j # h /\ \E l \in Tasks : held[l] = j)
      BY <1>4, <1>7, <1>8, <1>9, SetsAssumption, Zenon
    <3>2. j \in Items(output_queue') <=> j \in Items(output_queue) \/ j = h
      BY <1>6, Zenon
    <3>3. job[j] # None <=> \/ j \in Items(Contents) \cup Items(output_queue)
                            \/ \E l \in Tasks : held[l] = j
      BY <1>2, Zenon DEF PlaceInv
    <3>4. QED
      BY <1>9, <2>1, <3>1, <3>2, <3>3, Zenon
  <2>7. QED
    BY <1>2, <1>6, <2>1, <2>2, <2>3, <2>5, <2>6, Zenon DEF PlaceInv
<1>13. AnnouncedInv'
  BY <1>3 DEF AnnouncedInv
<1>14. PlanInv' /\ HasJobsInv' /\ InProgressHasJob'
  BY <1>1, WorkerFrame
<1>15. QED
  BY <1>10, <1>11, <1>12, <1>13, <1>14 DEF DispatcherProofInv

LEMMA RequestInstallCodePreserves ==
  ASSUME DispatcherProofInv, NEW k \in Tasks, RequestInstallCode(k)
  PROVE  DispatcherProofInv'
<1>1. /\ task[k] = "request" /\ task' = [task EXCEPT ![k] = "leave"]
      /\ install' = (install \/ finalize)
      /\ UNCHANGED <<queue, output_queue, held, ref_count, job, functions,
                     finalize, todo, hasjobs, dispatcher>>
  BY DEF RequestInstallCode
<1>2. TypeOK /\ CountInv /\ PlaceInv
  BY DEF DispatcherProofInv
<1>3. TypeOK'
  <2>1. install' \in BOOLEAN
    BY <1>1, Zenon
  <2>2. QED
    BY <1>1, <1>2, <2>1 DEF TypeOK, queue, functions
<1>4. /\ UNCHANGED <<ActiveTasks, TasksBeforeInput>>
      /\ \A l \in Tasks : task'[l] = IF l = k THEN "leave" ELSE task[l]
  <2>1. /\ "leave" # "none" /\ "leave" \notin {"posted", "next"}
        /\ task[k] # "none" /\ task[k] \notin {"posted", "next"}
    BY <1>1
  <2>2. QED
    BY <1>1, <1>2, <2>1, TaskMoves, Zenon
<1>5. CountInv'
  BY <1>1, <1>2, <1>4, SameContents DEF CountInv
<1>6. PlaceInv'
  BY <1>1, <1>2, PlaceFrame
<1>7. AnnouncedInv'
  BY <1>1, Zenon DEF AnnouncedInv
<1>8. PlanInv' /\ HasJobsInv' /\ InProgressHasJob'
  BY <1>1, WorkerFrame
<1>9. QED
  BY <1>3, <1>5, <1>6, <1>7, <1>8 DEF DispatcherProofInv

LEMMA LeavePreserves ==
  ASSUME DispatcherProofInv, NEW k \in Tasks, Leave(k)
  PROVE  DispatcherProofInv'
<1>1. /\ task[k] = "leave" /\ task' = [task EXCEPT ![k] = "none"]
      /\ ref_count' = ref_count - 1
      /\ UNCHANGED <<queue, output_queue, held, job, functions, install,
                     finalize, todo, hasjobs, dispatcher>>
  BY DEF Leave
<1>2. TypeOK /\ CountInv /\ PlaceInv /\ AnnouncedInv
  BY DEF DispatcherProofInv
<1>3. /\ ActiveTasks' = ActiveTasks \ {k} /\ k \in ActiveTasks /\ UNCHANGED TasksBeforeInput
      /\ \A l \in Tasks : task'[l] = IF l = k THEN "none" ELSE task[l]
  <2>1. /\ "none" \notin {"posted", "next"}
        /\ task[k] # "none" /\ task[k] \notin {"posted", "next"}
    BY <1>1
  <2>2. QED
    BY <1>1, <1>2, <2>1, TaskMoves, Zenon
<1>4. /\ IsFiniteSet(ActiveTasks) /\ ref_count = Cardinality(ActiveTasks)
  BY <1>2, TaskSets DEF CountInv
<1>5. /\ ref_count' = Cardinality(ActiveTasks') /\ IsFiniteSet(ActiveTasks')
  BY <1>1, <1>3, <1>4, FS_RemoveElement
<1>6. TypeOK'
  <2>1. ref_count' \in Nat
    BY <1>5, FS_CardinalityType
  <2>2. QED
    BY <1>1, <1>2, <2>1 DEF TypeOK, queue, functions
<1>7. CountInv'
  BY <1>1, <1>2, <1>3, <1>5, SameContents DEF CountInv
<1>8. PlaceInv'
  BY <1>1, <1>2, PlaceFrame
<1>9. AnnouncedInv'
  BY <1>1, <1>2, <1>3 DEF AnnouncedInv
<1>10. PlanInv' /\ HasJobsInv' /\ InProgressHasJob'
  BY <1>1, WorkerFrame
<1>11. QED
  BY <1>6, <1>7, <1>8, <1>9, <1>10 DEF DispatcherProofInv

-----------------------------------------------------------------------------
(* The main thread asks for optimization and begins calls. *)

\* What only touches the functions leaves everything else as it is.
LEMMA FunctionFrame ==
  ASSUME DispatcherProofInv,
         UNCHANGED <<queue, output_queue, tasks, job, install, finalize, todo, hasjobs, dispatcher>>
  PROVE  CountInv' /\ PlaceInv' /\ PlanInv' /\ HasJobsInv' /\ AnnouncedInv'
<1>1. TypeOK /\ CountInv /\ PlaceInv /\ PlanInv /\ HasJobsInv /\ AnnouncedInv
  BY DEF DispatcherProofInv
<1>2. /\ UNCHANGED <<input_queue_length, task, held, ref_count>>
  BY SameContents DEF tasks
<1>3. CountInv' /\ UNCHANGED NoTasks
  BY <1>1, <1>2, CountFrame DEF tasks
<1>4. PlaceInv' /\ UNCHANGED LiveJobs
  BY <1>1, <1>2, PlaceFrame
<1>5. PlanInv'
  BY <1>1, <1>2, <1>3 DEF PlanInv
<1>6. HasJobsInv'
  BY <1>1, <1>2, <1>3, <1>4 DEF HasJobsInv
<1>7. AnnouncedInv'
  BY <1>1, <1>2 DEF AnnouncedInv
<1>8. QED
  BY <1>3, <1>4, <1>5, <1>6, <1>7

LEMMA SetTieringState ==
  ASSUME TypeOK, NEW f \in Functions, NEW osr \in BOOLEAN,
         NEW s \in {"none", "request", "request_sync", "in_progress"},
         tiering' = [tiering EXCEPT ![f][osr] = s]
  PROVE  /\ tiering' \in [Functions ->
              [BOOLEAN -> {"none", "request", "request_sync", "in_progress"}]]
         /\ \A g \in Functions, o \in BOOLEAN :
              tiering'[g][o] = IF g = f /\ o = osr THEN s ELSE tiering[g][o]
         /\ s # "in_progress" => \A g \in Functions, o \in BOOLEAN :
              tiering'[g][o] = "in_progress" => tiering[g][o] = "in_progress"
<1>1. /\ tiering' \in [Functions ->
           [BOOLEAN -> {"none", "request", "request_sync", "in_progress"}]]
      /\ \A g \in Functions, o \in BOOLEAN :
           tiering'[g][o] = IF g = f /\ o = osr THEN s ELSE tiering[g][o]
  BY DEF TypeOK
<1>2. QED
  BY <1>1, Zenon

LEMMA MarkForOptimizationPreserves ==
  ASSUME DispatcherProofInv, NEW f \in Functions, MarkForOptimization(f)
  PROVE  DispatcherProofInv'
<1> PICK s \in {"request", "request_sync"} : tiering' = [tiering EXCEPT ![f][FALSE] = s]
  BY DEF MarkForOptimization
<1>1. /\ tiering' = [tiering EXCEPT ![f][FALSE] = s] /\ s # "in_progress"
      /\ s \in {"none", "request", "request_sync", "in_progress"}
      /\ UNCHANGED <<queue, output_queue, tasks, job, available, install, finalize,
                     todo, hasjobs, dispatcher>>
  BY DEF MarkForOptimization
<1>2. TypeOK /\ InProgressHasJob
  BY DEF DispatcherProofInv
<1>3. CountInv' /\ PlaceInv' /\ PlanInv' /\ HasJobsInv' /\ AnnouncedInv'
  BY <1>1, FunctionFrame
<1>4. TypeOK'
  <2>1. tiering' \in [Functions ->
          [BOOLEAN -> {"none", "request", "request_sync", "in_progress"}]]
    BY <1>1, <1>2, SetTieringState
  <2>2. QED
    BY <1>1, <1>2, <2>1, Zenon DEF TypeOK, queue, tasks
<1>5. \A g \in Functions, osr \in BOOLEAN :
        tiering'[g][osr] = "in_progress" => tiering[g][osr] = "in_progress"
  BY <1>1, <1>2, SetTieringState
<1>6. QED
  BY <1>1, <1>2, <1>3, <1>4, <1>5, ProgressFrame DEF DispatcherProofInv

LEMMA CompileOptimizedSynchronouslyPreserves ==
  ASSUME DispatcherProofInv, NEW f \in Functions, CompileOptimizedSynchronously(f)
  PROVE  DispatcherProofInv'
<1>1. /\ tiering' = [tiering EXCEPT ![f][FALSE] = "none"]
      /\ UNCHANGED <<queue, output_queue, tasks, job, install, finalize, todo,
                     hasjobs, dispatcher>>
  BY DEF CompileOptimizedSynchronously
<1>2. TypeOK /\ InProgressHasJob
  BY DEF DispatcherProofInv
<1>3. CountInv' /\ PlaceInv' /\ PlanInv' /\ HasJobsInv' /\ AnnouncedInv'
  BY <1>1, FunctionFrame
<1>4. TypeOK'
  <2>1. tiering' \in [Functions ->
          [BOOLEAN -> {"none", "request", "request_sync", "in_progress"}]]
    BY <1>1, <1>2 DEF TypeOK
  <2>2. available' \in [Functions -> BOOLEAN]
    <3>1. PICK success \in BOOLEAN : available' = [available EXCEPT ![f] = @ \/ success]
      BY DEF CompileOptimizedSynchronously
    <3>2. (available[f] \/ success) \in BOOLEAN
      BY Zenon
    <3>3. QED
      BY <1>2, <3>1, <3>2 DEF TypeOK
  <2>3. QED
    BY <1>1, <1>2, <2>1, <2>2, Zenon DEF TypeOK, queue, tasks
<1>5. \A g \in Functions, osr \in BOOLEAN :
        tiering'[g][osr] = "in_progress" => tiering[g][osr] = "in_progress"
  BY <1>1, <1>2 DEF TypeOK
<1>6. QED
  BY <1>1, <1>2, <1>3, <1>4, <1>5, ProgressFrame DEF DispatcherProofInv

LEMMA DiscardCodePreserves ==
  ASSUME DispatcherProofInv, NEW f \in Functions, DiscardCode(f)
  PROVE  DispatcherProofInv'
<1>1. /\ available' = [available EXCEPT ![f] = FALSE]
      /\ UNCHANGED <<queue, output_queue, tasks, job, tiering, install, finalize,
                     todo, hasjobs, dispatcher>>
  BY DEF DiscardCode
<1>2. TypeOK /\ InProgressHasJob
  BY DEF DispatcherProofInv
<1>3. CountInv' /\ PlaceInv' /\ PlanInv' /\ HasJobsInv' /\ AnnouncedInv'
  BY <1>1, FunctionFrame
<1>4. TypeOK'
  <2>1. available' \in [Functions -> BOOLEAN]
    BY <1>1, <1>2 DEF TypeOK
  <2>2. QED
    BY <1>1, <1>2, <2>1, Zenon DEF TypeOK, queue, tasks
<1>5. QED
  BY <1>1, <1>2, <1>3, <1>4, ProgressFrame DEF DispatcherProofInv

LEMMA QueuePreserves ==
  ASSUME DispatcherProofInv, Idle, NEW f \in Functions, NEW osr \in BOOLEAN, Queue(f, osr)
  PROVE  DispatcherProofInv'
<1> DEFINE info == [fn |-> f, osr |-> osr]
<1>1. PICK j \in Jobs :
        /\ job[j] = None
        /\ job' = [job EXCEPT ![j] = info]
        /\ input_queue' =
             [input_queue EXCEPT ![InputQueueIndex(input_queue_length)] = j]
  BY DEF Queue
<1>2. /\ IsQueueAvailable /\ input_queue_length' = input_queue_length + 1
      /\ tiering' = [tiering EXCEPT ![f][osr] = "in_progress"]
      /\ todo' = <<"Post">> /\ hasjobs' = TRUE
      /\ UNCHANGED <<input_queue_shift, output_queue, tasks, available, install,
                     finalize, dispatcher>>
      /\ todo = <<>> /\ dispatcher = "alive"
  BY DEF Queue, Idle
<1>3. TypeOK /\ CountInv /\ PlaceInv /\ PlanInv /\ AnnouncedInv /\ InProgressHasJob
  BY DEF DispatcherProofInv
<1>4. info \in JobInfo /\ info # None
  BY SetsAssumption DEF JobInfo
<1> HIDE DEF info
<1>5. \A i \in Jobs : job'[i] = IF i = j THEN info ELSE job[i]
  BY <1>1, <1>3 DEF TypeOK
<1>6. /\ j \notin Items(Contents) \cup Items(output_queue)
      /\ \A k \in Tasks : held[k] # j
  BY <1>1, <1>3, Zenon DEF PlaceInv
<1>7. Contents' = Append(Contents, j)
  BY <1>1, <1>2, <1>3, QueueContents DEF PlaceInv
<1>8. /\ Contents' \in Seq(Jobs) /\ Items(Contents') = Items(Contents) \cup {j}
      /\ Distinct(Contents')
  BY <1>3, <1>6, <1>7, AppendFacts DEF PlaceInv
<1>9. TypeOK'
  <2>1. input_queue' \in [0..(Capacity - 1) -> Jobs \cup {None}]
    BY <1>1, <1>3 DEF TypeOK
  <2>2. input_queue_length' \in 0..Capacity
    BY <1>2, <1>3, CapacityAssumption DEF TypeOK, IsQueueAvailable
  <2>3. job' \in [Jobs -> JobInfo \cup {None}]
    BY <1>1, <1>3, <1>4 DEF TypeOK
  <2>4. tiering' \in [Functions ->
          [BOOLEAN -> {"none", "request", "request_sync", "in_progress"}]]
    BY <1>2, <1>3, SetTieringState
  <2>5. todo' \in Seq(MainSteps)
    BY <1>2 DEF MainSteps
  <2>6. hasjobs' \in BOOLEAN
    BY <1>2
  <2>7. QED
    BY <1>2, <1>3, <2>1, <2>2, <2>3, <2>4, <2>5, <2>6, Zenon DEF TypeOK, tasks
<1>10. /\ UNCHANGED <<ActiveTasks, TasksBeforeInput, held, task, ref_count>>
  BY <1>2 DEF ActiveTasks, TasksBeforeInput, tasks
<1>11. CountInv'
  <2>1. /\ input_queue_length \in Nat /\ Cardinality(TasksBeforeInput) \in Nat
    BY <1>3, TaskSets, CapacityAssumption DEF TypeOK
  <2>2. <<>> # <<"Post">>
    OBVIOUS
  <2>3. input_queue_length' <= Cardinality(TasksBeforeInput') + 1
    BY <1>2, <1>3, <1>10, <2>1, <2>2 DEF CountInv
  <2>4. QED
    BY <1>2, <1>3, <1>10, <2>3 DEF CountInv
<1>12. PlaceInv'
  <2>1. UNCHANGED <<Items(output_queue), Distinct(output_queue), held>>
    BY <1>2, <1>10 DEF Items, Distinct
  <2>2. Items(Contents') \cap Items(output_queue') = {}
    BY <1>3, <1>6, <1>8, <2>1 DEF PlaceInv
  <2>3. \A k \in Tasks : held'[k] \notin Items(Contents') \cup Items(output_queue')
    <3>1. \A k \in Tasks : held[k] \notin Items(Contents) \cup Items(output_queue)
      BY <1>3 DEF PlaceInv
    <3>2. QED
      BY <3>1, <1>6, <1>8, <2>1
  <2>4. ASSUME NEW i \in Jobs
        PROVE  job'[i] # None <=> \/ i \in Items(Contents') \cup Items(output_queue')
                                  \/ \E k \in Tasks : held'[k] = i
    <3>1. job[i] # None <=> \/ i \in Items(Contents) \cup Items(output_queue)
                            \/ \E k \in Tasks : held[k] = i
      BY <1>3, Zenon DEF PlaceInv
    <3>2. QED
      BY <1>4, <1>5, <1>8, <2>1, <3>1, Zenon
  <2>5. \A k, l \in Tasks : held'[k] = held'[l] /\ held'[k] # None => k = l
    BY <1>3, <2>1, Zenon DEF PlaceInv
  <2>6. QED
    BY <1>3, <1>8, <2>1, <2>2, <2>3, <2>4, <2>5, Zenon DEF PlaceInv
<1>13. PlanInv'
  <2>1. <<"Post">> # <<>> /\ <<"Post">> # <<"CancelAndWait">>
    OBVIOUS
  <2>2. QED
    BY <1>2, <2>1, PlanSets, PlanDifferences DEF PlanInv
<1>14. HasJobsInv'
  BY <1>2 DEF HasJobsInv
<1>15. AnnouncedInv'
  BY <1>2, <1>3, <1>10, PlanDifferences DEF AnnouncedInv
<1>16. InProgressHasJob'
  <2>1. SUFFICES ASSUME NEW g \in Functions, NEW o \in BOOLEAN,
                        tiering'[g][o] = "in_progress"
                 PROVE  \E i \in Jobs : job'[i] # None /\ job'[i] = [fn |-> g, osr |-> o]
    BY Zenon DEF InProgressHasJob, LiveJobs
  <2>2. CASE g = f /\ o = osr
    BY <1>4, <1>5, <2>2 DEF info
  <2>3. CASE ~(g = f /\ o = osr)
    <3>1. tiering[g][o] = "in_progress"
      BY <1>2, <1>3, <2>1, <2>3, SetTieringState
    <3>2. PICK i \in Jobs : job[i] # None /\ job[i] = [fn |-> g, osr |-> o]
      BY <1>3, <3>1, Zenon DEF InProgressHasJob, LiveJobs
    <3>3. QED
      BY <1>1, <1>5, <3>2, Zenon
  <2>4. QED
    BY <2>2, <2>3
<1>17. QED
  BY <1>9, <1>11, <1>12, <1>13, <1>14, <1>15, <1>16 DEF DispatcherProofInv

LEMMA CompileOptimizedPreserves ==
  ASSUME DispatcherProofInv, NEW f \in Functions, CompileOptimized(f)
  PROVE  DispatcherProofInv'
<1>1. CASE Queue(f, FALSE)
  BY <1>1, QueuePreserves DEF CompileOptimized
<1>2. CASE /\ tiering' = [tiering EXCEPT ![f][FALSE] = "none"]
           /\ UNCHANGED <<queue, output_queue, tasks, job, available, install,
                          finalize, todo, hasjobs, dispatcher>>
  <2>1. TypeOK /\ InProgressHasJob
    BY DEF DispatcherProofInv
  <2>2. CountInv' /\ PlaceInv' /\ PlanInv' /\ HasJobsInv' /\ AnnouncedInv'
    BY <1>2, FunctionFrame
  <2>3. tiering' \in [Functions ->
          [BOOLEAN -> {"none", "request", "request_sync", "in_progress"}]]
    BY <1>2, <2>1, SetTieringState
  <2>4. TypeOK'
    BY <1>2, <2>1, <2>3, Zenon DEF TypeOK, queue, tasks
  <2>5. \A g \in Functions, osr \in BOOLEAN :
          tiering'[g][osr] = "in_progress" => tiering[g][osr] = "in_progress"
    BY <1>2, <2>1, SetTieringState
  <2>6. QED
    BY <1>2, <2>1, <2>2, <2>4, <2>5, ProgressFrame DEF DispatcherProofInv
<1>3. QED
  BY <1>1, <1>2 DEF CompileOptimized

LEMMA CompileOptimizedOSRPreserves ==
  ASSUME DispatcherProofInv, NEW f \in Functions, CompileOptimizedOSR(f)
  PROVE  DispatcherProofInv'
BY QueuePreserves DEF CompileOptimizedOSR

\* The main thread goes on, or begins a call: nothing but its plan, what
\* HasJobs says and the interrupt are touched.
LEMMA PlanFrame ==
  ASSUME DispatcherProofInv, todo # <<"Post">>, todo' \in Plans, todo' # <<"Post">>,
         UNCHANGED <<queue, output_queue, tasks, job, functions>>
  PROVE  /\ CountInv' /\ PlaceInv' /\ InProgressHasJob'
         /\ install' \in BOOLEAN /\ finalize' \in BOOLEAN /\ hasjobs' \in BOOLEAN
              /\ dispatcher' \in {"alive", "deleted", "canceled"} => TypeOK'
         /\ UNCHANGED <<NoTasks, LiveJobs, input_queue_length, task, output_queue>>
<1>1. TypeOK /\ CountInv /\ PlaceInv /\ InProgressHasJob
  BY DEF DispatcherProofInv
<1>2. UNCHANGED <<input_queue_length, task, held, ref_count, tiering, available, job, output_queue>>
  BY SameContents DEF tasks, functions
<1>3. CountInv' /\ UNCHANGED NoTasks
  BY <1>1, <1>2, CountFrame
<1>4. PlaceInv' /\ UNCHANGED LiveJobs
  BY <1>1, <1>2, PlaceFrame
<1>5. InProgressHasJob'
  BY <1>1, <1>2, ProgressFrame
<1>6. ASSUME install' \in BOOLEAN, finalize' \in BOOLEAN, hasjobs' \in BOOLEAN,
             dispatcher' \in {"alive", "deleted", "canceled"}
      PROVE  TypeOK'
  <2>1. todo' \in Seq(MainSteps)
    BY PlanSteps
  <2>2. QED
    BY <1>1, <1>2, <1>6, <2>1, Zenon DEF TypeOK, queue
<1>7. QED
  BY <1>2, <1>3, <1>4, <1>5, <1>6

\* A call begins.
LEMMA CallFrame ==
  ASSUME DispatcherProofInv, Idle, todo' \in Plans \ (Awaited \cup Emptied),
         todo' # <<"Post">>, install' \in BOOLEAN, hasjobs' \in BOOLEAN,
         UNCHANGED <<queue, output_queue, tasks, job, functions, finalize, dispatcher>>,
         todo' \in Fetching \/ UNCHANGED install,
         todo' = <<"HasJobs1", "HasJobs2">> \/ UNCHANGED hasjobs
  PROVE  DispatcherProofInv'
<1>1. TypeOK /\ PlanInv /\ HasJobsInv /\ AnnouncedInv /\ todo = <<>> /\ dispatcher = "alive"
  BY DEF DispatcherProofInv, Idle
<1>2. <<>> # <<"Post">> /\ <<>> # <<"HasJobs1", "HasJobs2">> /\ <<>> # <<"HasJobs2">>
  OBVIOUS
<1>3. /\ CountInv' /\ PlaceInv' /\ InProgressHasJob' /\ TypeOK'
      /\ UNCHANGED <<NoTasks, LiveJobs, input_queue_length, task, output_queue>>
  <2>1. finalize' \in BOOLEAN /\ dispatcher' \in {"alive", "deleted", "canceled"}
    BY <1>1 DEF TypeOK
  <2>2. QED
    BY <1>1, <1>2, <2>1, PlanFrame
<1>4. PlanInv'
  <2>1. todo' # <<"CancelAndWait">>
    BY PlanSets
  <2>2. QED
    BY <1>1, <2>1 DEF PlanInv
<1>5. HasJobsInv'
  BY <1>1, <1>2, <1>3 DEF HasJobsInv
<1>6. AnnouncedInv'
  BY <1>1, <1>3, PlanDifferences DEF AnnouncedInv
<1>7. QED
  BY <1>3, <1>4, <1>5, <1>6 DEF DispatcherProofInv

LEMMA CallPreserves ==
  ASSUME DispatcherProofInv, Call \/ CallHasJobs \/ HandleInterrupts \/ Deinit
  PROVE  DispatcherProofInv'
<1>1. TypeOK
  BY DEF DispatcherProofInv
<1>2. /\ <<"HasJobs1", "HasJobs2">> # <<"Post">> /\ <<"Await">> # <<"Post">>
      /\ <<"Post">> \notin Fetching
  BY PlanDifferences
<1>3. CASE Call
  <2>1. todo' \in (Fetching \ Awaited) \cup {<<"Await">>}
    <3>1. /\ FlushCalls \subseteq Fetching \ Awaited
      BY DEF FlushCalls, Fetching, Awaited
    <3>2. TestCalls \subseteq (Fetching \ Awaited) \cup {<<"Await">>}
      BY DEF TestCalls, Fetching, Awaited
    <3>3. QED
      BY <1>3, <3>1, <3>2 DEF Call
  <2>2. todo' \in Plans \ (Awaited \cup Emptied) /\ todo' # <<"Post">>
    BY <1>2, <2>1, PlanSets, PlanDifferences
  <2>3. /\ Idle /\ UNCHANGED <<queue, output_queue, tasks, job, functions, finalize, dispatcher>>
        /\ UNCHANGED <<install, hasjobs>>
    BY <1>3 DEF Call
  <2>4. install' \in BOOLEAN /\ hasjobs' \in BOOLEAN
    BY <1>1, <2>3 DEF TypeOK
  <2>5. QED
    BY <2>2, <2>3, <2>4, CallFrame
<1>4. CASE CallHasJobs
  <2>1. todo' \in Plans \ (Awaited \cup Emptied) /\ todo' # <<"Post">>
    BY <1>2, <1>4, PlanSets, PlanDifferences DEF CallHasJobs
  <2>2. /\ Idle /\ UNCHANGED <<queue, output_queue, tasks, job, functions, finalize, dispatcher>>
        /\ UNCHANGED install /\ todo' = <<"HasJobs1", "HasJobs2">> /\ hasjobs' = FALSE
    BY <1>4 DEF CallHasJobs
  <2>3. install' \in BOOLEAN /\ hasjobs' \in BOOLEAN
    BY <1>1, <2>2 DEF TypeOK
  <2>4. QED
    BY <2>1, <2>2, <2>3, CallFrame
<1>5. CASE HandleInterrupts
  <2>1. /\ Idle /\ UNCHANGED <<queue, output_queue, tasks, job, functions, finalize, dispatcher>>
        /\ UNCHANGED hasjobs /\ todo' = <<"Install">> /\ install' = FALSE
    BY <1>5 DEF HandleInterrupts
  <2>2. todo' \in Plans \ (Awaited \cup Emptied) /\ todo' # <<"Post">> /\ todo' \in Fetching
    BY <1>2, <2>1, PlanSets
  <2>3. install' \in BOOLEAN /\ hasjobs' \in BOOLEAN
    BY <1>1, <2>1 DEF TypeOK
  <2>4. QED
    BY <2>1, <2>2, <2>3, CallFrame
<1>6. CASE Deinit
  <2>1. /\ Idle /\ UNCHANGED <<queue, output_queue, tasks, job, functions, finalize, dispatcher>>
        /\ UNCHANGED <<hasjobs, install>>
    BY <1>6 DEF Deinit
  <2>2. todo' \in Fetching \ Awaited
    BY <1>6 DEF Deinit, Fetching, Awaited
  <2>3. todo' \in Plans \ (Awaited \cup Emptied) /\ todo' # <<"Post">>
    BY <1>2, <2>2, PlanSets, PlanDifferences
  <2>4. install' \in BOOLEAN /\ hasjobs' \in BOOLEAN
    BY <1>1, <2>1 DEF TypeOK
  <2>5. QED
    BY <2>1, <2>3, <2>4, CallFrame
<1>7. QED
  BY <1>3, <1>4, <1>5, <1>6

-----------------------------------------------------------------------------
(* The steps of the main thread's calls. *)

\* What is known at each step of a call, and what is left of it afterwards.
LEMMA NextOfPlan ==
  ASSUME DispatcherProofInv, todo # <<>>
  PROVE  /\ Head(todo) = "Post" => todo = <<"Post">> /\ Tail(todo) = <<>>
         /\ Head(todo) = "FlushInput" =>
              todo \in Fetching /\ Tail(todo) \in Fetching \ (Awaited \cup Emptied)
         /\ Head(todo) = "Await" =>
              \/ todo = <<"Await">> /\ Tail(todo) = <<>>
              \/ todo \in Fetching /\ Tail(todo) \in Fetching
         /\ Head(todo) \in {"FlushOutput", "DropOutput", "Install"} =>
              /\ todo \in Fetching
              /\ Tail(todo) = <<>> \/ (Tail(todo) \in Emptied \ {<<"CancelAndWait">>} /\ todo \in Awaited)
         /\ Head(todo) = "ClearInstallCode" => todo \in Emptied /\ Tail(todo) = <<"UnsetFinalize">>
         /\ Head(todo) \in {"SetFinalize", "UnsetFinalize"} => todo \in Emptied /\ Tail(todo) = <<>>
         /\ Head(todo) = "HasJobs1" => todo = <<"HasJobs1", "HasJobs2">> /\ Tail(todo) = <<"HasJobs2">>
         /\ Head(todo) = "HasJobs2" => todo = <<"HasJobs2">> /\ Tail(todo) = <<>>
         /\ Head(todo) = "Delete" => todo \in Emptied /\ Tail(todo) = <<"CancelAndWait">>
         /\ Head(todo) = "CancelAndWait" <=> todo = <<"CancelAndWait">>
         /\ Head(todo) = "CancelAndWait" => Tail(todo) = <<>>
<1>1. todo \in Plans
  BY DEF DispatcherProofInv, PlanInv
<1>2. /\ <<"SetFinalize">> # <<"CancelAndWait">>
      /\ <<"ClearInstallCode", "UnsetFinalize">> # <<"CancelAndWait">>
      /\ <<"Delete", "CancelAndWait">> # <<"CancelAndWait">>
      /\ Head(<<"CancelAndWait">>) = "CancelAndWait"
  OBVIOUS
<1>3. Head(todo) = "Post" => todo = <<"Post">> /\ Tail(todo) = <<>>
  BY <1>1, PlanTable
<1>4. Head(todo) = "FlushInput" =>
        todo \in Fetching /\ Tail(todo) \in Fetching \ (Awaited \cup Emptied)
  BY <1>1, PlanTable, PlanSets
<1>5. Head(todo) = "Await" => \/ todo = <<"Await">> /\ Tail(todo) = <<>>
                              \/ todo \in Fetching /\ Tail(todo) \in Fetching
  BY <1>1, PlanTable, PlanSets
<1>6. Head(todo) \in {"FlushOutput", "DropOutput", "Install"} =>
        /\ todo \in Fetching
        /\ Tail(todo) = <<>> \/ (Tail(todo) \in Emptied \ {<<"CancelAndWait">>} /\ todo \in Awaited)
  BY <1>1, <1>2, PlanTable, PlanSets
<1>7. /\ Head(todo) = "ClearInstallCode" => todo \in Emptied /\ Tail(todo) = <<"UnsetFinalize">>
      /\ Head(todo) \in {"SetFinalize", "UnsetFinalize"} => todo \in Emptied /\ Tail(todo) = <<>>
      /\ Head(todo) = "Delete" => todo \in Emptied /\ Tail(todo) = <<"CancelAndWait">>
  BY <1>1, PlanTable
<1>8. /\ Head(todo) = "HasJobs1" => todo = <<"HasJobs1", "HasJobs2">> /\ Tail(todo) = <<"HasJobs2">>
      /\ Head(todo) = "HasJobs2" => todo = <<"HasJobs2">> /\ Tail(todo) = <<>>
      /\ Head(todo) = "CancelAndWait" => todo = <<"CancelAndWait">> /\ Tail(todo) = <<>>
  BY <1>1, PlanTable
<1>9. todo = <<"CancelAndWait">> => Head(todo) = "CancelAndWait"
  BY <1>2
<1>10. QED
  BY <1>3, <1>4, <1>5, <1>6, <1>7, <1>8, <1>9

LEMMA PostPreserves ==
  ASSUME DispatcherProofInv, Post
  PROVE  DispatcherProofInv'
<1>1. PICK k \in Tasks : task[k] = "none" /\ task' = [task EXCEPT ![k] = "posted"]
  BY DEF Post
<1>2. /\ todo = <<"Post">> /\ todo' = <<>> /\ ref_count' = ref_count + 1
      /\ UNCHANGED <<queue, output_queue, held, job, functions, install, finalize,
                     hasjobs, dispatcher>>
  BY NextOfPlan DEF Post, Does
<1>3. TypeOK /\ CountInv /\ PlaceInv /\ PlanInv /\ HasJobsInv /\ AnnouncedInv /\ InProgressHasJob
  BY DEF DispatcherProofInv
<1>4. /\ <<"Post">> # <<>> /\ <<"Post">> # <<"CancelAndWait">> /\ <<>> # <<"CancelAndWait">>
      /\ <<"Post">> # <<"HasJobs1", "HasJobs2">> /\ <<"Post">> # <<"HasJobs2">>
  OBVIOUS
<1>5. dispatcher = "alive"
  BY <1>2, <1>3, <1>4, AliveInCalls
<1>6. /\ ActiveTasks' = ActiveTasks \cup {k} /\ k \notin ActiveTasks
      /\ TasksBeforeInput' = TasksBeforeInput \cup {k} /\ k \notin TasksBeforeInput
      /\ \A l \in Tasks : task'[l] = IF l = k THEN "posted" ELSE task[l]
  <2>1. /\ "posted" # "none" /\ "posted" \in {"posted", "next"}
        /\ task[k] \notin {"posted", "next"}
    BY <1>1
  <2>2. QED
    BY <1>1, <1>3, <2>1, TaskMoves, Zenon
<1>7. /\ Cardinality(ActiveTasks') = Cardinality(ActiveTasks) + 1
      /\ Cardinality(TasksBeforeInput') = Cardinality(TasksBeforeInput) + 1
  BY <1>3, <1>6, TaskSets, FS_AddElement
<1>8. TypeOK'
  <2>1. /\ ref_count' \in Nat /\ todo' \in Seq(MainSteps)
    BY <1>2, <1>3 DEF TypeOK
  <2>2. task' \in [Tasks -> {"none", "posted", "next", "compile", "request", "leave"}]
    BY <1>1, <1>3 DEF TypeOK
  <2>3. QED
    BY <1>2, <1>3, <2>1, <2>2, Zenon DEF TypeOK, queue, functions
<1>9. CountInv'
  <2>1. UNCHANGED input_queue_length
    BY <1>2 DEF queue
  <2>2. \A l \in Tasks : held'[l] # None <=> task'[l] = "compile"
    BY <1>1, <1>2, <1>3, <1>6 DEF CountInv
  <2>3. /\ input_queue_length' <= Cardinality(TasksBeforeInput') + 0
        /\ ref_count' = Cardinality(ActiveTasks')
    BY <1>2, <1>3, <1>7, <2>1, TaskSets DEF CountInv
  <2>4. QED
    BY <1>2, <1>4, <2>2, <2>3 DEF CountInv
<1>10. PlaceInv' /\ UNCHANGED LiveJobs
  BY <1>2, <1>3, PlaceFrame
<1>11. PlanInv'
  BY <1>2, <1>4, <1>5, PlanSets, PlanDifferences DEF PlanInv
<1>12. HasJobsInv'
  BY <1>2, <1>3, <1>4, <1>10 DEF HasJobsInv
<1>13. AnnouncedInv'
  BY <1>1, <1>2, <1>3, <1>6, PlanDifferences DEF AnnouncedInv
<1>14. InProgressHasJob'
  BY <1>2, <1>3, ProgressFrame DEF functions
<1>15. QED
  BY <1>8, <1>9, <1>10, <1>11, <1>12, <1>13, <1>14 DEF DispatcherProofInv

LEMMA AwaitPreserves ==
  ASSUME DispatcherProofInv, AwaitCompileTasks
  PROVE  DispatcherProofInv'
<1>1. /\ ref_count = 0 /\ todo' = Tail(todo) /\ todo # <<>> /\ Head(todo) = "Await"
      /\ UNCHANGED <<queue, output_queue, tasks, job, functions, install, finalize,
                     hasjobs, dispatcher>>
  BY DEF AwaitCompileTasks, Does
<1>2. \/ todo = <<"Await">> /\ todo' = <<>>
      \/ todo \in Fetching /\ todo' \in Fetching
  BY <1>1, NextOfPlan
<1>3. TypeOK /\ CountInv /\ PlanInv /\ HasJobsInv /\ AnnouncedInv
  BY DEF DispatcherProofInv
<1>4. /\ todo # <<"Post">> /\ todo' # <<"Post">> /\ todo # <<"CancelAndWait">> /\ todo' # <<"CancelAndWait">>
      /\ todo # <<"HasJobs1", "HasJobs2">> /\ todo # <<"HasJobs2">>
      /\ todo' \in Plans /\ todo' \notin Emptied
  <2>1. /\ <<"Await">> # <<"Post">> /\ <<>> # <<"Post">> /\ <<"Await">> # <<"HasJobs2">>
        /\ <<"Await">> # <<"CancelAndWait">> /\ <<>> # <<"CancelAndWait">>
        /\ <<"Await">> # <<"HasJobs1", "HasJobs2">>
    OBVIOUS
  <2>2. /\ <<"Post">> \notin Fetching /\ <<"CancelAndWait">> \notin Fetching /\ <<"HasJobs2">> \notin Fetching
        /\ <<"HasJobs1", "HasJobs2">> \notin Fetching /\ <<>> \in Plans /\ Fetching \subseteq Plans
        /\ Fetching \cap Emptied = {} /\ <<>> \notin Emptied
    BY PlanDifferences, PlanSets
  <2>3. QED
    BY <1>2, <2>1, <2>2, Zenon
<1>5. NoTasks /\ input_queue_length = 0 /\ dispatcher = "alive"
  BY <1>1, <1>3, <1>4, NoneLeft, AliveInCalls
<1>6. /\ CountInv' /\ PlaceInv' /\ InProgressHasJob' /\ TypeOK'
      /\ UNCHANGED <<NoTasks, LiveJobs, input_queue_length, task, output_queue>>
  <2>1. /\ finalize' \in BOOLEAN /\ dispatcher' \in {"alive", "deleted", "canceled"}
        /\ install' \in BOOLEAN /\ hasjobs' \in BOOLEAN
    BY <1>1, <1>3 DEF TypeOK
  <2>2. QED
    BY <1>1, <1>4, <2>1, PlanFrame
<1>7. PlanInv'
  BY <1>1, <1>4, <1>5, <1>6 DEF PlanInv
<1>8. HasJobsInv'
  BY <1>1, <1>3, <1>4, <1>6 DEF HasJobsInv
<1>9. AnnouncedInv'
  <2>1. todo \in Fetching => todo' \in Fetching
    BY <1>2, PlanDifferences
  <2>2. QED
    BY <1>1, <1>3, <1>6, <2>1 DEF AnnouncedInv
<1>10. QED
  BY <1>6, <1>7, <1>8, <1>9 DEF DispatcherProofInv

\* Steps of calls that have emptied the dispatcher.
LEMMA EmptiedFrame ==
  ASSUME DispatcherProofInv, todo \in Emptied, todo # <<"CancelAndWait">>,
         todo' \in Plans, todo' # <<"Post">>,
         install' \in BOOLEAN, finalize' \in BOOLEAN,
         UNCHANGED <<queue, output_queue, tasks, job, functions, hasjobs>>,
         \/ UNCHANGED dispatcher /\ todo' # <<"CancelAndWait">>
         \/ dispatcher' = "deleted" /\ todo' = <<"CancelAndWait">>
  PROVE  DispatcherProofInv'
<1>1. TypeOK /\ CountInv /\ PlaceInv /\ PlanInv
  BY DEF DispatcherProofInv
<1>2. NoTasks /\ input_queue_length = 0 /\ output_queue = <<>>
  BY <1>1 DEF PlanInv
<1>3. todo # <<>> /\ todo # <<"Post">>
  BY PlanDifferences
<1>4. dispatcher = "alive" /\ LiveJobs = {}
  BY <1>1, <1>2, <1>3, AliveInCalls, NoJobsLeft
<1>5. /\ CountInv' /\ PlaceInv' /\ InProgressHasJob' /\ TypeOK'
      /\ UNCHANGED <<NoTasks, LiveJobs, input_queue_length, task, output_queue>>
  <2>1. /\ dispatcher' \in {"alive", "deleted", "canceled"} /\ hasjobs' \in BOOLEAN
    BY <1>1, <1>4 DEF TypeOK
  <2>2. QED
    BY <1>3, <2>1, PlanFrame
<1>6. PlanInv'
  BY <1>2, <1>4, <1>5 DEF PlanInv
<1>7. HasJobsInv' /\ AnnouncedInv'
  BY <1>2, <1>4, <1>5 DEF HasJobsInv, AnnouncedInv
<1>8. QED
  BY <1>5, <1>6, <1>7 DEF DispatcherProofInv

LEMMA EmptiedPreserves ==
  ASSUME DispatcherProofInv, ClearInstallCode \/ SetFinalize \/ DeleteDispatcher
  PROVE  DispatcherProofInv'
<1>1. TypeOK
  BY DEF DispatcherProofInv
<1>2. /\ <<"UnsetFinalize">> # <<"Post">> /\ <<>> # <<"Post">> /\ <<"CancelAndWait">> # <<"Post">>
      /\ <<"UnsetFinalize">> # <<"CancelAndWait">> /\ <<>> # <<"CancelAndWait">>
  OBVIOUS
<1>3. CASE ClearInstallCode
  <2>1. /\ todo \in Emptied /\ todo' = <<"UnsetFinalize">> /\ todo # <<"CancelAndWait">>
        /\ install' = FALSE /\ UNCHANGED <<queue, output_queue, tasks, job, functions, finalize, hasjobs, dispatcher>>
    BY <1>3, NextOfPlan DEF ClearInstallCode, Does
  <2>2. todo' \in Plans /\ todo' # <<"Post">> /\ todo' # <<"CancelAndWait">>
    BY <1>2, <2>1, PlanSets
  <2>3. install' \in BOOLEAN /\ finalize' \in BOOLEAN
    BY <1>1, <2>1 DEF TypeOK
  <2>4. QED
    BY <2>1, <2>2, <2>3, EmptiedFrame
<1>4. CASE SetFinalize
  <2>1. /\ todo \in Emptied /\ todo' = <<>> /\ todo # <<"CancelAndWait">>
        /\ UNCHANGED <<queue, output_queue, tasks, job, functions, install, hasjobs, dispatcher>>
    BY <1>4, NextOfPlan DEF SetFinalize, Does
  <2>2. todo' \in Plans /\ todo' # <<"Post">> /\ todo' # <<"CancelAndWait">>
    BY <1>2, <2>1, PlanSets
  <2>3. install' \in BOOLEAN
    BY <1>1, <2>1 DEF TypeOK
  <2>4. finalize' \in BOOLEAN
    BY <1>4, Zenon DEF SetFinalize, Does
  <2>5. QED
    BY <2>1, <2>2, <2>3, <2>4, EmptiedFrame
<1>5. CASE DeleteDispatcher
  <2>1. /\ todo \in Emptied /\ todo' = <<"CancelAndWait">> /\ todo # <<"CancelAndWait">>
        /\ dispatcher' = "deleted"
        /\ UNCHANGED <<queue, output_queue, tasks, job, functions, install, finalize, hasjobs>>
    BY <1>5, NextOfPlan DEF DeleteDispatcher, Does
  <2>2. todo' \in Plans /\ todo' # <<"Post">>
    BY <1>2, <2>1, PlanSets
  <2>3. install' \in BOOLEAN /\ finalize' \in BOOLEAN
    BY <1>1, <2>1 DEF TypeOK
  <2>4. QED
    BY <2>1, <2>2, <2>3, EmptiedFrame
<1>6. QED
  BY <1>3, <1>4, <1>5

\* HasJobs reads the count before the output queue: when it has seen no task,
\* what a task finished before is in the output queue still.
LEMMA HasJobsPreserves ==
  ASSUME DispatcherProofInv, HasJobsRefCount \/ HasJobsOutputQueue
  PROVE  DispatcherProofInv'
<1>1. TypeOK /\ CountInv /\ PlaceInv /\ PlanInv /\ HasJobsInv /\ AnnouncedInv
  BY DEF DispatcherProofInv
<1>2. /\ \/ todo = <<"HasJobs1", "HasJobs2">> /\ todo' = <<"HasJobs2">>
         \/ todo = <<"HasJobs2">> /\ todo' = <<>>
      /\ UNCHANGED <<queue, output_queue, tasks, job, functions, install, finalize, dispatcher>>
  BY NextOfPlan DEF HasJobsRefCount, HasJobsOutputQueue, Does
<1>3. /\ <<"HasJobs1", "HasJobs2">> # <<"Post">> /\ <<"HasJobs2">> # <<"Post">> /\ <<>> # <<"Post">>
      /\ <<"HasJobs1", "HasJobs2">> # <<>> /\ <<"HasJobs2">> # <<>>
      /\ <<"HasJobs1", "HasJobs2">> # <<"CancelAndWait">> /\ <<"HasJobs2">> # <<"CancelAndWait">>
      /\ <<"HasJobs2">> # <<"HasJobs1", "HasJobs2">> /\ <<>> # <<"CancelAndWait">>
  OBVIOUS
<1>4. /\ todo # <<"Post">> /\ todo' # <<"Post">> /\ todo # <<>> /\ todo # <<"CancelAndWait">>
      /\ todo' # <<"CancelAndWait">>
  BY <1>2, <1>3
<1>5. todo' \in Plans \ (Fetching \cup Emptied) /\ todo \notin Fetching
  BY <1>2, PlanSets, PlanDifferences
<1>6. dispatcher = "alive"
  BY <1>1, <1>4, AliveInCalls
<1>7. /\ CountInv' /\ PlaceInv' /\ InProgressHasJob' /\ TypeOK'
      /\ UNCHANGED <<NoTasks, LiveJobs, input_queue_length, task, output_queue>>
  <2>1. /\ finalize' \in BOOLEAN /\ dispatcher' \in {"alive", "deleted", "canceled"}
        /\ install' \in BOOLEAN
    BY <1>1, <1>2 DEF TypeOK
  <2>2. hasjobs' \in BOOLEAN
    BY Zenon DEF HasJobsRefCount, HasJobsOutputQueue
  <2>3. QED
    BY <1>2, <1>4, <1>5, <2>1, <2>2, PlanFrame
<1>8. PlanInv'
  BY <1>2, <1>4, <1>5, <1>6, PlanSets DEF PlanInv
<1>9. AnnouncedInv'
  BY <1>1, <1>2, <1>5, <1>7 DEF AnnouncedInv
<1>10. HasJobsInv'
  <2>1. SUFFICES ASSUME ~hasjobs' PROVE HasJobsInv'
    BY DEF HasJobsInv
  <2>2. CASE HasJobsRefCount
    <3>1. ~hasjobs /\ ref_count = 0 /\ todo' = <<"HasJobs2">>
      BY <2>1, <2>2, NextOfPlan DEF HasJobsRefCount, Does
    <3>2. NoTasks /\ input_queue_length = 0
      BY <1>1, <1>4, <3>1, NoneLeft
    <3>3. QED
      BY <1>7, <3>1, <3>2 DEF HasJobsInv
  <2>3. CASE HasJobsOutputQueue
    <3>1. ~hasjobs /\ output_queue = <<>> /\ todo = <<"HasJobs2">>
      BY <2>1, <2>3, NextOfPlan DEF HasJobsOutputQueue, Does
    <3>2. CASE NoTasks /\ input_queue_length = 0
      BY <1>1, <1>7, <3>1, <3>2, NoJobsLeft DEF HasJobsInv
    <3>3. CASE LiveJobs = {}
      BY <1>7, <3>3 DEF HasJobsInv
    <3>4. QED
      BY <1>1, <1>3, <3>1, <3>2, <3>3 DEF HasJobsInv
  <2>4. QED
    BY <2>2, <2>3
<1>11. QED
  BY <1>7, <1>8, <1>9, <1>10 DEF DispatcherProofInv

LEMMA CancelAndWaitPreserves ==
  ASSUME DispatcherProofInv, CancelAndWait
  PROVE  DispatcherProofInv'
<1>1. TypeOK /\ CountInv /\ PlaceInv /\ PlanInv
  BY DEF DispatcherProofInv
<1>2. /\ todo = <<"CancelAndWait">> /\ todo' = <<>> /\ task' = [k \in Tasks |-> "none"]
      /\ UNCHANGED <<queue, output_queue, held, ref_count, job, functions, install,
                     finalize, hasjobs>>
  BY NextOfPlan DEF CancelAndWait, Does
<1>3. /\ NoTasks /\ input_queue_length = 0 /\ output_queue = <<>> /\ dispatcher = "deleted"
  BY <1>1, <1>2, PlanSets DEF PlanInv
<1>4. UNCHANGED task
  BY <1>1, <1>2, <1>3 DEF NoTasks, TypeOK
<1>5. dispatcher' = "canceled" /\ LiveJobs = {}
  BY <1>1, <1>3, NoJobsLeft DEF CancelAndWait
<1>6. <<>> # <<"CancelAndWait">> /\ <<>> # <<"Post">> /\ <<"CancelAndWait">> # <<"Post">>
  OBVIOUS
<1>7. /\ CountInv' /\ PlaceInv' /\ InProgressHasJob' /\ TypeOK'
      /\ UNCHANGED <<NoTasks, LiveJobs, input_queue_length, task, output_queue>>
  <2>1. /\ finalize' \in BOOLEAN /\ dispatcher' \in {"alive", "deleted", "canceled"}
        /\ install' \in BOOLEAN /\ hasjobs' \in BOOLEAN
    BY <1>1, <1>2, <1>5 DEF TypeOK
  <2>2. todo # <<"Post">> /\ todo' \in Plans /\ todo' # <<"Post">>
    BY <1>2, <1>6, PlanSets
  <2>3. UNCHANGED tasks
    BY <1>2, <1>4 DEF tasks
  <2>4. QED
    BY <1>2, <2>1, <2>2, <2>3, PlanFrame
<1>8. PlanInv'
  BY <1>2, <1>3, <1>5, <1>6, <1>7, PlanSets DEF PlanInv
<1>9. HasJobsInv' /\ AnnouncedInv'
  BY <1>3, <1>5, <1>7 DEF HasJobsInv, AnnouncedInv
<1>10. QED
  BY <1>7, <1>8, <1>9 DEF DispatcherProofInv

\* Jobs are deleted: every tiering state that one of them would have reset is
\* reset, whichever other job there is for it.
LEMMA DeletedJobs ==
  ASSUME TypeOK, InProgressHasJob, NEW js, js \subseteq Jobs, ResetTieringStates(js),
         \A j \in Jobs : job'[j] = IF j \in js THEN None ELSE job[j]
  PROVE  /\ tiering' \in [Functions ->
              [BOOLEAN -> {"none", "request", "request_sync", "in_progress"}]]
         /\ InProgressHasJob' /\ LiveJobs' = LiveJobs \ js
<1>1. tiering \in [Functions -> [BOOLEAN -> {"none", "request", "request_sync", "in_progress"}]]
  BY DEF TypeOK
<1>2. tiering' \in [Functions ->
        [BOOLEAN -> {"none", "request", "request_sync", "in_progress"}]]
  <2>1. \A f \in Functions, osr \in BOOLEAN :
          (IF \E j \in js : job[j] = [fn |-> f, osr |-> osr] THEN "none" ELSE tiering[f][osr])
             \in {"none", "request", "request_sync", "in_progress"}
    BY <1>1
  <2>2. QED
    BY <2>1, Zenon DEF ResetTieringStates
<1>3. \A f \in Functions, osr \in BOOLEAN :
        tiering'[f][osr] = IF \E j \in js : job[j] = [fn |-> f, osr |-> osr]
                           THEN "none" ELSE tiering[f][osr]
  BY Zenon DEF ResetTieringStates
<1>4. LiveJobs' = LiveJobs \ js
  BY Zenon DEF LiveJobs
<1>5. InProgressHasJob'
  <2>1. SUFFICES ASSUME NEW f \in Functions, NEW osr \in BOOLEAN,
                        tiering'[f][osr] = "in_progress"
                 PROVE  \E j \in LiveJobs' : job'[j] = [fn |-> f, osr |-> osr]
    BY Zenon DEF InProgressHasJob
  <2>2. "none" # "in_progress"
    OBVIOUS
  <2>3. /\ ~(\E j \in js : job[j] = [fn |-> f, osr |-> osr])
        /\ tiering[f][osr] = "in_progress"
    BY <1>3, <2>1, <2>2, Zenon
  <2>4. PICK j \in LiveJobs : job[j] = [fn |-> f, osr |-> osr]
    BY <2>3, Zenon DEF InProgressHasJob
  <2>5. j \in LiveJobs' /\ job'[j] = job[j]
    BY <1>4, <2>3, <2>4, Zenon DEF LiveJobs
  <2>6. QED
    BY <2>4, <2>5
<1>6. QED
  BY <1>2, <1>4, <1>5

LEMMA Disposed ==
  ASSUME TypeOK, NEW js, NEW restore,
         DisposeTurbofanCompilationJobs(js, restore)
  PROVE  /\ available' \in [Functions -> BOOLEAN] /\ job' \in [Jobs -> JobInfo \cup {None}]
         /\ ResetTieringStates(js)
         /\ \A j \in Jobs : job'[j] = IF j \in js THEN None ELSE job[j]
<1>1. PICK fs : available' = [f \in Functions |-> available[f] /\ f \notin fs]
  BY Zenon DEF DisposeTurbofanCompilationJobs
<1>2. \A f \in Functions : (available[f] /\ f \notin fs) \in BOOLEAN
  BY Zenon
<1>3. available' \in [Functions -> BOOLEAN]
  BY <1>1, <1>2, Zenon
<1>4. /\ job' = [j \in Jobs |-> IF j \in js THEN None ELSE job[j]] /\ ResetTieringStates(js)
  BY DEF DisposeTurbofanCompilationJobs
<1>5. job' \in [Jobs -> JobInfo \cup {None}]
  BY <1>4 DEF TypeOK
<1>6. QED
  BY <1>3, <1>4, <1>5, Zenon

LEMMA FlushInputPreserves ==
  ASSUME DispatcherProofInv, FlushInputQueue
  PROVE  DispatcherProofInv'
<1> DEFINE js == Items(Contents)
<1>1. /\ todo # <<>> /\ Head(todo) = "FlushInput" /\ todo' = Tail(todo)
      /\ DisposeTurbofanCompilationJobs(js, TRUE)
      /\ input_queue_shift' = InputQueueIndex(input_queue_length)
      /\ input_queue_length' = 0
      /\ UNCHANGED <<input_queue, output_queue, tasks, install, finalize, hasjobs, dispatcher>>
  BY DEF FlushInputQueue, Does, Items
<1>2. TypeOK /\ CountInv /\ PlaceInv /\ PlanInv /\ HasJobsInv /\ InProgressHasJob
  BY DEF DispatcherProofInv
<1>3. js \subseteq Jobs
  BY <1>2 DEF PlaceInv, Items
<1>4. js = Items(Contents)
  OBVIOUS
<1> HIDE DEF js
<1>5. /\ available' \in [Functions -> BOOLEAN] /\ job' \in [Jobs -> JobInfo \cup {None}]
      /\ \A j \in Jobs : job'[j] = IF j \in js THEN None ELSE job[j]
      /\ tiering' \in [Functions ->
           [BOOLEAN -> {"none", "request", "request_sync", "in_progress"}]]
      /\ InProgressHasJob' /\ LiveJobs' = LiveJobs \ js
  BY <1>1, <1>2, <1>3, Disposed, DeletedJobs
<1>6. todo \in Fetching /\ todo' \in Fetching \ (Awaited \cup Emptied)
  BY <1>1, NextOfPlan
<1>7. /\ todo # <<"CancelAndWait">> /\ todo' # <<"CancelAndWait">> /\ todo' \in Plans
      /\ todo # <<"HasJobs1", "HasJobs2">> /\ todo # <<"HasJobs2">>
  BY <1>6, PlanSets, PlanDifferences
<1>8. dispatcher = "alive"
  BY <1>1, <1>2, <1>7, AliveInCalls
<1>9. TypeOK'
  <2>1. input_queue_length \in 0..Capacity /\ input_queue_length' \in 0..Capacity
    BY <1>1, <1>2, CapacityAssumption DEF TypeOK
  <2>2. input_queue_shift' \in 0..(Capacity - 1)
    BY <1>1, <1>2, <2>1, RingIndex
  <2>3. todo' \in Seq(MainSteps)
    BY <1>7, PlanSteps
  <2>4. QED
    BY <1>1, <1>2, <1>5, <2>1, <2>2, <2>3, Zenon DEF TypeOK, tasks
<1>10. CountInv'
  <2>1. UNCHANGED <<task, held, ref_count, ActiveTasks, TasksBeforeInput>>
    BY <1>1 DEF tasks, ActiveTasks, TasksBeforeInput
  <2>2. input_queue_length' <= Cardinality(TasksBeforeInput') + (IF todo' = <<"Post">> THEN 1 ELSE 0)
    BY <1>1, <1>2, <2>1, TaskSets
  <2>3. QED
    BY <1>2, <2>1, <2>2 DEF CountInv
<1>11. PlaceInv'
  <2>1. Contents' = <<>> /\ Items(Contents') = {} /\ Distinct(Contents') /\ Contents' \in Seq(Jobs)
    BY <1>1, NoContents, EmptyFacts
  <2>2. UNCHANGED <<held, output_queue, Items(output_queue), Distinct(output_queue)>>
    BY <1>1 DEF tasks, Items, Distinct
  <2>3. ASSUME NEW j \in Jobs
        PROVE  job'[j] # None <=> \/ j \in Items(Contents') \cup Items(output_queue')
                                  \/ \E k \in Tasks : held'[k] = j
    <3>1. job[j] # None <=> \/ j \in Items(Contents) \cup Items(output_queue)
                            \/ \E k \in Tasks : held[k] = j
      BY <1>2, Zenon DEF PlaceInv
    <3>2. j \in js => j \notin Items(output_queue) /\ ~(\E k \in Tasks : held[k] = j)
      BY <1>2, <1>4 DEF PlaceInv
    <3>3. QED
      BY <1>4, <1>5, <2>1, <2>2, <3>1, <3>2, Zenon
  <2>4. \A k \in Tasks : held'[k] \notin Items(Contents') \cup Items(output_queue')
    BY <1>2, <2>1, <2>2 DEF PlaceInv
  <2>5. \A k, l \in Tasks : held'[k] = held'[l] /\ held'[k] # None => k = l
    BY <1>2, <2>2, Zenon DEF PlaceInv
  <2>6. QED
    BY <1>2, <2>1, <2>2, <2>3, <2>4, <2>5, Zenon DEF PlaceInv
<1>12. PlanInv'
  BY <1>1, <1>6, <1>7, <1>8 DEF PlanInv
<1>13. HasJobsInv'
  BY <1>1, <1>2, <1>5, <1>7 DEF HasJobsInv
<1>14. AnnouncedInv'
  BY <1>6 DEF AnnouncedInv
<1>15. QED
  BY <1>5, <1>9, <1>10, <1>11, <1>12, <1>13, <1>14 DEF DispatcherProofInv

\* One round over the output queue.
LEMMA CollectFrame ==
  ASSUME DispatcherProofInv, todo \in Fetching, output_queue # <<>>,
         output_queue' = Tail(output_queue), ResetTieringStates({Head(output_queue)}),
         \A j \in Jobs : job'[j] = IF j \in {Head(output_queue)} THEN None ELSE job[j],
         job' \in [Jobs -> JobInfo \cup {None}], available' \in [Functions -> BOOLEAN],
         UNCHANGED <<queue, tasks, install, finalize, todo, hasjobs, dispatcher>>
  PROVE  DispatcherProofInv'
<1> DEFINE h == Head(output_queue)
<1>1. TypeOK /\ CountInv /\ PlaceInv /\ PlanInv /\ HasJobsInv /\ InProgressHasJob
  BY DEF DispatcherProofInv
<1>2. /\ h \in Jobs /\ h \in Items(output_queue) /\ output_queue' \in Seq(Jobs)
      /\ Items(output_queue') = Items(output_queue) \ {h} /\ Distinct(output_queue')
  BY <1>1, TailFacts DEF TypeOK, PlaceInv
<1>3. /\ tiering' \in [Functions ->
           [BOOLEAN -> {"none", "request", "request_sync", "in_progress"}]]
      /\ InProgressHasJob' /\ LiveJobs' = LiveJobs \ {h}
  BY <1>1, <1>2, DeletedJobs
<1>4. \A j \in Jobs : job'[j] = IF j = h THEN None ELSE job[j]
  OBVIOUS
<1> HIDE DEF h
<1>5. TypeOK'
  BY <1>1, <1>2, <1>3, Zenon DEF TypeOK, queue, tasks
<1>6. UNCHANGED <<input_queue_length, Contents, held, task>>
  BY SameContents DEF tasks
<1>7. CountInv' /\ UNCHANGED NoTasks
  <2>1. todo # <<"Post">>
    BY PlanDifferences
  <2>2. QED
    BY <1>1, <1>6, <2>1, CountFrame
<1>8. PlaceInv'
  <2>1. UNCHANGED <<Items(Contents), Distinct(Contents)>>
    BY <1>6 DEF Items, Distinct
  <2>2. h \notin Items(Contents) /\ \A k \in Tasks : held[k] # h
    BY <1>1, <1>2 DEF PlaceInv
  <2>3. ASSUME NEW j \in Jobs
        PROVE  job'[j] # None <=> \/ j \in Items(Contents') \cup Items(output_queue')
                                  \/ \E k \in Tasks : held'[k] = j
    <3>1. job[j] # None <=> \/ j \in Items(Contents) \cup Items(output_queue)
                            \/ \E k \in Tasks : held[k] = j
      BY <1>1, Zenon DEF PlaceInv
    <3>2. QED
      BY <1>2, <1>4, <1>6, <2>1, <2>2, <3>1, Zenon
  <2>4. \A k \in Tasks : held'[k] \notin Items(Contents') \cup Items(output_queue')
    BY <1>1, <1>2, <1>6, <2>1 DEF PlaceInv
  <2>5. Items(Contents') \cap Items(output_queue') = {}
    BY <1>1, <1>2, <2>1 DEF PlaceInv
  <2>6. \A k, l \in Tasks : held'[k] = held'[l] /\ held'[k] # None => k = l
    BY <1>1, <1>6, Zenon DEF PlaceInv
  <2>7. QED
    BY <1>1, <1>2, <1>6, <2>1, <2>3, <2>4, <2>5, <2>6, Zenon DEF PlaceInv
<1>9. PlanInv'
  <2>1. dispatcher = "alive" /\ todo \notin Emptied
    BY <1>1 DEF PlanInv
  <2>2. QED
    BY <1>1, <1>6, <1>7, <2>1 DEF PlanInv
<1>10. HasJobsInv'
  BY <1>1, <1>3, <1>6, <1>7 DEF HasJobsInv
<1>11. AnnouncedInv'
  BY DEF AnnouncedInv
<1>12. QED
  BY <1>3, <1>5, <1>7, <1>8, <1>9, <1>10, <1>11 DEF DispatcherProofInv

\* The end of a call's rounds over the output queue.
LEMMA RoundsEnd ==
  ASSUME DispatcherProofInv, todo # <<>>, Head(todo) \in {"FlushOutput", "DropOutput", "Install"},
         output_queue = <<>>, todo' = Tail(todo),
         UNCHANGED <<queue, output_queue, tasks, job, functions, install, finalize, hasjobs, dispatcher>>
  PROVE  DispatcherProofInv'
<1>1. TypeOK /\ PlanInv /\ HasJobsInv
  BY DEF DispatcherProofInv
<1>2. /\ todo \in Fetching
      /\ todo' = <<>> \/ (todo' \in Emptied \ {<<"CancelAndWait">>} /\ todo \in Awaited)
  BY NextOfPlan
<1>3. /\ todo # <<"Post">> /\ todo # <<"CancelAndWait">> /\ todo # <<"HasJobs2">>
      /\ todo # <<"HasJobs1", "HasJobs2">> /\ todo \notin Emptied
  BY <1>2, PlanDifferences
<1>4. /\ todo' \in Plans /\ todo' # <<"Post">> /\ todo' # <<"CancelAndWait">>
      /\ todo' \in Awaited \cup Emptied => todo \in Awaited
  <2>1. <<>> # <<"Post">> /\ <<>> # <<"CancelAndWait">>
    OBVIOUS
  <2>2. <<>> \notin Awaited \cup Emptied /\ <<"Post">> \notin Emptied
    BY PlanSets, PlanDifferences
  <2>3. QED
    BY <1>2, <2>1, <2>2, PlanSets
<1>5. dispatcher = "alive"
  BY <1>1, <1>3, AliveInCalls
<1>6. /\ CountInv' /\ PlaceInv' /\ InProgressHasJob' /\ TypeOK'
      /\ UNCHANGED <<NoTasks, LiveJobs, input_queue_length, task, output_queue>>
  <2>1. /\ finalize' \in BOOLEAN /\ dispatcher' \in {"alive", "deleted", "canceled"}
        /\ install' \in BOOLEAN /\ hasjobs' \in BOOLEAN
    BY <1>1 DEF TypeOK
  <2>2. QED
    BY <1>3, <1>4, <2>1, PlanFrame
<1>7. PlanInv'
  BY <1>1, <1>4, <1>5, <1>6 DEF PlanInv
<1>8. HasJobsInv'
  BY <1>1, <1>3, <1>6 DEF HasJobsInv
<1>9. AnnouncedInv'
  BY DEF AnnouncedInv
<1>10. QED
  BY <1>6, <1>7, <1>8, <1>9 DEF DispatcherProofInv

LEMMA FlushOutputPreserves ==
  ASSUME DispatcherProofInv, FlushOutputQueue
  PROVE  DispatcherProofInv'
<1>1. /\ todo # <<>> /\ Head(todo) \in {"FlushOutput", "DropOutput", "Install"}
      /\ UNCHANGED <<queue, tasks, install, finalize, hasjobs, dispatcher>>
  BY DEF FlushOutputQueue, Does
<1>2. CASE output_queue = <<>>
  BY <1>1, <1>2, RoundsEnd DEF FlushOutputQueue
<1>3. CASE output_queue # <<>>
  <2>1. /\ output_queue' = Tail(output_queue) /\ UNCHANGED todo
        /\ DisposeTurbofanCompilationJobs({Head(output_queue)}, Does("FlushOutput"))
    BY <1>3 DEF FlushOutputQueue
  <2>2. TypeOK
    BY DEF DispatcherProofInv
  <2>3. /\ available' \in [Functions -> BOOLEAN] /\ job' \in [Jobs -> JobInfo \cup {None}]
        /\ ResetTieringStates({Head(output_queue)})
        /\ \A j \in Jobs : job'[j] = IF j \in {Head(output_queue)} THEN None ELSE job[j]
    BY <2>1, <2>2, Disposed
  <2>4. todo \in Fetching
    BY <1>1, NextOfPlan
  <2>5. QED
    BY <1>1, <1>3, <2>1, <2>3, <2>4, CollectFrame
<1>4. QED
  BY <1>2, <1>3

LEMMA InstallPreserves ==
  ASSUME DispatcherProofInv, InstallOptimizedFunctions
  PROVE  DispatcherProofInv'
<1>1. /\ todo # <<>> /\ Head(todo) \in {"FlushOutput", "DropOutput", "Install"}
      /\ UNCHANGED <<queue, tasks, install, finalize, hasjobs, dispatcher>>
  BY DEF InstallOptimizedFunctions, Does
<1>2. CASE output_queue = <<>>
  BY <1>1, <1>2, RoundsEnd DEF InstallOptimizedFunctions
<1>3. CASE output_queue # <<>>
  <2> DEFINE h == Head(output_queue)
  <2>1. /\ output_queue' = Tail(output_queue) /\ UNCHANGED todo
        /\ DisposeTurbofanCompilationJobs({h}, FALSE) \/ FinalizeTurbofanCompilationJob(h)
    BY <1>3 DEF InstallOptimizedFunctions
  <2>2. TypeOK
    BY DEF DispatcherProofInv
  <2>3. /\ available' \in [Functions -> BOOLEAN] /\ job' \in [Jobs -> JobInfo \cup {None}]
        /\ ResetTieringStates({h})
        /\ \A j \in Jobs : job'[j] = IF j \in {h} THEN None ELSE job[j]
    <3> HIDE DEF h
    <3>1. CASE DisposeTurbofanCompilationJobs({h}, FALSE)
      BY <2>2, <3>1, Disposed
    <3>2. CASE FinalizeTurbofanCompilationJob(h)
      <4>1. ResetTieringStates({h}) /\ job' = [job EXCEPT ![h] = None]
        BY <3>2 DEF FinalizeTurbofanCompilationJob
      <4>2. PICK success \in BOOLEAN :
              available' = IF job[h].osr THEN available
                           ELSE [available EXCEPT ![job[h].fn] = success]
        BY <3>2, Zenon DEF FinalizeTurbofanCompilationJob
      <4>3. available' \in [Functions -> BOOLEAN]
        BY <2>2, <4>2 DEF TypeOK
      <4>4. /\ job' \in [Jobs -> JobInfo \cup {None}]
            /\ \A j \in Jobs : job'[j] = IF j \in {h} THEN None ELSE job[j]
        BY <2>2, <4>1 DEF TypeOK
      <4>5. QED
        BY <4>1, <4>3, <4>4
    <3>3. QED
      BY <2>1, <3>1, <3>2
  <2>4. todo \in Fetching
    BY <1>1, NextOfPlan
  <2>5. QED
    BY <1>1, <1>3, <2>1, <2>3, <2>4, CollectFrame
<1>4. QED
  BY <1>2, <1>3

LEMMA NextPreserves ==
  ASSUME DispatcherProofInv, [Next]_vars
  PROVE  DispatcherProofInv'
<1>1. ASSUME NEW k \in Tasks, WorkerStep(k) PROVE DispatcherProofInv'
  BY <1>1, RunPreserves, NextInputPreserves, CompileNextPreserves,
     RequestInstallCodePreserves, LeavePreserves, Zenon DEF WorkerStep
<1>2. ASSUME NEW f \in Functions,
             \/ MarkForOptimization(f) \/ CompileOptimized(f)
             \/ CompileOptimizedSynchronously(f) \/ CompileOptimizedOSR(f)
             \/ DiscardCode(f)
      PROVE  DispatcherProofInv'
  BY <1>2, MarkForOptimizationPreserves, CompileOptimizedPreserves,
     CompileOptimizedSynchronouslyPreserves, CompileOptimizedOSRPreserves,
     DiscardCodePreserves, Zenon
<1>3. CASE Call \/ CallHasJobs \/ HandleInterrupts \/ Deinit
  BY <1>3, CallPreserves
<1>4. CASE MainStep
  BY <1>4, PostPreserves, FlushInputPreserves, AwaitPreserves, FlushOutputPreserves,
     InstallPreserves, EmptiedPreserves, HasJobsPreserves, CancelAndWaitPreserves, Zenon DEF MainStep
<1>5. CASE UNCHANGED vars
  <2>1. UNCHANGED <<queue, output_queue, tasks, job, install, finalize, todo, hasjobs, dispatcher>>
        /\ UNCHANGED <<tiering, available>>
    BY <1>5 DEF vars, functions
  <2>2. CountInv' /\ PlaceInv' /\ PlanInv' /\ HasJobsInv' /\ AnnouncedInv'
    BY <2>1, FunctionFrame
  <2>3. TypeOK'
    BY <2>1, Zenon DEF DispatcherProofInv, TypeOK, queue, tasks
  <2>4. InProgressHasJob'
    BY <2>1, ProgressFrame DEF DispatcherProofInv
  <2>5. QED
    BY <2>2, <2>3, <2>4 DEF DispatcherProofInv
<1>6. QED
  BY <1>1, <1>2, <1>3, <1>4, <1>5, Zenon DEF Next

\* In every reachable state, for every instance: the counters agree with the
\* tasks, each job that is not deleted is in one place of the pipeline, and the
\* main thread knows at each step of its calls (Flush, Stop, the installation,
\* HasJobs) what the code relies on there.
THEOREM DispatcherInvariant == Spec => []DispatcherProofInv
<1>1. DispatcherProofInv /\ [Next]_vars => DispatcherProofInv'
  BY NextPreserves
<1>2. QED
  BY <1>1, InitEstablishes, PTL DEF Spec

-----------------------------------------------------------------------------
(* The properties. *)

LEMMA FetchingFetches ==
  ASSUME NEW s \in Fetching
  PROVE  \E i \in DOMAIN s : s[i] \in {"Install", "FlushOutput", "DropOutput"}
<1> DEFINE Fetches(t) == \E i \in DOMAIN t : t[i] \in {"Install", "FlushOutput", "DropOutput"}
<1>1. Fetches(<<"Install", "SetFinalize">>)
  <2>1. /\ 1 \in DOMAIN <<"Install", "SetFinalize">>
        /\ <<"Install", "SetFinalize">>[1] = "Install"
    OBVIOUS
  <2>2. QED
    BY <2>1, Zenon
<1>2. Fetches(<<"Install", "ClearInstallCode", "UnsetFinalize">>)
  <2>1. /\ 1 \in DOMAIN <<"Install", "ClearInstallCode", "UnsetFinalize">>
        /\ <<"Install", "ClearInstallCode", "UnsetFinalize">>[1] = "Install"
    OBVIOUS
  <2>2. QED
    BY <2>1, Zenon
<1>3. Fetches(<<"DropOutput", "Delete", "CancelAndWait">>)
  <2>1. /\ 1 \in DOMAIN <<"DropOutput", "Delete", "CancelAndWait">>
        /\ <<"DropOutput", "Delete", "CancelAndWait">>[1] = "DropOutput"
    OBVIOUS
  <2>2. QED
    BY <2>1, Zenon
<1>4. Fetches(<<"FlushInput", "Await", "FlushOutput">>)
  <2>1. /\ 3 \in DOMAIN <<"FlushInput", "Await", "FlushOutput">>
        /\ <<"FlushInput", "Await", "FlushOutput">>[3] = "FlushOutput"
    OBVIOUS
  <2>2. QED
    BY <2>1, Zenon
<1>5. Fetches(<<"Await", "FlushOutput">>) /\ Fetches(<<"FlushInput", "FlushOutput">>)
  <2>1. /\ 2 \in DOMAIN <<"Await", "FlushOutput">> /\ <<"Await", "FlushOutput">>[2] = "FlushOutput"
        /\ 2 \in DOMAIN <<"FlushInput", "FlushOutput">>
        /\ <<"FlushInput", "FlushOutput">>[2] = "FlushOutput"
    OBVIOUS
  <2>2. QED
    BY <2>1, Zenon
<1>6. Fetches(<<"FlushOutput">>) /\ Fetches(<<"Install">>)
  <2>1. /\ 1 \in DOMAIN <<"FlushOutput">> /\ <<"FlushOutput">>[1] = "FlushOutput"
        /\ 1 \in DOMAIN <<"Install">> /\ <<"Install">>[1] = "Install"
    OBVIOUS
  <2>2. QED
    BY <2>1, Zenon
<1>7. Fetches(<<"Await", "Install", "SetFinalize">>)
  <2>1. /\ 2 \in DOMAIN <<"Await", "Install", "SetFinalize">>
        /\ <<"Await", "Install", "SetFinalize">>[2] = "Install"
    OBVIOUS
  <2>2. QED
    BY <2>1, Zenon
<1>8. Fetches(<<"Await", "Install", "ClearInstallCode", "UnsetFinalize">>)
  <2>1. /\ 2 \in DOMAIN <<"Await", "Install", "ClearInstallCode", "UnsetFinalize">>
        /\ <<"Await", "Install", "ClearInstallCode", "UnsetFinalize">>[2] = "Install"
    OBVIOUS
  <2>2. QED
    BY <2>1, Zenon
<1>9. Fetches(<<"FlushInput", "Await", "DropOutput", "Delete", "CancelAndWait">>)
  <2>1. /\ 3 \in DOMAIN <<"FlushInput", "Await", "DropOutput", "Delete", "CancelAndWait">>
        /\ <<"FlushInput", "Await", "DropOutput", "Delete", "CancelAndWait">>[3] = "DropOutput"
    OBVIOUS
  <2>2. QED
    BY <2>1, Zenon
<1>10. Fetches(<<"Await", "DropOutput", "Delete", "CancelAndWait">>)
  <2>1. /\ 2 \in DOMAIN <<"Await", "DropOutput", "Delete", "CancelAndWait">>
        /\ <<"Await", "DropOutput", "Delete", "CancelAndWait">>[2] = "DropOutput"
    OBVIOUS
  <2>2. QED
    BY <2>1, Zenon
<1> HIDE DEF Fetches
<1>11. Fetches(s)
  BY <1>1, <1>2, <1>3, <1>4, <1>5, <1>6, <1>7, <1>8, <1>9, <1>10, Zenon DEF Fetching, Awaited
<1>12. QED
  BY <1>11 DEF Fetches

LEMMA InvImpliesDispatcherInv ==
  ASSUME DispatcherProofInv
  PROVE  DispatcherInv
<1>1. TypeOK /\ CountInv /\ PlaceInv /\ PlanInv
  BY DEF DispatcherProofInv
<1>2. Does("Post") <=> todo = <<"Post">>
  <2>1. <<"Post">> # <<>> /\ Head(<<"Post">>) = "Post"
    OBVIOUS
  <2>2. QED
    BY <2>1, NextOfPlan DEF Does
<1>3. CountsExact
  <2>1. ActiveTasks = {k \in Tasks : Active(k)}
    BY DEF ActiveTasks, Active
  <2>2. QED
    BY <1>1, <1>2, <2>1 DEF CountInv, CountsExact, TasksBeforeInput
<1>4. ChecksHold
  <2>1. ASSUME Does("Await"), ref_count = 0 PROVE input_queue_length = 0
    BY <1>1, <1>2, <2>1, NoneLeft DEF Does
  <2>2. ASSUME Does("SetFinalize") \/ Does("UnsetFinalize")
        PROVE  ref_count = 0 /\ output_queue = <<>>
    <3>1. todo \in Emptied
      BY <2>2, NextOfPlan DEF Does
    <3>2. QED
      BY <1>1, <3>1, NoneActive DEF PlanInv
  <2>3. ASSUME Does("Delete") PROVE ref_count = 0 /\ input_queue_length = 0
    <3>1. todo \in Emptied
      BY <2>3, NextOfPlan DEF Does
    <3>2. QED
      BY <1>1, <3>1, NoneActive DEF PlanInv
  <2>4. QED
    BY <2>1, <2>2, <2>3 DEF ChecksHold
<1>5. OutlivesTasks
  <2>1. ASSUME dispatcher # "alive" PROVE LiveJobs = {} /\ NoTasks
    <3>1. NoTasks /\ input_queue_length = 0 /\ output_queue = <<>>
      BY <1>1, <2>1 DEF PlanInv
    <3>2. QED
      BY <1>1, <3>1, NoJobsLeft
  <2>2. QED
    BY <2>1 DEF OutlivesTasks, NoTasks, Active
<1>6. QED
  BY <1>1, <1>3, <1>4, <1>5 DEF DispatcherInv

LEMMA InvImpliesNoJobsMeansNone ==
  ASSUME DispatcherProofInv
  PROVE  NoJobsMeansNone
<1>1. <<>> # <<"HasJobs1", "HasJobs2">> /\ <<>> # <<"HasJobs2">>
  OBVIOUS
<1>2. QED
  BY <1>1 DEF DispatcherProofInv, HasJobsInv, NoJobsMeansNone, Idle

LEMMA InvImpliesNothingForgotten ==
  ASSUME DispatcherProofInv
  PROVE  NothingForgotten
<1>1. todo \in Fetching => TodoHas({"Install", "FlushOutput", "DropOutput"})
  BY FetchingFetches, Zenon DEF TodoHas
<1>2. QED
  BY <1>1 DEF DispatcherProofInv, AnnouncedInv, NothingForgotten, FinishedJobsAnnounced

\* For every number of functions, jobs and tasks and every capacity of the
\* ring buffer: ref_count_ counts the tasks, no job waits without a task that
\* will look for one, the CHECKs of AwaitCompileTasks, set_finalize and the
\* destructor hold, and the dispatcher outlives its tasks and jobs.
THEOREM DispatcherCorrect == Spec => []DispatcherInv
<1>1. DispatcherProofInv => DispatcherInv
  BY InvImpliesDispatcherInv
<1>2. QED
  BY <1>1, DispatcherInvariant, PTL

\* HasJobs answers FALSE only when there is no job, although it reads the
\* count and the output queue one after the other and without a mutex.
THEOREM HasJobsIsRight == Spec => []NoJobsMeansNone
<1>1. DispatcherProofInv => NoJobsMeansNone
  BY InvImpliesNoJobsMeansNone
<1>2. QED
  BY <1>1, DispatcherInvariant, PTL

\* A finished job is announced to the main thread (CompileNext pushes before
\* it requests, HandleInterrupts clears before it installs), and a tiering
\* state that says "in progress" has a job that will reset it.
THEOREM NoJobIsForgotten == Spec => []NothingForgotten
<1>1. DispatcherProofInv => NothingForgotten
  BY InvImpliesNothingForgotten
<1>2. QED
  BY <1>1, DispatcherInvariant, PTL

-----------------------------------------------------------------------------
(* The dispatcher implements CompilePipeline. *)

Working == {held[k] : k \in Tasks} \ {None}

LEMMA PipelineStutters ==
  ASSUME UNCHANGED <<queue, output_queue, held>>
  PROVE  UNCHANGED P!vars
<1>1. UNCHANGED <<Contents, output_queue, held>>
  BY SameContents
<1>2. QED
  BY <1>1 DEF P!vars

LEMMA NextInputRefines ==
  ASSUME DispatcherProofInv, NEW k \in Tasks, NextInput(k)
  PROVE  P!Take \/ UNCHANGED P!vars
<1>1. TypeOK /\ CountInv /\ PlaceInv
  BY DEF DispatcherProofInv
<1>2. CASE input_queue_length = 0
  BY <1>2, PipelineStutters DEF NextInput
<1>3. CASE input_queue_length # 0
  <2>1. /\ task[k] = "next" /\ UNCHANGED output_queue
        /\ held' = [held EXCEPT ![k] = input_queue[InputQueueIndex(0)]]
        /\ input_queue_shift' = InputQueueIndex(1)
        /\ input_queue_length' = input_queue_length - 1
        /\ UNCHANGED input_queue
    BY <1>3 DEF NextInput
  <2> DEFINE h == Head(Contents)
  <2>2. /\ Contents \in Seq(Jobs) /\ Contents # <<>> /\ Contents' = Tail(Contents)
        /\ held' = [held EXCEPT ![k] = h]
    BY <1>1, <1>3, <2>1, NextInputContents DEF PlaceInv
  <2>3. h \in Jobs
    BY <2>2, TailFacts
  <2>4. held[k] = None /\ h # None
    BY <1>1, <2>1, <2>3, SetsAssumption DEF CountInv
  <2>5. Working' = Working \cup {h}
    <3> HIDE DEF h
    <3>1. \A l \in Tasks : held'[l] = IF l = k THEN h ELSE held[l]
      BY <1>1, <2>2 DEF TypeOK
    <3>2. QED
      BY <2>4, <3>1, Zenon DEF Working
  <2>6. QED
    BY <2>1, <2>2, <2>5 DEF P!Take, Working
<1>4. QED
  BY <1>2, <1>3

LEMMA CompileNextRefines ==
  ASSUME DispatcherProofInv, NEW k \in Tasks, CompileNext(k)
  PROVE  \E j \in Jobs : P!Finish(j)
<1> DEFINE h == held[k]
<1>1. TypeOK /\ CountInv /\ PlaceInv
  BY DEF DispatcherProofInv
<1>2. /\ task[k] = "compile" /\ output_queue' = Append(output_queue, h)
      /\ held' = [held EXCEPT ![k] = None] /\ UNCHANGED queue
  BY DEF CompileNext
<1>3. h \in Jobs /\ h # None
  BY <1>1, <1>2 DEF CountInv, TypeOK
<1>4. \A l \in Tasks : held'[l] = IF l = k THEN None ELSE held[l]
  BY <1>1, <1>2 DEF TypeOK
<1>5. \A l \in Tasks : l # k => held[l] # h
  BY <1>1, <1>3 DEF PlaceInv
<1>6. h \in Working
  BY <1>3 DEF Working
<1>7. Working' = Working \ {h}
  <2>1. h = held[k]
    OBVIOUS
  <2> HIDE DEF h
  <2>2. QED
    BY <1>3, <1>4, <1>5, <2>1, Zenon DEF Working
<1>8. UNCHANGED Contents
  BY <1>2, SameContents
<1>9. PICK j \in Jobs : j = h
  BY <1>3
<1>10. P!Finish(j)
  BY <1>2, <1>6, <1>7, <1>8, <1>9 DEF P!Finish, Working
<1>11. QED
  BY <1>10

LEMMA QueueRefines ==
  ASSUME DispatcherProofInv, NEW f \in Functions, NEW osr \in BOOLEAN, Queue(f, osr)
  PROVE  \E j \in Jobs : P!Arrive(j)
<1>1. TypeOK /\ PlaceInv
  BY DEF DispatcherProofInv
<1>2. PICK j \in Jobs :
        /\ job[j] = None
        /\ input_queue' =
             [input_queue EXCEPT ![InputQueueIndex(input_queue_length)] = j]
  BY DEF Queue
<1>3. /\ IsQueueAvailable /\ input_queue_length' = input_queue_length + 1
      /\ UNCHANGED <<input_queue_shift, output_queue, held>>
  BY DEF Queue, tasks
<1>4. Contents' = Append(Contents, j)
  BY <1>1, <1>2, <1>3, QueueContents DEF PlaceInv
<1>5. /\ j \notin Items(Contents) \cup Items(output_queue)
      /\ \A k \in Tasks : held[k] # j
  BY <1>1, <1>2, Zenon DEF PlaceInv
<1>6. j \notin Working
  BY <1>5 DEF Working
<1>7. P!Arrive(j)
  BY <1>3, <1>4, <1>5, <1>6 DEF P!Arrive, P!Items, Items, Working
<1>8. QED
  BY <1>7

LEMMA StepRefines ==
  ASSUME DispatcherProofInv, [Next]_vars
  PROVE  [P!Next]_(P!vars)
<1>1. ASSUME NEW k \in Tasks, WorkerStep(k) PROVE [P!Next]_(P!vars)
  <2>1. CASE Run(k) \/ RequestInstallCode(k) \/ Leave(k)
    BY <2>1, PipelineStutters DEF Run, RequestInstallCode, Leave
  <2>2. CASE NextInput(k)
    BY <2>2, NextInputRefines DEF P!Next
  <2>3. CASE CompileNext(k)
    BY <2>3, CompileNextRefines DEF P!Next
  <2>4. QED
    BY <1>1, <2>1, <2>2, <2>3 DEF WorkerStep
<1>2. ASSUME NEW f \in Functions,
             \/ MarkForOptimization(f) \/ CompileOptimized(f)
             \/ CompileOptimizedSynchronously(f) \/ CompileOptimizedOSR(f)
             \/ DiscardCode(f)
      PROVE  [P!Next]_(P!vars)
  <2>1. CASE Queue(f, FALSE) \/ Queue(f, TRUE)
    BY <2>1, QueueRefines DEF P!Next
  <2>2. CASE UNCHANGED <<queue, output_queue, tasks>>
    BY <2>2, PipelineStutters DEF tasks
  <2>3. QED
    BY <1>2, <2>1, <2>2 DEF MarkForOptimization, CompileOptimized,
       CompileOptimizedSynchronously, CompileOptimizedOSR, DiscardCode
<1>3. CASE Call \/ CallHasJobs \/ HandleInterrupts \/ Deinit
  BY <1>3, PipelineStutters DEF Call, CallHasJobs, HandleInterrupts, Deinit, tasks
<1>4. CASE MainStep
  <2>1. CASE FlushInputQueue
    <3>1. Contents' = <<>> /\ UNCHANGED <<output_queue, held>>
      BY <2>1, NoContents DEF FlushInputQueue, tasks
    <3>2. QED
      BY <3>1 DEF P!Drop, P!Next
  <2>2. CASE FlushOutputQueue \/ InstallOptimizedFunctions
    <3>1. UNCHANGED <<queue, held>>
      BY <2>2 DEF FlushOutputQueue, InstallOptimizedFunctions, tasks
    <3>2. CASE UNCHANGED output_queue
      BY <3>1, <3>2, PipelineStutters
    <3>3. CASE output_queue # <<>> /\ output_queue' = Tail(output_queue)
      BY <3>1, <3>3, SameContents DEF P!Collect, P!Next
    <3>4. QED
      BY <2>2, <3>2, <3>3 DEF FlushOutputQueue, InstallOptimizedFunctions
  <2>3. CASE \/ Post \/ AwaitCompileTasks \/ ClearInstallCode \/ SetFinalize
             \/ HasJobsRefCount \/ HasJobsOutputQueue \/ DeleteDispatcher \/ CancelAndWait
    BY <2>3, PipelineStutters DEF Post, AwaitCompileTasks, ClearInstallCode, SetFinalize,
       HasJobsRefCount, HasJobsOutputQueue, DeleteDispatcher, CancelAndWait, tasks
  <2>4. QED
    BY <1>4, <2>1, <2>2, <2>3, Zenon DEF MainStep
<1>5. CASE UNCHANGED vars
  BY <1>5, PipelineStutters DEF vars, tasks
<1>6. QED
  BY <1>1, <1>2, <1>3, <1>4, <1>5, Zenon DEF Next

LEMMA InitRefines == Init => P!Init
<1> SUFFICES ASSUME Init PROVE P!Init
  OBVIOUS
<1>1. input_queue_length = 0 /\ output_queue = <<>> /\ held = [k \in Tasks |-> None]
  BY DEF Init
<1>2. Contents = <<>>
  BY <1>1 DEF Contents
<1>3. {held[k] : k \in Tasks} \ {None} = {}
  BY <1>1
<1>4. QED
  BY <1>1, <1>2, <1>3 DEF P!Init

\* The ring buffer with its wrapping index, the tasks and the output queue are
\* a pipeline: jobs are taken in the order in which they were queued, none is
\* in two places, and none is lost but by a flush.
THEOREM DispatcherImplementsPipeline == Spec => ImplementsPipeline
<1>1. DispatcherProofInv /\ [Next]_vars => [P!Next]_(P!vars)
  BY StepRefines
<1>2. QED
  BY <1>1, InitRefines, DispatcherInvariant, PTL DEF Spec, ImplementsPipeline, P!Spec
=============================================================================

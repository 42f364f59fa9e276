--------------------------- MODULE MicrotaskQueue ---------------------------
(***************************************************************************)
(* MicrotaskQueue (execution/), with the generated builtins that add to it *)
(* and drain it (builtins/builtins-microtask-queue-gen.cc) and the scopes  *)
(* of the API that decide when it is drained (api/).                       *)
(*                                                                         *)
(* There is one thread.  What makes the queue hard is nesting: embedder    *)
(* code and microtasks open and close scopes, add microtasks, ask for      *)
(* checkpoints and are terminated inside of each other, and a garbage      *)
(* collection may move the buffer in between.  stack is the native stack:  *)
(* the scopes that are open, outermost first.                              *)
(***************************************************************************)
EXTENDS Integers, SequencesExt

CONSTANTS
  Microtasks,        \* microtasks, each of which is enqueued once
  Contexts,          \* native contexts
  ContextOf,         \* ContextOf[m]: the context of m, None for a callback
  None,
  kMinimumCapacity,  \* 8 in the code
  Terminations,      \* may execution be terminated?
  MaxDepth           \* bound: nested scopes

ASSUME ContextAssumption ==
  /\ None \notin Microtasks \cup Contexts
  /\ ContextOf \in [Microtasks -> Contexts \cup {None}]

\* The machine's WordAnd of two words, bit by bit.
WordAnd[x \in Nat] ==
  [y \in Nat |-> IF x = 0 THEN 0
                ELSE 2 * WordAnd[x \div 2][y \div 2]
                       + (IF x % 2 = 1 /\ y % 2 = 1 THEN 1 ELSE 0)]

IsPowerOfTwo(n) == n > 0 /\ WordAnd[n][n - 1] = 0

ASSUME BoundsAssumption ==
  /\ kMinimumCapacity \in Nat /\ IsPowerOfTwo(kMinimumCapacity)
  /\ MaxDepth \in Nat

VARIABLES
  microtasks_policy,  \* which the embedder has set
  ring_buffer, capacity, size, start,
  microtasks_depth, microtasks_suppressions, is_running_microtasks,
  current_microtask,  \* the root of that name
  stack,              \* the scopes on the native stack
  scheduled_exception,
  detached,           \* contexts whose microtask_queue is null
  enqueued            \* microtasks that were passed to an Enqueue function

ring == <<ring_buffer, capacity, size, start>>
counters == <<microtasks_depth, microtasks_suppressions, is_running_microtasks>>
queue_vars == <<microtasks_policy, ring, counters, current_microtask, stack,
                scheduled_exception, detached, enqueued>>

\* CallDepthScope, MicrotasksScope (kRunMicrotasks), SuppressMicrotaskExecution-
\* Scope; RunMicrotasks, OnCompleted, and the rest of FireCallCompletedCallback.
Frames == {"call", "scope", "suppress", "run", "completed", "fire"}

Policies == {"kAuto", "kScoped", "kExplicit"}

MicrotaskTypeOK ==
  /\ microtasks_policy \in Policies
  /\ capacity \in Nat /\ size \in Nat /\ start \in Nat
  /\ ring_buffer \in [0..(capacity - 1) -> Microtasks \cup {None}]
  /\ microtasks_depth \in Nat /\ microtasks_suppressions \in Nat
  /\ is_running_microtasks \in BOOLEAN
  /\ current_microtask \in Microtasks \cup {None}
  /\ stack \in Seq(Frames)
  /\ scheduled_exception \in {"none", "exception", "termination"}
  /\ detached \subseteq Contexts /\ enqueued \subseteq Microtasks

Empty == [i \in {} |-> None]

MicrotaskInit ==
  /\ microtasks_policy \in Policies
  /\ ring_buffer = Empty /\ capacity = 0 /\ size = 0 /\ start = 0
  /\ microtasks_depth = 0 /\ microtasks_suppressions = 0
  /\ is_running_microtasks = FALSE
  /\ current_microtask = None
  /\ stack = <<>> /\ scheduled_exception = "none"
  /\ detached = {} /\ enqueued = {}

has_scheduled_exception == scheduled_exception # "none"
terminating == scheduled_exception = "termination"

Top == IF stack = <<>> THEN "bottom" ELSE Last(stack)
Depth(frames) == Cardinality({i \in DOMAIN stack : stack[i] \in frames})

\* Embedder or JavaScript code is running, not the queue itself.
InCode ==
  \/ Top \in {"bottom", "call", "scope", "suppress", "completed"}
  \/ Top = "run" /\ current_microtask # None

\* thread_local_top()->CallDepthIsZero(), for the frames of st.
CallDepthIsZero(st) ==
  \A i \in DOMAIN st : st[i] \notin {"call", "suppress", "run"}

(***************************************************************************)
(* The ring buffer.                                                        *)
(***************************************************************************)
\* Mutant of ResizeBuffer: copies the slots as they are.
ResizeInPlace(new_capacity) ==
  /\ ring_buffer' = [i \in 0..(new_capacity - 1) |->
                       IF i < size THEN ring_buffer[i] ELSE None]
  /\ capacity' = new_capacity
  /\ start' = 0

ResizeBuffer(new_capacity) ==
  /\ ring_buffer' = [i \in 0..(new_capacity - 1) |->
                       IF i < size THEN ring_buffer[(start + i) % capacity] ELSE None]
  /\ capacity' = new_capacity
  /\ start' = 0

GrownCapacity == Max({kMinimumCapacity, 2 * capacity})

\* EnqueueMicrotask in C++: a full buffer is resized, to which m is added.
EnqueueMicrotask(m) ==
  /\ IF size = capacity
     THEN /\ capacity' = GrownCapacity
          /\ ring_buffer' = [i \in 0..(GrownCapacity - 1) |->
                               IF i < size THEN ring_buffer[(start + i) % capacity]
                               ELSE IF i = size THEN m ELSE None]
          /\ start' = 0
     ELSE /\ ring_buffer' = [ring_buffer EXCEPT ![(start + size) % capacity] = m]
          /\ UNCHANGED <<capacity, start>>
  /\ size' = size + 1

\* The generated code masks where the C++ code divides.
CalculateRingBufferOffset(index) == WordAnd[start + index][capacity - 1]

\* An embedder enqueues a callback, or a function in the current context.
EnqueueFromApi(m) ==
  /\ InCode /\ m \notin enqueued
  /\ EnqueueMicrotask(m)
  /\ enqueued' = enqueued \cup {m}
  /\ UNCHANGED <<microtasks_policy, counters, current_microtask, stack,
                 scheduled_exception, detached>>

\* The builtin EnqueueMicrotask, for promise reactions.
EnqueueFromBuiltin(m) ==
  /\ InCode /\ Top \in {"call", "run"} /\ ~has_scheduled_exception
  /\ m \notin enqueued /\ ContextOf[m] # None
  /\ IF ContextOf[m] \in detached
     THEN UNCHANGED ring
     ELSE IF size = capacity
          THEN EnqueueMicrotask(m)
          ELSE /\ ring_buffer' =
                    [ring_buffer EXCEPT ![CalculateRingBufferOffset(size)] = m]
               /\ size' = size + 1
               /\ UNCHANGED <<capacity, start>>
  /\ enqueued' = enqueued \cup {m}
  /\ UNCHANGED <<microtasks_policy, counters, current_microtask, stack,
                 scheduled_exception, detached>>

\* The slots IterateMicrotasks shows to the garbage collector.
VisitedSlots ==
  start..(Min({start + size, capacity}) - 1)
    \cup 0..(Max({start + size - capacity, 0}) - 1)

\* The loop of IterateMicrotasks that halves the capacity, for n microtasks.
Halving(n) ==
  LET halve[c \in Nat] == IF c > 2 * n THEN halve[c \div 2] ELSE c IN halve

ShrunkCapacity == Max({Halving(size)[capacity], kMinimumCapacity})

\* A garbage collection.
IterateMicrotasks ==
  /\ InCode
  /\ capacity > kMinimumCapacity /\ ShrunkCapacity < capacity
  /\ ResizeBuffer(ShrunkCapacity)
  /\ UNCHANGED <<microtasks_policy, size, counters, current_microtask, stack,
                 scheduled_exception, detached, enqueued>>

(***************************************************************************)
(* Checkpoints.                                                            *)
(***************************************************************************)
\* Mutant of ShouldPerformCheckpoint: relies on the suppression alone.
ShouldPerformUnlessSuppressed(depth, suppressions) == suppressions = 0

ShouldPerformCheckpoint(depth, suppressions) ==
  ~is_running_microtasks /\ depth = 0 /\ suppressions = 0

\* PerformCheckpoint with the stack st and the given counters: RunMicrotasks
\* starts, or completes at once for an empty queue.
PerformCheckpoint(st, depth, suppressions) ==
  /\ microtasks_depth' = depth
  /\ IF ShouldPerformCheckpoint(depth, suppressions)
     THEN IF size = 0
          THEN /\ stack' = Append(st, "completed")
               /\ microtasks_suppressions' = suppressions
               /\ UNCHANGED is_running_microtasks
          ELSE /\ stack' = Append(st, "run")
               /\ microtasks_suppressions' = suppressions + 1
               /\ is_running_microtasks' = TRUE
     ELSE /\ stack' = st
          /\ microtasks_suppressions' = suppressions
          /\ UNCHANGED is_running_microtasks

\* MicrotasksScope::PerformCheckpoint or, but for kScoped, the one of Isolate.
ExplicitCheckpoint ==
  /\ InCode /\ ~has_scheduled_exception /\ Len(stack) < MaxDepth
  /\ PerformCheckpoint(stack, microtasks_depth, microtasks_suppressions)
  /\ UNCHANGED <<microtasks_policy, ring, current_microtask, scheduled_exception,
                 detached, enqueued>>

\* One round of the builtin RunMicrotasks: the microtask leaves the buffer
\* before it runs, and is skipped if its context was shut down.
RunNextMicrotask ==
  /\ Top = "run" /\ current_microtask = None /\ size > 0
  /\ LET m == ring_buffer[CalculateRingBufferOffset(0)] IN
     current_microtask' = IF ContextOf[m] \in detached THEN None ELSE m
  /\ size' = size - 1
  /\ start' = WordAnd[start + 1][capacity - 1]
  /\ UNCHANGED <<microtasks_policy, ring_buffer, capacity, counters, stack,
                 scheduled_exception, detached, enqueued>>

\* The microtask returns, or throws and the exception is reported.
FinishMicrotask ==
  /\ Top = "run" /\ current_microtask # None /\ ~terminating
  /\ current_microtask' = None
  /\ scheduled_exception' = "none"
  /\ UNCHANGED <<microtasks_policy, ring, counters, stack, detached, enqueued>>

\* RunMicrotasks ends; the completed callbacks run outside of its scopes.
Leave ==
  /\ stack' = Append(Front(stack), "completed")
  /\ is_running_microtasks' = FALSE
  /\ microtasks_suppressions' = microtasks_suppressions - 1

EndRunMicrotasks ==
  /\ Top = "run" /\ current_microtask = None /\ size = 0
  /\ Leave
  /\ UNCHANGED <<microtasks_policy, ring, microtasks_depth, current_microtask,
                 scheduled_exception, detached, enqueued>>

\* The microtask was terminated: the queue is dropped.
TerminateRunMicrotasks ==
  /\ Top = "run" /\ current_microtask # None /\ terminating
  /\ ring_buffer' = Empty /\ capacity' = 0 /\ size' = 0 /\ start' = 0
  /\ current_microtask' = None
  /\ Leave
  /\ UNCHANGED <<microtasks_policy, microtasks_depth, scheduled_exception, detached,
                 enqueued>>

(***************************************************************************)
(* Scopes.                                                                 *)
(***************************************************************************)
Open(frame) ==
  /\ InCode /\ ~terminating /\ Len(stack) < MaxDepth
  /\ frame = "call" => ~has_scheduled_exception
  /\ stack' = Append(stack, frame)
  /\ microtasks_depth' = microtasks_depth + (IF frame = "scope" THEN 1 ELSE 0)
  /\ microtasks_suppressions' =
       microtasks_suppressions + (IF frame = "suppress" THEN 1 ELSE 0)
  /\ UNCHANGED <<microtasks_policy, ring, is_running_microtasks,
                 current_microtask, scheduled_exception, detached, enqueued>>


CloseScope ==
  /\ Top = "scope"
  /\ IF microtasks_policy = "kScoped" /\ ~has_scheduled_exception
     THEN PerformCheckpoint(Front(stack), microtasks_depth - 1, microtasks_suppressions)
     ELSE /\ stack' = Front(stack)
          /\ microtasks_depth' = microtasks_depth - 1
          /\ UNCHANGED <<microtasks_suppressions, is_running_microtasks>>
  /\ UNCHANGED <<microtasks_policy, ring, current_microtask, scheduled_exception,
                 detached, enqueued>>

CloseSuppression ==
  /\ Top = "suppress"
  /\ stack' = Front(stack)
  /\ microtasks_suppressions' = microtasks_suppressions - 1
  /\ UNCHANGED <<microtasks_policy, ring, microtasks_depth,
                 is_running_microtasks, current_microtask, scheduled_exception,
                 detached, enqueued>>

\* ~CallDepthScope.  An inner one reschedules the exception that leaves it; the
\* outermost one clears it, a termination only if there is no TryCatch around
\* it, performs a checkpoint and fires the callbacks.
CloseCall ==
  LET st == Front(stack) IN
  /\ Top = "call"
  /\ IF ~CallDepthIsZero(st)
     THEN /\ stack' = st
          /\ UNCHANGED <<counters, scheduled_exception>>
     ELSE /\ \/ scheduled_exception' = "none"
             \/ terminating /\ UNCHANGED scheduled_exception
          /\ IF microtasks_policy = "kAuto" /\ ~terminating'
             THEN PerformCheckpoint(Append(st, "fire"), microtasks_depth,
                                    microtasks_suppressions)
             ELSE /\ stack' = Append(st, "fire")
                  /\ UNCHANGED counters
  /\ UNCHANGED <<microtasks_policy, ring, current_microtask, detached,
                 enqueued>>

\* The call completed callbacks, if there are any, run under a suppression.
FireCallCompletedCallback ==
  /\ Top = "fire"
  /\ \/ /\ stack' = Front(stack)
        /\ UNCHANGED microtasks_suppressions
     \/ /\ stack' = Append(Front(stack), "suppress")
        /\ microtasks_suppressions' = microtasks_suppressions + 1
  /\ UNCHANGED <<microtasks_policy, ring, microtasks_depth,
                 is_running_microtasks, current_microtask, scheduled_exception,
                 detached, enqueued>>

\* OnCompleted returns.
CloseCompleted ==
  /\ Top = "completed"
  /\ stack' = Front(stack)
  /\ UNCHANGED <<microtasks_policy, ring, counters, current_microtask,
                 scheduled_exception, detached, enqueued>>

\* JavaScript throws, or embedder code calls ThrowException.
ThrowException ==
  /\ InCode /\ ~has_scheduled_exception
  /\ scheduled_exception' = "exception"
  /\ UNCHANGED <<microtasks_policy, ring, counters, current_microtask, stack,
                 detached, enqueued>>

\* It is caught, in JavaScript or by a TryCatch.
CatchException ==
  /\ InCode /\ scheduled_exception = "exception"
  /\ scheduled_exception' = "none"
  /\ UNCHANGED <<microtasks_policy, ring, counters, current_microtask, stack,
                 detached, enqueued>>

\* JavaScript is terminated: the scopes above the frame that handles it unwind.
TerminateExecution ==
  /\ Terminations /\ ~has_scheduled_exception
  /\ Top \in {"call", "run"} /\ InCode
  /\ scheduled_exception' = "termination"
  /\ UNCHANGED <<microtasks_policy, ring, counters, current_microtask, stack,
                 detached, enqueued>>

\* The TryCatch around the outermost call.
ClearTermination ==
  /\ terminating /\ CallDepthIsZero(stack)
  /\ scheduled_exception' = "none"
  /\ UNCHANGED <<microtasks_policy, ring, counters, current_microtask, stack,
                 detached, enqueued>>

DetachGlobal(c) ==
  /\ InCode /\ c \notin detached
  /\ detached' = detached \cup {c}
  /\ UNCHANGED <<microtasks_policy, ring, counters, current_microtask, stack,
                 scheduled_exception, enqueued>>

Close ==
  CloseScope \/ CloseSuppression \/ CloseCall \/ CloseCompleted
    \/ FireCallCompletedCallback

MicrotaskNext ==
  \/ \E m \in Microtasks : EnqueueFromApi(m) \/ EnqueueFromBuiltin(m)
  \/ \E frame \in {"call", "scope", "suppress"} : Open(frame)
  \/ \E c \in Contexts : DetachGlobal(c)
  \/ IterateMicrotasks \/ ExplicitCheckpoint
  \/ RunNextMicrotask \/ FinishMicrotask \/ EndRunMicrotasks
  \/ TerminateRunMicrotasks \/ Close
  \/ ThrowException \/ CatchException \/ TerminateExecution \/ ClearTermination

MicrotaskSpec == MicrotaskInit /\ [][MicrotaskNext]_queue_vars

(***************************************************************************)
(* Fairness: code that has opened a scope gets round to closing it, however *)
(* many others it opens and closes inside, and microtasks return.          *)
(***************************************************************************)
MicrotaskFairness ==
  /\ \A d \in 1..(MaxDepth + 1) :
       SF_queue_vars(Len(stack) = d /\ (Close \/ FinishMicrotask))
  /\ WF_queue_vars(RunNextMicrotask) /\ WF_queue_vars(EndRunMicrotasks)

MicrotaskFairSpec == MicrotaskSpec /\ MicrotaskFairness

(***************************************************************************)
(* Properties.                                                             *)
(***************************************************************************)
\* The microtasks in the queue, in order; get(i) is element i + 1.
Contents == [i \in 1..size |-> ring_buffer[(start + i - 1) % capacity]]

\* The buffer that C++ code and generated code share, the first computing
\* positions by division and the other by masking, grown when full, shrunk by
\* the garbage collector and thrown away on termination and only then, is a queue:
\* microtasks run once each, in the order in which they were enqueued.
Fifo == INSTANCE FifoQueue WITH
          queue <- Contents, may_drop <- terminating, Elements <- Microtasks
ImplementsFifo == Fifo!Spec

\* What IterateMicrotasks visits is what the queue holds, wherever it wraps
\* around: a microtask not visited would be freed or left with a stale address.
VisitsLiveSlots ==
  /\ VisitedSlots = {(start + i) % capacity : i \in 0..(size - 1)}
  /\ \A i \in VisitedSlots : ring_buffer[i] # None

\* RunMicrotasks is never entered while it is active or inside of a scope that
\* defers it (the DCHECK of SetIsRunningMicrotasks).
NoNestedRun ==
  \A j \in DOMAIN stack : stack[j] = "run" =>
    \A i \in 1..(j - 1) : stack[i] \notin {"run", "scope", "suppress"}

\* The counters that decide this agree with the scopes that are really open,
\* also after frames have been unwound by a termination.
CountersMatchScopes ==
  /\ microtasks_depth = Depth({"scope"})
  /\ microtasks_suppressions = Depth({"suppress", "run"})
  /\ is_running_microtasks = ("run" \in ToSet(stack))
  /\ current_microtask # None => is_running_microtasks

\* The queue's safety: the collector sees what the queue holds, microtasks run
\* neither in each other nor in a scope that defers them, and the counters say
\* what is open.
MicrotaskInv ==
  MicrotaskTypeOK /\ VisitsLiveSlots /\ NoNestedRun /\ CountersMatchScopes

\* What has to be drained when the code that is running now is left: the
\* outermost scope does so with the policy kScoped, if nothing suppresses it,
\* and the outermost call with kAuto.
WillDrain ==
  \/ microtasks_policy = "kScoped" /\ microtasks_depth > 0
       /\ microtasks_suppressions = 0
  \/ microtasks_policy = "kAuto" /\ stack # <<>> /\ stack[1] = "call"

\* ~MicrotasksScope leaves the queue alone when an exception leaves the scope.
ScopeLeftByException ==
  /\ microtasks_policy = "kScoped" /\ microtasks_depth = 0
  /\ scheduled_exception = "exception"

=============================================================================

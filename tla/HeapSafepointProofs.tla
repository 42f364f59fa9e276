------------------------ MODULE HeapSafepointProofs -------------------------
(***************************************************************************)
(* Proofs about HeapSafepoint, for every set of background threads: the    *)
(* safepoint protocol's inductive invariant and what follows from it; on   *)
(* top of it the collection barrier's; and that the protocol implements    *)
(* StopTheWorld.                                                           *)
(* Cardinalities enter at four steps only: arming the barrier, flagging a  *)
(* thread, a thread's report, and the end of the owner's wait.             *)
(***************************************************************************)
EXTENDS HeapSafepoint, FiniteSetTheorems, TLAPS

\* Only finitely many threads can owe a report to the barrier.
LEMMA OwingIsFinite ==
  ASSUME TypeOK
  PROVE  IsFiniteSet(Owing)
<1>1. IsFiniteSet(Background \union {Main})
  BY ThreadsAssumption, FS_AddElement
<1>2. Owing \subseteq Background \union {Main}
  BY DEF Owing, Threads
<1>3. QED
  BY <1>1, <1>2, FS_Subset

\* The isolate starts with its main thread running, no other LocalHeap and
\* the barrier disarmed.
LEMMA InitEstablishes ==
  ASSUME Init
  PROVE  SafepointInv
<1> USE ThreadsAssumption, ParametersAssumption DEF Init, Threads, Procs, Scopers
<1>1. TypeOK
  <2>1. state \in [Threads -> SUBSET StateBits]
    BY DEF StateBits, Parked, Running
  <2>2. /\ pc \in [Procs -> MainPcs \union BackgroundPcs \union InitiatorPcs]
        /\ pc[Main] \in MainPcs /\ pc[Initiator] \in InitiatorPcs
        /\ \A b \in Background : pc[b] \in BackgroundPcs
    BY DEF MainPcs, BackgroundPcs, InitiatorPcs
  <2>3. /\ sawCollection \in BOOLEAN /\ armed \in BOOLEAN
        /\ collectionRequested \in BOOLEAN /\ blockForCollection \in BOOLEAN
        /\ collectionPerformed \in BOOLEAN /\ timerStarted \in BOOLEAN
        /\ shutdownRequested \in BOOLEAN /\ interrupt \in BOOLEAN
    OBVIOUS
  <2>4. activeSafepointScopes \in 0..MaxScopes /\ stopped \in Nat /\ running \in Nat
    OBVIOUS
  <2>5. QED
    BY <2>1, <2>2, <2>3, <2>4 DEF TypeOK
<1>2. CallerInv /\ MutexInv /\ ArmedInv /\ HeapsInv
  BY DEF CallerInv, MutexInv, ArmedInv, HeapsInv, HoldsMutex, ArmedPcs,
     StoppedPcs, UnparkPcs
<1>3. StateInv /\ FlagInv /\ ReportInv
  BY DEF StateInv, FlagInv, ReportInv, RunningPcs, AccessPcs, ParkPcs,
     StoppedPcs, ReportPcs, NotifyPcs, IsRunning, IsSafepointRequested,
     IsCollectionRequested, Parked, Running
<1>4. CountInv
  BY DEF CountInv, StoppedPcs
<1>5. QED
  BY <1>1, <1>2, <1>3, <1>4 DEF SafepointInv

-----------------------------------------------------------------------------
(* The constructor, the destructor, Park, Unpark and Safepoint of a LocalHeap. *)

\* LocalHeap's constructor takes local_heaps_mutex_.
LEMMA LockToAddPreserves ==
  ASSUME SafepointInv, NEW b \in Background, LockToAdd(b)
  PROVE  SafepointInv'
<1> USE ThreadsAssumption DEF SafepointInv, TypeOK, Threads, Procs, Scopers,
      LockToAdd, Goto, localHeapVars, barrierVars, collectionVars, historyVars
<1>1. TypeOK'
  BY DEF StateBits, MainPcs, ParkPcs, NotifyPcs, UnparkPcs, SleepPcs,
     ScopePcs, BackgroundPcs, InitiatorPcs
<1>2. CallerInv' /\ MutexInv' /\ ArmedInv' /\ HeapsInv'
  BY DEF CallerInv, MutexInv, ArmedInv, HeapsInv, HoldsMutex, ArmedPcs,
     StoppedPcs, UnparkPcs
<1>3. StateInv' /\ FlagInv' /\ ReportInv'
  BY DEF StateInv, FlagInv, ReportInv, MutexInv, ArmedInv, HeapsInv,
     IsRunning, RunningPcs, AccessPcs, ParkPcs, StoppedPcs,
     IsCollectionRequested, IsSafepointRequested, Targets, ReportPcs,
     NotifyPcs, HoldsMutex, ArmedPcs, UnparkPcs
<1>4. Owing' = Owing
  BY DEF Owing, StateInv, ReportInv, IsSafepointRequested, IsRunning,
     ReportPcs, NotifyPcs, RunningPcs, AccessPcs, ParkPcs, StoppedPcs,
     IsCollectionRequested
<1>5. CountInv'
  BY <1>4 DEF CountInv, MutexInv, StoppedPcs, HoldsMutex, ArmedPcs, UnparkPcs
<1>6. QED
  BY <1>1, <1>2, <1>3, <1>5

\* A new LocalHeap joins the list, parked, with no safepoint in progress.
LEMMA AddLocalHeapPreserves ==
  ASSUME SafepointInv, NEW b \in Background, AddLocalHeap(b)
  PROVE  SafepointInv'
<1> USE ThreadsAssumption DEF SafepointInv, TypeOK, Threads, Procs, Scopers,
      AddLocalHeap, SetState, Goto, barrierVars, collectionVars, historyVars
<1>1. TypeOK'
  BY DEF Parked, StateBits, MainPcs, ParkPcs, NotifyPcs, UnparkPcs, SleepPcs,
     ScopePcs, BackgroundPcs, InitiatorPcs
<1>2. CallerInv' /\ MutexInv' /\ ArmedInv' /\ HeapsInv'
  BY DEF CallerInv, MutexInv, ArmedInv, HeapsInv, HoldsMutex, ArmedPcs,
     StoppedPcs, UnparkPcs
<1>3. StateInv' /\ FlagInv' /\ ReportInv'
  BY DEF StateInv, FlagInv, ReportInv, MutexInv, ArmedInv, HeapsInv,
     IsRunning, RunningPcs, AccessPcs, ParkPcs, StoppedPcs,
     IsCollectionRequested, IsSafepointRequested, Targets, ReportPcs,
     NotifyPcs, HoldsMutex, ArmedPcs, UnparkPcs, Parked
<1>4. Owing' = Owing
  BY DEF Owing, StateInv, ReportInv, IsSafepointRequested, IsRunning,
     ReportPcs, NotifyPcs, RunningPcs, AccessPcs, ParkPcs, StoppedPcs,
     IsCollectionRequested, Parked
<1>5. CountInv'
  BY <1>4 DEF CountInv, MutexInv, StoppedPcs, HoldsMutex, ArmedPcs, UnparkPcs
<1>6. QED
  BY <1>1, <1>2, <1>3, <1>5

\* LocalHeap's destructor takes local_heaps_mutex_.
LEMMA LockToRemovePreserves ==
  ASSUME SafepointInv, NEW b \in Background, LockToRemove(b)
  PROVE  SafepointInv'
<1> USE ThreadsAssumption DEF SafepointInv, TypeOK, Threads, Procs, Scopers,
      LockToRemove, Goto, localHeapVars, barrierVars, collectionVars,
      historyVars
<1>1. TypeOK'
  BY DEF StateBits, MainPcs, ParkPcs, NotifyPcs, UnparkPcs, SleepPcs,
     ScopePcs, BackgroundPcs, InitiatorPcs
<1>2. CallerInv' /\ MutexInv' /\ ArmedInv' /\ HeapsInv'
  BY DEF CallerInv, MutexInv, ArmedInv, HeapsInv, HoldsMutex, ArmedPcs,
     StoppedPcs, UnparkPcs
<1>3. StateInv' /\ FlagInv' /\ ReportInv'
  BY DEF StateInv, FlagInv, ReportInv, MutexInv, ArmedInv, HeapsInv,
     IsRunning, RunningPcs, AccessPcs, ParkPcs, StoppedPcs,
     IsCollectionRequested, IsSafepointRequested, Targets, ReportPcs,
     NotifyPcs, HoldsMutex, ArmedPcs, UnparkPcs
<1>4. Owing' = Owing
  BY DEF Owing, StateInv, ReportInv, IsSafepointRequested, IsRunning,
     ReportPcs, NotifyPcs, RunningPcs, AccessPcs, ParkPcs, StoppedPcs,
     IsCollectionRequested
<1>5. CountInv'
  BY <1>4 DEF CountInv, MutexInv, StoppedPcs, HoldsMutex, ArmedPcs, UnparkPcs
<1>6. QED
  BY <1>1, <1>2, <1>3, <1>5

\* A parked LocalHeap leaves the list, with no safepoint in progress.
LEMMA RemoveLocalHeapPreserves ==
  ASSUME SafepointInv, NEW b \in Background, RemoveLocalHeap(b)
  PROVE  SafepointInv'
<1> USE ThreadsAssumption DEF SafepointInv, TypeOK, Threads, Procs, Scopers,
      RemoveLocalHeap, Goto, localHeapVars, barrierVars, collectionVars,
      historyVars
<1>1. TypeOK'
  BY DEF StateBits, MainPcs, ParkPcs, NotifyPcs, UnparkPcs, SleepPcs,
     ScopePcs, BackgroundPcs, InitiatorPcs
<1>2. CallerInv' /\ MutexInv' /\ ArmedInv' /\ HeapsInv'
  BY DEF CallerInv, MutexInv, ArmedInv, HeapsInv, HoldsMutex, ArmedPcs,
     StoppedPcs, UnparkPcs
<1>3. StateInv' /\ FlagInv' /\ ReportInv'
  BY DEF StateInv, FlagInv, ReportInv, MutexInv, ArmedInv, HeapsInv,
     IsRunning, RunningPcs, AccessPcs, ParkPcs, StoppedPcs,
     IsCollectionRequested, IsSafepointRequested, Targets, ReportPcs,
     NotifyPcs, HoldsMutex, ArmedPcs, UnparkPcs
<1>4. Owing' = Owing
  BY DEF Owing, StateInv, ReportInv, IsSafepointRequested, IsRunning,
     ReportPcs, NotifyPcs, RunningPcs, AccessPcs, ParkPcs, StoppedPcs,
     IsCollectionRequested
<1>5. CountInv'
  BY <1>4 DEF CountInv, MutexInv, StoppedPcs, HoldsMutex, ArmedPcs, UnparkPcs
<1>6. QED
  BY <1>1, <1>2, <1>3, <1>5

\* ParkedScope's constructor calls Park.
LEMMA CallParkPreserves ==
  ASSUME SafepointInv, NEW t \in Threads, CallPark(t)
  PROVE  SafepointInv'
<1> USE ThreadsAssumption DEF SafepointInv, TypeOK, Threads, Procs, Scopers,
      CallPark, Goto, listVars, barrierVars, collectionVars, historyVars
<1>1. TypeOK'
  BY DEF CallerInv, StateBits, MainPcs, ParkPcs, NotifyPcs, UnparkPcs,
     SleepPcs, ScopePcs, BackgroundPcs, InitiatorPcs
<1>2. CallerInv' /\ MutexInv' /\ ArmedInv' /\ HeapsInv'
  BY DEF CallerInv, MutexInv, ArmedInv, HeapsInv, HoldsMutex, ArmedPcs,
     StoppedPcs, UnparkPcs
<1>3. StateInv' /\ FlagInv' /\ ReportInv'
  BY DEF StateInv, FlagInv, ReportInv, CallerInv, IsRunning, RunningPcs,
     AccessPcs, ParkPcs, StoppedPcs, IsCollectionRequested,
     IsSafepointRequested, Targets, ReportPcs, NotifyPcs
<1>4. Owing' = Owing
  BY DEF Owing, StateInv, ReportInv, CallerInv, IsSafepointRequested,
     IsRunning, ReportPcs, NotifyPcs, RunningPcs, AccessPcs, ParkPcs,
     StoppedPcs, IsCollectionRequested
<1>5. CountInv'
  BY <1>4 DEF CountInv, CallerInv, StoppedPcs
<1>6. QED
  BY <1>1, <1>2, <1>3, <1>5

\* ParkedScope's destructor calls Unpark.
LEMMA CallUnparkPreserves ==
  ASSUME SafepointInv, NEW t \in Threads, CallUnpark(t)
  PROVE  SafepointInv'
<1> USE ThreadsAssumption DEF SafepointInv, TypeOK, Threads, Procs, Scopers,
      CallUnpark, Goto, listVars, barrierVars, collectionVars, historyVars
<1>1. TypeOK'
  BY DEF CallerInv, StateBits, MainPcs, ParkPcs, NotifyPcs, UnparkPcs,
     SleepPcs, ScopePcs, BackgroundPcs, InitiatorPcs
<1>2. CallerInv' /\ MutexInv' /\ ArmedInv' /\ HeapsInv'
  BY DEF CallerInv, MutexInv, ArmedInv, HeapsInv, HoldsMutex, ArmedPcs,
     StoppedPcs, UnparkPcs
<1>3. StateInv' /\ FlagInv' /\ ReportInv'
  BY DEF StateInv, FlagInv, ReportInv, CallerInv, IsRunning, RunningPcs,
     AccessPcs, ParkPcs, StoppedPcs, IsCollectionRequested,
     IsSafepointRequested, Targets, ReportPcs, NotifyPcs
<1>4. Owing' = Owing
  BY DEF Owing, StateInv, ReportInv, CallerInv, IsSafepointRequested,
     IsRunning, ReportPcs, NotifyPcs, RunningPcs, AccessPcs, ParkPcs,
     StoppedPcs, IsCollectionRequested
<1>5. CountInv'
  BY <1>4 DEF CountInv, CallerInv, StoppedPcs
<1>6. QED
  BY <1>1, <1>2, <1>3, <1>5

\* A thread without the safepoint bit may park and owes no report.
LEMMA ParkPreserves ==
  ASSUME SafepointInv, NEW t \in Threads, Park(t)
  PROVE  SafepointInv'
<1> USE ThreadsAssumption DEF SafepointInv, TypeOK, Threads, Procs, Scopers,
      Park, SetState, Goto, AfterPark, IgnoreLocalGCRequests, listVars,
      barrierVars, collectionVars, historyVars
<1>1. TypeOK'
  BY DEF CallerInv, Running, Parked, IsSafepointRequested, StateBits, MainPcs,
     ParkPcs, NotifyPcs, UnparkPcs, SleepPcs, ScopePcs, BackgroundPcs,
     InitiatorPcs
<1>2. CallerInv' /\ MutexInv' /\ ArmedInv' /\ HeapsInv'
  BY DEF CallerInv, MutexInv, ArmedInv, HeapsInv, HoldsMutex, ArmedPcs,
     StoppedPcs, UnparkPcs
<1>3. StateInv' /\ FlagInv' /\ ReportInv'
  BY DEF StateInv, FlagInv, ReportInv, ArmedInv, CallerInv, IsRunning,
     RunningPcs, AccessPcs, ParkPcs, StoppedPcs, IsCollectionRequested,
     IsSafepointRequested, Targets, ReportPcs, NotifyPcs, ArmedPcs, Running,
     Parked
<1>4. Owing' = Owing
  BY DEF Owing, StateInv, ReportInv, CallerInv, IsSafepointRequested,
     IsRunning, ReportPcs, NotifyPcs, RunningPcs, AccessPcs, ParkPcs,
     StoppedPcs, IsCollectionRequested, Running, Parked
<1>5. CountInv'
  BY <1>4 DEF CountInv, CallerInv, StoppedPcs
<1>6. QED
  BY <1>1, <1>2, <1>3, <1>5

\* A flagged thread parks: its debt moves from its state word to NotifyPark.
LEMMA ParkForSafepointPreserves ==
  ASSUME SafepointInv, NEW t \in Threads, ParkForSafepoint(t)
  PROVE  SafepointInv'
<1> USE ThreadsAssumption DEF SafepointInv, TypeOK, Threads, Procs, Scopers,
      ParkForSafepoint, SetState, Goto, listVars, barrierVars, collectionVars,
      historyVars
<1>1. TypeOK'
  BY DEF SetParked, IsCollectionRequested, StateBits, MainPcs, ParkPcs,
     NotifyPcs, UnparkPcs, SleepPcs, ScopePcs, BackgroundPcs, InitiatorPcs
<1>2. CallerInv' /\ MutexInv' /\ ArmedInv' /\ HeapsInv'
  BY DEF CallerInv, MutexInv, ArmedInv, HeapsInv, HoldsMutex, ArmedPcs,
     StoppedPcs, UnparkPcs
<1>3. StateInv' /\ FlagInv' /\ ReportInv'
  BY DEF StateInv, FlagInv, ReportInv, IsRunning, RunningPcs, AccessPcs,
     ParkPcs, StoppedPcs, IsCollectionRequested, IsSafepointRequested,
     Targets, ReportPcs, NotifyPcs, SetParked
<1>4. Owing' = Owing
  BY DEF Owing, StateInv, ReportInv, IsSafepointRequested, IsRunning,
     ReportPcs, NotifyPcs, RunningPcs, AccessPcs, ParkPcs, StoppedPcs,
     IsCollectionRequested, SetParked
<1>5. CountInv'
  BY <1>4 DEF CountInv, StoppedPcs
<1>6. QED
  BY <1>1, <1>2, <1>3, <1>5

\* NotifyPark pays one report: the debt and the missing count drop together.
LEMMA NotifyParkPreserves ==
  ASSUME SafepointInv, NEW t \in Threads, NotifyPark(t)
  PROVE  SafepointInv'
<1> USE ThreadsAssumption DEF SafepointInv, TypeOK, Threads, Procs, Scopers,
      NotifyPark, NotifyAll, Goto, AfterPark, localHeapVars, listVars,
      collectionVars, historyVars
<1>1. TypeOK'
  BY DEF CallerInv, NotifyPcs, StateBits, MainPcs, ParkPcs, UnparkPcs,
     SleepPcs, ScopePcs, BackgroundPcs, InitiatorPcs
<1>2. CallerInv' /\ MutexInv' /\ ArmedInv' /\ HeapsInv'
  BY DEF CallerInv, MutexInv, ArmedInv, HeapsInv, HoldsMutex, ArmedPcs,
     StoppedPcs, UnparkPcs, NotifyPcs
<1>3. StateInv' /\ FlagInv' /\ ReportInv'
  BY DEF StateInv, FlagInv, ReportInv, CallerInv, IsRunning, RunningPcs,
     AccessPcs, ParkPcs, StoppedPcs, IsCollectionRequested,
     IsSafepointRequested, Targets, ReportPcs, NotifyPcs
<1>4. Owing' = Owing \ {t} /\ t \in Owing
  BY DEF Owing, StateInv, ReportInv, CallerInv, ReportPcs, NotifyPcs, RunningPcs,
     AccessPcs, ParkPcs, StoppedPcs, IsSafepointRequested, IsRunning
<1>5. CountInv'
  <2>1. Cardinality(Owing') = Cardinality(Owing) - 1 /\ Cardinality(Owing) \in Nat
    BY <1>4, OwingIsFinite, FS_RemoveElement, FS_CardinalityType
  <2>2. \A p \in Scopers : pc'[p] = "setFlags" => pc[p] = "setFlags"
    BY DEF CallerInv, NotifyPcs
  <2>3. \A p \in Scopers : pc[p] = "setFlags" => running = stopped + Cardinality(Owing)
    BY DEF CountInv
  <2>4. \A p \in Scopers : pc'[p] = "setFlags" => running' = stopped' + Cardinality(Owing')
    BY <2>1, <2>2, <2>3
  <2>5. \A p \in Scopers : pc'[p] \notin StoppedPcs \union {"clearFlags"}
    BY <1>4 DEF CountInv, CallerInv, StoppedPcs, NotifyPcs
  <2>6. QED
    BY <2>4, <2>5 DEF CountInv
<1>6. QED
  BY <1>1, <1>2, <1>3, <1>5

\* Parking with the collection bit alone concerns no safepoint.
LEMMA ParkWithCollectionRequestedPreserves ==
  ASSUME SafepointInv, NEW t \in Threads, ParkWithCollectionRequested(t)
  PROVE  SafepointInv'
<1> USE ThreadsAssumption DEF SafepointInv, TypeOK, Threads, Procs, Scopers,
      ParkWithCollectionRequested, SetState, Goto, listVars, barrierVars,
      collectionVars, historyVars
<1>1. TypeOK'
  BY DEF SetParked, StateBits, MainPcs, ParkPcs, NotifyPcs, UnparkPcs,
     SleepPcs, ScopePcs, BackgroundPcs, InitiatorPcs
<1>2. CallerInv' /\ MutexInv' /\ ArmedInv' /\ HeapsInv'
  BY DEF CallerInv, MutexInv, ArmedInv, HeapsInv, HoldsMutex, ArmedPcs,
     StoppedPcs, UnparkPcs
<1>3. StateInv' /\ FlagInv' /\ ReportInv'
  BY DEF StateInv, FlagInv, ReportInv, IsRunning, RunningPcs, AccessPcs,
     ParkPcs, StoppedPcs, IsCollectionRequested, IsSafepointRequested,
     Targets, ReportPcs, NotifyPcs, SetParked
<1>4. Owing' = Owing
  BY DEF Owing, StateInv, ReportInv, IsSafepointRequested, IsRunning,
     ReportPcs, NotifyPcs, RunningPcs, AccessPcs, ParkPcs, StoppedPcs,
     IsCollectionRequested, SetParked
<1>5. CountInv'
  BY <1>4 DEF CountInv, StoppedPcs
<1>6. QED
  BY <1>1, <1>2, <1>3, <1>5

\* Cancelling a collection concerns no safepoint.
LEMMA CancelCollectionAndResumeThreadsPreserves ==
  ASSUME SafepointInv, NEW t \in Threads, CancelCollectionAndResumeThreads(t)
  PROVE  SafepointInv'
<1> USE ThreadsAssumption DEF SafepointInv, TypeOK, Threads, Procs, Scopers,
      CancelCollectionAndResumeThreads, NotifyAll, Goto, AfterPark,
      localHeapVars, listVars, barrierVars, historyVars
<1>1. TypeOK'
  <2>1. /\ timerStarted' \in BOOLEAN /\ collectionRequested' \in BOOLEAN
        /\ blockForCollection' \in BOOLEAN /\ collectionPerformed' \in BOOLEAN
        /\ shutdownRequested' \in BOOLEAN
    OBVIOUS
  <2>2. QED
    BY <2>1 DEF CallerInv, StateBits, MainPcs, ParkPcs, NotifyPcs, UnparkPcs,
       SleepPcs, ScopePcs, BackgroundPcs, InitiatorPcs
<1>2. CallerInv' /\ MutexInv' /\ ArmedInv' /\ HeapsInv'
  BY DEF CallerInv, MutexInv, ArmedInv, HeapsInv, HoldsMutex, ArmedPcs,
     StoppedPcs, UnparkPcs
<1>3. StateInv' /\ FlagInv' /\ ReportInv'
  BY DEF StateInv, FlagInv, ReportInv, CallerInv, IsRunning, RunningPcs,
     AccessPcs, ParkPcs, StoppedPcs, IsCollectionRequested,
     IsSafepointRequested, Targets, ReportPcs, NotifyPcs
<1>4. Owing' = Owing
  BY DEF Owing, StateInv, ReportInv, CallerInv, IsSafepointRequested,
     IsRunning, ReportPcs, NotifyPcs, RunningPcs, AccessPcs, ParkPcs,
     StoppedPcs, IsCollectionRequested
<1>5. CountInv'
  BY <1>4 DEF CountInv, CallerInv, StoppedPcs
<1>6. QED
  BY <1>1, <1>2, <1>3, <1>5

\* Only a thread without the safepoint bit starts running.
LEMMA UnparkPreserves ==
  ASSUME SafepointInv, NEW t \in Threads, Unpark(t)
  PROVE  SafepointInv'
<1> USE ThreadsAssumption DEF SafepointInv, TypeOK, Threads, Procs, Scopers,
      Unpark, SetState, ReturnFromUnpark, Goto, AfterUnpark, listVars,
      barrierVars, collectionVars, historyVars
<1>1. TypeOK'
  BY DEF CallerInv, Parked, Running, IsSafepointRequested, StateBits, MainPcs,
     ParkPcs, NotifyPcs, UnparkPcs, SleepPcs, ScopePcs, BackgroundPcs,
     InitiatorPcs
<1>2. CallerInv' /\ MutexInv' /\ ArmedInv' /\ HeapsInv'
  BY DEF CallerInv, MutexInv, ArmedInv, HeapsInv, HoldsMutex, ArmedPcs,
     StoppedPcs, UnparkPcs
<1>3. StateInv' /\ FlagInv' /\ ReportInv'
  BY DEF StateInv, FlagInv, ReportInv, ArmedInv, CallerInv, IsRunning,
     RunningPcs, AccessPcs, ParkPcs, StoppedPcs, IsCollectionRequested,
     IsSafepointRequested, Targets, ReportPcs, NotifyPcs, ArmedPcs, Parked,
     Running
<1>4. Owing' = Owing
  BY DEF Owing, StateInv, ReportInv, CallerInv, IsSafepointRequested,
     IsRunning, ReportPcs, NotifyPcs, RunningPcs, AccessPcs, ParkPcs,
     StoppedPcs, IsCollectionRequested, Parked, Running
<1>5. CountInv'
  BY <1>4 DEF CountInv, CallerInv, StoppedPcs
<1>6. QED
  BY <1>1, <1>2, <1>3, <1>5

\* Sleeping in WaitInUnpark changes no state word.
LEMMA WaitInUnparkPreserves ==
  ASSUME SafepointInv, NEW t \in Threads, WaitInUnpark(t)
  PROVE  SafepointInv'
<1> USE ThreadsAssumption DEF SafepointInv, TypeOK, Threads, Procs, Scopers,
      WaitInUnpark, Goto, localHeapVars, listVars, barrierVars,
      collectionVars, historyVars
<1>1. TypeOK'
  BY DEF StateBits, MainPcs, ParkPcs, NotifyPcs, UnparkPcs, SleepPcs,
     ScopePcs, BackgroundPcs, InitiatorPcs
<1>2. CallerInv' /\ MutexInv' /\ ArmedInv' /\ HeapsInv'
  BY DEF CallerInv, MutexInv, ArmedInv, HeapsInv, HoldsMutex, ArmedPcs,
     StoppedPcs, UnparkPcs
<1>3. StateInv' /\ FlagInv' /\ ReportInv'
  BY DEF StateInv, FlagInv, ReportInv, IsRunning, RunningPcs, AccessPcs,
     ParkPcs, StoppedPcs, IsCollectionRequested, IsSafepointRequested,
     Targets, ReportPcs, NotifyPcs
<1>4. Owing' = Owing
  BY DEF Owing, StateInv, ReportInv, IsSafepointRequested, IsRunning,
     ReportPcs, NotifyPcs, RunningPcs, AccessPcs, ParkPcs, StoppedPcs,
     IsCollectionRequested
<1>5. CountInv'
  BY <1>4 DEF CountInv, StoppedPcs
<1>6. QED
  BY <1>1, <1>2, <1>3, <1>5

\* Only a main thread without the safepoint bit starts running.
LEMMA UnparkWithCollectionRequestedPreserves ==
  ASSUME SafepointInv, NEW t \in Threads, UnparkWithCollectionRequested(t)
  PROVE  SafepointInv'
<1> USE ThreadsAssumption DEF SafepointInv, TypeOK, Threads, Procs, Scopers,
      UnparkWithCollectionRequested, SetState, IgnoreLocalGCRequests,
      ReturnFromUnpark, Goto, AfterUnpark, listVars, barrierVars,
      collectionVars, historyVars
<1>1. TypeOK'
  BY DEF CallerInv, SetRunning, StateBits, MainPcs, ParkPcs, NotifyPcs,
     UnparkPcs, SleepPcs, ScopePcs, BackgroundPcs, InitiatorPcs
<1>2. CallerInv' /\ MutexInv' /\ ArmedInv' /\ HeapsInv'
  BY DEF CallerInv, MutexInv, ArmedInv, HeapsInv, HoldsMutex, ArmedPcs,
     StoppedPcs, UnparkPcs
<1>3. StateInv' /\ FlagInv' /\ ReportInv'
  BY DEF StateInv, FlagInv, ReportInv, ArmedInv, CallerInv, IsRunning,
     RunningPcs, AccessPcs, ParkPcs, StoppedPcs, IsCollectionRequested,
     IsSafepointRequested, Targets, ReportPcs, NotifyPcs, ArmedPcs, SetRunning
<1>4. Owing' = Owing
  BY DEF Owing, StateInv, ReportInv, CallerInv, IsSafepointRequested,
     IsRunning, ReportPcs, NotifyPcs, RunningPcs, AccessPcs, ParkPcs,
     StoppedPcs, IsCollectionRequested, SetRunning
<1>5. CountInv'
  BY <1>4 DEF CountInv, CallerInv, StoppedPcs
<1>6. QED
  BY <1>1, <1>2, <1>3, <1>5

\* The poll of a running thread sends it to SleepInSafepoint only when it is flagged.
LEMMA SafepointPreserves ==
  ASSUME SafepointInv, NEW t \in Threads, Safepoint(t)
  PROVE  SafepointInv'
<1> USE ThreadsAssumption DEF SafepointInv, TypeOK, Threads, Procs, Scopers,
      Safepoint, Goto, listVars, barrierVars, collectionVars, historyVars
<1>1. TypeOK'
  <2>1. sawCollection' \in BOOLEAN
    <3>1. IsCollectionRequested(state[t]) \in BOOLEAN
      BY DEF IsCollectionRequested
    <3>2. CASE t = Main
      BY <3>1, <3>2, Zenon
    <3>3. CASE t # Main
      BY <3>3, Zenon
    <3>4. QED
      BY <3>2, <3>3
  <2>2. QED
    BY <2>1 DEF IsRunningWithSlowPathFlag, IsRunning, IsSafepointRequested,
       IsCollectionRequested, StateBits, MainPcs, ParkPcs, NotifyPcs,
       UnparkPcs, SleepPcs, ScopePcs, BackgroundPcs, InitiatorPcs
<1>2. CallerInv' /\ MutexInv' /\ ArmedInv' /\ HeapsInv'
  BY DEF CallerInv, MutexInv, ArmedInv, HeapsInv, HoldsMutex, ArmedPcs,
     StoppedPcs, UnparkPcs
<1>3. StateInv' /\ FlagInv' /\ ReportInv'
  BY DEF StateInv, FlagInv, ReportInv, IsRunning, RunningPcs, AccessPcs,
     ParkPcs, StoppedPcs, IsCollectionRequested, IsSafepointRequested,
     Targets, ReportPcs, NotifyPcs, IsRunningWithSlowPathFlag
<1>4. Owing' = Owing
  BY DEF Owing, StateInv, ReportInv, IsSafepointRequested, IsRunning,
     ReportPcs, NotifyPcs, RunningPcs, AccessPcs, ParkPcs, StoppedPcs,
     IsCollectionRequested, IsRunningWithSlowPathFlag
<1>5. CountInv'
  BY <1>4 DEF CountInv, StoppedPcs
<1>6. QED
  BY <1>1, <1>2, <1>3, <1>5

\* SleepInSafepoint parks: the debt moves to WaitInSafepoint.
LEMMA SleepInSafepointPreserves ==
  ASSUME SafepointInv, NEW t \in Threads, SleepInSafepoint(t)
  PROVE  SafepointInv'
<1> USE ThreadsAssumption DEF SafepointInv, TypeOK, Threads, Procs, Scopers,
      SleepInSafepoint, SetState, Goto, listVars, barrierVars, collectionVars,
      historyVars
<1>1. TypeOK'
  BY DEF SetParked, StateBits, MainPcs, ParkPcs, NotifyPcs, UnparkPcs,
     SleepPcs, ScopePcs, BackgroundPcs, InitiatorPcs
<1>2. CallerInv' /\ MutexInv' /\ ArmedInv' /\ HeapsInv'
  BY DEF CallerInv, MutexInv, ArmedInv, HeapsInv, HoldsMutex, ArmedPcs,
     StoppedPcs, UnparkPcs
<1>3. StateInv' /\ FlagInv' /\ ReportInv'
  BY DEF StateInv, FlagInv, ReportInv, IsRunning, RunningPcs, AccessPcs,
     ParkPcs, StoppedPcs, IsCollectionRequested, IsSafepointRequested,
     Targets, ReportPcs, NotifyPcs, SetParked
<1>4. Owing' = Owing
  BY DEF Owing, StateInv, ReportInv, IsSafepointRequested, IsRunning,
     ReportPcs, NotifyPcs, RunningPcs, AccessPcs, ParkPcs, StoppedPcs,
     IsCollectionRequested, SetParked
<1>5. CountInv'
  BY <1>4 DEF CountInv, StoppedPcs
<1>6. QED
  BY <1>1, <1>2, <1>3, <1>5

\* WaitInSafepoint pays one report.
LEMMA ReportInSafepointPreserves ==
  ASSUME SafepointInv, NEW t \in Threads, ReportInSafepoint(t)
  PROVE  SafepointInv'
<1> USE ThreadsAssumption DEF SafepointInv, TypeOK, Threads, Procs, Scopers,
      ReportInSafepoint, Goto, localHeapVars, listVars, collectionVars,
      historyVars
<1>1. TypeOK'
  BY DEF StateBits, MainPcs, ParkPcs, NotifyPcs, UnparkPcs, SleepPcs,
     ScopePcs, BackgroundPcs, InitiatorPcs
<1>2. CallerInv' /\ MutexInv' /\ ArmedInv' /\ HeapsInv'
  BY DEF CallerInv, MutexInv, ArmedInv, HeapsInv, HoldsMutex, ArmedPcs,
     StoppedPcs, UnparkPcs
<1>3. StateInv' /\ FlagInv' /\ ReportInv'
  BY DEF StateInv, FlagInv, ReportInv, IsRunning, RunningPcs, AccessPcs,
     ParkPcs, StoppedPcs, IsCollectionRequested, IsSafepointRequested,
     Targets, ReportPcs, NotifyPcs
<1>4. Owing' = Owing \ {t} /\ t \in Owing
  BY DEF Owing, StateInv, ReportInv, CallerInv, ReportPcs, NotifyPcs, RunningPcs,
     AccessPcs, ParkPcs, StoppedPcs, IsSafepointRequested, IsRunning
<1>5. CountInv'
  <2>1. Cardinality(Owing') = Cardinality(Owing) - 1 /\ Cardinality(Owing) \in Nat
    BY <1>4, OwingIsFinite, FS_RemoveElement, FS_CardinalityType
  <2>2. \A p \in Scopers : pc'[p] = "setFlags" => pc[p] = "setFlags"
    BY DEF CallerInv, NotifyPcs
  <2>3. \A p \in Scopers : pc[p] = "setFlags" => running = stopped + Cardinality(Owing)
    BY DEF CountInv
  <2>4. \A p \in Scopers : pc'[p] = "setFlags" => running' = stopped' + Cardinality(Owing')
    BY <2>1, <2>2, <2>3
  <2>5. \A p \in Scopers : pc'[p] \notin StoppedPcs \union {"clearFlags"}
    BY <1>4 DEF CountInv, CallerInv, StoppedPcs, NotifyPcs
  <2>6. QED
    BY <2>4, <2>5 DEF CountInv
<1>6. QED
  BY <1>1, <1>2, <1>3, <1>5

\* Waking up changes no state word.
LEMMA WakeInSafepointPreserves ==
  ASSUME SafepointInv, NEW t \in Threads, WakeInSafepoint(t)
  PROVE  SafepointInv'
<1> USE ThreadsAssumption DEF SafepointInv, TypeOK, Threads, Procs, Scopers,
      WakeInSafepoint, Goto, listVars, barrierVars, collectionVars,
      historyVars
<1>1. TypeOK'
  BY DEF CallerInv, StateBits, MainPcs, ParkPcs, NotifyPcs, UnparkPcs,
     SleepPcs, ScopePcs, BackgroundPcs, InitiatorPcs
<1>2. CallerInv' /\ MutexInv' /\ ArmedInv' /\ HeapsInv'
  BY DEF CallerInv, MutexInv, ArmedInv, HeapsInv, HoldsMutex, ArmedPcs,
     StoppedPcs, UnparkPcs
<1>3. StateInv' /\ FlagInv' /\ ReportInv'
  BY DEF StateInv, FlagInv, ReportInv, CallerInv, IsRunning, RunningPcs,
     AccessPcs, ParkPcs, StoppedPcs, IsCollectionRequested,
     IsSafepointRequested, Targets, ReportPcs, NotifyPcs
<1>4. Owing' = Owing
  BY DEF Owing, StateInv, ReportInv, CallerInv, IsSafepointRequested,
     IsRunning, ReportPcs, NotifyPcs, RunningPcs, AccessPcs, ParkPcs,
     StoppedPcs, IsCollectionRequested
<1>5. CountInv'
  BY <1>4 DEF CountInv, CallerInv, StoppedPcs
<1>6. QED
  BY <1>1, <1>2, <1>3, <1>5

-----------------------------------------------------------------------------
(* Opening and closing a safepoint scope.                                  *)

\* Wanting a scope changes nothing yet.
LEMMA OpenScopePreserves ==
  ASSUME SafepointInv, OpenScope
  PROVE  SafepointInv'
<1> USE ThreadsAssumption DEF SafepointInv, TypeOK, Threads, Procs, Scopers,
      OpenScope, Goto, listVars, barrierVars, collectionVars, historyVars
<1>1. TypeOK'
  BY DEF StateBits, MainPcs, ParkPcs, NotifyPcs, UnparkPcs, SleepPcs,
     ScopePcs, BackgroundPcs, InitiatorPcs
<1>2. CallerInv' /\ MutexInv' /\ ArmedInv' /\ HeapsInv'
  BY DEF CallerInv, MutexInv, ArmedInv, HeapsInv, HoldsMutex, ArmedPcs,
     StoppedPcs, UnparkPcs
<1>3. StateInv' /\ FlagInv' /\ ReportInv'
  BY DEF StateInv, FlagInv, ReportInv, IsRunning, RunningPcs, AccessPcs,
     ParkPcs, StoppedPcs, IsCollectionRequested, IsSafepointRequested,
     Targets, ReportPcs, NotifyPcs
<1>4. Owing' = Owing
  BY DEF Owing, StateInv, ReportInv, IsSafepointRequested, IsRunning,
     ReportPcs, NotifyPcs, RunningPcs, AccessPcs, ParkPcs, StoppedPcs,
     IsCollectionRequested
<1>5. CountInv'
  BY <1>4 DEF CountInv, StoppedPcs
<1>6. QED
  BY <1>1, <1>2, <1>3, <1>5

\* LockMutex takes the mutex, or parks to wait for it.
LEMMA LockMutexPreserves ==
  ASSUME SafepointInv, LockMutex
  PROVE  SafepointInv'
<1> USE ThreadsAssumption DEF SafepointInv, TypeOK, Threads, Procs, Scopers,
      LockMutex, Goto, barrierVars, collectionVars, historyVars
<1>1. TypeOK'
  BY DEF CallerInv, StateBits, MainPcs, ParkPcs, NotifyPcs, UnparkPcs,
     SleepPcs, ScopePcs, BackgroundPcs, InitiatorPcs
<1>2. CallerInv' /\ MutexInv' /\ ArmedInv' /\ HeapsInv'
  BY DEF CallerInv, MutexInv, ArmedInv, HeapsInv, HoldsMutex, ArmedPcs,
     StoppedPcs, UnparkPcs
<1>3. StateInv' /\ FlagInv' /\ ReportInv'
  BY DEF StateInv, FlagInv, ReportInv, MutexInv, ArmedInv, HeapsInv,
     CallerInv, IsRunning, RunningPcs, AccessPcs, ParkPcs, StoppedPcs,
     IsCollectionRequested, IsSafepointRequested, Targets, ReportPcs,
     NotifyPcs, HoldsMutex, ArmedPcs, UnparkPcs
<1>4. Owing' = Owing
  BY DEF Owing, StateInv, ReportInv, CallerInv, IsSafepointRequested,
     IsRunning, ReportPcs, NotifyPcs, RunningPcs, AccessPcs, ParkPcs,
     StoppedPcs, IsCollectionRequested
<1>5. CountInv'
  BY <1>4 DEF CountInv, CallerInv, MutexInv, StoppedPcs, HoldsMutex, ArmedPcs,
     UnparkPcs
<1>6. QED
  BY <1>1, <1>2, <1>3, <1>5

\* The parked main thread gets the mutex.
LEMMA LockMutexBlockedPreserves ==
  ASSUME SafepointInv, LockMutexBlocked
  PROVE  SafepointInv'
<1> USE ThreadsAssumption DEF SafepointInv, TypeOK, Threads, Procs, Scopers,
      LockMutexBlocked, Goto, localHeapVars, barrierVars, collectionVars,
      historyVars
<1>1. TypeOK'
  BY DEF CallerInv, StateBits, MainPcs, ParkPcs, NotifyPcs, UnparkPcs,
     SleepPcs, ScopePcs, BackgroundPcs, InitiatorPcs
<1>2. CallerInv' /\ MutexInv' /\ ArmedInv' /\ HeapsInv'
  BY DEF CallerInv, MutexInv, ArmedInv, HeapsInv, HoldsMutex, ArmedPcs,
     StoppedPcs, UnparkPcs
<1>3. StateInv' /\ FlagInv' /\ ReportInv'
  BY DEF StateInv, FlagInv, ReportInv, MutexInv, ArmedInv, HeapsInv,
     CallerInv, IsRunning, RunningPcs, AccessPcs, ParkPcs, StoppedPcs,
     IsCollectionRequested, IsSafepointRequested, Targets, ReportPcs,
     NotifyPcs, HoldsMutex, ArmedPcs, UnparkPcs
<1>4. Owing' = Owing
  BY DEF Owing, StateInv, ReportInv, CallerInv, IsSafepointRequested,
     IsRunning, ReportPcs, NotifyPcs, RunningPcs, AccessPcs, ParkPcs,
     StoppedPcs, IsCollectionRequested
<1>5. CountInv'
  BY <1>4 DEF CountInv, CallerInv, MutexInv, StoppedPcs, HoldsMutex, ArmedPcs,
     UnparkPcs
<1>6. QED
  BY <1>1, <1>2, <1>3, <1>5

\* Taking clients_mutex_ changes nothing here.
LEMMA EnterGlobalSafepointScopePreserves ==
  ASSUME SafepointInv, EnterGlobalSafepointScope
  PROVE  SafepointInv'
<1> USE ThreadsAssumption DEF SafepointInv, TypeOK, Threads, Procs, Scopers,
      EnterGlobalSafepointScope, Goto, localHeapVars, listVars, barrierVars,
      collectionVars, historyVars
<1>1. TypeOK'
  BY DEF StateBits, MainPcs, ParkPcs, NotifyPcs, UnparkPcs, SleepPcs,
     ScopePcs, BackgroundPcs, InitiatorPcs
<1>2. CallerInv' /\ MutexInv' /\ ArmedInv' /\ HeapsInv'
  BY DEF CallerInv, MutexInv, ArmedInv, HeapsInv, HoldsMutex, ArmedPcs,
     StoppedPcs, UnparkPcs
<1>3. StateInv' /\ FlagInv' /\ ReportInv'
  BY DEF StateInv, FlagInv, ReportInv, IsRunning, RunningPcs, AccessPcs,
     ParkPcs, StoppedPcs, IsCollectionRequested, IsSafepointRequested,
     Targets, ReportPcs, NotifyPcs
<1>4. Owing' = Owing
  BY DEF Owing, StateInv, ReportInv, IsSafepointRequested, IsRunning,
     ReportPcs, NotifyPcs, RunningPcs, AccessPcs, ParkPcs, StoppedPcs,
     IsCollectionRequested
<1>5. CountInv'
  BY <1>4 DEF CountInv, StoppedPcs
<1>6. QED
  BY <1>1, <1>2, <1>3, <1>5

\* Another isolate's main thread gets the mutex.
LEMMA InitiateGlobalSafepointScopePreserves ==
  ASSUME SafepointInv, InitiateGlobalSafepointScope
  PROVE  SafepointInv'
<1> USE ThreadsAssumption DEF SafepointInv, TypeOK, Threads, Procs, Scopers,
      InitiateGlobalSafepointScope, Goto, localHeapVars, barrierVars,
      collectionVars, historyVars
<1>1. TypeOK'
  BY DEF StateBits, MainPcs, ParkPcs, NotifyPcs, UnparkPcs, SleepPcs,
     ScopePcs, BackgroundPcs, InitiatorPcs
<1>2. CallerInv' /\ MutexInv' /\ ArmedInv' /\ HeapsInv'
  BY DEF CallerInv, MutexInv, ArmedInv, HeapsInv, HoldsMutex, ArmedPcs,
     StoppedPcs, UnparkPcs
<1>3. StateInv' /\ FlagInv' /\ ReportInv'
  BY DEF StateInv, FlagInv, ReportInv, MutexInv, ArmedInv, HeapsInv,
     IsRunning, RunningPcs, AccessPcs, ParkPcs, StoppedPcs,
     IsCollectionRequested, IsSafepointRequested, Targets, ReportPcs,
     NotifyPcs, HoldsMutex, ArmedPcs, UnparkPcs
<1>4. Owing' = Owing
  BY DEF Owing, StateInv, ReportInv, IsSafepointRequested, IsRunning,
     ReportPcs, NotifyPcs, RunningPcs, AccessPcs, ParkPcs, StoppedPcs,
     IsCollectionRequested
<1>5. CountInv'
  BY <1>4 DEF CountInv, MutexInv, StoppedPcs, HoldsMutex, ArmedPcs, UnparkPcs
<1>6. QED
  BY <1>1, <1>2, <1>3, <1>5

\* Arm starts from zero: no thread is flagged and none owes a report.
LEMMA ArmPreserves ==
  ASSUME SafepointInv, NEW p \in Scopers, Arm(p)
  PROVE  SafepointInv'
<1> USE ThreadsAssumption DEF SafepointInv, TypeOK, Threads, Procs, Scopers,
      Arm, Targets, Goto, localHeapVars, collectionVars, historyVars
<1>1. TypeOK'
  <2>1. armed' \in BOOLEAN
    OBVIOUS
  <2>2. QED
    BY <2>1, ParametersAssumption DEF ArmedInv, MutexInv, ArmedPcs,
       StoppedPcs, HoldsMutex, UnparkPcs, StateBits, MainPcs, ParkPcs,
       NotifyPcs, SleepPcs, ScopePcs, BackgroundPcs, InitiatorPcs
<1>2. CallerInv' /\ MutexInv' /\ ArmedInv' /\ HeapsInv'
  BY DEF CallerInv, MutexInv, ArmedInv, HeapsInv, HoldsMutex, ArmedPcs,
     StoppedPcs, UnparkPcs
<1>3. StateInv' /\ FlagInv' /\ ReportInv'
  BY DEF StateInv, FlagInv, ReportInv, MutexInv, ArmedInv, HeapsInv,
     IsRunning, RunningPcs, AccessPcs, ParkPcs, StoppedPcs,
     IsCollectionRequested, IsSafepointRequested, ReportPcs, NotifyPcs,
     HoldsMutex, ArmedPcs, UnparkPcs
<1>4. Owing' = {} /\ Cardinality(Owing') = 0
  <2>1. Owing' = {}
    BY DEF Owing, StateInv, ReportInv, FlagInv, ArmedInv, MutexInv, HoldsMutex,
       ReportPcs, NotifyPcs, ArmedPcs, StoppedPcs, UnparkPcs, IsSafepointRequested
  <2>2. QED
    BY <2>1, FS_EmptySet
<1>5. CountInv'
  BY <1>4 DEF CountInv, MutexInv, HoldsMutex, ArmedPcs, StoppedPcs
<1>6. QED
  BY <1>1, <1>2, <1>3, <1>5

\* Flagging a running thread raises the count and the debt together.
LEMMA SetSafepointRequestedFlagPreserves ==
  ASSUME SafepointInv, NEW p \in Scopers, NEW h \in Threads, SetSafepointRequestedFlag(p, h)
  PROVE  SafepointInv'
<1> USE ThreadsAssumption DEF SafepointInv, TypeOK, Threads, Procs, Scopers,
      SetSafepointRequestedFlag, SetState, listVars, collectionVars,
      historyVars
<1>1. TypeOK'
  BY DEF SetSafepointRequested, IsRunning, StateBits, MainPcs, ParkPcs,
     NotifyPcs, UnparkPcs, SleepPcs, ScopePcs, BackgroundPcs, InitiatorPcs
<1>2. CallerInv' /\ MutexInv' /\ ArmedInv' /\ HeapsInv'
  BY DEF CallerInv, MutexInv, ArmedInv, HeapsInv, HoldsMutex, ArmedPcs,
     StoppedPcs, UnparkPcs
<1>3. StateInv' /\ FlagInv' /\ ReportInv'
  BY DEF StateInv, FlagInv, ReportInv, MutexInv, ArmedInv, CountInv,
     IsRunning, RunningPcs, AccessPcs, ParkPcs, StoppedPcs,
     IsCollectionRequested, IsSafepointRequested, Targets, ReportPcs,
     NotifyPcs, HoldsMutex, ArmedPcs, UnparkPcs, Owing, SetSafepointRequested
<1>4. Owing' = IF IsRunning(state[h]) THEN Owing \union {h} ELSE Owing
  BY DEF Owing, FlagInv, ReportInv, ReportPcs, NotifyPcs, IsSafepointRequested,
     IsRunning, SetSafepointRequested
<1>5. CountInv'
  <2>1. h \notin Owing
    BY DEF Owing, FlagInv
  <2>2. Cardinality(Owing) \in Nat
    BY OwingIsFinite, FS_CardinalityType
  <2>3. running = stopped + Cardinality(Owing)
    BY DEF CountInv
  <2>4. running' = stopped' + Cardinality(Owing')
    <3>1. CASE IsRunning(state[h])
      <4>1. Cardinality(Owing') = Cardinality(Owing) + 1
        BY <1>4, <2>1, <3>1, OwingIsFinite, FS_AddElement
      <4>2. QED
        BY <2>2, <2>3, <3>1, <4>1
    <3>2. CASE ~IsRunning(state[h])
      BY <1>4, <2>3, <3>2
    <3>3. QED
      BY <3>1, <3>2
  <2>5. \A o \in Scopers : pc'[o] \notin StoppedPcs \union {"clearFlags"}
    BY DEF MutexInv, HoldsMutex, ArmedPcs, StoppedPcs
  <2>6. QED
    BY <2>4, <2>5 DEF CountInv
<1>6. QED
  BY <1>1, <1>2, <1>3, <1>5

\* The wait ends only when no thread owes a report.
LEMMA WaitUntilRunningThreadsInSafepointPreserves ==
  ASSUME SafepointInv, NEW p \in Scopers, WaitUntilRunningThreadsInSafepoint(p)
  PROVE  SafepointInv'
<1> USE ThreadsAssumption DEF SafepointInv, TypeOK, Threads, Procs, Scopers,
      WaitUntilRunningThreadsInSafepoint, Goto, localHeapVars, listVars,
      barrierVars, collectionVars, historyVars
<1>1. TypeOK'
  BY DEF StateBits, MainPcs, ParkPcs, NotifyPcs, UnparkPcs, SleepPcs,
     ScopePcs, BackgroundPcs, InitiatorPcs
<1>2. CallerInv' /\ MutexInv' /\ ArmedInv' /\ HeapsInv'
  BY DEF CallerInv, MutexInv, ArmedInv, HeapsInv, HoldsMutex, ArmedPcs,
     StoppedPcs, UnparkPcs
<1>3. StateInv' /\ FlagInv' /\ ReportInv'
  BY DEF StateInv, FlagInv, ReportInv, MutexInv, ArmedInv, HeapsInv,
     IsRunning, RunningPcs, AccessPcs, ParkPcs, StoppedPcs,
     IsCollectionRequested, IsSafepointRequested, Targets, ReportPcs,
     NotifyPcs, HoldsMutex, ArmedPcs, UnparkPcs
<1>4. Owing' = Owing
  BY DEF Owing, ReportInv, ReportPcs, NotifyPcs, IsSafepointRequested, IsRunning
<1>5. CountInv'
  <2>1. Cardinality(Owing) \in Nat /\ (Cardinality(Owing) = 0 => Owing = {})
    BY OwingIsFinite, FS_CardinalityType, FS_EmptySet
  <2>2. running = stopped + Cardinality(Owing)
    BY DEF CountInv
  <2>3. ~(stopped < running) => Owing = {}
    BY <2>1, <2>2
  <2>4. QED
    BY <1>4, <2>2, <2>3 DEF CountInv, MutexInv, HoldsMutex, ArmedPcs, StoppedPcs
<1>6. QED
  BY <1>1, <1>2, <1>3, <1>5

\* A nested scope only counts up.
LEMMA EnterNestedScopePreserves ==
  ASSUME SafepointInv, EnterNestedScope
  PROVE  SafepointInv'
<1> USE ThreadsAssumption DEF SafepointInv, TypeOK, Threads, Procs, Scopers,
      EnterNestedScope, localHeapVars, barrierVars, collectionVars,
      historyVars
<1>1. TypeOK'
  BY ParametersAssumption DEF StateBits, MainPcs, ParkPcs, NotifyPcs,
     UnparkPcs, SleepPcs, ScopePcs, BackgroundPcs, InitiatorPcs
<1>2. CallerInv' /\ MutexInv' /\ ArmedInv' /\ HeapsInv'
  BY DEF CallerInv, MutexInv, ArmedInv, HeapsInv, HoldsMutex, ArmedPcs,
     StoppedPcs, UnparkPcs
<1>3. StateInv' /\ FlagInv' /\ ReportInv'
  BY DEF StateInv, FlagInv, ReportInv, MutexInv, ArmedInv, HeapsInv,
     IsRunning, RunningPcs, AccessPcs, ParkPcs, StoppedPcs,
     IsCollectionRequested, IsSafepointRequested, Targets, ReportPcs,
     NotifyPcs, HoldsMutex, ArmedPcs, UnparkPcs
<1>4. Owing' = Owing
  BY DEF Owing, StateInv, ReportInv, IsSafepointRequested, IsRunning,
     ReportPcs, NotifyPcs, RunningPcs, AccessPcs, ParkPcs, StoppedPcs,
     IsCollectionRequested
<1>5. CountInv'
  BY <1>4 DEF CountInv, MutexInv, StoppedPcs, HoldsMutex, ArmedPcs, UnparkPcs
<1>6. QED
  BY <1>1, <1>2, <1>3, <1>5

\* Leaving a nested scope only counts down.
LEMMA LeaveNestedScopePreserves ==
  ASSUME SafepointInv, LeaveNestedScope
  PROVE  SafepointInv'
<1> USE ThreadsAssumption DEF SafepointInv, TypeOK, Threads, Procs, Scopers,
      LeaveNestedScope, localHeapVars, barrierVars, collectionVars,
      historyVars
<1>1. TypeOK'
  BY ParametersAssumption DEF StateBits, MainPcs, ParkPcs, NotifyPcs,
     UnparkPcs, SleepPcs, ScopePcs, BackgroundPcs, InitiatorPcs
<1>2. CallerInv' /\ MutexInv' /\ ArmedInv' /\ HeapsInv'
  BY DEF CallerInv, MutexInv, ArmedInv, HeapsInv, HoldsMutex, ArmedPcs,
     StoppedPcs, UnparkPcs
<1>3. StateInv' /\ FlagInv' /\ ReportInv'
  BY DEF StateInv, FlagInv, ReportInv, MutexInv, ArmedInv, HeapsInv,
     IsRunning, RunningPcs, AccessPcs, ParkPcs, StoppedPcs,
     IsCollectionRequested, IsSafepointRequested, Targets, ReportPcs,
     NotifyPcs, HoldsMutex, ArmedPcs, UnparkPcs
<1>4. Owing' = Owing
  BY DEF Owing, StateInv, ReportInv, IsSafepointRequested, IsRunning,
     ReportPcs, NotifyPcs, RunningPcs, AccessPcs, ParkPcs, StoppedPcs,
     IsCollectionRequested
<1>5. CountInv'
  BY <1>4 DEF CountInv, MutexInv, StoppedPcs, HoldsMutex, ArmedPcs, UnparkPcs
<1>6. QED
  BY <1>1, <1>2, <1>3, <1>5

\* Leaving the outermost scope starts the clearing of the flags.
LEMMA LeaveSafepointScopePreserves ==
  ASSUME SafepointInv, NEW p \in Scopers, LeaveSafepointScope(p)
  PROVE  SafepointInv'
<1> USE ThreadsAssumption DEF SafepointInv, TypeOK, Threads, Procs, Scopers,
      LeaveSafepointScope, Targets, Goto, localHeapVars, collectionVars,
      historyVars
<1>1. TypeOK'
  BY ParametersAssumption DEF StateBits, MainPcs, ParkPcs, NotifyPcs,
     UnparkPcs, SleepPcs, ScopePcs, BackgroundPcs, InitiatorPcs
<1>2. CallerInv' /\ MutexInv' /\ ArmedInv' /\ HeapsInv'
  BY DEF CallerInv, MutexInv, ArmedInv, HeapsInv, HoldsMutex, ArmedPcs,
     StoppedPcs, UnparkPcs
<1>3. StateInv' /\ FlagInv' /\ ReportInv'
  BY DEF StateInv, FlagInv, ReportInv, MutexInv, ArmedInv, HeapsInv,
     IsRunning, RunningPcs, AccessPcs, ParkPcs, StoppedPcs,
     IsCollectionRequested, IsSafepointRequested, ReportPcs, NotifyPcs,
     HoldsMutex, ArmedPcs, UnparkPcs
<1>4. Owing' = Owing
  BY DEF Owing, StateInv, ReportInv, IsSafepointRequested, IsRunning,
     ReportPcs, NotifyPcs, RunningPcs, AccessPcs, ParkPcs, StoppedPcs,
     IsCollectionRequested
<1>5. CountInv'
  BY <1>4 DEF CountInv, MutexInv, StoppedPcs, HoldsMutex, ArmedPcs, UnparkPcs
<1>6. QED
  BY <1>1, <1>2, <1>3, <1>5

\* Clearing a flag frees a parked thread that owes nothing.
LEMMA ClearSafepointRequestedFlagPreserves ==
  ASSUME SafepointInv, NEW p \in Scopers, NEW h \in Threads, ClearSafepointRequestedFlag(p, h)
  PROVE  SafepointInv'
<1> USE ThreadsAssumption DEF SafepointInv, TypeOK, Threads, Procs, Scopers,
      ClearSafepointRequestedFlag, SetState, listVars, collectionVars,
      historyVars
<1>1. TypeOK'
  BY DEF ClearSafepointRequested, StateBits, MainPcs, ParkPcs, NotifyPcs,
     UnparkPcs, SleepPcs, ScopePcs, BackgroundPcs, InitiatorPcs
<1>2. CallerInv' /\ MutexInv' /\ ArmedInv' /\ HeapsInv'
  BY DEF CallerInv, MutexInv, ArmedInv, HeapsInv, HoldsMutex, ArmedPcs,
     StoppedPcs, UnparkPcs
<1>3. StateInv' /\ FlagInv' /\ ReportInv'
  BY DEF StateInv, FlagInv, ReportInv, MutexInv, ArmedInv, CountInv,
     IsRunning, RunningPcs, AccessPcs, ParkPcs, StoppedPcs,
     IsCollectionRequested, IsSafepointRequested, Targets, ReportPcs,
     NotifyPcs, HoldsMutex, ArmedPcs, UnparkPcs, Owing,
     ClearSafepointRequested
<1>4. Owing' = Owing
  BY DEF Owing, StateInv, ReportInv, FlagInv, CountInv, IsSafepointRequested,
     IsRunning, ReportPcs, NotifyPcs, RunningPcs, AccessPcs, ParkPcs,
     StoppedPcs, IsCollectionRequested, Targets, ClearSafepointRequested
<1>5. CountInv'
  BY <1>4 DEF CountInv, MutexInv, StoppedPcs, HoldsMutex, ArmedPcs, UnparkPcs
<1>6. QED
  BY <1>1, <1>2, <1>3, <1>5

\* When the barrier is disarmed no flag is left.
LEMMA DisarmPreserves ==
  ASSUME SafepointInv, NEW p \in Scopers, Disarm(p)
  PROVE  SafepointInv'
<1> USE ThreadsAssumption DEF SafepointInv, TypeOK, Threads, Procs, Scopers,
      Disarm, NotifyAll, Goto, localHeapVars, listVars, collectionVars,
      historyVars
<1>1. TypeOK'
  <2>1. armed' \in BOOLEAN
    OBVIOUS
  <2>2. QED
    BY <2>1 DEF StateBits, MainPcs, ParkPcs, NotifyPcs, UnparkPcs, SleepPcs,
       ScopePcs, BackgroundPcs, InitiatorPcs
<1>2. CallerInv' /\ MutexInv' /\ ArmedInv' /\ HeapsInv'
  BY DEF CallerInv, MutexInv, ArmedInv, HeapsInv, HoldsMutex, ArmedPcs,
     StoppedPcs, UnparkPcs
<1>3. StateInv' /\ FlagInv' /\ ReportInv'
  BY DEF StateInv, FlagInv, ReportInv, MutexInv, ArmedInv, HeapsInv,
     IsRunning, RunningPcs, AccessPcs, ParkPcs, StoppedPcs,
     IsCollectionRequested, IsSafepointRequested, Targets, ReportPcs,
     NotifyPcs, HoldsMutex, ArmedPcs, UnparkPcs
<1>4. Owing' = Owing
  BY DEF Owing, StateInv, ReportInv, IsSafepointRequested, IsRunning,
     ReportPcs, NotifyPcs, RunningPcs, AccessPcs, ParkPcs, StoppedPcs,
     IsCollectionRequested
<1>5. CountInv'
  BY <1>4 DEF CountInv, MutexInv, StoppedPcs, HoldsMutex, ArmedPcs, UnparkPcs
<1>6. QED
  BY <1>1, <1>2, <1>3, <1>5

\* The main thread releases the mutex.
LEMMA UnlockLocalPreserves ==
  ASSUME SafepointInv, UnlockLocal
  PROVE  SafepointInv'
<1> USE ThreadsAssumption DEF SafepointInv, TypeOK, Threads, Procs, Scopers,
      UnlockLocal, Goto, barrierVars, collectionVars, historyVars
<1>1. TypeOK'
  BY DEF CallerInv, StateBits, MainPcs, ParkPcs, NotifyPcs, UnparkPcs,
     SleepPcs, ScopePcs, BackgroundPcs, InitiatorPcs
<1>2. CallerInv' /\ MutexInv' /\ ArmedInv' /\ HeapsInv'
  BY DEF CallerInv, MutexInv, ArmedInv, HeapsInv, HoldsMutex, ArmedPcs,
     StoppedPcs, UnparkPcs
<1>3. StateInv' /\ FlagInv' /\ ReportInv'
  BY DEF StateInv, FlagInv, ReportInv, MutexInv, ArmedInv, HeapsInv,
     CallerInv, IsRunning, RunningPcs, AccessPcs, ParkPcs, StoppedPcs,
     IsCollectionRequested, IsSafepointRequested, Targets, ReportPcs,
     NotifyPcs, HoldsMutex, ArmedPcs, UnparkPcs
<1>4. Owing' = Owing
  BY DEF Owing, StateInv, ReportInv, CallerInv, IsSafepointRequested,
     IsRunning, ReportPcs, NotifyPcs, RunningPcs, AccessPcs, ParkPcs,
     StoppedPcs, IsCollectionRequested
<1>5. CountInv'
  BY <1>4 DEF CountInv, CallerInv, MutexInv, StoppedPcs, HoldsMutex, ArmedPcs,
     UnparkPcs
<1>6. QED
  BY <1>1, <1>2, <1>3, <1>5

\* The other isolate's main thread releases the mutexes.
LEMMA UnlockGlobalPreserves ==
  ASSUME SafepointInv, UnlockGlobal
  PROVE  SafepointInv'
<1> USE ThreadsAssumption DEF SafepointInv, TypeOK, Threads, Procs, Scopers,
      UnlockGlobal, Goto, localHeapVars, barrierVars, collectionVars,
      historyVars
<1>1. TypeOK'
  BY DEF StateBits, MainPcs, ParkPcs, NotifyPcs, UnparkPcs, SleepPcs,
     ScopePcs, BackgroundPcs, InitiatorPcs
<1>2. CallerInv' /\ MutexInv' /\ ArmedInv' /\ HeapsInv'
  BY DEF CallerInv, MutexInv, ArmedInv, HeapsInv, HoldsMutex, ArmedPcs,
     StoppedPcs, UnparkPcs
<1>3. StateInv' /\ FlagInv' /\ ReportInv'
  BY DEF StateInv, FlagInv, ReportInv, MutexInv, ArmedInv, HeapsInv,
     IsRunning, RunningPcs, AccessPcs, ParkPcs, StoppedPcs,
     IsCollectionRequested, IsSafepointRequested, Targets, ReportPcs,
     NotifyPcs, HoldsMutex, ArmedPcs, UnparkPcs
<1>4. Owing' = Owing
  BY DEF Owing, StateInv, ReportInv, IsSafepointRequested, IsRunning,
     ReportPcs, NotifyPcs, RunningPcs, AccessPcs, ParkPcs, StoppedPcs,
     IsCollectionRequested
<1>5. CountInv'
  BY <1>4 DEF CountInv, MutexInv, StoppedPcs, HoldsMutex, ArmedPcs, UnparkPcs
<1>6. QED
  BY <1>1, <1>2, <1>3, <1>5

-----------------------------------------------------------------------------
(* The collection, the collection barrier and the tear-down.               *)

\* Stopping the timer concerns no safepoint.
LEMMA StopTimeToCollectionTimerPreserves ==
  ASSUME SafepointInv, StopTimeToCollectionTimer
  PROVE  SafepointInv'
<1> USE ThreadsAssumption DEF SafepointInv, TypeOK, Threads, Procs, Scopers,
      StopTimeToCollectionTimer, Goto, localHeapVars, listVars, barrierVars,
      historyVars
<1>1. TypeOK'
  <2>1. /\ timerStarted' \in BOOLEAN /\ collectionRequested' \in BOOLEAN
        /\ blockForCollection' \in BOOLEAN /\ collectionPerformed' \in BOOLEAN
        /\ shutdownRequested' \in BOOLEAN
    OBVIOUS
  <2>2. QED
    BY <2>1 DEF StateBits, MainPcs, ParkPcs, NotifyPcs, UnparkPcs, SleepPcs,
       ScopePcs, BackgroundPcs, InitiatorPcs
<1>2. CallerInv' /\ MutexInv' /\ ArmedInv' /\ HeapsInv'
  BY DEF CallerInv, MutexInv, ArmedInv, HeapsInv, HoldsMutex, ArmedPcs,
     StoppedPcs, UnparkPcs
<1>3. StateInv' /\ FlagInv' /\ ReportInv'
  BY DEF StateInv, FlagInv, ReportInv, MutexInv, ArmedInv, HeapsInv,
     IsRunning, RunningPcs, AccessPcs, ParkPcs, StoppedPcs,
     IsCollectionRequested, IsSafepointRequested, Targets, ReportPcs,
     NotifyPcs, HoldsMutex, ArmedPcs, UnparkPcs
<1>4. Owing' = Owing
  BY DEF Owing, StateInv, ReportInv, IsSafepointRequested, IsRunning,
     ReportPcs, NotifyPcs, RunningPcs, AccessPcs, ParkPcs, StoppedPcs,
     IsCollectionRequested
<1>5. CountInv'
  BY <1>4 DEF CountInv, MutexInv, StoppedPcs, HoldsMutex, ArmedPcs, UnparkPcs
<1>6. QED
  BY <1>1, <1>2, <1>3, <1>5

\* Dropping the main thread's collection bit touches no other bit.
LEMMA CollectGarbagePreserves ==
  ASSUME SafepointInv, CollectGarbage
  PROVE  SafepointInv'
<1> USE ThreadsAssumption DEF SafepointInv, TypeOK, Threads, Procs, Scopers,
      CollectGarbage, SetState, Goto, listVars, barrierVars, collectionVars
<1>1. TypeOK'
  BY DEF ClearCollectionRequested, StateBits, MainPcs, ParkPcs, NotifyPcs,
     UnparkPcs, SleepPcs, ScopePcs, BackgroundPcs, InitiatorPcs
<1>2. CallerInv' /\ MutexInv' /\ ArmedInv' /\ HeapsInv'
  BY DEF CallerInv, MutexInv, ArmedInv, HeapsInv, HoldsMutex, ArmedPcs,
     StoppedPcs, UnparkPcs
<1>3. StateInv' /\ FlagInv' /\ ReportInv'
  BY DEF StateInv, FlagInv, ReportInv, MutexInv, ArmedInv, HeapsInv,
     IsRunning, RunningPcs, AccessPcs, ParkPcs, StoppedPcs,
     IsCollectionRequested, IsSafepointRequested, Targets, ReportPcs,
     NotifyPcs, HoldsMutex, ArmedPcs, UnparkPcs, ClearCollectionRequested
<1>4. Owing' = Owing
  BY DEF Owing, StateInv, ReportInv, IsSafepointRequested, IsRunning,
     ReportPcs, NotifyPcs, RunningPcs, AccessPcs, ParkPcs, StoppedPcs,
     IsCollectionRequested, ClearCollectionRequested
<1>5. CountInv'
  BY <1>4 DEF CountInv, MutexInv, StoppedPcs, HoldsMutex, ArmedPcs, UnparkPcs
<1>6. QED
  BY <1>1, <1>2, <1>3, <1>5

\* Resuming the waiters concerns no safepoint.
LEMMA ResumeThreadsAwaitingCollectionPreserves ==
  ASSUME SafepointInv, ResumeThreadsAwaitingCollection
  PROVE  SafepointInv'
<1> USE ThreadsAssumption DEF SafepointInv, TypeOK, Threads, Procs, Scopers,
      ResumeThreadsAwaitingCollection, NotifyAll, Goto, localHeapVars,
      listVars, barrierVars, historyVars
<1>1. TypeOK'
  <2>1. /\ timerStarted' \in BOOLEAN /\ collectionRequested' \in BOOLEAN
        /\ blockForCollection' \in BOOLEAN /\ collectionPerformed' \in BOOLEAN
        /\ shutdownRequested' \in BOOLEAN
    OBVIOUS
  <2>2. QED
    BY <2>1 DEF StateBits, MainPcs, ParkPcs, NotifyPcs, UnparkPcs, SleepPcs,
       ScopePcs, BackgroundPcs, InitiatorPcs
<1>2. CallerInv' /\ MutexInv' /\ ArmedInv' /\ HeapsInv'
  BY DEF CallerInv, MutexInv, ArmedInv, HeapsInv, HoldsMutex, ArmedPcs,
     StoppedPcs, UnparkPcs
<1>3. StateInv' /\ FlagInv' /\ ReportInv'
  BY DEF StateInv, FlagInv, ReportInv, MutexInv, ArmedInv, HeapsInv,
     IsRunning, RunningPcs, AccessPcs, ParkPcs, StoppedPcs,
     IsCollectionRequested, IsSafepointRequested, Targets, ReportPcs,
     NotifyPcs, HoldsMutex, ArmedPcs, UnparkPcs
<1>4. Owing' = Owing
  BY DEF Owing, StateInv, ReportInv, IsSafepointRequested, IsRunning,
     ReportPcs, NotifyPcs, RunningPcs, AccessPcs, ParkPcs, StoppedPcs,
     IsCollectionRequested
<1>5. CountInv'
  BY <1>4 DEF CountInv, MutexInv, StoppedPcs, HoldsMutex, ArmedPcs, UnparkPcs
<1>6. QED
  BY <1>1, <1>2, <1>3, <1>5

\* A request concerns no safepoint.
LEMMA TryRequestGCPreserves ==
  ASSUME SafepointInv, NEW b \in Background, TryRequestGC(b)
  PROVE  SafepointInv'
<1> USE ThreadsAssumption DEF SafepointInv, TypeOK, Threads, Procs, Scopers,
      TryRequestGC, Goto, localHeapVars, listVars, barrierVars
<1>1. TypeOK'
  <2>1. /\ timerStarted' \in BOOLEAN /\ collectionRequested' \in BOOLEAN
        /\ blockForCollection' \in BOOLEAN /\ collectionPerformed' \in BOOLEAN
        /\ shutdownRequested' \in BOOLEAN
    OBVIOUS
  <2>2. QED
    BY <2>1 DEF StateBits, MainPcs, ParkPcs, NotifyPcs, UnparkPcs, SleepPcs,
       ScopePcs, BackgroundPcs, InitiatorPcs
<1>2. CallerInv' /\ MutexInv' /\ ArmedInv' /\ HeapsInv'
  BY DEF CallerInv, MutexInv, ArmedInv, HeapsInv, HoldsMutex, ArmedPcs,
     StoppedPcs, UnparkPcs
<1>3. StateInv' /\ FlagInv' /\ ReportInv'
  BY DEF StateInv, FlagInv, ReportInv, IsRunning, RunningPcs, AccessPcs,
     ParkPcs, StoppedPcs, IsCollectionRequested, IsSafepointRequested,
     Targets, ReportPcs, NotifyPcs
<1>4. Owing' = Owing
  BY DEF Owing, StateInv, ReportInv, IsSafepointRequested, IsRunning,
     ReportPcs, NotifyPcs, RunningPcs, AccessPcs, ParkPcs, StoppedPcs,
     IsCollectionRequested
<1>5. CountInv'
  BY <1>4 DEF CountInv, StoppedPcs
<1>6. QED
  BY <1>1, <1>2, <1>3, <1>5

\* Setting the main thread's collection bit touches no other bit.
LEMMA RequestCollectionPreserves ==
  ASSUME SafepointInv, NEW b \in Background, RequestCollection(b)
  PROVE  SafepointInv'
<1> USE ThreadsAssumption DEF SafepointInv, TypeOK, Threads, Procs, Scopers,
      RequestCollection, SetState, Goto, listVars, barrierVars,
      collectionVars, historyVars
<1>1. TypeOK'
  BY DEF SetCollectionRequested, IsRunning, StateBits, MainPcs, ParkPcs,
     NotifyPcs, UnparkPcs, SleepPcs, ScopePcs, BackgroundPcs, InitiatorPcs
<1>2. CallerInv' /\ MutexInv' /\ ArmedInv' /\ HeapsInv'
  BY DEF CallerInv, MutexInv, ArmedInv, HeapsInv, HoldsMutex, ArmedPcs,
     StoppedPcs, UnparkPcs
<1>3. StateInv' /\ FlagInv' /\ ReportInv'
  BY DEF StateInv, FlagInv, ReportInv, IsRunning, RunningPcs, AccessPcs,
     ParkPcs, StoppedPcs, IsCollectionRequested, IsSafepointRequested,
     Targets, ReportPcs, NotifyPcs, SetCollectionRequested
<1>4. Owing' = Owing
  BY DEF Owing, StateInv, ReportInv, IsSafepointRequested, IsRunning,
     ReportPcs, NotifyPcs, RunningPcs, AccessPcs, ParkPcs, StoppedPcs,
     IsCollectionRequested, SetCollectionRequested
<1>5. CountInv'
  BY <1>4 DEF CountInv, StoppedPcs
<1>6. QED
  BY <1>1, <1>2, <1>3, <1>5

\* The wait for a collection begins with the thread still running.
LEMMA AwaitCollectionPreserves ==
  ASSUME SafepointInv, NEW b \in Background, AwaitCollection(b)
  PROVE  SafepointInv'
<1> USE ThreadsAssumption DEF SafepointInv, TypeOK, Threads, Procs, Scopers,
      AwaitCollection, Goto, listVars, barrierVars, historyVars
<1>1. TypeOK'
  <2>1. /\ timerStarted' \in BOOLEAN /\ collectionRequested' \in BOOLEAN
        /\ blockForCollection' \in BOOLEAN /\ collectionPerformed' \in BOOLEAN
        /\ shutdownRequested' \in BOOLEAN
    OBVIOUS
  <2>2. QED
    BY <2>1 DEF CallerInv, StateBits, MainPcs, ParkPcs, NotifyPcs, UnparkPcs,
       SleepPcs, ScopePcs, BackgroundPcs, InitiatorPcs
<1>2. CallerInv' /\ MutexInv' /\ ArmedInv' /\ HeapsInv'
  BY DEF CallerInv, MutexInv, ArmedInv, HeapsInv, HoldsMutex, ArmedPcs,
     StoppedPcs, UnparkPcs
<1>3. StateInv' /\ FlagInv' /\ ReportInv'
  BY DEF StateInv, FlagInv, ReportInv, CallerInv, IsRunning, RunningPcs,
     AccessPcs, ParkPcs, StoppedPcs, IsCollectionRequested,
     IsSafepointRequested, Targets, ReportPcs, NotifyPcs
<1>4. Owing' = Owing
  BY DEF Owing, StateInv, ReportInv, CallerInv, IsSafepointRequested,
     IsRunning, ReportPcs, NotifyPcs, RunningPcs, AccessPcs, ParkPcs,
     StoppedPcs, IsCollectionRequested
<1>5. CountInv'
  BY <1>4 DEF CountInv, CallerInv, StoppedPcs
<1>6. QED
  BY <1>1, <1>2, <1>3, <1>5

\* The interrupt concerns no safepoint.
LEMMA ActivateStackGuardAndPostTaskPreserves ==
  ASSUME SafepointInv, NEW b \in Background, ActivateStackGuardAndPostTask(b)
  PROVE  SafepointInv'
<1> USE ThreadsAssumption DEF SafepointInv, TypeOK, Threads, Procs, Scopers,
      ActivateStackGuardAndPostTask, Goto, localHeapVars, listVars,
      barrierVars, collectionVars, historyVars
<1>1. TypeOK'
  <2>1. interrupt' \in BOOLEAN
    OBVIOUS
  <2>2. QED
    BY <2>1 DEF StateBits, MainPcs, ParkPcs, NotifyPcs, UnparkPcs, SleepPcs,
       ScopePcs, BackgroundPcs, InitiatorPcs
<1>2. CallerInv' /\ MutexInv' /\ ArmedInv' /\ HeapsInv'
  BY DEF CallerInv, MutexInv, ArmedInv, HeapsInv, HoldsMutex, ArmedPcs,
     StoppedPcs, UnparkPcs
<1>3. StateInv' /\ FlagInv' /\ ReportInv'
  BY DEF StateInv, FlagInv, ReportInv, IsRunning, RunningPcs, AccessPcs,
     ParkPcs, StoppedPcs, IsCollectionRequested, IsSafepointRequested,
     Targets, ReportPcs, NotifyPcs
<1>4. Owing' = Owing
  BY DEF Owing, StateInv, ReportInv, IsSafepointRequested, IsRunning,
     ReportPcs, NotifyPcs, RunningPcs, AccessPcs, ParkPcs, StoppedPcs,
     IsCollectionRequested
<1>5. CountInv'
  BY <1>4 DEF CountInv, StoppedPcs
<1>6. QED
  BY <1>1, <1>2, <1>3, <1>5

\* The end of the wait leaves the thread parked.
LEMMA WaitForCollectionPreserves ==
  ASSUME SafepointInv, NEW b \in Background, WaitForCollection(b)
  PROVE  SafepointInv'
<1> USE ThreadsAssumption DEF SafepointInv, TypeOK, Threads, Procs, Scopers,
      WaitForCollection, Goto, localHeapVars, listVars, barrierVars,
      collectionVars
<1>1. TypeOK'
  BY DEF StateBits, MainPcs, ParkPcs, NotifyPcs, UnparkPcs, SleepPcs,
     ScopePcs, BackgroundPcs, InitiatorPcs
<1>2. CallerInv' /\ MutexInv' /\ ArmedInv' /\ HeapsInv'
  BY DEF CallerInv, MutexInv, ArmedInv, HeapsInv, HoldsMutex, ArmedPcs,
     StoppedPcs, UnparkPcs
<1>3. StateInv' /\ FlagInv' /\ ReportInv'
  BY DEF StateInv, FlagInv, ReportInv, IsRunning, RunningPcs, AccessPcs,
     ParkPcs, StoppedPcs, IsCollectionRequested, IsSafepointRequested,
     Targets, ReportPcs, NotifyPcs
<1>4. Owing' = Owing
  BY DEF Owing, StateInv, ReportInv, IsSafepointRequested, IsRunning,
     ReportPcs, NotifyPcs, RunningPcs, AccessPcs, ParkPcs, StoppedPcs,
     IsCollectionRequested
<1>5. CountInv'
  BY <1>4 DEF CountInv, StoppedPcs
<1>6. QED
  BY <1>1, <1>2, <1>3, <1>5

\* Handling the interrupt may lead to a scope.
LEMMA CheckCollectionRequestedPreserves ==
  ASSUME SafepointInv, CheckCollectionRequested
  PROVE  SafepointInv'
<1> USE ThreadsAssumption DEF SafepointInv, TypeOK, Threads, Procs, Scopers,
      CheckCollectionRequested, Goto, listVars, barrierVars, collectionVars,
      historyVars
<1>1. TypeOK'
  <2>1. interrupt' \in BOOLEAN
    OBVIOUS
  <2>2. QED
    BY <2>1 DEF StateBits, MainPcs, ParkPcs, NotifyPcs, UnparkPcs, SleepPcs,
       ScopePcs, BackgroundPcs, InitiatorPcs
<1>2. CallerInv' /\ MutexInv' /\ ArmedInv' /\ HeapsInv'
  BY DEF CallerInv, MutexInv, ArmedInv, HeapsInv, HoldsMutex, ArmedPcs,
     StoppedPcs, UnparkPcs
<1>3. StateInv' /\ FlagInv' /\ ReportInv'
  BY DEF StateInv, FlagInv, ReportInv, IsRunning, RunningPcs, AccessPcs,
     ParkPcs, StoppedPcs, IsCollectionRequested, IsSafepointRequested,
     Targets, ReportPcs, NotifyPcs
<1>4. Owing' = Owing
  BY DEF Owing, StateInv, ReportInv, IsSafepointRequested, IsRunning,
     ReportPcs, NotifyPcs, RunningPcs, AccessPcs, ParkPcs, StoppedPcs,
     IsCollectionRequested
<1>5. CountInv'
  BY <1>4 DEF CountInv, StoppedPcs
<1>6. QED
  BY <1>1, <1>2, <1>3, <1>5

\* Isolate::Deinit parks for clients_mutex_.
LEMMA DeinitPreserves ==
  ASSUME SafepointInv, Deinit
  PROVE  SafepointInv'
<1> USE ThreadsAssumption DEF SafepointInv, TypeOK, Threads, Procs, Scopers,
      Deinit, Goto, listVars, barrierVars, collectionVars, historyVars
<1>1. TypeOK'
  BY DEF CallerInv, StateBits, MainPcs, ParkPcs, NotifyPcs, UnparkPcs,
     SleepPcs, ScopePcs, BackgroundPcs, InitiatorPcs
<1>2. CallerInv' /\ MutexInv' /\ ArmedInv' /\ HeapsInv'
  BY DEF CallerInv, MutexInv, ArmedInv, HeapsInv, HoldsMutex, ArmedPcs,
     StoppedPcs, UnparkPcs
<1>3. StateInv' /\ FlagInv' /\ ReportInv'
  BY DEF StateInv, FlagInv, ReportInv, CallerInv, IsRunning, RunningPcs,
     AccessPcs, ParkPcs, StoppedPcs, IsCollectionRequested,
     IsSafepointRequested, Targets, ReportPcs, NotifyPcs
<1>4. Owing' = Owing
  BY DEF Owing, StateInv, ReportInv, CallerInv, IsSafepointRequested,
     IsRunning, ReportPcs, NotifyPcs, RunningPcs, AccessPcs, ParkPcs,
     StoppedPcs, IsCollectionRequested
<1>5. CountInv'
  BY <1>4 DEF CountInv, CallerInv, StoppedPcs
<1>6. QED
  BY <1>1, <1>2, <1>3, <1>5

\* The parked main thread gets clients_mutex_.
LEMMA LockClientsMutexPreserves ==
  ASSUME SafepointInv, LockClientsMutex
  PROVE  SafepointInv'
<1> USE ThreadsAssumption DEF SafepointInv, TypeOK, Threads, Procs, Scopers,
      LockClientsMutex, Goto, localHeapVars, listVars, barrierVars,
      collectionVars, historyVars
<1>1. TypeOK'
  BY DEF CallerInv, StateBits, MainPcs, ParkPcs, NotifyPcs, UnparkPcs,
     SleepPcs, ScopePcs, BackgroundPcs, InitiatorPcs
<1>2. CallerInv' /\ MutexInv' /\ ArmedInv' /\ HeapsInv'
  BY DEF CallerInv, MutexInv, ArmedInv, HeapsInv, HoldsMutex, ArmedPcs,
     StoppedPcs, UnparkPcs
<1>3. StateInv' /\ FlagInv' /\ ReportInv'
  BY DEF StateInv, FlagInv, ReportInv, CallerInv, IsRunning, RunningPcs,
     AccessPcs, ParkPcs, StoppedPcs, IsCollectionRequested,
     IsSafepointRequested, Targets, ReportPcs, NotifyPcs
<1>4. Owing' = Owing
  BY DEF Owing, StateInv, ReportInv, CallerInv, IsSafepointRequested,
     IsRunning, ReportPcs, NotifyPcs, RunningPcs, AccessPcs, ParkPcs,
     StoppedPcs, IsCollectionRequested
<1>5. CountInv'
  BY <1>4 DEF CountInv, CallerInv, StoppedPcs
<1>6. QED
  BY <1>1, <1>2, <1>3, <1>5

\* The start of the tear-down concerns no safepoint.
LEMMA StartTearDownPreserves ==
  ASSUME SafepointInv, StartTearDown
  PROVE  SafepointInv'
<1> USE ThreadsAssumption DEF SafepointInv, TypeOK, Threads, Procs, Scopers,
      StartTearDown, NotifyAll, Goto, localHeapVars, listVars, barrierVars,
      historyVars
<1>1. TypeOK'
  <2>1. /\ timerStarted' \in BOOLEAN /\ collectionRequested' \in BOOLEAN
        /\ blockForCollection' \in BOOLEAN /\ collectionPerformed' \in BOOLEAN
        /\ shutdownRequested' \in BOOLEAN
    OBVIOUS
  <2>2. QED
    BY <2>1 DEF StateBits, MainPcs, ParkPcs, NotifyPcs, UnparkPcs, SleepPcs,
       ScopePcs, BackgroundPcs, InitiatorPcs
<1>2. CallerInv' /\ MutexInv' /\ ArmedInv' /\ HeapsInv'
  BY DEF CallerInv, MutexInv, ArmedInv, HeapsInv, HoldsMutex, ArmedPcs,
     StoppedPcs, UnparkPcs
<1>3. StateInv' /\ FlagInv' /\ ReportInv'
  BY DEF StateInv, FlagInv, ReportInv, IsRunning, RunningPcs, AccessPcs,
     ParkPcs, StoppedPcs, IsCollectionRequested, IsSafepointRequested,
     Targets, ReportPcs, NotifyPcs
<1>4. Owing' = Owing
  BY DEF Owing, StateInv, ReportInv, IsSafepointRequested, IsRunning,
     ReportPcs, NotifyPcs, RunningPcs, AccessPcs, ParkPcs, StoppedPcs,
     IsCollectionRequested
<1>5. CountInv'
  BY <1>4 DEF CountInv, StoppedPcs
<1>6. QED
  BY <1>1, <1>2, <1>3, <1>5

-----------------------------------------------------------------------------
(* The theorems.                                                           *)

\* Every step of every thread preserves the invariant.
LEMMA NextPreserves ==
  ASSUME SafepointInv, [Next]_vars
  PROVE  SafepointInv'
<1>1. CASE \E t \in Threads : ThreadStep(t) \/ Choice(t)
  BY <1>1, ParkPreserves, ParkForSafepointPreserves, NotifyParkPreserves,
     ParkWithCollectionRequestedPreserves,
     CancelCollectionAndResumeThreadsPreserves, UnparkPreserves,
     WaitInUnparkPreserves, UnparkWithCollectionRequestedPreserves,
     SafepointPreserves, SleepInSafepointPreserves,
     ReportInSafepointPreserves, WakeInSafepointPreserves, CallParkPreserves,
     CallUnparkPreserves DEF ThreadStep, Choice
<1>2. CASE \E b \in Background : BackgroundStep(b) \/ BackgroundChoice(b)
  BY <1>2, AddLocalHeapPreserves, RemoveLocalHeapPreserves,
     RequestCollectionPreserves, AwaitCollectionPreserves,
     ActivateStackGuardAndPostTaskPreserves, WaitForCollectionPreserves,
     LockToAddPreserves, LockToRemovePreserves, TryRequestGCPreserves
     DEF BackgroundStep, BackgroundChoice
<1>3. CASE \E p \in {Main, Initiator} : SafepointStep(p)
  BY <1>3, ArmPreserves, WaitUntilRunningThreadsInSafepointPreserves,
     DisarmPreserves, LeaveSafepointScopePreserves,
     SetSafepointRequestedFlagPreserves, ClearSafepointRequestedFlagPreserves
     DEF SafepointStep, Scopers
<1>4. CASE MainStep
  BY <1>4, LockMutexPreserves, LockMutexBlockedPreserves,
     LeaveNestedScopePreserves, UnlockLocalPreserves,
     StopTimeToCollectionTimerPreserves, CollectGarbagePreserves,
     ResumeThreadsAwaitingCollectionPreserves,
     CheckCollectionRequestedPreserves, LockClientsMutexPreserves,
     StartTearDownPreserves DEF MainStep
<1>5. CASE MainChoice
  BY <1>5, OpenScopePreserves, EnterNestedScopePreserves, DeinitPreserves
     DEF MainChoice
<1>6. CASE InitiatorStep \/ EnterGlobalSafepointScope
  BY <1>6, InitiateGlobalSafepointScopePreserves, UnlockGlobalPreserves,
     EnterGlobalSafepointScopePreserves DEF InitiatorStep
<1>7. CASE UNCHANGED vars
  BY <1>7 DEF SafepointInv, vars, localHeapVars, listVars, barrierVars,
     collectionVars, historyVars, TypeOK, CallerInv, MutexInv, HoldsMutex,
     ArmedInv, HeapsInv, StateInv, FlagInv, Targets, ReportInv, CountInv, Owing
<1>8. QED
  BY <1>1, <1>2, <1>3, <1>4, <1>5, <1>6, <1>7 DEF Next

\* The safepoint protocol keeps its invariant in every execution: flags, the
\* count of running threads and the barrier always agree.
THEOREM SafepointInvariant == Spec => []SafepointInv
<1>1. Init => SafepointInv
  BY InitEstablishes
<1>2. SafepointInv /\ [Next]_vars => SafepointInv'
  BY NextPreserves
<1>3. QED
  BY <1>1, <1>2, PTL DEF Spec

\* Every field and local keeps its type.
THEOREM TypeCorrect == Spec => []TypeOK
<1>1. SafepointInv => TypeOK
  BY DEF SafepointInv
<1>2. QED
  BY <1>1, SafepointInvariant, PTL

\* Whoever owns an entered safepoint scope has the heap to itself: all threads
\* the scope covers are parked and none of them is at a point where it may
\* touch the heap, for any number of background threads.
THEOREM StoppedMeansStopped == Spec => []WorldStopped
<1>1. SafepointInv => WorldStopped
  <2> SUFFICES ASSUME SafepointInv, NEW p \in {Main, Initiator},
                      pc[p] \in StoppedPcs, NEW h \in Targets(p)
               PROVE  IsParked(state[h]) /\ pc[h] \notin AccessPcs
    BY DEF WorldStopped
  <2>1. h \in Threads /\ IsSafepointRequested(state[h])
    BY DEF SafepointInv, TypeOK, FlagInv, Targets, Scopers
  <2>2. Owing = {}
    BY DEF SafepointInv, CountInv, Scopers
  <2>3. ~IsRunning(state[h])
    BY <2>1, <2>2 DEF Owing
  <2>4. QED
    BY <2>1, <2>3 DEF SafepointInv, StateInv, RunningPcs, IsRunning, IsParked
<1>2. QED
  BY <1>1, SafepointInvariant, PTL

\* None of the CHECKs and DCHECKs of safepoint.cc and local-heap.cc that the
\* property lists can fail.
THEOREM ChecksNeverFail == Spec => []SafepointChecks
<1>1. SafepointInv => SafepointChecks
  <2> SUFFICES ASSUME SafepointInv PROVE SafepointChecks
    OBVIOUS
  <2> USE ThreadsAssumption DEF SafepointInv, TypeOK, Threads, Procs, Scopers
  <2>1. ASSUME NEW t \in Threads, pc[t] \in ReportPcs PROVE armed
    BY <2>1 DEF ReportInv, FlagInv
  <2>2. ASSUME NEW t \in Threads, pc[t] \in {"parkSafepoint", "sleepInSafepoint"}
        PROVE  /\ IsRunning(state[t]) /\ IsSafepointRequested(state[t])
               /\ IsCollectionRequested(state[t]) => t = Main
    BY <2>2 DEF ReportInv, StateInv, RunningPcs, ParkPcs
  <2>3. ASSUME NEW p \in Scopers, pc[p] = "arm"
        PROVE  ~armed /\ activeSafepointScopes = 0
    BY <2>3 DEF ArmedInv, MutexInv, HoldsMutex, ArmedPcs, StoppedPcs
  <2>4. ASSUME NEW p \in Scopers, pc[p] = "setFlags"
        PROVE  /\ stopped <= running
               /\ \A h \in todo : /\ ~IsSafepointRequested(state[h])
                                  /\ IsCollectionRequested(state[h]) => h = Main
    <3>1. Cardinality(Owing) \in Nat
      BY OwingIsFinite, FS_CardinalityType
    <3>2. stopped <= running
      BY <2>4, <3>1 DEF CountInv
    <3>3. QED
      BY <2>4, <3>2 DEF FlagInv, StateInv
  <2>5. ASSUME NEW p \in Scopers, pc[p] = "clearFlags"
        PROVE  armed /\ \A h \in todo : IsParked(state[h])
                                        /\ IsSafepointRequested(state[h])
    <3>1. armed /\ Owing = {}
      BY <2>5 DEF ArmedInv, ArmedPcs, CountInv
    <3>2. \A h \in todo : h \in Threads /\ IsSafepointRequested(state[h])
      BY <2>5 DEF FlagInv
    <3>3. QED
      BY <3>1, <3>2 DEF Owing, IsRunning, IsParked
  <2>6. pc[Main] = "collect" => IsRunning(state[Main])
    BY DEF StateInv, RunningPcs, StoppedPcs
  <2>7. QED
    BY <2>1, <2>2, <2>3, <2>4, <2>5, <2>6 DEF SafepointChecks, ReportPcs
<1>2. QED
  BY <1>1, SafepointInvariant, PTL

-----------------------------------------------------------------------------
(* The collection barrier.                                                 *)

\* The timer runs exactly while a collection is requested, but for the time
\* from its stop in the safepoint to ResumeThreadsAwaitingCollection.
TimerInv ==
  /\ shutdownRequested <=> pc[Main] = "dead"
  /\ pc[Main] \in {"collect", "resumeThreads", "dead"} => ~timerStarted
  /\ pc[Main] \notin {"collect", "resumeThreads", "dead"} =>
       (timerStarted <=> collectionRequested)

\* b has found a request and set block_for_collection_, and has not yet read it
\* for the last time.
Awaiting(b) ==
  \/ pc[b] \in {"activate", "waiting"}
  \/ caller[b] = "await" /\ pc[b] \in ParkPcs \union NotifyPcs

CollectedInv ==
  /\ pc[Main] = "resumeThreads" => collected = Background
  /\ \A b \in Background :
       Awaiting(b) /\ ~blockForCollection /\ collectionPerformed => b \in collected
  /\ toldCollected \subseteq collected

\* Who waits has flagged the main thread, and only the collection clears it.
RequestInv ==
  /\ \A b \in Background : pc[b] = "await" => IsCollectionRequested(state[Main])
  /\ blockForCollection =>
       IsCollectionRequested(state[Main]) \/ pc[Main] = "resumeThreads"

\* Without a shared space the main thread parks itself for its own purposes
\* only with a state word that is clear, or after a collection.
ParkedMainInv ==
  ~SharedSpace =>
    /\ pc[Initiator] = "idle"
    /\ pc[Main] \notin {"parkSafepoint"} \union NotifyPcs
    /\ pc[Main] \in ParkPcs => caller[Main] \in {"user", "lockMutex"}
    /\ pc[Main] \in {"parkCollection", "cancel"} => caller[Main] = "lockMutex"
    /\ pc[Main] = "parked" =>
         ~blockForCollection /\ \A b \in Background : pc[b] # "await"

CollectionInv == TimerInv /\ CollectedInv /\ RequestInv /\ ParkedMainInv

\* In the main thread's safepoint no background thread asks for a collection.
LEMMA NobodyAsksInSafepoint ==
  ASSUME SafepointInv, pc[Main] \in StoppedPcs, NEW b \in Background
  PROVE  pc[b] \notin AccessPcs
<1> USE ThreadsAssumption DEF Threads
<1>1. CASE b \in localHeaps
  <2>1. IsSafepointRequested(state[b])
    BY <1>1 DEF SafepointInv, FlagInv, Targets, Scopers
  <2>2. Owing = {}
    BY DEF SafepointInv, CountInv, Scopers
  <2>3. ~IsRunning(state[b])
    BY <2>1, <2>2 DEF Owing
  <2>4. QED
    BY <2>3 DEF SafepointInv, StateInv, RunningPcs
<1>2. CASE b \notin localHeaps
  BY <1>2 DEF SafepointInv, HeapsInv, AccessPcs
<1>3. QED
  BY <1>1, <1>2

\* Only global safepoints stop the main thread.
LEMMA MainIsNotAsked ==
  ASSUME SafepointInv, pc[Initiator] = "idle"
  PROVE  ~IsSafepointRequested(state[Main])
<1> USE ThreadsAssumption DEF Threads, Scopers
<1>1. CASE ~armed
  BY <1>1 DEF SafepointInv, FlagInv
<1>2. CASE armed
  <2>1. pc[Main] \in ArmedPcs
    BY <1>2 DEF SafepointInv, ArmedInv, ArmedPcs, StoppedPcs
  <2>2. Main \notin Targets(Main)
    BY DEF Targets
  <2>3. QED
    BY <2>1, <2>2 DEF SafepointInv, FlagInv, ArmedPcs
<1>3. QED
  BY <1>1, <1>2 DEF SafepointInv, TypeOK

LEMMA InitEstablishesCollection ==
  ASSUME Init
  PROVE  CollectionInv
BY ThreadsAssumption DEF Init, CollectionInv, TimerInv, CollectedInv, RequestInv,
   ParkedMainInv, Awaiting, Threads, Procs, ParkPcs, NotifyPcs

\* A step that concerns no request: the barrier and the request flag stay as
\* they are, and nobody starts to wait.
LEMMA QuietForCollection ==
  ASSUME CollectionInv, UNCHANGED <<collectionVars, historyVars>>,
         IsCollectionRequested(state'[Main]) <=> IsCollectionRequested(state[Main]),
         pc'[Main] = pc[Main] \/
           (pc[Main] \notin {"collect", "resumeThreads", "dead"} /\
            pc'[Main] \notin {"collect", "resumeThreads", "dead"}),
         \A b \in Background : /\ pc'[b] = "await" => pc[b] = "await"
                               /\ Awaiting(b)' => Awaiting(b),
         ParkedMainInv'
  PROVE  CollectionInv'
<1> USE DEF CollectionInv, collectionVars, historyVars
<1>1. TimerInv'
  BY DEF TimerInv
<1>2. CollectedInv'
  BY DEF CollectedInv
<1>3. RequestInv'
  BY DEF RequestInv
<1>4. QED
  BY <1>1, <1>2, <1>3

\* Such a step of another than the main thread.
LEMMA QuietBesideMain ==
  ASSUME CollectionInv, UNCHANGED <<collectionVars, historyVars>>,
         IsCollectionRequested(state'[Main]) <=> IsCollectionRequested(state[Main]),
         pc'[Main] = pc[Main], caller'[Main] = caller[Main],
         SharedSpace \/ pc'[Initiator] = pc[Initiator],
         \A b \in Background : /\ pc'[b] = "await" => pc[b] = "await"
                               /\ Awaiting(b)' => Awaiting(b)
  PROVE  CollectionInv'
<1>1. ParkedMainInv'
  BY DEF CollectionInv, ParkedMainInv, collectionVars
<1>2. QED
  BY <1>1, QuietForCollection

\* A background thread's steps that concern no request.
LEMMA QuietBackgroundThread ==
  ASSUME SafepointInv, CollectionInv, NEW b \in Background,
         \/ LockToAdd(b) \/ AddLocalHeap(b) \/ LockToRemove(b) \/ RemoveLocalHeap(b)
         \/ CallPark(b) \/ CallUnpark(b) \/ Park(b) \/ ParkForSafepoint(b)
         \/ NotifyPark(b) \/ ParkWithCollectionRequested(b) \/ Unpark(b)
         \/ WaitInUnpark(b) \/ UnparkWithCollectionRequested(b) \/ Safepoint(b)
         \/ SleepInSafepoint(b) \/ ReportInSafepoint(b) \/ WakeInSafepoint(b)
         \/ ActivateStackGuardAndPostTask(b)
  PROVE  CollectionInv'
<1> USE ThreadsAssumption DEF Threads, Procs
<1>1. /\ pc \in [Procs -> MainPcs \union BackgroundPcs \union InitiatorPcs]
      /\ pc[b] \in BackgroundPcs
      /\ state \in [Threads -> SUBSET StateBits]
      /\ caller \in [Threads -> {"user", "lockMutex", "deinit", "await", "sleep"}]
  BY DEF SafepointInv, TypeOK
<1>2. /\ UNCHANGED <<collectionVars, historyVars>>
      /\ state' = state \/ \E s : state' = [state EXCEPT ![b] = s]
      /\ pc' = pc \/ \E l : pc' = [pc EXCEPT ![b] = l]
      /\ caller' = caller \/ \E c : caller' = [caller EXCEPT ![b] = c]
  BY DEF LockToAdd, AddLocalHeap, LockToRemove, RemoveLocalHeap, CallPark, CallUnpark,
     Park, ParkForSafepoint, NotifyPark, ParkWithCollectionRequested, Unpark,
     WaitInUnpark, UnparkWithCollectionRequested, ReturnFromUnpark, Safepoint,
     SleepInSafepoint, ReportInSafepoint, WakeInSafepoint,
     ActivateStackGuardAndPostTask, Goto, SetState, localHeapVars
<1>3. /\ state'[Main] = state[Main] /\ pc'[Main] = pc[Main] /\ caller'[Main] = caller[Main]
      /\ pc'[Initiator] = pc[Initiator]
      /\ \A c \in Background \ {b} : pc'[c] = pc[c] /\ caller'[c] = caller[c]
  BY <1>1, <1>2
<1>4. /\ pc'[b] # "await"
      /\ Awaiting(b)' => Awaiting(b)
  <2>1. CASE LockToAdd(b) \/ AddLocalHeap(b) \/ LockToRemove(b) \/ RemoveLocalHeap(b)
    BY <1>1, <2>1 DEF LockToAdd, AddLocalHeap, LockToRemove, RemoveLocalHeap, Goto,
       Awaiting, ParkPcs, NotifyPcs
  <2>2. CASE CallPark(b) \/ CallUnpark(b) \/ WaitInUnpark(b) \/ Safepoint(b)
    BY <1>1, <2>2 DEF CallPark, CallUnpark, WaitInUnpark, Safepoint, Goto,
       Awaiting, ParkPcs, NotifyPcs
  <2>3. CASE Park(b) \/ ParkForSafepoint(b) \/ NotifyPark(b) \/ ParkWithCollectionRequested(b)
    BY <1>1, <2>3 DEF Park, ParkForSafepoint, NotifyPark, ParkWithCollectionRequested,
       AfterPark, Goto, Awaiting, ParkPcs, NotifyPcs, localHeapVars, BackgroundPcs, SleepPcs
  <2>4. CASE Unpark(b) \/ UnparkWithCollectionRequested(b)
    BY <1>1, <2>4 DEF Unpark, UnparkWithCollectionRequested, ReturnFromUnpark,
       AfterUnpark, Goto, Awaiting, ParkPcs, NotifyPcs
  <2>5. CASE SleepInSafepoint(b) \/ ReportInSafepoint(b) \/ WakeInSafepoint(b)
             \/ ActivateStackGuardAndPostTask(b)
    BY <1>1, <2>5 DEF SleepInSafepoint, ReportInSafepoint, WakeInSafepoint,
       ActivateStackGuardAndPostTask, Goto, Awaiting, ParkPcs, NotifyPcs
  <2>6. QED
    BY <2>1, <2>2, <2>3, <2>4, <2>5
<1>5. \A c \in Background : /\ pc'[c] = "await" => pc[c] = "await"
                            /\ Awaiting(c)' => Awaiting(c)
  BY <1>3, <1>4 DEF Awaiting
<1>6. QED
  BY <1>2, <1>3, <1>5, QuietBesideMain

\* The steps of a safepoint scope, of either owner.
LEMMA QuietSafepointStep ==
  ASSUME SafepointInv, CollectionInv, NEW p \in {Main, Initiator}, SafepointStep(p)
  PROVE  CollectionInv'
<1> USE ThreadsAssumption DEF Threads, Procs
<1>1. /\ pc \in [Procs -> MainPcs \union BackgroundPcs \union InitiatorPcs]
      /\ state \in [Threads -> SUBSET StateBits]
  BY DEF SafepointInv, TypeOK
<1>2. ASSUME NEW h \in Threads,
             SetSafepointRequestedFlag(p, h) \/ ClearSafepointRequestedFlag(p, h)
      PROVE  CollectionInv'
  <2>1. /\ UNCHANGED <<pc, caller, collectionVars, historyVars>>
        /\ \/ state' = [state EXCEPT ![h] = SetSafepointRequested(state[h])]
           \/ state' = [state EXCEPT ![h] = ClearSafepointRequested(state[h])]
    BY <1>2 DEF SetSafepointRequestedFlag, ClearSafepointRequestedFlag, SetState
  <2>2. IsCollectionRequested(state'[Main]) <=> IsCollectionRequested(state[Main])
    BY <1>1, <2>1 DEF IsCollectionRequested, SetSafepointRequested,
       ClearSafepointRequested
  <2>3. QED
    BY <2>1, <2>2, QuietBesideMain DEF Awaiting
<1>3. CASE Arm(p) \/ WaitUntilRunningThreadsInSafepoint(p) \/ Disarm(p)
           \/ LeaveSafepointScope(p)
  <2>1. /\ UNCHANGED <<state, caller, collectionVars, historyVars>>
        /\ pc' = pc \/ (pc[p] \in {"arm", "setFlags", "clearFlags", "leave", "safe"} /\
                        \E l \in {"setFlags", "safe", "clearFlags", "unlock"} :
                          pc' = [pc EXCEPT ![p] = l])
    BY <1>3 DEF Arm, WaitUntilRunningThreadsInSafepoint, Disarm, LeaveSafepointScope,
       Goto, localHeapVars
  <2>2. \A b \in Background : pc'[b] = pc[b]
    BY <1>1, <2>1
  <2>3. CASE p = Main
    <3>1. \/ pc'[Main] = pc[Main]
          \/ /\ pc[Main] \notin {"collect", "resumeThreads", "dead"}
             /\ pc'[Main] \notin {"collect", "resumeThreads", "dead"}
      BY <1>1, <2>1, <2>3
    <3>2. ParkedMainInv'
      BY <1>1, <2>1, <2>2, <2>3 DEF CollectionInv, ParkedMainInv, ParkPcs, NotifyPcs,
         collectionVars
    <3>3. QED
      BY <2>1, <2>2, <3>1, <3>2, QuietForCollection DEF Awaiting
  <2>4. CASE p = Initiator
    <3>1. pc'[Main] = pc[Main]
      BY <1>1, <2>1, <2>4
    <3>2. SharedSpace \/ pc'[Initiator] = pc[Initiator]
      BY <1>1, <2>1, <2>4 DEF CollectionInv, ParkedMainInv
    <3>3. QED
      BY <2>1, <2>2, <3>1, <3>2, QuietBesideMain DEF Awaiting
  <2>5. QED
    BY <2>3, <2>4
<1>4. QED
  BY <1>2, <1>3 DEF SafepointStep

\* The steps of another isolate's main thread.
LEMMA QuietInitiator ==
  ASSUME SafepointInv, CollectionInv, InitiatorStep \/ EnterGlobalSafepointScope
  PROVE  CollectionInv'
<1> USE ThreadsAssumption DEF Threads, Procs
<1>1. pc \in [Procs -> MainPcs \union BackgroundPcs \union InitiatorPcs]
  BY DEF SafepointInv, TypeOK
<1>2. /\ UNCHANGED <<state, caller, collectionVars, historyVars>>
      /\ \E l : pc' = [pc EXCEPT ![Initiator] = l]
      /\ SharedSpace \/ pc[Initiator] # "idle"
  BY DEF InitiatorStep, InitiateGlobalSafepointScope, UnlockGlobal,
     EnterGlobalSafepointScope, Goto, localHeapVars
<1>3. SharedSpace
  BY <1>2 DEF CollectionInv, ParkedMainInv
<1>4. pc'[Main] = pc[Main] /\ \A b \in Background : pc'[b] = pc[b]
  BY <1>1, <1>2
<1>5. QED
  BY <1>2, <1>3, <1>4, QuietBesideMain DEF Awaiting

\* The main thread's steps that concern no request.  It parks itself only with
\* a clear state word, and then nobody waits for it.
LEMMA QuietMain ==
  ASSUME SafepointInv, CollectionInv,
         \/ CallPark(Main) \/ CallUnpark(Main) \/ Park(Main) \/ ParkForSafepoint(Main)
         \/ NotifyPark(Main) \/ ParkWithCollectionRequested(Main) \/ Unpark(Main)
         \/ WaitInUnpark(Main) \/ UnparkWithCollectionRequested(Main) \/ Safepoint(Main)
         \/ SleepInSafepoint(Main) \/ ReportInSafepoint(Main) \/ WakeInSafepoint(Main)
         \/ OpenScope \/ LockMutex \/ LockMutexBlocked \/ EnterNestedScope
         \/ LeaveNestedScope \/ UnlockLocal \/ CheckCollectionRequested \/ Deinit
         \/ LockClientsMutex
  PROVE  CollectionInv'
<1> USE ThreadsAssumption DEF Threads, Procs
<1>1. /\ pc \in [Procs -> MainPcs \union BackgroundPcs \union InitiatorPcs]
      /\ pc[Main] \in MainPcs
      /\ state \in [Threads -> SUBSET StateBits]
      /\ caller \in [Threads -> {"user", "lockMutex", "deinit", "await", "sleep"}]
      /\ caller[Main] # "await"
      /\ pc[Main] = "lockBlocked" => caller[Main] = "lockMutex"
      /\ pc[Main] = "clientsBlocked" => caller[Main] = "deinit"
  BY DEF SafepointInv, TypeOK, CallerInv
<1>2. /\ UNCHANGED <<collectionVars, historyVars>>
      /\ pc' = pc \/ \E l : pc' = [pc EXCEPT ![Main] = l]
      /\ caller' = caller \/ \E c : caller' = [caller EXCEPT ![Main] = c]
      /\ state' = state \/ \E s : state' = [state EXCEPT ![Main] = s]
  BY DEF CallPark, CallUnpark, Park, ParkForSafepoint, NotifyPark,
     ParkWithCollectionRequested, Unpark, WaitInUnpark, UnparkWithCollectionRequested,
     ReturnFromUnpark, Safepoint, SleepInSafepoint, ReportInSafepoint, WakeInSafepoint,
     OpenScope, LockMutex, LockMutexBlocked, EnterNestedScope, LeaveNestedScope,
     UnlockLocal, CheckCollectionRequested, Deinit, LockClientsMutex, Goto, SetState,
     localHeapVars
<1>3. /\ pc'[Initiator] = pc[Initiator]
      /\ \A b \in Background : pc'[b] = pc[b] /\ caller'[b] = caller[b]
  BY <1>1, <1>2
<1>4. IsCollectionRequested(state'[Main]) <=> IsCollectionRequested(state[Main])
  <2>1. CASE state' = state
    BY <2>1
  <2>2. CASE Park(Main) \/ Unpark(Main)
    BY <1>1, <2>2 DEF Park, Unpark, SetState, Running, Parked, IsCollectionRequested
  <2>3. CASE ParkForSafepoint(Main) \/ SleepInSafepoint(Main)
    BY <1>1, <2>3 DEF ParkForSafepoint, SleepInSafepoint, SetState, SetParked,
       IsCollectionRequested
  <2>4. CASE ParkWithCollectionRequested(Main) \/ UnparkWithCollectionRequested(Main)
    BY <1>1, <2>4 DEF ParkWithCollectionRequested, UnparkWithCollectionRequested,
       SetState, SetParked, SetRunning, IsCollectionRequested
  <2>5. QED
    BY <2>1, <2>2, <2>3, <2>4 DEF CallPark, CallUnpark, NotifyPark, WaitInUnpark,
       Safepoint, ReportInSafepoint, WakeInSafepoint, OpenScope, LockMutex,
       LockMutexBlocked, EnterNestedScope, LeaveNestedScope, UnlockLocal,
       CheckCollectionRequested, Deinit, LockClientsMutex, localHeapVars
<1>5. \/ pc' = pc
      \/ /\ pc[Main] \notin {"collect", "resumeThreads", "dead"}
         /\ pc'[Main] \notin {"collect", "resumeThreads", "dead"}
  <2>1. CASE CallPark(Main) \/ CallUnpark(Main) \/ WaitInUnpark(Main) \/ Safepoint(Main)
    BY <1>1, <2>1 DEF CallPark, CallUnpark, WaitInUnpark, Safepoint, Goto
  <2>2. CASE Park(Main) \/ ParkForSafepoint(Main) \/ NotifyPark(Main)
             \/ ParkWithCollectionRequested(Main)
    BY <1>1, <2>2 DEF Park, ParkForSafepoint, NotifyPark, ParkWithCollectionRequested,
       AfterPark, Goto, NotifyPcs
  <2>3. CASE Unpark(Main) \/ UnparkWithCollectionRequested(Main)
    BY <1>1, <2>3 DEF Unpark, UnparkWithCollectionRequested, ReturnFromUnpark,
       AfterUnpark, Goto
  <2>4. CASE SleepInSafepoint(Main) \/ ReportInSafepoint(Main) \/ WakeInSafepoint(Main)
    BY <1>1, <2>4 DEF SleepInSafepoint, ReportInSafepoint, WakeInSafepoint, Goto
  <2>5. CASE OpenScope \/ LockMutex \/ LockMutexBlocked \/ EnterNestedScope \/ LeaveNestedScope
    BY <1>1, <2>5 DEF OpenScope, LockMutex, LockMutexBlocked, EnterNestedScope,
       LeaveNestedScope, Goto
  <2>6. CASE UnlockLocal \/ CheckCollectionRequested \/ Deinit \/ LockClientsMutex
    BY <1>1, <2>6 DEF UnlockLocal, CheckCollectionRequested, Deinit, LockClientsMutex, Goto
  <2>7. QED
    BY <2>1, <2>2, <2>3, <2>4, <2>5, <2>6
<1>6. ParkedMainInv'
  <2>1. SUFFICES ASSUME ~SharedSpace
                 PROVE  /\ pc'[Main] \notin {"parkSafepoint"} \union NotifyPcs
                        /\ pc'[Main] \in ParkPcs => caller'[Main] \in {"user", "lockMutex"}
                        /\ pc'[Main] \in {"parkCollection", "cancel"} =>
                             caller'[Main] = "lockMutex"
                        /\ pc'[Main] = "parked" =>
                             ~blockForCollection /\ \A b \in Background : pc[b] # "await"
    BY <1>2, <1>3 DEF CollectionInv, ParkedMainInv, collectionVars
  <2>2. ~IsSafepointRequested(state[Main])
    BY <2>1, MainIsNotAsked DEF CollectionInv, ParkedMainInv
  <2>3. /\ pc[Main] \notin {"parkSafepoint"} \union NotifyPcs
        /\ pc[Main] \in ParkPcs => caller[Main] \in {"user", "lockMutex"}
        /\ pc[Main] \in {"parkCollection", "cancel"} => caller[Main] = "lockMutex"
        /\ pc[Main] = "parked" =>
             ~blockForCollection /\ \A b \in Background : pc[b] # "await"
    BY <2>1 DEF CollectionInv, ParkedMainInv
  <2>4. CASE Park(Main)
    <3>1. CASE state[Main] = Running
      <4>1. ~IsCollectionRequested(state[Main]) /\ pc[Main] # "resumeThreads"
        BY <2>4, <3>1 DEF Park, Running, IsCollectionRequested
      <4>2. ~blockForCollection /\ \A b \in Background : pc[b] # "await"
        BY <4>1 DEF CollectionInv, RequestInv
      <4>3. pc' = [pc EXCEPT ![Main] = AfterPark(Main)]
        BY <2>4, <3>1 DEF Park, Goto, IsSafepointRequested, Running
      <4>4. QED
        BY <1>1, <4>2, <4>3 DEF AfterPark, ParkPcs, NotifyPcs
    <3>2. CASE state[Main] # Running
      BY <1>1, <2>2, <2>3, <2>4, <3>2 DEF Park, Goto, IgnoreLocalGCRequests, ParkPcs, NotifyPcs
    <3>3. QED
      BY <3>1, <3>2
  <2>5. CASE CallPark(Main) \/ CallUnpark(Main) \/ WaitInUnpark(Main) \/ Safepoint(Main)
    BY <1>1, <2>2, <2>3, <2>5 DEF CallPark, CallUnpark, WaitInUnpark, Safepoint, Goto,
       ParkPcs, NotifyPcs, localHeapVars
  <2>6. CASE ParkForSafepoint(Main) \/ NotifyPark(Main)
    BY <2>3, <2>6 DEF ParkForSafepoint, NotifyPark
  <2>7. CASE ParkWithCollectionRequested(Main)
    BY <1>1, <2>3, <2>7 DEF ParkWithCollectionRequested, Goto, ParkPcs, NotifyPcs
  <2>8. CASE Unpark(Main) \/ UnparkWithCollectionRequested(Main)
    BY <1>1, <2>2, <2>3, <2>8 DEF Unpark, UnparkWithCollectionRequested, ReturnFromUnpark,
       AfterUnpark, Goto, ParkPcs, NotifyPcs
  <2>9. CASE SleepInSafepoint(Main) \/ ReportInSafepoint(Main) \/ WakeInSafepoint(Main)
    BY <1>1, <2>3, <2>9 DEF SleepInSafepoint, ReportInSafepoint, WakeInSafepoint, Goto,
       ParkPcs, NotifyPcs
  <2>10. CASE OpenScope \/ LockMutex \/ LockMutexBlocked
    BY <1>1, <2>3, <2>10 DEF OpenScope, LockMutex, LockMutexBlocked, Goto, ParkPcs,
       NotifyPcs, localHeapVars
  <2>11. CASE EnterNestedScope \/ LeaveNestedScope
    BY <2>3, <2>11 DEF EnterNestedScope, LeaveNestedScope, localHeapVars
  <2>12. CASE UnlockLocal \/ CheckCollectionRequested \/ Deinit \/ LockClientsMutex
    BY <1>1, <2>1, <2>3, <2>12 DEF UnlockLocal, CheckCollectionRequested, Deinit,
       LockClientsMutex, Goto, ParkPcs, NotifyPcs, localHeapVars
  <2>13. QED
    BY <2>4, <2>5, <2>6, <2>7, <2>8, <2>9, <2>10, <2>11, <2>12
<1>7. QED
  BY <1>2, <1>3, <1>4, <1>5, <1>6, QuietForCollection DEF Awaiting

\* The main thread parks and takes the request back: a waiter is told that
\* nothing was collected.
LEMMA CancelKeepsCollection ==
  ASSUME SafepointInv, CollectionInv, NEW t \in Threads,
         CancelCollectionAndResumeThreads(t)
  PROVE  CollectionInv'
<1> USE ThreadsAssumption DEF Threads, Procs
<1>1. /\ pc \in [Procs -> MainPcs \union BackgroundPcs \union InitiatorPcs]
      /\ \A b \in Background : pc[b] \in BackgroundPcs
      /\ caller[Main] # "await"
  BY DEF SafepointInv, TypeOK, CallerInv
<1>2. t = Main
  BY <1>1 DEF CancelCollectionAndResumeThreads, BackgroundPcs, SleepPcs
<1>3. /\ pc[Main] = "cancel"
      /\ ~timerStarted' /\ ~collectionRequested' /\ ~blockForCollection' /\ ~collectionPerformed'
      /\ pc' = [pc EXCEPT ![Main] = AfterPark(Main)]
      /\ UNCHANGED <<state, caller, shutdownRequested, collected, toldCollected>>
  BY <1>2 DEF CancelCollectionAndResumeThreads, Goto, localHeapVars, historyVars
<1>4. /\ pc'[Main] = AfterPark(Main) /\ pc'[Initiator] = pc[Initiator]
      /\ \A b \in Background : pc'[b] = pc[b]
  BY <1>1, <1>3
<1>5. AfterPark(Main) \in {"lockBlocked", "clientsBlocked", "parked"}
  BY <1>1 DEF AfterPark
<1>6. TimerInv'
  BY <1>3, <1>4, <1>5 DEF CollectionInv, TimerInv
<1>7. CollectedInv'
  BY <1>3, <1>4, <1>5 DEF CollectionInv, CollectedInv
<1>8. RequestInv'
  BY <1>3, <1>4 DEF CollectionInv, RequestInv
<1>9. ParkedMainInv'
  <2>1. SUFFICES ASSUME ~SharedSpace PROVE pc'[Main] = "lockBlocked"
    BY <1>3, <1>4 DEF CollectionInv, ParkedMainInv, ParkPcs, NotifyPcs
  <2>2. QED
    BY <1>3, <1>4, <2>1 DEF CollectionInv, ParkedMainInv, AfterPark
<1>10. QED
  BY <1>6, <1>7, <1>8, <1>9 DEF CollectionInv

\* The collection, in the safepoint, between two looks at the barrier.
LEMMA MainCollects ==
  ASSUME SafepointInv, CollectionInv,
         StopTimeToCollectionTimer \/ CollectGarbage \/ ResumeThreadsAwaitingCollection
  PROVE  CollectionInv'
<1> USE ThreadsAssumption DEF Threads, Procs
<1>1. /\ pc \in [Procs -> MainPcs \union BackgroundPcs \union InitiatorPcs]
      /\ state \in [Threads -> SUBSET StateBits]
  BY DEF SafepointInv, TypeOK
<1>2. /\ pc[Main] \in {"safe", "collect", "resumeThreads"}
      /\ UNCHANGED <<caller, shutdownRequested, toldCollected>>
      /\ \E l \in {"collect", "resumeThreads", "leave"} : pc' = [pc EXCEPT ![Main] = l]
  BY <1>1 DEF StopTimeToCollectionTimer, CollectGarbage, ResumeThreadsAwaitingCollection,
     Goto, localHeapVars, historyVars, collectionVars
<1>3. \A b \in Background : pc[b] # "await"
  BY <1>2, NobodyAsksInSafepoint DEF StoppedPcs, AccessPcs
<1>4. /\ pc'[Initiator] = pc[Initiator] /\ pc'[Main] \in {"collect", "resumeThreads", "leave"}
      /\ \A b \in Background : pc'[b] = pc[b]
  BY <1>1, <1>2
<1>5. ParkedMainInv'
  BY <1>4 DEF CollectionInv, ParkedMainInv, ParkPcs, NotifyPcs
<1>6. \A b \in Background : Awaiting(b)' <=> Awaiting(b)
  BY <1>2, <1>4 DEF Awaiting
<1>7. TimerInv' /\ CollectedInv' /\ RequestInv'
  <2>1. CASE StopTimeToCollectionTimer
    <3>1. /\ pc[Main] = "safe" /\ pc'[Main] = "collect"
          /\ timerStarted' = (timerStarted /\ ~collectionRequested)
          /\ UNCHANGED <<state, collectionRequested, blockForCollection,
                         collectionPerformed, collected>>
      BY <1>1, <2>1 DEF StopTimeToCollectionTimer, Goto, localHeapVars, historyVars
    <3>2. TimerInv'
      BY <1>2, <3>1 DEF CollectionInv, TimerInv
    <3>3. CollectedInv' /\ RequestInv'
      BY <1>2, <1>3, <1>4, <1>6, <3>1 DEF CollectionInv, CollectedInv, RequestInv
    <3>4. QED
      BY <3>2, <3>3
  <2>2. CASE CollectGarbage
    <3>1. /\ pc[Main] = "collect" /\ pc'[Main] = "resumeThreads"
          /\ collected' = Background
          /\ UNCHANGED collectionVars
      BY <1>1, <2>2 DEF CollectGarbage, Goto
    <3>2. TimerInv'
      BY <1>2, <3>1 DEF CollectionInv, TimerInv, collectionVars
    <3>3. CollectedInv'
      BY <1>2, <3>1 DEF SafepointInv, TypeOK, CollectedInv
    <3>4. RequestInv'
      BY <1>3, <1>4, <3>1 DEF RequestInv
    <3>5. QED
      BY <3>2, <3>3, <3>4
  <2>3. CASE ResumeThreadsAwaitingCollection
    <3>1. /\ pc[Main] = "resumeThreads" /\ pc'[Main] = "leave"
          /\ ~collectionRequested' /\ ~blockForCollection' /\ collectionPerformed'
          /\ UNCHANGED <<state, timerStarted, collected>>
      BY <1>1, <2>3 DEF ResumeThreadsAwaitingCollection, Goto, localHeapVars, historyVars
    <3>2. TimerInv'
      BY <1>2, <3>1 DEF CollectionInv, TimerInv
    <3>3. CollectedInv'
      BY <1>2, <3>1 DEF CollectionInv, CollectedInv
    <3>4. RequestInv'
      BY <1>3, <1>4, <3>1 DEF RequestInv
    <3>5. QED
      BY <3>2, <3>3, <3>4
  <2>4. QED
    BY <2>1, <2>2, <2>3
<1>8. QED
  BY <1>5, <1>7 DEF CollectionInv

\* CollectGarbageFromAnyThread, AwaitCollectionBackground.
LEMMA BackgroundAsks ==
  ASSUME SafepointInv, CollectionInv, NEW b \in Background,
         TryRequestGC(b) \/ RequestCollection(b) \/ AwaitCollection(b) \/ WaitForCollection(b)
  PROVE  CollectionInv'
<1> USE ThreadsAssumption DEF Threads, Procs
<1>1. /\ pc \in [Procs -> MainPcs \union BackgroundPcs \union InitiatorPcs]
      /\ state \in [Threads -> SUBSET StateBits]
      /\ caller \in [Threads -> {"user", "lockMutex", "deinit", "await", "sleep"}]
  BY DEF SafepointInv, TypeOK
<1>2. /\ UNCHANGED shutdownRequested
      /\ pc' = pc \/ \E l : pc' = [pc EXCEPT ![b] = l]
      /\ caller' = caller \/ \E c : caller' = [caller EXCEPT ![b] = c]
  BY DEF TryRequestGC, RequestCollection, AwaitCollection, WaitForCollection, Goto,
     localHeapVars, collectionVars
<1>3. /\ pc'[Initiator] = pc[Initiator] /\ pc'[Main] = pc[Main]
      /\ caller'[Main] = caller[Main]
      /\ \A c \in Background \ {b} : pc'[c] = pc[c] /\ caller'[c] = caller[c]
  BY <1>1, <1>2
<1>4. \A c \in Background \ {b} : Awaiting(c)' <=> Awaiting(c)
  BY <1>3 DEF Awaiting
<1>5. CASE TryRequestGC(b)
  <2>1. /\ pc[b] = "run" /\ ~shutdownRequested /\ pc'[b] = "requested"
        /\ collectionRequested' = TRUE
        /\ timerStarted' = (timerStarted \/ ~collectionRequested)
        /\ collected' = collected \ {b} /\ toldCollected' = toldCollected \ {b}
        /\ UNCHANGED <<state, blockForCollection, collectionPerformed>>
    BY <1>1, <1>5 DEF TryRequestGC, Goto, localHeapVars
  <2>2. pc[Main] \notin {"collect", "resumeThreads", "dead"}
    BY <2>1, NobodyAsksInSafepoint DEF StoppedPcs, AccessPcs, CollectionInv, TimerInv
  <2>3. TimerInv'
    BY <1>2, <1>3, <2>1, <2>2 DEF CollectionInv, TimerInv
  <2>4. CollectedInv'
    BY <1>3, <1>4, <2>1, <2>2 DEF CollectionInv, CollectedInv, Awaiting, ParkPcs, NotifyPcs
  <2>5. RequestInv' /\ ParkedMainInv'
    BY <1>3, <2>1 DEF CollectionInv, RequestInv, ParkedMainInv
  <2>6. QED
    BY <2>3, <2>4, <2>5 DEF CollectionInv
<1>6. CASE RequestCollection(b)
  <2>1. /\ pc[b] = "requested"
        /\ pc'[b] = IF IsRunning(state[Main]) THEN "await" ELSE "run"
        /\ state' = [state EXCEPT ![Main] = SetCollectionRequested(state[Main])]
        /\ UNCHANGED <<collectionVars, historyVars>>
    BY <1>1, <1>6 DEF RequestCollection, Goto, SetState
  <2>2. IsCollectionRequested(state'[Main])
    BY <1>1, <2>1 DEF IsCollectionRequested, SetCollectionRequested
  <2>3. TimerInv' /\ RequestInv'
    BY <1>3, <2>1, <2>2 DEF CollectionInv, TimerInv, RequestInv, collectionVars
  <2>4. CollectedInv'
    BY <1>3, <1>4, <2>1 DEF CollectionInv, CollectedInv, Awaiting, ParkPcs, NotifyPcs,
       collectionVars, historyVars
  <2>5. ParkedMainInv'
    <3>1. pc[Main] = "parked" => ~IsRunning(state[Main])
      BY DEF SafepointInv, StateInv, RunningPcs, AccessPcs, ParkPcs, StoppedPcs
    <3>2. QED
      BY <1>3, <2>1, <3>1 DEF CollectionInv, ParkedMainInv, collectionVars
  <2>6. QED
    BY <2>3, <2>4, <2>5 DEF CollectionInv
<1>7. CASE AwaitCollection(b)
  <2>1. /\ pc[b] = "await" /\ pc'[b] \in {"run", "park", "activate"}
        /\ pc'[b] = "run" => UNCHANGED blockForCollection
        /\ pc'[b] # "run" => blockForCollection' = TRUE
        /\ UNCHANGED <<state, collectionRequested, collectionPerformed, timerStarted,
                       collected, toldCollected>>
    BY <1>1, <1>7 DEF AwaitCollection, Goto, historyVars
  <2>2. TimerInv'
    BY <1>2, <1>3, <2>1 DEF CollectionInv, TimerInv
  <2>3. CollectedInv'
    BY <1>3, <1>4, <2>1 DEF CollectionInv, CollectedInv, Awaiting, ParkPcs, NotifyPcs
  <2>4. RequestInv' /\ ParkedMainInv'
    BY <1>3, <2>1 DEF CollectionInv, RequestInv, ParkedMainInv
  <2>5. QED
    BY <2>2, <2>3, <2>4 DEF CollectionInv
<1>8. CASE WaitForCollection(b)
  <2>1. /\ pc[b] = "waiting" /\ UNCHANGED <<state, caller, collectionVars, collected>>
        /\ pc'[b] \in {"waiting", "unpark"}
        /\ \/ toldCollected' = toldCollected
           \/ /\ ~blockForCollection /\ collectionPerformed
              /\ toldCollected' = toldCollected \union {b}
    BY <1>1, <1>8 DEF WaitForCollection, Goto, localHeapVars
  <2>2. TimerInv' /\ RequestInv' /\ ParkedMainInv'
    BY <1>3, <2>1 DEF CollectionInv, TimerInv, RequestInv, ParkedMainInv, collectionVars
  <2>3. CollectedInv'
    BY <1>3, <1>4, <2>1 DEF CollectionInv, CollectedInv, Awaiting, collectionVars
  <2>4. QED
    BY <2>2, <2>3 DEF CollectionInv
<1>9. QED
  BY <1>5, <1>6, <1>7, <1>8

\* NotifyShutdownRequested.
LEMMA TearDownKeepsCollection ==
  ASSUME SafepointInv, CollectionInv, StartTearDown
  PROVE  CollectionInv'
<1> USE ThreadsAssumption DEF Threads, Procs
<1>1. pc \in [Procs -> MainPcs \union BackgroundPcs \union InitiatorPcs]
  BY DEF SafepointInv, TypeOK
<1>2. /\ pc[Main] = "tearDown" /\ ~timerStarted' /\ shutdownRequested'
      /\ pc' = [pc EXCEPT ![Main] = "dead"]
      /\ UNCHANGED <<state, caller, collectionRequested, blockForCollection,
                     collectionPerformed, collected, toldCollected>>
  BY DEF StartTearDown, Goto, localHeapVars, historyVars
<1>3. /\ pc'[Initiator] = pc[Initiator] /\ pc'[Main] = "dead"
      /\ \A b \in Background : pc'[b] = pc[b]
  BY <1>1, <1>2
<1>4. TimerInv' /\ RequestInv' /\ ParkedMainInv'
  BY <1>2, <1>3 DEF CollectionInv, TimerInv, RequestInv, ParkedMainInv, ParkPcs, NotifyPcs
<1>5. CollectedInv'
  BY <1>2, <1>3 DEF CollectionInv, CollectedInv, Awaiting
<1>6. QED
  BY <1>4, <1>5 DEF CollectionInv

LEMMA NextPreservesCollection ==
  ASSUME SafepointInv, CollectionInv, [Next]_vars
  PROVE  CollectionInv'
<1>1. ASSUME NEW t \in Threads, ThreadStep(t) \/ Choice(t)
      PROVE  CollectionInv'
  <2>1. CASE t = Main
    BY <1>1, <2>1, QuietMain, CancelKeepsCollection DEF ThreadStep, Choice
  <2>2. CASE t \in Background
    BY <1>1, <2>2, QuietBackgroundThread, CancelKeepsCollection DEF ThreadStep, Choice
  <2>3. QED
    BY <2>1, <2>2 DEF Threads
<1>2. ASSUME NEW b \in Background, BackgroundStep(b) \/ BackgroundChoice(b)
      PROVE  CollectionInv'
  BY <1>2, QuietBackgroundThread, BackgroundAsks DEF BackgroundStep, BackgroundChoice
<1>3. ASSUME NEW p \in {Main, Initiator}, SafepointStep(p)
      PROVE  CollectionInv'
  BY <1>3, QuietSafepointStep
<1>4. CASE MainStep
  BY <1>4, QuietMain, MainCollects, TearDownKeepsCollection DEF MainStep
<1>5. CASE MainChoice
  BY <1>5, QuietMain DEF MainChoice
<1>6. CASE InitiatorStep \/ EnterGlobalSafepointScope
  BY <1>6, QuietInitiator
<1>7. CASE UNCHANGED vars
  BY <1>7, QuietBesideMain DEF vars, localHeapVars, Awaiting
<1>8. QED
  BY <1>1, <1>2, <1>3, <1>4, <1>5, <1>6, <1>7 DEF Next

\* Requests, the timer, block_for_collection_ and the main thread's state word
\* agree in every execution, with and without a shared space.
THEOREM CollectionInvariant == Spec => []CollectionInv
<1>1. Init => CollectionInv
  BY InitEstablishesCollection
<1>2. SafepointInv /\ CollectionInv /\ [Next]_vars => CollectionInv'
  BY NextPreservesCollection
<1>3. QED
  BY <1>1, <1>2, SafepointInvariant, PTL DEF Spec

\* The CHECKs and DCHECKs on the time-to-collection timer never fail, however
\* requests, cancellations, collections and the shutdown follow each other.
THEOREM TimerIsRight == Spec => []TimerChecks
<1>1. SafepointInv /\ CollectionInv => TimerChecks
  <2> SUFFICES ASSUME SafepointInv, CollectionInv PROVE TimerChecks
    OBVIOUS
  <2>1. ASSUME NEW b \in Background, pc[b] \in {"await", "run"}, ~shutdownRequested
        PROVE  timerStarted <=> collectionRequested
    BY <2>1, NobodyAsksInSafepoint DEF StoppedPcs, AccessPcs, CollectionInv, TimerInv
  <2>2. QED
    BY <2>1 DEF TimerChecks, CollectionInv, TimerInv
<1>2. QED
  BY <1>1, SafepointInvariant, CollectionInvariant, PTL

\* A background thread that AwaitCollectionBackground tells of a collection has
\* had one since it asked: not an earlier one, and not a canceled one.
THEOREM ToldMeansCollected == Spec => []AwaitTrueMeansCollected
<1>1. CollectionInv => AwaitTrueMeansCollected
  BY DEF CollectionInv, CollectedInv, AwaitTrueMeansCollected
<1>2. QED
  BY <1>1, CollectionInvariant, PTL

\* In an isolate without a shared space no background thread waits for a
\* collection while the main thread is parked for an operation of its own.
THEOREM NobodyWaitsForParkedMain == Spec => [](~SharedSpace => NoWaitOnParkedMain)
<1>1. CollectionInv => (~SharedSpace => NoWaitOnParkedMain)
  BY DEF CollectionInv, ParkedMainInv, NoWaitOnParkedMain
<1>2. QED
  BY <1>1, CollectionInvariant, PTL

-----------------------------------------------------------------------------
(***************************************************************************)
(* The safepoint protocol implements StopTheWorld.  Ten actions are steps  *)
(* of the abstract specification; all others leave its two variables       *)
(* alone.                                                                  *)
(***************************************************************************)

\* The threads that have access, as the refinement mapping sees them.
Accessing == {t \in localHeaps : IsRunning(state[t])}

\* A step that changes neither who has access nor for whom the world is
\* stopped is a stuttering step of the abstract specification.
Invisible == Accessing' = Accessing /\ Stopper' = Stopper

\* Whoever has the world stopped is at a program point where it relies on it;
\* not more than one process is.
LEMMA StopperIs ==
  ASSUME SafepointInv, NEW p \in Scopers
  PROVE  /\ (Stopper = p) <=> (pc[p] \in StoppedPcs)
         /\ Stopper = None \/ Stopper = Main \/ Stopper = Initiator
<1> USE ThreadsAssumption DEF Threads, Procs, Scopers
<1>1. ~(pc[Main] \in StoppedPcs /\ pc[Initiator] \in StoppedPcs)
  BY DEF SafepointInv, MutexInv, HoldsMutex, ArmedPcs
<1>2. QED
  BY <1>1 DEF Stopper

\* A step that keeps the state words and the list of LocalHeaps, and neither
\* enters nor leaves a stopped world, is invisible.
LEMMA QuietStep ==
  ASSUME UNCHANGED <<state, localHeaps>>,
         \A p \in {Main, Initiator} :
           (pc'[p] \in StoppedPcs) <=> (pc[p] \in StoppedPcs)
  PROVE  Invisible
BY DEF Invisible, Accessing, Stopper

\* The steps of LocalHeap that keep the state word.
LEMMA QuietThreadSteps ==
  ASSUME SafepointInv, NEW t \in Threads,
         \/ NotifyPark(t) \/ CancelCollectionAndResumeThreads(t)
         \/ WaitInUnpark(t) \/ Safepoint(t) \/ ReportInSafepoint(t)
         \/ WakeInSafepoint(t) \/ CallPark(t) \/ CallUnpark(t)
  PROVE  Invisible
<1> USE ThreadsAssumption DEF SafepointInv, TypeOK, Threads, Procs, Goto,
      localHeapVars, listVars, StoppedPcs, NotifyPcs
<1>1. CASE NotifyPark(t)
  BY <1>1, QuietStep DEF NotifyPark, AfterPark
<1>2. CASE CancelCollectionAndResumeThreads(t)
  BY <1>2, QuietStep DEF CancelCollectionAndResumeThreads, AfterPark
<1>3. CASE WaitInUnpark(t)
  BY <1>3, QuietStep DEF WaitInUnpark
<1>4. CASE Safepoint(t)
  BY <1>4, QuietStep DEF Safepoint
<1>5. CASE ReportInSafepoint(t)
  BY <1>5, QuietStep DEF ReportInSafepoint
<1>6. CASE WakeInSafepoint(t)
  BY <1>6, QuietStep DEF WakeInSafepoint
<1>7. CASE CallPark(t) \/ CallUnpark(t)
  BY <1>7, QuietStep DEF CallPark, CallUnpark
<1>8. QED
  BY <1>1, <1>2, <1>3, <1>4, <1>5, <1>6, <1>7

\* A background thread's steps in the collection barrier, and the locking of
\* the list by the constructor and the destructor of its LocalHeap.
LEMMA QuietBackgroundSteps ==
  ASSUME SafepointInv, NEW b \in Background,
         \/ AwaitCollection(b) \/ ActivateStackGuardAndPostTask(b)
         \/ WaitForCollection(b) \/ LockToAdd(b) \/ LockToRemove(b)
         \/ TryRequestGC(b)
  PROVE  Invisible
<1> USE ThreadsAssumption DEF SafepointInv, TypeOK, Threads, Procs, Goto,
      localHeapVars, listVars, StoppedPcs
<1>1. CASE AwaitCollection(b)
  BY <1>1, QuietStep DEF AwaitCollection
<1>2. CASE ActivateStackGuardAndPostTask(b) \/ WaitForCollection(b)
  BY <1>2, QuietStep DEF ActivateStackGuardAndPostTask, WaitForCollection
<1>3. CASE LockToAdd(b) \/ LockToRemove(b)
  BY <1>3, QuietStep DEF LockToAdd, LockToRemove
<1>4. CASE TryRequestGC(b)
  BY <1>4, QuietStep DEF TryRequestGC
<1>5. QED
  BY <1>1, <1>2, <1>3, <1>4

\* Flags other than the parked bit may change without a visible effect, and a
\* LocalHeap joins and leaves the list parked.
LEMMA QuietFlagSteps ==
  ASSUME SafepointInv, NEW b \in Background,
         RequestCollection(b) \/ AddLocalHeap(b) \/ RemoveLocalHeap(b)
  PROVE  Invisible
<1> USE ThreadsAssumption DEF SafepointInv, TypeOK, Threads, Procs,
      Goto, SetState, localHeapVars, listVars, StoppedPcs, Accessing, Invisible,
      Stopper, IsRunning
<1>1. CASE RequestCollection(b)
  BY <1>1 DEF RequestCollection, SetCollectionRequested
<1>2. CASE AddLocalHeap(b)
  <2>1. b \notin Accessing /\ b \notin Accessing'
    BY <1>2 DEF AddLocalHeap, HeapsInv, Parked
  <2>2. QED
    BY <1>2, <2>1 DEF AddLocalHeap
<1>3. CASE RemoveLocalHeap(b)
  <2>1. b \notin Accessing
    BY <1>3 DEF RemoveLocalHeap, StateInv, RunningPcs, AccessPcs, ParkPcs
  <2>2. QED
    BY <1>3, <2>1 DEF RemoveLocalHeap
<1>4. QED
  BY <1>1, <1>2, <1>3

\* The same for the flags that the owner of a scope sets and clears.
LEMMA QuietScopeFlagSteps ==
  ASSUME SafepointInv, NEW p \in Scopers, NEW h \in Threads,
         \/ SetSafepointRequestedFlag(p, h) \/ ClearSafepointRequestedFlag(p, h)
  PROVE  Invisible
BY ThreadsAssumption DEF SafepointInv, TypeOK, Threads, SetState, listVars,
   Accessing, Invisible, Stopper, IsRunning, SetSafepointRequestedFlag,
   SetSafepointRequested, ClearSafepointRequestedFlag, ClearSafepointRequested

\* The collection drops the main thread's request flag.
LEMMA QuietCollection ==
  ASSUME SafepointInv, CollectGarbage
  PROVE  Invisible
BY ThreadsAssumption DEF SafepointInv, TypeOK, Threads, Procs, Goto, SetState,
   listVars, StoppedPcs, Accessing, Invisible, Stopper, IsRunning,
   CollectGarbage, ClearCollectionRequested

\* Arming and disarming happen before and after the world is stopped.
LEMMA QuietBarrierSteps ==
  ASSUME SafepointInv, NEW p \in Scopers, Arm(p) \/ Disarm(p)
  PROVE  Invisible
BY QuietStep, ThreadsAssumption DEF SafepointInv, TypeOK, Threads, Procs,
   Scopers, Goto, localHeapVars, listVars, StoppedPcs, Arm, Disarm

\* The main thread's and the initiator's steps outside the stopped world, and
\* those that stay inside it.
LEMMA QuietScopeSteps ==
  ASSUME SafepointInv,
         \/ LockMutex \/ LockMutexBlocked \/ LeaveNestedScope \/ UnlockLocal
         \/ StopTimeToCollectionTimer \/ ResumeThreadsAwaitingCollection
         \/ CheckCollectionRequested \/ LockClientsMutex \/ StartTearDown
         \/ OpenScope \/ EnterNestedScope \/ Deinit
         \/ InitiateGlobalSafepointScope \/ UnlockGlobal
         \/ EnterGlobalSafepointScope
  PROVE  Invisible
<1> USE ThreadsAssumption DEF SafepointInv, TypeOK, Threads, Procs, Goto,
      localHeapVars, listVars, StoppedPcs
<1>1. CASE LockMutex \/ LockMutexBlocked \/ UnlockLocal
  BY <1>1, QuietStep DEF LockMutex, LockMutexBlocked, UnlockLocal
<1>2. CASE LeaveNestedScope \/ EnterNestedScope
  BY <1>2, QuietStep DEF LeaveNestedScope, EnterNestedScope
<1>3. CASE StopTimeToCollectionTimer \/ ResumeThreadsAwaitingCollection
  BY <1>3, QuietStep DEF StopTimeToCollectionTimer,
     ResumeThreadsAwaitingCollection
<1>4. CASE CheckCollectionRequested \/ OpenScope
  BY <1>4, QuietStep DEF CheckCollectionRequested, OpenScope
<1>5. CASE LockClientsMutex \/ StartTearDown \/ Deinit
  BY <1>5, QuietStep DEF LockClientsMutex, StartTearDown, Deinit
<1>6. CASE \/ InitiateGlobalSafepointScope \/ UnlockGlobal
           \/ EnterGlobalSafepointScope
  BY <1>6, QuietStep DEF InitiateGlobalSafepointScope, UnlockGlobal,
     EnterGlobalSafepointScope
<1>7. QED
  BY <1>1, <1>2, <1>3, <1>4, <1>5, <1>6

-----------------------------------------------------------------------------
(* The visible steps.                                                      *)

\* Park() and SleepInSafepoint give access up, or leave the state word alone.
LEMMA LosingSteps ==
  ASSUME SafepointInv, NEW t \in Threads,
         \/ Park(t) \/ ParkForSafepoint(t) \/ ParkWithCollectionRequested(t)
         \/ SleepInSafepoint(t)
  PROVE  Invisible \/ StopTheWorldSpec!Lose(t)
<1> USE ThreadsAssumption DEF SafepointInv, TypeOK, Threads, Procs, Goto,
      SetState, localHeapVars, listVars
<1>1. Stopper' = Stopper /\ localHeaps' = localHeaps
  BY DEF Park, ParkForSafepoint, ParkWithCollectionRequested, SleepInSafepoint,
     AfterPark, Stopper, StoppedPcs
<1>2. Stopper # t
  BY DEF Park, ParkForSafepoint, ParkWithCollectionRequested, SleepInSafepoint,
     Stopper, StoppedPcs
<1>3. /\ pc[t] \in ParkPcs \union {"sleepInSafepoint"}
      /\ \/ state' = state
         \/ state' = [state EXCEPT ![t] = state[t] \union {"Parked"}]
  BY DEF Park, ParkForSafepoint, ParkWithCollectionRequested, SleepInSafepoint,
     ParkPcs, SetParked, Parked, Running
<1>4. t \in Accessing
  BY <1>3 DEF Accessing, StateInv, RunningPcs, HeapsInv, ParkPcs
<1>5. CASE state' = state
  BY <1>1, <1>5 DEF Invisible, Accessing
<1>6. CASE state' = [state EXCEPT ![t] = state[t] \union {"Parked"}]
  <2>1. Accessing' = Accessing \ {t}
    BY <1>1, <1>6 DEF Accessing, IsRunning
  <2>2. QED
    BY <1>1, <1>2, <1>4, <2>1 DEF StopTheWorldSpec!Lose, Accessing
<1>7. QED
  BY <1>3, <1>5, <1>6

\* Unpark() gains access only when no safepoint is requested of the thread, and
\* then nobody has the world stopped.
LEMMA GainingSteps ==
  ASSUME SafepointInv, NEW t \in Threads,
         Unpark(t) \/ UnparkWithCollectionRequested(t)
  PROVE  Invisible \/ StopTheWorldSpec!Gain(t)
<1> USE ThreadsAssumption DEF SafepointInv, TypeOK, Threads, Procs, Goto,
      SetState, localHeapVars, listVars
<1>1. Stopper' = Stopper /\ localHeaps' = localHeaps
  BY DEF Unpark, UnparkWithCollectionRequested, ReturnFromUnpark, AfterUnpark,
     Stopper, StoppedPcs
<1>2. /\ pc[t] \in UnparkPcs
      /\ \/ state' = state
         \/ /\ ~IsSafepointRequested(state[t])
            /\ state' = [state EXCEPT ![t] = state[t] \ {"Parked"}]
  BY DEF Unpark, UnparkWithCollectionRequested, UnparkPcs, SetRunning, Parked,
     Running, IsSafepointRequested
<1>3. t \in localHeaps /\ t \notin Accessing
  BY <1>2 DEF Accessing, StateInv, RunningPcs, HeapsInv, UnparkPcs, AccessPcs,
     ParkPcs, StoppedPcs
<1>4. CASE state' = state
  BY <1>1, <1>4 DEF Invisible, Accessing
<1>5. CASE /\ ~IsSafepointRequested(state[t])
           /\ state' = [state EXCEPT ![t] = state[t] \ {"Parked"}]
  <2>1. pc[t] \notin StoppedPcs
    BY <1>2 DEF UnparkPcs, StoppedPcs
  <2>2. ASSUME NEW p \in Scopers, pc[p] \in StoppedPcs PROVE FALSE
    BY <1>3, <1>5, <2>1, <2>2 DEF FlagInv, Targets, Scopers
  <2>3. Stopper = None
    BY <2>2 DEF Stopper, Scopers
  <2>4. Accessing' = Accessing \union {t}
    BY <1>1, <1>3, <1>5 DEF Accessing, IsRunning
  <2>5. QED
    BY <1>1, <1>3, <2>3, <2>4 DEF StopTheWorldSpec!Gain, Accessing
<1>6. QED
  BY <1>2, <1>4, <1>5

\* The owner's wait ends when all threads the scope covers are parked.
LEMMA StoppingStep ==
  ASSUME SafepointInv, SafepointInv', NEW p \in Scopers,
         WaitUntilRunningThreadsInSafepoint(p)
  PROVE  Invisible \/ StopTheWorldSpec!Stop(p)
<1> USE ThreadsAssumption DEF Threads, Procs, Scopers
<1>1. /\ UNCHANGED <<state, localHeaps>> /\ pc[p] = "setFlags"
      /\ pc' = pc \/ pc' = [pc EXCEPT ![p] = "safe"]
  BY DEF WaitUntilRunningThreadsInSafepoint, Goto, localHeapVars, listVars
<1>2. CASE pc' = pc
  BY <1>1, <1>2 DEF Invisible, Accessing, Stopper
<1>3. CASE pc' = [pc EXCEPT ![p] = "safe"]
  <2>1. pc'[p] = "safe"
    BY <1>3 DEF SafepointInv, TypeOK
  <2>2. pc[Main] \notin StoppedPcs /\ pc[Initiator] \notin StoppedPcs
    BY <1>1 DEF SafepointInv, MutexInv, HoldsMutex, ArmedPcs, StoppedPcs
  <2>3. Stopper = None /\ Stopper' = p
    BY <1>3, <2>1, <2>2 DEF Stopper, SafepointInv, TypeOK, StoppedPcs
  <2>4. Owing' = {} /\ \A h \in Targets(p)' : IsSafepointRequested(state'[h])
    BY <2>1 DEF SafepointInv, TypeOK, CountInv, FlagInv, StoppedPcs, Targets
  <2>5. \A h \in Targets(p) : ~IsRunning(state[h])
    BY <1>1, <2>4 DEF Owing, Targets, SafepointInv, TypeOK
  <2>6. Accessing \subseteq {p} /\ Accessing' = Accessing
    BY <1>1, <2>5 DEF Accessing, Targets
  <2>7. QED
    BY <2>3, <2>6 DEF StopTheWorldSpec!Stop, Accessing
<1>4. QED
  BY <1>1, <1>2, <1>3

\* Leaving the scope ends the stopped world.
LEMMA ResumingStep ==
  ASSUME SafepointInv, NEW p \in Scopers, LeaveSafepointScope(p)
  PROVE  StopTheWorldSpec!Resume(p)
<1> USE ThreadsAssumption DEF Threads, Procs, Scopers
<1>1. /\ UNCHANGED <<state, localHeaps>> /\ pc[p] \in {"leave", "safe"}
      /\ pc' = [pc EXCEPT ![p] = "clearFlags"]
  BY DEF LeaveSafepointScope, Goto, localHeapVars
<1>2. Stopper = p
  BY <1>1, StopperIs DEF StoppedPcs
<1>3. \A q \in Scopers : pc'[q] \notin StoppedPcs
  BY <1>1 DEF SafepointInv, TypeOK, MutexInv, HoldsMutex, ArmedPcs, StoppedPcs
<1>4. Stopper' = None
  BY <1>3 DEF Stopper
<1>5. QED
  BY <1>1, <1>2, <1>4 DEF StopTheWorldSpec!Resume, Accessing

-----------------------------------------------------------------------------

\* Every step of the protocol is a step of the abstract specification or
\* invisible to it.
LEMMA StepRefines ==
  ASSUME SafepointInv, SafepointInv', [Next]_vars
  PROVE  [StopTheWorldSpec!Next]_(StopTheWorldSpec!vars)
<1>1. SUFFICES \/ Invisible
               \/ \E t \in Threads : StopTheWorldSpec!Gain(t)
                                       \/ StopTheWorldSpec!Lose(t)
               \/ \E p \in Scopers : StopTheWorldSpec!Stop(p)
                                       \/ StopTheWorldSpec!Resume(p)
  BY DEF StopTheWorldSpec!Next, StopTheWorldSpec!vars, Invisible, Accessing,
     Scopers
<1>2. CASE \E t \in Threads : ThreadStep(t) \/ Choice(t)
  BY <1>2, QuietThreadSteps, LosingSteps, GainingSteps DEF ThreadStep, Choice
<1>3. CASE \E b \in Background : BackgroundStep(b) \/ BackgroundChoice(b)
  BY <1>3, QuietBackgroundSteps, QuietFlagSteps
     DEF BackgroundStep, BackgroundChoice, Threads, Scopers
<1>4. CASE \E p \in {Main, Initiator} : SafepointStep(p)
  <2>1. PICK p \in Scopers : SafepointStep(p)
    BY <1>4 DEF Scopers
  <2>2. CASE Arm(p) \/ Disarm(p)
    BY <2>2, QuietBarrierSteps
  <2>3. CASE \E h \in Threads : SetSafepointRequestedFlag(p, h)
                                  \/ ClearSafepointRequestedFlag(p, h)
    BY <2>3, QuietScopeFlagSteps
  <2>4. CASE WaitUntilRunningThreadsInSafepoint(p)
    BY <2>4, StoppingStep
  <2>5. CASE LeaveSafepointScope(p)
    BY <2>5, ResumingStep
  <2>6. QED
    BY <2>1, <2>2, <2>3, <2>4, <2>5 DEF SafepointStep
<1>5. CASE MainStep \/ MainChoice \/ InitiatorStep \/ EnterGlobalSafepointScope
  BY <1>5, QuietScopeSteps, QuietCollection
     DEF MainStep, MainChoice, InitiatorStep
<1>6. CASE UNCHANGED vars
  BY <1>6 DEF vars, localHeapVars, listVars, Invisible, Accessing, Stopper
<1>7. QED
  BY <1>2, <1>3, <1>4, <1>5, <1>6 DEF Next

\* The flags, counters, mutexes and condition variables of safepoint.cc and
\* local-heap.cc implement the abstract stop-the-world, for any number of
\* background threads: a thread gains access to the heap only while nobody has
\* the world stopped, and the world is stopped only when no other has access.
THEOREM SafepointsStopTheWorld == Spec => ImplementsStopTheWorld
<1>1. Init => StopTheWorldSpec!Init
  BY ThreadsAssumption DEF Init, StopTheWorldSpec!Init, Stopper, StoppedPcs,
     Threads, Procs
<1>2. SafepointInv /\ SafepointInv' /\ [Next]_vars
        => [StopTheWorldSpec!Next]_(StopTheWorldSpec!vars)
  BY StepRefines
<1>3. QED
  BY <1>1, <1>2, SafepointInvariant, PTL
     DEF Spec, ImplementsStopTheWorld, StopTheWorldSpec!Spec
==============================================================================

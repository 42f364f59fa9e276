----------------------------- MODULE ThreadState -----------------------------
(***************************************************************************)
(* LocalHeap::ThreadState and LocalHeap::AtomicThreadState: the one-byte   *)
(* state word of a thread's LocalHeap.  The byte is modelled by the set of *)
(* its bits that are 1, so fetch_or is a union, fetch_and of a complement  *)
(* is a set difference and a compare-exchange compares whole sets.         *)
(***************************************************************************)

\* ParkedBit, SafepointRequestedBit, CollectionRequestedBit.
StateBits == {"Parked", "SafepointRequested", "CollectionRequested"}

\* The two constant states a fast path compares with.
Running == {}
Parked == {"Parked"}

IsParked(s) == "Parked" \in s
IsRunning(s) == "Parked" \notin s
IsSafepointRequested(s) == "SafepointRequested" \in s
IsCollectionRequested(s) == "CollectionRequested" \in s

\* Safepoint()'s poll: running, and some bit asks for the slow path.
IsRunningWithSlowPathFlag(s) ==
  /\ IsRunning(s)
  /\ IsSafepointRequested(s) \/ IsCollectionRequested(s)

SetParked(s) == s \union {"Parked"}
SetRunning(s) == s \ {"Parked"}
SetSafepointRequested(s) == s \union {"SafepointRequested"}
ClearSafepointRequested(s) == s \ {"SafepointRequested"}
SetCollectionRequested(s) == s \union {"CollectionRequested"}
ClearCollectionRequested(s) == s \ {"CollectionRequested"}
==============================================================================

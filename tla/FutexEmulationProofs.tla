------------------------ MODULE FutexEmulationProofs ------------------------
(***************************************************************************)
(* Proofs about FutexEmulation, for any number of isolates, asynchronous   *)
(* waits, interrupts and buffers: the lists and the tasks hand each node   *)
(* on to one another, counted waiters are woken, and no interrupt is slept *)
(* through.                                                                *)
(***************************************************************************)
EXTENDS FutexEmulation, SequenceTheorems, FiniteSetTheorems, TLAPS

(***************************************************************************)
(* The inductive invariant.                                                *)
(***************************************************************************)
Distinct(s) == \A j, k \in DOMAIN s : s[j] = s[k] => j = k

Ended(i) == pc[i] \in {"deinit", "dead"}
InTimeout(i) == pc[i] \in {"timeout", "timeout_resolve"}

\* Where an asynchronous node may be: on the location's list, on the list of
\* promises to resolve, or in the hands of a task of its isolate.
Listed(n) == n \in Members(list)
Due(n) == n \in Members(to_resolve[IsolateOf[n]])
InHand(n) == n \in Members(current[IsolateOf[n]])

\* A node that notify has taken off the list.
Notified(n) ==
  /\ state[n] = "live" /\ n \notin waiting /\ n \notin timeouts /\ n \in counted

\* A node whose buffer and context are gone, which a notify has deleted.
Abandoned(n) == state[n] = "deleted" /\ n \in no_context /\ store_of[n] # store

NodeInv(n) ==
  /\ Listed(n) => /\ ~Due(n) /\ state[n] = "live"
                  /\ n \in waiting /\ n \notin counted
                  /\ timer[n] \in {"posted", "running"} => n \in timeouts
  /\ Due(n) => Notified(n)
  /\ InHand(n) /\ pc[IsolateOf[n]] = "resolve" => Notified(n) /\ ~Listed(n) /\ ~Due(n)
  /\ InHand(n) /\ pc[IsolateOf[n]] = "timeout" => Listed(n) \/ Due(n) \/ Abandoned(n)
  /\ InHand(n) /\ pc[IsolateOf[n]] = "timeout_resolve" =>
       /\ ~Listed(n) /\ ~Due(n)
       /\ \/ state[n] = "live" /\ n \in waiting /\ n \in timeouts /\ n \notin counted
          \/ Abandoned(n)
  /\ state[n] = "live" => Listed(n) \/ Due(n) \/ InHand(n)
  /\ state[n] = "none" => timer[n] \in {"none", "gone"} /\ n \notin counted
  /\ timer[n] = "posted" => Ended(IsolateOf[n]) \/ (state[n] = "live" /\ n \in timer_id)
  /\ timer[n] = "running" <=> InHand(n) /\ InTimeout(IsolateOf[n])
  /\ store_of[n] <= store
  /\ promise[n] # "none" => state[n] = "deleted"
  /\ promise[n] = "timed-out" => n \notin counted
  /\ promise[n] = "ok" => n \in counted

\* The tasks of an isolate.
TaskInv(i) ==
  /\ Members(to_resolve[i]) \subseteq AsyncOf(i)
  /\ Members(current[i]) \subseteq AsyncOf(i)
  /\ Distinct(to_resolve[i]) /\ Distinct(current[i])
  /\ current[i] # <<>> <=> pc[i] \in {"resolve", "timeout", "timeout_resolve"}
  /\ InTimeout(i) => Len(current[i]) = 1
  /\ ~Ended(i) => (i \in resolver <=> to_resolve[i] # <<>>)
  /\ Ended(i) => \A n \in AsyncOf(i) : state[n] # "live"

\* The synchronous waits of an isolate.
WaitInv(i) ==
  /\ pc[i] \in InWait <=> i \in Members(list)
  /\ pc[i] \in InWait => result[i] = "none" /\ (i \in waiting <=> i \notin counted)
  /\ pc[i] = "start" => result[i] = "none" /\ i \notin counted
  /\ i \in waiting => pc[i] \in InWait
  /\ result[i] = "timed-out" => i \notin counted
  /\ result[i] = "ok" => i \in counted \cup stopped

\* A termination that has been requested will be seen, and a thread that sleeps
\* with an interrupt has been signaled.
InterruptInv(i) ==
  /\ "terminate" \in flags[i] =>
       "interrupt" \in notifying[i] \/ i \in interrupted \/ pc[i] = "interrupts"
  /\ pc[i] = "asleep" /\ i \in interrupted => i \in signaled
  /\ pc[i] = "asleep" /\ i \in stopped => notifying[i] # {} \/ i \in signaled

FutexProofInv ==
  /\ TypeOK
  /\ Distinct(list) /\ WokenInOrder
  /\ \A n \in AsyncNodes : NodeInv(n)
  /\ \A i \in Isolates : TaskInv(i) /\ WaitInv(i) /\ InterruptInv(i)

-----------------------------------------------------------------------------
(* Lists. *)

LEMMA MembersDef ==
  \A seq, x : x \in Members(seq) <=> \E k \in DOMAIN seq : seq[k] = x
BY DEF Members

\* The positions of the elements that Only keeps are numbered by their ranks.
LEMMA RankIsBijective ==
  ASSUME NEW S, NEW seq \in Seq(S), NEW set
  PROVE  /\ IsFiniteSet(Kept(seq, set)) /\ Cardinality(Kept(seq, set)) \in Nat
         /\ Cardinality(Kept(seq, set)) <= Len(seq)
         /\ \A k \in Kept(seq, set) :
              Rank(seq, set, k) \in 1..Cardinality(Kept(seq, set))
         /\ \A j, k \in Kept(seq, set) :
              j < k => Rank(seq, set, j) < Rank(seq, set, k)
         /\ \A r \in 1..Cardinality(Kept(seq, set)) :
              \E k \in Kept(seq, set) : Rank(seq, set, k) = r
<1> DEFINE K == Kept(seq, set)
           upto(k) == {j \in K : j <= k}
<1>1. K \subseteq 1..Len(seq) /\ Len(seq) \in Nat
  BY LenProperties DEF Kept
<1>2. /\ IsFiniteSet(K) /\ Cardinality(K) \in Nat /\ Cardinality(K) <= Len(seq)
      /\ \A k \in K : IsFiniteSet(upto(k)) /\ Cardinality(upto(k)) \in Nat
  <2>1. IsFiniteSet(1..Len(seq)) /\ Cardinality(1..Len(seq)) = Len(seq)
    <3>1. \A n \in Nat : IsFiniteSet(1..n) /\ Cardinality(1..n) = IF 1 > n THEN 0 ELSE n - 1 + 1
      BY FS_Interval
    <3>2. \A n \in Nat : (IF 1 > n THEN 0 ELSE n - 1 + 1) = n
      OBVIOUS
    <3>3. QED
      BY <1>1, <3>1, <3>2, Zenon
  <2>2. IsFiniteSet(K) /\ Cardinality(K) <= Len(seq)
    BY <1>1, <2>1, FS_Subset
  <2>3. \A k \in K : IsFiniteSet(upto(k))
    BY <2>2, FS_Subset
  <2>4. QED
    BY <2>2, <2>3, FS_CardinalityType
<1>3. \A k \in K : Rank(seq, set, k) = Cardinality(upto(k))
  BY DEF Rank
<1> DEFINE size(k) == Cardinality(upto(k))
           C == Cardinality(K)
<1>4. \A k \in K : size(k) \in 1..C
  <2> SUFFICES ASSUME NEW k \in K PROVE size(k) \in 1..C
    OBVIOUS
  <2>1. size(k) <= C
    BY <1>2, FS_Subset
  <2>2. k \in upto(k)
    BY <1>1
  <2>3. size(k) # 0
    BY <1>2, <2>2, FS_EmptySet
  <2>4. size(k) \in Nat /\ C \in Nat
    BY <1>2
  <2> HIDE DEF size, C
  <2>5. QED
    BY <2>1, <2>3, <2>4
<1>5. \A j, k \in K : j < k => size(j) < size(k)
  <2> SUFFICES ASSUME NEW j \in K, NEW k \in K, j < k PROVE size(j) < size(k)
    OBVIOUS
  <2>1. j \in Nat /\ k \in Nat
    BY <1>1
  <2>2. upto(j) \subseteq upto(k) /\ k \in upto(k) /\ k \notin upto(j)
    BY <1>1, <2>1
  <2>3. size(j) <= size(k) /\ (size(k) = size(j) => upto(k) = upto(j))
    BY <1>2, <2>2, FS_Subset
  <2>4. size(k) # size(j)
    BY <2>2, <2>3
  <2>5. size(k) \in Nat /\ size(j) \in Nat
    BY <1>2
  <2> HIDE DEF size
  <2>6. QED
    BY <2>3, <2>4, <2>5
<1>6. C \in Nat
  BY <1>2
<1>7. \A r \in 1..C : \E k \in K : size(k) = r
  <2> HIDE DEF size, C
  <2> DEFINE f == [k \in K |-> size(k)]
             T == 1..C
  <2>1. f \in [K -> T]
    BY <1>4
  <2>2. \A j, k \in K : f[j] = f[k] => j = k
    <3> SUFFICES ASSUME NEW j \in K, NEW k \in K, size(j) = size(k) PROVE j = k
      OBVIOUS
    <3>1. j \in Nat /\ k \in Nat /\ size(j) \in Nat
      BY <1>1, <1>4, <1>6
    <3>2. ~(j < k) /\ ~(k < j)
      BY <1>5, <3>1
    <3>3. QED
      BY <3>1, <3>2
  <2>3. f \in Injection(K, T)
    BY <2>1, <2>2 DEF Injection, IsInjective
  <2>4. IsFiniteSet(T) /\ Cardinality(T) = C
    <3>1. IsFiniteSet(T) /\ Cardinality(T) = IF 1 > C THEN 0 ELSE C - 1 + 1
      BY <1>6, FS_Interval
    <3>2. QED
      BY <1>6, <3>1
  <2>5. f \in Surjection(K, T)
    BY <2>3, <2>4, FS_Injection DEF C
  <2>6. \A r \in T : \E k \in K : f[k] = r
    BY <2>5 DEF Surjection
  <2>7. QED
    BY <2>6
<1>8. QED
  BY <1>2, <1>3, <1>4, <1>5, <1>7

\* Only keeps the elements of the set, each in the order of the sequence: place
\* k of the result is place at[k] of the sequence.
LEMMA OnlyProperties ==
  ASSUME NEW S, NEW seq \in Seq(S), NEW set
  PROVE  /\ Only(seq, set) \in Seq(S)
         /\ Members(Only(seq, set)) = Members(seq) \cap set
         /\ \E at \in [DOMAIN Only(seq, set) -> DOMAIN seq] :
              /\ \A k \in DOMAIN Only(seq, set) : Only(seq, set)[k] = seq[at[k]]
              /\ \A j, k \in DOMAIN Only(seq, set) : j < k => at[j] < at[k]
<1> DEFINE K == Kept(seq, set)
           C == Cardinality(K)
           rank(k) == Rank(seq, set, k)
           index == [r \in 1..C |-> CHOOSE k \in K : rank(k) = r]
           o == Only(seq, set)
<1>1. /\ K \subseteq DOMAIN seq /\ DOMAIN seq = 1..Len(seq) /\ Len(seq) \in Nat
      /\ K = {k \in DOMAIN seq : seq[k] \in set}
  BY LenProperties DEF Kept
<1>2. /\ C \in Nat
      /\ \A k \in K : rank(k) \in 1..C
      /\ \A j, k \in K : j < k => rank(j) < rank(k)
      /\ \A r \in 1..C : \E k \in K : rank(k) = r
  BY RankIsBijective
<1> HIDE DEF K, rank
<1>3. \A r \in 1..C : index[r] \in K /\ rank(index[r]) = r
  BY <1>2
<1>4. o = [r \in 1..C |-> seq[index[r]]]
  BY DEF Only, K, rank
<1> HIDE DEF C, index, o
<1>5. o \in Seq(S)
  <2>1. \A r \in 1..C : seq[index[r]] \in S
    BY <1>1, <1>3, ElementOfSeq
  <2>2. o \in [1..C -> S]
    BY <1>4, <2>1
  <2>3. QED
    BY <1>2, <2>2
<1>6. DOMAIN o = 1..C /\ \A r \in 1..C : o[r] = seq[index[r]]
  BY <1>4
<1>7. \A k \in K : index[rank(k)] = k
  <2> SUFFICES ASSUME NEW k \in K PROVE index[rank(k)] = k
    OBVIOUS
  <2> DEFINE j == index[rank(k)]
  <2>1. rank(k) \in 1..C /\ j \in K /\ rank(j) = rank(k)
    BY <1>2, <1>3
  <2>2. j \in Nat /\ k \in Nat /\ rank(k) \in Int
    BY <1>1, <1>2, <2>1
  <2> HIDE DEF j
  <2>3. ~(j < k) /\ ~(k < j)
    BY <1>2, <2>1, <2>2
  <2>4. j = k
    BY <2>2, <2>3
  <2>5. QED
    BY <2>4 DEF j
<1>8. Members(o) = Members(seq) \cap set
  <2>1. \A r \in DOMAIN o : o[r] \in Members(seq) \cap set
    BY <1>1, <1>3, <1>6 DEF Members
  <2>2. \A k \in DOMAIN seq : seq[k] \in set => \E r \in DOMAIN o : o[r] = seq[k]
    <3> SUFFICES ASSUME NEW k \in DOMAIN seq, seq[k] \in set
                 PROVE  \E r \in DOMAIN o : o[r] = seq[k]
      OBVIOUS
    <3>1. k \in K
      BY <1>1
    <3>2. rank(k) \in DOMAIN o /\ o[rank(k)] = seq[k]
      BY <1>2, <1>6, <1>7, <3>1
    <3>3. QED
      BY <3>2
  <2>3. QED
    BY <2>1, <2>2, Zenon DEF Members
<1>9. \A j, k \in 1..C : j < k => index[j] < index[k]
  <2> SUFFICES ASSUME NEW j \in 1..C, NEW k \in 1..C, j < k PROVE index[j] < index[k]
    OBVIOUS
  <2>1. /\ index[j] \in K /\ index[k] \in K /\ rank(index[j]) = j /\ rank(index[k]) = k
        /\ index[j] \in Nat /\ index[k] \in Nat /\ j \in Nat /\ k \in Nat
    BY <1>1, <1>2, <1>3
  <2>2. ~(index[k] < index[j]) /\ index[j] # index[k]
    BY <1>2, <2>1
  <2>3. QED
    BY <2>1, <2>2
<1>10. index \in [DOMAIN o -> DOMAIN seq]
  <2>1. index \in [1..C -> K]
    BY <1>3 DEF index
  <2>2. QED
    BY <1>1, <1>6, <2>1
<1>11. QED
  BY <1>5, <1>6, <1>8, <1>9, <1>10 DEF o

\* What the invariant needs of Only and Without.
LEMMA OnlyKeepsDistinct ==
  ASSUME NEW S, NEW seq \in Seq(S), NEW set, Distinct(seq)
  PROVE  Distinct(Only(seq, set))
<1> DEFINE o == Only(seq, set)
<1>1. o \in Seq(S)
  BY OnlyProperties
<1>2. PICK at \in [DOMAIN o -> DOMAIN seq] :
        /\ \A k \in DOMAIN o : o[k] = seq[at[k]]
        /\ \A j, k \in DOMAIN o : j < k => at[j] < at[k]
  BY OnlyProperties
<1> HIDE DEF o
<1>3. DOMAIN o \subseteq Nat /\ DOMAIN seq \subseteq Nat
  BY <1>1, LenProperties
<1>4. SUFFICES ASSUME NEW j \in DOMAIN o, NEW k \in DOMAIN o, o[j] = o[k] PROVE j = k
  BY DEF Distinct, o
<1>5. at[j] = at[k] /\ at[j] \in Nat /\ j \in Nat /\ k \in Nat
  BY <1>2, <1>3, <1>4 DEF Distinct
<1>6. ~(j < k) /\ ~(k < j)
  BY <1>2, <1>5
<1>7. QED
  BY <1>5, <1>6

LEMMA WithoutProperties ==
  ASSUME NEW S, NEW seq \in Seq(S), NEW set, Distinct(seq)
  PROVE  /\ Without(seq, set) \in Seq(S) /\ Distinct(Without(seq, set))
         /\ Members(Without(seq, set)) = Members(seq) \ set
<1>1. Without(seq, set) = Only(seq, Members(seq) \ set)
  BY DEF Without
<1>2. QED
  BY <1>1, OnlyProperties, OnlyKeepsDistinct

LEMMA AppendKeepsDistinct ==
  ASSUME NEW S, NEW seq \in Seq(S), NEW x \in S, Distinct(seq), x \notin Members(seq)
  PROVE  /\ Append(seq, x) \in Seq(S) /\ Distinct(Append(seq, x))
         /\ Members(Append(seq, x)) = Members(seq) \cup {x}
<1> DEFINE a == Append(seq, x)
<1>1. /\ a \in Seq(S) /\ DOMAIN a = 1..(Len(seq) + 1) /\ DOMAIN seq = 1..Len(seq)
      /\ Len(seq) \in Nat /\ a[Len(seq) + 1] = x /\ \A k \in 1..Len(seq) : a[k] = seq[k]
  BY AppendProperties, LenProperties
<1> HIDE DEF a
<1>2. \A k \in DOMAIN seq : seq[k] # x
  BY DEF Members
<1>3. \A k \in DOMAIN a : \/ k \in DOMAIN seq /\ a[k] = seq[k]
                          \/ k = Len(seq) + 1 /\ a[k] = x
  <2> DEFINE n == Len(seq)
  <2> HIDE DEF n
  <2>1. n \in Nat /\ DOMAIN a = 1..(n + 1) /\ DOMAIN seq = 1..n
    BY <1>1 DEF n
  <2>2. \A k \in DOMAIN a : k \in DOMAIN seq \/ k = n + 1
    BY <2>1
  <2>3. QED
    BY <1>1, <2>2 DEF n
<1>4. Distinct(a)
  BY <1>2, <1>3 DEF Distinct
<1>5. \A k \in DOMAIN seq : k \in DOMAIN a /\ a[k] = seq[k]
  BY <1>1
<1>6. Len(seq) + 1 \in DOMAIN a
  BY <1>1
<1>7. Members(a) = Members(seq) \cup {x}
  <2>1. \A k \in DOMAIN a : a[k] = x \/ \E j \in DOMAIN seq : a[k] = seq[j]
    BY <1>3
  <2>2. /\ \A k \in DOMAIN seq : \E j \in DOMAIN a : a[j] = seq[k]
        /\ \E j \in DOMAIN a : a[j] = x
    BY <1>1, <1>5, <1>6
  <2>3. \A y : y \in Members(a) <=> y \in Members(seq) \cup {x}
    BY <2>1, <2>2, MembersDef
  <2>4. QED
    BY <2>3
<1>8. QED
  BY <1>1, <1>4, <1>7 DEF a

LEMMA ConcatKeepsDistinct ==
  ASSUME NEW S, NEW s \in Seq(S), NEW t \in Seq(S), Distinct(s), Distinct(t),
         Members(s) \cap Members(t) = {}
  PROVE  /\ s \o t \in Seq(S) /\ Distinct(s \o t)
         /\ Members(s \o t) = Members(s) \cup Members(t)
<1> DEFINE c == s \o t
<1>1. /\ c \in Seq(S) /\ DOMAIN c = 1..(Len(s) + Len(t))
      /\ DOMAIN s = 1..Len(s) /\ DOMAIN t = 1..Len(t) /\ Len(s) \in Nat /\ Len(t) \in Nat
      /\ \A k \in 1..(Len(s) + Len(t)) : c[k] = IF k <= Len(s) THEN s[k] ELSE t[k - Len(s)]
  BY ConcatProperties, LenProperties
<1> HIDE DEF c
<1>2. \A k \in DOMAIN c : \/ k \in DOMAIN s /\ c[k] = s[k]
                          \/ k - Len(s) \in DOMAIN t /\ c[k] = t[k - Len(s)]
  BY <1>1
<1>3. /\ \A k \in DOMAIN s : k \in DOMAIN c /\ c[k] = s[k]
      /\ \A k \in DOMAIN t : k + Len(s) \in DOMAIN c /\ c[k + Len(s)] = t[k]
  BY <1>1
<1>4. Members(c) = Members(s) \cup Members(t)
  <2>1. \A k \in DOMAIN c : \/ \E j \in DOMAIN s : c[k] = s[j]
                            \/ \E j \in DOMAIN t : c[k] = t[j]
    BY <1>2
  <2>2. /\ \A k \in DOMAIN s : \E j \in DOMAIN c : c[j] = s[k]
        /\ \A k \in DOMAIN t : \E j \in DOMAIN c : c[j] = t[k]
    BY <1>3
  <2>3. \A y : y \in Members(c) <=> y \in Members(s) \cup Members(t)
    BY <2>1, <2>2, MembersDef
  <2>4. QED
    BY <2>3
<1>5. \A j \in DOMAIN s, k \in DOMAIN t : s[j] # t[k]
  BY DEF Members
<1>6. Distinct(c)
  <2> SUFFICES ASSUME NEW j \in DOMAIN c, NEW k \in DOMAIN c, c[j] = c[k] PROVE j = k
    BY DEF Distinct
  <2>1. j \in Int /\ k \in Int
    BY <1>1
  <2>2. CASE j \in DOMAIN s /\ c[j] = s[j] /\ k \in DOMAIN s /\ c[k] = s[k]
    BY <2>2 DEF Distinct
  <2>3. CASE /\ j - Len(s) \in DOMAIN t /\ c[j] = t[j - Len(s)]
             /\ k - Len(s) \in DOMAIN t /\ c[k] = t[k - Len(s)]
    <3>1. j - Len(s) = k - Len(s)
      BY <2>3 DEF Distinct
    <3>2. QED
      BY <1>1, <2>1, <3>1
  <2>4. QED
    BY <1>2, <1>5, <2>2, <2>3
<1>7. QED
  BY <1>1, <1>4, <1>6 DEF c

LEMMA TailKeepsDistinct ==
  ASSUME NEW S, NEW seq \in Seq(S), Distinct(seq), seq # <<>>
  PROVE  /\ Tail(seq) \in Seq(S) /\ Distinct(Tail(seq))
         /\ Head(seq) \in Members(seq) /\ Members(seq) \subseteq S
         /\ Members(Tail(seq)) = Members(seq) \ {Head(seq)}
         /\ Tail(seq) = <<>> <=> Len(seq) = 1
<1> DEFINE t == Tail(seq)
<1>1. /\ t \in Seq(S) /\ DOMAIN t = 1..(Len(seq) - 1) /\ DOMAIN seq = 1..Len(seq)
      /\ Len(seq) \in Nat \ {0} /\ Head(seq) = seq[1] /\ Len(t) = Len(seq) - 1
      /\ \A k \in 1..(Len(seq) - 1) : t[k] = seq[k + 1]
  BY HeadTailProperties, LenProperties, EmptySeq
<1>2. t = <<>> <=> Len(seq) = 1
  BY <1>1, EmptySeq
<1> HIDE DEF t
<1>3. \A k \in DOMAIN t : k + 1 \in DOMAIN seq /\ k + 1 # 1 /\ t[k] = seq[k + 1]
  BY <1>1
<1>4. Distinct(t)
  <2> SUFFICES ASSUME NEW j \in DOMAIN t, NEW k \in DOMAIN t, t[j] = t[k] PROVE j = k
    BY DEF Distinct
  <2>1. j + 1 = k + 1
    BY <1>3 DEF Distinct
  <2>2. QED
    BY <1>1, <2>1
<1>5. 1 \in DOMAIN seq /\ \A k \in DOMAIN seq : k = 1 \/ (k - 1 \in DOMAIN t /\ t[k - 1] = seq[k])
  BY <1>1
<1>6. Members(t) = Members(seq) \ {seq[1]}
  <2>1. \A k \in DOMAIN t : t[k] # seq[1] /\ \E j \in DOMAIN seq : seq[j] = t[k]
    BY <1>3, <1>5 DEF Distinct
  <2>2. \A k \in DOMAIN seq : seq[k] # seq[1] => \E j \in DOMAIN t : t[j] = seq[k]
    BY <1>5
  <2>3. \A y : y \in Members(t) <=> y \in Members(seq) \ {seq[1]}
    BY <2>1, <2>2, MembersDef
  <2>4. QED
    BY <2>3
<1>7. Head(seq) \in Members(seq) /\ Members(seq) \subseteq S
  BY <1>1, <1>5, ElementOfSeq DEF Members
<1>8. QED
  BY <1>1, <1>2, <1>4, <1>6, <1>7 DEF t

LEMMA EmptyHasNoMembers ==
  /\ Members(<<>>) = {} /\ Distinct(<<>>)
  /\ \A S : \A seq \in Seq(S) : Members(seq) = {} => seq = <<>>
<1>1. Members(<<>>) = {} /\ Distinct(<<>>)
  BY DEF Members, Distinct
<1>2. ASSUME NEW S, NEW seq \in Seq(S), Members(seq) = {} PROVE seq = <<>>
  <2>1. DOMAIN seq = {}
    BY <1>2 DEF Members
  <2>2. DOMAIN seq = 1..Len(seq) /\ Len(seq) \in Nat
    BY LenProperties
  <2>3. Len(seq) = 0
    BY <2>1, <2>2
  <2>4. QED
    BY <2>3, EmptySeq
<1>3. QED
  BY <1>1, <1>2

-----------------------------------------------------------------------------
(* Frames: the parts of the invariant that a step does not touch. *)

\* Program points at which the isolate runs no task and has not ended.
Neutral == InWait \cup {"idle", "start"}

LEMMA NodeFrame ==
  ASSUME NEW n \in AsyncNodes, NodeInv(n),
         Listed(n)' <=> Listed(n), Due(n)' <=> Due(n), InHand(n)' <=> InHand(n),
         state'[n] = state[n], timer'[n] = timer[n], promise'[n] = promise[n],
         store_of'[n] = store_of[n], store' = store,
         n \in waiting' <=> n \in waiting, n \in counted' <=> n \in counted,
         n \in timeouts' <=> n \in timeouts, n \in timer_id' <=> n \in timer_id,
         n \in no_context' <=> n \in no_context,
         \/ pc'[IsolateOf[n]] = pc[IsolateOf[n]]
         \/ pc[IsolateOf[n]] \in Neutral /\ pc'[IsolateOf[n]] \in Neutral
  PROVE  NodeInv(n)'
<1>1. /\ (pc'[IsolateOf[n]] = "resolve") <=> (pc[IsolateOf[n]] = "resolve")
      /\ (pc'[IsolateOf[n]] = "timeout") <=> (pc[IsolateOf[n]] = "timeout")
      /\ (pc'[IsolateOf[n]] = "timeout_resolve") <=> (pc[IsolateOf[n]] = "timeout_resolve")
      /\ Ended(IsolateOf[n])' <=> Ended(IsolateOf[n])
      /\ InTimeout(IsolateOf[n])' <=> InTimeout(IsolateOf[n])
  BY DEF Neutral, InWait, Ended, InTimeout
<1>2. (Notified(n)' <=> Notified(n)) /\ (Abandoned(n)' <=> Abandoned(n))
  BY DEF Notified, Abandoned
<1>3. QED
  BY <1>1, <1>2 DEF NodeInv

LEMMA TaskFrame ==
  ASSUME NEW i \in Isolates, TaskInv(i),
         to_resolve'[i] = to_resolve[i], current'[i] = current[i],
         i \in resolver' <=> i \in resolver,
         \A n \in AsyncOf(i) : Ended(i) /\ state'[n] = "live" => state[n] = "live",
         pc'[i] = pc[i] \/ (pc[i] \in Neutral /\ pc'[i] \in Neutral)
  PROVE  TaskInv(i)'
<1>1. /\ (pc'[i] \in {"resolve", "timeout", "timeout_resolve"}) <=>
           (pc[i] \in {"resolve", "timeout", "timeout_resolve"})
      /\ Ended(i)' <=> Ended(i)
      /\ InTimeout(i)' <=> InTimeout(i)
  BY DEF Neutral, InWait, Ended, InTimeout
<1>2. AsyncOf(i)' = AsyncOf(i)
  BY DEF AsyncOf
<1>3. /\ Members(to_resolve[i])' = Members(to_resolve[i])
      /\ Members(current[i])' = Members(current[i])
      /\ Distinct(to_resolve[i])' <=> Distinct(to_resolve[i])
      /\ Distinct(current[i])' <=> Distinct(current[i])
  BY DEF Members, Distinct
<1>4. QED
  BY <1>1, <1>2, <1>3 DEF TaskInv

LEMMA WaitFrame ==
  ASSUME NEW i \in Isolates, WaitInv(i),
         i \in Members(list') <=> i \in Members(list),
         result'[i] = result[i],
         i \in waiting' <=> i \in waiting, i \in counted' <=> i \in counted,
         i \in stopped => i \in stopped',
         pc'[i] = pc[i] \/ (pc[i] \in InWait /\ pc'[i] \in InWait)
                        \/ (pc[i] \notin InWait /\ pc'[i] \notin InWait \cup {"start"})
  PROVE  WaitInv(i)'
BY DEF WaitInv, InWait

LEMMA InterruptFrame ==
  ASSUME NEW i \in Isolates, InterruptInv(i),
         flags'[i] = flags[i], notifying'[i] = notifying[i],
         i \in interrupted' <=> i \in interrupted, 
         i \in stopped' => i \in stopped,
         \/ pc'[i] = pc[i] /\ (i \in signaled => i \in signaled')
         \/ pc[i] # "interrupts" /\ pc'[i] # "asleep"
  PROVE  InterruptInv(i)'
BY DEF InterruptInv

\* The list and the order of wakeups.
Ordered(seq, present, w) ==
  \A j, k \in DOMAIN seq :
    j < k /\ seq[j] \in present /\ seq[k] \notin w => seq[j] \notin w

Present == {n \in Nodes : StoreOf(n) = store}

LEMMA WokenIsOrdered ==
  ASSUME list \in Seq(Nodes)
  PROVE  WokenInOrder <=> Ordered(list, Present, waiting)
<1>1. \A k \in DOMAIN list : list[k] \in Nodes
  BY LenProperties, ElementOfSeq
<1>2. \A k \in DOMAIN list : list[k] \in Present <=> StoreOf(list[k]) = store
  BY <1>1 DEF Present
<1>3. QED
  BY <1>2 DEF WokenInOrder, Ordered

LEMMA WokenIsOrderedNext ==
  ASSUME list' \in Seq(Nodes)
  PROVE  WokenInOrder' <=> Ordered(list', Present', waiting')
<1>1. \A k \in DOMAIN list' : list'[k] \in Nodes
  BY LenProperties, ElementOfSeq
<1>2. \A k \in DOMAIN list' : list'[k] \in Present' <=> StoreOf(list[k])' = store'
  BY <1>1 DEF Present, Nodes, StoreOf
<1>3. QED
  BY <1>2 DEF WokenInOrder, Ordered

LEMMA OnlyKeepsOrder ==
  ASSUME NEW S, NEW seq \in Seq(S), NEW set, NEW present, NEW w,
         Ordered(seq, present, w)
  PROVE  Ordered(Only(seq, set), present, w)
<1> DEFINE o == Only(seq, set)
<1>1. PICK at \in [DOMAIN o -> DOMAIN seq] :
        /\ \A k \in DOMAIN o : o[k] = seq[at[k]]
        /\ \A j, k \in DOMAIN o : j < k => at[j] < at[k]
  BY OnlyProperties
<1> HIDE DEF o
<1>2. Ordered(o, present, w)
  BY <1>1 DEF Ordered
<1>3. QED
  BY <1>2 DEF o

LEMMA AppendKeepsOrder ==
  ASSUME NEW S, NEW seq \in Seq(S), NEW x \in S, NEW present, NEW w,
         Ordered(seq, present, w), x \in w
  PROVE  Ordered(Append(seq, x), present, w)
<1> DEFINE a == Append(seq, x)
           m == Len(seq)
<1>1. /\ m \in Nat /\ DOMAIN a = 1..(m + 1) /\ DOMAIN seq = 1..m
      /\ a[m + 1] = x /\ \A k \in 1..m : a[k] = seq[k]
  BY AppendProperties, LenProperties
<1> HIDE DEF a, m
<1>2. \A j, k \in DOMAIN a : j < k /\ k # m + 1 => j \in 1..m /\ k \in 1..m
  BY <1>1
<1>3. Ordered(a, present, w)
  <2> SUFFICES ASSUME NEW j \in DOMAIN a, NEW k \in DOMAIN a,
                      j < k, a[j] \in present, a[k] \notin w
               PROVE  a[j] \notin w
    BY DEF Ordered
  <2>1. j \in 1..m /\ k \in 1..m
    BY <1>1, <1>2
  <2>2. QED
    BY <1>1, <2>1 DEF Ordered
<1>4. QED
  BY <1>3 DEF a

\* Only what the members of the list are matters.
LEMMA OrderDependsOnMembers ==
  ASSUME NEW seq, NEW p, NEW q, NEW v, NEW w, Ordered(seq, p, v),
         \A n \in Members(seq) : n \in q => n \in p,
         \A n \in Members(seq) : n \in w <=> n \in v
  PROVE  Ordered(seq, q, w)
<1>1. \A k \in DOMAIN seq : seq[k] \in Members(seq)
  BY DEF Members
<1>2. QED
  BY <1>1 DEF Ordered

LEMMA OrderFrame ==
  ASSUME TypeOK, WokenInOrder, list' \in Seq(Nodes),
         list' = list \/ \E set : list' = Only(list, set),
         store' = store,
         \A n \in AsyncNodes : Listed(n)' => store_of'[n] = store_of[n],
         \A n \in Members(list') : n \in waiting' <=> n \in waiting
  PROVE  WokenInOrder'
<1>1. Ordered(list, Present, waiting)
  BY WokenIsOrdered DEF TypeOK
<1>2. Ordered(list', Present, waiting)
  BY <1>1, OnlyKeepsOrder DEF TypeOK
<1>3. \A n \in Members(list') : n \in Present' => n \in Present
  <2> SUFFICES ASSUME NEW n \in Members(list'), n \in Present' PROVE n \in Present
    OBVIOUS
  <2>1. n \in Nodes /\ StoreOf(n)' = store'
    BY DEF Present, Nodes
  <2>2. n \in AsyncNodes => store_of'[n] = store_of[n]
    BY DEF Listed
  <2>3. QED
    BY <2>1, <2>2 DEF Present, StoreOf
<1>4. Ordered(list', Present', waiting')
  BY <1>2, <1>3, OrderDependsOnMembers
<1>5. QED
  BY <1>4, WokenIsOrderedNext

LEMMA OrderUnchanged ==
  ASSUME WokenInOrder, list' = list, waiting' = waiting, store' = store, store_of' = store_of
  PROVE  WokenInOrder'
BY DEF WokenInOrder, StoreOf

-----------------------------------------------------------------------------
(* The initial states. *)

LEMMA InitEstablishes ==
  ASSUME Init
  PROVE  FutexProofInv
<1> USE NodesAssumption, NumbersAssumption
<1>1. TypeOK
  <2>1. <<>> \in Seq(Nodes) /\ <<>> \in Seq(AsyncNodes)
    BY EmptySeq
  <2>2. 0 \in 0..MaxEvents /\ 0 \in Nat
    OBVIOUS
  <2>3. QED
    BY <2>1, <2>2 DEF Init, TypeOK
<1>2. Members(<<>>) = {} /\ Distinct(<<>>)
  BY EmptyHasNoMembers
<1>3. Distinct(list) /\ WokenInOrder
  <2>1. DOMAIN list = {}
    BY DEF Init
  <2>2. QED
    BY <1>2, <2>1 DEF Init, WokenInOrder
<1>4. ASSUME NEW n \in AsyncNodes PROVE NodeInv(n)
  <2>1. IsolateOf[n] \in Isolates
    OBVIOUS
  <2>2. ~Listed(n) /\ ~Due(n) /\ ~InHand(n)
    BY <1>2, <2>1 DEF Init, Listed, Due, InHand
  <2>3. /\ state[n] = "none" /\ timer[n] = "none" /\ promise[n] = "none"
        /\ n \notin counted /\ store_of[n] = 0 /\ store = 0
    BY DEF Init
  <2>4. QED
    BY <2>2, <2>3 DEF NodeInv
<1>5. ASSUME NEW i \in Isolates PROVE TaskInv(i) /\ WaitInv(i) /\ InterruptInv(i)
  <2>1. /\ to_resolve[i] = <<>> /\ current[i] = <<>> /\ pc[i] = "idle" /\ i \notin resolver
        /\ list = <<>> /\ waiting = {} /\ result[i] = "none" /\ flags[i] = {}
    BY DEF Init
  <2>2. TaskInv(i)
    BY <1>2, <2>1 DEF TaskInv, Ended, InTimeout
  <2>3. WaitInv(i)
    BY <1>2, <2>1 DEF WaitInv, InWait
  <2>4. InterruptInv(i)
    BY <2>1 DEF InterruptInv
  <2>5. QED
    BY <2>2, <2>3, <2>4
<1>6. QED
  BY <1>1, <1>3, <1>4, <1>5 DEF FutexProofInv

-----------------------------------------------------------------------------
(* Interrupts and the steps of a wait that leave the lists alone. *)

\* The step is about the thread of isolate i only.
OthersSame(i) ==
  \A h \in Isolates \ {i} :
    /\ pc'[h] = pc[h] /\ result'[h] = result[h]
    /\ flags'[h] = flags[h] /\ notifying'[h] = notifying[h]
    /\ h \in interrupted' <=> h \in interrupted
    /\ h \in stopped' <=> h \in stopped
    /\ h \in signaled' <=> h \in signaled

LEMMA OthersKeep ==
  ASSUME NEW i \in Isolates, OthersSame(i), NEW h \in Isolates, h # i,
         WaitInv(h), InterruptInv(h),
         h \in Members(list') <=> h \in Members(list),
         h \in waiting' <=> h \in waiting, h \in counted' <=> h \in counted
  PROVE  WaitInv(h)' /\ InterruptInv(h)'
<1>1. /\ pc'[h] = pc[h] /\ result'[h] = result[h]
      /\ flags'[h] = flags[h] /\ notifying'[h] = notifying[h]
      /\ h \in interrupted' <=> h \in interrupted
      /\ h \in stopped' <=> h \in stopped
      /\ h \in signaled' <=> h \in signaled
  BY DEF OthersSame
<1>2. QED
  BY <1>1, WaitFrame, InterruptFrame

LEMMA WaitStepKeeps ==
  ASSUME FutexProofInv, NEW i \in Isolates, OthersSame(i),
         UNCHANGED <<list, to_resolve, waiting, current, state, timer, timer_id, timeouts,
                     resolver, promise, store_of, store, no_context, counted>>,
         pc'[i] = pc[i] \/ (pc[i] \in Neutral /\ pc'[i] \in Neutral),
         TypeOK', WaitInv(i)', InterruptInv(i)'
  PROVE  FutexProofInv'
<1> USE NodesAssumption
<1>1. \A h \in Isolates : pc'[h] = pc[h] \/ (pc[h] \in Neutral /\ pc'[h] \in Neutral)
  BY DEF OthersSame
<1>2. Distinct(list)' /\ WokenInOrder'
  BY OrderUnchanged DEF FutexProofInv, Distinct
<1>3. ASSUME NEW n \in AsyncNodes PROVE NodeInv(n)'
  <2>1. NodeInv(n) /\ IsolateOf[n] \in Isolates
    BY DEF FutexProofInv
  <2>2. (Listed(n)' <=> Listed(n)) /\ (Due(n)' <=> Due(n)) /\ (InHand(n)' <=> InHand(n))
    BY DEF Listed, Due, InHand, Members
  <2>3. QED
    BY <1>1, <2>1, <2>2, NodeFrame
<1>4. ASSUME NEW h \in Isolates PROVE TaskInv(h)'
  BY <1>1, TaskFrame DEF FutexProofInv
<1>5. ASSUME NEW h \in Isolates PROVE WaitInv(h)' /\ InterruptInv(h)'
  BY OthersKeep DEF FutexProofInv
<1>6. QED
  BY <1>2, <1>3, <1>4, <1>5 DEF FutexProofInv

LEMMA EventsBound ==
  ASSUME TypeOK, Events < MaxEvents
  PROVE  requests + 1 \in 0..MaxEvents
<1> DEFINE begun == Cardinality({n \in AsyncNodes : state[n] # "none"})
<1>1. begun \in Nat
  BY NodesAssumption, FS_Subset, FS_CardinalityType
<1>2. requests \in 0..MaxEvents /\ store \in Nat /\ MaxEvents \in Nat
  BY NumbersAssumption DEF TypeOK
<1>3. begun + requests + store < MaxEvents
  BY DEF Events
<1> HIDE DEF begun
<1>4. QED
  BY <1>1, <1>2, <1>3

LEMMA RequestInterruptKeeps ==
  ASSUME FutexProofInv, NEW i \in Isolates, NEW flag \in {"terminate", "other"},
         RequestInterrupt(i, flag)
  PROVE  FutexProofInv'
<1>1. /\ UNCHANGED <<list, to_resolve, waiting, interrupted, stopped, signaled, pc, timed,
                     result, current, state, timer, timer_id, timeouts, resolver, promise,
                     store_of, store, no_context, counted>>
      /\ flags' = [flags EXCEPT ![i] = @ \cup {flag}]
      /\ notifying' = [notifying EXCEPT ![i] = @ \cup {"interrupt"}]
      /\ requests' = requests + 1 /\ Events < MaxEvents
  BY DEF RequestInterrupt, lists, sync, async, stores
<1>2. TypeOK /\ WaitInv(i) /\ InterruptInv(i)
  BY DEF FutexProofInv
<1>3. TypeOK'
  <2>1. requests' \in 0..MaxEvents
    BY <1>1, <1>2, EventsBound
  <2>2. /\ flags' \in [Isolates -> SUBSET {"terminate", "other"}]
        /\ notifying' \in [Isolates -> SUBSET {"interrupt", "stop"}]
    BY <1>1, <1>2 DEF TypeOK
  <2>3. QED
    BY <1>1, <1>2, <2>1, <2>2 DEF TypeOK
<1>4. /\ "interrupt" \in notifying'[i] /\ notifying[i] \subseteq notifying'[i]
      /\ OthersSame(i)
  BY <1>1, <1>2 DEF TypeOK, OthersSame
<1>5. WaitInv(i)'
  BY <1>1, <1>2, WaitFrame
<1>6. InterruptInv(i)'
  BY <1>1, <1>2, <1>4 DEF InterruptInv
<1>7. QED
  BY <1>1, <1>3, <1>4, <1>5, <1>6, WaitStepKeeps

LEMMA StopWaitKeeps ==
  ASSUME FutexProofInv, NEW i \in Isolates, StopWait(i)
  PROVE  FutexProofInv'
<1>1. /\ UNCHANGED <<list, to_resolve, waiting, interrupted, flags, signaled, pc, timed,
                     result, current, state, timer, timer_id, timeouts, resolver, promise,
                     store_of, store, no_context, counted>>
      /\ stopped' = stopped \cup {i}
      /\ notifying' = [notifying EXCEPT ![i] = @ \cup {"stop"}]
      /\ requests' = requests + 1 /\ Events < MaxEvents
  BY DEF StopWait, lists, sync, async, stores
<1>2. TypeOK /\ WaitInv(i) /\ InterruptInv(i)
  BY DEF FutexProofInv
<1>3. TypeOK'
  <2>1. requests' \in 0..MaxEvents
    BY <1>1, <1>2, EventsBound
  <2>2. /\ stopped' \subseteq Isolates
        /\ notifying' \in [Isolates -> SUBSET {"interrupt", "stop"}]
    BY <1>1, <1>2 DEF TypeOK
  <2>3. QED
    BY <1>1, <1>2, <2>1, <2>2 DEF TypeOK
<1>4. /\ "stop" \in notifying'[i] /\ notifying[i] \subseteq notifying'[i]
      /\ OthersSame(i)
  BY <1>1, <1>2 DEF TypeOK, OthersSame
<1>5. WaitInv(i)'
  BY <1>1, <1>2, WaitFrame
<1>6. InterruptInv(i)'
  BY <1>1, <1>2, <1>4 DEF InterruptInv
<1>7. QED
  BY <1>1, <1>3, <1>4, <1>5, <1>6, WaitStepKeeps

LEMMA NotifyWakeKeeps ==
  ASSUME FutexProofInv, NEW i \in Isolates, NEW what \in {"interrupt", "stop"},
         NotifyWake(i, what)
  PROVE  FutexProofInv'
<1>1. /\ UNCHANGED <<list, to_resolve, waiting, flags, stopped, requests, pc, timed,
                     result, current, state, timer, timer_id, timeouts, resolver, promise,
                     store_of, store, no_context, counted>>
      /\ notifying' = [notifying EXCEPT ![i] = @ \ {what}]
      /\ signaled' = IF pc[i] = "asleep" THEN signaled \cup {i} ELSE signaled
      /\ interrupted' = interrupted \cup {i}
  BY DEF NotifyWake, At, lists, sync, async, stores
<1>2. TypeOK /\ WaitInv(i) /\ InterruptInv(i)
  BY DEF FutexProofInv
<1>3. TypeOK'
  <2>1. /\ interrupted' \subseteq Isolates /\ signaled' \subseteq Isolates
        /\ notifying' \in [Isolates -> SUBSET {"interrupt", "stop"}]
    BY <1>1, <1>2 DEF TypeOK
  <2>2. QED
    BY <1>1, <1>2, <2>1 DEF TypeOK
<1>4. OthersSame(i)
  BY <1>1, <1>2 DEF TypeOK, OthersSame
<1>5. WaitInv(i)'
  BY <1>1, <1>2, WaitFrame
<1>6. InterruptInv(i)'
  BY <1>1, <1>2 DEF InterruptInv
<1>7. QED
  BY <1>1, <1>3, <1>4, <1>5, <1>6, WaitStepKeeps

LEMMA HandleInterruptsKeeps ==
  ASSUME FutexProofInv, NEW i \in Isolates, HandleInterrupts(i) \/ WaitHandlesInterrupts(i)
  PROVE  FutexProofInv'
<1>1. /\ UNCHANGED <<list, to_resolve, waiting, interrupted, notifying, stopped, signaled,
                     requests, timed, result, current, state, timer, timer_id, timeouts,
                     resolver, promise, store_of, store, no_context, counted>>
      /\ flags' = [flags EXCEPT ![i] = IF "terminate" \in @ THEN @ \ {"terminate"} ELSE {}]
      /\ \/ pc[i] = "idle" /\ pc' = pc
         \/ pc[i] = "interrupts" /\ pc' = [pc EXCEPT ![i] =
              IF "terminate" \in flags[i] THEN "terminated" ELSE "relock"]
  BY DEF HandleInterrupts, WaitHandlesInterrupts, FetchAndClear, At, GoTo,
         lists, sync, async, stores
<1>2. TypeOK /\ WaitInv(i) /\ InterruptInv(i)
  BY DEF FutexProofInv
<1>3. /\ pc' \in [Isolates -> InWait \cup {"idle", "start", "resolve", "timeout",
                                          "timeout_resolve", "deinit", "dead"}]
      /\ pc'[i] \in Neutral /\ pc[i] \in Neutral /\ pc'[i] # "asleep"
      /\ pc[i] \in InWait <=> pc'[i] \in InWait
  BY <1>1, <1>2 DEF TypeOK, InWait, Neutral
<1>4. TypeOK'
  <2>1. flags' \in [Isolates -> SUBSET {"terminate", "other"}]
    BY <1>1, <1>2 DEF TypeOK
  <2>2. QED
    BY <1>1, <1>2, <1>3, <2>1 DEF TypeOK
<1>5. OthersSame(i) /\ "terminate" \notin flags'[i]
  BY <1>1, <1>2 DEF TypeOK, OthersSame
<1>6. WaitInv(i)'
  BY <1>1, <1>2, <1>3, WaitFrame
<1>7. InterruptInv(i)'
  BY <1>3, <1>5 DEF InterruptInv
<1>8. QED
  BY <1>1, <1>3, <1>4, <1>5, <1>6, <1>7, WaitStepKeeps

-----------------------------------------------------------------------------
(* WaitSync. *)

LEMMA SyncStepKeeps ==
  ASSUME FutexProofInv, NEW i \in Isolates, OthersSame(i),
         UNCHANGED <<to_resolve, current, state, timer, timer_id, timeouts,
                     resolver, promise, store_of, store, no_context>>,
         Members(list') \ {i} = Members(list) \ {i},
         waiting' \ {i} = waiting \ {i}, counted' \ {i} = counted \ {i},
         pc[i] \in Neutral /\ pc'[i] \in Neutral,
         TypeOK', Distinct(list'), WokenInOrder', WaitInv(i)', InterruptInv(i)'
  PROVE  FutexProofInv'
<1> USE NodesAssumption
<1>1. \A h \in Isolates : pc'[h] = pc[h] \/ (pc[h] \in Neutral /\ pc'[h] \in Neutral)
  BY DEF OthersSame
<1>2. \A x : x # i => /\ x \in Members(list') <=> x \in Members(list)
                      /\ x \in waiting' <=> x \in waiting
                      /\ x \in counted' <=> x \in counted
  OBVIOUS
<1>3. ASSUME NEW n \in AsyncNodes PROVE NodeInv(n)'
  <2>1. NodeInv(n) /\ IsolateOf[n] \in Isolates /\ n # i
    BY DEF FutexProofInv
  <2>2. (Listed(n)' <=> Listed(n)) /\ (Due(n)' <=> Due(n)) /\ (InHand(n)' <=> InHand(n))
    BY <1>2, <2>1 DEF Listed, Due, InHand
  <2>3. QED
    BY <1>1, <1>2, <2>1, <2>2, NodeFrame
<1>4. ASSUME NEW h \in Isolates PROVE TaskInv(h)'
  BY <1>1, TaskFrame DEF FutexProofInv
<1>5. ASSUME NEW h \in Isolates PROVE WaitInv(h)' /\ InterruptInv(h)'
  BY <1>2, OthersKeep DEF FutexProofInv
<1>6. Distinct(list)'
  BY DEF Distinct
<1>7. QED
  BY <1>3, <1>4, <1>5, <1>6 DEF FutexProofInv

PcType ==
  InWait \cup {"idle", "start", "resolve", "timeout", "timeout_resolve", "deinit", "dead"}

LEMMA LoopTopFacts ==
  ASSUME TypeOK, NEW i \in Isolates, InterruptInv(i), LoopTop(i),
         UNCHANGED <<flags, notifying>>, pc[i] # "interrupts"
  PROVE  /\ pc' \in [Isolates -> PcType] /\ interrupted' \subseteq Isolates
         /\ pc'[i] \in {"interrupts", "relock"}
         /\ InterruptInv(i)'
         /\ \A h \in Isolates \ {i} :
              pc'[h] = pc[h] /\ (h \in interrupted' <=> h \in interrupted)
<1>1. /\ pc' = [pc EXCEPT ![i] = IF i \in interrupted THEN "interrupts" ELSE "relock"]
      /\ interrupted' = interrupted \ {i}
  BY DEF LoopTop, GoTo
<1>2. pc'[i] = IF i \in interrupted THEN "interrupts" ELSE "relock"
  BY <1>1 DEF TypeOK
<1>3. pc' \in [Isolates -> PcType] /\ interrupted' \subseteq Isolates
  BY <1>1 DEF TypeOK, PcType, InWait
<1>4. InterruptInv(i)'
  BY <1>2 DEF InterruptInv
<1>5. QED
  BY <1>1, <1>2, <1>3, <1>4 DEF TypeOK

\* The stop handle is published, or the wait is given up before it has begun.
LEMMA StartWaitKeeps ==
  ASSUME FutexProofInv, NEW i \in Isolates, StartWait(i) \/ DoNotWait(i)
  PROVE  FutexProofInv'
<1>1. /\ UNCHANGED <<list, to_resolve, waiting, interrupted, flags, notifying, requests,
                     signaled, timed, current, state, timer, timer_id, timeouts, resolver,
                     promise, store_of, store, no_context>>
      /\ stopped' = stopped \ {i}
      /\ \/ /\ pc[i] = "idle" /\ pc' = [pc EXCEPT ![i] = "start"]
            /\ counted' = counted \ {i} /\ result' = [result EXCEPT ![i] = "none"]
         \/ /\ pc[i] = "start" /\ pc' = [pc EXCEPT ![i] = "idle"]
            /\ counted' = counted /\ result' = result
  BY DEF StartWait, DoNotWait, At, GoTo, lists, sync, async, stores
<1>2. TypeOK /\ WaitInv(i) /\ InterruptInv(i) /\ Distinct(list) /\ WokenInOrder
  BY DEF FutexProofInv
<1>3. /\ pc[i] \in {"idle", "start"} /\ pc'[i] \in {"idle", "start"}
      /\ pc' \in [Isolates -> PcType]
      /\ result' \in [Isolates -> {"none", "ok", "timed-out", "exception"}]
      /\ result'[i] = "none" /\ (pc'[i] = "start" => i \notin counted')
      /\ \A h \in Isolates \ {i} : pc'[h] = pc[h] /\ result'[h] = result[h]
  BY <1>1, <1>2 DEF TypeOK, PcType, WaitInv
<1>4. TypeOK'
  <2>1. counted' \subseteq Nodes /\ stopped' \subseteq Isolates
    BY <1>1, <1>2 DEF TypeOK
  <2>2. QED
    BY <1>1, <1>2, <1>3, <2>1 DEF TypeOK, PcType
<1>5. OthersSame(i)
  BY <1>1, <1>3 DEF OthersSame
<1>6. WaitInv(i)'
  <2>1. i \notin Members(list) /\ i \notin waiting
    BY <1>2, <1>3 DEF WaitInv, InWait
  <2>2. QED
    BY <1>1, <1>3, <2>1 DEF WaitInv, InWait
<1>7. InterruptInv(i)'
  BY <1>1, <1>2, <1>3 DEF InterruptInv
<1>8. WokenInOrder'
  BY <1>1, <1>2, OrderUnchanged
<1>9. pc[i] \in Neutral /\ pc'[i] \in Neutral
  BY <1>3 DEF Neutral
<1>10. counted' \ {i} = counted \ {i}
  BY <1>1
<1>11. QED
  BY <1>1, <1>2, <1>4, <1>5, <1>6, <1>7, <1>8, <1>9, <1>10, SyncStepKeeps

LEMMA WaitSyncKeeps ==
  ASSUME FutexProofInv, NEW i \in Isolates, NEW use_timeout \in BOOLEAN,
         WaitSync(i, use_timeout)
  PROVE  FutexProofInv'
<1> USE NodesAssumption
<1>1. /\ UNCHANGED <<to_resolve, flags, notifying, stopped, requests, signaled, result,
                     current, state, timer, timer_id, timeouts, resolver, promise, store_of,
                     store, no_context, counted>>
      /\ pc[i] = "start" /\ waiting' = waiting \cup {i} /\ list' = Append(list, i)
      /\ LoopTop(i)
      /\ timed' = timed \cup {i} \/ timed' = timed \ {i}
  BY DEF WaitSync, At, requesting, async, stores
<1>2. /\ TypeOK /\ WaitInv(i) /\ InterruptInv(i) /\ i \in Nodes /\ list \in Seq(Nodes)
      /\ Distinct(list) /\ WokenInOrder
  BY DEF FutexProofInv, TypeOK, Nodes
<1>3. i \notin Members(list)
  BY <1>1, <1>2 DEF WaitInv, InWait
<1>4. /\ list' \in Seq(Nodes) /\ Distinct(list')
      /\ Members(list') = Members(list) \cup {i}
  BY <1>1, <1>2, <1>3, AppendKeepsDistinct
<1>5. /\ pc' \in [Isolates -> PcType] /\ interrupted' \subseteq Isolates
      /\ pc'[i] \in {"interrupts", "relock"}
      /\ InterruptInv(i)'
      /\ \A h \in Isolates \ {i} :
           pc'[h] = pc[h] /\ (h \in interrupted' <=> h \in interrupted)
  BY <1>1, <1>2, LoopTopFacts
<1>6. TypeOK'
  <2>1. waiting' \subseteq Nodes /\ timed' \subseteq Isolates
    BY <1>1, <1>2 DEF TypeOK
  <2>2. QED
    BY <1>1, <1>2, <1>4, <1>5, <2>1 DEF TypeOK, PcType
<1>7. OthersSame(i)
  BY <1>1, <1>2, <1>5 DEF OthersSame, TypeOK
<1>8. WokenInOrder'
  <2>1. Ordered(list, Present, waiting)
    BY <1>2, WokenIsOrdered
  <2>2. Present' = Present
    BY <1>1 DEF Present, StoreOf, Nodes
  <2>3. Ordered(list, Present, waiting')
    BY <1>1, <1>3, <2>1, OrderDependsOnMembers
  <2>4. Ordered(list', Present, waiting')
    BY <1>1, <1>2, <2>3, AppendKeepsOrder
  <2>5. QED
    BY <1>4, <2>2, <2>4, WokenIsOrderedNext
<1>9. WaitInv(i)'
  <2>1. /\ pc'[i] \in InWait /\ i \in Members(list') /\ i \in waiting' /\ i \notin counted'
        /\ result'[i] = "none"
    BY <1>1, <1>2, <1>4, <1>5 DEF TypeOK, InWait, WaitInv
  <2>2. QED
    BY <2>1, <1>5 DEF WaitInv
<1>10. pc[i] \in Neutral /\ pc'[i] \in Neutral
  BY <1>1, <1>5 DEF Neutral, InWait
<1>11. /\ Members(list') \ {i} = Members(list) \ {i}
       /\ waiting' \ {i} = waiting \ {i} /\ counted' \ {i} = counted \ {i}
  BY <1>1, <1>4
<1>12. QED
  BY <1>1, <1>4, <1>5, <1>6, <1>7, <1>8, <1>9, <1>10, <1>11, SyncStepKeeps

\* The loop is gone through once more, after an interrupt or a wakeup.
LEMMA LoopAgainKeeps ==
  ASSUME FutexProofInv, NEW i \in Isolates, pc[i] \in {"relock", "asleep"}, LoopTop(i),
         UNCHANGED <<list, to_resolve, waiting, flags, notifying, stopped, requests, timed,
                     result, current, state, timer, timer_id, timeouts, resolver, promise,
                     store_of, store, no_context, counted>>,
         signaled' \subseteq signaled, \A h \in Isolates \ {i} : h \in signaled => h \in signaled'
  PROVE  FutexProofInv'
<1>1. TypeOK /\ WaitInv(i) /\ InterruptInv(i)
  BY DEF FutexProofInv
<1>2. /\ pc' \in [Isolates -> PcType] /\ interrupted' \subseteq Isolates
      /\ pc'[i] \in {"interrupts", "relock"}
      /\ InterruptInv(i)'
      /\ \A h \in Isolates \ {i} :
           pc'[h] = pc[h] /\ (h \in interrupted' <=> h \in interrupted)
  BY <1>1, LoopTopFacts
<1>3. TypeOK'
  BY <1>1, <1>2 DEF TypeOK, PcType
<1>4. OthersSame(i)
  BY <1>2 DEF OthersSame
<1>5. pc[i] \in InWait /\ pc'[i] \in InWait /\ pc[i] \in Neutral /\ pc'[i] \in Neutral
  BY <1>2 DEF InWait, Neutral
<1>6. WaitInv(i)'
  BY <1>1, <1>5, WaitFrame
<1>7. QED
  BY <1>2, <1>3, <1>4, <1>5, <1>6, WaitStepKeeps

LEMMA ReturnKeeps ==
  ASSUME FutexProofInv, NEW i \in Isolates, pc[i] \in InWait,
         NEW value \in {"ok", "timed-out", "exception"}, Return(i, value),
         value = "timed-out" => i \in waiting,
         value = "ok" => i \in stopped \/ i \notin waiting,
         "terminate" \in flags[i] => pc[i] # "interrupts",
         UNCHANGED <<flags, notifying, stopped, requests, current, state, timer, timer_id,
                     timeouts, resolver, promise, store_of, store, no_context, counted>>
  PROVE  FutexProofInv'
<1> USE NodesAssumption
<1>1. /\ waiting' = waiting \ {i} /\ list' = Without(list, {i})
      /\ result' = [result EXCEPT ![i] = value]
      /\ pc' = [pc EXCEPT ![i] = "idle"]
      /\ timed' = timed \ {i}
      /\ UNCHANGED <<to_resolve, interrupted, signaled>>
  BY DEF Return, GoTo
<1>2. /\ TypeOK /\ WaitInv(i) /\ InterruptInv(i) /\ list \in Seq(Nodes)
      /\ Distinct(list) /\ WokenInOrder
  BY DEF FutexProofInv, TypeOK
<1>3. /\ list' \in Seq(Nodes) /\ Distinct(list')
      /\ Members(list') = Members(list) \ {i}
  BY <1>1, <1>2, WithoutProperties
<1>4. pc'[i] = "idle" /\ result'[i] = value /\ OthersSame(i)
  BY <1>1, <1>2 DEF TypeOK, OthersSame
<1>5. TypeOK'
  <2>1. /\ waiting' \subseteq Nodes /\ timed' \subseteq Isolates
        /\ pc' \in [Isolates -> PcType]
        /\ result' \in [Isolates -> {"none", "ok", "timed-out", "exception"}]
    BY <1>1, <1>2 DEF TypeOK, PcType
  <2>2. QED
    BY <1>1, <1>2, <1>3, <2>1 DEF TypeOK, PcType
<1>6. WokenInOrder'
  <2>1. list' = Only(list, Members(list) \ {i})
    BY <1>1 DEF Without
  <2>2. \A n \in Members(list') : n \in waiting' <=> n \in waiting
    BY <1>1, <1>3
  <2>3. QED
    BY <1>2, <1>3, <2>1, <2>2, OrderFrame
<1>7. WaitInv(i)'
  BY <1>1, <1>2, <1>3, <1>4 DEF WaitInv, InWait
<1>8. InterruptInv(i)'
  BY <1>1, <1>2, <1>4 DEF InterruptInv
<1>9. pc[i] \in Neutral /\ pc'[i] \in Neutral
  BY <1>4 DEF Neutral
<1>10. /\ Members(list') \ {i} = Members(list) \ {i}
       /\ waiting' \ {i} = waiting \ {i} /\ counted' \ {i} = counted \ {i}
  BY <1>1, <1>3
<1>11. QED
  BY <1>1, <1>3, <1>4, <1>5, <1>6, <1>7, <1>8, <1>9, <1>10, SyncStepKeeps

LEMMA RelockKeeps ==
  ASSUME FutexProofInv, NEW i \in Isolates, Relock(i)
  PROVE  FutexProofInv'
<1>1. /\ UNCHANGED <<flags, notifying, stopped, requests, current, state, timer, timer_id,
                     timeouts, resolver, promise, store_of, store, no_context, counted>>
      /\ pc[i] = "relock"
  BY DEF Relock, At, requesting, async, stores
<1>2. CASE i \in interrupted
  <2>1. LoopTop(i) /\ UNCHANGED <<list, to_resolve, waiting, signaled, timed, result>>
    BY <1>2 DEF Relock, lists, sync
  <2>2. QED
    BY <1>1, <2>1, LoopAgainKeeps
<1>3. CASE i \notin interrupted /\ (i \in stopped \/ i \notin waiting)
  <2>1. Return(i, "ok")
    BY <1>3 DEF Relock
  <2>2. QED
    BY <1>1, <1>3, <2>1, ReturnKeeps DEF InWait
<1>4. CASE i \notin interrupted /\ i \notin stopped /\ i \in waiting
  <2>1. (i \in timed /\ Return(i, "timed-out")) \/ Sleep(i)
    BY <1>4 DEF Relock
  <2>2. CASE Return(i, "timed-out")
    BY <1>1, <1>4, <2>2, ReturnKeeps DEF InWait
  <2>3. CASE Sleep(i)
    <3>1. /\ pc' = [pc EXCEPT ![i] = "asleep"] /\ signaled' = signaled \ {i}
          /\ UNCHANGED <<list, to_resolve, waiting, interrupted, timed, result>>
      BY <2>3 DEF Sleep, GoTo, lists, sync
    <3>2. TypeOK /\ WaitInv(i) /\ InterruptInv(i)
      BY DEF FutexProofInv
    <3>3. /\ pc' \in [Isolates -> PcType] /\ pc'[i] = "asleep" /\ OthersSame(i)
          /\ signaled' \subseteq Isolates
      BY <1>1, <3>1, <3>2 DEF TypeOK, PcType, InWait, OthersSame
    <3>4. TypeOK'
      BY <1>1, <3>1, <3>2, <3>3 DEF TypeOK, PcType
    <3>5. /\ pc[i] \in InWait /\ pc'[i] \in InWait
          /\ pc[i] \in Neutral /\ pc'[i] \in Neutral
      BY <1>1, <3>3 DEF InWait, Neutral
    <3>6. WaitInv(i)'
      BY <1>1, <3>1, <3>2, <3>5, WaitFrame
    <3>7. InterruptInv(i)'
      BY <1>1, <1>4, <3>1, <3>2, <3>3 DEF InterruptInv
    <3>8. QED
      BY <1>1, <3>1, <3>3, <3>4, <3>5, <3>6, <3>7, WaitStepKeeps
  <2>4. QED
    BY <2>1, <2>2, <2>3
<1>5. QED
  BY <1>2, <1>3, <1>4

LEMMA WakeUpKeeps ==
  ASSUME FutexProofInv, NEW i \in Isolates, WakeUp(i)
  PROVE  FutexProofInv'
<1>1. /\ UNCHANGED <<list, to_resolve, waiting, flags, notifying, stopped, requests, timed,
                     result, current, state, timer, timer_id, timeouts, resolver, promise,
                     store_of, store, no_context, counted>>
      /\ pc[i] = "asleep" /\ LoopTop(i) /\ signaled' = signaled \ {i}
  BY DEF WakeUp, At, lists, requesting, sync, async, stores
<1>2. QED
  BY <1>1, LoopAgainKeeps

LEMMA ReturnExceptionKeeps ==
  ASSUME FutexProofInv, NEW i \in Isolates, ReturnException(i)
  PROVE  FutexProofInv'
<1>1. /\ UNCHANGED <<flags, notifying, stopped, requests, current, state, timer, timer_id,
                     timeouts, resolver, promise, store_of, store, no_context, counted>>
      /\ pc[i] = "terminated" /\ Return(i, "exception")
  BY DEF ReturnException, At, requesting, async, stores
<1>2. QED
  BY <1>1, ReturnKeeps DEF InWait

-----------------------------------------------------------------------------
(* Tasks: steps of one isolate on its asynchronous nodes. *)

NodeSame(n) ==
  /\ Listed(n)' <=> Listed(n)
  /\ state'[n] = state[n] /\ timer'[n] = timer[n] /\ promise'[n] = promise[n]
  /\ store_of'[n] = store_of[n]
  /\ n \in waiting' <=> n \in waiting
  /\ n \in counted' <=> n \in counted
  /\ n \in timeouts' <=> n \in timeouts
  /\ n \in timer_id' <=> n \in timer_id
  /\ n \in no_context' <=> n \in no_context

LEMMA TaskStepKeeps ==
  ASSUME FutexProofInv, NEW i \in Isolates,
         UNCHANGED <<flags, notifying, interrupted, stopped, signaled, result, store>>,
         \A h \in Isolates \ {i} :
           /\ pc'[h] = pc[h] /\ to_resolve'[h] = to_resolve[h] /\ current'[h] = current[h]
           /\ h \in resolver' <=> h \in resolver,
         \/ pc'[i] = pc[i]
         \/ pc[i] \notin InWait /\ pc'[i] \notin InWait \cup {"start"},
         \A h \in Isolates : /\ h \in Members(list') <=> h \in Members(list)
                             /\ h \in waiting' <=> h \in waiting
                             /\ h \in counted' <=> h \in counted,
         \A n \in AsyncNodes : IsolateOf[n] # i => NodeSame(n),
         \A n \in AsyncNodes : IsolateOf[n] = i => NodeInv(n)',
         TaskInv(i)', TypeOK', Distinct(list'), WokenInOrder'
  PROVE  FutexProofInv'
<1> USE NodesAssumption
<1>1. ASSUME NEW n \in AsyncNodes PROVE NodeInv(n)'
  <2>1. CASE IsolateOf[n] = i
    BY <2>1
  <2>2. CASE IsolateOf[n] # i
    <3>1. NodeInv(n) /\ NodeSame(n) /\ IsolateOf[n] \in Isolates \ {i}
      BY <2>2 DEF FutexProofInv
    <3>2. (Due(n)' <=> Due(n)) /\ (InHand(n)' <=> InHand(n))
      BY <3>1 DEF Due, InHand
    <3>3. QED
      BY <3>1, <3>2, NodeFrame DEF NodeSame
  <2>3. QED
    BY <2>1, <2>2
<1>2. ASSUME NEW h \in Isolates PROVE TaskInv(h)'
  <2>1. CASE h = i
    BY <2>1
  <2>2. CASE h # i
    <3>1. TaskInv(h)
      BY DEF FutexProofInv
    <3>2. \A n \in AsyncOf(h) : state'[n] = state[n]
      BY <2>2 DEF AsyncOf, NodeSame
    <3>3. QED
      BY <2>2, <3>1, <3>2, TaskFrame
  <2>3. QED
    BY <2>1, <2>2
<1>3. ASSUME NEW h \in Isolates PROVE WaitInv(h)' /\ InterruptInv(h)'
  <2>1. WaitInv(h) /\ InterruptInv(h)
    BY DEF FutexProofInv
  <2>2. WaitInv(h)'
    BY <2>1, WaitFrame
  <2>3. pc'[h] = pc[h] \/ (pc[h] # "interrupts" /\ pc'[h] # "asleep")
    BY DEF InWait
  <2>4. InterruptInv(h)'
    BY <2>1, <2>3, InterruptFrame
  <2>5. QED
    BY <2>2, <2>4
<1>4. Distinct(list)'
  BY DEF Distinct
<1>5. QED
  BY <1>1, <1>2, <1>3, <1>4 DEF FutexProofInv

\* What is known of an isolate that is idle.
LEMMA IdleIsolate ==
  ASSUME FutexProofInv, NEW i \in Isolates, pc[i] = "idle"
  PROVE  /\ current[i] = <<>>
         /\ \A n \in AsyncOf(i) : ~InHand(n) /\ timer[n] # "running"
<1>1. TaskInv(i)
  BY DEF FutexProofInv
<1>2. current[i] = <<>>
  BY <1>1 DEF TaskInv
<1>3. \A n \in AsyncOf(i) : ~InHand(n)
  BY <1>2, EmptyHasNoMembers DEF AsyncOf, InHand
<1>4. \A n \in AsyncOf(i) : NodeInv(n)
  BY DEF AsyncOf, FutexProofInv
<1>5. QED
  BY <1>2, <1>3, <1>4 DEF NodeInv

LEMMA WaitAsyncKeeps ==
  ASSUME FutexProofInv, NEW n \in AsyncNodes, NEW use_timeout \in BOOLEAN,
         WaitAsync(n, use_timeout)
  PROVE  FutexProofInv'
<1> USE NodesAssumption
<1> DEFINE i == IsolateOf[n]
<1>1. i \in Isolates /\ n \notin Isolates /\ n \in Nodes
  BY DEF Nodes
<1>2. /\ UNCHANGED <<to_resolve, interrupted, flags, notifying, stopped, requests, signaled,
                     pc, timed, result, current, resolver, promise, store, no_context, counted>>
      /\ pc[i] = "idle" /\ state[n] = "none"
      /\ state' = [state EXCEPT ![n] = "live"]
      /\ waiting' = waiting \cup {n} /\ list' = Append(list, n)
      /\ store_of' = [store_of EXCEPT ![n] = store]
      /\ \/ /\ timer' = [timer EXCEPT ![n] = "posted"]
            /\ timer_id' = timer_id \cup {n} /\ timeouts' = timeouts \cup {n}
         \/ UNCHANGED <<timer, timer_id, timeouts>>
  BY DEF WaitAsync, At, requesting, sync
<1> HIDE DEF i
<1>3. /\ TypeOK /\ TaskInv(i) /\ NodeInv(n) /\ list \in Seq(Nodes)
      /\ Distinct(list) /\ WokenInOrder
  BY <1>1 DEF FutexProofInv, TypeOK
<1>4. /\ ~Listed(n) /\ ~Due(n) /\ ~InHand(n) /\ n \notin counted
      /\ timer[n] \notin {"posted", "running"} /\ promise[n] = "none"
  <2>1. ~Listed(n) /\ ~Due(n) /\ n \notin counted /\ timer[n] \notin {"posted", "running"}
        /\ promise[n] = "none"
    BY <1>2, <1>3 DEF NodeInv, Notified
  <2>2. n \in AsyncOf(i)
    BY DEF AsyncOf, i
  <2>3. QED
    BY <1>1, <1>2, <2>1, <2>2, IdleIsolate
<1>5. /\ list' \in Seq(Nodes) /\ Distinct(list')
      /\ Members(list') = Members(list) \cup {n}
  BY <1>1, <1>2, <1>3, <1>4, AppendKeepsDistinct DEF Listed
<1>6. TypeOK'
  <2>1. /\ waiting' \subseteq Nodes /\ state' \in [AsyncNodes -> {"none", "live", "deleted"}]
        /\ timer' \in [AsyncNodes -> {"none", "posted", "running", "gone"}]
        /\ timer_id' \subseteq AsyncNodes /\ timeouts' \subseteq AsyncNodes
        /\ store_of' \in [AsyncNodes -> Nat]
    BY <1>1, <1>2, <1>3 DEF TypeOK
  <2>2. QED
    BY <1>2, <1>3, <1>5, <2>1 DEF TypeOK
<1>7. WokenInOrder'
  <2>1. Ordered(list, Present, waiting)
    BY <1>3, WokenIsOrdered
  <2>2. \A x \in Members(list) : x # n
    BY <1>4 DEF Listed
  <2>3. \A x \in Members(list) : x \in Present' => x \in Present
    <3> SUFFICES ASSUME NEW x \in Members(list), x \in Present' PROVE x \in Present
      OBVIOUS
    <3>1. x # n /\ x \in Nodes /\ StoreOf(x)' = store
      BY <1>2, <2>2 DEF Present, Nodes
    <3>2. x \in AsyncNodes => store_of'[x] = store_of[x]
      BY <1>2, <1>3, <3>1 DEF TypeOK
    <3>3. QED
      BY <1>2, <3>1, <3>2 DEF Present, StoreOf
  <2>4. Ordered(list, Present', waiting')
    BY <1>2, <2>1, <2>2, <2>3, OrderDependsOnMembers
  <2>5. Ordered(list', Present', waiting')
    BY <1>1, <1>2, <1>3, <2>4, AppendKeepsOrder
  <2>6. QED
    BY <1>5, <2>5, WokenIsOrderedNext
<1>8. ASSUME NEW m \in AsyncNodes, m # n PROVE NodeSame(m)
  BY <1>2, <1>3, <1>5, <1>8 DEF NodeSame, Listed, TypeOK
<1>9. NodeInv(n)'
  <2>1. /\ Listed(n)' /\ ~Due(n)' /\ ~InHand(n)' /\ state'[n] = "live" /\ n \in waiting'
        /\ n \notin counted' /\ promise'[n] = "none" /\ store_of'[n] = store'
        /\ timer'[n] # "running" /\ store' \in Nat
        /\ timer'[n] = "posted" => n \in timer_id' /\ n \in timeouts'
    <3>1. Listed(n)' /\ ~Due(n)' /\ ~InHand(n)'
      BY <1>2, <1>4, <1>5 DEF Listed, Due, InHand
    <3>2. QED
      BY <1>2, <1>3, <1>4, <3>1 DEF TypeOK
  <2>2. QED
    BY <2>1 DEF NodeInv
<1>10. ASSUME NEW m \in AsyncNodes, IsolateOf[m] = i PROVE NodeInv(m)'
  <2>1. CASE m = n
    BY <1>9, <2>1
  <2>2. CASE m # n
    <3>1. NodeInv(m) /\ NodeSame(m)
      BY <1>8, <2>2 DEF FutexProofInv
    <3>2. (Due(m)' <=> Due(m)) /\ (InHand(m)' <=> InHand(m))
      BY <1>2 DEF Due, InHand
    <3>3. QED
      BY <1>2, <3>1, <3>2, NodeFrame DEF NodeSame
  <2>3. QED
    BY <2>1, <2>2
<1>11. TaskInv(i)'
  <2>1. ~Ended(i)
    BY <1>2 DEF Ended
  <2>2. QED
    BY <1>1, <1>2, <1>3, <2>1, TaskFrame
<1>12. \A h \in Isolates : /\ h \in Members(list') <=> h \in Members(list)
                           /\ h \in waiting' <=> h \in waiting
                           /\ h \in counted' <=> h \in counted
  BY <1>1, <1>2, <1>5
<1>13. pc[i] \notin InWait /\ pc'[i] \notin InWait \cup {"start"}
  BY <1>2 DEF InWait
<1>14. \A m \in AsyncNodes : IsolateOf[m] # i => NodeSame(m)
  BY <1>8 DEF i
<1>15. QED
  BY <1>1, <1>2, <1>5, <1>6, <1>7, <1>10, <1>11, <1>12, <1>13, <1>14, TaskStepKeeps

LEMMA ResolveAsyncWaiterPromisesKeeps ==
  ASSUME FutexProofInv, NEW i \in Isolates, ResolveAsyncWaiterPromises(i)
  PROVE  FutexProofInv'
<1> USE NodesAssumption
<1>1. /\ UNCHANGED <<list, waiting, interrupted, flags, notifying, stopped, requests, signaled,
                     timed, result, state, timer, timer_id, timeouts, promise,
                     store_of, store, no_context, counted>>
      /\ pc[i] = "idle" /\ i \in resolver
      /\ resolver' = resolver \ {i}
      /\ current' = [current EXCEPT ![i] = to_resolve[i]]
      /\ to_resolve' = [to_resolve EXCEPT ![i] = <<>>]
      /\ pc' = [pc EXCEPT ![i] = "resolve"]
  BY DEF ResolveAsyncWaiterPromises, At, GoTo, requesting, sync, stores
<1>2. TypeOK /\ TaskInv(i) /\ Distinct(list) /\ WokenInOrder
  BY DEF FutexProofInv
<1>3. /\ pc'[i] = "resolve" /\ current'[i] = to_resolve[i] /\ to_resolve'[i] = <<>>
      /\ \A h \in Isolates \ {i} :
           /\ pc'[h] = pc[h] /\ to_resolve'[h] = to_resolve[h] /\ current'[h] = current[h]
           /\ h \in resolver' <=> h \in resolver
  BY <1>1, <1>2 DEF TypeOK
<1>4. TypeOK'
  <2>1. <<>> \in Seq(AsyncNodes) /\ to_resolve[i] \in Seq(AsyncNodes)
    BY <1>2, EmptySeq DEF TypeOK
  <2>2. /\ current' \in [Isolates -> Seq(AsyncNodes)]
        /\ to_resolve' \in [Isolates -> Seq(AsyncNodes)]
        /\ pc' \in [Isolates -> PcType] /\ resolver' \subseteq Isolates
    BY <1>1, <1>2, <2>1 DEF TypeOK, PcType
  <2>3. QED
    BY <1>1, <1>2, <2>2 DEF TypeOK, PcType
<1>5. ASSUME NEW n \in AsyncNodes, IsolateOf[n] = i PROVE NodeInv(n)'
  <2>1. NodeInv(n) /\ ~InHand(n) /\ timer[n] # "running"
    BY <1>1, <1>5, IdleIsolate DEF FutexProofInv, AsyncOf
  <2>2. (InHand(n)' <=> Due(n)) /\ ~Due(n)' /\ (Listed(n)' <=> Listed(n))
    BY <1>1, <1>3, <1>5, EmptyHasNoMembers DEF InHand, Due, Listed
  <2>3. (Notified(n)' <=> Notified(n)) /\ (Abandoned(n)' <=> Abandoned(n))
    BY <1>1 DEF Notified, Abandoned
  <2>4. ~InTimeout(i)' /\ ~Ended(i)' /\ ~Ended(i)
    BY <1>1, <1>3 DEF InTimeout, Ended
  <2>5. QED
    BY <1>1, <1>3, <1>5, <2>1, <2>2, <2>3, <2>4 DEF NodeInv
<1>6. TaskInv(i)'
  <2>1. to_resolve[i] # <<>> /\ ~Ended(i)' /\ ~InTimeout(i)'
    BY <1>1, <1>2, <1>3 DEF TaskInv, Ended, InTimeout
  <2>2. AsyncOf(i)' = AsyncOf(i) /\ i \notin resolver'
    BY <1>1 DEF AsyncOf
  <2>3. QED
    BY <1>2, <1>3, <2>1, <2>2, EmptyHasNoMembers DEF TaskInv
<1>7. \A n \in AsyncNodes : NodeSame(n)
  BY <1>1 DEF NodeSame, Listed
<1>8. WokenInOrder'
  BY <1>1, <1>2, OrderUnchanged
<1>9. pc[i] \notin InWait /\ pc'[i] \notin InWait \cup {"start"}
  BY <1>1, <1>3 DEF InWait
<1>10. QED
  BY <1>1, <1>2, <1>3, <1>4, <1>5, <1>6, <1>7, <1>8, <1>9, TaskStepKeeps

LEMMA ResolveAsyncWaiterPromiseKeeps ==
  ASSUME FutexProofInv, NEW i \in Isolates, ResolveAsyncWaiterPromise(i)
  PROVE  FutexProofInv'
<1> USE NodesAssumption
<1>1. PICK n \in AsyncNodes : n = Head(current[i])
  <2>1. current[i] \in Seq(AsyncNodes) /\ current[i] # <<>>
    BY DEF FutexProofInv, TypeOK, ResolveAsyncWaiterPromise
  <2>2. QED
    BY <2>1, HeadTailProperties
<1>2. /\ UNCHANGED <<list, to_resolve, waiting, interrupted, flags, notifying, stopped,
                     requests, signaled, timed, result, timeouts, resolver,
                     store_of, store, no_context, counted>>
      /\ pc[i] = "resolve" /\ current[i] # <<>>
      /\ timer_id' = timer_id \ {n}
      /\ timer' = [m \in AsyncNodes |-> IF m \in {n} \cap timer_id /\ timer[m] = "posted"
                                        THEN "gone" ELSE timer[m]]
      /\ promise' = IF n \in no_context THEN promise
           ELSE [promise EXCEPT ![n] = IF n \in timeouts THEN "timed-out" ELSE "ok"]
      /\ state' = [state EXCEPT ![n] = "deleted"]
      /\ current' = [current EXCEPT ![i] = Tail(@)]
      /\ pc' = [pc EXCEPT ![i] = IF Len(current[i]) = 1 THEN "idle" ELSE "resolve"]
  BY <1>1 DEF ResolveAsyncWaiterPromise, CancelTimeoutTask, ResolvePromise, At, GoTo, lists,
         requesting, sync, stores
<1>3. /\ TypeOK /\ TaskInv(i) /\ Distinct(list) /\ WokenInOrder
      /\ current[i] \in Seq(AsyncNodes) /\ Distinct(current[i])
  BY DEF FutexProofInv, TypeOK, TaskInv
<1>4. /\ Tail(current[i]) \in Seq(AsyncNodes) /\ Distinct(Tail(current[i]))
      /\ n \in Members(current[i])
      /\ Members(Tail(current[i])) = Members(current[i]) \ {n}
      /\ Tail(current[i]) = <<>> <=> Len(current[i]) = 1
  BY <1>1, <1>2, <1>3, TailKeepsDistinct
<1>5. IsolateOf[n] = i /\ InHand(n)
  BY <1>3, <1>4 DEF TaskInv, AsyncOf, InHand
<1>6. /\ pc'[i] = IF Len(current[i]) = 1 THEN "idle" ELSE "resolve"
      /\ current'[i] = Tail(current[i])
      /\ \A h \in Isolates \ {i} :
           /\ pc'[h] = pc[h] /\ to_resolve'[h] = to_resolve[h] /\ current'[h] = current[h]
           /\ h \in resolver' <=> h \in resolver
      /\ state'[n] = "deleted"
      /\ \A m \in AsyncNodes \ {n} :
           /\ state'[m] = state[m] /\ timer'[m] = timer[m] /\ promise'[m] = promise[m]
           /\ m \in timer_id' <=> m \in timer_id
  BY <1>2, <1>3, <1>4 DEF TypeOK
<1>7. TypeOK'
  <2>1. /\ current' \in [Isolates -> Seq(AsyncNodes)]
        /\ pc' \in [Isolates -> PcType]
        /\ state' \in [AsyncNodes -> {"none", "live", "deleted"}]
        /\ timer_id' \subseteq AsyncNodes
    BY <1>2, <1>3, <1>4 DEF TypeOK, PcType
  <2>2. timer' \in [AsyncNodes -> {"none", "posted", "running", "gone"}]
    BY <1>2, <1>3 DEF TypeOK
  <2>3. promise' \in [AsyncNodes -> {"none", "ok", "timed-out"}]
    BY <1>2, <1>3 DEF TypeOK
  <2>4. QED
    BY <1>2, <1>3, <2>1, <2>2, <2>3 DEF TypeOK, PcType
<1>8. \A m \in AsyncNodes \ {n} : NodeSame(m)
  BY <1>2, <1>6 DEF NodeSame, Listed
<1>9. NodeInv(n)'
  <2>1. NodeInv(n) /\ Notified(n) /\ ~Listed(n) /\ ~Due(n) /\ promise[n] = "none"
    BY <1>2, <1>4, <1>5 DEF FutexProofInv, NodeInv, Notified
  <2>2. timer[n] # "running" /\ (timer[n] = "posted" => n \in timer_id)
    BY <1>2, <1>5, <2>1 DEF NodeInv, InTimeout, Ended
  <2>3. /\ timer'[n] # "posted" /\ timer'[n] # "running"
    BY <1>2, <1>4, <2>2
  <2>4. /\ promise'[n] # "timed-out" /\ n \in counted'
    BY <1>2, <1>3, <1>4, <2>1 DEF Notified, TypeOK
  <2>5. ~Listed(n)' /\ ~Due(n)' /\ ~InHand(n)'
    BY <1>2, <1>4, <1>5, <1>6, <2>1 DEF Listed, Due, InHand
  <2>6. store_of'[n] <= store'
    BY <1>2, <2>1 DEF NodeInv
  <2>7. QED
    BY <1>6, <2>3, <2>4, <2>5, <2>6 DEF NodeInv
<1>10. ASSUME NEW m \in AsyncNodes, IsolateOf[m] = i PROVE NodeInv(m)'
  <2>1. CASE m = n
    BY <1>9, <2>1
  <2>2. CASE m # n
    <3>1. NodeInv(m) /\ NodeSame(m)
      BY <1>8, <2>2 DEF FutexProofInv
    <3>2. (Due(m)' <=> Due(m)) /\ (InHand(m)' <=> InHand(m))
      BY <1>2, <1>4, <1>6, <1>10, <2>2 DEF Due, InHand
    <3>3. CASE pc'[i] = "resolve"
      BY <1>2, <1>10, <3>1, <3>2, <3>3, NodeFrame DEF NodeSame
    <3>4. CASE pc'[i] = "idle"
      <4>1. Len(current[i]) = 1
        BY <1>6, <3>4
      <4>2. ~InHand(m)
        BY <1>4, <1>10, <2>2, <4>1, EmptyHasNoMembers DEF InHand
      <4>3. (Notified(m)' <=> Notified(m)) /\ (Abandoned(m)' <=> Abandoned(m))
        BY <1>2, <3>1 DEF NodeSame, Notified, Abandoned
      <4>4. ~Ended(i) /\ ~Ended(i)'
        BY <1>2, <3>4 DEF Ended
      <4>5. QED
        BY <1>2, <1>10, <3>1, <3>2, <4>2, <4>3, <4>4 DEF NodeSame, NodeInv
    <3>5. QED
      BY <1>6, <3>3, <3>4
  <2>3. QED
    BY <2>1, <2>2
<1>11. TaskInv(i)'
  <2>1. AsyncOf(i)' = AsyncOf(i) /\ ~Ended(i) /\ ~Ended(i)' /\ ~InTimeout(i)'
    BY <1>2, <1>6 DEF AsyncOf, Ended, InTimeout
  <2>2. QED
    BY <1>2, <1>3, <1>4, <1>6, <2>1 DEF TaskInv, Distinct
<1>12. WokenInOrder'
  BY <1>2, <1>3, OrderUnchanged
<1>13. pc[i] \notin InWait /\ pc'[i] \notin InWait \cup {"start"}
  BY <1>2, <1>6 DEF InWait
<1>14. \A m \in AsyncNodes : IsolateOf[m] # i => NodeSame(m)
  BY <1>5, <1>8
<1>15. QED
  BY <1>2, <1>3, <1>6, <1>7, <1>10, <1>11, <1>12, <1>13, <1>14, TaskStepKeeps

LEMMA StartTimeoutTaskKeeps ==
  ASSUME FutexProofInv, NEW n \in AsyncNodes, StartTimeoutTask(n)
  PROVE  FutexProofInv'
<1> USE NodesAssumption
<1> DEFINE i == IsolateOf[n]
<1>1. i \in Isolates
  OBVIOUS
<1>2. /\ UNCHANGED <<list, to_resolve, waiting, interrupted, flags, notifying, stopped,
                     requests, signaled, timed, result, state, timer_id, timeouts, resolver,
                     promise, store_of, store, no_context, counted>>
      /\ pc[i] = "idle" /\ timer[n] = "posted"
      /\ timer' = [timer EXCEPT ![n] = "running"]
      /\ current' = [current EXCEPT ![i] = <<n>>]
      /\ pc' = [pc EXCEPT ![i] = "timeout"]
  BY DEF StartTimeoutTask, At, GoTo, lists, requesting, sync, stores
<1>3. \A m \in AsyncNodes : IsolateOf[m] = i => ~InHand(m) /\ timer[m] # "running"
  BY <1>1, <1>2, IdleIsolate DEF AsyncOf
<1>4. n \in AsyncNodes /\ IsolateOf[n] = i
  OBVIOUS
<1> HIDE DEF i
<1>5. TypeOK /\ TaskInv(i) /\ Distinct(list) /\ WokenInOrder
  BY <1>1 DEF FutexProofInv
<1>6. /\ pc'[i] = "timeout" /\ current'[i] = <<n>>
      /\ \A h \in Isolates \ {i} :
           /\ pc'[h] = pc[h] /\ to_resolve'[h] = to_resolve[h] /\ current'[h] = current[h]
           /\ h \in resolver' <=> h \in resolver
      /\ timer'[n] = "running" /\ \A m \in AsyncNodes \ {n} : timer'[m] = timer[m]
  BY <1>1, <1>2, <1>5 DEF TypeOK
<1>7. /\ <<n>> \in Seq(AsyncNodes) /\ Len(<<n>>) = 1 /\ <<n>> # <<>>
      /\ Members(<<n>>) = {n} /\ Distinct(<<n>>)
  BY DEF Members, Distinct
<1>8. TypeOK'
  <2>1. /\ current' \in [Isolates -> Seq(AsyncNodes)]
        /\ pc' \in [Isolates -> PcType]
        /\ timer' \in [AsyncNodes -> {"none", "posted", "running", "gone"}]
    BY <1>1, <1>2, <1>5, <1>7 DEF TypeOK, PcType
  <2>2. QED
    BY <1>2, <1>5, <2>1 DEF TypeOK, PcType
<1>9. \A m \in AsyncNodes \ {n} : NodeSame(m)
  BY <1>2, <1>6 DEF NodeSame, Listed
<1>10. ASSUME NEW m \in AsyncNodes, IsolateOf[m] = i PROVE NodeInv(m)'
  <2>1. NodeInv(m) /\ ~InHand(m)
    BY <1>3, <1>10 DEF FutexProofInv
  <2>2. (Due(m)' <=> Due(m)) /\ (InHand(m)' <=> m = n) /\ (Listed(m)' <=> Listed(m))
    BY <1>2, <1>6, <1>7, <1>10 DEF Due, InHand, Listed
  <2>3. (Notified(m)' <=> Notified(m)) /\ (Abandoned(m)' <=> Abandoned(m))
    BY <1>2 DEF Notified, Abandoned
  <2>4. ~Ended(i) /\ ~Ended(i)' /\ InTimeout(i)'
    BY <1>2, <1>6 DEF Ended, InTimeout
  <2>5. CASE m = n
    <3>1. state[n] = "live" /\ (Listed(n) \/ Due(n))
      BY <1>2, <1>10, <2>1, <2>4, <2>5 DEF NodeInv
    <3>2. QED
      BY <1>2, <1>6, <1>10, <2>1, <2>2, <2>3, <2>4, <2>5, <3>1 DEF NodeInv
  <2>6. CASE m # n
    <3>1. timer'[m] = timer[m] /\ timer[m] # "running"
      BY <1>3, <1>6, <1>10, <2>6
    <3>2. QED
      BY <1>2, <1>10, <2>1, <2>2, <2>3, <2>4, <2>6, <3>1 DEF NodeInv
  <2>7. QED
    BY <2>5, <2>6
<1>11. TaskInv(i)'
  <2>1. AsyncOf(i)' = AsyncOf(i) /\ ~Ended(i) /\ ~Ended(i)' /\ n \in AsyncOf(i)
    BY <1>2, <1>4, <1>6 DEF AsyncOf, Ended
  <2>2. /\ Members(current[i])' = {n} /\ Distinct(current[i])' /\ current'[i] # <<>>
        /\ Len(current'[i]) = 1
    BY <1>6, <1>7
  <2>3. /\ Members(to_resolve[i])' = Members(to_resolve[i])
        /\ Distinct(to_resolve[i])' <=> Distinct(to_resolve[i])
    BY <1>2
  <2>4. QED
    BY <1>2, <1>5, <1>6, <2>1, <2>2, <2>3 DEF TaskInv
<1>12. WokenInOrder'
  BY <1>2, <1>5, OrderUnchanged
<1>13. pc[i] \notin InWait /\ pc'[i] \notin InWait \cup {"start"}
  BY <1>2, <1>6 DEF InWait
<1>14. \A m \in AsyncNodes : IsolateOf[m] # i => NodeSame(m)
  BY <1>4, <1>9
<1>15. QED
  BY <1>1, <1>2, <1>5, <1>6, <1>8, <1>10, <1>11, <1>12, <1>13, <1>14, TaskStepKeeps

\* The node that the timeout task of isolate i works on.
LEMMA TimeoutNode ==
  ASSUME FutexProofInv, NEW i \in Isolates, InTimeout(i)
  PROVE  /\ current[i][1] \in AsyncNodes /\ IsolateOf[current[i][1]] = i
         /\ InHand(current[i][1]) /\ timer[current[i][1]] = "running"
         /\ \A m \in AsyncNodes : IsolateOf[m] = i /\ m # current[i][1] =>
              ~InHand(m) /\ timer[m] # "running"
<1> DEFINE n == current[i][1]
<1>1. TaskInv(i) /\ current[i] \in Seq(AsyncNodes)
  BY DEF FutexProofInv, TypeOK
<1>2. Len(current[i]) = 1 /\ DOMAIN current[i] = 1..Len(current[i])
  BY <1>1, LenProperties DEF TaskInv
<1>3. DOMAIN current[i] = {1}
  BY <1>2
<1>4. Members(current[i]) = {n}
  BY <1>3 DEF Members
<1>5. n \in AsyncNodes /\ IsolateOf[n] = i
  BY <1>1, <1>4 DEF TaskInv, AsyncOf
<1>6. InHand(n) /\ \A m \in AsyncNodes : IsolateOf[m] = i /\ m # n => ~InHand(m)
  BY <1>4, <1>5 DEF InHand
<1> HIDE DEF n
<1>7. timer[n] = "running"
  BY <1>5, <1>6 DEF FutexProofInv, NodeInv
<1>8. \A m \in AsyncNodes : IsolateOf[m] = i /\ m # n => timer[m] # "running"
  BY <1>6 DEF FutexProofInv, NodeInv
<1>9. QED
  BY <1>5, <1>6, <1>7, <1>8 DEF n

LEMMA HandleAsyncWaiterTimeoutKeeps ==
  ASSUME FutexProofInv, NEW i \in Isolates, HandleAsyncWaiterTimeout(i)
  PROVE  FutexProofInv'
<1> USE NodesAssumption
<1>1. pc[i] = "timeout" /\ InTimeout(i)
  BY DEF HandleAsyncWaiterTimeout, At, InTimeout
<1>2. PICK n \in AsyncNodes :
        /\ n = current[i][1] /\ IsolateOf[n] = i /\ InHand(n) /\ timer[n] = "running"
        /\ \A m \in AsyncNodes : IsolateOf[m] = i /\ m # n => ~InHand(m) /\ timer[m] # "running"
  BY <1>1, TimeoutNode
<1>3. /\ UNCHANGED <<to_resolve, waiting, interrupted, flags, notifying, stopped,
                     requests, signaled, timed, result, state, timeouts, resolver, promise,
                     store_of, store, no_context, counted>>
      /\ timer_id' = timer_id \ {n}
      /\ \/ /\ state[n] = "live" => n \in waiting
            /\ list' = Without(list, {n})
            /\ pc' = [pc EXCEPT ![i] = "timeout_resolve"]
            /\ UNCHANGED <<current, timer>>
         \/ /\ state[n] = "live" => n \notin waiting
            /\ current' = [current EXCEPT ![i] = <<>>]
            /\ timer' = [timer EXCEPT ![n] = "gone"]
            /\ pc' = [pc EXCEPT ![i] = "idle"]
            /\ UNCHANGED list
  <2>1. PICK waiting_ \in IF state[n] = "live" THEN {n \in waiting} ELSE BOOLEAN :
          IF waiting_
          THEN /\ list' = Without(list, {n})
               /\ pc' = [pc EXCEPT ![i] = "timeout_resolve"]
               /\ UNCHANGED <<current, timer>>
          ELSE /\ current' = [current EXCEPT ![i] = <<>>]
               /\ timer' = [timer EXCEPT ![n] = "gone"]
               /\ pc' = [pc EXCEPT ![i] = "idle"]
               /\ UNCHANGED list
    BY <1>2, Zenon DEF HandleAsyncWaiterTimeout, GoTo
  <2>2. /\ UNCHANGED <<to_resolve, waiting, interrupted, flags, notifying, stopped,
                       requests, signaled, timed, result, state, timeouts, resolver, promise,
                       store_of, store, no_context, counted>>
        /\ timer_id' = timer_id \ {n}
    BY <1>2 DEF HandleAsyncWaiterTimeout, requesting, sync, stores
  <2>3. state[n] = "live" => (waiting_ <=> n \in waiting)
    BY <2>1
  <2>4. CASE waiting_
    BY <2>1, <2>2, <2>3, <2>4
  <2>5. CASE ~waiting_
    BY <2>1, <2>2, <2>3, <2>5
  <2>6. QED
    BY <2>4, <2>5
<1>4. /\ TypeOK /\ TaskInv(i) /\ Distinct(list) /\ WokenInOrder /\ NodeInv(n)
      /\ list \in Seq(Nodes)
  BY DEF FutexProofInv, TypeOK
<1>5. Listed(n) \/ Due(n) \/ Abandoned(n)
  BY <1>1, <1>2, <1>4 DEF NodeInv
<1>6. /\ list' \in Seq(Nodes) /\ Distinct(list') /\ Members(list') \subseteq Members(list)
      /\ \A x \in Members(list) : x # n => x \in Members(list')
      /\ list' = list \/ list' = Only(list, Members(list) \ {n})
  <2>1. CASE list' = list
    BY <1>4, <2>1
  <2>2. CASE list' = Without(list, {n})
    BY <1>4, <2>2, WithoutProperties DEF Without
  <2>3. QED
    BY <1>3, <2>1, <2>2
<1>7. /\ \A h \in Isolates \ {i} :
           /\ pc'[h] = pc[h] /\ to_resolve'[h] = to_resolve[h] /\ current'[h] = current[h]
           /\ h \in resolver' <=> h \in resolver
      /\ \A m \in AsyncNodes \ {n} :
           timer'[m] = timer[m] /\ (m \in timer_id' <=> m \in timer_id)
      /\ pc'[i] \in {"timeout_resolve", "idle"}
      /\ pc' \in [Isolates -> PcType]
      /\ current' \in [Isolates -> Seq(AsyncNodes)]
      /\ timer' \in [AsyncNodes -> {"none", "posted", "running", "gone"}]
  <2>1. <<>> \in Seq(AsyncNodes)
    BY EmptySeq
  <2>2. CASE pc' = [pc EXCEPT ![i] = "timeout_resolve"] /\ UNCHANGED <<current, timer>>
    BY <1>3, <1>4, <2>2 DEF TypeOK, PcType
  <2>3. CASE /\ current' = [current EXCEPT ![i] = <<>>]
             /\ timer' = [timer EXCEPT ![n] = "gone"]
             /\ pc' = [pc EXCEPT ![i] = "idle"]
    BY <1>3, <1>4, <2>1, <2>3 DEF TypeOK, PcType
  <2>4. QED
    BY <1>3, <2>2, <2>3
<1>8. TypeOK'
  <2>1. timer_id' \subseteq AsyncNodes
    BY <1>3, <1>4 DEF TypeOK
  <2>2. QED
    BY <1>3, <1>4, <1>6, <1>7, <2>1 DEF TypeOK, PcType
<1>9. \A m \in AsyncNodes \ {n} : NodeSame(m)
  <2>1. \A m \in AsyncNodes \ {n} : Listed(m)' <=> Listed(m)
    BY <1>6 DEF Listed
  <2>2. QED
    BY <1>3, <1>7, <2>1 DEF NodeSame
<1>10. WokenInOrder'
  BY <1>3, <1>4, <1>6, OrderFrame
<1>11. NodeInv(n)'
  <2>1. Due(n)' <=> Due(n)
    BY <1>3 DEF Due
  <2>2. (Notified(n)' <=> Notified(n)) /\ (Abandoned(n)' <=> Abandoned(n))
    BY <1>3 DEF Notified, Abandoned
  <2>3. ~Ended(i) /\ ~Ended(i)'
    BY <1>1, <1>7 DEF Ended
  <2>4. CASE /\ state[n] = "live" => n \in waiting
             /\ list' = Without(list, {n})
             /\ pc' = [pc EXCEPT ![i] = "timeout_resolve"]
             /\ UNCHANGED <<current, timer>>
    <3>1. ~Listed(n)' /\ InHand(n)' /\ pc'[i] = "timeout_resolve" /\ InTimeout(i)'
      BY <1>2, <1>4, <2>4, WithoutProperties DEF Listed, InHand, TypeOK, InTimeout
    <3>2. CASE Listed(n)
      <4>1. /\ state[n] = "live" /\ n \in waiting /\ n \in timeouts /\ n \notin counted
            /\ ~Due(n)
        BY <1>2, <1>4, <3>2 DEF NodeInv
      <4>2. QED
        BY <1>2, <1>3, <1>4, <2>1, <2>2, <2>3, <2>4, <3>1, <4>1 DEF NodeInv
    <3>3. CASE ~Listed(n)
      <4>1. ~Due(n)
        BY <1>4, <2>4 DEF NodeInv, Notified
      <4>2. Abandoned(n) /\ state[n] = "deleted"
        BY <1>5, <3>3, <4>1 DEF Abandoned
      <4>3. QED
        BY <1>2, <1>3, <1>4, <2>1, <2>2, <2>3, <2>4, <3>1, <4>1, <4>2 DEF NodeInv
    <3>4. QED
      BY <3>2, <3>3
  <2>5. CASE /\ state[n] = "live" => n \notin waiting
             /\ current' = [current EXCEPT ![i] = <<>>]
             /\ timer' = [timer EXCEPT ![n] = "gone"]
             /\ pc' = [pc EXCEPT ![i] = "idle"]
             /\ UNCHANGED list
    <3>1. current'[i] = <<>> /\ pc'[i] = "idle" /\ timer'[n] = "gone"
      BY <1>4, <2>5 DEF TypeOK
    <3>2. ~InHand(n)' /\ ~InTimeout(i)'
      BY <1>2, <3>1, EmptyHasNoMembers DEF InHand, InTimeout
    <3>3. Listed(n)' <=> Listed(n)
      BY <2>5 DEF Listed
    <3>4. ~Listed(n)
      BY <1>4, <2>5 DEF NodeInv
    <3>5. state[n] = "live" => Due(n)
      BY <1>5, <3>4 DEF Abandoned
    <3>6. QED
      BY <1>2, <1>3, <1>4, <2>1, <2>2, <2>3, <3>1, <3>2, <3>3, <3>4, <3>5 DEF NodeInv
  <2>6. QED
    BY <1>3, <2>4, <2>5
<1>12. ASSUME NEW m \in AsyncNodes, IsolateOf[m] = i PROVE NodeInv(m)'
  <2>1. CASE m = n
    BY <1>11, <2>1
  <2>2. CASE m # n
    <3>1. NodeInv(m) /\ NodeSame(m) /\ ~InHand(m) /\ timer[m] # "running"
      BY <1>2, <1>9, <1>12, <2>2 DEF FutexProofInv
    <3>2. (Due(m)' <=> Due(m)) /\ ~InHand(m)'
      <4>1. current'[i] = current[i] \/ current'[i] = <<>>
        BY <1>3, <1>4 DEF TypeOK
      <4>2. QED
        BY <1>3, <1>12, <3>1, <4>1, EmptyHasNoMembers DEF Due, InHand
    <3>3. (Notified(m)' <=> Notified(m)) /\ (Abandoned(m)' <=> Abandoned(m))
      BY <1>3, <3>1 DEF NodeSame, Notified, Abandoned
    <3>4. ~Ended(i) /\ ~Ended(i)'
      BY <1>1, <1>7 DEF Ended
    <3>5. QED
      BY <1>3, <1>12, <3>1, <3>2, <3>3, <3>4 DEF NodeSame, NodeInv
  <2>3. QED
    BY <2>1, <2>2
<1>13. TaskInv(i)'
  <2>1. AsyncOf(i)' = AsyncOf(i) /\ ~Ended(i) /\ ~Ended(i)'
    BY <1>1, <1>7 DEF AsyncOf, Ended
  <2>2. /\ Members(to_resolve[i])' = Members(to_resolve[i])
        /\ Distinct(to_resolve[i])' <=> Distinct(to_resolve[i])
    BY <1>3
  <2>3. CASE current' = current /\ pc' = [pc EXCEPT ![i] = "timeout_resolve"]
    <3>1. pc'[i] = "timeout_resolve" /\ current'[i] = current[i]
      BY <1>4, <2>3 DEF TypeOK
    <3>2. QED
      BY <1>1, <1>3, <1>4, <2>1, <2>2, <3>1 DEF TaskInv, InTimeout
  <2>4. CASE current' = [current EXCEPT ![i] = <<>>] /\ pc' = [pc EXCEPT ![i] = "idle"]
    <3>1. pc'[i] = "idle" /\ current'[i] = <<>> /\ ~InTimeout(i)'
      BY <1>4, <2>4 DEF TypeOK, InTimeout
    <3>2. QED
      BY <1>3, <1>4, <2>1, <2>2, <3>1, EmptyHasNoMembers DEF TaskInv
  <2>5. QED
    BY <1>3, <2>3, <2>4
<1>14. \A h \in Isolates : /\ h \in Members(list') <=> h \in Members(list)
                           /\ h \in waiting' <=> h \in waiting
                           /\ h \in counted' <=> h \in counted
  BY <1>2, <1>3, <1>6
<1>15. pc[i] \notin InWait /\ pc'[i] \notin InWait \cup {"start"}
  BY <1>1, <1>7 DEF InWait
<1>16. \A m \in AsyncNodes : IsolateOf[m] # i => NodeSame(m)
  BY <1>2, <1>9
<1>17. QED
  BY <1>3, <1>6, <1>7, <1>8, <1>10, <1>12, <1>13, <1>14, <1>15, <1>16, TaskStepKeeps

LEMMA ResolveTimedOutKeeps ==
  ASSUME FutexProofInv, NEW i \in Isolates, ResolveTimedOut(i)
  PROVE  FutexProofInv'
<1> USE NodesAssumption
<1>1. pc[i] = "timeout_resolve" /\ InTimeout(i)
  BY DEF ResolveTimedOut, At, InTimeout
<1>2. PICK n \in AsyncNodes :
        /\ n = current[i][1] /\ IsolateOf[n] = i /\ InHand(n) /\ timer[n] = "running"
        /\ \A m \in AsyncNodes : IsolateOf[m] = i /\ m # n => ~InHand(m) /\ timer[m] # "running"
  BY <1>1, TimeoutNode
<1>3. /\ UNCHANGED <<list, to_resolve, interrupted, flags, notifying, stopped,
                     requests, signaled, timed, result, timer_id, timeouts, resolver,
                     store_of, store, no_context, counted>>
      /\ promise' = IF n \in no_context THEN promise
           ELSE [promise EXCEPT ![n] = IF n \in timeouts THEN "timed-out" ELSE "ok"]
      /\ state' = [state EXCEPT ![n] = "deleted"]
      /\ waiting' = waiting \ {n}
      /\ timer' = [timer EXCEPT ![n] = "gone"]
      /\ current' = [current EXCEPT ![i] = <<>>]
      /\ pc' = [pc EXCEPT ![i] = "idle"]
  BY <1>2 DEF ResolveTimedOut, ResolvePromise, GoTo, requesting, sync, stores
<1>4. /\ TypeOK /\ TaskInv(i) /\ Distinct(list) /\ WokenInOrder /\ NodeInv(n)
      /\ list \in Seq(Nodes)
  BY DEF FutexProofInv, TypeOK
<1>5. /\ ~Listed(n) /\ ~Due(n)
      /\ \/ state[n] = "live" /\ n \in timeouts /\ n \notin counted
         \/ Abandoned(n)
  BY <1>1, <1>2, <1>4 DEF NodeInv
<1>6. /\ pc'[i] = "idle" /\ current'[i] = <<>> /\ state'[n] = "deleted" /\ timer'[n] = "gone"
      /\ \A h \in Isolates \ {i} :
           /\ pc'[h] = pc[h] /\ to_resolve'[h] = to_resolve[h] /\ current'[h] = current[h]
           /\ h \in resolver' <=> h \in resolver
      /\ \A m \in AsyncNodes \ {n} :
           /\ state'[m] = state[m] /\ timer'[m] = timer[m] /\ promise'[m] = promise[m]
           /\ m \in waiting' <=> m \in waiting
  BY <1>3, <1>4 DEF TypeOK
<1>7. TypeOK'
  <2>1. <<>> \in Seq(AsyncNodes)
    BY EmptySeq
  <2>2. /\ current' \in [Isolates -> Seq(AsyncNodes)]
        /\ pc' \in [Isolates -> PcType]
        /\ state' \in [AsyncNodes -> {"none", "live", "deleted"}]
        /\ timer' \in [AsyncNodes -> {"none", "posted", "running", "gone"}]
        /\ waiting' \subseteq Nodes
    BY <1>3, <1>4, <2>1 DEF TypeOK, PcType
  <2>3. promise' \in [AsyncNodes -> {"none", "ok", "timed-out"}]
    BY <1>3, <1>4 DEF TypeOK
  <2>4. QED
    BY <1>3, <1>4, <2>2, <2>3 DEF TypeOK, PcType
<1>8. \A m \in AsyncNodes \ {n} : NodeSame(m)
  BY <1>3, <1>6 DEF NodeSame, Listed
<1>9. NodeInv(n)'
  <2>1. ~Listed(n)' /\ ~Due(n)' /\ ~InHand(n)'
    BY <1>2, <1>3, <1>5, <1>6, EmptyHasNoMembers DEF Listed, Due, InHand
  <2>2. /\ promise'[n] = "timed-out" => n \notin counted
        /\ promise'[n] = "ok" => n \in counted
    <3>1. CASE n \in no_context
      BY <1>3, <1>4, <3>1 DEF NodeInv
    <3>2. CASE n \notin no_context
      <4>1. n \in timeouts /\ n \notin counted
        BY <1>5, <3>2 DEF Abandoned
      <4>2. promise'[n] = "timed-out"
        BY <1>3, <1>4, <3>2, <4>1 DEF TypeOK
      <4>3. QED
        BY <4>1, <4>2
    <3>3. QED
      BY <3>1, <3>2
  <2>3. store_of'[n] <= store'
    BY <1>3, <1>4 DEF NodeInv
  <2>4. QED
    BY <1>3, <1>6, <2>1, <2>2, <2>3 DEF NodeInv
<1>10. ASSUME NEW m \in AsyncNodes, IsolateOf[m] = i PROVE NodeInv(m)'
  <2>1. CASE m = n
    BY <1>9, <2>1
  <2>2. CASE m # n
    <3>1. NodeInv(m) /\ NodeSame(m) /\ ~InHand(m) /\ timer[m] # "running"
      BY <1>2, <1>8, <1>10, <2>2 DEF FutexProofInv
    <3>2. (Due(m)' <=> Due(m)) /\ ~InHand(m)'
      BY <1>3, <1>6, <1>10, EmptyHasNoMembers DEF Due, InHand
    <3>3. (Notified(m)' <=> Notified(m)) /\ (Abandoned(m)' <=> Abandoned(m))
      BY <1>3, <3>1 DEF NodeSame, Notified, Abandoned
    <3>4. ~Ended(i) /\ ~Ended(i)'
      BY <1>1, <1>6 DEF Ended
    <3>5. QED
      BY <1>3, <1>10, <3>1, <3>2, <3>3, <3>4 DEF NodeSame, NodeInv
  <2>3. QED
    BY <2>1, <2>2
<1>11. TaskInv(i)'
  <2>1. AsyncOf(i)' = AsyncOf(i) /\ ~Ended(i) /\ ~Ended(i)' /\ ~InTimeout(i)'
    BY <1>1, <1>6 DEF AsyncOf, Ended, InTimeout
  <2>2. QED
    BY <1>3, <1>4, <1>6, <2>1, EmptyHasNoMembers DEF TaskInv
<1>12. WokenInOrder'
  <2>1. \A x \in Members(list') : x \in waiting' <=> x \in waiting
    BY <1>3, <1>5 DEF Listed
  <2>2. QED
    BY <1>3, <1>4, <2>1, OrderFrame
<1>13. \A h \in Isolates : /\ h \in Members(list') <=> h \in Members(list)
                           /\ h \in waiting' <=> h \in waiting
                           /\ h \in counted' <=> h \in counted
  BY <1>2, <1>3
<1>14. pc[i] \notin InWait /\ pc'[i] \notin InWait \cup {"start"}
  BY <1>1, <1>6 DEF InWait
<1>15. \A m \in AsyncNodes : IsolateOf[m] # i => NodeSame(m)
  BY <1>2, <1>8
<1>16. QED
  BY <1>3, <1>4, <1>6, <1>7, <1>10, <1>11, <1>12, <1>13, <1>14, <1>15, TaskStepKeeps

-----------------------------------------------------------------------------
(* The environment, and the end of an isolate. *)

LEMMA CollectContextKeeps ==
  ASSUME FutexProofInv, NEW n \in AsyncNodes, CollectContext(n)
  PROVE  FutexProofInv'
<1> USE NodesAssumption
<1> DEFINE i == IsolateOf[n]
<1>1. i \in Isolates
  OBVIOUS
<1>2. /\ UNCHANGED <<list, to_resolve, waiting, interrupted, flags, notifying, stopped,
                     requests, signaled, pc, timed, result, current, state, timer, timer_id,
                     timeouts, resolver, promise, store_of, store, counted>>
      /\ no_context' = no_context \cup {n} /\ state[n] = "live"
  BY DEF CollectContext, lists, requesting, sync, async
<1>3. /\ TypeOK /\ TaskInv(i) /\ Distinct(list) /\ WokenInOrder
  BY <1>1 DEF FutexProofInv
<1>4. TypeOK'
  BY <1>2, <1>3 DEF TypeOK
<1>5. ASSUME NEW m \in AsyncNodes PROVE NodeInv(m)'
  <2>1. NodeInv(m)
    BY DEF FutexProofInv
  <2>2. (Due(m)' <=> Due(m)) /\ (InHand(m)' <=> InHand(m)) /\ (Listed(m)' <=> Listed(m))
    BY <1>2 DEF Due, InHand, Listed
  <2>3. (Notified(m)' <=> Notified(m)) /\ (Abandoned(m) => Abandoned(m)')
    BY <1>2 DEF Notified, Abandoned
  <2>4. /\ InTimeout(IsolateOf[m])' <=> InTimeout(IsolateOf[m])
        /\ Ended(IsolateOf[m])' <=> Ended(IsolateOf[m])
    BY <1>2 DEF InTimeout, Ended
  <2>5. QED
    BY <1>2, <2>1, <2>2, <2>3, <2>4 DEF NodeInv
<1>6. TaskInv(i)'
  BY <1>1, <1>2, <1>3, TaskFrame
<1>7. \A m \in AsyncNodes : IsolateOf[m] # i => NodeSame(m)
  BY <1>2 DEF NodeSame, Listed
<1>8. WokenInOrder'
  BY <1>2, <1>3, OrderUnchanged
<1> HIDE DEF i
<1>9. QED
  BY <1>1, <1>2, <1>3, <1>4, <1>5, <1>6, <1>7, <1>8, TaskStepKeeps

LEMMA ReplaceBackingStoreKeeps ==
  ASSUME FutexProofInv, ReplaceBackingStore
  PROVE  FutexProofInv'
<1> USE NodesAssumption
<1>1. /\ UNCHANGED <<list, to_resolve, waiting, interrupted, flags, notifying, stopped,
                     requests, signaled, pc, timed, result, current, state, timer, timer_id,
                     timeouts, resolver, promise, store_of, no_context, counted>>
      /\ \A i \in Isolates : i \notin Members(list)
      /\ store' = store + 1
  BY DEF FutexProofInv, WaitInv, ReplaceBackingStore, lists, requesting, sync, async
<1>2. TypeOK /\ Distinct(list) /\ list \in Seq(Nodes) /\ WokenInOrder
  BY DEF FutexProofInv, TypeOK
<1>3. TypeOK'
  <2>1. store' \in Nat
    BY <1>1, <1>2 DEF TypeOK
  <2>2. QED
    BY <1>1, <1>2, <2>1 DEF TypeOK
<1>4. \A n \in AsyncNodes : store_of[n] <= store /\ store_of[n] # store' /\ store_of[n] <= store'
  <2> SUFFICES ASSUME NEW n \in AsyncNodes
               PROVE  store_of[n] <= store /\ store_of[n] # store' /\ store_of[n] <= store'
    OBVIOUS
  <2>1. store_of[n] <= store /\ store_of[n] \in Nat /\ store \in Nat
    BY <1>2 DEF FutexProofInv, NodeInv, TypeOK
  <2>2. QED
    BY <1>1, <2>1
<1>5. ASSUME NEW m \in AsyncNodes PROVE NodeInv(m)'
  <2>1. NodeInv(m)
    BY DEF FutexProofInv
  <2>2. (Due(m)' <=> Due(m)) /\ (InHand(m)' <=> InHand(m)) /\ (Listed(m)' <=> Listed(m))
    BY <1>1 DEF Due, InHand, Listed
  <2>3. (Notified(m)' <=> Notified(m)) /\ (Abandoned(m) => Abandoned(m)')
    BY <1>1, <1>4 DEF Notified, Abandoned
  <2>4. /\ InTimeout(IsolateOf[m])' <=> InTimeout(IsolateOf[m])
        /\ Ended(IsolateOf[m])' <=> Ended(IsolateOf[m])
    BY <1>1 DEF InTimeout, Ended
  <2>5. store_of'[m] <= store'
    BY <1>1, <1>4
  <2>6. QED
    BY <1>1, <2>1, <2>2, <2>3, <2>4, <2>5 DEF NodeInv
<1>6. ASSUME NEW i \in Isolates PROVE TaskInv(i)' /\ WaitInv(i)' /\ InterruptInv(i)'
  <2>1. TaskInv(i) /\ WaitInv(i) /\ InterruptInv(i)
    BY DEF FutexProofInv
  <2>2. QED
    BY <1>1, <2>1, TaskFrame, WaitFrame, InterruptFrame
<1>7. WokenInOrder'
  <2>1. \A x \in Members(list) : x \notin Present'
    <3> SUFFICES ASSUME NEW x \in Members(list), x \in Present' PROVE FALSE
      OBVIOUS
    <3>1. x \in Nodes /\ StoreOf(x)' = store'
      BY DEF Present, Nodes
    <3>2. x \in AsyncNodes
      BY <1>1, <3>1 DEF Nodes
    <3>3. QED
      BY <1>1, <1>4, <3>1, <3>2 DEF StoreOf
  <2>2. Ordered(list, Present, waiting)
    BY <1>2, WokenIsOrdered
  <2>3. Ordered(list, Present', waiting)
    BY <2>1, <2>2, OrderDependsOnMembers
  <2>4. QED
    BY <1>1, <1>2, <2>3, WokenIsOrderedNext
<1>8. Distinct(list)'
  BY <1>1, <1>2
<1>9. QED
  BY <1>3, <1>5, <1>6, <1>7, <1>8 DEF FutexProofInv

LEMMA IsolateDeinitKeeps ==
  ASSUME FutexProofInv, NEW i \in Isolates, IsolateDeinit(i)
  PROVE  FutexProofInv'
<1> USE NodesAssumption
<1>1. PICK nodes : nodes = AsyncOf(i) \cap (Members(list) \cup Members(to_resolve[i]))
  OBVIOUS
<1>2. /\ UNCHANGED <<interrupted, flags, notifying, stopped, requests, signaled, timed,
                     result, current, timer, timeouts, resolver, promise,
                     store_of, store, no_context, counted>>
      /\ pc[i] = "idle"
      /\ list' = Without(list, nodes)
      /\ to_resolve' = [to_resolve EXCEPT ![i] = <<>>]
      /\ waiting' = waiting \ nodes /\ timer_id' = timer_id \ nodes
      /\ state' = [n \in AsyncNodes |-> IF n \in nodes THEN "deleted" ELSE state[n]]
      /\ pc' = [pc EXCEPT ![i] = "deinit"]
  BY <1>1 DEF IsolateDeinit, At, GoTo, requesting, sync, stores
<1>3. /\ TypeOK /\ TaskInv(i) /\ Distinct(list) /\ WokenInOrder /\ list \in Seq(Nodes)
  BY DEF FutexProofInv, TypeOK
<1>4. /\ list' \in Seq(Nodes) /\ Distinct(list') /\ Members(list') = Members(list) \ nodes
      /\ list' = Only(list, Members(list) \ nodes)
  BY <1>2, <1>3, WithoutProperties DEF Without
<1>5. /\ \A n \in AsyncNodes : IsolateOf[n] # i => n \notin nodes
      /\ \A h \in Isolates : h \notin nodes
      /\ \A n \in AsyncNodes : IsolateOf[n] = i /\ (Listed(n) \/ Due(n)) => n \in nodes
  BY <1>1 DEF AsyncOf, Listed, Due
<1>6. /\ pc'[i] = "deinit" /\ to_resolve'[i] = <<>>
      /\ \A h \in Isolates \ {i} :
           /\ pc'[h] = pc[h] /\ to_resolve'[h] = to_resolve[h] /\ current'[h] = current[h]
           /\ h \in resolver' <=> h \in resolver
      /\ \A n \in AsyncNodes : state'[n] = IF n \in nodes THEN "deleted" ELSE state[n]
  BY <1>2, <1>3 DEF TypeOK
<1>7. TypeOK'
  <2>1. <<>> \in Seq(AsyncNodes)
    BY EmptySeq
  <2>2. /\ to_resolve' \in [Isolates -> Seq(AsyncNodes)]
        /\ pc' \in [Isolates -> PcType]
        /\ state' \in [AsyncNodes -> {"none", "live", "deleted"}]
        /\ timer_id' \subseteq AsyncNodes /\ waiting' \subseteq Nodes
    BY <1>2, <1>3, <2>1 DEF TypeOK, PcType
  <2>3. QED
    BY <1>2, <1>3, <1>4, <2>2 DEF TypeOK, PcType
<1>8. \A n \in AsyncNodes : IsolateOf[n] # i => NodeSame(n)
  <2>1. \A n \in AsyncNodes : IsolateOf[n] # i => (Listed(n)' <=> Listed(n))
    BY <1>4, <1>5 DEF Listed
  <2>2. QED
    BY <1>2, <1>5, <1>6, <2>1 DEF NodeSame
<1>9. \A n \in AsyncNodes : IsolateOf[n] = i => state'[n] # "live"
  <2> SUFFICES ASSUME NEW n \in AsyncNodes, IsolateOf[n] = i PROVE state'[n] # "live"
    OBVIOUS
  <2>1. NodeInv(n) /\ ~InHand(n)
    BY <1>2, IdleIsolate DEF FutexProofInv, AsyncOf
  <2>2. state[n] = "live" => n \in nodes
    BY <1>5, <2>1 DEF NodeInv
  <2>3. QED
    BY <1>6, <2>2
<1>10. ASSUME NEW n \in AsyncNodes, IsolateOf[n] = i PROVE NodeInv(n)'
  <2>1. NodeInv(n) /\ ~InHand(n) /\ timer[n] # "running"
    BY <1>2, <1>10, IdleIsolate DEF FutexProofInv, AsyncOf
  <2>2. ~Listed(n)' /\ ~Due(n)' /\ ~InHand(n)'
    BY <1>2, <1>4, <1>5, <1>6, <1>10, <2>1, EmptyHasNoMembers DEF Listed, Due, InHand
  <2>3. Ended(i)'
    BY <1>6 DEF Ended
  <2>4. state'[n] # "live" /\ (state'[n] = "none" => state[n] = "none")
        /\ (state[n] = "deleted" => state'[n] = "deleted")
    BY <1>6, <1>9, <1>10
  <2>5. QED
    BY <1>2, <1>10, <2>1, <2>2, <2>3, <2>4 DEF NodeInv
<1>11. TaskInv(i)'
  <2>1. AsyncOf(i)' = AsyncOf(i) /\ Ended(i)' /\ ~InTimeout(i)'
    BY <1>6 DEF AsyncOf, Ended, InTimeout
  <2>2. \A n \in AsyncOf(i) : state'[n] # "live"
    BY <1>9 DEF AsyncOf
  <2>3. current'[i] = <<>>
    BY <1>2, IdleIsolate
  <2>4. QED
    BY <1>6, <2>1, <2>2, <2>3, EmptyHasNoMembers DEF TaskInv
<1>12. WokenInOrder'
  <2>1. \A x \in Members(list') : x \in waiting' <=> x \in waiting
    BY <1>2, <1>4
  <2>2. QED
    BY <1>2, <1>3, <1>4, <2>1, OrderFrame
<1>13. \A h \in Isolates : /\ h \in Members(list') <=> h \in Members(list)
                           /\ h \in waiting' <=> h \in waiting
                           /\ h \in counted' <=> h \in counted
  BY <1>2, <1>4, <1>5
<1>14. pc[i] \notin InWait /\ pc'[i] \notin InWait \cup {"start"}
  BY <1>2, <1>6 DEF InWait
<1>15. QED
  BY <1>2, <1>4, <1>6, <1>7, <1>8, <1>10, <1>11, <1>12, <1>13, <1>14, TaskStepKeeps

LEMMA CancelTasksKeeps ==
  ASSUME FutexProofInv, NEW i \in Isolates, CancelTasks(i)
  PROVE  FutexProofInv'
<1> USE NodesAssumption
<1>1. /\ UNCHANGED <<list, to_resolve, waiting, interrupted, flags, notifying, stopped,
                     requests, signaled, timed, result, current, state, timer_id, timeouts,
                     promise, store_of, store, no_context, counted>>
      /\ pc[i] = "deinit"
      /\ timer' = [n \in AsyncNodes |-> IF n \in AsyncOf(i) THEN "gone" ELSE timer[n]]
      /\ resolver' = resolver \ {i}
      /\ pc' = [pc EXCEPT ![i] = "dead"]
  BY DEF CancelTasks, At, GoTo, lists, requesting, sync, stores
<1>2. TypeOK /\ TaskInv(i) /\ Distinct(list) /\ WokenInOrder
  BY DEF FutexProofInv
<1>3. /\ pc'[i] = "dead"
      /\ \A h \in Isolates \ {i} :
           /\ pc'[h] = pc[h] /\ to_resolve'[h] = to_resolve[h] /\ current'[h] = current[h]
           /\ h \in resolver' <=> h \in resolver
      /\ \A n \in AsyncNodes : timer'[n] = IF IsolateOf[n] = i THEN "gone" ELSE timer[n]
  BY <1>1, <1>2 DEF TypeOK, AsyncOf
<1>4. TypeOK'
  <2>1. /\ pc' \in [Isolates -> PcType] /\ resolver' \subseteq Isolates
        /\ timer' \in [AsyncNodes -> {"none", "posted", "running", "gone"}]
    BY <1>1, <1>2 DEF TypeOK, PcType
  <2>2. QED
    BY <1>1, <1>2, <2>1 DEF TypeOK, PcType
<1>5. \A n \in AsyncNodes : IsolateOf[n] # i => NodeSame(n)
  BY <1>1, <1>3 DEF NodeSame, Listed
<1>6. current[i] = <<>> /\ Ended(i) /\ Ended(i)' /\ ~InTimeout(i)'
  BY <1>1, <1>2, <1>3 DEF TaskInv, Ended, InTimeout
<1>7. ASSUME NEW n \in AsyncNodes, IsolateOf[n] = i PROVE NodeInv(n)'
  <2>1. NodeInv(n) /\ timer'[n] = "gone"
    BY <1>3, <1>7 DEF FutexProofInv
  <2>2. /\ (Due(n)' <=> Due(n)) /\ ~InHand(n) /\ ~InHand(n)' /\ (Listed(n)' <=> Listed(n))
    BY <1>1, <1>6, <1>7, EmptyHasNoMembers DEF Due, InHand, Listed
  <2>3. (Notified(n)' <=> Notified(n)) /\ (Abandoned(n)' <=> Abandoned(n))
    BY <1>1 DEF Notified, Abandoned
  <2>4. QED
    BY <1>1, <1>7, <2>1, <2>2, <2>3 DEF NodeInv
<1>8. TaskInv(i)'
  <2>1. AsyncOf(i)' = AsyncOf(i)
    BY DEF AsyncOf
  <2>2. QED
    BY <1>1, <1>2, <1>3, <1>6, <2>1 DEF TaskInv
<1>9. WokenInOrder'
  BY <1>1, <1>2, OrderUnchanged
<1>10. pc[i] \notin InWait /\ pc'[i] \notin InWait \cup {"start"}
  BY <1>1, <1>3 DEF InWait
<1>11. QED
  BY <1>1, <1>2, <1>3, <1>4, <1>5, <1>7, <1>8, <1>9, <1>10, TaskStepKeeps

-----------------------------------------------------------------------------
(* Wake. *)

LEMMA WakeableBeforeGrows ==
  ASSUME TypeOK, NEW j \in DOMAIN list, NEW k \in DOMAIN list, j <= k
  PROVE  /\ WakeableBefore(j) \in Nat /\ WakeableBefore(k) \in Nat
         /\ WakeableBefore(j) <= WakeableBefore(k)
<1> DEFINE before(m) == {l \in 1..(m - 1) : Wakeable(list[l])}
<1>1. j \in Nat /\ k \in Nat
  BY LenProperties DEF TypeOK
<1>2. before(j) \subseteq before(k)
  BY <1>1
<1>3. IsFiniteSet(1..(k - 1))
  BY <1>1, FS_Interval
<1>4. IsFiniteSet(before(k))
  BY <1>3, FS_Subset
<1>5. IsFiniteSet(before(j)) /\ Cardinality(before(j)) <= Cardinality(before(k))
  BY <1>2, <1>4, FS_Subset
<1>6. Cardinality(before(j)) \in Nat /\ Cardinality(before(k)) \in Nat
  BY <1>4, <1>5, FS_CardinalityType
<1>7. QED
  BY <1>5, <1>6 DEF WakeableBefore

\* Those who are woken are the first ones.
LEMMA WokenAreFirst ==
  ASSUME TypeOK, Distinct(list), WokenInOrder, NEW count \in Nat, NEW woken,
         woken = {n \in {list[k] : k \in {j \in DOMAIN list : WakeableBefore(j) < count}} :
                    Wakeable(n)}
  PROVE  Ordered(list, Present, waiting \ woken)
<1>1. Ordered(list, Present, waiting)
  BY WokenIsOrdered DEF TypeOK
<1> SUFFICES ASSUME NEW j \in DOMAIN list, NEW k \in DOMAIN list, j < k,
                    list[j] \in Present, list[k] \notin waiting \ woken,
                    list[j] \in waiting \ woken
             PROVE  FALSE
  BY DEF Ordered
<1>2. list[k] \in waiting /\ list[k] \in woken
  BY <1>1 DEF Ordered
<1>3. WakeableBefore(k) < count
  BY <1>2 DEF Distinct
<1>4. j \in Nat /\ k \in Nat
  BY LenProperties DEF TypeOK
<1>5. WakeableBefore(j) < count
  <2>1. /\ WakeableBefore(j) \in Nat /\ WakeableBefore(k) \in Nat
        /\ WakeableBefore(j) <= WakeableBefore(k)
    BY <1>4, WakeableBeforeGrows
  <2>2. QED
    BY <1>3, <2>1
<1>6. Wakeable(list[j])
  BY DEF Wakeable, Present
<1>7. list[j] \in woken
  BY <1>5, <1>6
<1>8. QED
  BY <1>7

LEMMA WakeKeeps ==
  ASSUME FutexProofInv, NEW count \in WakeCounts, Wake(count)
  PROVE  FutexProofInv'
<1> USE NodesAssumption
<1>1. PICK visited :
        visited = {list[k] : k \in {j \in DOMAIN list : WakeableBefore(j) < count}}
  OBVIOUS
<1>2. PICK woken : woken = {n \in visited : Wakeable(n)}
  OBVIOUS
<1>3. PICK stale : stale = {n \in visited : n \in waiting /\ ~Wakeable(n)}
  OBVIOUS
<1>4. PICK dropped : dropped = {n \in stale : n \notin timeouts}
                                 \cup {n \in stale \cap no_context : ~CancelFails(n)}
  OBVIOUS
<1>5. PICK due : due = woken \cap AsyncNodes
  OBVIOUS
<1>6. /\ UNCHANGED <<interrupted, flags, notifying, stopped, requests, pc, timed, result,
                     current, promise, store_of, store, no_context>>
      /\ waiting' = waiting \ (woken \cup dropped)
      /\ list' = Without(list, due \cup dropped)
      /\ signaled' = signaled \cup {i \in woken \cap Isolates : pc[i] = "asleep"}
      /\ counted' = counted \cup woken
      /\ timer_id' = timer_id \ (stale \cap no_context)
      /\ timer' = [n \in AsyncNodes |->
                     IF n \in (stale \cap no_context) \cap timer_id /\ timer[n] = "posted"
                     THEN "gone" ELSE timer[n]]
      /\ state' = [n \in AsyncNodes |-> IF n \in dropped THEN "deleted" ELSE state[n]]
      /\ timeouts' = timeouts \ due
      /\ to_resolve' = [i \in Isolates |-> to_resolve[i] \o Only(list, due \cap AsyncOf(i))]
      /\ resolver' = resolver \cup
           {i \in Isolates : to_resolve[i] = <<>> /\ due \cap AsyncOf(i) # {}}
  BY <1>1, <1>2, <1>3, <1>4, <1>5 DEF Wake, CancelTimeoutTask, NotifyAsyncWaiters,
     requesting, sync, stores
<1>7. /\ TypeOK /\ Distinct(list) /\ WokenInOrder /\ list \in Seq(Nodes)
      /\ \A n \in AsyncNodes : NodeInv(n)
      /\ \A i \in Isolates : TaskInv(i) /\ WaitInv(i) /\ InterruptInv(i)
      /\ count \in Nat
  BY NumbersAssumption DEF FutexProofInv, TypeOK
<1>8. /\ visited \subseteq Members(list) /\ Members(list) \subseteq Nodes
      /\ woken \subseteq visited /\ woken \subseteq waiting
      /\ stale \subseteq visited /\ stale \subseteq waiting /\ woken \cap stale = {}
      /\ dropped \subseteq stale
  <2>1. \A k \in DOMAIN list : list[k] \in Nodes
    BY <1>7, LenProperties, ElementOfSeq
  <2>2. QED
    BY <1>1, <1>2, <1>3, <1>4, <2>1 DEF Members, Wakeable
<1>9. stale \subseteq AsyncNodes /\ \A n \in stale : store_of[n] # store
  <2> SUFFICES ASSUME NEW n \in stale PROVE n \in AsyncNodes /\ store_of[n] # store
    OBVIOUS
  <2>1. n \in Nodes /\ StoreOf(n) # store
    BY <1>3, <1>8 DEF Wakeable
  <2>2. QED
    BY <2>1 DEF StoreOf
<1>10. /\ list' \in Seq(Nodes) /\ Distinct(list')
       /\ Members(list') = Members(list) \ (due \cup dropped)
       /\ list' = Only(list, Members(list) \ (due \cup dropped))
  BY <1>6, <1>7, WithoutProperties DEF Without
<1>11. ASSUME NEW i \in Isolates
       PROVE  /\ to_resolve'[i] \in Seq(AsyncNodes) /\ Distinct(to_resolve'[i])
              /\ Members(to_resolve'[i]) = Members(to_resolve[i]) \cup (due \cap AsyncOf(i))
  <2> DEFINE more == Only(list, due \cap AsyncOf(i))
  <2>1. /\ more \in Seq(Nodes) /\ Distinct(more)
        /\ Members(more) = Members(list) \cap (due \cap AsyncOf(i))
    BY <1>7, OnlyProperties, OnlyKeepsDistinct
  <2>2. Members(more) = due \cap AsyncOf(i)
    BY <1>5, <1>8, <2>1
  <2> HIDE DEF more
  <2>3. more \in Seq(AsyncNodes)
    <3>1. \A k \in 1..Len(more) : more[k] \in AsyncNodes
      BY <1>5, <2>1, <2>2, LenProperties DEF Members
    <3>2. QED
      BY <2>1, <3>1, LenProperties
  <2>4. to_resolve[i] \in Seq(AsyncNodes) /\ Distinct(to_resolve[i])
    BY <1>7 DEF TypeOK, TaskInv
  <2>5. Members(to_resolve[i]) \cap Members(more) = {}
    <3> SUFFICES ASSUME NEW n \in Members(to_resolve[i]), n \in Members(more) PROVE FALSE
      OBVIOUS
    <3>1. n \in AsyncNodes /\ IsolateOf[n] = i /\ n \in Members(list)
      BY <1>5, <1>8, <2>2 DEF AsyncOf
    <3>2. Due(n) /\ Listed(n)
      BY <3>1 DEF Due, Listed
    <3>3. QED
      BY <1>7, <3>1, <3>2 DEF NodeInv
  <2>6. /\ to_resolve[i] \o more \in Seq(AsyncNodes) /\ Distinct(to_resolve[i] \o more)
        /\ Members(to_resolve[i] \o more) = Members(to_resolve[i]) \cup Members(more)
    BY <2>1, <2>3, <2>4, <2>5, ConcatKeepsDistinct
  <2>7. to_resolve'[i] = to_resolve[i] \o more
    BY <1>6 DEF more
  <2>8. QED
    BY <2>2, <2>6, <2>7
<1>12. TypeOK'
  <2>1. to_resolve' \in [Isolates -> Seq(AsyncNodes)]
    <3>1. to_resolve' = [i \in Isolates |-> to_resolve'[i]]
      BY <1>6
    <3>2. QED
      BY <1>11, <3>1
  <2>2. /\ waiting' \subseteq Nodes /\ signaled' \subseteq Isolates /\ counted' \subseteq Nodes
        /\ timer_id' \subseteq AsyncNodes /\ timeouts' \subseteq AsyncNodes
        /\ resolver' \subseteq Isolates
    BY <1>6, <1>7, <1>8 DEF TypeOK
  <2>3. /\ state' \in [AsyncNodes -> {"none", "live", "deleted"}]
        /\ timer' \in [AsyncNodes -> {"none", "posted", "running", "gone"}]
    BY <1>6, <1>7 DEF TypeOK
  <2>4. QED
    BY <1>6, <1>7, <1>10, <2>1, <2>2, <2>3 DEF TypeOK
<1>13. WokenInOrder'
  <2>1. Ordered(list, Present, waiting \ woken)
    BY <1>1, <1>2, <1>7, WokenAreFirst
  <2>2. Ordered(list', Present, waiting \ woken)
    BY <1>7, <1>10, <2>1, OnlyKeepsOrder
  <2>3. Present' = Present
    BY <1>6 DEF Present, StoreOf, Nodes
  <2>4. \A n \in Members(list') : n \in waiting' <=> n \in waiting \ woken
    BY <1>6, <1>10
  <2>5. Ordered(list', Present', waiting')
    BY <2>2, <2>3, <2>4, OrderDependsOnMembers
  <2>6. QED
    BY <1>10, <2>5, WokenIsOrderedNext
<1>14. ASSUME NEW n \in AsyncNodes PROVE NodeInv(n)'
  <2>1. /\ NodeInv(n) /\ IsolateOf[n] \in Isolates
    BY <1>7
  <2>2. /\ Listed(n)' <=> Listed(n) /\ n \notin woken /\ n \notin dropped
        /\ Due(n)' <=> Due(n) \/ n \in woken
        /\ InHand(n)' <=> InHand(n)
    <3>1. Listed(n)' <=> Listed(n) /\ n \notin woken /\ n \notin dropped
      BY <1>5, <1>10 DEF Listed
    <3>2. Due(n)' <=> Due(n) \/ n \in woken
      BY <1>5, <1>11, <2>1 DEF Due, AsyncOf
    <3>3. InHand(n)' <=> InHand(n)
      BY <1>6 DEF InHand
    <3>4. QED
      BY <3>1, <3>2, <3>3
  <2>3. /\ state'[n] = IF n \in dropped THEN "deleted" ELSE state[n]
        /\ timer'[n] = IF n \in stale /\ n \in no_context /\ n \in timer_id
                            /\ timer[n] = "posted" THEN "gone" ELSE timer[n]
        /\ n \in waiting' <=> n \in waiting /\ n \notin woken /\ n \notin dropped
        /\ n \in counted' <=> n \in counted \/ n \in woken
        /\ n \in timeouts' <=> n \in timeouts /\ n \notin woken
        /\ n \in timer_id' <=> n \in timer_id /\ ~(n \in stale /\ n \in no_context)
    BY <1>5, <1>6
  <2>4. /\ pc' = pc /\ promise' = promise /\ store_of' = store_of /\ store' = store
        /\ no_context' = no_context
        /\ Ended(IsolateOf[n])' <=> Ended(IsolateOf[n])
        /\ InTimeout(IsolateOf[n])' <=> InTimeout(IsolateOf[n])
    BY <1>6 DEF Ended, InTimeout
  <2>5. /\ n \in woken \/ n \in stale => Listed(n)
        /\ ~(n \in woken /\ n \in dropped)
        /\ n \in stale => store_of[n] # store
        /\ n \in dropped => n \in stale /\ (n \in timeouts => n \in no_context)
        /\ n \in stale /\ n \in no_context /\ n \notin dropped =>
             n \in timer_id /\ timer[n] = "running"
    <3>1. n \in woken \/ n \in stale => Listed(n)
      BY <1>8 DEF Listed
    <3>2. QED
      BY <1>4, <1>8, <1>9, <3>1 DEF CancelFails
  <2>6. CASE n \in woken
    <3>1. /\ Listed(n) /\ state[n] = "live" /\ ~Listed(n)' /\ Due(n)' /\ n \notin dropped
          /\ n \notin stale /\ Notified(n)'
      BY <1>8, <2>1, <2>2, <2>3, <2>5, <2>6 DEF NodeInv, Notified
    <3>2. state'[n] = "live" /\ timer'[n] = timer[n] /\ (n \in timer_id' <=> n \in timer_id)
      BY <2>3, <3>1
    <3>3. /\ ~(InHand(n) /\ pc[IsolateOf[n]] \in {"resolve", "timeout_resolve"})
          /\ promise[n] = "none"
      BY <2>1, <3>1 DEF NodeInv
    <3>4. QED
      BY <2>1, <2>2, <2>4, <3>1, <3>2, <3>3 DEF NodeInv
  <2>7. CASE n \in dropped
    <3>1. /\ Listed(n) /\ state[n] = "live" /\ ~Due(n) /\ n \notin woken /\ n \in stale
          /\ ~Listed(n)' /\ ~Due(n)' /\ state'[n] = "deleted"
      BY <2>1, <2>2, <2>3, <2>5, <2>7 DEF NodeInv
    <3>2. /\ timer[n] \in {"posted", "running"} => n \in no_context
          /\ timer[n] = "posted" => Ended(IsolateOf[n]) \/ n \in timer_id
          /\ promise[n] = "none"
          /\ ~(InHand(n) /\ pc[IsolateOf[n]] \in {"resolve", "timeout_resolve"})
      BY <2>1, <2>5, <2>7, <3>1 DEF NodeInv
    <3>3. timer'[n] = "posted" => Ended(IsolateOf[n])
      BY <2>3, <3>1, <3>2
    <3>4. timer'[n] = "running" <=> timer[n] = "running"
      BY <2>3
    <3>5. timer[n] = "running" => Abandoned(n)'
      BY <2>4, <2>5, <3>1, <3>2 DEF Abandoned
    <3>6. timer[n] = "running" <=> InHand(n) /\ InTimeout(IsolateOf[n])
      BY <2>1 DEF NodeInv
    <3>7. InHand(n) /\ pc[IsolateOf[n]] = "timeout" => Abandoned(n)'
      BY <3>5, <3>6 DEF InTimeout
    <3>8. store_of[n] <= store
      BY <2>1 DEF NodeInv
    <3>9. QED
      BY <2>2, <2>4, <3>1, <3>2, <3>3, <3>4, <3>6, <3>7, <3>8 DEF NodeInv
  <2>8. CASE n \notin woken /\ n \notin dropped
    <3>1. /\ Listed(n)' <=> Listed(n)
          /\ Due(n)' <=> Due(n)
          /\ state'[n] = state[n] /\ (n \in waiting' <=> n \in waiting)
          /\ n \in counted' <=> n \in counted
          /\ n \in timeouts' <=> n \in timeouts
      BY <2>2, <2>3, <2>8
    <3>2. timer'[n] = timer[n] /\ (timer[n] = "posted" => (n \in timer_id' <=> n \in timer_id))
      BY <2>3, <2>5, <2>8
    <3>3. (Notified(n)' <=> Notified(n)) /\ (Abandoned(n)' <=> Abandoned(n))
      BY <2>4, <3>1 DEF Notified, Abandoned
    <3>4. QED
      BY <2>1, <2>2, <2>4, <3>1, <3>2, <3>3 DEF NodeInv
  <2>9. QED
    BY <2>6, <2>7, <2>8
<1>15. ASSUME NEW i \in Isolates PROVE TaskInv(i)'
  <2>1. TaskInv(i)
    BY <1>7
  <2>2. /\ to_resolve'[i] \in Seq(AsyncNodes) /\ Distinct(to_resolve'[i])
        /\ Members(to_resolve'[i]) = Members(to_resolve[i]) \cup (due \cap AsyncOf(i))
    BY <1>11
  <2>3. to_resolve'[i] # <<>> <=> to_resolve[i] # <<>> \/ due \cap AsyncOf(i) # {}
    <3>1. to_resolve[i] \in Seq(AsyncNodes)
      BY <1>7 DEF TypeOK
    <3>2. /\ to_resolve[i] = <<>> <=> Members(to_resolve[i]) = {}
          /\ to_resolve'[i] = <<>> <=> Members(to_resolve'[i]) = {}
      BY <2>2, <3>1, EmptyHasNoMembers
    <3>3. QED
      BY <2>2, <3>2
  <2>4. i \in resolver' <=> i \in resolver \/ (to_resolve[i] = <<>> /\ due \cap AsyncOf(i) # {})
    BY <1>6
  <2>5. /\ AsyncOf(i)' = AsyncOf(i) /\ pc' = pc /\ current' = current
        /\ Ended(i)' <=> Ended(i)
        /\ InTimeout(i)' <=> InTimeout(i)
    BY <1>6 DEF AsyncOf, Ended, InTimeout
  <2>6. \A n \in AsyncOf(i) : state'[n] = "live" => state[n] = "live"
    BY <1>6 DEF AsyncOf
  <2>7. ~Ended(i) => (i \in resolver' <=> to_resolve'[i] # <<>>)
    BY <2>1, <2>3, <2>4 DEF TaskInv
  <2>8. QED
    BY <2>1, <2>2, <2>5, <2>6, <2>7 DEF TaskInv
<1>16. ASSUME NEW i \in Isolates PROVE WaitInv(i)' /\ InterruptInv(i)'
  <2>1. WaitInv(i) /\ InterruptInv(i)
    BY <1>7
  <2>2. /\ i \in Members(list') <=> i \in Members(list)
        /\ i \in waiting' <=> i \in waiting /\ i \notin woken
        /\ i \in counted' <=> i \in counted \/ i \in woken
        /\ i \in woken => i \in Members(list) /\ i \in waiting
    BY <1>5, <1>6, <1>8, <1>9, <1>10
  <2>3. WaitInv(i)'
    <3>1. "start" \notin InWait
      BY DEF InWait
    <3>2. QED
      BY <1>6, <2>1, <2>2, <3>1 DEF WaitInv
  <2>4. InterruptInv(i)'
    BY <1>6, <2>1, InterruptFrame
  <2>5. QED
    BY <2>3, <2>4
<1>17. Distinct(list)'
  BY <1>10
<1>18. QED
  BY <1>12, <1>13, <1>14, <1>15, <1>16, <1>17 DEF FutexProofInv

-----------------------------------------------------------------------------
(* The invariant holds, and what it implies. *)

LEMMA StutterKeeps ==
  ASSUME FutexProofInv, UNCHANGED vars
  PROVE  FutexProofInv'
<1>1. UNCHANGED <<list, to_resolve, waiting, interrupted, flags, notifying, stopped, requests,
                  signaled, pc, timed, result, current, state, timer, timer_id, timeouts,
                  resolver, promise, store_of, store, no_context, counted>>
  BY DEF vars, lists, requesting, sync, async, stores
<1>2. TypeOK'
  BY <1>1 DEF FutexProofInv, TypeOK
<1>3. Distinct(list)' /\ WokenInOrder'
  BY <1>1, OrderUnchanged DEF FutexProofInv, Distinct
<1>4. ASSUME NEW n \in AsyncNodes PROVE NodeInv(n)'
  <2>1. NodeInv(n)
    BY DEF FutexProofInv
  <2>2. (Listed(n)' <=> Listed(n)) /\ (Due(n)' <=> Due(n)) /\ (InHand(n)' <=> InHand(n))
    BY <1>1 DEF Listed, Due, InHand, Members
  <2>3. QED
    BY <1>1, <2>1, <2>2, NodeFrame
<1>5. ASSUME NEW h \in Isolates PROVE TaskInv(h)' /\ WaitInv(h)' /\ InterruptInv(h)'
  BY <1>1, TaskFrame, WaitFrame, InterruptFrame DEF FutexProofInv
<1>6. QED
  BY <1>2, <1>3, <1>4, <1>5 DEF FutexProofInv

LEMMA NextKeeps ==
  ASSUME FutexProofInv, [Next]_vars
  PROVE  FutexProofInv'
<1>1. CASE UNCHANGED vars
  BY <1>1, StutterKeeps
<1>2. ASSUME NEW i \in Isolates, NEW flag \in {"terminate", "other"}, RequestInterrupt(i, flag)
      PROVE  FutexProofInv'
  BY <1>2, RequestInterruptKeeps
<1>3. ASSUME NEW i \in Isolates, StopWait(i) PROVE FutexProofInv'
  BY <1>3, StopWaitKeeps
<1>4. ASSUME NEW i \in Isolates, NEW what \in {"interrupt", "stop"}, NotifyWake(i, what)
      PROVE  FutexProofInv'
  BY <1>4, NotifyWakeKeeps
<1>5. ASSUME NEW i \in Isolates, HandleInterrupts(i) \/ WaitHandlesInterrupts(i)
      PROVE  FutexProofInv'
  BY <1>5, HandleInterruptsKeeps
<1>6. ASSUME NEW i \in Isolates, StartWait(i) \/ StartStep(i) PROVE FutexProofInv'
  BY <1>6, StartWaitKeeps, WaitSyncKeeps DEF StartStep
<1>7. ASSUME NEW i \in Isolates, Relock(i) PROVE FutexProofInv'
  BY <1>7, RelockKeeps
<1>8. ASSUME NEW i \in Isolates, ReturnException(i) PROVE FutexProofInv'
  BY <1>8, ReturnExceptionKeeps
<1>9. ASSUME NEW i \in Isolates, WakeUp(i) PROVE FutexProofInv'
  BY <1>9, WakeUpKeeps
<1>10. ASSUME NEW i \in Isolates, ResolveAsyncWaiterPromises(i) PROVE FutexProofInv'
  BY <1>10, ResolveAsyncWaiterPromisesKeeps
<1>11. ASSUME NEW i \in Isolates, ResolveAsyncWaiterPromise(i) PROVE FutexProofInv'
  BY <1>11, ResolveAsyncWaiterPromiseKeeps
<1>12. ASSUME NEW i \in Isolates, HandleAsyncWaiterTimeout(i) PROVE FutexProofInv'
  BY <1>12, HandleAsyncWaiterTimeoutKeeps
<1>13. ASSUME NEW i \in Isolates, ResolveTimedOut(i) PROVE FutexProofInv'
  BY <1>13, ResolveTimedOutKeeps
<1>14. ASSUME NEW i \in Isolates, IsolateDeinit(i) PROVE FutexProofInv'
  BY <1>14, IsolateDeinitKeeps
<1>15. ASSUME NEW i \in Isolates, CancelTasks(i) PROVE FutexProofInv'
  BY <1>15, CancelTasksKeeps
<1>16. ASSUME NEW n \in AsyncNodes, WaitAsync(n, TRUE) \/ WaitAsync(n, FALSE)
       PROVE  FutexProofInv'
  BY <1>16, WaitAsyncKeeps
<1>17. ASSUME NEW n \in AsyncNodes, StartTimeoutTask(n) PROVE FutexProofInv'
  BY <1>17, StartTimeoutTaskKeeps
<1>18. ASSUME NEW n \in AsyncNodes, CollectContext(n) PROVE FutexProofInv'
  BY <1>18, CollectContextKeeps
<1>19. ASSUME NEW count \in WakeCounts, Wake(count) PROVE FutexProofInv'
  BY <1>19, WakeKeeps
<1>20. CASE ReplaceBackingStore
  BY <1>20, ReplaceBackingStoreKeeps
<1>21. CASE Next
  BY <1>2, <1>3, <1>4, <1>5, <1>6, <1>7, <1>8, <1>9, <1>10, <1>11, <1>12, <1>13, <1>14,
     <1>15, <1>16, <1>17, <1>18, <1>19, <1>20, <1>21, Zenon DEF Next, WaitStep, TaskStep
<1>22. QED
  BY <1>1, <1>21

\* The inductive invariant holds in every reachable state: each node is where
\* NodeInv says, whoever of the waiters, notify, the tasks and the tear down of
\* an isolate took g_mutex last.
THEOREM FutexInductive == Spec => []FutexProofInv
<1>1. Init => FutexProofInv
  BY InitEstablishes
<1>2. FutexProofInv /\ [Next]_vars => FutexProofInv'
  BY NextKeeps
<1>3. QED
  BY <1>1, <1>2, PTL DEF Spec

LEMMA AtMostOne ==
  ASSUME NEW S, \A x, y \in S : x = y
  PROVE  /\ Cardinality(S) \in {0, 1}
         /\ Cardinality(S) = 0 <=> S = {}
<1>1. CASE S = {}
  BY <1>1, FS_EmptySet
<1>2. CASE S # {}
  <2>1. PICK x \in S : TRUE
    BY <1>2
  <2>2. S = {x}
    BY <2>1
  <2>3. Cardinality({x}) = 1
    BY FS_Singleton
  <2>4. QED
    BY <1>2, <2>2, <2>3
<1>3. QED
  BY <1>1, <1>2

\* A node is on one list at most, and then it is live.
LEMMA ListsAreDisjoint ==
  ASSUME FutexProofInv
  PROVE  ListsInv
<1> USE NodesAssumption
<1> DEFINE onList(n) == {k \in DOMAIN list : list[k] = n}
           due(n) == {p \in Isolates \X (1..Cardinality(AsyncNodes)) :
                        p[2] \in DOMAIN to_resolve[p[1]] /\ to_resolve[p[1]][p[2]] = n}
<1>1. ASSUME NEW n \in Nodes
      PROVE  /\ \A j, k \in onList(n) : j = k
             /\ onList(n) # {} => n \in Members(list)
  BY DEF FutexProofInv, Distinct, Members
<1>2. ASSUME NEW n \in Nodes, NEW p \in due(n)
      PROVE  /\ n \in AsyncNodes /\ p[1] = IsolateOf[n] /\ Due(n)
             /\ p[1] \in Isolates /\ p = <<p[1], p[2]>>
             /\ p[2] \in DOMAIN to_resolve[p[1]] /\ to_resolve[p[1]][p[2]] = n
  <2>1. /\ p[1] \in Isolates /\ p = <<p[1], p[2]>>
        /\ p[2] \in DOMAIN to_resolve[p[1]] /\ to_resolve[p[1]][p[2]] = n
    BY <1>2
  <2>2. n \in Members(to_resolve[p[1]])
    BY <2>1 DEF Members
  <2>3. n \in AsyncOf(p[1])
    BY <2>1, <2>2 DEF FutexProofInv, TaskInv
  <2>4. QED
    BY <2>1, <2>2, <2>3 DEF AsyncOf, Due
<1>3. ASSUME NEW n \in Nodes, NEW p \in due(n), NEW q \in due(n) PROVE p = q
  <2>1. p[1] = q[1] /\ p[1] \in Isolates
    BY <1>2
  <2>2. p[2] = q[2]
    BY <1>2, <2>1 DEF FutexProofInv, TaskInv, Distinct
  <2>3. QED
    BY <1>2, <2>1, <2>2
<1>4. ASSUME NEW n \in Nodes
      PROVE  /\ Cardinality(onList(n)) + Cardinality(due(n)) <= 1
             /\ n \in AsyncNodes /\ Cardinality(onList(n)) + Cardinality(due(n)) = 1
                  => state[n] = "live"
  <2> DEFINE a == Cardinality(onList(n))
             b == Cardinality(due(n))
  <2>1. a \in {0, 1} /\ (a = 0 <=> onList(n) = {})
    BY <1>1, AtMostOne
  <2>2. b \in {0, 1} /\ (b = 0 <=> due(n) = {})
    BY <1>3, AtMostOne
  <2>3. n \in AsyncNodes => NodeInv(n)
    BY DEF FutexProofInv
  <2>4. onList(n) = {} \/ due(n) = {}
    BY <1>1, <1>2, <2>3 DEF NodeInv, Listed
  <2>5. n \in AsyncNodes /\ (onList(n) # {} \/ due(n) # {}) => state[n] = "live"
    BY <1>1, <1>2, <2>3 DEF NodeInv, Listed, Notified
  <2> HIDE DEF a, b, onList, due
  <2>6. a + b <= 1 /\ (a + b = 1 => a # 0 \/ b # 0)
    BY <2>1, <2>2, <2>4
  <2>7. QED
    BY <2>1, <2>2, <2>5, <2>6 DEF a, b
<1>5. \A i \in Isolates : (pc[i] \in InWait) <=> (i \in Members(list))
  BY DEF FutexProofInv, WaitInv
<1>6. AsyncNodes \subseteq Nodes
  BY DEF Nodes
<1>7. QED
  BY <1>4, <1>5, <1>6 DEF ListsInv

LEMMA TasksFindTheirNodes ==
  ASSUME FutexProofInv
  PROVE  ResolverHasWork /\ ResolveChecks /\ TimeoutTaskHasNode /\ DeadIsolateHasNoNodes
<1> USE NodesAssumption
<1>1. ResolverHasWork
  BY DEF ResolverHasWork, FutexProofInv, TaskInv, Ended
<1>2. ASSUME NEW i \in Isolates, pc[i] = "resolve", NEW n \in Members(current[i])
      PROVE  n \notin waiting /\ n \notin timeouts /\ ~CancelFails(n) /\ state[n] = "live"
  <2>1. n \in AsyncNodes /\ IsolateOf[n] = i
    BY DEF FutexProofInv, TaskInv, AsyncOf
  <2>2. NodeInv(n) /\ InHand(n) /\ ~InTimeout(i)
    BY <1>2, <2>1 DEF FutexProofInv, InHand, InTimeout
  <2>3. QED
    BY <1>2, <2>1, <2>2 DEF NodeInv, Notified, CancelFails
<1>3. ASSUME NEW i \in Isolates, pc[i] \in {"timeout", "timeout_resolve"},
             store_of[current[i][1]] = store
      PROVE  /\ state[current[i][1]] = "live"
             /\ pc[i] = "timeout_resolve" => current[i][1] \in waiting \cap timeouts
  <2>1. PICK n : n = current[i][1]
    OBVIOUS
  <2>2. n \in AsyncNodes /\ IsolateOf[n] = i /\ InHand(n)
    BY <1>3, <2>1, TimeoutNode DEF InTimeout
  <2>3. NodeInv(n) /\ ~Abandoned(n)
    BY <1>3, <2>1, <2>2 DEF FutexProofInv, Abandoned
  <2>4. state[n] = "live" /\ (pc[i] = "timeout_resolve" => n \in waiting /\ n \in timeouts)
    BY <1>3, <2>2, <2>3 DEF NodeInv, Notified
  <2>5. QED
    BY <2>1, <2>4
<1>4. ResolveChecks
  BY <1>2, <1>3 DEF ResolveChecks, At
<1>5. TimeoutTaskHasNode
  BY <1>3 DEF TimeoutTaskHasNode
<1>6. ASSUME NEW i \in Isolates, pc[i] \in {"deinit", "dead"}, NEW n \in AsyncOf(i)
      PROVE  state[n] # "live" /\ n \notin Members(list) \cup Members(to_resolve[i])
  <2>1. state[n] # "live" /\ n \in AsyncNodes /\ IsolateOf[n] = i
    BY <1>6 DEF FutexProofInv, TaskInv, Ended, AsyncOf
  <2>2. ~Listed(n) /\ ~Due(n)
    BY <2>1 DEF FutexProofInv, NodeInv, Notified
  <2>3. QED
    BY <2>1, <2>2 DEF Listed, Due
<1>7. QED
  BY <1>1, <1>4, <1>5, <1>6 DEF DeadIsolateHasNoNodes

\* The integrity of the lists that FutexEmulation protects with g_mutex, for
\* any number of isolates, waiters and buffers: no node is on two lists, none is
\* deleted while a list or a task whose buffer lives refers to it, a list of
\* promises always has its task, an isolate that has ended left no node behind,
\* and notify wakes in the order of arrival.
THEOREM FutexCorrect == Spec => []FutexInv
<1>1. FutexProofInv => FutexInv
  BY ListsAreDisjoint, TasksFindTheirNodes DEF FutexInv, FutexProofInv
<1>2. QED
  BY <1>1, FutexInductive, PTL

\* A waiter that Wake has counted does not report a timeout, even if its timeout
\* task runs or its wait elapses at the same time; and "ok" is only reported by
\* a waiter that was counted or stopped through its handle.
THEOREM CountedWaitersAreWoken == Spec => []CountedAreWoken
<1>1. FutexProofInv => CountedAreWoken
  BY DEF FutexProofInv, WaitInv, NodeInv, CountedAreWoken
<1>2. QED
  BY <1>1, FutexInductive, PTL

\* A termination or a stop that comes at any moment of WaitSync is not slept
\* through: when the thread is on cond_, NotifyWake is still to come or has
\* signaled it.
THEOREM NoInterruptSleptThrough == Spec => []InterruptsNotDropped
<1>1. FutexProofInv => InterruptsNotDropped
  <2> SUFFICES ASSUME FutexProofInv, NEW i \in Isolates, pc[i] = "asleep",
                      "terminate" \in flags[i] \/ i \in stopped
               PROVE  notifying[i] # {} \/ i \in signaled
    BY DEF InterruptsNotDropped, At
  <2>1. InterruptInv(i)
    BY DEF FutexProofInv
  <2>2. QED
    BY <2>1 DEF InterruptInv
<1>2. QED
  BY <1>1, FutexInductive, PTL
=============================================================================

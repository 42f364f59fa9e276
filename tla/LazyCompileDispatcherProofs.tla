-------------------- MODULE LazyCompileDispatcherProofs --------------------
(***************************************************************************)
(* Proofs about LazyCompileDispatcher, for every set of functions, nesting *)
(* and number of workers: the lists, the counter of background jobs, the   *)
(* job slots and the idle task agree with the states of the jobs.          *)
(***************************************************************************)
EXTENDS LazyCompileDispatcher, SequenceTheorems, FiniteSetTheorems, TLAPS

(***************************************************************************)
(* The inductive invariant.                                                *)
(***************************************************************************)
Distinct(s) == \A j, k \in DOMAIN s : s[j] = s[k] => j = k

\* A job is on a list once, and on the list that its state names.
ListInv ==
  /\ Distinct(pending_background_jobs) /\ Distinct(finalizable_jobs)
  /\ Distinct(jobs_to_dispose)
  /\ \A f \in Functions :
       /\ f \in ToSet(pending_background_jobs) <=> state[f] = "kPending"
       /\ f \in ToSet(finalizable_jobs) <=> state[f] \in Finalizable
       /\ f \in ToSet(jobs_to_dispose) <=>
            state[f] = "kFinalized" /\ \A w \in Workers : held[w] # f

\* A worker that holds a job runs or deletes it, alone.
WorkerInv ==
  /\ \A w \in Workers :
       /\ held[w] # None <=> worker[w] \in {"run", "collect", "delete"}
       /\ worker[w] \in {"run", "collect"} => state[held[w]] \in Running
       /\ worker[w] = "delete" => state[held[w]] = "kFinalized"
  /\ \A w, v \in Workers : held[w] = held[v] /\ held[w] # None => w = v
  /\ \A f \in Functions : state[f] \in Running => \E w \in Workers : held[w] = f

\* The job of the main thread is in the state that its place in the code says.
MainInv ==
  /\ main_job # None <=>
       main \in {"blocked", "foreground", "finish", "finish_other", "idle_finish"}
  /\ main = "blocked" =>
       \/ main_thread_blocking_on_job = main_job /\ state[main_job] = "kRunning"
       \/ main_thread_blocking_on_job = None /\ state[main_job] = "kReadyToFinalize"
  /\ main # "blocked" => main_thread_blocking_on_job = None
  /\ main = "foreground" => state[main_job] = "kPendingToRunOnForeground"
  /\ main = "finish" => state[main_job] = "kFinalizingNow"
  /\ main \in {"finish_other", "idle_finish"} =>
       state[main_job] \in {"kFinalizingNow", "kAbortingNow"}
  /\ \A f \in Functions : state[f] \in OnMainThread =>
       main_job = f /\ main \in {"foreground", "finish", "finish_other", "idle_finish"}

Background == {f \in Functions : state[f] \in {"kPending"} \cup Running}

CountInv ==
  num_jobs_for_background =
    Cardinality(Background) + (IF jobs_to_dispose = <<>> THEN 0 ELSE 1)

\* idle_task_scheduled_ is true of the idle task until AbortAll.
IdleInv ==
  /\ ~canceled => (idle_task <=> idle_task_scheduled)
  /\ FinalizableIsAnnounced

AbortInv ==
  /\ canceled <=> main \in {"abort", "aborted"}
  /\ NothingAfterAbortAll

LazyProofInv ==
  /\ TypeOK /\ ListInv /\ WorkerInv /\ MainInv /\ CountInv
  /\ SlotPointsToLiveJob /\ IdleInv /\ AbortInv

-----------------------------------------------------------------------------
(* Lists without duplicates. *)

\* push_back.
LEMMA AppendFacts ==
  ASSUME NEW S, NEW s \in Seq(S), NEW x \in S, x \notin ToSet(s), Distinct(s)
  PROVE  /\ Append(s, x) \in Seq(S) /\ Append(s, x) # <<>>
         /\ ToSet(Append(s, x)) = ToSet(s) \cup {x}
         /\ Distinct(Append(s, x))
<1>1. /\ Append(s, x) \in Seq(S) /\ Append(s, x) # <<>>
      /\ Len(s) \in Nat /\ DOMAIN s = 1..Len(s)
      /\ DOMAIN Append(s, x) = 1..(Len(s) + 1)
      /\ \A i \in 1..Len(s) : Append(s, x)[i] = s[i]
      /\ Append(s, x)[Len(s) + 1] = x
  OBVIOUS
<1>2. ToSet(Append(s, x)) = ToSet(s) \cup {x}
  <2>1. ASSUME NEW y \in ToSet(Append(s, x)) PROVE y \in ToSet(s) \cup {x}
    <3>1. PICK i \in 1..(Len(s) + 1) : y = Append(s, x)[i]
      BY <1>1, <2>1 DEF ToSet
    <3>2. CASE i \in 1..Len(s)
      BY <1>1, <3>1, <3>2 DEF ToSet
    <3>3. CASE i = Len(s) + 1
      BY <1>1, <3>1, <3>3
    <3>4. QED
      BY <1>1, <3>1, <3>2, <3>3
  <2>2. ASSUME NEW y \in ToSet(s) PROVE y \in ToSet(Append(s, x))
    BY <1>1 DEF ToSet
  <2>3. x \in ToSet(Append(s, x))
    <3>1. Len(s) + 1 \in DOMAIN Append(s, x)
      BY <1>1
    <3>2. QED
      BY <1>1, <3>1 DEF ToSet
  <2>4. QED
    BY <2>1, <2>2, <2>3
<1>3. Distinct(Append(s, x))
  <2>1. \A i \in 1..Len(s) : s[i] # x
    BY <1>1 DEF ToSet
  <2>2. QED
    BY <1>1, <2>1 DEF Distinct
<1>4. QED
  BY <1>1, <1>2, <1>3

\* back and pop_back.
LEMMA FrontFacts ==
  ASSUME NEW S, NEW s \in Seq(S), s # <<>>, Distinct(s)
  PROVE  /\ Last(s) \in S /\ Last(s) \in ToSet(s)
         /\ Front(s) \in Seq(S) /\ (Front(s) = <<>> <=> Len(s) = 1)
         /\ ToSet(Front(s)) = ToSet(s) \ {Last(s)}
         /\ Distinct(Front(s))
<1> DEFINE n == Len(s) - 1
<1>1. /\ Len(s) \in Nat \ {0} /\ n \in Nat /\ n + 1 = Len(s)
      /\ DOMAIN s = 1..Len(s) /\ s[Len(s)] \in S
  OBVIOUS
<1>2. /\ Front(s) \in Seq(S) /\ Len(Front(s)) = n
      /\ DOMAIN Front(s) = 1..n
      /\ \A i \in 1..n : Front(s)[i] = s[i]
  BY <1>1 DEF Front
<1>3. Last(s) = s[n + 1] /\ Last(s) \in S /\ Last(s) \in ToSet(s)
  BY <1>1 DEF Last, ToSet
<1>4. Front(s) = <<>> <=> Len(s) = 1
  BY <1>1, <1>2
<1> HIDE DEF n
<1>5. Distinct(Front(s))
  BY <1>1, <1>2 DEF Distinct
<1>6. ToSet(Front(s)) = ToSet(s) \ {Last(s)}
  <2>1. ASSUME NEW y \in ToSet(Front(s)) PROVE y \in ToSet(s) /\ y # Last(s)
    <3>1. PICK i \in 1..n : y = Front(s)[i]
      BY <1>2, <2>1 DEF ToSet
    <3>2. i \in DOMAIN s /\ n + 1 \in DOMAIN s /\ i # n + 1 /\ y = s[i]
      BY <1>1, <1>2, <3>1
    <3>3. QED
      BY <1>3, <3>2 DEF Distinct, ToSet
  <2>2. ASSUME NEW y \in ToSet(s), y # Last(s) PROVE y \in ToSet(Front(s))
    <3>1. PICK i \in DOMAIN s : y = s[i]
      BY <2>2 DEF ToSet
    <3>2. i # n + 1
      BY <1>3, <2>2, <3>1
    <3>3. i \in 1..n
      BY <1>1, <3>2
    <3>4. QED
      BY <1>2, <3>1, <3>3 DEF ToSet
  <2>3. QED
    BY <2>1, <2>2
<1>7. QED
  BY <1>2, <1>3, <1>4, <1>5, <1>6

\* A set of natural numbers that is not empty has a smallest one.
LEMMA MinOfNaturals ==
  ASSUME NEW S \in SUBSET Nat, S # {}
  PROVE  Min(S) \in S
<1> DEFINE R == OpToRel(<, Nat)
<1>1. IsWellFoundedOn(R, Nat)
  BY NatLessThanWellFounded
<1>2. \A x, y \in Nat : y < x => <<y, x>> \in R
  <2>1. SUFFICES ASSUME NEW x \in Nat, NEW y \in Nat, y < x
                 PROVE  <<y, x>> \in R
    OBVIOUS
  <2>2. <<y, x>> \in Nat \X Nat /\ <<y, x>>[1] = y /\ <<y, x>>[2] = x
    OBVIOUS
  <2>3. QED
    BY <2>1, <2>2 DEF OpToRel
<1> HIDE DEF R
<1>3. PICK x \in S : \A y \in S : ~ (<<y, x>> \in R)
  BY <1>1, WFMin
<1>4. \A y \in S : ~ (y < x)
  BY <1>2, <1>3, Zenon
<1>5. \A y \in S : x =< y
  BY <1>4
<1>6. QED
  BY <1>5 DEF Min

\* What is left when position m is removed.
LEMMA RemoveAtFacts ==
  ASSUME NEW S, NEW s \in Seq(S), NEW m \in 1..Len(s)
  PROVE  /\ RemoveAt(s, m) \in Seq(S) /\ Len(RemoveAt(s, m)) = Len(s) - 1
         /\ \A i \in 1..(Len(s) - 1) :
              RemoveAt(s, m)[i] = IF i < m THEN s[i] ELSE s[i + 1]
<1> DEFINE n == Len(s)
           a == SubSeq(s, 1, m - 1)
           b == SubSeq(s, m + 1, n)
<1>1. n \in Nat /\ m \in 1..n /\ \A i \in 1..n : s[i] \in S
  OBVIOUS
<1>2. RemoveAt(s, m) = a \o b
  BY DEF RemoveAt
<1> HIDE DEF n
<1>3. /\ a \in Seq(S) /\ Len(a) = IF 1 <= m - 1 THEN (m - 1) - 1 + 1 ELSE 0
      /\ \A i \in 1..((m - 1) - 1 + 1) : a[i] = s[1 + i - 1]
  <2>1. 1 \in Int /\ m - 1 \in Int /\ \A i \in 1..(m - 1) : s[i] \in S
    BY <1>1
  <2>2. QED
    BY <2>1, SubSeqProperties
<1>4. /\ b \in Seq(S) /\ Len(b) = IF m + 1 <= n THEN n - (m + 1) + 1 ELSE 0
      /\ \A i \in 1..(n - (m + 1) + 1) : b[i] = s[(m + 1) + i - 1]
  <2>1. m + 1 \in Int /\ n \in Int /\ \A i \in (m + 1)..n : s[i] \in S
    BY <1>1
  <2>2. QED
    BY <2>1, SubSeqProperties
<1> HIDE DEF a, b
<1>5. Len(a) = m - 1
  BY <1>1, <1>3
<1>6. Len(b) = n - m
  BY <1>1, <1>4
<1>7. /\ a \o b \in Seq(S) /\ Len(a \o b) = Len(a) + Len(b)
      /\ \A i \in 1..(Len(a) + Len(b)) :
           (a \o b)[i] = IF i <= Len(a) THEN a[i] ELSE b[i - Len(a)]
  BY <1>3, <1>4, ConcatProperties
<1>8. Len(a) + Len(b) = n - 1
  BY <1>1, <1>5, <1>6
<1>9. ASSUME NEW i \in 1..(n - 1)
      PROVE  (a \o b)[i] = IF i < m THEN s[i] ELSE s[i + 1]
  <2>1. (a \o b)[i] = IF i <= m - 1 THEN a[i] ELSE b[i - (m - 1)]
    BY <1>5, <1>7, <1>8
  <2>2. CASE i < m
    <3>1. i <= m - 1 /\ i \in 1..((m - 1) - 1 + 1) /\ 1 + i - 1 = i
      BY <1>1, <2>2
    <3>2. QED
      BY <1>3, <2>1, <2>2, <3>1
  <2>3. CASE ~(i < m)
    <3>1. /\ ~(i <= m - 1) /\ i - (m - 1) \in 1..(n - (m + 1) + 1)
          /\ (m + 1) + (i - (m - 1)) - 1 = i + 1
      BY <1>1, <2>3
    <3>2. QED
      BY <1>4, <2>1, <2>3, <3>1
  <2>4. QED
    BY <2>2, <2>3
<1>10. QED
  BY <1>2, <1>7, <1>8, <1>9 DEF n

\* erase.
LEMMA WithoutFacts ==
  ASSUME NEW S, NEW s \in Seq(S), NEW x, Distinct(s)
  PROVE  /\ Without(s, x) \in Seq(S)
         /\ ToSet(Without(s, x)) = ToSet(s) \ {x}
         /\ Distinct(Without(s, x))
<1>1. CASE ~ \E i \in 1..Len(s) : s[i] = x
  <2>1. Without(s, x) = s
    BY <1>1 DEF Without, RemoveFirst
  <2>2. x \notin ToSet(s)
    BY <1>1 DEF ToSet
  <2>3. QED
    BY <2>1, <2>2
<1>2. CASE \E i \in 1..Len(s) : s[i] = x
  <2> DEFINE I == {i \in 1..Len(s) : s[i] = x}
  <2>1. I # {} /\ I \subseteq Nat
    BY <1>2
  <2>2. Without(s, x) = RemoveAt(s, Min(I))
    <3>1. Without(s, x) = RemoveAt(s, SelectInSeq(s, LAMBDA v : v = x))
      BY <1>2 DEF Without, RemoveFirst
    <3>2. SelectInSeq(s, LAMBDA v : v = x) = Min(I)
      BY <2>1 DEF SelectInSeq
    <3>3. QED
      BY <3>1, <3>2
  <2>3. PICK m \in I : Without(s, x) = RemoveAt(s, m)
    BY <2>1, <2>2, MinOfNaturals
  <2>4. m \in 1..Len(s) /\ s[m] = x /\ Len(s) \in Nat /\ DOMAIN s = 1..Len(s)
    BY <2>3
  <2> HIDE DEF I
  <2> DEFINE t == Without(s, x)
  <2>8. /\ t \in Seq(S) /\ Len(t) = Len(s) - 1 /\ DOMAIN t = 1..(Len(s) - 1)
        /\ \A i \in 1..(Len(s) - 1) : t[i] = IF i < m THEN s[i] ELSE s[i + 1]
    <3>1. /\ t \in Seq(S) /\ Len(t) = Len(s) - 1
          /\ \A i \in 1..(Len(s) - 1) : t[i] = IF i < m THEN s[i] ELSE s[i + 1]
      BY <2>3, <2>4, RemoveAtFacts
    <3> HIDE DEF t
    <3>2. QED
      BY <3>1
  <2> HIDE DEF t
  <2>9. Distinct(t)
    <3>1. SUFFICES ASSUME NEW j \in 1..(Len(s) - 1), NEW k \in 1..(Len(s) - 1), t[j] = t[k]
                   PROVE  j = k
      BY <2>8 DEF Distinct
    <3>2. PICK p \in 1..Len(s) : t[j] = s[p] /\ p = IF j < m THEN j ELSE j + 1
      BY <2>4, <2>8
    <3>3. PICK q \in 1..Len(s) : t[k] = s[q] /\ q = IF k < m THEN k ELSE k + 1
      BY <2>4, <2>8
    <3>4. p = q
      BY <2>4, <3>1, <3>2, <3>3 DEF Distinct
    <3>5. QED
      BY <2>4, <3>2, <3>3, <3>4
  <2>10. ToSet(t) = ToSet(s) \ {x}
    <3>1. ASSUME NEW y \in ToSet(t) PROVE y \in ToSet(s) /\ y # x
      <4>1. PICK i \in 1..(Len(s) - 1) : y = t[i]
        BY <2>8, <3>1 DEF ToSet
      <4>2. PICK p \in 1..Len(s) : y = s[p] /\ p # m
        BY <2>4, <2>8, <4>1
      <4>3. QED
        BY <2>4, <4>2 DEF ToSet, Distinct
    <3>2. ASSUME NEW y \in ToSet(s), y # x PROVE y \in ToSet(t)
      <4>1. PICK p \in 1..Len(s) : y = s[p]
        BY <2>4, <3>2 DEF ToSet
      <4>2. p # m
        BY <2>4, <3>2, <4>1
      <4>3. PICK i \in 1..(Len(s) - 1) : p = IF i < m THEN i ELSE i + 1
        <5>1. CASE p < m
          BY <2>4, <5>1
        <5>2. CASE p > m
          <6>1. p - 1 \in 1..(Len(s) - 1) /\ ~(p - 1 < m) /\ (p - 1) + 1 = p
            BY <2>4, <5>2
          <6>2. QED
            BY <6>1
        <5>3. QED
          BY <2>4, <4>2, <5>1, <5>2
      <4>4. t[i] = y
        BY <2>4, <2>8, <4>1, <4>3
      <4>5. QED
        BY <2>8, <4>4 DEF ToSet
    <3>3. QED
      BY <3>1, <3>2
  <2>11. QED
    BY <2>8, <2>9, <2>10 DEF t
<1>3. QED
  BY <1>1, <1>2

\* The length of a list without duplicates is the number of its elements.
LEMMA LengthIsCount ==
  ASSUME NEW S, NEW s \in Seq(S), Distinct(s)
  PROVE  Len(s) = Cardinality(ToSet(s)) /\ IsFiniteSet(ToSet(s))
<1> DEFINE D == 1..Len(s)
           f == [i \in D |-> s[i]]
<1>1. Len(s) \in Nat /\ D = DOMAIN s
  OBVIOUS
<1>2. f \in [D -> ToSet(s)] /\ \A y \in ToSet(s) : \E i \in D : f[i] = y
  BY <1>1 DEF ToSet
<1>3. \A i, j \in D : f[i] = f[j] => i = j
  BY <1>1 DEF Distinct
<1>4. f \in Surjection(D, ToSet(s))
  BY <1>2 DEF Surjection
<1>5. f \in Injection(D, ToSet(s))
  BY <1>2, <1>3 DEF Injection, IsInjective
<1>6. IsFiniteSet(D) /\ Cardinality(D) = Len(s)
  BY <1>1, FS_Interval
<1> HIDE DEF f, D
<1>7. QED
  BY <1>4, <1>5, <1>6, FS_Surjection

-----------------------------------------------------------------------------
(* What follows of the invariant, and its beginning. *)

LEMMA CountedAreFinite ==
  /\ IsFiniteSet(Background) /\ Cardinality(Background) \in Nat
  /\ \A ss : IsFiniteSet({f \in Functions : state[f] \in ss})
<1>1. Background \subseteq Functions /\ \A ss : {f \in Functions : state[f] \in ss} \subseteq Functions
  BY DEF Background
<1>2. QED
  BY <1>1, OuterAssumption, FS_Subset, FS_CardinalityType

\* The lengths and the counter of VerifyBackgroundTaskCount.
LEMMA InvImpliesTaskCount ==
  ASSUME LazyProofInv
  PROVE  BackgroundTaskCount
<1> DEFINE P == {f \in Functions : state[f] \in {"kPending"}}
           R == {f \in Functions : state[f] \in Running}
           F == {f \in Functions : state[f] \in Finalizable}
<1>1. /\ pending_background_jobs \in Seq(Functions) /\ finalizable_jobs \in Seq(Functions)
      /\ Distinct(pending_background_jobs) /\ Distinct(finalizable_jobs)
  BY DEF LazyProofInv, TypeOK, ListInv
<1>2. ToSet(pending_background_jobs) \subseteq Functions /\ ToSet(finalizable_jobs) \subseteq Functions
  BY <1>1 DEF ToSet
<1>3. ToSet(pending_background_jobs) = P /\ ToSet(finalizable_jobs) = F
  BY <1>2 DEF LazyProofInv, ListInv
<1>4. Len(pending_background_jobs) = Cardinality(P) /\ Len(finalizable_jobs) = Cardinality(F)
  BY <1>1, <1>3, LengthIsCount
<1>5. Background = P \cup R /\ P \cap R = {}
  BY DEF Background, Running
<1>6. IsFiniteSet(P) /\ IsFiniteSet(R) /\ Cardinality(P) \in Nat /\ Cardinality(R) \in Nat
  BY CountedAreFinite, FS_CardinalityType
<1>7. Cardinality(Background) = Cardinality(P) + Cardinality(R)
  <2>1. Cardinality(P \cup R) = Cardinality(P) + Cardinality(R) - Cardinality(P \cap R)
    BY <1>6, FS_Union
  <2> HIDE DEF P, R
  <2>2. QED
    BY <1>5, <1>6, <2>1, FS_EmptySet
<1>8. QED
  BY <1>4, <1>7 DEF BackgroundTaskCount, Count, LazyProofInv, CountInv

LEMMA InvImpliesJobIsWhereItsStateSays ==
  ASSUME LazyProofInv
  PROVE  JobIsWhereItsStateSays
<1> USE OuterAssumption, WorkersAssumption
<1>1. ASSUME NEW f \in Functions
      PROVE  LET owners == {w \in Workers : held[w] = f} IN
             /\ (f \in ToSet(pending_background_jobs)) = (state[f] = "kPending")
             /\ (f \in ToSet(finalizable_jobs)) = (state[f] \in Finalizable)
             /\ (state[f] \in Running) =
                  \E w \in owners : worker[w] \in {"run", "collect"}
             /\ Cardinality(owners) <= 1
             /\ state[f] \in OnMainThread => main_job = f
             /\ state[f] = "kFinalized" =>
                  f \in ToSet(jobs_to_dispose) \/ \E w \in owners : worker[w] = "delete"
  <2> DEFINE owners == {w \in Workers : held[w] = f}
  <2>1. /\ (f \in ToSet(pending_background_jobs)) <=> (state[f] = "kPending")
        /\ (f \in ToSet(finalizable_jobs)) <=> (state[f] \in Finalizable)
        /\ state[f] \in OnMainThread => main_job = f
    BY DEF LazyProofInv, ListInv, MainInv
  <2>2. (state[f] \in Running) <=> \E w \in owners : worker[w] \in {"run", "collect"}
    BY DEF LazyProofInv, WorkerInv, Running
  <2>3. state[f] = "kFinalized" =>
          f \in ToSet(jobs_to_dispose) \/ \E w \in owners : worker[w] = "delete"
    BY DEF LazyProofInv, WorkerInv, ListInv, Running
  <2>4. Cardinality(owners) <= 1
    <3>1. CASE owners = {}
      BY <3>1, FS_EmptySet
    <3>2. CASE owners # {}
      <4>1. PICK w \in owners : TRUE
        BY <3>2
      <4>2. owners = {w}
        BY <4>1 DEF LazyProofInv, WorkerInv
      <4>3. QED
        BY <4>2, FS_Singleton
    <3>3. QED
      BY <3>1, <3>2
  <2>5. /\ (f \in ToSet(pending_background_jobs)) = (state[f] = "kPending")
        /\ (f \in ToSet(finalizable_jobs)) = (state[f] \in Finalizable)
    BY <2>1
  <2>6. (state[f] \in Running) = \E w \in owners : worker[w] \in {"run", "collect"}
    <3> DEFINE q == \E w \in owners : worker[w] \in {"run", "collect"}
    <3>1. q \in BOOLEAN /\ (state[f] \in Running <=> q)
      BY <2>2
    <3> HIDE DEF q
    <3>2. (state[f] \in Running) = q
      BY <3>1
    <3>3. QED
      BY <3>2, Zenon DEF q
  <2>7. QED
    BY <2>1, <2>3, <2>4, <2>5, <2>6, Zenon
<1>2. main = "finish" => state[main_job] = "kFinalizingNow"
  BY DEF LazyProofInv, MainInv
<1>3. main_thread_blocking_on_job # None =>
        main = "blocked" /\ state[main_thread_blocking_on_job] = "kRunning"
  BY DEF LazyProofInv, MainInv
<1>4. QED
  BY <1>1, <1>2, <1>3 DEF JobIsWhereItsStateSays

LEMMA InvImpliesLazyInv ==
  ASSUME LazyProofInv
  PROVE  LazyInv
BY InvImpliesTaskCount, InvImpliesJobIsWhereItsStateSays
   DEF LazyInv, LazyProofInv, IdleInv, AbortInv

\* A new dispatcher has no jobs.
LEMMA InitEstablishes ==
  ASSUME Init
  PROVE  LazyProofInv
<1> USE OuterAssumption, WorkersAssumption DEF Init
<1>1. ToSet(<<>>) = {} /\ Distinct(<<>>) /\ <<>> \in Seq(Functions)
  BY DEF ToSet, Distinct
<1>2. TypeOK
  BY <1>1 DEF TypeOK, States
<1>3. ListInv /\ WorkerInv /\ MainInv
  BY <1>1 DEF ListInv, WorkerInv, MainInv, Finalizable, Running, OnMainThread
<1>4. Background = {}
  BY DEF Background, Running
<1>5. CountInv
  BY <1>4, FS_EmptySet DEF CountInv
<1>6. SlotPointsToLiveJob /\ IdleInv /\ AbortInv
  BY <1>1 DEF SlotPointsToLiveJob, IdleInv, FinalizableIsAnnounced, AbortInv,
              NothingAfterAbortAll
<1>7. QED
  BY <1>2, <1>3, <1>5, <1>6 DEF LazyProofInv

-----------------------------------------------------------------------------
(* Steps that move no job. *)

\* Workers start, yield and wait for a collection, with the job that they hold.
LEMMA WorkerControlPreserves ==
  ASSUME LazyProofInv,
         UNCHANGED <<state, functions, lists, num_jobs_for_background,
                     main_thread_blocking_on_job, idle, canceled, mainvars, held>>,
         worker' \in [Workers -> {"out", "loop", "next", "run", "collect", "tidy",
                                  "dispose", "delete"}],
         \A w \in Workers : /\ worker'[w] \in {"run", "collect"} <=> worker[w] \in {"run", "collect"}
                            /\ worker'[w] = "delete" <=> worker[w] = "delete",
         main = "aborted" => UNCHANGED worker
  PROVE  LazyProofInv'
<1> USE DEF functions, lists, idle, mainvars
<1>1. TypeOK'
  BY DEF LazyProofInv, TypeOK
<1>2. ListInv' /\ MainInv' /\ SlotPointsToLiveJob' /\ IdleInv'
  BY DEF LazyProofInv, ListInv, MainInv, SlotPointsToLiveJob, IdleInv, FinalizableIsAnnounced
<1>3. WorkerInv'
  <2>1. \A w \in Workers : worker'[w] \in {"run", "collect", "delete"}
                             <=> worker[w] \in {"run", "collect", "delete"}
    OBVIOUS
  <2>2. QED
    BY <2>1 DEF LazyProofInv, WorkerInv
<1>4. CountInv'
  <2>1. Background' = Background
    BY DEF Background
  <2>2. QED
    BY <2>1 DEF LazyProofInv, CountInv
<1>5. AbortInv'
  BY DEF LazyProofInv, AbortInv, NothingAfterAbortAll, Active
<1>6. QED
  BY <1>1, <1>2, <1>3, <1>4, <1>5 DEF LazyProofInv

\* The main thread goes on without a job, and the idle task comes and goes.
LEMMA MainControlPreserves ==
  ASSUME LazyProofInv,
         UNCHANGED <<state, functions, lists, num_jobs_for_background,
                     main_thread_blocking_on_job, canceled, main_job, workers>>,
         main \in {"script", "opportunistic", "idle"},
         main' \in {"script", "opportunistic", "idle"},
         idle_task \in BOOLEAN => idle_task' \in BOOLEAN,
         idle_task_scheduled \in BOOLEAN => idle_task_scheduled' \in BOOLEAN,
         (idle_task <=> idle_task_scheduled) => (idle_task' <=> idle_task_scheduled'),
         main' # "idle" /\ IdleTasksEnabled =>
           idle_task' \/ finalizable_jobs = <<>> \/ (main # "idle" /\ ~idle_task)
  PROVE  LazyProofInv'
<1> USE OuterAssumption DEF functions, lists, workers
<1>1. TypeOK'
  BY DEF LazyProofInv, TypeOK
<1>2. ListInv' /\ WorkerInv' /\ SlotPointsToLiveJob'
  BY DEF LazyProofInv, ListInv, WorkerInv, SlotPointsToLiveJob
<1>3. MainInv'
  BY DEF LazyProofInv, MainInv
<1>4. CountInv'
  <2>1. Background' = Background
    BY DEF Background
  <2>2. QED
    BY <2>1 DEF LazyProofInv, CountInv
<1>5. ~canceled /\ AbortInv'
  BY DEF LazyProofInv, AbortInv, NothingAfterAbortAll, Active
<1>6. IdleInv'
  <2>1. ~canceled' => (idle_task' <=> idle_task_scheduled')
    BY <1>5 DEF LazyProofInv, IdleInv
  <2>2. FinalizableIsAnnounced'
    <3>1. CASE finalizable_jobs = <<>>
      BY <3>1 DEF FinalizableIsAnnounced, ToSet
    <3>2. CASE main' = "idle" \/ ~IdleTasksEnabled \/ idle_task'
      BY <3>2 DEF FinalizableIsAnnounced
    <3>3. CASE main # "idle" /\ ~idle_task /\ IdleTasksEnabled
      <4>1. \A f \in ToSet(finalizable_jobs) : FALSE
        BY <1>5, <3>3 DEF LazyProofInv, IdleInv, FinalizableIsAnnounced
      <4>2. QED
        BY <4>1 DEF FinalizableIsAnnounced
    <3>4. QED
      BY <3>1, <3>2, <3>3
  <2>3. QED
    BY <2>1, <2>2 DEF IdleInv
<1>7. QED
  BY <1>1, <1>2, <1>3, <1>4, <1>5, <1>6 DEF LazyProofInv

LEMMA WorkerControlSteps ==
  ASSUME LazyProofInv,
         \/ \E w \in Workers : StartWorker(w) \/ ShouldYield(w) \/ AwaitCollectionBackground(w)
         \/ CollectGarbage
  PROVE  LazyProofInv'
<1>1. worker \in [Workers -> {"out", "loop", "next", "run", "collect", "tidy",
                              "dispose", "delete"}]
  BY DEF LazyProofInv, TypeOK
<1>2. main = "aborted" => canceled /\ \A w \in Workers : worker[w] = "out"
  BY DEF LazyProofInv, AbortInv, NothingAfterAbortAll, Active
<1>3. ASSUME NEW w \in Workers,
             StartWorker(w) \/ ShouldYield(w) \/ AwaitCollectionBackground(w)
      PROVE  LazyProofInv'
  <2>1. PICK s \in {"out", "loop", "next", "run", "collect", "dispose"} :
          /\ worker' = [worker EXCEPT ![w] = s]
          /\ s \in {"run", "collect"} <=> worker[w] \in {"run", "collect"}
          /\ worker[w] # "delete"
          /\ main # "aborted"
    BY <1>1, <1>2, <1>3 DEF StartWorker, ShouldYield, AwaitCollectionBackground
  <2>2. UNCHANGED <<state, functions, lists, num_jobs_for_background,
                    main_thread_blocking_on_job, idle, canceled, mainvars, held>>
    BY <1>3 DEF StartWorker, ShouldYield, AwaitCollectionBackground
  <2>3. worker' \in [Workers -> {"out", "loop", "next", "run", "collect", "tidy",
                                 "dispose", "delete"}]
    BY <1>1, <2>1
  <2>4. \A v \in Workers :
          /\ worker'[v] \in {"run", "collect"} <=> worker[v] \in {"run", "collect"}
          /\ worker'[v] = "delete" <=> worker[v] = "delete"
    BY <1>1, <2>1
  <2>5. QED
    BY <2>1, <2>2, <2>3, <2>4, WorkerControlPreserves
<1>4. CASE CollectGarbage
  <2>1. /\ worker' = [w \in Workers |-> IF worker[w] = "collect" THEN "run" ELSE worker[w]]
        /\ main = "script"
        /\ UNCHANGED <<state, functions, lists, num_jobs_for_background,
                       main_thread_blocking_on_job, idle, canceled, mainvars, held>>
    BY <1>4 DEF CollectGarbage
  <2>2. worker' \in [Workers -> {"out", "loop", "next", "run", "collect", "tidy",
                                 "dispose", "delete"}]
    BY <1>1, <2>1
  <2>3. \A v \in Workers :
          /\ worker'[v] \in {"run", "collect"} <=> worker[v] \in {"run", "collect"}
          /\ worker'[v] = "delete" <=> worker[v] = "delete"
    BY <1>1, <2>1
  <2>4. QED
    BY <2>1, <2>2, <2>3, WorkerControlPreserves
<1>5. QED
  BY <1>3, <1>4

LEMMA MainControlSteps ==
  ASSUME LazyProofInv, EndOpportunistic \/ DoIdleWork \/ IdleWorkDone \/ IdleTimeIsUp
  PROVE  LazyProofInv'
<1>1. UNCHANGED <<state, functions, lists, num_jobs_for_background,
                  main_thread_blocking_on_job, canceled, main_job, workers>>
  BY DEF EndOpportunistic, DoIdleWork, IdleWorkDone, IdleTimeIsUp
<1>2. idle_task \in BOOLEAN /\ idle_task_scheduled \in BOOLEAN
  BY DEF LazyProofInv, TypeOK
<1>3. CASE EndOpportunistic
  <2>1. /\ main = "opportunistic" /\ main' = "script"
        /\ idle_task' = idle_task /\ idle_task_scheduled' = idle_task_scheduled
    BY <1>3 DEF EndOpportunistic, idle
  <2>2. /\ idle_task' \in BOOLEAN /\ idle_task_scheduled' \in BOOLEAN
        /\ (idle_task <=> idle_task_scheduled) => (idle_task' <=> idle_task_scheduled')
        /\ idle_task' \/ finalizable_jobs = <<>> \/ (main # "idle" /\ ~idle_task)
    BY <1>2, <2>1
  <2>3. QED
    BY <1>1, <2>1, <2>2, MainControlPreserves
<1>4. CASE DoIdleWork
  BY <1>1, <1>4, MainControlPreserves DEF DoIdleWork
<1>5. CASE IdleWorkDone
  <2>1. /\ main = "idle" /\ finalizable_jobs = <<>> /\ main' = "script"
        /\ idle_task' = idle_task /\ idle_task_scheduled' = idle_task_scheduled
    BY <1>5 DEF IdleWorkDone, idle
  <2>2. /\ idle_task' \in BOOLEAN /\ idle_task_scheduled' \in BOOLEAN
        /\ (idle_task <=> idle_task_scheduled) => (idle_task' <=> idle_task_scheduled')
        /\ idle_task' \/ finalizable_jobs = <<>> \/ (main # "idle" /\ ~idle_task)
    BY <1>2, <2>1
  <2>3. QED
    BY <1>1, <2>1, <2>2, MainControlPreserves
<1>6. CASE IdleTimeIsUp
  <2>1. /\ main = "idle" /\ main' = "script"
        /\ idle_task' \in BOOLEAN /\ idle_task_scheduled' \in BOOLEAN
        /\ (idle_task <=> idle_task_scheduled) => (idle_task' <=> idle_task_scheduled')
    BY <1>2, <1>6 DEF IdleTimeIsUp, ScheduleIdleTaskFromAnyThread, idle
  <2>2. ~canceled /\ (idle_task <=> idle_task_scheduled)
    BY <2>1 DEF LazyProofInv, AbortInv, IdleInv
  <2>3. IdleTasksEnabled => idle_task'
    BY <1>2, <1>6, <2>2 DEF IdleTimeIsUp, ScheduleIdleTaskFromAnyThread, idle
  <2>4. QED
    BY <1>1, <2>1, <2>3, MainControlPreserves
<1>7. QED
  BY <1>3, <1>4, <1>5, <1>6

-----------------------------------------------------------------------------
(* The jobs for the background. *)

\* One job more or less for the workers.
LEMMA BackgroundCount ==
  ASSUME NEW f
  PROVE  /\ f \notin Background => Cardinality(Background \cup {f}) = Cardinality(Background) + 1
         /\ f \in Background => /\ Cardinality(Background \ {f}) = Cardinality(Background) - 1
                                /\ Cardinality(Background) >= 1
<1>1. f \notin Background => Cardinality(Background \cup {f}) = Cardinality(Background) + 1
  BY CountedAreFinite, FS_AddElement
<1>2. SUFFICES ASSUME f \in Background
               PROVE  /\ Cardinality(Background \ {f}) = Cardinality(Background) - 1
                      /\ Cardinality(Background) >= 1
  BY <1>1
<1>3. Cardinality(Background \ {f}) = Cardinality(Background) - 1 /\ IsFiniteSet(Background \ {f})
  BY <1>2, CountedAreFinite, FS_RemoveElement
<1>4. Cardinality(Background \ {f}) \in Nat
  BY <1>3, FS_CardinalityType
<1>5. QED
  BY <1>3, <1>4, CountedAreFinite

\* A new job is pending; whoever enqueues keeps AbortAll from having returned.
LEMMA EnqueuePreserves ==
  ASSUME LazyProofInv, NEW f \in Functions, Enqueue(f)
  PROVE  LazyProofInv'
<1> USE OuterAssumption
<1>1. /\ state[f] = "none" /\ state' = [state EXCEPT ![f] = "kPending"]
      /\ slot' = [slot EXCEPT ![f] = TRUE]
      /\ pending_background_jobs' = Append(pending_background_jobs, f)
      /\ num_jobs_for_background' = num_jobs_for_background + 1
      /\ UNCHANGED <<compiled, finalizable_jobs, jobs_to_dispose,
                     main_thread_blocking_on_job, idle, canceled, mainvars, workers>>
  BY DEF Enqueue
<1>2. main # "aborted"
  BY DEF Enqueue, CompilesOuterOf, LazyProofInv, AbortInv, NothingAfterAbortAll, Active
<1> USE DEF idle, mainvars, workers
<1>3. /\ state \in [Functions -> States] /\ slot \in [Functions -> BOOLEAN]
      /\ num_jobs_for_background \in Nat
      /\ pending_background_jobs \in Seq(Functions) /\ Distinct(pending_background_jobs)
  BY DEF LazyProofInv, TypeOK, ListInv
<1>4. state'[f] = "kPending" /\ \A g \in Functions \ {f} : state'[g] = state[g]
  BY <1>1, <1>3
<1>5. /\ pending_background_jobs' \in Seq(Functions) /\ Distinct(pending_background_jobs')
      /\ ToSet(pending_background_jobs') = ToSet(pending_background_jobs) \cup {f}
  <2>1. f \notin ToSet(pending_background_jobs)
    BY <1>1 DEF LazyProofInv, ListInv
  <2>2. QED
    BY <1>1, <1>3, <2>1, AppendFacts
<1>6. TypeOK'
  <2>1. state' \in [Functions -> States] /\ slot' \in [Functions -> BOOLEAN]
    BY <1>1, <1>3 DEF States
  <2>2. QED
    BY <1>1, <1>3, <1>5, <2>1 DEF LazyProofInv, TypeOK
<1>7. ListInv'
  BY <1>1, <1>4, <1>5 DEF LazyProofInv, ListInv, Finalizable
<1>8. WorkerInv'
  BY <1>1, <1>4 DEF LazyProofInv, WorkerInv, Running, TypeOK
<1>9. MainInv'
  BY <1>1, <1>4 DEF LazyProofInv, MainInv, OnMainThread, TypeOK
<1>10. CountInv'
  <2>1. Background' = Background \cup {f} /\ f \notin Background
    BY <1>1, <1>4 DEF Background, Running
  <2>2. Cardinality(Background') = Cardinality(Background) + 1
    BY <2>1, BackgroundCount
  <2>3. QED
    BY <1>1, <2>2, CountedAreFinite DEF LazyProofInv, CountInv
<1>11. SlotPointsToLiveJob'
  <2>1. slot'[f] = TRUE /\ \A g \in Functions \ {f} : slot'[g] = slot[g]
    BY <1>1, <1>3
  <2>2. QED
    BY <1>4, <2>1 DEF LazyProofInv, SlotPointsToLiveJob
<1>12. IdleInv' /\ AbortInv'
  BY <1>1, <1>2 DEF LazyProofInv, IdleInv, FinalizableIsAnnounced, AbortInv,
                    NothingAfterAbortAll
<1>13. QED
  BY <1>6, <1>7, <1>8, <1>9, <1>10, <1>11, <1>12 DEF LazyProofInv

\* A worker that is in DoBackgroundWork keeps AbortAll from returning.
LEMMA WorkerKeepsDispatcher ==
  ASSUME LazyProofInv, NEW w \in Workers, worker[w] # "out"
  PROVE  main # "aborted"
BY DEF LazyProofInv, AbortInv, NothingAfterAbortAll, Active

\* The newest pending job becomes the job of the worker.
LEMMA TakeJobPreserves ==
  ASSUME LazyProofInv, NEW w \in Workers, TakeJob(w)
  PROVE  LazyProofInv'
<1> USE OuterAssumption
<1> DEFINE f == Last(pending_background_jobs)
<1>1. /\ worker[w] = "next"
      /\ UNCHANGED <<functions, finalizable_jobs, jobs_to_dispose,
                     num_jobs_for_background, main_thread_blocking_on_job, idle,
                     canceled, mainvars>>
  BY DEF TakeJob
<1>2. /\ worker \in [Workers -> {"out", "loop", "next", "run", "collect", "tidy",
                                 "dispose", "delete"}]
      /\ held \in [Workers -> Functions \cup {None}]
      /\ state \in [Functions -> States]
      /\ pending_background_jobs \in Seq(Functions) /\ Distinct(pending_background_jobs)
  BY DEF LazyProofInv, TypeOK, ListInv
<1>3. main # "aborted"
  BY <1>1, WorkerKeepsDispatcher
<1>4. CASE pending_background_jobs = <<>>
  <2>1. worker' = [worker EXCEPT ![w] = "tidy"] /\ UNCHANGED <<state, held, pending_background_jobs>>
    BY <1>4 DEF TakeJob
  <2>2. worker' \in [Workers -> {"out", "loop", "next", "run", "collect", "tidy",
                                 "dispose", "delete"}]
    BY <1>2, <2>1
  <2>3. \A v \in Workers :
          /\ worker'[v] \in {"run", "collect"} <=> worker[v] \in {"run", "collect"}
          /\ worker'[v] = "delete" <=> worker[v] = "delete"
    BY <1>1, <1>2, <2>1
  <2>4. UNCHANGED <<state, functions, lists, num_jobs_for_background,
                    main_thread_blocking_on_job, idle, canceled, mainvars, held>>
    BY <1>1, <2>1 DEF lists
  <2>5. QED
    BY <1>3, <2>2, <2>3, <2>4, WorkerControlPreserves
<1>5. CASE pending_background_jobs # <<>>
  <2>1. /\ worker' = [worker EXCEPT ![w] = "run"]
        /\ held' = [held EXCEPT ![w] = f]
        /\ state' = [state EXCEPT ![f] = "kRunning"]
        /\ pending_background_jobs' = Front(pending_background_jobs)
    BY <1>5 DEF TakeJob
  <2>2. /\ f \in Functions /\ f \in ToSet(pending_background_jobs)
        /\ pending_background_jobs' \in Seq(Functions) /\ Distinct(pending_background_jobs')
        /\ ToSet(pending_background_jobs') = ToSet(pending_background_jobs) \ {f}
    BY <1>2, <1>5, <2>1, FrontFacts
  <2> HIDE DEF f
  <2> USE DEF functions, idle, mainvars
  <2>3. state[f] = "kPending" /\ held[w] = None /\ \A v \in Workers : held[v] # f
    <3>1. state[f] = "kPending" /\ held[w] = None
      BY <1>1, <2>2 DEF LazyProofInv, ListInv, WorkerInv
    <3>2. \A v \in Workers : held[v] = f => state[f] \in Running \cup {"kFinalized"}
      BY <2>2 DEF LazyProofInv, WorkerInv, Running
    <3>3. QED
      BY <3>1, <3>2 DEF Running
  <2>4. state'[f] = "kRunning" /\ \A g \in Functions \ {f} : state'[g] = state[g]
    BY <1>2, <2>1, <2>2
  <2>5. /\ worker'[w] = "run" /\ held'[w] = f
        /\ \A v \in Workers \ {w} : worker'[v] = worker[v] /\ held'[v] = held[v]
    BY <1>2, <2>1
  <2>6. TypeOK'
    <3>1. /\ state' \in [Functions -> States]
          /\ held' \in [Workers -> Functions \cup {None}]
          /\ worker' \in [Workers -> {"out", "loop", "next", "run", "collect", "tidy",
                                      "dispose", "delete"}]
      BY <1>2, <2>1, <2>2 DEF States, Running
    <3>2. QED
      BY <1>1, <2>2, <3>1 DEF LazyProofInv, TypeOK
  <2>7. ListInv'
    <3>1. \A g \in Functions :
            /\ g \in ToSet(pending_background_jobs') <=> state'[g] = "kPending"
            /\ g \in ToSet(finalizable_jobs') <=> state'[g] \in Finalizable
      BY <1>1, <2>2, <2>3, <2>4 DEF LazyProofInv, ListInv, Finalizable
    <3>2. \A g \in Functions : (\A v \in Workers : held'[v] # g) <=>
            g # f /\ \A v \in Workers : held[v] # g
      BY <2>3, <2>5
    <3>3. \A g \in Functions : g \in ToSet(jobs_to_dispose') <=>
            state'[g] = "kFinalized" /\ \A v \in Workers : held'[v] # g
      BY <1>1, <2>3, <2>4, <3>2 DEF LazyProofInv, ListInv
    <3>4. QED
      BY <1>1, <2>2, <3>1, <3>3 DEF LazyProofInv, ListInv
  <2>8. WorkerInv'
    <3>1. \A v \in Workers :
            /\ held'[v] # None <=> worker'[v] \in {"run", "collect", "delete"}
            /\ worker'[v] \in {"run", "collect"} => state'[held'[v]] \in Running
            /\ worker'[v] = "delete" => state'[held'[v]] = "kFinalized"
      BY <1>2, <2>2, <2>3, <2>4, <2>5 DEF LazyProofInv, WorkerInv, Running
    <3>2. \A u, v \in Workers : held'[u] = held'[v] /\ held'[u] # None => u = v
      BY <2>3, <2>5 DEF LazyProofInv, WorkerInv
    <3>3. \A g \in Functions : state'[g] \in Running => \E v \in Workers : held'[v] = g
      BY <2>3, <2>4, <2>5 DEF LazyProofInv, WorkerInv
    <3>4. QED
      BY <3>1, <3>2, <3>3 DEF WorkerInv
  <2>9. MainInv'
    BY <1>1, <2>3, <2>4 DEF LazyProofInv, MainInv, OnMainThread, TypeOK
  <2>10. CountInv'
    <3>1. Background' = Background
      BY <2>3, <2>4 DEF Background, Running
    <3>2. QED
      BY <1>1, <3>1 DEF LazyProofInv, CountInv
  <2>11. SlotPointsToLiveJob'
    BY <1>1, <2>3, <2>4 DEF LazyProofInv, SlotPointsToLiveJob
  <2>12. IdleInv' /\ AbortInv'
    BY <1>1, <1>3 DEF LazyProofInv, IdleInv, FinalizableIsAnnounced, AbortInv,
                      NothingAfterAbortAll
  <2>13. QED
    BY <2>6, <2>7, <2>8, <2>9, <2>10, <2>11, <2>12 DEF LazyProofInv
<1>6. QED
  BY <1>4, <1>5

\* The result goes to the list of finalizable jobs, and either the main thread
\* waits for it or an idle task will come.
LEMMA PublishJobPreserves ==
  ASSUME LazyProofInv, NEW w \in Workers, PublishJob(w)
  PROVE  LazyProofInv'
<1> USE OuterAssumption
<1> DEFINE f == held[w]
<1>1. /\ worker[w] = "run"
      /\ state' = [state EXCEPT ![f] = IF @ = "kRunning" THEN "kReadyToFinalize" ELSE "kAborted"]
      /\ finalizable_jobs' = Append(finalizable_jobs, f)
      /\ num_jobs_for_background' = num_jobs_for_background - 1
      /\ worker' = [worker EXCEPT ![w] = "loop"]
      /\ held' = [held EXCEPT ![w] = None]
      /\ UNCHANGED <<functions, pending_background_jobs, jobs_to_dispose, canceled, mainvars>>
  BY DEF PublishJob
<1>2. IF main_thread_blocking_on_job = f
      THEN main_thread_blocking_on_job' = None /\ UNCHANGED idle
      ELSE ScheduleIdleTaskFromAnyThread /\ UNCHANGED main_thread_blocking_on_job
  BY DEF PublishJob
<1>3. /\ worker \in [Workers -> {"out", "loop", "next", "run", "collect", "tidy",
                                 "dispose", "delete"}]
      /\ held \in [Workers -> Functions \cup {None}]
      /\ state \in [Functions -> States] /\ num_jobs_for_background \in Nat
      /\ finalizable_jobs \in Seq(Functions) /\ Distinct(finalizable_jobs)
      /\ idle_task \in BOOLEAN /\ idle_task_scheduled \in BOOLEAN
      /\ main_thread_blocking_on_job \in Functions \cup {None}
  BY DEF LazyProofInv, TypeOK, ListInv
<1>4. main # "aborted"
  BY <1>1, WorkerKeepsDispatcher
<1>5. /\ f \in Functions /\ state[f] \in Running
      /\ \A v \in Workers \ {w} : held[v] # f
  BY <1>1, <1>3 DEF LazyProofInv, WorkerInv
<1> HIDE DEF f
<1> USE DEF functions, mainvars
<1>6. /\ state'[f] \in Finalizable /\ (state[f] = "kRunning" => state'[f] = "kReadyToFinalize")
      /\ \A g \in Functions \ {f} : state'[g] = state[g]
  BY <1>1, <1>3, <1>5 DEF Finalizable
<1>7. /\ worker'[w] = "loop" /\ held'[w] = None
      /\ \A v \in Workers \ {w} : worker'[v] = worker[v] /\ held'[v] = held[v]
  BY <1>1, <1>3
<1>8. /\ finalizable_jobs' \in Seq(Functions) /\ Distinct(finalizable_jobs')
      /\ ToSet(finalizable_jobs') = ToSet(finalizable_jobs) \cup {f}
  <2>1. f \notin ToSet(finalizable_jobs)
    BY <1>5 DEF LazyProofInv, ListInv, Running, Finalizable
  <2>2. QED
    BY <1>1, <1>3, <1>5, <2>1, AppendFacts
<1>9. Background' = Background \ {f} /\ f \in Background
  BY <1>5, <1>6 DEF Background, Running, Finalizable
<1>10. /\ Cardinality(Background') = Cardinality(Background) - 1
       /\ Cardinality(Background) >= 1
  BY <1>9, BackgroundCount
<1>11. CountInv' /\ num_jobs_for_background' \in Nat
  BY <1>1, <1>10, CountedAreFinite DEF LazyProofInv, CountInv
<1>12. /\ idle_task' \in BOOLEAN /\ idle_task_scheduled' \in BOOLEAN
       /\ (idle_task <=> idle_task_scheduled) => (idle_task' <=> idle_task_scheduled')
       /\ idle_task => idle_task'
       /\ main_thread_blocking_on_job' \in Functions \cup {None}
  BY <1>2, <1>3 DEF ScheduleIdleTaskFromAnyThread, idle
<1>13. TypeOK'
  <2>1. /\ state' \in [Functions -> States]
        /\ held' \in [Workers -> Functions \cup {None}]
        /\ worker' \in [Workers -> {"out", "loop", "next", "run", "collect", "tidy",
                                    "dispose", "delete"}]
    BY <1>1, <1>3 DEF States, Finalizable
  <2>2. QED
    BY <1>1, <1>8, <1>11, <1>12, <2>1 DEF LazyProofInv, TypeOK
<1>14. ListInv'
  <2>1. \A g \in Functions :
          /\ g \in ToSet(pending_background_jobs') <=> state'[g] = "kPending"
          /\ g \in ToSet(finalizable_jobs') <=> state'[g] \in Finalizable
    BY <1>1, <1>5, <1>6, <1>8 DEF LazyProofInv, ListInv, Finalizable, Running
  <2>2. \A g \in Functions \ {f} : (\A v \in Workers : held'[v] # g) <=>
          \A v \in Workers : held[v] # g
    BY <1>7 DEF f
  <2>3. \A g \in Functions : g \in ToSet(jobs_to_dispose') <=>
          state'[g] = "kFinalized" /\ \A v \in Workers : held'[v] # g
    <3>1. ASSUME NEW g \in Functions \ {f}
          PROVE  g \in ToSet(jobs_to_dispose') <=>
                   state'[g] = "kFinalized" /\ \A v \in Workers : held'[v] # g
      BY <1>1, <1>6, <2>2 DEF LazyProofInv, ListInv
    <3>2. f \notin ToSet(jobs_to_dispose') /\ state'[f] # "kFinalized"
      BY <1>1, <1>5, <1>6 DEF LazyProofInv, ListInv, Running, Finalizable
    <3>3. QED
      BY <3>1, <3>2
  <2>4. QED
    BY <1>1, <1>8, <2>1, <2>3 DEF LazyProofInv, ListInv
<1>15. WorkerInv'
  <2>1. \A v \in Workers :
          /\ held'[v] # None <=> worker'[v] \in {"run", "collect", "delete"}
          /\ worker'[v] \in {"run", "collect"} => state'[held'[v]] \in Running
          /\ worker'[v] = "delete" => state'[held'[v]] = "kFinalized"
    BY <1>3, <1>5, <1>6, <1>7 DEF LazyProofInv, WorkerInv
  <2>2. \A u, v \in Workers : held'[u] = held'[v] /\ held'[u] # None => u = v
    BY <1>7 DEF LazyProofInv, WorkerInv
  <2>3. \A g \in Functions : state'[g] \in Running => \E v \in Workers : held'[v] = g
    <3>1. state'[f] \notin Running
      BY <1>6 DEF Running, Finalizable
    <3>2. \A g \in Functions \ {f} : \A v \in Workers : held[v] = g => held'[v] = g
      BY <1>7 DEF f
    <3>3. QED
      BY <1>6, <3>1, <3>2 DEF LazyProofInv, WorkerInv
  <2>4. QED
    BY <2>1, <2>2, <2>3 DEF WorkerInv
<1>16. MainInv'
  <2>1. CASE main_thread_blocking_on_job = f
    <3>1. main = "blocked" /\ main_job = f /\ state[f] = "kRunning" /\ main_thread_blocking_on_job' = None
      BY <1>2, <1>5, <2>1 DEF LazyProofInv, MainInv
    <3>2. QED
      BY <1>1, <1>6, <3>1 DEF LazyProofInv, MainInv, OnMainThread, Finalizable
  <2>2. CASE main_thread_blocking_on_job # f
    <3>1. main_thread_blocking_on_job' = main_thread_blocking_on_job
      BY <1>2, <2>2
    <3>2. main_job # None => main_job # f
      BY <1>5, <2>2 DEF LazyProofInv, MainInv, Running
    <3>3. QED
      BY <1>1, <1>6, <3>1, <3>2 DEF LazyProofInv, MainInv, TypeOK, OnMainThread, Finalizable
  <2>3. QED
    BY <2>1, <2>2
<1>17. SlotPointsToLiveJob'
  BY <1>1, <1>5, <1>6 DEF LazyProofInv, SlotPointsToLiveJob, Running, Finalizable
<1>18. IdleInv'
  <2>1. ~canceled' => (idle_task' <=> idle_task_scheduled')
    BY <1>1, <1>12 DEF LazyProofInv, IdleInv
  <2>2. CASE main_thread_blocking_on_job = f
    <3>1. main = "blocked" /\ main_job = f /\ main_thread_blocking_on_job' = None
      BY <1>2, <1>5, <2>2 DEF LazyProofInv, MainInv
    <3>2. FinalizableIsAnnounced'
      BY <1>1, <1>5, <1>8, <1>12, <2>2, <3>1 DEF LazyProofInv, IdleInv, FinalizableIsAnnounced
    <3>3. QED
      BY <2>1, <3>2 DEF IdleInv
  <2>3. CASE main_thread_blocking_on_job # f
    <3>1. IdleTasksEnabled /\ ~canceled => idle_task'
      BY <1>2, <1>3, <2>3 DEF LazyProofInv, IdleInv, ScheduleIdleTaskFromAnyThread, idle
    <3>2. FinalizableIsAnnounced'
      BY <1>1, <3>1 DEF FinalizableIsAnnounced
    <3>3. QED
      BY <2>1, <3>2 DEF IdleInv
  <2>4. QED
    BY <2>2, <2>3
<1>19. AbortInv'
  BY <1>1, <1>4 DEF LazyProofInv, AbortInv, NothingAfterAbortAll
<1>20. QED
  BY <1>11, <1>13, <1>14, <1>15, <1>16, <1>17, <1>18, <1>19 DEF LazyProofInv

\* The last of the jobs to dispose of becomes the job of the worker.
LEMMA TakeDisposalPreserves ==
  ASSUME LazyProofInv, NEW w \in Workers, TakeDisposal(w)
  PROVE  LazyProofInv'
<1> USE OuterAssumption
<1> DEFINE f == Last(jobs_to_dispose)
<1>1. /\ worker[w] = "dispose"
      /\ UNCHANGED <<state, functions, pending_background_jobs, finalizable_jobs,
                     main_thread_blocking_on_job, idle, canceled, mainvars>>
  BY DEF TakeDisposal
<1>2. /\ worker \in [Workers -> {"out", "loop", "next", "run", "collect", "tidy",
                                 "dispose", "delete"}]
      /\ held \in [Workers -> Functions \cup {None}]
      /\ jobs_to_dispose \in Seq(Functions) /\ Distinct(jobs_to_dispose)
      /\ num_jobs_for_background \in Nat
  BY DEF LazyProofInv, TypeOK, ListInv
<1>3. main # "aborted"
  BY <1>1, WorkerKeepsDispatcher
<1>4. CASE jobs_to_dispose = <<>>
  <2>1. /\ worker' = [worker EXCEPT ![w] = "out"]
        /\ UNCHANGED <<held, jobs_to_dispose, num_jobs_for_background>>
    BY <1>4 DEF TakeDisposal
  <2>2. worker' \in [Workers -> {"out", "loop", "next", "run", "collect", "tidy",
                                 "dispose", "delete"}]
    BY <1>2, <2>1
  <2>3. \A v \in Workers :
          /\ worker'[v] \in {"run", "collect"} <=> worker[v] \in {"run", "collect"}
          /\ worker'[v] = "delete" <=> worker[v] = "delete"
    BY <1>1, <1>2, <2>1
  <2>4. UNCHANGED <<state, functions, lists, num_jobs_for_background,
                    main_thread_blocking_on_job, idle, canceled, mainvars, held>>
    BY <1>1, <2>1 DEF lists
  <2>5. QED
    BY <1>3, <2>2, <2>3, <2>4, WorkerControlPreserves
<1>5. CASE jobs_to_dispose # <<>>
  <2>1. /\ worker' = [worker EXCEPT ![w] = "delete"]
        /\ held' = [held EXCEPT ![w] = f]
        /\ jobs_to_dispose' = Front(jobs_to_dispose)
        /\ num_jobs_for_background' =
             num_jobs_for_background - (IF Len(jobs_to_dispose) = 1 THEN 1 ELSE 0)
    BY <1>5 DEF TakeDisposal
  <2>2. /\ f \in Functions /\ f \in ToSet(jobs_to_dispose)
        /\ jobs_to_dispose' \in Seq(Functions) /\ Distinct(jobs_to_dispose')
        /\ jobs_to_dispose' = <<>> <=> Len(jobs_to_dispose) = 1
        /\ ToSet(jobs_to_dispose') = ToSet(jobs_to_dispose) \ {f}
    BY <1>2, <1>5, <2>1, FrontFacts
  <2> HIDE DEF f
  <2> USE DEF functions, idle, mainvars
  <2>3. state[f] = "kFinalized" /\ held[w] = None /\ \A v \in Workers : held[v] # f
    BY <1>1, <2>2 DEF LazyProofInv, ListInv, WorkerInv
  <2>4. /\ worker'[w] = "delete" /\ held'[w] = f
        /\ \A v \in Workers \ {w} : worker'[v] = worker[v] /\ held'[v] = held[v]
    BY <1>2, <2>1
  <2>5. CountInv' /\ num_jobs_for_background' \in Nat
    <3>1. Background' = Background
      BY <1>1 DEF Background
    <3>2. num_jobs_for_background = Cardinality(Background) + 1
      BY <1>5 DEF LazyProofInv, CountInv
    <3>3. num_jobs_for_background' =
            Cardinality(Background) + (IF jobs_to_dispose' = <<>> THEN 0 ELSE 1)
      BY <2>1, <2>2, <3>2, CountedAreFinite
    <3>4. QED
      BY <3>1, <3>3, CountedAreFinite DEF CountInv
  <2>6. TypeOK'
    <3>1. /\ held' \in [Workers -> Functions \cup {None}]
          /\ worker' \in [Workers -> {"out", "loop", "next", "run", "collect", "tidy",
                                      "dispose", "delete"}]
      BY <1>2, <2>1, <2>2
    <3>2. QED
      BY <1>1, <2>2, <2>5, <3>1 DEF LazyProofInv, TypeOK
  <2>7. ListInv'
    <3>1. \A g \in Functions : (\A v \in Workers : held'[v] # g) <=>
            g # f /\ \A v \in Workers : held[v] # g
      BY <2>3, <2>4
    <3>2. \A g \in Functions : g \in ToSet(jobs_to_dispose') <=>
            state'[g] = "kFinalized" /\ \A v \in Workers : held'[v] # g
      BY <1>1, <2>2, <2>3, <3>1 DEF LazyProofInv, ListInv
    <3>3. QED
      BY <1>1, <2>2, <3>2 DEF LazyProofInv, ListInv
  <2>8. WorkerInv'
    <3>1. \A v \in Workers :
            /\ held'[v] # None <=> worker'[v] \in {"run", "collect", "delete"}
            /\ worker'[v] \in {"run", "collect"} => state'[held'[v]] \in Running
            /\ worker'[v] = "delete" => state'[held'[v]] = "kFinalized"
      BY <1>1, <2>2, <2>3, <2>4 DEF LazyProofInv, WorkerInv
    <3>2. \A u, v \in Workers : held'[u] = held'[v] /\ held'[u] # None => u = v
      BY <2>3, <2>4 DEF LazyProofInv, WorkerInv
    <3>3. \A g \in Functions : state'[g] \in Running => \E v \in Workers : held'[v] = g
      BY <1>1, <2>3, <2>4 DEF LazyProofInv, WorkerInv
    <3>4. QED
      BY <3>1, <3>2, <3>3 DEF WorkerInv
  <2>9. MainInv' /\ SlotPointsToLiveJob'
    BY <1>1 DEF LazyProofInv, MainInv, SlotPointsToLiveJob
  <2>10. IdleInv' /\ AbortInv'
    BY <1>1, <1>3 DEF LazyProofInv, IdleInv, FinalizableIsAnnounced, AbortInv,
                      NothingAfterAbortAll
  <2>11. QED
    BY <2>5, <2>6, <2>7, <2>8, <2>9, <2>10 DEF LazyProofInv
<1>6. QED
  BY <1>4, <1>5

\* The finalized job is deleted.
LEMMA DisposeJobPreserves ==
  ASSUME LazyProofInv, NEW w \in Workers, DisposeJob(w)
  PROVE  LazyProofInv'
<1> USE OuterAssumption
<1> DEFINE f == held[w]
<1>1. /\ worker[w] = "delete"
      /\ state' = [state EXCEPT ![f] = "deleted"]
      /\ worker' = [worker EXCEPT ![w] = "tidy"]
      /\ held' = [held EXCEPT ![w] = None]
      /\ UNCHANGED <<functions, lists, num_jobs_for_background,
                     main_thread_blocking_on_job, idle, canceled, mainvars>>
  BY DEF DisposeJob
<1>2. /\ worker \in [Workers -> {"out", "loop", "next", "run", "collect", "tidy",
                                 "dispose", "delete"}]
      /\ held \in [Workers -> Functions \cup {None}]
      /\ state \in [Functions -> States]
  BY DEF LazyProofInv, TypeOK
<1>3. main # "aborted"
  BY <1>1, WorkerKeepsDispatcher
<1>4. f \in Functions /\ state[f] = "kFinalized" /\ \A v \in Workers \ {w} : held[v] # f
  BY <1>1, <1>2 DEF LazyProofInv, WorkerInv
<1>5. f \notin ToSet(jobs_to_dispose)
  BY <1>4 DEF LazyProofInv, ListInv
<1> HIDE DEF f
<1> USE DEF functions, lists, idle, mainvars
<1>6. state'[f] = "deleted" /\ \A g \in Functions \ {f} : state'[g] = state[g]
  BY <1>1, <1>2, <1>4
<1>7. /\ worker'[w] = "tidy" /\ held'[w] = None
      /\ \A v \in Workers \ {w} : worker'[v] = worker[v] /\ held'[v] = held[v]
  BY <1>1, <1>2
<1>8. TypeOK'
  <2>1. /\ state' \in [Functions -> States]
        /\ held' \in [Workers -> Functions \cup {None}]
        /\ worker' \in [Workers -> {"out", "loop", "next", "run", "collect", "tidy",
                                    "dispose", "delete"}]
    BY <1>1, <1>2 DEF States
  <2>2. QED
    BY <1>1, <2>1 DEF LazyProofInv, TypeOK
<1>9. ListInv'
  <2>1. \A g \in Functions :
          /\ g \in ToSet(pending_background_jobs') <=> state'[g] = "kPending"
          /\ g \in ToSet(finalizable_jobs') <=> state'[g] \in Finalizable
    BY <1>1, <1>4, <1>6 DEF LazyProofInv, ListInv, Finalizable
  <2>2. \A g \in Functions \ {f} : (\A v \in Workers : held'[v] # g) <=>
          \A v \in Workers : held[v] # g
    BY <1>7 DEF f
  <2>3. \A g \in Functions : g \in ToSet(jobs_to_dispose') <=>
          state'[g] = "kFinalized" /\ \A v \in Workers : held'[v] # g
    <3>1. ASSUME NEW g \in Functions \ {f}
          PROVE  g \in ToSet(jobs_to_dispose') <=>
                   state'[g] = "kFinalized" /\ \A v \in Workers : held'[v] # g
      BY <1>1, <1>6, <2>2 DEF LazyProofInv, ListInv
    <3>2. QED
      BY <1>1, <1>5, <1>6, <3>1
  <2>4. QED
    BY <1>1, <2>1, <2>3 DEF LazyProofInv, ListInv
<1>10. WorkerInv'
  <2>1. \A v \in Workers :
          /\ held'[v] # None <=> worker'[v] \in {"run", "collect", "delete"}
          /\ worker'[v] \in {"run", "collect"} => state'[held'[v]] \in Running
          /\ worker'[v] = "delete" => state'[held'[v]] = "kFinalized"
    BY <1>2, <1>4, <1>6, <1>7 DEF LazyProofInv, WorkerInv
  <2>2. \A u, v \in Workers : held'[u] = held'[v] /\ held'[u] # None => u = v
    BY <1>7 DEF LazyProofInv, WorkerInv
  <2>3. \A g \in Functions : state'[g] \in Running => \E v \in Workers : held'[v] = g
    <3>1. state'[f] \notin Running
      BY <1>6 DEF Running
    <3>2. \A g \in Functions \ {f} : \A v \in Workers : held[v] = g => held'[v] = g
      BY <1>7 DEF f
    <3>3. QED
      BY <1>6, <3>1, <3>2 DEF LazyProofInv, WorkerInv
  <2>4. QED
    BY <2>1, <2>2, <2>3 DEF WorkerInv
<1>11. MainInv'
  BY <1>1, <1>4, <1>6 DEF LazyProofInv, MainInv, OnMainThread, TypeOK
<1>12. CountInv'
  <2>1. Background' = Background
    BY <1>4, <1>6 DEF Background, Running
  <2>2. QED
    BY <1>1, <2>1 DEF LazyProofInv, CountInv
<1>13. SlotPointsToLiveJob'
  BY <1>1, <1>4, <1>6 DEF LazyProofInv, SlotPointsToLiveJob
<1>14. IdleInv' /\ AbortInv'
  BY <1>1, <1>3 DEF LazyProofInv, IdleInv, FinalizableIsAnnounced, AbortInv,
                    NothingAfterAbortAll
<1>15. QED
  BY <1>8, <1>9, <1>10, <1>11, <1>12, <1>13, <1>14 DEF LazyProofInv

-----------------------------------------------------------------------------
(* The main thread takes a job, works on it and gives it back. *)

\* A job that is not running comes to the main thread, from one of the lists or
\* as it is.
LEMMA MainTakesJob ==
  ASSUME LazyProofInv, NEW f \in Functions, NEW s \in OnMainThread,
         main_thread_blocking_on_job = None, main \notin {"abort", "aborted"},
         main \in {"blocked", "foreground", "finish", "finish_other", "idle_finish"} =>
           main_job = f,
         state[f] \in {"kPending", "kPendingToRunOnForeground"} \cup Finalizable,
         state' = [state EXCEPT ![f] = s],
         main_job' = f,
         \/ main' = "foreground" /\ s = "kPendingToRunOnForeground"
         \/ main' = "finish" /\ s = "kFinalizingNow"
         \/ main' \in {"finish_other", "idle_finish"} /\ s \in {"kFinalizingNow", "kAbortingNow"},
         pending_background_jobs' \in Seq(Functions), Distinct(pending_background_jobs'),
         ToSet(pending_background_jobs') = ToSet(pending_background_jobs) \ {f},
         finalizable_jobs' \in Seq(Functions), Distinct(finalizable_jobs'),
         ToSet(finalizable_jobs') = ToSet(finalizable_jobs) \ {f},
         num_jobs_for_background' =
           num_jobs_for_background - (IF state[f] = "kPending" THEN 1 ELSE 0),
         main \in {"idle", "idle_finish"} => main' = "idle_finish",
         UNCHANGED <<functions, jobs_to_dispose, main_thread_blocking_on_job, idle, canceled,
                     workers>>
  PROVE  LazyProofInv'
<1> USE OuterAssumption DEF functions, idle, workers
<1>1. state \in [Functions -> States] /\ num_jobs_for_background \in Nat
  BY DEF LazyProofInv, TypeOK
<1>2. state'[f] = s /\ \A g \in Functions \ {f} : state'[g] = state[g]
  BY <1>1
<1>3. s \notin {"none", "kPending", "kFinalized", "deleted"} \cup Running \cup Finalizable
      /\ s \in States
  BY DEF OnMainThread, Running, Finalizable, States
<1>4. state[f] \notin Running \cup {"none", "kFinalized", "deleted"}
  BY DEF Running, Finalizable
<1>5. CountInv' /\ num_jobs_for_background' \in Nat
  <2>1. CASE state[f] = "kPending"
    <3>1. Background' = Background \ {f} /\ f \in Background
      BY <1>2, <1>3, <2>1 DEF Background
    <3>2. /\ Cardinality(Background') = Cardinality(Background) - 1
          /\ Cardinality(Background) >= 1
      BY <3>1, BackgroundCount
    <3>3. QED
      BY <2>1, <3>2, CountedAreFinite DEF LazyProofInv, CountInv
  <2>2. CASE state[f] # "kPending"
    <3>1. Background' = Background
      BY <1>2, <1>3, <1>4, <2>2 DEF Background
    <3>2. QED
      BY <1>1, <2>2, <3>1, CountedAreFinite DEF LazyProofInv, CountInv
  <2>3. QED
    BY <2>1, <2>2
<1>6. TypeOK'
  <2>1. state' \in [Functions -> States]
    BY <1>1, <1>3
  <2>2. main' \in {"foreground", "finish", "finish_other", "idle_finish"}
    OBVIOUS
  <2>3. QED
    BY <1>5, <2>1, <2>2 DEF LazyProofInv, TypeOK
<1>7. ListInv'
  <2>1. \A g \in Functions :
          /\ g \in ToSet(pending_background_jobs') <=> state'[g] = "kPending"
          /\ g \in ToSet(finalizable_jobs') <=> state'[g] \in Finalizable
    BY <1>2, <1>3 DEF LazyProofInv, ListInv
  <2>2. \A g \in Functions : g \in ToSet(jobs_to_dispose') <=>
          state'[g] = "kFinalized" /\ \A w \in Workers : held'[w] # g
    BY <1>2, <1>3, <1>4 DEF LazyProofInv, ListInv
  <2>3. QED
    BY <2>1, <2>2 DEF LazyProofInv, ListInv
<1>8. \A w \in Workers : held[w] # f
  BY <1>4 DEF LazyProofInv, WorkerInv
<1>9. WorkerInv'
  <2>1. \A v \in Workers :
          /\ held'[v] # None <=> worker'[v] \in {"run", "collect", "delete"}
          /\ worker'[v] \in {"run", "collect"} => state'[held'[v]] \in Running
          /\ worker'[v] = "delete" => state'[held'[v]] = "kFinalized"
    BY <1>2, <1>8 DEF LazyProofInv, WorkerInv, TypeOK
  <2>2. \A g \in Functions : state'[g] \in Running => \E v \in Workers : held'[v] = g
    BY <1>2, <1>3 DEF LazyProofInv, WorkerInv
  <2>3. QED
    BY <2>1, <2>2 DEF LazyProofInv, WorkerInv
<1>10. MainInv'
  <2>1. \A g \in Functions : state'[g] \in OnMainThread => g = f
    BY <1>2 DEF LazyProofInv, MainInv
  <2>2. QED
    BY <1>2, <2>1 DEF MainInv
<1>11. SlotPointsToLiveJob'
  BY <1>2, <1>3, <1>4 DEF LazyProofInv, SlotPointsToLiveJob
<1>12. IdleInv'
  <2>1. FinalizableIsAnnounced'
    <3>1. SUFFICES ASSUME NEW g \in ToSet(finalizable_jobs) \ {f}
                   PROVE  \/ ~IdleTasksEnabled \/ canceled
                          \/ idle_task \/ main' \in {"idle", "idle_finish"}
      BY DEF FinalizableIsAnnounced
    <3>2. \/ ~IdleTasksEnabled \/ canceled
          \/ idle_task \/ main \in {"idle", "idle_finish"}
          \/ main = "blocked" /\ main_job = g /\ main_thread_blocking_on_job = None
      BY <3>1 DEF LazyProofInv, IdleInv, FinalizableIsAnnounced
    <3>3. QED
      BY <3>1, <3>2
  <2>2. QED
    BY <2>1 DEF LazyProofInv, IdleInv
<1>13. AbortInv'
  BY DEF LazyProofInv, AbortInv, NothingAfterAbortAll
<1>14. QED
  BY <1>5, <1>6, <1>7, <1>9, <1>10, <1>11, <1>12, <1>13 DEF LazyProofInv

\* FinishNow waits for a running job, or takes the job.
LEMMA FinishNowPreserves ==
  ASSUME LazyProofInv, NEW f \in Functions, FinishNow(f)
  PROVE  LazyProofInv'
<1> USE OuterAssumption
<1>1. /\ main = "script" /\ slot[f] /\ state[f] \notin {"kAbortRequested", "kAborted"}
      /\ main_job' = f /\ UNCHANGED <<functions, idle, canceled, workers>>
  BY DEF FinishNow
<1>2. /\ state \in [Functions -> States] /\ slot \in [Functions -> BOOLEAN]
      /\ pending_background_jobs \in Seq(Functions) /\ Distinct(pending_background_jobs)
      /\ finalizable_jobs \in Seq(Functions) /\ Distinct(finalizable_jobs)
      /\ num_jobs_for_background \in Nat
  BY DEF LazyProofInv, TypeOK, ListInv
<1>3. main_thread_blocking_on_job = None /\ main_job = None
  BY <1>1 DEF LazyProofInv, MainInv
<1>4. state[f] \in {"kPending", "kRunning", "kReadyToFinalize"}
  <2>1. state[f] \notin {"none", "kFinalized", "deleted"}
    BY <1>1 DEF LazyProofInv, SlotPointsToLiveJob
  <2>2. state[f] \notin OnMainThread
    BY <1>1 DEF LazyProofInv, MainInv
  <2>3. QED
    BY <1>1, <1>2, <2>1, <2>2 DEF States, Running, Finalizable
<1>5. CASE state[f] = "kRunning"
  <2>1. /\ main' = "blocked" /\ main_thread_blocking_on_job' = f
        /\ UNCHANGED <<state, lists, num_jobs_for_background>>
    BY <1>5 DEF FinishNow, Running
  <2> USE DEF functions, idle, workers, lists
  <2>2. TypeOK'
    BY <1>1, <2>1 DEF LazyProofInv, TypeOK
  <2>3. ListInv' /\ WorkerInv' /\ SlotPointsToLiveJob'
    BY <1>1, <2>1 DEF LazyProofInv, ListInv, WorkerInv, SlotPointsToLiveJob
  <2>4. MainInv'
    BY <1>1, <1>5, <2>1 DEF LazyProofInv, MainInv
  <2>5. CountInv'
    <3>1. Background' = Background
      BY <2>1 DEF Background
    <3>2. QED
      BY <2>1, <3>1 DEF LazyProofInv, CountInv
  <2>6. IdleInv' /\ AbortInv'
    BY <1>1, <2>1 DEF LazyProofInv, IdleInv, FinalizableIsAnnounced, AbortInv,
                      NothingAfterAbortAll
  <2>7. QED
    BY <2>2, <2>3, <2>4, <2>5, <2>6 DEF LazyProofInv
<1>6. CASE state[f] = "kPending"
  <2>1. /\ main' = "foreground"
        /\ state' = [state EXCEPT ![f] = "kPendingToRunOnForeground"]
        /\ pending_background_jobs' = Without(pending_background_jobs, f)
        /\ num_jobs_for_background' = num_jobs_for_background - 1
        /\ UNCHANGED <<finalizable_jobs, jobs_to_dispose, main_thread_blocking_on_job>>
    BY <1>6 DEF FinishNow, Running
  <2>2. /\ pending_background_jobs' \in Seq(Functions) /\ Distinct(pending_background_jobs')
        /\ ToSet(pending_background_jobs') = ToSet(pending_background_jobs) \ {f}
    BY <1>2, <2>1, WithoutFacts
  <2>3. /\ finalizable_jobs' \in Seq(Functions) /\ Distinct(finalizable_jobs')
        /\ ToSet(finalizable_jobs') = ToSet(finalizable_jobs) \ {f}
    BY <1>2, <1>6, <2>1 DEF LazyProofInv, ListInv, Finalizable
  <2>4. "kPendingToRunOnForeground" \in OnMainThread
    BY DEF OnMainThread
  <2>5. num_jobs_for_background' =
          num_jobs_for_background - (IF state[f] = "kPending" THEN 1 ELSE 0)
    BY <1>6, <2>1
  <2>6. QED
    BY <1>1, <1>3, <1>6, <2>1, <2>2, <2>3, <2>4, <2>5, MainTakesJob
<1>7. CASE state[f] = "kReadyToFinalize"
  <2>1. /\ main' = "finish"
        /\ state' = [state EXCEPT ![f] = "kFinalizingNow"]
        /\ finalizable_jobs' = Without(finalizable_jobs, f)
        /\ UNCHANGED <<pending_background_jobs, num_jobs_for_background, jobs_to_dispose,
                       main_thread_blocking_on_job>>
    BY <1>7 DEF FinishNow, Running
  <2>2. /\ finalizable_jobs' \in Seq(Functions) /\ Distinct(finalizable_jobs')
        /\ ToSet(finalizable_jobs') = ToSet(finalizable_jobs) \ {f}
    BY <1>2, <2>1, WithoutFacts
  <2>3. /\ pending_background_jobs' \in Seq(Functions) /\ Distinct(pending_background_jobs')
        /\ ToSet(pending_background_jobs') = ToSet(pending_background_jobs) \ {f}
    BY <1>2, <1>7, <2>1 DEF LazyProofInv, ListInv
  <2>4. "kFinalizingNow" \in OnMainThread /\ state[f] \in Finalizable
    BY <1>7 DEF OnMainThread, Finalizable
  <2>5. num_jobs_for_background' =
          num_jobs_for_background - (IF state[f] = "kPending" THEN 1 ELSE 0)
    BY <1>2, <1>7, <2>1
  <2>6. QED
    BY <1>1, <1>3, <2>1, <2>2, <2>3, <2>4, <2>5, MainTakesJob
<1>8. QED
  BY <1>4, <1>5, <1>6, <1>7

\* The blocked main thread takes the job that was published for it.
LEMMA WaitForJobPreserves ==
  ASSUME LazyProofInv, WaitForJobIfRunningOnBackground
  PROVE  LazyProofInv'
<1> USE OuterAssumption
<1> DEFINE f == main_job
<1>1. /\ main = "blocked" /\ main_thread_blocking_on_job = None
      /\ finalizable_jobs' = Without(finalizable_jobs, f)
      /\ state' = [state EXCEPT ![f] = "kFinalizingNow"]
      /\ main' = "finish" /\ main_job' = f
      /\ UNCHANGED <<functions, pending_background_jobs, jobs_to_dispose,
                     num_jobs_for_background, main_thread_blocking_on_job, idle,
                     canceled, workers>>
  BY DEF WaitForJobIfRunningOnBackground
<1>2. /\ f \in Functions \cup {None} /\ num_jobs_for_background \in Nat
      /\ pending_background_jobs \in Seq(Functions) /\ Distinct(pending_background_jobs)
      /\ finalizable_jobs \in Seq(Functions) /\ Distinct(finalizable_jobs)
  BY DEF LazyProofInv, TypeOK, ListInv
<1>3. f \in Functions /\ state[f] = "kReadyToFinalize"
  BY <1>1, <1>2 DEF LazyProofInv, MainInv
<1> HIDE DEF f
<1>4. /\ finalizable_jobs' \in Seq(Functions) /\ Distinct(finalizable_jobs')
      /\ ToSet(finalizable_jobs') = ToSet(finalizable_jobs) \ {f}
  BY <1>1, <1>2, WithoutFacts
<1>5. /\ pending_background_jobs' \in Seq(Functions) /\ Distinct(pending_background_jobs')
      /\ ToSet(pending_background_jobs') = ToSet(pending_background_jobs) \ {f}
  BY <1>1, <1>2, <1>3 DEF LazyProofInv, ListInv
<1>6. "kFinalizingNow" \in OnMainThread /\ state[f] \in Finalizable /\ main_job = f
  BY <1>3 DEF OnMainThread, Finalizable, f
<1>7. num_jobs_for_background' =
        num_jobs_for_background - (IF state[f] = "kPending" THEN 1 ELSE 0)
  BY <1>1, <1>2, <1>3
<1>8. QED
  BY <1>1, <1>3, <1>4, <1>5, <1>6, <1>7, MainTakesJob

LEMMA RunOnMainThreadPreserves ==
  ASSUME LazyProofInv, RunOnMainThread
  PROVE  LazyProofInv'
<1> USE OuterAssumption
<1> DEFINE f == main_job
<1>1. /\ main = "foreground" /\ main' = "finish" /\ main_job' = f
      /\ state' = [state EXCEPT ![f] = "kFinalizingNow"]
      /\ UNCHANGED <<functions, lists, num_jobs_for_background,
                     main_thread_blocking_on_job, idle, canceled, workers>>
  BY DEF RunOnMainThread
<1>2. /\ f \in Functions \cup {None} /\ num_jobs_for_background \in Nat
      /\ pending_background_jobs \in Seq(Functions) /\ Distinct(pending_background_jobs)
      /\ finalizable_jobs \in Seq(Functions) /\ Distinct(finalizable_jobs)
  BY DEF LazyProofInv, TypeOK, ListInv
<1>3. /\ f \in Functions /\ state[f] = "kPendingToRunOnForeground"
      /\ main_thread_blocking_on_job = None
  BY <1>1, <1>2 DEF LazyProofInv, MainInv
<1>4. main_job = f
  OBVIOUS
<1> HIDE DEF f
<1>5. /\ f \notin ToSet(finalizable_jobs) /\ f \notin ToSet(pending_background_jobs)
      /\ UNCHANGED <<pending_background_jobs, finalizable_jobs, jobs_to_dispose>>
  BY <1>1, <1>3 DEF LazyProofInv, ListInv, Finalizable, lists
<1>6. /\ ToSet(finalizable_jobs') = ToSet(finalizable_jobs) \ {f}
      /\ ToSet(pending_background_jobs') = ToSet(pending_background_jobs) \ {f}
      /\ pending_background_jobs' \in Seq(Functions) /\ Distinct(pending_background_jobs')
      /\ finalizable_jobs' \in Seq(Functions) /\ Distinct(finalizable_jobs')
  BY <1>2, <1>5
<1>7. "kFinalizingNow" \in OnMainThread
  BY DEF OnMainThread
<1>8. num_jobs_for_background' =
        num_jobs_for_background - (IF state[f] = "kPending" THEN 1 ELSE 0)
  BY <1>1, <1>2, <1>3
<1>9. QED
  BY <1>1, <1>3, <1>4, <1>5, <1>6, <1>7, <1>8, MainTakesJob

LEMMA PopSingleFinalizeJobPreserves ==
  ASSUME LazyProofInv, PopSingleFinalizeJob
  PROVE  LazyProofInv'
<1> USE OuterAssumption
<1> DEFINE f == Last(finalizable_jobs)
           s == IF state[f] = "kReadyToFinalize" THEN "kFinalizingNow" ELSE "kAbortingNow"
<1>1. /\ main \in {"opportunistic", "idle"} /\ finalizable_jobs # <<>>
      /\ finalizable_jobs' = Front(finalizable_jobs)
      /\ state' = [state EXCEPT ![f] = s]
      /\ main_job' = f
      /\ main' = IF main = "idle" THEN "idle_finish" ELSE "finish_other"
      /\ UNCHANGED <<functions, pending_background_jobs, jobs_to_dispose,
                     num_jobs_for_background, main_thread_blocking_on_job, idle,
                     canceled, workers>>
  BY DEF PopSingleFinalizeJob
<1>2. /\ num_jobs_for_background \in Nat
      /\ pending_background_jobs \in Seq(Functions) /\ Distinct(pending_background_jobs)
      /\ finalizable_jobs \in Seq(Functions) /\ Distinct(finalizable_jobs)
  BY DEF LazyProofInv, TypeOK, ListInv
<1>3. main_thread_blocking_on_job = None /\ main_job = None
  BY <1>1 DEF LazyProofInv, MainInv
<1>4. /\ f \in Functions /\ f \in ToSet(finalizable_jobs)
      /\ finalizable_jobs' \in Seq(Functions) /\ Distinct(finalizable_jobs')
      /\ ToSet(finalizable_jobs') = ToSet(finalizable_jobs) \ {f}
  BY <1>1, <1>2, FrontFacts
<1>5. s \in OnMainThread /\ s \in {"kFinalizingNow", "kAbortingNow"}
  BY DEF OnMainThread
<1> HIDE DEF f, s
<1>6. state[f] \in Finalizable /\ state[f] # "kPending"
  BY <1>4 DEF LazyProofInv, ListInv, Finalizable
<1>7. /\ pending_background_jobs' \in Seq(Functions) /\ Distinct(pending_background_jobs')
      /\ ToSet(pending_background_jobs') = ToSet(pending_background_jobs) \ {f}
  BY <1>1, <1>2, <1>4, <1>6 DEF LazyProofInv, ListInv
<1>8. num_jobs_for_background' =
        num_jobs_for_background - (IF state[f] = "kPending" THEN 1 ELSE 0)
  BY <1>1, <1>2, <1>6
<1>9. main' \in {"finish_other", "idle_finish"} /\ (main = "idle" => main' = "idle_finish")
  BY <1>1
<1>10. QED
  BY <1>1, <1>3, <1>4, <1>5, <1>6, <1>7, <1>8, <1>9, MainTakesJob

\* A job that no worker has is finished or aborted and waits to be deleted:
\* DeleteJob, by the main thread.
LEMMA JobIsGivenUp ==
  ASSUME LazyProofInv, NEW f \in Functions,
         main \in {"script", "finish", "finish_other", "idle_finish"},
         main \in {"finish", "finish_other", "idle_finish"} => main_job = f,
         state[f] \in {"kPending", "kFinalizingNow", "kAbortingNow"} \cup Finalizable,
         state' = [state EXCEPT ![f] = "kFinalized"],
         slot' = [slot EXCEPT ![f] = FALSE],
         compiled' \in [Functions -> BOOLEAN],
         pending_background_jobs' \in Seq(Functions), Distinct(pending_background_jobs'),
         ToSet(pending_background_jobs') = ToSet(pending_background_jobs) \ {f},
         finalizable_jobs' \in Seq(Functions), Distinct(finalizable_jobs'),
         ToSet(finalizable_jobs') = ToSet(finalizable_jobs) \ {f},
         jobs_to_dispose' = Append(jobs_to_dispose, f),
         num_jobs_for_background' =
           num_jobs_for_background
             - (IF state[f] = "kPending" THEN 1 ELSE 0)
             + (IF jobs_to_dispose = <<>> THEN 1 ELSE 0),
         main_job' = None,
         main' \in {"script", "opportunistic", "idle"},
         main = "idle_finish" => main' = "idle",
         UNCHANGED <<main_thread_blocking_on_job, idle, canceled, workers>>
  PROVE  LazyProofInv'
<1> USE OuterAssumption DEF idle, workers
<1>1. /\ state \in [Functions -> States] /\ num_jobs_for_background \in Nat
      /\ slot \in [Functions -> BOOLEAN] /\ jobs_to_dispose \in Seq(Functions)
  BY DEF LazyProofInv, TypeOK
<1>2. state'[f] = "kFinalized" /\ \A g \in Functions \ {f} : state'[g] = state[g]
  BY <1>1
<1>3. "kFinalized" \notin {"none", "kPending", "deleted"} \cup Running \cup Finalizable \cup OnMainThread
      /\ "kFinalized" \in States
  BY DEF OnMainThread, Running, Finalizable, States
<1>4. state[f] \notin Running \cup {"none", "kFinalized", "deleted"}
  BY DEF Running, Finalizable
<1>5. \A w \in Workers : held[w] # f
  BY <1>4 DEF LazyProofInv, WorkerInv
<1>6. f \notin ToSet(jobs_to_dispose)
  BY <1>4 DEF LazyProofInv, ListInv
<1>7. /\ jobs_to_dispose' \in Seq(Functions) /\ jobs_to_dispose' # <<>>
      /\ ToSet(jobs_to_dispose') = ToSet(jobs_to_dispose) \cup {f}
      /\ Distinct(jobs_to_dispose')
  BY <1>1, <1>6, AppendFacts DEF LazyProofInv, ListInv
<1>8. CountInv' /\ num_jobs_for_background' \in Nat
  <2> DEFINE b == Cardinality(Background)
             d == IF jobs_to_dispose = <<>> THEN 0 ELSE 1
  <2>1. b \in Nat /\ num_jobs_for_background = b + d
    BY CountedAreFinite DEF LazyProofInv, CountInv
  <2>2. CASE state[f] = "kPending"
    <3>1. Background' = Background \ {f} /\ f \in Background
      BY <1>2, <1>3, <2>2 DEF Background
    <3>2. Cardinality(Background') = b - 1 /\ b >= 1
      BY <3>1, BackgroundCount
    <3>3. num_jobs_for_background' = b
      BY <2>1, <2>2
    <3>4. QED
      BY <1>7, <2>1, <3>2, <3>3 DEF CountInv
  <2>3. CASE state[f] # "kPending"
    <3>1. Background' = Background
      BY <1>2, <1>3, <1>4, <2>3 DEF Background
    <3>2. num_jobs_for_background' = b + 1
      BY <2>1, <2>3
    <3>3. QED
      BY <1>7, <2>1, <3>1, <3>2 DEF CountInv
  <2>4. QED
    BY <2>2, <2>3
<1>9. TypeOK'
  <2>1. state' \in [Functions -> States] /\ slot' \in [Functions -> BOOLEAN]
    BY <1>1, <1>3
  <2>2. QED
    BY <1>7, <1>8, <2>1 DEF LazyProofInv, TypeOK
<1>10. ListInv'
  <2>1. \A g \in Functions :
          /\ g \in ToSet(pending_background_jobs') <=> state'[g] = "kPending"
          /\ g \in ToSet(finalizable_jobs') <=> state'[g] \in Finalizable
    BY <1>2, <1>3 DEF LazyProofInv, ListInv
  <2>2. \A g \in Functions : g \in ToSet(jobs_to_dispose') <=>
          state'[g] = "kFinalized" /\ \A w \in Workers : held'[w] # g
    BY <1>2, <1>5, <1>7 DEF LazyProofInv, ListInv
  <2>3. QED
    BY <1>7, <2>1, <2>2 DEF ListInv
<1>11. WorkerInv'
  <2>1. \A v \in Workers :
          /\ held'[v] # None <=> worker'[v] \in {"run", "collect", "delete"}
          /\ worker'[v] \in {"run", "collect"} => state'[held'[v]] \in Running
          /\ worker'[v] = "delete" => state'[held'[v]] = "kFinalized"
    BY <1>2, <1>5 DEF LazyProofInv, WorkerInv, TypeOK
  <2>2. \A g \in Functions : state'[g] \in Running => \E v \in Workers : held'[v] = g
    BY <1>2, <1>3 DEF LazyProofInv, WorkerInv
  <2>3. QED
    BY <2>1, <2>2 DEF LazyProofInv, WorkerInv
<1>12. MainInv'
  <2>1. main_thread_blocking_on_job' = None
    BY DEF LazyProofInv, MainInv
  <2>2. \A g \in Functions : state'[g] \notin OnMainThread
    <3>1. SUFFICES ASSUME NEW g \in Functions, g # f, state[g] \in OnMainThread
                   PROVE  FALSE
      BY <1>2, <1>3
    <3>2. main_job = g /\ main \in {"foreground", "finish", "finish_other", "idle_finish"}
      BY <3>1 DEF LazyProofInv, MainInv
    <3>3. QED
      BY <3>1, <3>2
  <2>3. QED
    BY <2>1, <2>2 DEF MainInv
<1>13. SlotPointsToLiveJob'
  <2>1. slot'[f] = FALSE /\ \A g \in Functions \ {f} : slot'[g] = slot[g]
    BY <1>1
  <2>2. QED
    BY <1>2, <2>1 DEF LazyProofInv, SlotPointsToLiveJob
<1>14. IdleInv'
  <2>1. FinalizableIsAnnounced'
    <3>1. SUFFICES ASSUME NEW g \in ToSet(finalizable_jobs)
                   PROVE  \/ ~IdleTasksEnabled \/ canceled
                          \/ idle_task \/ main' \in {"idle", "idle_finish"}
      BY DEF FinalizableIsAnnounced
    <3>2. \/ ~IdleTasksEnabled \/ canceled
          \/ idle_task \/ main \in {"idle", "idle_finish"} \/ main = "blocked"
      BY <3>1 DEF LazyProofInv, IdleInv, FinalizableIsAnnounced
    <3>3. QED
      BY <3>1, <3>2
  <2>2. QED
    BY <2>1 DEF LazyProofInv, IdleInv
<1>15. AbortInv'
  BY DEF LazyProofInv, AbortInv, NothingAfterAbortAll
<1>16. QED
  BY <1>8, <1>9, <1>10, <1>11, <1>12, <1>13, <1>14, <1>15 DEF LazyProofInv

\* FinalizeSingleJob and FinishNow give the job up when it is finalized.
LEMMA FinalizeJobPreserves ==
  ASSUME LazyProofInv, FinalizeJob
  PROVE  LazyProofInv'
<1> USE OuterAssumption
<1> DEFINE f == main_job
<1>1. /\ main \in {"finish", "finish_other", "idle_finish"}
      /\ slot' = [slot EXCEPT ![f] = FALSE]
      /\ \E success \in BOOLEAN :
           compiled' = [compiled EXCEPT ![f] = success /\ state[f] = "kFinalizingNow"]
      /\ state' = [state EXCEPT ![f] = "kFinalized"]
      /\ jobs_to_dispose' = Append(jobs_to_dispose, f)
      /\ num_jobs_for_background' =
           num_jobs_for_background + (IF jobs_to_dispose = <<>> THEN 1 ELSE 0)
      /\ main' = IF main = "idle_finish" THEN "idle" ELSE "opportunistic"
      /\ main_job' = None
      /\ UNCHANGED <<pending_background_jobs, finalizable_jobs,
                     main_thread_blocking_on_job, idle, canceled, workers>>
  BY DEF FinalizeJob, FinalizeFunction, DeleteJob
<1>2. /\ f \in Functions \cup {None} /\ num_jobs_for_background \in Nat
      /\ compiled \in [Functions -> BOOLEAN]
      /\ pending_background_jobs \in Seq(Functions) /\ Distinct(pending_background_jobs)
      /\ finalizable_jobs \in Seq(Functions) /\ Distinct(finalizable_jobs)
  BY DEF LazyProofInv, TypeOK, ListInv
<1>3. f \in Functions /\ state[f] \in {"kFinalizingNow", "kAbortingNow"}
  BY <1>1, <1>2 DEF LazyProofInv, MainInv
<1>4. main_job = f
  OBVIOUS
<1> HIDE DEF f
<1>5. compiled' \in [Functions -> BOOLEAN]
  BY <1>1, <1>2, <1>3
<1>6. f \notin ToSet(finalizable_jobs) /\ f \notin ToSet(pending_background_jobs)
  BY <1>3 DEF LazyProofInv, ListInv, Finalizable
<1>7. /\ ToSet(finalizable_jobs') = ToSet(finalizable_jobs) \ {f}
      /\ ToSet(pending_background_jobs') = ToSet(pending_background_jobs) \ {f}
      /\ pending_background_jobs' \in Seq(Functions) /\ Distinct(pending_background_jobs')
      /\ finalizable_jobs' \in Seq(Functions) /\ Distinct(finalizable_jobs')
  BY <1>1, <1>2, <1>6
<1>8. num_jobs_for_background' =
        num_jobs_for_background
          - (IF state[f] = "kPending" THEN 1 ELSE 0)
          + (IF jobs_to_dispose = <<>> THEN 1 ELSE 0)
  <2>1. (IF state[f] = "kPending" THEN 1 ELSE 0) = 0
    BY <1>3
  <2>2. QED
    BY <1>1, <1>2, <2>1
<1>9. main' \in {"script", "opportunistic", "idle"} /\ (main = "idle_finish" => main' = "idle")
  BY <1>1
<1>10. QED
  BY <1>1, <1>3, <1>4, <1>5, <1>7, <1>8, <1>9, JobIsGivenUp

\* AbortJob marks a job that runs, and gives up any other.
LEMMA AbortJobPreserves ==
  ASSUME LazyProofInv, NEW f \in Functions, AbortJob(f)
  PROVE  LazyProofInv'
<1> USE OuterAssumption
<1>1. /\ main = "script" /\ slot[f]
      /\ state[f] \in {"kPending", "kRunning", "kReadyToFinalize"}
      /\ UNCHANGED <<compiled, main_thread_blocking_on_job, idle, canceled, mainvars,
                     workers>>
  BY DEF AbortJob
<1>2. /\ state \in [Functions -> States] /\ compiled \in [Functions -> BOOLEAN]
      /\ pending_background_jobs \in Seq(Functions) /\ Distinct(pending_background_jobs)
      /\ finalizable_jobs \in Seq(Functions) /\ Distinct(finalizable_jobs)
  BY DEF LazyProofInv, TypeOK, ListInv
<1>3. main_job = None
  BY <1>1 DEF LazyProofInv, MainInv
<1>4. CASE state[f] = "kRunning"
  <2>1. /\ state' = [state EXCEPT ![f] = "kAbortRequested"]
        /\ UNCHANGED <<slot, lists, num_jobs_for_background>>
    BY <1>4 DEF AbortJob
  <2> USE DEF lists, idle, mainvars, workers
  <2>2. state'[f] = "kAbortRequested" /\ \A g \in Functions \ {f} : state'[g] = state[g]
    BY <1>2, <2>1
  <2>3. TypeOK'
    <3>1. state' \in [Functions -> States]
      BY <1>2, <2>1 DEF States, Running
    <3>2. QED
      BY <1>1, <2>1, <3>1 DEF LazyProofInv, TypeOK
  <2>4. ListInv'
    <3>1. \A g \in Functions :
            /\ state'[g] = "kPending" <=> state[g] = "kPending"
            /\ state'[g] \in Finalizable <=> state[g] \in Finalizable
            /\ state'[g] = "kFinalized" <=> state[g] = "kFinalized"
      BY <1>4, <2>2 DEF Finalizable
    <3>2. QED
      BY <1>1, <2>1, <3>1 DEF LazyProofInv, ListInv
  <2>5. WorkerInv'
    <3>1. \A g \in Functions :
            /\ state'[g] \in Running <=> state[g] \in Running
            /\ state'[g] = "kFinalized" <=> state[g] = "kFinalized"
      BY <1>4, <2>2 DEF Running
    <3>2. \A w \in Workers : held[w] \in Functions \cup {None}
      BY DEF LazyProofInv, TypeOK
    <3>3. QED
      BY <1>1, <3>1, <3>2 DEF LazyProofInv, WorkerInv
  <2>6. MainInv'
    <3>1. \A g \in Functions : state'[g] \in OnMainThread => state[g] \in OnMainThread
      BY <2>2 DEF OnMainThread
    <3>2. QED
      BY <1>1, <3>1 DEF LazyProofInv, MainInv
  <2>7. CountInv'
    <3>1. Background' = Background
      BY <1>4, <2>2 DEF Background, Running
    <3>2. QED
      BY <2>1, <3>1 DEF LazyProofInv, CountInv
  <2>8. SlotPointsToLiveJob'
    BY <1>4, <2>1, <2>2 DEF LazyProofInv, SlotPointsToLiveJob
  <2>9. IdleInv' /\ AbortInv'
    BY <1>1, <2>1 DEF LazyProofInv, IdleInv, FinalizableIsAnnounced, AbortInv,
                      NothingAfterAbortAll
  <2>10. QED
    BY <2>3, <2>4, <2>5, <2>6, <2>7, <2>8, <2>9 DEF LazyProofInv
<1>5. CASE state[f] # "kRunning"
  <2>1. /\ state' = [state EXCEPT ![f] = "kFinalized"]
        /\ slot' = [slot EXCEPT ![f] = FALSE]
        /\ pending_background_jobs' = Without(pending_background_jobs, f)
        /\ finalizable_jobs' = Without(finalizable_jobs, f)
        /\ jobs_to_dispose' = Append(jobs_to_dispose, f)
        /\ num_jobs_for_background' =
             num_jobs_for_background
               - (IF state[f] = "kPending" THEN 1 ELSE 0)
               + (IF jobs_to_dispose = <<>> THEN 1 ELSE 0)
    BY <1>5 DEF AbortJob
  <2>2. /\ pending_background_jobs' \in Seq(Functions) /\ Distinct(pending_background_jobs')
        /\ ToSet(pending_background_jobs') = ToSet(pending_background_jobs) \ {f}
        /\ finalizable_jobs' \in Seq(Functions) /\ Distinct(finalizable_jobs')
        /\ ToSet(finalizable_jobs') = ToSet(finalizable_jobs) \ {f}
    BY <1>2, <2>1, WithoutFacts
  <2>3. state[f] \in {"kPending", "kFinalizingNow", "kAbortingNow"} \cup Finalizable
    BY <1>1, <1>5 DEF Finalizable
  <2>4. /\ main_job' = None /\ main' = "script" /\ compiled' \in [Functions -> BOOLEAN]
        /\ UNCHANGED <<main_thread_blocking_on_job, idle, canceled, workers>>
    BY <1>1, <1>2, <1>3 DEF mainvars
  <2>5. QED
    BY <1>1, <2>1, <2>2, <2>3, <2>4, JobIsGivenUp
<1>6. QED
  BY <1>4, <1>5

-----------------------------------------------------------------------------
(* AbortAll. *)

\* The flag is set and the workers are on their way out.
LEMMA AbortAllPreserves ==
  ASSUME LazyProofInv, AbortAll
  PROVE  LazyProofInv'
<1> USE DEF functions, lists
<1>1. /\ main = "script" /\ main' = "abort" /\ canceled' = TRUE /\ idle_task' = FALSE
      /\ worker' = [w \in Workers |-> IF worker[w] = "collect" THEN "run" ELSE worker[w]]
      /\ UNCHANGED <<state, functions, lists, num_jobs_for_background,
                     main_thread_blocking_on_job, idle_task_scheduled, main_job, held>>
  BY DEF AbortAll
<1>2. worker \in [Workers -> {"out", "loop", "next", "run", "collect", "tidy", "dispose", "delete"}]
  BY DEF LazyProofInv, TypeOK
<1>3. \A w \in Workers :
        /\ worker'[w] \in {"run", "collect"} <=> worker[w] \in {"run", "collect"}
        /\ worker'[w] = "delete" <=> worker[w] = "delete"
  BY <1>1, <1>2
<1>4. worker' \in [Workers -> {"out", "loop", "next", "run", "collect", "tidy", "dispose", "delete"}]
  BY <1>1, <1>2
<1>5. TypeOK'
  BY <1>1, <1>4 DEF LazyProofInv, TypeOK
<1>6. ListInv' /\ SlotPointsToLiveJob'
  BY <1>1 DEF LazyProofInv, ListInv, SlotPointsToLiveJob
<1>7. WorkerInv'
  BY <1>1, <1>3 DEF LazyProofInv, WorkerInv
<1>8. MainInv'
  BY <1>1 DEF LazyProofInv, MainInv
<1>9. CountInv'
  <2>1. Background' = Background
    BY <1>1 DEF Background
  <2>2. QED
    BY <1>1, <2>1 DEF LazyProofInv, CountInv
<1>10. IdleInv' /\ AbortInv'
  BY <1>1 DEF IdleInv, FinalizableIsAnnounced, AbortInv, NothingAfterAbortAll
<1>11. QED
  BY <1>5, <1>6, <1>7, <1>8, <1>9, <1>10 DEF LazyProofInv

\* When the workers are gone every job that is not deleted is on a list.
LEMMA DropAllJobsPreserves ==
  ASSUME LazyProofInv, DropAllJobs
  PROVE  LazyProofInv'
<1> USE OuterAssumption
<1> DEFINE jobs == ToSet(pending_background_jobs) \cup ToSet(finalizable_jobs)
<1>1. /\ main = "abort" /\ Active = {}
      /\ state' = [f \in Functions |->
                     IF f \in jobs \cup ToSet(jobs_to_dispose) THEN "deleted" ELSE state[f]]
      /\ slot' = [f \in Functions |-> slot[f] /\ f \notin jobs]
      /\ pending_background_jobs' = <<>> /\ finalizable_jobs' = <<>>
      /\ jobs_to_dispose' = <<>>
      /\ num_jobs_for_background' = 0
      /\ idle_task' = FALSE
      /\ main' = "aborted"
      /\ UNCHANGED <<compiled, main_thread_blocking_on_job, idle_task_scheduled,
                     canceled, main_job, workers>>
  BY DEF DropAllJobs
<1>2. state \in [Functions -> States] /\ slot \in [Functions -> BOOLEAN]
  BY DEF LazyProofInv, TypeOK
<1>3. \A w \in Workers : worker[w] = "out" /\ held[w] = None
  BY <1>1 DEF LazyProofInv, WorkerInv, Active
<1>4. \A f \in Functions : f \in jobs <=> state[f] \in {"kPending"} \cup Finalizable
  BY DEF LazyProofInv, ListInv
<1>5. \A f \in Functions : f \in ToSet(jobs_to_dispose) <=> state[f] = "kFinalized"
  BY <1>3 DEF LazyProofInv, ListInv
<1>6. \A f \in Functions : state[f] \notin Running
  BY <1>3 DEF LazyProofInv, WorkerInv
<1>7. \A f \in Functions : state[f] \notin OnMainThread
  BY <1>1 DEF LazyProofInv, MainInv
<1>8. \A f \in Functions :
        \/ state[f] \in {"none", "deleted"}
        \/ f \in jobs \cup ToSet(jobs_to_dispose)
  BY <1>2, <1>4, <1>5, <1>6, <1>7 DEF States
<1>9. \A f \in Functions : f \in jobs => slot[f]
  BY <1>4 DEF LazyProofInv, SlotPointsToLiveJob, Finalizable
<1>10. \A f \in Functions : state[f] \in {"none", "kFinalized", "deleted"} => ~slot[f]
  BY DEF LazyProofInv, SlotPointsToLiveJob
<1>11. \A f \in Functions : slot'[f] = FALSE
  <2>1. SUFFICES ASSUME NEW f \in Functions, f \notin jobs PROVE ~slot[f]
    BY <1>1
  <2>2. QED
    BY <1>5, <1>8, <1>10, <2>1
<1> HIDE DEF jobs
<1>12. \A f \in Functions : state'[f] \in {"none", "deleted"}
  BY <1>1, <1>8
<1>13. ToSet(<<>>) = {} /\ Distinct(<<>>)
  BY DEF ToSet, Distinct
<1>14. TypeOK'
  <2>1. state' \in [Functions -> States] /\ slot' \in [Functions -> BOOLEAN]
    BY <1>1, <1>2 DEF States
  <2>2. /\ pending_background_jobs' \in Seq(Functions) /\ finalizable_jobs' \in Seq(Functions)
        /\ jobs_to_dispose' \in Seq(Functions) /\ num_jobs_for_background' \in Nat
    BY <1>1
  <2>3. QED
    BY <1>1, <2>1, <2>2 DEF LazyProofInv, TypeOK, workers
<1>15. ListInv'
  BY <1>1, <1>12, <1>13 DEF ListInv, Finalizable
<1>16. WorkerInv'
  <2>1. \A f \in Functions : state'[f] \notin Running
    BY <1>12 DEF Running
  <2>2. QED
    BY <1>1, <1>3, <2>1 DEF WorkerInv, workers
<1>17. MainInv'
  <2>1. \A f \in Functions : state'[f] \notin OnMainThread
    BY <1>12 DEF OnMainThread
  <2>2. QED
    BY <1>1, <2>1 DEF LazyProofInv, MainInv
<1>18. CountInv'
  <2>1. Background' = {}
    BY <1>12 DEF Background, Running
  <2>2. QED
    BY <1>1, <2>1, FS_EmptySet DEF CountInv
<1>19. SlotPointsToLiveJob'
  BY <1>11, <1>12 DEF SlotPointsToLiveJob
<1>20. IdleInv'
  BY <1>1, <1>13 DEF LazyProofInv, IdleInv, AbortInv, FinalizableIsAnnounced
<1>21. AbortInv'
  <2>1. Active' = {}
    BY <1>1, <1>3 DEF Active, workers
  <2>2. QED
    BY <1>1, <1>12, <2>1 DEF LazyProofInv, AbortInv, NothingAfterAbortAll
<1>22. QED
  BY <1>14, <1>15, <1>16, <1>17, <1>18, <1>19, <1>20, <1>21 DEF LazyProofInv

-----------------------------------------------------------------------------
(* The specification. *)

LEMMA StutterPreserves ==
  ASSUME LazyProofInv, UNCHANGED vars
  PROVE  LazyProofInv'
<1> USE DEF vars, functions, lists, idle, mainvars, workers
<1>1. TypeOK' /\ ListInv' /\ WorkerInv'
  BY DEF LazyProofInv, TypeOK, ListInv, WorkerInv
<1>2. MainInv' /\ SlotPointsToLiveJob'
  BY DEF LazyProofInv, MainInv, SlotPointsToLiveJob
<1>3. CountInv'
  <2>1. Background' = Background
    BY DEF Background
  <2>2. QED
    BY <2>1 DEF LazyProofInv, CountInv
<1>4. IdleInv' /\ AbortInv'
  BY DEF LazyProofInv, IdleInv, FinalizableIsAnnounced, AbortInv, NothingAfterAbortAll, Active
<1>5. QED
  BY <1>1, <1>2, <1>3, <1>4 DEF LazyProofInv

LEMMA NextPreserves ==
  ASSUME LazyProofInv, [Next]_vars
  PROVE  LazyProofInv'
<1>1. ASSUME NEW f \in Functions, Enqueue(f) PROVE LazyProofInv'
  BY <1>1, EnqueuePreserves
<1>2. CASE MainStep
  <2>1. ASSUME NEW f \in Functions, FinishNow(f) \/ AbortJob(f) PROVE LazyProofInv'
    BY <2>1, FinishNowPreserves, AbortJobPreserves
  <2>2. CASE WaitForJobIfRunningOnBackground \/ RunOnMainThread
    BY <2>2, WaitForJobPreserves, RunOnMainThreadPreserves
  <2>3. CASE PopSingleFinalizeJob \/ FinalizeJob
    BY <2>3, PopSingleFinalizeJobPreserves, FinalizeJobPreserves
  <2>4. CASE EndOpportunistic \/ DoIdleWork \/ IdleWorkDone \/ IdleTimeIsUp
    BY <2>4, MainControlSteps
  <2>5. CASE CollectGarbage
    BY <2>5, WorkerControlSteps
  <2>6. CASE AbortAll \/ DropAllJobs
    BY <2>6, AbortAllPreserves, DropAllJobsPreserves
  <2>7. QED
    BY <1>2, <2>1, <2>2, <2>3, <2>4, <2>5, <2>6 DEF MainStep
<1>3. ASSUME NEW w \in Workers, WorkerStep(w) PROVE LazyProofInv'
  <2>1. CASE StartWorker(w) \/ ShouldYield(w) \/ AwaitCollectionBackground(w)
    BY <2>1, WorkerControlSteps
  <2>2. CASE TakeJob(w) \/ PublishJob(w)
    BY <2>2, TakeJobPreserves, PublishJobPreserves
  <2>3. CASE TakeDisposal(w) \/ DisposeJob(w)
    BY <2>3, TakeDisposalPreserves, DisposeJobPreserves
  <2>4. QED
    BY <1>3, <2>1, <2>2, <2>3 DEF WorkerStep
<1>4. CASE UNCHANGED vars
  BY <1>4, StutterPreserves
<1>5. QED
  BY <1>1, <1>2, <1>3, <1>4 DEF Next

\* Whatever Enqueue, FinishNow, AbortJob, AbortAll, the idle tasks and any
\* number of workers do between two critical sections of mutex_: the lengths
\* of the lists and num_jobs_for_background_ are what VerifyBackgroundTaskCount
\* computes from the states of the jobs, every job is with the one list or
\* thread that its state names, a result that waits to be finalized is
\* announced to the main thread, no job slot points to a job that was given
\* up, and AbortAll leaves neither a job nor a worker nor an idle task.
THEOREM LazyCorrect == Spec => []LazyInv
<1>1. Init => LazyProofInv
  BY InitEstablishes
<1>2. LazyProofInv /\ [Next]_vars => LazyProofInv'
  BY NextPreserves
<1>3. LazyProofInv => LazyInv
  BY InvImpliesLazyInv
<1>4. QED
  BY <1>1, <1>2, <1>3, PTL DEF Spec
=============================================================================

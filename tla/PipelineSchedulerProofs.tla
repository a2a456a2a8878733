------------------------ MODULE PipelineSchedulerProofs ------------------------
(***************************************************************************)
(* Proofs about PipelineScheduler: for every pipeline and every limit, a   *)
(* step runs only after everything it waits for has completed, no step has *)
(* two fates, every skip has a failed cause, and the limit is never        *)
(* exceeded -- whatever fails, times out or rejects, and also in the steps *)
(* that go on settling after the run has thrown.                           *)
(***************************************************************************)
EXTENDS PipelineScheduler, FiniteSetTheorems, SequenceTheorems,
        WellFoundedInduction, TLAPS

-----------------------------------------------------------------------------
(* The invariant in terms of the sets the closures of the scheduler see.    *)

Ran(c, f, fly) == c \cup f \cup fly

Coherent(c, f, fly, sk, q) ==
    /\ \A s \in Ran(c, f, fly) \cup Range(q) : Deps(s) \subseteq c
    /\ \A s \in sk : Deps(s) \cap (f \cup sk) # {}
    /\ sk \cap (Ran(c, f, fly) \cup Range(q)) = {}
    /\ c \cap f = {} /\ fly \cap (c \cup f) = {}
    /\ Range(q) \cap Ran(c, f, fly) = {}
    /\ \A i, j \in DOMAIN q : q[i] = q[j] => i = j

\* Every set of steps is finite.
LEMMA StepsFinite ==
  ASSUME NEW S \in SUBSET Step
  PROVE  IsFiniteSet(S) /\ Cardinality(S) \in Nat
<1>1. IsFiniteSet(Step)
  BY NAssumption, FS_Interval DEF Step
<1>. QED
  BY <1>1, FS_Subset, FS_CardinalityType

\* The first k elements of a sequence of steps are at most k steps.
LEMMA PrefixBound ==
  ASSUME NEW q \in Seq(Step), NEW k \in 0 .. Len(q)
  PROVE  Cardinality({q[i] : i \in 1 .. k}) <= k
<1>. DEFINE T == {q[i] : i \in 1 .. k}
            e == [i \in 1 .. k |-> q[i]]
<1>1. IsFiniteSet(1 .. k) /\ Cardinality(1 .. k) = k
  BY FS_Interval
<1>2. e \in Surjection(1 .. k, T)
  BY DEF Surjection
<1>3. Cardinality(T) <= Cardinality(1 .. k)
  BY <1>1, <1>2, FS_Surjection
<1>. QED
  BY <1>1, <1>3

\* A nonempty set of steps has a first step.
LEMMA FirstStep ==
  ASSUME NEW S \in SUBSET Step, S # {}
  PROVE  \E m \in S : \A x \in S : m <= x
<1>1. S \subseteq Nat
  BY NAssumption DEF Step
<1>2. PICK m \in S : \A x \in S : ~ (<<x, m>> \in OpToRel(<, Nat))
  BY <1>1, NatLessThanWellFounded, WFMin
<1>3. \A x \in S : ~(x < m)
  BY <1>1, <1>2 DEF OpToRel
<1>. QED
  BY <1>1, <1>3

\* A position of a sequence with a given property has a first such position.
LEMMA FirstIndex ==
  ASSUME NEW n \in Nat, NEW S \in SUBSET (1 .. n), S # {}
  PROVE  \E m \in S : \A x \in 1 .. n : x < m => x \notin S
<1>1. S \subseteq Nat
  OBVIOUS
<1>2. PICK m \in S : \A x \in S : ~ (<<x, m>> \in OpToRel(<, Nat))
  BY <1>1, NatLessThanWellFounded, WFMin
<1>3. \A x \in S : ~(x < m)
  BY <1>1, <1>2 DEF OpToRel
<1>. QED
  BY <1>3

\* An enumeration of a set of steps is a sequence of its members.
LEMMA InOrderType ==
  ASSUME NEW S \in SUBSET Step, NEW q \in InOrder(S)
  PROVE  q \in Seq(Step) /\ Range(q) \subseteq S
<1>. DEFINE m == Cardinality(S)
<1>1. m \in Nat
  BY StepsFinite
<1>2. q \in [1 .. m -> S]
  BY DEF InOrder
<1>3. q \in Seq(Step)
  BY <1>1, <1>2
<1>. HIDE DEF m
<1>4. Range(q) \subseteq S
  BY <1>2 DEF Range
<1>. QED
  BY <1>3, <1>4

\* A set of steps is enumerated without omission.
LEMMA InOrderOnto ==
  ASSUME NEW S \in SUBSET Step, NEW q \in InOrder(S)
  PROVE  Range(q) = S
<1>. DEFINE m == Cardinality(S)
<1>1. m \in Nat /\ IsFiniteSet(S) /\ IsFiniteSet(1 .. m) /\ Cardinality(1 .. m) = m
  BY StepsFinite, FS_Interval
<1>2. /\ q \in [1 .. m -> S]
      /\ \A i, j \in 1 .. m : i < j => q[i] < q[j]
  BY DEF InOrder
<1>. HIDE DEF m
<1>3. \A i, j \in 1 .. m : q[i] = q[j] => i = j
  <2>. SUFFICES ASSUME NEW i \in 1 .. m, NEW j \in 1 .. m, q[i] = q[j], i # j
                PROVE  FALSE
    OBVIOUS
  <2>1. q[i] \in S /\ q[j] \in S /\ S \subseteq Int
    BY <1>2, NAssumption DEF Step
  <2>2. i < j \/ j < i
    BY <1>1
  <2>3. \A x, y \in Int : x < y => x # y
    OBVIOUS
  <2>4. q[i] < q[j] \/ q[j] < q[i]
    BY <2>2, <1>2
  <2>. QED
    BY <2>1, <2>3, <2>4
<1>4. q \in Injection(1 .. m, S)
  BY <1>2, <1>3 DEF Injection, IsInjective
<1>5. q \in Surjection(1 .. m, S)
  BY <1>1, <1>4, FS_Injection DEF m
<1>. QED
  BY <1>2, <1>5 DEF Surjection, Range

-----------------------------------------------------------------------------
(* markSkippedDueToFailure *)

\* The newly skipped steps have neither run nor become runnable, and each of
\* them waits for a failed or skipped step.
LEMMA SkipLemma ==
  ASSUME NEW c \in SUBSET Step, NEW f \in SUBSET Step, NEW fly \in SUBSET Step,
         TypeOK,
         Coherent(c, f, fly, skippedDueToFailure, readyQueue)
  PROVE  LET new == NewlySkipped(c, f, fly)
         IN  /\ new \in SUBSET Step
             /\ \A s \in new : ~(Deps(s) \subseteq c)
             /\ new \cap (c \cup f) = {}
             /\ \A s \in new : Deps(s) \cap (f \cup skippedDueToFailure \cup new) # {}
<1>. DEFINE new   == NewlySkipped(c, f, fly)
            roots == {s \in Considered(c, f, fly) : DepFailed(s, c, f)}
            open  == {s \in Step \ (c \cup f) : ~(Deps(s) \subseteq c)}
            just  == {s \in new : Deps(s) \cap (f \cup skippedDueToFailure \cup new) # {}}
            Closed(S) == \A t \in Step \ (c \cup f) : Deps(t) \cap S # {} => t \in S
<1>1. /\ new \in SUBSET Step
      /\ \A S \in SUBSET Step : roots \subseteq S /\ Closed(S) => new \subseteq S
      /\ roots \subseteq new
      /\ Closed(new)
  BY DEF NewlySkipped, Cascade, Considered
<1>2. \A s \in roots : /\ s \in Step \ (c \cup f)
                       /\ \E d \in Deps(s) : d \in f \cup skippedDueToFailure
  BY DEF DepFailed, Considered, Deps, Range
<1>3. (f \cup skippedDueToFailure) \cap c = {}
  BY DEF Coherent, Ran
<1>4. roots \subseteq open
  BY <1>2, <1>3
<1>5. Closed(open)
  OBVIOUS
<1>6. new \subseteq open
  BY <1>1, <1>4, <1>5
<1>7. roots \subseteq just
  BY <1>1, <1>2
<1>8. Closed(just)
  BY <1>1
<1>9. new \subseteq just
  BY <1>1, <1>7, <1>8
<1>. QED
  BY <1>1, <1>6, <1>9

-----------------------------------------------------------------------------
(* processReadyQueue *)

Runnable(c, f, fly, q) ==
    /\ q \in Seq(Step)
    /\ \A s \in Range(q) : Deps(s) \subseteq c
    /\ Range(q) \cap (Ran(c, f, fly) \cup skippedDueToFailure) = {}
    /\ \A i, j \in DOMAIN q : q[i] = q[j] => i = j

\* The queue after the newly ready steps have joined it: it names each of its
\* steps once and all of them are runnable.
LEMMA QueueLemma ==
  ASSUME NEW c \in SUBSET Step, NEW f \in SUBSET Step, NEW fly \in SUBSET Step,
         TypeOK,
         Coherent(c, f, fly, skippedDueToFailure, readyQueue),
         NEW batch \in InOrder(NewlyReady(c, f, fly))
  PROVE  Runnable(c, f, fly, readyQueue \o batch)
<1>. DEFINE R == NewlyReady(c, f, fly)
            m == Cardinality(R)
            n == Len(readyQueue)
            queue == readyQueue \o batch
<1>1. R \in SUBSET Step /\ m \in Nat
  BY StepsFinite DEF NewlyReady, Considered
<1>2. /\ batch \in [1 .. m -> R]
      /\ \A i, j \in 1 .. m : i < j => batch[i] < batch[j]
  BY DEF InOrder
<1>3. batch \in Seq(Step) /\ Len(batch) = m
  BY <1>1, <1>2
<1>4. readyQueue \in Seq(Step) /\ n \in Nat
  BY DEF TypeOK
<1>5. /\ queue \in Seq(Step)
      /\ Len(queue) = n + m
      /\ \A i \in 1 .. n : queue[i] = readyQueue[i]
      /\ \A i \in n + 1 .. n + m : queue[i] = batch[i - n]
  <2>1. /\ queue \in Seq(Step)
        /\ Len(queue) = Len(readyQueue) + Len(batch)
        /\ \A i \in 1 .. Len(readyQueue) + Len(batch) :
              queue[i] = IF i <= Len(readyQueue) THEN readyQueue[i]
                         ELSE batch[i - Len(readyQueue)]
    BY <1>3, <1>4, ConcatProperties
  <2>. HIDE DEF queue, m
  <2>. QED
    BY <2>1, <1>3, <1>4, <1>1
<1>. HIDE DEF queue, m, n, R
<1>6. \A i \in 1 .. n : queue[i] \in Range(readyQueue)
  BY <1>4, <1>5 DEF Range, n
<1>7. \A i \in n + 1 .. n + m : queue[i] \in R
  BY <1>1, <1>2, <1>4, <1>5
<1>8. DOMAIN queue = 1 .. n + m
  BY <1>5
<1>9. Range(queue) \subseteq Range(readyQueue) \cup R
  BY <1>1, <1>4, <1>6, <1>7, <1>8 DEF Range
<1>10. /\ R \cap (Ran(c, f, fly) \cup skippedDueToFailure \cup Range(readyQueue)) = {}
       /\ \A s \in R : Deps(s) \subseteq c
  BY DEF NewlyReady, Considered, Ran, R
<1>11. /\ \A s \in Range(queue) : Deps(s) \subseteq c
       /\ Range(queue) \cap (Ran(c, f, fly) \cup skippedDueToFailure) = {}
  BY <1>9, <1>10 DEF Coherent
<1>12. ASSUME NEW i \in 1 .. n + m, NEW j \in 1 .. n + m, i < j, queue[i] = queue[j]
       PROVE  FALSE
  <2>1. CASE j \in 1 .. n
    BY <2>1, <1>12, <1>4, <1>5 DEF Coherent, n
  <2>2. CASE i \in 1 .. n /\ j \in n + 1 .. n + m
    BY <2>2, <1>12, <1>6, <1>7, <1>10
  <2>3. CASE i \in n + 1 .. n + m /\ j \in n + 1 .. n + m
    <3>1. i - n \in 1 .. m /\ j - n \in 1 .. m /\ i - n < j - n
      BY <2>3, <1>12, <1>1, <1>4
    <3>2. batch[i - n] \in Step /\ batch[j - n] \in Step /\ batch[i - n] < batch[j - n]
      BY <3>1, <1>1, <1>2
    <3>. QED
      BY <3>2, <2>3, <1>12, <1>5, NAssumption DEF Step
  <2>. QED
    BY <2>1, <2>2, <2>3, <1>12, <1>1, <1>4
<1>13. \A i, j \in DOMAIN queue : queue[i] = queue[j] => i = j
  <2>. SUFFICES ASSUME NEW i \in 1 .. n + m, NEW j \in 1 .. n + m, queue[i] = queue[j]
                PROVE  i = j
    BY <1>8
  <2>1. i < j \/ j < i \/ i = j
    BY <1>1, <1>4
  <2>. QED
    BY <2>1, <1>12
<1>. QED
  BY <1>5, <1>11, <1>13 DEF queue, Runnable

\* processReadyQueue keeps the sets coherent and stays within the limit.
LEMMA DrainLemma ==
  ASSUME NEW c \in SUBSET Step, NEW f \in SUBSET Step, NEW fly \in SUBSET Step,
         TypeOK,
         Coherent(c, f, fly, skippedDueToFailure, readyQueue),
         Cardinality(fly) <= Concurrency,
         ProcessReadyQueue(c, f, fly)
  PROVE  /\ skippedDueToFailure' \in SUBSET Step
         /\ inFlight' \in SUBSET Step
         /\ readyQueue' \in Seq(Step)
         /\ Coherent(c, f, inFlight', skippedDueToFailure', readyQueue')
         /\ Cardinality(inFlight') <= Concurrency
         /\ fly \subseteq inFlight'
         /\ skippedDueToFailure \subseteq skippedDueToFailure'
<1>. DEFINE new == NewlySkipped(c, f, fly)
<1>1. PICK batch \in InOrder(NewlyReady(c, f, fly)) :
        LET queue == readyQueue \o batch
            free  == Concurrency - Cardinality(fly)
            k     == IF free < Len(queue) THEN free ELSE Len(queue)
        IN  /\ skippedDueToFailure' = skippedDueToFailure \cup new
            /\ inFlight' = fly \cup {queue[i] : i \in 1 .. k}
            /\ readyQueue' = SubSeq(queue, k + 1, Len(queue))
  BY DEF ProcessReadyQueue
<1>. DEFINE queue == readyQueue \o batch
            free  == Concurrency - Cardinality(fly)
            k     == IF free < Len(queue) THEN free ELSE Len(queue)
            starts == {queue[i] : i \in 1 .. k}
<1>4. /\ skippedDueToFailure' = skippedDueToFailure \cup new
      /\ inFlight' = fly \cup starts
      /\ readyQueue' = SubSeq(queue, k + 1, Len(queue))
  BY <1>1
<1>2. /\ queue \in Seq(Step)
      /\ \A s \in Range(queue) : Deps(s) \subseteq c
      /\ Range(queue) \cap (Ran(c, f, fly) \cup skippedDueToFailure) = {}
      /\ \A i, j \in DOMAIN queue : queue[i] = queue[j] => i = j
  <2>1. Runnable(c, f, fly, readyQueue \o batch)
    BY QueueLemma
  <2>. HIDE DEF queue
  <2>2. Runnable(c, f, fly, queue)
    BY <2>1 DEF queue
  <2>. QED
    BY <2>2 DEF Runnable
<1>. HIDE DEF queue
<1>3. /\ new \in SUBSET Step
      /\ \A s \in new : ~(Deps(s) \subseteq c)
      /\ new \cap (c \cup f) = {}
      /\ \A s \in new : Deps(s) \cap (f \cup skippedDueToFailure \cup new) # {}
  BY SkipLemma
<1>. HIDE DEF new
<1>5. Cardinality(fly) \in Nat /\ Concurrency \in Nat
  BY StepsFinite, ConcurrencyAssumption
<1>6. k \in 0 .. Len(queue) /\ k <= free /\ Len(queue) \in Nat
  BY <1>2, <1>5
<1>. HIDE DEF k
<1>7. starts \subseteq Range(queue) /\ starts \in SUBSET Step
  BY <1>2, <1>6 DEF Range
<1>8. /\ readyQueue' \in Seq(Step)
      /\ Len(readyQueue') = Len(queue) - k
      /\ \A i \in 1 .. Len(queue) - k : readyQueue'[i] = queue[k + i]
  <2>1. \A i \in k + 1 .. Len(queue) : queue[i] \in Step
    BY <1>2, <1>6
  <2>. QED
    BY <2>1, <1>4, <1>6, SubSeqProperties
<1>9. DOMAIN readyQueue' = 1 .. Len(queue) - k
  BY <1>8
<1>10. Range(readyQueue') \subseteq Range(queue)
  BY <1>2, <1>6, <1>8, <1>9 DEF Range
<1>11. Range(readyQueue') \cap starts = {}
  <2>. SUFFICES ASSUME NEW i \in 1 .. Len(queue) - k, NEW j \in 1 .. k,
                       queue[k + i] = queue[j]
                PROVE  FALSE
    BY <1>8, <1>9 DEF Range
  <2>. QED
    BY <1>2, <1>6
<1>12. \A i, j \in DOMAIN readyQueue' : readyQueue'[i] = readyQueue'[j] => i = j
  <2>. SUFFICES ASSUME NEW i \in 1 .. Len(queue) - k, NEW j \in 1 .. Len(queue) - k,
                       queue[k + i] = queue[k + j]
                PROVE  i = j
    BY <1>8, <1>9
  <2>. QED
    BY <1>2, <1>6
<1>13. inFlight' \in SUBSET Step /\ skippedDueToFailure' \in SUBSET Step
  BY <1>3, <1>4, <1>7 DEF TypeOK
<1>14. Coherent(c, f, inFlight', skippedDueToFailure', readyQueue')
  <2>1. \A s \in Ran(c, f, inFlight') \cup Range(readyQueue') : Deps(s) \subseteq c
    BY <1>2, <1>4, <1>7, <1>10 DEF Coherent, Ran
  <2>2. \A s \in skippedDueToFailure' : Deps(s) \cap (f \cup skippedDueToFailure') # {}
    BY <1>3, <1>4 DEF Coherent
  <2>3. skippedDueToFailure' \cap (Ran(c, f, inFlight') \cup Range(readyQueue')) = {}
    <3>1. new \cap (Ran(c, f, inFlight') \cup Range(readyQueue')) = {}
      BY <2>1, <1>3
    <3>. QED
      BY <3>1, <1>2, <1>4, <1>7, <1>10 DEF Coherent, Ran
  <2>4. c \cap f = {} /\ inFlight' \cap (c \cup f) = {}
    BY <1>2, <1>4, <1>7 DEF Coherent, Ran
  <2>5. Range(readyQueue') \cap Ran(c, f, inFlight') = {}
    BY <1>2, <1>4, <1>10, <1>11 DEF Ran
  <2>. QED
    BY <2>1, <2>2, <2>3, <2>4, <2>5, <1>12 DEF Coherent
<1>15. Cardinality(inFlight') <= Concurrency
  <2>1. /\ IsFiniteSet(fly) /\ IsFiniteSet(starts) /\ Cardinality(starts) \in Nat
        /\ Cardinality(fly \cap starts) \in Nat
    BY <1>7, StepsFinite
  <2>2. Cardinality(inFlight') =
          Cardinality(fly) + Cardinality(starts) - Cardinality(fly \cap starts)
    BY <2>1, <1>4, FS_Union
  <2>3. Cardinality(starts) <= k
    BY <1>2, <1>6, PrefixBound
  <2>. QED
    BY <2>1, <2>2, <2>3, <1>5, <1>6
<1>. QED
  BY <1>4, <1>8, <1>13, <1>14, <1>15

\* The first k elements of a sequence of distinct steps are k steps.
LEMMA PrefixCount ==
  ASSUME NEW q \in Seq(Step), NEW k \in 0 .. Len(q),
         \A i, j \in DOMAIN q : q[i] = q[j] => i = j
  PROVE  Cardinality({q[i] : i \in 1 .. k}) = k
<1>. DEFINE T == {q[i] : i \in 1 .. k}
            e == [i \in 1 .. k |-> q[i]]
<1>1. /\ e \in [1 .. k -> T] /\ 1 .. k \subseteq DOMAIN q
      /\ \A t \in T : \E i \in 1 .. k : e[i] = t
  OBVIOUS
<1>3. e \in Bijection(1 .. k, T)
  BY <1>1 DEF Bijection, Injection, IsInjective, Surjection
<1>2. ExistsBijection(1 .. k, T)
  BY <1>3 DEF ExistsBijection
<1>. QED
  BY <1>2, FS_CountingElements

\* processReadyQueue leaves a slot free only when no step is left to start.
LEMMA DrainConserves ==
  ASSUME NEW c \in SUBSET Step, NEW f \in SUBSET Step, NEW fly \in SUBSET Step,
         TypeOK,
         Coherent(c, f, fly, skippedDueToFailure, readyQueue),
         Cardinality(fly) <= Concurrency,
         ProcessReadyQueue(c, f, fly),
         Cardinality(inFlight') < Concurrency,
         NEW s \in Step, Deps(s) \subseteq c
  PROVE  s \in Ran(c, f, inFlight') \cup skippedDueToFailure'
<1>. DEFINE new == NewlySkipped(c, f, fly)
<1>1. PICK batch \in InOrder(NewlyReady(c, f, fly)) :
        LET queue == readyQueue \o batch
            free  == Concurrency - Cardinality(fly)
            k     == IF free < Len(queue) THEN free ELSE Len(queue)
        IN  /\ skippedDueToFailure' = skippedDueToFailure \cup new
            /\ inFlight' = fly \cup {queue[i] : i \in 1 .. k}
            /\ readyQueue' = SubSeq(queue, k + 1, Len(queue))
  BY DEF ProcessReadyQueue
<1>. DEFINE queue == readyQueue \o batch
            free  == Concurrency - Cardinality(fly)
            k     == IF free < Len(queue) THEN free ELSE Len(queue)
            starts == {queue[i] : i \in 1 .. k}
<1>2. /\ skippedDueToFailure' = skippedDueToFailure \cup new
      /\ inFlight' = fly \cup starts
  BY <1>1
<1>. SUFFICES ASSUME s \notin Ran(c, f, inFlight') \cup skippedDueToFailure'
              PROVE  FALSE
  OBVIOUS
<1>3. /\ queue \in Seq(Step)
      /\ Range(queue) \cap fly = {}
      /\ \A i, j \in DOMAIN queue : queue[i] = queue[j] => i = j
  <2>1. Runnable(c, f, fly, readyQueue \o batch)
    BY QueueLemma
  <2>. QED
    BY <2>1 DEF Runnable, Ran
<1>4. s \in Range(queue)
  <2>1. s \in Range(readyQueue) \/ s \in NewlyReady(c, f, fly)
    BY <1>2 DEF Ran, NewlyReady, Considered
  <2>2. NewlyReady(c, f, fly) \in SUBSET Step
    BY DEF NewlyReady, Considered
  <2>3. batch \in Seq(Step) /\ Range(batch) = NewlyReady(c, f, fly)
    BY <2>2, InOrderType, InOrderOnto
  <2>4. readyQueue \in Seq(Step)
    BY DEF TypeOK
  <2>5. Range(queue) = Range(readyQueue) \cup Range(batch)
    BY <2>3, <2>4, RangeConcatenation
  <2>. QED
    BY <2>1, <2>3, <2>5
<1>. HIDE DEF queue, new
<1>5. s \notin starts
  BY <1>2 DEF Ran
<1>6. Cardinality(fly) \in Nat /\ Concurrency \in Nat /\ Len(queue) \in Nat
  BY <1>3, StepsFinite, ConcurrencyAssumption
<1>7. PICK p \in 1 .. Len(queue) : s = queue[p]
  BY <1>3, <1>4 DEF Range
<1>8. k = free /\ k \in 0 .. Len(queue)
  <2>1. k # Len(queue)
    BY <1>5, <1>7
  <2>. QED
    BY <2>1, <1>6
<1>. HIDE DEF k
<1>9. Cardinality(starts) = k
  BY <1>3, <1>8, PrefixCount
<1>10. starts \subseteq Range(queue) /\ starts \in SUBSET Step
  BY <1>3, <1>8, <1>6 DEF Range
<1>11. IsFiniteSet(fly) /\ IsFiniteSet(starts) /\ fly \cap starts = {}
  BY <1>3, <1>10, StepsFinite
<1>12. Cardinality(inFlight') = Cardinality(fly) + Cardinality(starts) - Cardinality({})
  BY <1>2, <1>11, FS_Union
<1>13. Cardinality({}) = 0
  BY FS_EmptySet
<1>. QED
  BY <1>6, <1>8, <1>9, <1>12, <1>13

-----------------------------------------------------------------------------
(* The inductive invariant.                                                 *)

\* What the invariant says of the scheduler's sets is their coherence.
LEMMA Unfold ==
  ASSUME IInv
  PROVE  /\ TypeOK
         /\ Coherent(completed, failed, inFlight, skippedDueToFailure, readyQueue)
         /\ Cardinality(inFlight) <= Concurrency
BY DEF IInv, DependenciesFirst, SkipsAreJustified, QueueFresh, ConcurrencyBound,
       Coherent, Started, Ran

\* A step that leaves the schedule alone and the sets coherent keeps IInv.
LEMMA Refold ==
  ASSUME TypeOK',
         deps' = deps,
         Coherent(completed', failed', inFlight', skippedDueToFailure', readyQueue'),
         Cardinality(inFlight') <= Concurrency,
         driver' \notin {"building", "rejected"},
         ResultsRecorded',
         BackwardDeps, OkMeansAllCompleted,
         completed \subseteq completed', verdict' = verdict
  PROVE  IInv'
<1>1. /\ DependenciesFirst' /\ SkipsAreJustified' /\ QueueFresh' /\ ConcurrencyBound'
      /\ NothingBeforeSchedule'
  BY DEF DependenciesFirst, SkipsAreJustified, QueueFresh, ConcurrencyBound,
         NothingBeforeSchedule, Coherent, Started, Ran, Deps
<1>2. BackwardDeps'
  BY DEF BackwardDeps, Deps
<1>3. OkMeansAllCompleted'
  BY DEF OkMeansAllCompleted, TypeOK
<1>. QED
  BY <1>1, <1>2, <1>3 DEF IInv


\* buildSchedule makes a step wait for steps of the pipeline, and only for
\* earlier ones.
EarlierOnly(q, i) == q \in Seq(Step) /\ \A d \in Range(q) : d < i

LEMMA BuildScheduleType ==
  ASSUME TypeOK, ~DuplicateCommand(steps), ~BadReference(steps)
  PROVE  \A i \in Step : EarlierOnly(BuildSchedule(steps)[i], i)
<1>0. steps \in [Step -> [command : Command, skip : BOOLEAN,
                          dependsOn : Seq(Command) \cup {Implicit}]]
  BY PipelinesAssumption DEF TypeOK
<1>. TAKE i \in Step
<1>1. CASE steps[i].dependsOn = Implicit
  <2>. DEFINE before == {j \in Step : /\ j < i
                                      /\ ~steps[j].skip
                                      /\ \A k \in Step : (j < k /\ k < i) => steps[k].skip}
              last   == CHOOSE j \in before : TRUE
  <2>2. CASE before = {}
    <3>1. BuildSchedule(steps)[i] = <<>>
      BY <1>1, <2>2 DEF BuildSchedule, Previous
    <3>2. <<>> \in Seq(Step) /\ Range(<<>>) = {}
      BY DEF Range
    <3>. QED
      BY <3>1, <3>2 DEF EarlierOnly
  <2>3. CASE before # {}
    <3>1. last \in before
      BY <2>3
    <3>2. BuildSchedule(steps)[i] = <<last>>
      BY <1>1, <2>3 DEF BuildSchedule, Previous
    <3>3. last \in Step /\ last < i
      BY <3>1
    <3>. HIDE DEF last
    <3>. QED
      BY <3>2, <3>3 DEF EarlierOnly, Range
  <2>. QED
    BY <2>2, <2>3
<1>2. CASE steps[i].dependsOn # Implicit
  <2>. DEFINE names == steps[i].dependsOn
              idx(k) == CHOOSE j \in Step : steps[j].command = names[k]
  <2>1. names \in Seq(Command)
    BY <1>0, <1>2
  <2>2. \A k \in 1 .. Len(names) : idx(k) \in Step /\ idx(k) < i
    <3>. TAKE k \in 1 .. Len(names)
    <3>1. names[k] \in Range(names)
      BY <2>1 DEF Range
    <3>2. PICK j \in Step : j < i /\ steps[j].command = names[k]
      BY <1>2, <3>1 DEF BadReference
    <3>3. idx(k) \in Step /\ steps[idx(k)].command = names[k]
      BY <3>2
    <3>4. idx(k) = j
      BY <3>2, <3>3 DEF DuplicateCommand
    <3>. QED
      BY <3>2, <3>4
  <2>3. BuildSchedule(steps)[i] = [k \in 1 .. Len(names) |-> idx(k)]
    BY <1>2, <2>1 DEF BuildSchedule
  <2>. HIDE DEF idx, names
  <2>4. [k \in 1 .. Len(names) |-> idx(k)] \in [1 .. Len(names) -> Step]
    BY <2>2
  <2>5. Len(names) \in Nat
    BY <2>1
  <2>. QED
    BY <2>2, <2>3, <2>4, <2>5 DEF EarlierOnly, Range
<1>. QED
  BY <1>1, <1>2

\* A pipeline without duplicate commands whose references all point backwards
\* has no cycle: detectCycles can only confirm what the loop before it has
\* already established.
THEOREM CycleSearchIsRedundant ==
  ASSUME TypeOK, ~DuplicateCommand(steps), ~BadReference(steps)
  PROVE  ~Circular(BuildSchedule(steps))
<1>. SUFFICES ASSUME NEW S \in SUBSET Step, S # {},
                     \A s \in S : Range(BuildSchedule(steps)[s]) \cap S # {}
              PROVE  FALSE
  BY DEF Circular
<1>1. PICK m \in S : \A x \in S : m <= x
  BY FirstStep
<1>2. PICK x \in S : x \in Range(BuildSchedule(steps)[m])
  OBVIOUS
<1>3. x < m
  BY <1>2, BuildScheduleType DEF EarlierOnly
<1>. QED
  BY <1>1, <1>3, NAssumption DEF Step

\* So does the effective schedule, whichever the concurrency selects.
LEMMA ScheduleType ==
  ASSUME TypeOK, ~ScheduleError(steps)
  PROVE  /\ EffectiveSchedule(steps) \in [Step -> Seq(Step)]
         /\ \A i \in Step : EarlierOnly(EffectiveSchedule(steps)[i], i)
<1>1. ~BadReference(steps) /\ ~DuplicateCommand(steps)
  BY DEF ScheduleError
<1>2. \A i \in Step : EarlierOnly(SequentialSchedule(steps)[i], i)
  <2>. TAKE i \in Step
  <2>1. CASE i > 0 /\ ~steps[i].skip
    <3>1. i - 1 \in Step /\ i - 1 < i
      BY <2>1, NAssumption DEF Step
    <3>2. SequentialSchedule(steps)[i] = <<i - 1>>
      BY <2>1 DEF SequentialSchedule
    <3>. HIDE DEF Step
    <3>. QED
      BY <3>1, <3>2 DEF EarlierOnly, Range
  <2>2. CASE ~(i > 0 /\ ~steps[i].skip)
    BY <2>2 DEF SequentialSchedule, EarlierOnly, Range
  <2>. QED
    BY <2>1, <2>2
<1>3. \A i \in Step : EarlierOnly(BuildSchedule(steps)[i], i)
  BY <1>1, BuildScheduleType
<1>4. \A i \in Step : EarlierOnly(EffectiveSchedule(steps)[i], i)
  BY <1>2, <1>3 DEF EffectiveSchedule
<1>5. EffectiveSchedule(steps) \in [Step -> Seq(Step)]
  <2>1. EffectiveSchedule(steps) = [i \in Step |-> EffectiveSchedule(steps)[i]]
    BY DEF EffectiveSchedule, SequentialSchedule, BuildSchedule
  <2>. QED
    BY <1>4, <2>1 DEF EarlierOnly
<1>. QED
  BY <1>4, <1>5


\* Appending a step adds it to the range.
LEMMA AppendRange ==
  ASSUME NEW q \in Seq(Step), NEW s \in Step
  PROVE  Range(Append(q, s)) = Range(q) \cup {s}
<1>1. /\ Append(q, s) \in Seq(Step) /\ Len(Append(q, s)) = Len(q) + 1
      /\ \A i \in 1 .. Len(q) : Append(q, s)[i] = q[i]
      /\ Append(q, s)[Len(q) + 1] = s
  BY AppendProperties
<1>2. Len(q) \in Nat /\ DOMAIN q = 1 .. Len(q) /\ DOMAIN Append(q, s) = 1 .. Len(q) + 1
  BY <1>1
<1>. QED
  BY <1>1, <1>2 DEF Range

\* The continuation of a settled step.
LEMMA RecordLemma ==
  ASSUME IInv, NEW s \in inFlight,
         NEW c \in SUBSET Step, NEW f \in SUBSET Step,
         \/ c = completed \cup {s} /\ f = failed
         \/ c = completed /\ f = failed \cup {s},
         Record(s, c, f),
         steps' = steps, lingering' \in SUBSET Step,
         cacheOpen' = cacheOpen, verdict' = verdict
  PROVE  IInv'
<1>. DEFINE fly == inFlight \ {s}
<1>0. BackwardDeps /\ OkMeansAllCompleted /\ ResultsRecorded
  BY DEF IInv
<1>1. /\ TypeOK
      /\ Coherent(completed, failed, inFlight, skippedDueToFailure, readyQueue)
      /\ Cardinality(inFlight) <= Concurrency
  BY Unfold
<1>2. s \in Step /\ inFlight \in SUBSET Step /\ fly \in SUBSET Step
  BY <1>1 DEF TypeOK
<1>3. Ran(c, f, fly) = Ran(completed, failed, inFlight)
  BY DEF Ran
<1>4. /\ c \cap f = {} /\ fly \cap (c \cup f) = {}
      /\ completed \subseteq c /\ failed \subseteq f
  BY <1>1 DEF Coherent
<1>5. Coherent(c, f, fly, skippedDueToFailure, readyQueue)
  BY <1>1, <1>3, <1>4 DEF Coherent
<1>6. Cardinality(fly) <= Concurrency
  <2>1. /\ IsFiniteSet(inFlight) /\ Cardinality(inFlight) \in Nat
        /\ Cardinality(fly) \in Nat /\ fly \in SUBSET inFlight
    BY <1>2, StepsFinite
  <2>2. Cardinality(fly) <= Cardinality(inFlight)
    BY <2>1, FS_Subset
  <2>. QED
    BY <1>1, <2>1, <2>2, ConcurrencyAssumption
<1>7. /\ ProcessReadyQueue(c, f, fly)
      /\ completed' = c /\ failed' = f /\ results' = Append(results, s)
      /\ SettleRace(s, "resolved")
      /\ deps' = deps /\ driver' = driver /\ thrown' = thrown
  BY DEF Record
<1>. HIDE DEF fly
<1>8. /\ skippedDueToFailure' \in SUBSET Step
      /\ inFlight' \in SUBSET Step
      /\ readyQueue' \in Seq(Step)
      /\ Coherent(c, f, inFlight', skippedDueToFailure', readyQueue')
      /\ Cardinality(inFlight') <= Concurrency
      /\ skippedDueToFailure \subseteq skippedDueToFailure'
  BY <1>1, <1>2, <1>5, <1>6, <1>7, DrainLemma
<1>9. results' \in Seq(Step)
  BY <1>1, <1>2, <1>7 DEF TypeOK
<1>10. TypeOK'
  BY <1>1, <1>7, <1>8, <1>9 DEF TypeOK, SettleRace
<1>11. driver \notin {"building", "rejected"}
  BY DEF IInv, NothingBeforeSchedule, Started
<1>12. ResultsRecorded'
  <2>1. Range(results') = Range(results) \cup {s}
    BY <1>1, <1>2, <1>7, AppendRange DEF TypeOK
  <2>2. completed' \cup failed' = completed \cup failed \cup {s}
    BY <1>7
  <2>. QED
    BY <2>1, <2>2, <1>0, <1>7, <1>8 DEF ResultsRecorded
<1>. QED
  BY <1>0, <1>4, <1>7, <1>8, <1>10, <1>11, <1>12, Refold

-----------------------------------------------------------------------------
(* One lemma per kind of step.                                              *)

LEMMA InitLemma ==
  ASSUME Init
  PROVE  IInv
<1>1. TypeOK
  BY DEF Init, TypeOK
<1>2. Cardinality(inFlight) <= Concurrency
  BY FS_EmptySet, ConcurrencyAssumption DEF Init
<1>3. BackwardDeps /\ ResultsRecorded /\ OkMeansAllCompleted
  BY DEF Init, BackwardDeps, ResultsRecorded, OkMeansAllCompleted, Deps, Range
<1>. QED
  BY <1>1, <1>2, <1>3 DEF Init, IInv, DependenciesFirst, SkipsAreJustified, QueueFresh,
                    ConcurrencyBound, NothingBeforeSchedule, Started, Range

LEMMA StutterLemma ==
  ASSUME IInv, UNCHANGED schedulerVars, TypeOK', ResultsRecorded', OkMeansAllCompleted',
         driver' \in {"building", "rejected"} => driver \in {"building", "rejected"}
  PROVE  IInv'
<1>1. deps' = deps /\ completed' = completed /\ failed' = failed
      /\ skippedDueToFailure' = skippedDueToFailure
      /\ inFlight' = inFlight /\ readyQueue' = readyQueue
  BY DEF schedulerVars
<1>. QED
  BY <1>1 DEF IInv, DependenciesFirst, SkipsAreJustified, QueueFresh, ConcurrencyBound,
              NothingBeforeSchedule, BackwardDeps, Started, Deps

LEMMA AcceptLemma ==
  ASSUME IInv, AcceptSchedule
  PROVE  IInv'
<1>1. /\ Started = {} /\ skippedDueToFailure = {} /\ readyQueue = <<>>
      /\ TypeOK /\ Cardinality(inFlight) <= Concurrency
  BY DEF IInv, NothingBeforeSchedule, AcceptSchedule, ConcurrencyBound
<1>2. /\ deps' \in [Step -> Seq(Step)]
      /\ \A i \in Step : EarlierOnly(deps'[i], i)
  BY <1>1, ScheduleType DEF AcceptSchedule
<1>3. TypeOK'
  BY <1>1, <1>2 DEF AcceptSchedule, TypeOK, callerVars
<1>4. /\ Started' = {} /\ skippedDueToFailure' = {} /\ readyQueue' = <<>>
      /\ completed' = completed /\ failed' = failed /\ inFlight' = inFlight
      /\ driver' = "starting"
  BY <1>1 DEF AcceptSchedule, Started
<1>5. BackwardDeps'
  BY <1>2 DEF BackwardDeps, Deps, EarlierOnly
<1>6. ResultsRecorded' /\ OkMeansAllCompleted'
  BY DEF IInv, AcceptSchedule, ResultsRecorded, OkMeansAllCompleted, callerVars
<1>. QED
  BY <1>1, <1>3, <1>4, <1>5, <1>6 DEF IInv, DependenciesFirst, SkipsAreJustified, QueueFresh,
                          ConcurrencyBound, NothingBeforeSchedule, Started, Range

LEMMA DrivenDrain ==
  ASSUME IInv, ProcessReadyQueue(completed, failed, inFlight)
  PROVE  /\ skippedDueToFailure' \in SUBSET Step
         /\ inFlight' \in SUBSET Step
         /\ readyQueue' \in Seq(Step)
         /\ Coherent(completed, failed, inFlight', skippedDueToFailure', readyQueue')
         /\ Cardinality(inFlight') <= Concurrency
         /\ skippedDueToFailure \subseteq skippedDueToFailure'
<1>1. completed \in SUBSET Step /\ failed \in SUBSET Step /\ inFlight \in SUBSET Step
  BY DEF IInv, TypeOK
<1>. QED
  BY <1>1, Unfold, DrainLemma

LEMMA StartLemma ==
  ASSUME IInv, StartRun
  PROVE  IInv'
<1>1. /\ ProcessReadyQueue(completed, failed, inFlight) /\ EnterRace
      /\ deps' = deps /\ completed' = completed /\ failed' = failed
      /\ results' = results /\ thrown' = thrown /\ UNCHANGED callerVars
      /\ driver' = "racing"
  BY DEF StartRun
<1>2. TypeOK'
  BY <1>1, DrivenDrain DEF IInv, TypeOK, EnterRace, callerVars
<1>3. ResultsRecorded'
  BY <1>1, DrivenDrain DEF IInv, ResultsRecorded, StartRun
<1>4. verdict' = verdict /\ BackwardDeps /\ OkMeansAllCompleted
  BY <1>1 DEF callerVars, IInv
<1>. QED
  BY <1>1, <1>2, <1>3, <1>4, DrivenDrain, Refold

\* Reporting skipped steps appends some of them to the results.
LEMMA ReportLemma ==
  ASSUME NEW skips \in SUBSET Step, results \in Seq(Step),
         NEW r \in ReportSkipped(skips)
  PROVE  /\ r \in Seq(Step)
         /\ Range(results) \subseteq Range(r)
         /\ Range(r) \subseteq Range(results) \cup skips
<1>1. PICK late \in InOrder(skips \ Range(results)) : r = results \o late
  BY DEF ReportSkipped
<1>2. late \in Seq(Step) /\ Range(late) \subseteq skips \ Range(results)
  BY <1>1, InOrderType
<1>3. r \in Seq(Step) /\ Range(r) = Range(results) \cup Range(late)
  BY <1>1, <1>2, ConcatProperties, RangeConcatenation
<1>. QED
  BY <1>2, <1>3

LEMMA ContinueLemma ==
  ASSUME IInv, DriverContinues
  PROVE  IInv'
<1>1. /\ ProcessReadyQueue(completed, failed, inFlight) /\ EnterRace
      /\ deps' = deps /\ completed' = completed /\ failed' = failed
      /\ thrown' = thrown /\ UNCHANGED callerVars
      /\ driver = "racing" /\ driver' = driver
      /\ results' \in ReportSkipped(skippedDueToFailure')
  BY DEF DriverContinues
<1>2. /\ results' \in Seq(Step)
      /\ Range(results) \subseteq Range(results')
      /\ Range(results') \subseteq Range(results) \cup skippedDueToFailure'
  BY <1>1, DrivenDrain, ReportLemma DEF IInv, TypeOK
<1>3. TypeOK'
  BY <1>1, <1>2, DrivenDrain DEF IInv, TypeOK, EnterRace, callerVars
<1>4. ResultsRecorded'
  BY <1>1, <1>2, DrivenDrain DEF IInv, ResultsRecorded
<1>5. verdict' = verdict /\ BackwardDeps /\ OkMeansAllCompleted
  BY <1>1 DEF callerVars, IInv
<1>. QED
  BY <1>1, <1>3, <1>4, <1>5, DrivenDrain, Refold

-----------------------------------------------------------------------------
(* The end of a run.                                                        *)

\* When the driver returns no step is left over: the loop's fallback, which
\* would skip a step for no reason, has nothing to do.
LEMMA NothingLeft ==
  ASSUME IInv, DriverReturns
  PROVE  Step \ (Range(results) \cup skippedDueToFailure
                 \cup NewlySkipped(completed, failed, inFlight)) = {}
<1>. DEFINE new   == NewlySkipped(completed, failed, inFlight)
            roots == {s \in Considered(completed, failed, inFlight) :
                         DepFailed(s, completed, failed)}
            rest  == Step \ (Range(results) \cup skippedDueToFailure \cup new)
<1>. SUFFICES ASSUME rest # {}
              PROVE  FALSE
  OBVIOUS
<1>1. /\ inFlight = {} /\ Range(readyQueue) = {}
      /\ NewlyReady(completed, failed, inFlight) = {}
      /\ driver = "racing"
  BY DEF DriverReturns, Range
<1>2. /\ completed \cup failed \subseteq Range(results)
      /\ Range(results) \subseteq completed \cup failed \cup skippedDueToFailure
  BY <1>1 DEF IInv, ResultsRecorded
<1>3. PICK m \in rest : \A x \in rest : m <= x
  BY FirstStep
<1>4. m \in Step /\ m \notin new
  BY <1>3
<1>5. m \in Considered(completed, failed, inFlight) /\ m \notin completed \cup failed
  BY <1>1, <1>2, <1>3 DEF Considered
<1>6. deps[m] \in Seq(Step) /\ Deps(m) \subseteq Step
  BY <1>4 DEF IInv, TypeOK, Deps, Range
<1>7. \A d \in Deps(m) : d \notin rest
  <2>. SUFFICES ASSUME NEW d \in Deps(m), d \in rest
                PROVE  FALSE
    OBVIOUS
  <2>1. d < m /\ m <= d
    BY <1>3, <1>4 DEF IInv, BackwardDeps
  <2>. QED
    BY <1>4, <1>6, <2>1, NAssumption DEF Step
<1>8. /\ roots \subseteq new
      /\ \A t \in Step \ (completed \cup failed) : Deps(t) \cap new # {} => t \in new
  BY DEF NewlySkipped, Cascade, Considered
<1>9. Deps(m) \cap new = {}
  BY <1>4, <1>5, <1>8
<1>10. Deps(m) \subseteq completed \cup failed \cup skippedDueToFailure
  BY <1>2, <1>6, <1>7, <1>9
<1>11. ~(Deps(m) \subseteq completed)
  BY <1>1, <1>5, <1>4 DEF NewlyReady
<1>12. DepFailed(m, completed, failed)
  <2>. DEFINE n == Len(deps[m])
              bad == {k \in 1 .. n : deps[m][k] \notin completed}
  <2>1. n \in Nat /\ DOMAIN deps[m] = 1 .. n
    BY <1>6
  <2>2. bad # {}
    BY <1>11, <2>1 DEF Deps, Range
  <2>. HIDE DEF n
  <2>3. PICK k \in bad : \A j \in 1 .. n : j < k => j \notin bad
    BY <2>1, <2>2, FirstIndex
  <2>4. deps[m][k] \in Deps(m)
    BY <2>1, <2>3 DEF Deps, Range
  <2>. QED
    BY <2>1, <2>3, <2>4, <1>10 DEF DepFailed
<1>. QED
  BY <1>4, <1>5, <1>8, <1>12

\* Sorting keeps the members of a sequence.
LEMMA SortedLemma ==
  ASSUME NEW q \in Seq(Step), NEW r \in Sorted(q)
  PROVE  r \in Seq(Step) /\ Range(r) = Range(q)
<1>1. Len(q) \in Nat /\ DOMAIN q = 1 .. Len(q) /\ Range(q) \subseteq Step
  BY RangeOfSeq
<1>2. r \in [DOMAIN q -> Range(q)]
  BY DEF Sorted
<1>3. PICK perm \in Bijection(DOMAIN q, DOMAIN q) : r = [i \in DOMAIN q |-> q[perm[i]]]
  BY DEF Sorted
<1>4. /\ perm \in [DOMAIN q -> DOMAIN q]
      /\ \A w \in DOMAIN q : \E v \in DOMAIN q : perm[v] = w
  BY DEF Bijection, Injection, Surjection
<1>5. r \in Seq(Step)
  BY <1>1, <1>2
<1>6. Range(q) \subseteq Range(r)
  BY <1>3, <1>4 DEF Range
<1>. QED
  BY <1>2, <1>5, <1>6 DEF Range

LEMMA ReturnLemma ==
  ASSUME IInv, DriverReturns
  PROVE  IInv'
<1>. DEFINE new   == NewlySkipped(completed, failed, inFlight)
            skips == skippedDueToFailure \cup new
            rest  == Step \ (Range(results) \cup skips)
<1>1. /\ skippedDueToFailure' = skips \cup rest
      /\ \E reported \in ReportSkipped(skips), forced \in InOrder(rest) :
            results' \in Sorted(reported \o forced)
      /\ driver = "racing" /\ driver' = "returned"
      /\ UNCHANGED <<deps, completed, failed, inFlight, readyQueue, thrown,
                     raceSet, race, steps, lingering, cacheOpen, verdict>>
  BY DEF DriverReturns, callerVars
<1>2. rest = {}
  BY NothingLeft
<1>3. /\ TypeOK
      /\ Coherent(completed, failed, inFlight, skippedDueToFailure, readyQueue)
      /\ Cardinality(inFlight) <= Concurrency
      /\ completed \in SUBSET Step /\ failed \in SUBSET Step /\ inFlight \in SUBSET Step
  BY Unfold DEF TypeOK
<1>4. /\ new \in SUBSET Step
      /\ \A s \in new : ~(Deps(s) \subseteq completed)
      /\ new \cap (completed \cup failed) = {}
      /\ \A s \in new : Deps(s) \cap (failed \cup skippedDueToFailure \cup new) # {}
  BY <1>3, SkipLemma
<1>5. skips \in SUBSET Step
  BY <1>3, <1>4 DEF TypeOK
<1>6. PICK reported \in ReportSkipped(skips), forced \in InOrder(rest) :
         results' \in Sorted(reported \o forced)
  BY <1>1
<1>7. /\ reported \in Seq(Step) /\ Range(results) \subseteq Range(reported)
      /\ forced \in Seq(Step)
  BY <1>3, <1>5, ReportLemma, InOrderType DEF TypeOK
<1>. HIDE DEF new
<1>8. /\ reported \o forced \in Seq(Step)
      /\ Range(reported) \subseteq Range(reported \o forced)
  BY <1>7, ConcatProperties, RangeConcatenation
<1>9. results' \in Seq(Step) /\ Range(results) \subseteq Range(results')
  BY <1>6, <1>7, <1>8, SortedLemma
<1>10. TypeOK'
  BY <1>1, <1>2, <1>3, <1>5, <1>9 DEF TypeOK
<1>11. Coherent(completed, failed, inFlight, skips, readyQueue)
  <2>1. \A s \in Ran(completed, failed, inFlight) \cup Range(readyQueue) :
           Deps(s) \subseteq completed
    BY <1>3 DEF Coherent
  <2>2. new \cap (Ran(completed, failed, inFlight) \cup Range(readyQueue)) = {}
    BY <2>1, <1>4
  <2>. QED
    BY <2>2, <1>3, <1>4 DEF Coherent
<1>12. ResultsRecorded'
  <2>1. /\ completed \cup failed \subseteq Range(results)
        /\ Range(results) \subseteq completed \cup failed \cup skippedDueToFailure
    BY <1>1 DEF IInv, ResultsRecorded
  <2>. QED
    BY <2>1, <1>1, <1>2, <1>9 DEF ResultsRecorded
<1>13. BackwardDeps /\ OkMeansAllCompleted
  BY DEF IInv
<1>14. /\ skippedDueToFailure' = skips /\ deps' = deps /\ completed' = completed
       /\ failed' = failed /\ inFlight' = inFlight /\ readyQueue' = readyQueue
       /\ verdict' = verdict /\ driver' = "returned"
  BY <1>1, <1>2
<1>15. /\ Coherent(completed', failed', inFlight', skippedDueToFailure', readyQueue')
       /\ Cardinality(inFlight') <= Concurrency
  BY <1>3, <1>11, <1>14
<1>. QED
  BY <1>10, <1>12, <1>13, <1>14, <1>15, Refold

\* A run whose results hold no failed step has completed every step.
LEMMA NoFailureMeansAllCompleted ==
  ASSUME IInv, driver = "returned", Range(results) \cap failed = {}
  PROVE  completed = Step
<1>1. /\ Step \subseteq completed \cup failed \cup skippedDueToFailure
      /\ failed = {}
  BY DEF IInv, ResultsRecorded
<1>2. /\ completed \subseteq Step /\ skippedDueToFailure \subseteq Step
      /\ deps \in [Step -> Seq(Step)]
      /\ SkipsAreJustified /\ BackwardDeps
  BY DEF IInv, TypeOK
<1>3. skippedDueToFailure = {}
  <2>. SUFFICES ASSUME skippedDueToFailure # {}
                PROVE  FALSE
    OBVIOUS
  <2>1. PICK m \in skippedDueToFailure : \A x \in skippedDueToFailure : m <= x
    BY <1>2, FirstStep
  <2>2. PICK d \in Deps(m) : d \in skippedDueToFailure
    BY <1>1, <1>2 DEF SkipsAreJustified
  <2>3. d < m
    BY <1>2, <2>2 DEF BackwardDeps
  <2>. QED
    BY <1>2, <2>1, <2>2, <2>3, NAssumption DEF Step
<1>. QED
  BY <1>1, <1>2, <1>3

LEMMA ConcludeLemma ==
  ASSUME IInv, Conclude
  PROVE  IInv'
<1>1. TypeOK'
  BY DEF IInv, Conclude, TypeOK, schedulerVars
<1>2. OkMeansAllCompleted'
  BY NoFailureMeansAllCompleted DEF Conclude, OkMeansAllCompleted, schedulerVars
<1>3. ResultsRecorded' /\ UNCHANGED schedulerVars
      /\ driver' \notin {"building", "rejected"}
  BY DEF Conclude, ResultsRecorded
<1>. QED
  BY <1>1, <1>2, <1>3, StutterLemma

LEMMA QuietLemma ==
  ASSUME IInv,
         \/ RejectSchedule \/ DriverThrows
         \/ \E s \in Step : StepThrows(s) \/ BodyEnds(s)
  PROVE  IInv'
<1>1. TypeOK'
  BY DEF IInv, TypeOK, RejectSchedule, DriverThrows, StepThrows, BodyEnds, SettleRace,
         callerVars, schedulerVars
<1>2. /\ UNCHANGED schedulerVars
      /\ driver' \in {"building", "rejected"} => driver \in {"building", "rejected"}
  BY DEF RejectSchedule, DriverThrows, StepThrows, BodyEnds, callerVars
<1>3. ResultsRecorded' /\ OkMeansAllCompleted'
  BY DEF IInv, ResultsRecorded, OkMeansAllCompleted, RejectSchedule, DriverThrows,
         StepThrows, BodyEnds, callerVars, schedulerVars
<1>. QED
  BY <1>1, <1>2, <1>3, StutterLemma

LEMMA SettleLemma ==
  ASSUME IInv, NEW s \in Step, StepSucceeds(s) \/ StepFails(s) \/ StepTimesOut(s)
  PROVE  IInv'
<1>1. /\ completed \in SUBSET Step /\ failed \in SUBSET Step /\ lingering \in SUBSET Step
  BY DEF IInv, TypeOK
<1>2. CASE StepSucceeds(s)
  BY <1>1, <1>2, RecordLemma DEF StepSucceeds, callerVars
<1>3. CASE StepFails(s)
  BY <1>1, <1>3, RecordLemma DEF StepFails, callerVars
<1>4. CASE StepTimesOut(s)
  BY <1>1, <1>4, RecordLemma DEF StepTimesOut, callerVars
<1>. QED
  BY <1>2, <1>3, <1>4

-----------------------------------------------------------------------------
(* No slot is left free: this one needs the invariant, and is no part of it. *)

LEMMA DriverConserves ==
  ASSUME IInv, StartRun \/ DriverContinues
  PROVE  WorkConserving'
<1>1. /\ ProcessReadyQueue(completed, failed, inFlight)
      /\ completed' = completed /\ failed' = failed /\ deps' = deps
  BY DEF StartRun, DriverContinues
<1>2. /\ completed \in SUBSET Step /\ failed \in SUBSET Step /\ inFlight \in SUBSET Step
      /\ TypeOK
  BY DEF IInv, TypeOK
<1>. SUFFICES ASSUME Cardinality(inFlight') < Concurrency,
                     NEW s \in Step, Deps(s) \subseteq completed
              PROVE  s \in Ran(completed, failed, inFlight') \cup skippedDueToFailure'
  BY <1>1 DEF WorkConserving, Deps, Started, Ran
<1>. QED
  BY <1>1, <1>2, Unfold, DrainConserves

LEMMA RecordConserves ==
  ASSUME IInv, NEW s \in inFlight,
         NEW c \in SUBSET Step, NEW f \in SUBSET Step,
         \/ c = completed \cup {s} /\ f = failed
         \/ c = completed /\ f = failed \cup {s},
         Record(s, c, f)
  PROVE  WorkConserving'
<1>. DEFINE fly == inFlight \ {s}
<1>1. /\ TypeOK
      /\ Coherent(completed, failed, inFlight, skippedDueToFailure, readyQueue)
      /\ Cardinality(inFlight) <= Concurrency
  BY Unfold
<1>2. s \in Step /\ inFlight \in SUBSET Step /\ fly \in SUBSET Step
  BY <1>1 DEF TypeOK
<1>3. Ran(c, f, fly) = Ran(completed, failed, inFlight)
  BY DEF Ran
<1>4. /\ c \cap f = {} /\ fly \cap (c \cup f) = {}
      /\ completed \subseteq c /\ failed \subseteq f
  BY <1>1 DEF Coherent
<1>5. Coherent(c, f, fly, skippedDueToFailure, readyQueue)
  BY <1>1, <1>3, <1>4 DEF Coherent
<1>6. Cardinality(fly) <= Concurrency
  <2>1. /\ IsFiniteSet(inFlight) /\ Cardinality(inFlight) \in Nat
        /\ Cardinality(fly) \in Nat /\ fly \in SUBSET inFlight
    BY <1>2, StepsFinite
  <2>2. Cardinality(fly) <= Cardinality(inFlight)
    BY <2>1, FS_Subset
  <2>. QED
    BY <1>1, <2>1, <2>2, ConcurrencyAssumption
<1>7. /\ ProcessReadyQueue(c, f, fly)
      /\ completed' = c /\ failed' = f /\ deps' = deps
  BY DEF Record
<1>. HIDE DEF fly
<1>. SUFFICES ASSUME Cardinality(inFlight') < Concurrency,
                     NEW t \in Step, Deps(t) \subseteq c
              PROVE  t \in Ran(c, f, inFlight') \cup skippedDueToFailure'
  BY <1>7 DEF WorkConserving, Deps, Started, Ran
<1>. QED
  BY <1>1, <1>2, <1>5, <1>6, <1>7, DrainConserves

LEMMA StepConserves ==
  ASSUME IInv, WorkConserving, [Next]_vars
  PROVE  WorkConserving'
<1>1. CASE StartRun \/ DriverContinues
  BY <1>1, DriverConserves
<1>2. CASE \E s \in Step : StepSucceeds(s) \/ StepFails(s) \/ StepTimesOut(s)
  <2>1. PICK s \in Step : StepSucceeds(s) \/ StepFails(s) \/ StepTimesOut(s)
    BY <1>2
  <2>2. completed \in SUBSET Step /\ failed \in SUBSET Step
    BY DEF IInv, TypeOK
  <2>3. /\ s \in inFlight
        /\ \/ Record(s, completed \cup {s}, failed)
           \/ Record(s, completed, failed \cup {s})
    BY <2>1 DEF StepSucceeds, StepFails, StepTimesOut
  <2>. QED
    BY <2>2, <2>3, RecordConserves
<1>3. CASE RejectSchedule \/ AcceptSchedule \/ DriverReturns \/ DriverThrows \/ Conclude
  BY <1>3 DEF RejectSchedule, AcceptSchedule, DriverReturns, DriverThrows, Conclude,
              WorkConserving
<1>4. CASE (\E s \in Step : StepThrows(s) \/ BodyEnds(s)) \/ UNCHANGED vars
  <2>1. UNCHANGED schedulerVars /\ driver' = driver
    BY <1>4 DEF StepThrows, BodyEnds, vars
  <2>. QED
    BY <2>1 DEF schedulerVars, WorkConserving, Started, Deps
<1>. QED
  BY <1>1, <1>2, <1>3, <1>4 DEF Next, Drive, Settle

-----------------------------------------------------------------------------
(* The theorems.                                                            *)

LEMMA StepInvariance ==
  ASSUME IInv, [Next]_vars
  PROVE  IInv'
<1>1. CASE RejectSchedule \/ DriverThrows \/ \E s \in Step : StepThrows(s) \/ BodyEnds(s)
  BY <1>1, QuietLemma
<1>2. CASE AcceptSchedule
  BY <1>2, AcceptLemma
<1>3. CASE StartRun
  BY <1>3, StartLemma
<1>4. CASE DriverContinues
  BY <1>4, ContinueLemma
<1>5. CASE DriverReturns
  BY <1>5, ReturnLemma
<1>6. CASE Conclude
  BY <1>6, ConcludeLemma
<1>7. CASE \E s \in Step : StepSucceeds(s) \/ StepFails(s) \/ StepTimesOut(s)
  BY <1>7, SettleLemma
<1>8. CASE UNCHANGED vars
  <2>1. /\ UNCHANGED schedulerVars /\ UNCHANGED callerVars
        /\ driver' = driver /\ thrown' = thrown /\ raceSet' = raceSet /\ race' = race
    BY <1>8 DEF vars
  <2>2. TypeOK' /\ ResultsRecorded' /\ OkMeansAllCompleted'
    BY <2>1 DEF IInv, TypeOK, ResultsRecorded, OkMeansAllCompleted, schedulerVars, callerVars
  <2>. QED
    BY <2>1, <2>2, StutterLemma
<1>. QED
  BY <1>1, <1>2, <1>3, <1>4, <1>5, <1>6, <1>7, <1>8 DEF Next, Drive, Settle

\* The conjunction of the safety properties is an inductive invariant.
THEOREM Invariance == Spec => []IInv
<1>1. Init => IInv
  BY InitLemma
<1>2. IInv /\ [Next]_vars => IInv'
  BY StepInvariance
<1>. QED
  BY <1>1, <1>2, PTL DEF Spec

\* Type correctness of the scheduler and its callers.
THEOREM TypeCorrect == Spec => []TypeOK
BY Invariance, PTL DEF IInv

\* No step starts before everything its schedule makes it wait for has
\* completed, whatever fails, times out or rejects.
THEOREM DependenciesComeFirst == Spec => []DependenciesFirst
BY Invariance, PTL DEF IInv

\* Every skip has a cause: a failed or skipped dependency.
THEOREM SkipsHaveACause == Spec => []SkipsAreJustified
BY Invariance, PTL DEF IInv

\* A step has one fate, and the queue holds runnable steps only: the guards of
\* processReadyQueue against stale entries never fire.
THEOREM QueueIsFresh == Spec => []QueueFresh
BY Invariance, PTL DEF IInv

\* The number of steps in flight never exceeds the limit.
THEOREM LimitRespected == Spec => []ConcurrencyBound
BY Invariance, PTL DEF IInv

\* A pipeline reported ok has completed every step, although the reports of
\* skipped steps say ok.
THEOREM OkIsSound == Spec => []OkMeansAllCompleted
BY Invariance, PTL DEF IInv

\* No lost wake-up: while the run is going a free slot and a step whose
\* dependencies have completed never coexist between two events.
THEOREM SlotsAreFilled == Spec => []WorkConserving
<1>1. Init => WorkConserving
  BY DEF Init, WorkConserving
<1>2. IInv /\ WorkConserving /\ [Next]_vars => WorkConserving'
  BY StepConserves
<1>. QED
  BY <1>1, <1>2, Invariance, PTL DEF Spec

=============================================================================

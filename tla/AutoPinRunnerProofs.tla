------------------------- MODULE AutoPinRunnerProofs -------------------------
(***************************************************************************)
(* Proofs about Run, for any number of concurrent calls, any batches and   *)
(* any arguments of NewAutoPinRunner: the semaphore bounds the backend     *)
(* calls of all callers together, and a call that has returned has left no *)
(* goroutine behind.                                                       *)
(***************************************************************************)
EXTENDS AutoPinRunner, FiniteSetTheorems, WellFoundedInduction, TLAPS

\* The WaitGroup of a call counts its goroutines.
Counted == \A r \in Runs : wg[r] = Cardinality(RunningOf(r))

\* A call that has not begun has no goroutine.
IdleClean == \A r \in Runs : phase[r] = "idle" => \A t \in TasksOf(r) : task[t] = "none"

\* A goroutine works on an item of its call's batch.
InBatch == \A t \in Tasks : task[t] # "none" => t[2] \in 1..Len(batch[t[1]])

IInv == TypeOK /\ SharedBound /\ Counted /\ IdleClean /\ InBatch /\ ReturnedQuiet

-----------------------------------------------------------------------------
(* Finite sets of tasks *)

LEMMA TasksFinite == IsFiniteSet(Tasks)
  <1>1. IsFiniteSet(1..MaxBatch)
    BY FS_Interval, BatchAssumption
  <1> QED BY <1>1, RunsFinite, FS_Product DEF Tasks

LEMMA SubsFinite ==
    /\ IsFiniteSet(Holders)
    /\ \A r \in Runs : IsFiniteSet(RunningOf(r))
  <1>1. Holders \in SUBSET Tasks /\ \A r \in Runs : RunningOf(r) \in SUBSET Tasks
    BY DEF Holders, RunningOf, TasksOf
  <1> QED BY <1>1, TasksFinite, FS_Subset

LEMMA ArgTypes == Concurrency \in Nat /\ Concurrency > 0 /\ Cap \in Nat
  BY ArgsAssumption DEF Concurrency, Cap

\* What the first loop sheds is a natural number.
LEMMA ShedType ==
    ASSUME NEW b \in Batches
    PROVE  /\ Len(b) \in Nat
           /\ Len(b) - Cardinality(Queued(b)) \in Nat
  <1>1. Len(b) \in Nat
    BY BatchAssumption
  <1>2. IsFiniteSet(1..Len(b)) /\ Cardinality(1..Len(b)) = Len(b)
    BY <1>1, FS_Interval
  <1>3. Queued(b) \in SUBSET (1..Len(b))
    BY DEF Queued
  <1>4. Cardinality(Queued(b)) \in Nat /\ Cardinality(Queued(b)) <= Len(b)
    BY <1>2, <1>3, FS_Subset, FS_CardinalityType
  <1> QED BY <1>1, <1>4

\* A token taken or given back changes the set of holders by one.
LEMMA HoldersChange ==
    ASSUME TypeOK, NEW t \in Tasks, NEW v, task' = [task EXCEPT ![t] = v]
    PROVE  Holders' = IF v \in Holding THEN Holders \cup {t} ELSE Holders \ {t}
  BY DEF Holders, TypeOK

LEMMA RunningChange ==
    ASSUME TypeOK, NEW t \in Tasks, NEW v, task' = [task EXCEPT ![t] = v],
           NEW r \in Runs
    PROVE  RunningOf(r)' = IF t[1] # r THEN RunningOf(r)
                           ELSE IF v \in Running THEN RunningOf(r) \cup {t}
                           ELSE RunningOf(r) \ {t}
  BY DEF RunningOf, TasksOf, TypeOK

-----------------------------------------------------------------------------
(* Induction *)

\* A set with 0 and the successor of each of its numbers has them all.
LEMMA Induction ==
    ASSUME NEW S, 0 \in S, \A n \in Nat : n \in S => n + 1 \in S
    PROVE  Nat \subseteq S
  <1> DEFINE R == OpToRel(<, Nat)
             T == Nat \ S
  <1> SUFFICES ASSUME T # {} PROVE FALSE
    OBVIOUS
  <1>1. IsWellFoundedOn(R, Nat)
    BY NatLessThanWellFounded
  <1>2. \A x, y \in Nat : <<x, y>> \in R <=> x < y
    BY DEF OpToRel
  <1>3. T \in SUBSET Nat
    OBVIOUS
  <1> HIDE DEF R, T
  <1>4. PICK x \in T : \A y \in T : ~(<<y, x>> \in R)
    BY <1>1, <1>3, WFMin, Zenon
  <1>5. x \in Nat /\ x \notin S /\ \A y \in Nat : y \notin S => ~(y < x)
    BY <1>2, <1>4 DEF T
  <1>6. x # 0 /\ x - 1 \in Nat /\ x - 1 < x
    BY <1>5
  <1> QED BY <1>5, <1>6

-----------------------------------------------------------------------------
(* The first loop *)

\* The items of author a among the first n, and how many there are up to i of
\* i's own author.
Of(b, a, n) == {j \in 1..n : b[j].author = a}
Rank(b, i) == Cardinality(Of(b, b[i].author, i))

LEMMA OfFinite ==
    ASSUME NEW b, NEW a, NEW n \in Nat
    PROVE  IsFiniteSet(Of(b, a, n)) /\ Cardinality(Of(b, a, n)) \in Nat
  <1>1. IsFiniteSet(1..n)
    BY FS_Interval
  <1>2. Of(b, a, n) \subseteq 1..n
    BY DEF Of
  <1> QED BY <1>1, <1>2, FS_Subset, FS_CardinalityType

\* One more item is one more of its author.
LEMMA OfGrows ==
    ASSUME NEW b, NEW a, NEW n \in Nat
    PROVE  /\ b[n + 1].author # a => Of(b, a, n + 1) = Of(b, a, n)
           /\ b[n + 1].author = a =>
                /\ Of(b, a, n + 1) = Of(b, a, n) \cup {n + 1} /\ n + 1 \notin Of(b, a, n)
                /\ Cardinality(Of(b, a, n + 1)) = Cardinality(Of(b, a, n)) + 1
  <1>1. 1..(n + 1) = (1..n) \cup {n + 1} /\ n + 1 \notin 1..n
    OBVIOUS
  <1>2. b[n + 1].author # a => Of(b, a, n + 1) = Of(b, a, n)
    BY <1>1 DEF Of
  <1>3. b[n + 1].author = a => Of(b, a, n + 1) = Of(b, a, n) \cup {n + 1} /\ n + 1 \notin Of(b, a, n)
    BY <1>1 DEF Of
  <1>4. ASSUME b[n + 1].author = a
        PROVE  Cardinality(Of(b, a, n + 1)) = Cardinality(Of(b, a, n)) + 1
    BY <1>3, <1>4, OfFinite, FS_AddElement
  <1> QED BY <1>2, <1>3, <1>4

\* Of n items of an author, those of a rank up to the cap are all of them, or as
\* many as the cap.
LEMMA FirstCap ==
    ASSUME NEW b, NEW a, NEW n \in Nat
    PROVE  LET f == {j \in Of(b, a, n) : Rank(b, j) <= Cap}
           IN  Cardinality(f) = IF Cardinality(Of(b, a, n)) < Cap THEN Cardinality(Of(b, a, n)) ELSE Cap
  <1> DEFINE F(k) == {j \in Of(b, a, k) : Rank(b, j) <= Cap}
             Q(k) == /\ Cardinality(Of(b, a, k)) < Cap => Cardinality(F(k)) = Cardinality(Of(b, a, k))
                     /\ Cardinality(Of(b, a, k)) >= Cap => Cardinality(F(k)) = Cap
             S == {k \in Nat : Q(k)}
  <1>1. Cap \in Nat /\ Cap > 0
    BY ArgsAssumption DEF Cap
  <1>2. 0 \in S
    <2>1. Of(b, a, 0) = {} /\ F(0) = {}
      BY DEF Of
    <2>2. Q(0)
      BY <1>1, <2>1, FS_EmptySet
    <2> QED BY <2>2
  <1>3. ASSUME NEW k \in Nat, k \in S PROVE k + 1 \in S
    <2>1. Q(k)
      BY <1>3
    <2>2. CASE b[k + 1].author # a
      <3>1. Of(b, a, k + 1) = Of(b, a, k)
        BY <2>2, OfGrows
      <3>2. Q(k + 1)
        BY <2>1, <3>1
      <3> QED BY <3>2
    <2>3. CASE b[k + 1].author = a
      <3>1. /\ Of(b, a, k + 1) = Of(b, a, k) \cup {k + 1} /\ k + 1 \notin Of(b, a, k)
            /\ Cardinality(Of(b, a, k + 1)) = Cardinality(Of(b, a, k)) + 1
        BY <2>3, OfGrows
      <3>2. Rank(b, k + 1) = Cardinality(Of(b, a, k)) + 1
        BY <2>3, <3>1 DEF Rank
      <3>3. Cardinality(Of(b, a, k)) \in Nat /\ IsFiniteSet(Of(b, a, k))
        BY OfFinite
      <3>4. IsFiniteSet(F(k)) /\ Cardinality(F(k)) \in Nat
        BY <3>3, FS_Subset, FS_CardinalityType
      <3>5. CASE Cardinality(Of(b, a, k)) < Cap
        <4>1. Rank(b, k + 1) <= Cap
          BY <1>1, <3>2, <3>3, <3>5
        <4>2. F(k + 1) = F(k) \cup {k + 1} /\ k + 1 \notin F(k)
          BY <3>1, <4>1
        <4> HIDE DEF F
        <4>3. Cardinality(F(k + 1)) = Cardinality(F(k)) + 1
          BY <3>4, <4>2, FS_AddElement
        <4>4. Q(k + 1)
          BY <1>1, <2>1, <3>1, <3>3, <3>5, <4>3
        <4> QED BY <4>4
      <3>6. CASE ~(Cardinality(Of(b, a, k)) < Cap)
        <4>1. ~(Rank(b, k + 1) <= Cap)
          BY <1>1, <3>2, <3>3, <3>6
        <4>2. F(k + 1) = F(k)
          BY <3>1, <4>1
        <4> HIDE DEF F
        <4>3. Q(k + 1)
          BY <1>1, <2>1, <3>1, <3>3, <3>6, <4>2
        <4> QED BY <4>3
      <3> QED BY <3>5, <3>6
    <2> QED BY <2>2, <2>3
  <1>4. Nat \subseteq S
    <2> HIDE DEF S
    <2> QED BY <1>2, <1>3, Induction
  <1>5. Q(n)
    BY <1>4
  <1>6. Cardinality(Of(b, a, n)) \in Nat
    BY OfFinite
  <1> QED BY <1>1, <1>5, <1>6

\* authorCount has reached the cap exactly for the items of a higher rank.
LEMMA CountedByRank ==
    ASSUME NEW b, NEW i \in Nat \ {0}
    PROVE  Cardinality({j \in 1..(i - 1) : Rank(b, j) <= Cap /\ b[j].author = b[i].author}) < Cap
           <=> Rank(b, i) <= Cap
  <1> DEFINE a == b[i].author
             n == i - 1
             f == {j \in Of(b, a, n) : Rank(b, j) <= Cap}
  <1>1. Cap \in Nat /\ n \in Nat /\ n + 1 = i
    BY ArgsAssumption DEF Cap
  <1>2. {j \in 1..(i - 1) : Rank(b, j) <= Cap /\ b[j].author = b[i].author} = f
    BY DEF Of
  <1>3. Cardinality(f) = IF Cardinality(Of(b, a, n)) < Cap THEN Cardinality(Of(b, a, n)) ELSE Cap
    BY <1>1, FirstCap
  <1>4. Rank(b, i) = Cardinality(Of(b, a, n)) + 1 /\ Cardinality(Of(b, a, n)) \in Nat
    BY <1>1, OfGrows, OfFinite DEF Rank
  <1>5. Cardinality(f) < Cap <=> Rank(b, i) <= Cap
    <2> HIDE DEF f, n, a
    <2> QED BY <1>1, <1>3, <1>4
  <1> HIDE DEF f
  <1> QED BY <1>2, <1>5, Zenon

\* The loop keeps the items of a rank up to the cap.
LEMMA QueuedByRank ==
    ASSUME NEW b \in Seq(Items)
    PROVE  Queued(b) = {i \in 1..Len(b) : Rank(b, i) <= Cap}
  <1> DEFINE n == Len(b)
             Step(f, i) == Cardinality({j \in 1..(i - 1) : f[j] /\ b[j].author = b[i].author}) < Cap
             Loop(f) == f = [i \in 1..n |-> Step(f, i)]
             g == [i \in 1..n |-> Rank(b, i) <= Cap]
             q == CHOOSE f : Loop(f)
  <1>1. n \in Nat
    OBVIOUS
  <1>2. ASSUME NEW f, NEW i \in 1..n, \A j \in 1..(i - 1) : f[j] = g[j]
        PROVE  Step(f, i) = g[i]
    <2>1. \A j \in 1..(i - 1) : f[j] <=> Rank(b, j) <= Cap
      <3>1. \A j \in 1..(i - 1) : j \in 1..n
        BY <1>1
      <3>2. \A j \in 1..n : g[j] = (Rank(b, j) <= Cap)
        OBVIOUS
      <3> HIDE DEF g
      <3> QED BY <1>2, <3>1, <3>2
    <2>2. {j \in 1..(i - 1) : f[j] /\ b[j].author = b[i].author}
             = {j \in 1..(i - 1) : Rank(b, j) <= Cap /\ b[j].author = b[i].author}
      BY <2>1
    <2>3. i \in Nat \ {0}
      BY <1>1
    <2> QED BY <2>2, <2>3, CountedByRank
  <1>3. Loop(g)
    <2>1. \A i \in 1..n : Step(g, i) = g[i]
      BY <1>2
    <2> HIDE DEF Step
    <2> QED BY <2>1
  <1>4. Loop(q)
    <2> HIDE DEF Loop, g
    <2> QED BY <1>3
  <1>5. Queued(b) = {i \in 1..n : q[i]}
    BY DEF Queued
  <1> HIDE DEF q
  <1>6. \A i \in 1..n : q[i] = Step(q, i)
    BY <1>4
  <1> DEFINE S == {k \in Nat : \A i \in 1..n : i <= k => q[i] = g[i]}
  <1>7. 0 \in S
    OBVIOUS
  <1>8. ASSUME NEW k \in Nat, k \in S PROVE k + 1 \in S
    <2> SUFFICES ASSUME k + 1 \in 1..n PROVE q[k + 1] = g[k + 1]
      BY <1>8
    <2> HIDE DEF g, Step
    <2>1. \A j \in 1..((k + 1) - 1) : q[j] = g[j]
      BY <1>1, <1>8
    <2> QED BY <1>2, <1>6, <2>1
  <1>9. Nat \subseteq S
    <2> HIDE DEF S
    <2> QED BY <1>7, <1>8, Induction
  <1>10. \A i \in 1..n : q[i] = g[i]
    BY <1>1, <1>9
  <1> QED BY <1>5, <1>10

-----------------------------------------------------------------------------
LEMMA InitIInv == Init => IInv
  <1> SUFFICES ASSUME Init PROVE IInv
    OBVIOUS
  <1>1. Holders = {} /\ \A r \in Runs : RunningOf(r) = {}
    BY DEF Init, Holders, RunningOf, TasksOf, Holding, Running
  <1>2. TypeOK
    BY WedgeAssumption DEF Init, TypeOK, Zero, Results, Running, Holding
  <1>3. SharedBound
    BY <1>1, FS_EmptySet, ArgTypes DEF SharedBound, Init
  <1>4. Counted
    BY <1>1, FS_EmptySet DEF Counted, Init
  <1>5. IdleClean
    BY DEF IdleClean, Init, TasksOf
  <1>6. ReturnedQuiet
    BY <1>1 DEF ReturnedQuiet
  <1>7. InBatch
    BY DEF InBatch, Init
  <1> QED BY <1>2, <1>3, <1>4, <1>5, <1>6, <1>7 DEF IInv

LEMMA StepType == ASSUME IInv, [Next]_vars PROVE TypeOK'
  <1> USE DEF TypeOK, Holding, Running, counters
  <1>t. TypeOK
    BY DEF IInv
  <1>h. hung' = hung
    BY DEF Next, vars
  <1>1. ASSUME NEW r \in Runs, Start(r) PROVE TypeOK'
    <2>1. PICK b \in Batches :
            /\ batch' = [batch EXCEPT ![r] = b]
            /\ task' = [t \in Tasks |->
                          IF t[1] # r \/ t[2] > Len(b) THEN task[t]
                          ELSE IF t[2] \in Queued(b) THEN "queued" ELSE "shed"]
            /\ res' = [res EXCEPT ![r].Matched = Len(b),
                                  ![r].Shed = Len(b) - Cardinality(Queued(b))]
            /\ phase' = [phase EXCEPT ![r] = IF Queued(b) = {} THEN "returned"
                                                             ELSE "schedule"]
      BY <1>1 DEF Start
    <2>2. res' \in [Runs -> Results]
      <3> DEFINE shed == Len(b) - Cardinality(Queued(b))
      <3>1. res[r] \in Results
        BY <1>t
      <3>2. Len(b) \in Nat /\ shed \in Nat
        BY ShedType
      <3>3. [res[r] EXCEPT !.Matched = Len(b), !.Shed = shed] \in Results
        <4> HIDE DEF shed
        <4> QED BY <3>1, <3>2 DEF Results
      <3>4. res' = [res EXCEPT ![r] = [res[r] EXCEPT !.Matched = Len(b), !.Shed = shed]]
        BY <2>1, <1>t
      <3> QED BY <3>3, <3>4, <1>t
    <2>3. batch' \in [Runs -> Seq(Items)]
      BY <2>1, <1>t, BatchAssumption
    <2>4. task' \in [Tasks -> {"none", "shed", "queued", "done"} \cup Running]
      BY <2>1, <1>t
    <2>5. phase' \in [Runs -> {"idle", "schedule", "wait", "returned"}]
      BY <2>1, <1>t
    <2> QED BY <2>2, <2>3, <2>4, <2>5, <1>1, <1>t, <1>h DEF Start
  <1>2. ASSUME NEW r \in Runs, NEW t \in Tasks, Schedule(r, t) PROVE TypeOK'
    BY <1>2, <1>t, <1>h DEF Schedule
  <1>3. ASSUME NEW r \in Runs, StopScheduling(r) \/ Cancel(r) PROVE TypeOK'
    BY <1>3, <1>t, <1>h DEF StopScheduling, Cancel
  <1>4. ASSUME NEW r \in Runs, Return(r) PROVE TypeOK'
    <2> DEFINE new == [res[r] EXCEPT !.Pinned = pinned[r], !.Failed = failed[r],
                                     !.IsPinnedErrors = isPinnedErrors[r]]
    <2>1. res[r] \in Results /\ pinned[r] \in Nat /\ failed[r] \in Nat
          /\ isPinnedErrors[r] \in Nat
      BY <1>t
    <2>2. new \in Results
      BY <2>1 DEF Results
    <2>3. res' = [res EXCEPT ![r] = new]
      BY <1>4, <1>t, <1>h DEF Return
    <2>4. res' \in [Runs -> Results]
      <3> HIDE DEF new
      <3> QED BY <2>2, <2>3, <1>t
    <2>5. phase' \in [Runs -> {"idle", "schedule", "wait", "returned"}]
      BY <1>4, <1>t, <1>h DEF Return
    <2> QED BY <1>4, <1>t, <1>h, <2>4, <2>5 DEF Return
  <1>5. ASSUME NEW t \in Tasks, ProbeFails(t) \/ ProbeAnswers(t) PROVE TypeOK'
    <2>1. task' \in [Tasks -> {"none", "shed", "queued", "done"} \cup Running]
          /\ outcome' \in [Tasks -> {"none", "pinned", "failed", "skipped", "error"}]
      BY <1>5, <1>t, <1>h DEF ProbeFails, ProbeAnswers, End
    <2>2. isPinnedErrors' \in [Runs -> Nat]
      <3>1. PICK r \in Runs : r = t[1]
        BY DEF Tasks
      <3>2. \/ isPinnedErrors' = isPinnedErrors
            \/ isPinnedErrors' = [isPinnedErrors EXCEPT ![r] = isPinnedErrors[r] + 1]
        BY <1>5, <3>1 DEF ProbeFails, ProbeAnswers
      <3> QED BY <3>2, <1>t
    <2> QED BY <1>5, <1>t, <1>h, <2>1, <2>2 DEF ProbeFails, ProbeAnswers
  <1>6. ASSUME NEW t \in Tasks, PinFails(t) \/ PinSucceeds(t) PROVE TypeOK'
    <2>1. t[1] \in Runs /\ t[2] \in 1..Len(batch[t[1]])
      BY <1>6 DEF Tasks, IInv, InBatch, PinFails, PinSucceeds
    <2>2. Item(t) \in Items
      BY <2>1, <1>t, <1>h DEF Item
    <2>3. Item(t).cid \in CIDs
      BY <2>2 DEF Items
    <2>4. task' \in [Tasks -> {"none", "shed", "queued", "done"} \cup Running]
          /\ outcome' \in [Tasks -> {"none", "pinned", "failed", "skipped", "error"}]
      BY <1>6, <1>t, <1>h DEF PinFails, PinSucceeds, End
    <2>5. pinned' \in [Runs -> Nat] /\ failed' \in [Runs -> Nat]
      <3>1. PICK r \in Runs : r = t[1]
        BY <2>1
      <3>2. /\ \/ pinned' = pinned
               \/ pinned' = [pinned EXCEPT ![r] = pinned[r] + 1]
            /\ \/ failed' = failed
               \/ failed' = [failed EXCEPT ![r] = failed[r] + 1]
        BY <1>6, <3>1 DEF PinFails, PinSucceeds
      <3>3. pinned \in [Runs -> Nat] /\ failed \in [Runs -> Nat]
        BY <1>t
      <3>4. pinned' \in [Runs -> Nat]
        BY <3>2, <3>3
      <3>5. failed' \in [Runs -> Nat]
        BY <3>2, <3>3
      <3> QED BY <3>4, <3>5
    <2>6. backend' \subseteq CIDs
      BY <1>6, <1>t, <2>3 DEF PinFails, PinSucceeds
    <2> QED BY <1>6, <1>t, <1>h, <2>4, <2>5, <2>6 DEF PinFails, PinSucceeds
  <1>7. ASSUME NEW t \in Tasks, ReleaseToken(t) PROVE TypeOK'
    <2>1. t \in Holders /\ sem = Cardinality(Holders)
      BY <1>7 DEF ReleaseToken, Holders, IInv, SharedBound
    <2>2. sem > 0
      BY <2>1, <1>t, SubsFinite, FS_EmptySet
    <2> QED BY <1>7, <1>t, <1>h, <2>2 DEF ReleaseToken
  <1>8. ASSUME NEW t \in Tasks, GoroutineDone(t) PROVE TypeOK'
    <2>1. t[1] \in Runs
      BY DEF Tasks
    <2>2. t \in RunningOf(t[1]) /\ wg[t[1]] = Cardinality(RunningOf(t[1]))
      BY <1>8, <2>1 DEF GoroutineDone, RunningOf, TasksOf, IInv, Counted
    <2>3. wg[t[1]] > 0
      BY <2>1, <2>2, <1>t, SubsFinite, FS_EmptySet
    <2> QED BY <1>8, <1>t, <1>h, <2>1, <2>3 DEF GoroutineDone
  <1>9. ASSUME UNCHANGED vars PROVE TypeOK'
    BY <1>9, <1>t, <1>h DEF vars
  <1> QED BY <1>1, <1>2, <1>3, <1>4, <1>5, <1>6, <1>7, <1>8, <1>9
          DEF Next, RunStep, TaskStep

\* The semaphore and the WaitGroups keep counting goroutines.
LEMMA StepCount ==
    ASSUME IInv, [Next]_vars
    PROVE  SharedBound' /\ Counted'
  <1>t. TypeOK /\ SharedBound /\ Counted
    BY DEF IInv
  <1>e. \A t \in Tasks : t[1] \in Runs
    BY DEF Tasks
  <1>f. sem \in Nat /\ \A r \in Runs : wg[r] \in Nat
    BY <1>t DEF TypeOK
  <1>1. ASSUME NEW r \in Runs, Start(r) PROVE SharedBound' /\ Counted'
    <2>1. PICK b \in Batches :
            task' = [t \in Tasks |->
                          IF t[1] # r \/ t[2] > Len(b) THEN task[t]
                          ELSE IF t[2] \in Queued(b) THEN "queued" ELSE "shed"]
      BY <1>1 DEF Start
    <2>2. \A t \in Tasks : t[1] = r => task[t] = "none"
      BY <1>1 DEF Start, IInv, IdleClean, TasksOf
    <2>3. \A t \in Tasks : task[t] = task'[t]
                         \/ /\ task[t] = "none"
                            /\ task'[t] \in {"queued", "shed"}
      BY <2>1, <2>2
    <2>4. Holders' = Holders
      BY <2>3 DEF Holders, Holding
    <2>5. \A q \in Runs : RunningOf(q)' = RunningOf(q)
      BY <2>3 DEF RunningOf, TasksOf, Running, Holding
    <2> QED BY <1>t, <1>1, <2>4, <2>5 DEF Start, SharedBound, Counted
  <1>2. ASSUME NEW r \in Runs, NEW t \in Tasks, Schedule(r, t)
        PROVE  SharedBound' /\ Counted'
    <2>1. /\ task[t] = "queued" /\ t[1] = r /\ sem < Concurrency
          /\ sem' = sem + 1 /\ wg' = [wg EXCEPT ![r] = @ + 1]
          /\ task' = [task EXCEPT ![t] = "probe"]
      BY <1>2 DEF Schedule, Pending, TasksOf
    <2>2. Holders' = Holders \cup {t} /\ t \notin Holders
      BY <1>t, <2>1, HoldersChange DEF Holders, Holding
    <2>3. RunningOf(r)' = RunningOf(r) \cup {t} /\ t \notin RunningOf(r)
      BY <1>t, <2>1, RunningChange DEF RunningOf, Running, Holding
    <2>4. \A q \in Runs : q # r => RunningOf(q)' = RunningOf(q)
      BY <1>t, <2>1, RunningChange
    <2>5. SharedBound'
      <3>1. Cardinality(Holders') = sem + 1
        BY <2>2, <1>t, SubsFinite, FS_AddElement DEF SharedBound
      <3>2. sem + 1 <= Concurrency
        BY <2>1, <1>f, ArgTypes
      <3> QED BY <2>1, <3>1, <3>2 DEF SharedBound
    <2>6. Counted'
      <3>1. Cardinality(RunningOf(r)') = wg[r] + 1
        BY <2>3, <1>t, SubsFinite, FS_AddElement DEF Counted
      <3>2. wg' = [q \in Runs |-> IF q = r THEN wg[r] + 1 ELSE wg[q]]
        BY <2>1, <1>t DEF TypeOK
      <3> QED BY <3>1, <3>2, <2>4, <1>t DEF Counted
    <2> QED BY <2>5, <2>6
  <1>3. ASSUME NEW r \in Runs, StopScheduling(r) \/ Cancel(r) \/ Return(r)
        PROVE  SharedBound' /\ Counted'
    BY <1>3, <1>t DEF StopScheduling, Cancel, Return, SharedBound, Counted,
                      Holders, RunningOf
  <1>4. ASSUME NEW t \in Tasks,
               ProbeFails(t) \/ ProbeAnswers(t) \/ PinFails(t) \/ PinSucceeds(t)
        PROVE  SharedBound' /\ Counted'
    <2>1. PICK v \in Holding : task' = [task EXCEPT ![t] = v]
      BY <1>4 DEF ProbeFails, ProbeAnswers, PinFails, PinSucceeds, End, Holding
    <2>2. task[t] \in Holding /\ sem' = sem /\ wg' = wg
      BY <1>4 DEF ProbeFails, ProbeAnswers, PinFails, PinSucceeds, Holding
    <2>3. Holders' = Holders
      BY <1>t, <2>1, <2>2, HoldersChange DEF Holders
    <2>4. \A r \in Runs : RunningOf(r)' = RunningOf(r)
      BY <1>t, <2>1, <2>2, RunningChange DEF RunningOf, TasksOf, Running
    <2> QED BY <1>t, <2>2, <2>3, <2>4 DEF SharedBound, Counted
  <1>5. ASSUME NEW t \in Tasks, ReleaseToken(t) PROVE SharedBound' /\ Counted'
    <2>1. /\ task[t] = "release" /\ sem' = sem - 1 /\ wg' = wg
          /\ task' = [task EXCEPT ![t] = "exit"]
      BY <1>5 DEF ReleaseToken
    <2>2. Holders' = Holders \ {t} /\ t \in Holders
      BY <1>t, <2>1, HoldersChange DEF Holders, Holding
    <2>3. \A r \in Runs : RunningOf(r)' = RunningOf(r)
      BY <1>t, <2>1, RunningChange DEF RunningOf, TasksOf, Running, Holding
    <2>4. Cardinality(Holders') = sem - 1
      BY <2>2, <1>t, SubsFinite, FS_RemoveElement DEF SharedBound
    <2>5. SharedBound'
      BY <2>1, <2>4, <1>t, <1>f, ArgTypes DEF SharedBound, Concurrency
    <2> QED BY <1>t, <2>1, <2>3, <2>5 DEF Counted
  <1>6. ASSUME NEW t \in Tasks, GoroutineDone(t) PROVE SharedBound' /\ Counted'
    <2> DEFINE r == t[1]
    <2>1. /\ task[t] = "exit" /\ sem' = sem /\ r \in Runs
          /\ wg' = [wg EXCEPT ![r] = @ - 1]
          /\ task' = [task EXCEPT ![t] = "done"]
      BY <1>6, <1>e DEF GoroutineDone
    <2>2. Holders' = Holders
      BY <1>t, <2>1, HoldersChange DEF Holders, Holding
    <2>3. RunningOf(r)' = RunningOf(r) \ {t} /\ t \in RunningOf(r)
      <3>1. "done" \notin Running
        BY DEF Running, Holding
      <3>2. RunningOf(r)' = RunningOf(r) \ {t}
        BY <1>t, <2>1, <3>1, RunningChange
      <3>3. t \in RunningOf(r)
        BY <2>1 DEF RunningOf, TasksOf, Running
      <3> QED BY <3>2, <3>3
    <2>4. \A q \in Runs : q # r => RunningOf(q)' = RunningOf(q)
      BY <1>t, <2>1, RunningChange
    <2>5. Cardinality(RunningOf(r)') = wg[r] - 1
      BY <2>1, <2>3, <1>t, SubsFinite, FS_RemoveElement DEF Counted
    <2>6. wg' = [q \in Runs |-> IF q = r THEN wg[r] - 1 ELSE wg[q]]
      BY <2>1, <1>t DEF TypeOK
    <2>7. Counted'
      <3> HIDE DEF r
      <3> QED BY <2>4, <2>5, <2>6, <1>t DEF Counted
    <2> QED BY <1>t, <2>1, <2>2, <2>7 DEF SharedBound
  <1>7. ASSUME UNCHANGED vars PROVE SharedBound' /\ Counted'
    BY <1>7, <1>t DEF vars, SharedBound, Counted, Holders, RunningOf
  <1> QED BY <1>1, <1>2, <1>3, <1>4, <1>5, <1>6, <1>7 DEF Next, RunStep, TaskStep

\* Return finds no goroutine because the counter it waited for is theirs.
LEMMA StepQuiet ==
    ASSUME IInv, [Next]_vars
    PROVE  IdleClean' /\ InBatch' /\ ReturnedQuiet'
  <1>t. TypeOK /\ Counted /\ IdleClean /\ InBatch /\ ReturnedQuiet
    BY DEF IInv
  <1>e. \A t \in Tasks : t[1] \in Runs /\ t[2] \in 1..MaxBatch
    BY DEF Tasks
  <1>1. ASSUME NEW r \in Runs, Start(r) PROVE IdleClean' /\ InBatch' /\ ReturnedQuiet'
    <2>1. PICK b \in Batches :
            /\ batch' = [batch EXCEPT ![r] = b]
            /\ task' = [t \in Tasks |->
                          IF t[1] # r \/ t[2] > Len(b) THEN task[t]
                          ELSE IF t[2] \in Queued(b) THEN "queued" ELSE "shed"]
            /\ phase' = [phase EXCEPT ![r] = IF Queued(b) = {} THEN "returned"
                                                             ELSE "schedule"]
      BY <1>1 DEF Start
    <2>2. \A t \in Tasks : t[1] = r => task[t] = "none"
      BY <1>1, <1>t DEF Start, IdleClean, TasksOf
    <2>3. \A q \in Runs : q # r => phase'[q] = phase[q] /\ batch'[q] = batch[q]
      BY <2>1, <1>t DEF TypeOK
    <2>4. phase'[r] # "idle" /\ batch'[r] = b
      BY <2>1, <1>t DEF TypeOK
    <2>5. \A t \in Tasks : t[1] # r => task'[t] = task[t]
      BY <2>1
    <2>6. \A t \in Tasks : t[1] = r => task'[t] \in {"none", "queued", "shed"}
      BY <2>1, <2>2
    <2>7. IdleClean'
      BY <2>3, <2>4, <2>5, <1>t DEF IdleClean, TasksOf
    <2>8. InBatch'
      <3> SUFFICES ASSUME NEW t \in Tasks, task'[t] # "none"
                   PROVE  t[2] \in 1..Len(batch'[t[1]])
        BY DEF InBatch
      <3>1. CASE t[1] = r
        <4>1. Len(b) \in Nat
          BY BatchAssumption
        <4>2. ~(t[2] > Len(b))
          BY <3>1, <2>1, <2>2
        <4> QED BY <4>1, <4>2, <3>1, <2>4, <1>e, BatchAssumption
      <3>2. CASE t[1] # r
        BY <3>2, <2>3, <2>5, <1>e, <1>t DEF InBatch
      <3> QED BY <3>1, <3>2
    <2>9. ReturnedQuiet'
      <3> SUFFICES ASSUME NEW q \in Runs, phase'[q] = "returned"
                   PROVE  RunningOf(q)' = {}
        BY DEF ReturnedQuiet
      <3>1. CASE q = r
        BY <3>1, <2>6 DEF RunningOf, TasksOf, Running, Holding
      <3>2. CASE q # r
        <4>1. RunningOf(q) = {}
          BY <3>2, <2>3, <1>t DEF ReturnedQuiet
        <4> QED BY <4>1, <3>2, <2>5 DEF RunningOf, TasksOf
      <3> QED BY <3>1, <3>2
    <2> QED BY <2>7, <2>8, <2>9
  <1>2. ASSUME NEW r \in Runs, NEW t \in Tasks, Schedule(r, t)
        PROVE  IdleClean' /\ InBatch' /\ ReturnedQuiet'
    <2>1. /\ phase[r] = "schedule" /\ t[1] = r /\ task[t] = "queued"
          /\ task' = [task EXCEPT ![t] = "probe"] /\ phase' = phase /\ batch' = batch
      BY <1>2 DEF Schedule, Pending, TasksOf
    <2>2. \A u \in Tasks : u # t => task'[u] = task[u]
      BY <2>1, <1>t DEF TypeOK
    <2>3. IdleClean'
      BY <2>1, <2>2, <1>t DEF IdleClean, TasksOf
    <2>4. InBatch'
      BY <2>1, <2>2, <1>t DEF InBatch
    <2>5. ReturnedQuiet'
      BY <2>1, <2>2, <1>t DEF ReturnedQuiet, RunningOf, TasksOf
    <2> QED BY <2>3, <2>4, <2>5
  <1>3. ASSUME NEW r \in Runs, StopScheduling(r) \/ Cancel(r)
        PROVE  IdleClean' /\ InBatch' /\ ReturnedQuiet'
    <2>1. task' = task /\ batch' = batch
          /\ \A q \in Runs : phase'[q] = phase[q] \/ phase'[q] = "wait"
      BY <1>3, <1>t DEF StopScheduling, Cancel, TypeOK
    <2> QED BY <2>1, <1>t DEF IdleClean, InBatch, ReturnedQuiet, RunningOf
  <1>4. ASSUME NEW r \in Runs, Return(r) PROVE IdleClean' /\ InBatch' /\ ReturnedQuiet'
    <2>1. task' = task /\ batch' = batch /\ wg[r] = 0 /\ phase'[r] = "returned"
          /\ \A q \in Runs : q # r => phase'[q] = phase[q]
      BY <1>4, <1>t DEF Return, TypeOK
    <2>2. RunningOf(r) = {}
      BY <2>1, <1>t, SubsFinite, FS_EmptySet DEF Counted
    <2> QED BY <2>1, <2>2, <1>t DEF IdleClean, InBatch, ReturnedQuiet, RunningOf
  <1>5. ASSUME NEW t \in Tasks, TaskStep(t)
        PROVE  IdleClean' /\ InBatch' /\ ReturnedQuiet'
    <2>1. task[t] \in Running /\ phase' = phase /\ batch' = batch
          /\ \E v : task' = [task EXCEPT ![t] = v]
      BY <1>5 DEF TaskStep, ProbeFails, ProbeAnswers, PinFails, PinSucceeds, End,
                  ReleaseToken, GoroutineDone, Running, Holding
    <2>2. task[t] # "none"
      BY <2>1 DEF Running, Holding
    <2>3. t \in RunningOf(t[1]) /\ phase[t[1]] # "returned" /\ phase[t[1]] # "idle"
      BY <2>1, <2>2, <1>e, <1>t DEF RunningOf, TasksOf, ReturnedQuiet, IdleClean
    <2>4. \A u \in Tasks : u # t => task'[u] = task[u]
      BY <2>1, <1>t DEF TypeOK
    <2>5. IdleClean'
      BY <2>1, <2>3, <2>4, <1>t DEF IdleClean, TasksOf
    <2>6. InBatch'
      BY <2>1, <2>2, <2>4, <1>t DEF InBatch
    <2>7. ReturnedQuiet'
      BY <2>1, <2>3, <2>4, <1>t DEF ReturnedQuiet, RunningOf, TasksOf
    <2> QED BY <2>5, <2>6, <2>7
  <1>6. ASSUME UNCHANGED vars PROVE IdleClean' /\ InBatch' /\ ReturnedQuiet'
    BY <1>6, <1>t DEF vars, IdleClean, InBatch, ReturnedQuiet, RunningOf
  <1> QED BY <1>1, <1>2, <1>3, <1>4, <1>5, <1>6 DEF Next, RunStep

LEMMA Inductive == Spec => []IInv
  <1>1. IInv /\ [Next]_vars => IInv'
    BY StepType, StepCount, StepQuiet DEF IInv
  <1> QED BY InitIInv, <1>1, PTL DEF Spec

\* Run's state has its types for all batches and arguments.
THEOREM TypeCorrect == Spec => []TypeOK
  BY Inductive, PTL DEF IInv

\* AutoPinRunner's comment: "a discovery refresh and an operator-triggered
\* evaluate-rules invocation cannot together exceed `concurrency` in-flight pins".
THEOREM PoolBounded == Spec => []SharedBound
  BY Inductive, PTL DEF IInv

\* Run "blocks until every goroutine it dispatched completes".
THEOREM RunDrainsItsPool == Spec => []ReturnedQuiet
  BY Inductive, PTL DEF IInv

\* The first loop of Run keeps exactly the first authorCap items of every author,
\* for any batch and cap.
THEOREM CapKeepsTheFirst == Spec => []FirstOfEachAuthor
  <1>1. TypeOK => FirstOfEachAuthor
    <2> SUFFICES ASSUME TypeOK, NEW r \in Runs
                 PROVE  Queued(batch[r]) = {i \in 1..Len(batch[r]) : Rank(batch[r], i) <= Cap}
      BY DEF FirstOfEachAuthor, Rank, Of
    <2> QED BY QueuedByRank DEF TypeOK
  <1> QED BY <1>1, TypeCorrect, PTL

-----------------------------------------------------------------------------
(* The accounts *)

\* The goroutines of r that stand at s.
Standing(r, s) == {t \in TasksOf(r) : task[t] = s}

\* A goroutine has an outcome from its last backend call on.
Ended == \A t \in Tasks : outcome[t] # "none" <=> task[t] \in {"release", "exit", "done"}

\* The counters of a call count outcomes.
Ledger == \A r \in Runs : /\ pinned[r] = Count(r, "pinned") /\ failed[r] = Count(r, "failed")
                          /\ isPinnedErrors[r] = Count(r, "error")

\* Every item of the batch has been queued or shed, and the result says how many.
Headed == \A r \in Runs :
    /\ phase[r] = "idle" => res[r] = Zero
    /\ phase[r] # "idle" => /\ Len(batch[r]) <= MaxBatch /\ res[r].Matched = Len(batch[r])
                            /\ res[r].Shed = Cardinality(Standing(r, "shed"))
                            /\ \A t \in TasksOf(r) : t[2] <= Len(batch[r]) => task[t] # "none"

\* A returned result has the counters, which do not change any more.
Final == \A r \in Runs : phase[r] = "returned" =>
    /\ res[r].Pinned = pinned[r] /\ res[r].Failed = failed[r]
    /\ res[r].IsPinnedErrors = isPinnedErrors[r]

\* Only a cancelled call leaves its schedule loop with items that are queued.
Scheduled == \A r \in Runs : phase[r] \in {"wait", "returned"} /\ ~ctxDone[r] => Pending(r) = {}

Accounts == Ended /\ Ledger /\ Headed /\ Final /\ Scheduled

Endings == {"pinned", "failed", "skipped", "error"}

LEMMA PartsFinite ==
    ASSUME NEW r \in Runs, NEW s
    PROVE  IsFiniteSet(Standing(r, s)) /\ IsFiniteSet({t \in TasksOf(r) : outcome[t] = s})
  <1>1. Standing(r, s) \in SUBSET Tasks /\ {t \in TasksOf(r) : outcome[t] = s} \in SUBSET Tasks
    BY DEF Standing, TasksOf
  <1> QED BY <1>1, TasksFinite, FS_Subset

LEMMA UpTo ==
    ASSUME NEW n \in Nat
    PROVE  IsFiniteSet(1..n) /\ Cardinality(1..n) = n
  <1>1. IsFiniteSet(1..n) /\ Cardinality(1..n) = IF 1 > n THEN 0 ELSE n - 1 + 1
    BY FS_Interval
  <1> QED BY <1>1

\* The positions of a set of numbers.
LEMMA Positions ==
    ASSUME NEW r \in Runs, NEW N \in SUBSET (1..MaxBatch)
    PROVE  Cardinality({t \in TasksOf(r) : t[2] \in N}) = Cardinality(N)
  <1>1. {t \in TasksOf(r) : t[2] \in N} = {r} \X N
    BY DEF TasksOf, Tasks
  <1>2. IsFiniteSet(1..MaxBatch)
    BY BatchAssumption, FS_Interval
  <1>3. IsFiniteSet(N) /\ Cardinality(N) \in Nat
    BY <1>2, FS_Subset, FS_CardinalityType
  <1>4. IsFiniteSet({r}) /\ Cardinality({r}) = 1
    BY FS_Singleton
  <1>5. Cardinality({r} \X N) = Cardinality({r}) * Cardinality(N)
    BY <1>3, <1>4, FS_Product
  <1>6. Cardinality({r} \X N) = Cardinality(N)
    BY <1>3, <1>4, <1>5
  <1> QED BY <1>1, <1>6

LEMMA DisjointSum ==
    ASSUME NEW A, NEW B, IsFiniteSet(A), IsFiniteSet(B), A \cap B = {}
    PROVE  IsFiniteSet(A \cup B) /\ Cardinality(A \cup B) = Cardinality(A) + Cardinality(B)
  <1>1. Cardinality(A) \in Nat /\ Cardinality(B) \in Nat
    BY FS_CardinalityType
  <1>2. /\ IsFiniteSet(A \cup B)
        /\ Cardinality(A \cup B) = Cardinality(A) + Cardinality(B) - Cardinality(A \cap B)
    BY FS_Union
  <1>3. Cardinality(A \cap B) = 0
    BY FS_EmptySet
  <1> QED BY <1>1, <1>2, <1>3

LEMMA InitAccounts == Init => Accounts
  <1> SUFFICES ASSUME Init PROVE Accounts
    OBVIOUS
  <1> USE DEF Init
  <1>1. Ended
    BY DEF Ended
  <1>2. Ledger
    <2> SUFFICES ASSUME NEW r \in Runs
                 PROVE  Count(r, "pinned") = 0 /\ Count(r, "failed") = 0 /\ Count(r, "error") = 0
      BY DEF Ledger
    <2>1. ASSUME NEW o \in Endings PROVE Count(r, o) = 0
      <3>1. {t \in TasksOf(r) : outcome[t] = o} = {}
        BY DEF TasksOf, Endings
      <3> QED BY <3>1, FS_EmptySet DEF Count
    <2> QED BY <2>1 DEF Endings
  <1>3. Headed /\ Final /\ Scheduled
    BY DEF Headed, Final, Scheduled
  <1> QED BY <1>1, <1>2, <1>3 DEF Accounts

\* An outcome more.
LEMMA CountChange ==
    ASSUME TypeOK, NEW t \in Tasks, NEW o \in Endings, outcome[t] = "none",
           outcome' = [outcome EXCEPT ![t] = o], NEW r \in Runs, NEW v \in Endings
    PROVE  Count(r, v)' = IF r = t[1] /\ v = o THEN Count(r, v) + 1 ELSE Count(r, v)
  <1> DEFINE A == {u \in TasksOf(r) : outcome[u] = v}
             B == {u \in TasksOf(r) : outcome'[u] = v}
  <1>1. Count(r, v) = Cardinality(A) /\ Count(r, v)' = Cardinality(B)
    BY DEF Count, TasksOf
  <1>2. \A u \in Tasks : outcome'[u] = IF u = t THEN o ELSE outcome[u]
    BY DEF TypeOK
  <1>3. CASE r = t[1] /\ v = o
    <2>1. B = A \cup {t} /\ t \notin A
      BY <1>2, <1>3 DEF TasksOf, Endings
    <2>2. Cardinality(B) = Cardinality(A) + 1
      <3>1. IsFiniteSet(A)
        BY PartsFinite
      <3> HIDE DEF A, B
      <3> QED BY <2>1, <3>1, FS_AddElement
    <2> QED BY <1>1, <1>3, <2>2
  <1>4. CASE ~(r = t[1] /\ v = o)
    <2>1. B = A
      BY <1>2, <1>4 DEF TasksOf, Endings
    <2> QED BY <1>1, <1>4, <2>1
  <1> QED BY <1>3, <1>4

\* No counter changes.
LEMMA LedgerStays ==
    ASSUME Ledger, UNCHANGED <<outcome, pinned, failed, isPinnedErrors>>
    PROVE  Ledger'
  <1>1. \A r \in Runs, o \in Endings : Count(r, o)' = Count(r, o)
    BY DEF Count, TasksOf
  <1> QED BY <1>1 DEF Ledger, Endings

\* Run begins.
LEMMA StartAccounts ==
    ASSUME IInv, Accounts, NEW r \in Runs, Start(r)
    PROVE  Accounts'
  <1>1. PICK b \in Batches :
            /\ batch' = [batch EXCEPT ![r] = b]
            /\ task' = [t \in Tasks |->
                          IF t[1] # r \/ t[2] > Len(b) THEN task[t]
                          ELSE IF t[2] \in Queued(b) THEN "queued" ELSE "shed"]
            /\ res' = [res EXCEPT ![r].Matched = Len(b),
                                  ![r].Shed = Len(b) - Cardinality(Queued(b))]
            /\ phase' = [phase EXCEPT ![r] = IF Queued(b) = {} THEN "returned"
                                                             ELSE "schedule"]
    BY DEF Start
  <1>2. /\ TypeOK /\ phase[r] = "idle" /\ UNCHANGED <<ctxDone, outcome, pinned, failed, isPinnedErrors>>
        /\ \A t \in TasksOf(r) : task[t] = "none" /\ outcome[t] = "none"
    BY DEF IInv, Start, counters, IdleClean, Accounts, Ended, TasksOf
  <1>3. Len(b) \in Nat /\ Len(b) <= MaxBatch /\ MaxBatch \in Nat
        /\ Queued(b) \subseteq 1..Len(b)
    BY BatchAssumption DEF Queued
  <1>4. /\ \A t \in Tasks : t[1] # r => task'[t] = task[t]
        /\ \A t \in TasksOf(r) : task'[t] = IF t[2] > Len(b) THEN "none"
                                            ELSE IF t[2] \in Queued(b) THEN "queued" ELSE "shed"
    BY <1>1, <1>2 DEF TasksOf
  <1>5. /\ \A q \in Runs \ {r} : phase'[q] = phase[q] /\ batch'[q] = batch[q] /\ res'[q] = res[q]
        /\ batch'[r] = b /\ phase'[r] = IF Queued(b) = {} THEN "returned" ELSE "schedule"
        /\ res'[r].Matched = Len(b) /\ res'[r].Shed = Len(b) - Cardinality(Queued(b))
    BY <1>1, <1>2 DEF TypeOK, Results
  <1>6. Ended'
    <2> SUFFICES ASSUME NEW t \in Tasks
                 PROVE  outcome[t] # "none" <=> task'[t] \in {"release", "exit", "done"}
      BY <1>2 DEF Ended
    <2>1. CASE t[1] = r
      <3>1. t \in TasksOf(r)
        BY <2>1 DEF TasksOf
      <3> QED BY <1>2, <1>4, <3>1
    <2>2. CASE t[1] # r
      BY <1>4, <2>2 DEF Accounts, Ended
    <2> QED BY <2>1, <2>2
  <1>7. Ledger'
    BY <1>2, LedgerStays DEF Accounts
  <1>8. Headed'
    <2>1. ASSUME NEW q \in Runs, q # r PROVE Standing(q, "shed")' = Standing(q, "shed")
      BY <1>4, <2>1 DEF Standing, TasksOf
    <2>2. Cardinality(Standing(r, "shed")') = Len(b) - Cardinality(Queued(b))
      <3> DEFINE N == (1..Len(b)) \ Queued(b)
      <3>1. Standing(r, "shed")' = {t \in TasksOf(r) : t[2] \in N}
        <4>1. \A t \in TasksOf(r) : task'[t] = "shed" <=> t[2] \in N
          BY <1>3, <1>4 DEF TasksOf, Tasks
        <4> QED BY <4>1 DEF Standing, TasksOf
      <3>2. N \in SUBSET (1..MaxBatch)
        BY <1>3
      <3>3. IsFiniteSet(1..Len(b)) /\ Cardinality(1..Len(b)) = Len(b)
        BY <1>3, UpTo
      <3>4. (1..Len(b)) \cap Queued(b) = Queued(b)
        BY <1>3
      <3>5. Cardinality(N) = Len(b) - Cardinality(Queued(b))
        BY <3>3, <3>4, FS_Difference
      <3> HIDE DEF N
      <3> QED BY <3>1, <3>2, <3>5, Positions
    <2>3. \A t \in TasksOf(r) : t[2] <= Len(b) => task'[t] # "none"
      <3>1. \A t \in TasksOf(r) : t[2] \in Nat
        BY DEF TasksOf, Tasks
      <3> QED BY <1>3, <1>4, <3>1
    <2>4. \A q \in Runs \ {r} : \A t \in TasksOf(q) : task'[t] = task[t]
      BY <1>4 DEF TasksOf
    <2> SUFFICES ASSUME NEW q \in Runs
                 PROVE  /\ phase'[q] = "idle" => res'[q] = Zero
                        /\ phase'[q] # "idle" =>
                             /\ Len(batch'[q]) <= MaxBatch /\ res'[q].Matched = Len(batch'[q])
                             /\ res'[q].Shed = Cardinality(Standing(q, "shed")')
                             /\ \A t \in TasksOf(q) : t[2] <= Len(batch'[q]) => task'[t] # "none"
      BY DEF Headed, TasksOf
    <2>5. CASE q = r
      BY <1>3, <1>5, <2>2, <2>3, <2>5
    <2>6. CASE q # r
      BY <1>5, <2>1, <2>4, <2>6 DEF Accounts, Headed
    <2> QED BY <2>5, <2>6
  <1>9. Final'
    <2>1. res'[r].Pinned = 0 /\ res'[r].Failed = 0 /\ res'[r].IsPinnedErrors = 0
      <3>1. res[r] = Zero
        BY <1>2 DEF Accounts, Headed
      <3> QED BY <1>1, <1>2, <3>1 DEF TypeOK, Results, Zero
    <2>2. ASSUME NEW o \in Endings PROVE Count(r, o) = 0
      <3>1. {t \in TasksOf(r) : outcome[t] = o} = {}
        BY <1>2 DEF Endings
      <3> QED BY <3>1, FS_EmptySet DEF Count
    <2>3. pinned[r] = 0 /\ failed[r] = 0 /\ isPinnedErrors[r] = 0
      BY <2>2 DEF Accounts, Ledger, Endings
    <2> QED BY <1>2, <1>5, <2>1, <2>3 DEF Accounts, Final
  <1>10. Scheduled'
    <2> SUFFICES ASSUME NEW q \in Runs, phase'[q] \in {"wait", "returned"}, ~ctxDone[q]
                 PROVE  Pending(q)' = {}
      BY <1>2 DEF Scheduled
    <2>1. CASE q = r
      <3>1. Queued(b) = {}
        BY <1>5, <2>1
      <3> QED BY <1>4, <2>1, <3>1 DEF Pending, TasksOf
    <2>2. CASE q # r
      <3>1. Pending(q) = {}
        BY <1>5, <2>2 DEF Accounts, Scheduled
      <3> QED BY <1>4, <2>2, <3>1 DEF Pending, TasksOf
    <2> QED BY <2>1, <2>2
  <1> QED BY <1>6, <1>7, <1>8, <1>9, <1>10 DEF Accounts

\* A goroutine moves on, and neither the queue nor what was shed changes.
LEMMA MoveAccounts ==
    ASSUME IInv, Accounts, NEW t \in Tasks, NEW v, task' = [task EXCEPT ![t] = v],
           task[t] \notin {"none", "shed"}, v \notin {"none", "shed", "queued"},
           phase[t[1]] \notin {"wait", "returned"} \/ task[t] # "queued",
           UNCHANGED <<phase, batch, res, ctxDone>>
    PROVE  Headed' /\ Scheduled'
  <1>1. \A u \in Tasks : task'[u] = IF u = t THEN v ELSE task[u]
    BY DEF IInv, TypeOK
  <1>2. \A r \in Runs : Standing(r, "shed")' = Standing(r, "shed")
    BY <1>1 DEF Standing, TasksOf
  <1>3. \A u \in Tasks : task[u] # "none" => task'[u] # "none"
    BY <1>1
  <1>4. Headed'
    BY <1>2, <1>3 DEF Accounts, Headed, TasksOf
  <1>5. Scheduled'
    <2> SUFFICES ASSUME NEW r \in Runs, phase[r] \in {"wait", "returned"}, ~ctxDone[r]
                 PROVE  Pending(r)' = {}
      BY DEF Scheduled
    <2>1. Pending(r) = {}
      BY DEF Accounts, Scheduled
    <2> QED BY <1>1, <2>1 DEF Pending, TasksOf
  <1> QED BY <1>4, <1>5

\* A backend call ends with the outcome o, and one counter more.
LEMMA EndAccounts ==
    ASSUME IInv, Accounts, NEW t \in Tasks, NEW o \in Endings, End(t, o),
           task[t] \in {"probe", "pin"}, UNCHANGED <<phase, batch, res, ctxDone>>,
           pinned' = IF o = "pinned" THEN [pinned EXCEPT ![t[1]] = @ + 1] ELSE pinned,
           failed' = IF o = "failed" THEN [failed EXCEPT ![t[1]] = @ + 1] ELSE failed,
           isPinnedErrors' = IF o = "error" THEN [isPinnedErrors EXCEPT ![t[1]] = @ + 1]
                                            ELSE isPinnedErrors
    PROVE  Accounts'
  <1>1. /\ TypeOK /\ t[1] \in Runs
        /\ task' = [task EXCEPT ![t] = "release"] /\ outcome' = [outcome EXCEPT ![t] = o]
    BY DEF IInv, End, Tasks
  <1>2. outcome[t] = "none"
    BY DEF Accounts, Ended
  <1>3. Headed' /\ Scheduled'
    BY <1>1, MoveAccounts
  <1>4. Ended'
    <2>1. \A u \in Tasks : /\ task'[u] = IF u = t THEN "release" ELSE task[u]
                           /\ outcome'[u] = IF u = t THEN o ELSE outcome[u]
      BY <1>1 DEF TypeOK
    <2> QED BY <2>1 DEF Accounts, Ended, Endings
  <1>5. /\ \A r \in Runs : /\ pinned'[r] = IF r = t[1] /\ o = "pinned" THEN pinned[r] + 1 ELSE pinned[r]
                           /\ failed'[r] = IF r = t[1] /\ o = "failed" THEN failed[r] + 1 ELSE failed[r]
                           /\ isPinnedErrors'[r] = IF r = t[1] /\ o = "error"
                                                   THEN isPinnedErrors[r] + 1 ELSE isPinnedErrors[r]
    BY <1>1 DEF TypeOK
  <1>6. Ledger'
    <2> SUFFICES ASSUME NEW r \in Runs
                 PROVE  /\ pinned'[r] = Count(r, "pinned")' /\ failed'[r] = Count(r, "failed")'
                        /\ isPinnedErrors'[r] = Count(r, "error")'
      BY DEF Ledger
    <2>1. \A w \in Endings : Count(r, w)' = IF r = t[1] /\ w = o THEN Count(r, w) + 1 ELSE Count(r, w)
      BY <1>1, <1>2, CountChange
    <2>2. /\ pinned[r] = Count(r, "pinned") /\ failed[r] = Count(r, "failed")
          /\ isPinnedErrors[r] = Count(r, "error")
      BY DEF Accounts, Ledger
    <2> QED BY <1>5, <2>1, <2>2 DEF Endings
  <1>7. Final'
    <2>1. phase[t[1]] # "returned"
      BY <1>1 DEF IInv, ReturnedQuiet, RunningOf, TasksOf, Running, Holding
    <2> QED BY <1>5, <2>1 DEF Accounts, Final
  <1> QED BY <1>3, <1>4, <1>6, <1>7 DEF Accounts

LEMMA StepAccounts ==
    ASSUME IInv, Accounts, [Next]_vars
    PROVE  Accounts'
  <1> USE DEF counters
  <1>t. TypeOK
    BY DEF IInv
  <1>1. ASSUME NEW r \in Runs, NEW t \in Tasks, Schedule(r, t) PROVE Accounts'
    <2>1. /\ phase[r] = "schedule" /\ t[1] = r /\ task[t] = "queued"
          /\ task' = [task EXCEPT ![t] = "probe"]
          /\ UNCHANGED <<phase, batch, ctxDone, outcome, pinned, failed, isPinnedErrors, res>>
      BY <1>1 DEF Schedule, Pending, TasksOf
    <2>2. Headed' /\ Scheduled'
      BY <2>1, MoveAccounts
    <2>3. \A u \in Tasks : task'[u] = IF u = t THEN "probe" ELSE task[u]
      BY <1>t, <2>1 DEF TypeOK
    <2>4. Ended'
      BY <2>1, <2>3 DEF Accounts, Ended
    <2>5. Ledger'
      BY <2>1, LedgerStays DEF Accounts
    <2>6. Final'
      BY <2>1 DEF Accounts, Final
    <2> QED BY <2>2, <2>4, <2>5, <2>6 DEF Accounts
  <1>2. ASSUME NEW r \in Runs, StopScheduling(r) \/ Cancel(r) PROVE Accounts'
    <2>1. UNCHANGED <<batch, task, outcome, pinned, failed, isPinnedErrors, res>>
      BY <1>2 DEF StopScheduling, Cancel
    <2>2. /\ \A q \in Runs : ctxDone[q] => ctxDone'[q]
          /\ \A q \in Runs : \/ phase'[q] = phase[q]
                             \/ /\ phase[q] = "schedule" /\ phase'[q] = "wait"
                                /\ Pending(q) = {} \/ ctxDone[q]
      BY <1>2, <1>t DEF StopScheduling, Cancel, TypeOK
    <2>3. /\ \A q \in Runs : Pending(q)' = Pending(q)
          /\ \A q \in Runs : Standing(q, "shed")' = Standing(q, "shed")
      BY <2>1 DEF Pending, Standing, TasksOf
    <2>4. Ended' /\ Ledger'
      BY <2>1, LedgerStays DEF Accounts, Ended
    <2>5. Headed'
      BY <2>1, <2>2, <2>3 DEF Accounts, Headed, TasksOf
    <2>6. Final'
      BY <2>1, <2>2 DEF Accounts, Final
    <2>7. Scheduled'
      BY <2>2, <2>3 DEF Accounts, Scheduled
    <2> QED BY <2>4, <2>5, <2>6, <2>7 DEF Accounts
  <1>3. ASSUME NEW r \in Runs, Return(r) PROVE Accounts'
    <2>1. /\ phase[r] = "wait"
          /\ UNCHANGED <<batch, ctxDone, task, outcome, pinned, failed, isPinnedErrors>>
      BY <1>3 DEF Return
    <2>2. /\ phase'[r] = "returned"
          /\ \A q \in Runs \ {r} : phase'[q] = phase[q] /\ res'[q] = res[q]
      BY <1>3, <1>t DEF Return, TypeOK
    <2>3. /\ res'[r].Matched = res[r].Matched /\ res'[r].Shed = res[r].Shed
          /\ res'[r].Pinned = pinned[r] /\ res'[r].Failed = failed[r]
          /\ res'[r].IsPinnedErrors = isPinnedErrors[r]
      BY <1>3, <1>t DEF Return, TypeOK, Results
    <2>4. /\ \A q \in Runs : Pending(q)' = Pending(q)
          /\ \A q \in Runs : Standing(q, "shed")' = Standing(q, "shed")
      BY <2>1 DEF Pending, Standing, TasksOf
    <2>5. Ended' /\ Ledger'
      BY <2>1, LedgerStays DEF Accounts, Ended
    <2>6. Headed'
      BY <2>1, <2>2, <2>3, <2>4 DEF Accounts, Headed, TasksOf
    <2>7. Final'
      BY <2>1, <2>2, <2>3 DEF Accounts, Final
    <2>8. Scheduled'
      BY <2>1, <2>2, <2>4 DEF Accounts, Scheduled
    <2> QED BY <2>5, <2>6, <2>7, <2>8 DEF Accounts
  <1>4. ASSUME NEW t \in Tasks, ProbeFails(t) \/ PinFails(t) \/ PinSucceeds(t) PROVE Accounts'
    <2>1. CASE ProbeFails(t)
      BY <2>1, EndAccounts DEF ProbeFails, Endings
    <2>2. CASE PinFails(t)
      BY <2>2, EndAccounts DEF PinFails, Endings
    <2>3. CASE PinSucceeds(t)
      BY <2>3, EndAccounts DEF PinSucceeds, Endings
    <2> QED BY <1>4, <2>1, <2>2, <2>3
  <1>5. ASSUME NEW t \in Tasks, ProbeAnswers(t), End(t, "skipped") PROVE Accounts'
    BY <1>5, EndAccounts DEF ProbeAnswers, Endings
  <1>6. ASSUME NEW t \in Tasks, NEW v,
               \/ task[t] = "probe" /\ v = "pin"
               \/ task[t] = "release" /\ v = "exit"
               \/ task[t] = "exit" /\ v = "done",
               task' = [task EXCEPT ![t] = v],
               UNCHANGED <<phase, batch, ctxDone, outcome, pinned, failed, isPinnedErrors, res>>
        PROVE  Accounts'
    <2>1. Headed' /\ Scheduled'
      BY <1>6, MoveAccounts
    <2>2. \A u \in Tasks : task'[u] = IF u = t THEN v ELSE task[u]
      BY <1>t, <1>6 DEF TypeOK
    <2>3. Ended'
      BY <1>6, <2>2 DEF Accounts, Ended
    <2>4. Ledger'
      BY <1>6, LedgerStays DEF Accounts
    <2>5. Final'
      BY <1>6 DEF Accounts, Final
    <2> QED BY <2>1, <2>3, <2>4, <2>5 DEF Accounts
  <1>7. ASSUME NEW t \in Tasks, ProbeAnswers(t) PROVE Accounts'
    BY <1>5, <1>6, <1>7 DEF ProbeAnswers
  <1>8. ASSUME NEW t \in Tasks, ReleaseToken(t) \/ GoroutineDone(t) PROVE Accounts'
    BY <1>6, <1>8 DEF ReleaseToken, GoroutineDone
  <1>9. ASSUME UNCHANGED vars PROVE Accounts'
    <2>1. UNCHANGED <<phase, batch, ctxDone, task, outcome, pinned, failed, isPinnedErrors, res>>
      BY <1>9 DEF vars
    <2>2. Ledger'
      BY <2>1, LedgerStays DEF Accounts
    <2>3. /\ \A q \in Runs : Pending(q)' = Pending(q)
          /\ \A q \in Runs : Standing(q, "shed")' = Standing(q, "shed")
      BY <2>1 DEF Pending, Standing, TasksOf
    <2>4. Ended' /\ Final'
      BY <2>1 DEF Accounts, Ended, Final
    <2>5. Headed'
      BY <2>1, <2>3 DEF Accounts, Headed, TasksOf
    <2>6. Scheduled'
      BY <2>1, <2>3 DEF Accounts, Scheduled
    <2> QED BY <2>2, <2>4, <2>5, <2>6 DEF Accounts
  <1> QED BY <1>1, <1>2, <1>3, <1>4, <1>7, <1>8, <1>9, StartAccounts DEF Next, RunStep, TaskStep

\* A returned result accounts for the whole batch.
LEMMA BatchAccounted ==
    ASSUME IInv, Accounts, NEW r \in Runs, phase[r] = "returned"
    PROVE  Len(batch[r]) = Cardinality(Standing(r, "shed")) + Count(r, "pinned") + Count(r, "failed")
                             + Count(r, "error") + Count(r, "skipped") + Cardinality(Pending(r))
  <1> DEFINE n == Len(batch[r])
             O(o) == {t \in TasksOf(r) : outcome[t] = o}
             shed == Standing(r, "shed")
             queue == Standing(r, "queued")
             A1 == shed \cup O("pinned")
             A2 == A1 \cup O("failed")
             A3 == A2 \cup O("error")
             A4 == A3 \cup O("skipped")
             A5 == A4 \cup queue
             all == {t \in TasksOf(r) : t[2] \in 1..n}
  <1>1. /\ TypeOK /\ n \in Nat /\ n <= MaxBatch
        /\ \A t \in TasksOf(r) : t \in Tasks /\ t[1] = r /\ t[2] \in Nat
    BY DEF IInv, TypeOK, Accounts, Headed, TasksOf, Tasks
  <1>2. \A t \in TasksOf(r) : task[t] \in {"none", "shed", "queued", "done"}
    BY <1>1 DEF IInv, TypeOK, ReturnedQuiet, RunningOf
  <1>3. \A t \in TasksOf(r) : /\ outcome[t] \in Endings \cup {"none"}
                              /\ outcome[t] # "none" <=> task[t] = "done"
    BY <1>1, <1>2 DEF TypeOK, Accounts, Ended, Endings
  <1>4. \A t \in TasksOf(r) : t[2] \in 1..n <=> task[t] # "none"
    BY <1>1 DEF IInv, InBatch, Accounts, Headed
  <1>5. /\ shed \cap O("pinned") = {} /\ A1 \cap O("failed") = {} /\ A2 \cap O("error") = {}
        /\ A3 \cap O("skipped") = {} /\ A4 \cap queue = {}
    BY <1>2, <1>3 DEF Standing
  <1>6. A5 = all
    BY <1>2, <1>3, <1>4 DEF Standing, Endings
  <1>7. /\ IsFiniteSet(shed) /\ IsFiniteSet(queue) /\ \A o : IsFiniteSet(O(o))
    BY PartsFinite
  <1>8. Cardinality(all) = n
    <2>1. 1..n \in SUBSET (1..MaxBatch)
      BY <1>1, BatchAssumption
    <2>2. Cardinality(1..n) = n
      BY <1>1, UpTo
    <2> HIDE DEF n
    <2> QED BY <2>1, <2>2, Positions
  <1>9. Pending(r) = queue /\ \A o : Count(r, o) = Cardinality(O(o))
    BY DEF Pending, Standing, Count
  <1> HIDE DEF n, O, shed, queue, all
  <1>10. IsFiniteSet(A1) /\ Cardinality(A1) = Cardinality(shed) + Cardinality(O("pinned"))
    BY <1>5, <1>7, DisjointSum
  <1> HIDE DEF A1
  <1>11. IsFiniteSet(A2) /\ Cardinality(A2) = Cardinality(A1) + Cardinality(O("failed"))
    BY <1>5, <1>7, <1>10, DisjointSum
  <1> HIDE DEF A2
  <1>12. IsFiniteSet(A3) /\ Cardinality(A3) = Cardinality(A2) + Cardinality(O("error"))
    BY <1>5, <1>7, <1>11, DisjointSum
  <1> HIDE DEF A3
  <1>13. IsFiniteSet(A4) /\ Cardinality(A4) = Cardinality(A3) + Cardinality(O("skipped"))
    BY <1>5, <1>7, <1>12, DisjointSum
  <1> HIDE DEF A4
  <1>14. Cardinality(A5) = Cardinality(A4) + Cardinality(queue)
    BY <1>5, <1>7, <1>13, DisjointSum
  <1> HIDE DEF A5
  <1> QED BY <1>6, <1>8, <1>9, <1>10, <1>11, <1>12, <1>13, <1>14 DEF n, shed

\* A result of Run is an account of its batch, whatever else runs, fails or is
\* cancelled: every item is shed, pinned, failed, already pinned, a probe error or
\* left over by a cancellation, and the counters are exact.
THEOREM ResultsAddUp == Spec => []ResultAccounts
  <1>1. IInv /\ Accounts /\ [Next]_vars => Accounts'
    BY StepAccounts
  <1>2. IInv /\ Accounts => ResultAccounts
    <2> SUFFICES ASSUME IInv, Accounts, NEW r \in Runs, phase[r] = "returned"
                 PROVE  /\ res[r].Pinned = Count(r, "pinned")
                        /\ res[r].Failed = Count(r, "failed")
                        /\ res[r].IsPinnedErrors = Count(r, "error")
                        /\ res[r].Matched = res[r].Shed + res[r].Pinned + res[r].Failed
                               + res[r].IsPinnedErrors + Count(r, "skipped") + Cardinality(Pending(r))
                        /\ ~ctxDone[r] => Pending(r) = {}
      BY DEF ResultAccounts
    <2>1. /\ res[r].Pinned = Count(r, "pinned") /\ res[r].Failed = Count(r, "failed")
          /\ res[r].IsPinnedErrors = Count(r, "error")
      BY DEF Accounts, Final, Ledger
    <2>2. res[r].Matched = Len(batch[r]) /\ res[r].Shed = Cardinality(Standing(r, "shed"))
      BY DEF Accounts, Headed
    <2>3. ~ctxDone[r] => Pending(r) = {}
      BY DEF Accounts, Scheduled
    <2> QED BY <2>1, <2>2, <2>3, BatchAccounted
  <1> QED BY <1>1, <1>2, Inductive, InitAccounts, PTL DEF Spec
=============================================================================

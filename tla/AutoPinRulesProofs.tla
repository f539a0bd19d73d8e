-------------------------- MODULE AutoPinRulesProofs --------------------------
(***************************************************************************)
(* Proofs about the rules, for any set of handlers, rules, filters and     *)
(* items: what autopin.json holds when no change is in progress, and what  *)
(* MatchingItems computes from it.                                         *)
(***************************************************************************)
EXTENDS AutoPinRules, FiniteSetTheorems, SequenceTheorems, WellFoundedInduction, TLAPS

-----------------------------------------------------------------------------
(* Matches *)

\* The bound CreatedAfter is the first hour of its day.
LEMMA FromDay ==
    ASSUME NEW d \in Int, NEW t \in Int
    PROVE  ~(t < d * 24) <=> d <= t \div 24
  OBVIOUS

\* The bound CreatedBefore includes the last hour of its day.
LEMMA UntilDay ==
    ASSUME NEW d \in Int, NEW t \in Int
    PROVE  t < (d + 1) * 24 <=> t \div 24 <= d
  OBVIOUS

LEMMA ListFilter ==
    ASSUME NEW h \in SUBSET Texts, NEW n \in Texts
    PROVE  ~(h # {} /\ ~containsCI(h, n))
           <=> (h = {} \/ Lower[n] \in {Lower[s] : s \in h})
  BY DEF containsCI

\* Matches accepts exactly the items that satisfy every filter that is set,
\* with the date window taken in whole days.
THEOREM MatchesIsAccepts ==
    ASSUME NEW r, r.filter \in FilterType, NEW item \in ItemType
    PROVE  Matches(r, item) <=> Accepts(r, item)
  <1> DEFINE f == r.filter
  <1>1. ~(f.CreatedAfter.kind = "date" /\ item.Created < f.CreatedAfter.day * Day)
        <=> (f.CreatedAfter.kind = "date" => f.CreatedAfter.day <= item.Created \div Day)
    BY FromDay DEF FilterType, ItemType, Bound, Day
  <1>2. ~(f.CreatedBefore.kind = "date" /\ ~(item.Created < (f.CreatedBefore.day + 1) * Day))
        <=> (f.CreatedBefore.kind = "date" => item.Created \div Day <= f.CreatedBefore.day)
    BY UntilDay DEF FilterType, ItemType, Bound, Day
  <1>3. /\ ~(f.Disciplines # {} /\ ~containsCI(f.Disciplines, item.Discipline))
           <=> (f.Disciplines = {}
                  \/ Lower[item.Discipline] \in {Lower[s] : s \in f.Disciplines})
        /\ ~(f.Authors # {} /\ ~containsCI(f.Authors, item.Author))
           <=> (f.Authors = {} \/ Lower[item.Author] \in {Lower[s] : s \in f.Authors})
        /\ ~(f.CIDTypes # {} /\ ~containsCI(f.CIDTypes, item.CIDType))
           <=> (f.CIDTypes = {} \/ Lower[item.CIDType] \in {Lower[s] : s \in f.CIDTypes})
    BY ListFilter DEF FilterType, ItemType
  <1> QED BY <1>1, <1>2, <1>3 DEF Matches, Passes, Accepts, InWindow

-----------------------------------------------------------------------------
(* Induction and folds *)

\* A set with 0 and the successor of each of its numbers has them all.
LEMMA Induction ==
    ASSUME NEW S, 0 \in S, \A n \in Nat : n \in S => n + 1 \in S
    PROVE  Nat \subseteq S
  <1> DEFINE R == OpToRel(<, Nat)
             T == Nat \ S
  <1> SUFFICES ASSUME T # {} PROVE FALSE
    OBVIOUS
  <1>1. IsWellFoundedOn(R, Nat)
    BY NatLessThanWellFounded
  <1>2. \A x, y \in Nat : <<x, y>> \in R <=> x < y
    BY DEF OpToRel
  <1>3. T \in SUBSET Nat
    OBVIOUS
  <1> HIDE DEF R, T
  <1>4. PICK x \in T : \A y \in T : ~(<<y, x>> \in R)
    BY <1>1, <1>3, WFMin, Zenon
  <1>5. x \in Nat /\ x \notin S /\ \A y \in Nat : y \notin S => ~(y < x)
    BY <1>2, <1>4 DEF T
  <1>6. x # 0 /\ x - 1 \in Nat /\ x - 1 < x
    BY <1>5
  <1> QED BY <1>5, <1>6

\* g solves the recursion of a fold over 1..n that starts with base and makes the
\* step H[i] with the number i.
IsFold(g, base, n, H) ==
    \A s \in SUBSET (1..n) :
       /\ s # {} => Max(s) \in 1..n
       /\ g[s] = IF s = {} THEN base ELSE H[Max(s)][g[s \ {Max(s)}]]

\* There is a solution.
LEMMA FoldExists ==
    ASSUME NEW V, NEW base \in V, NEW n \in Nat, NEW H \in [1..n -> [V -> V]]
    PROVE  \E g \in [SUBSET (1..n) -> V] : IsFold(g, base, n, H)
  <1> DEFINE Found(k) == \E g \in [SUBSET (1..k) -> V] : IsFold(g, base, k, H)
             S == {k \in Nat : k <= n => Found(k)}
  <1>1. Found(0)
    <2>1. SUBSET (1..0) = {{}}
      OBVIOUS
    <2> DEFINE g0 == [s \in SUBSET (1..0) |-> base]
    <2>2. g0 \in [SUBSET (1..0) -> V] /\ IsFold(g0, base, 0, H)
      BY <2>1 DEF IsFold
    <2> QED BY <2>2
  <1>2. ASSUME NEW k \in Nat, k + 1 <= n, Found(k) PROVE Found(k + 1)
    <2>1. PICK g \in [SUBSET (1..k) -> V] : IsFold(g, base, k, H)
      BY <1>2
    <2> DEFINE h == [s \in SUBSET (1..(k + 1)) |->
                        IF k + 1 \in s THEN H[k + 1][g[s \ {k + 1}]] ELSE g[s]]
    <2>2. \A s \in SUBSET (1..(k + 1)) : k + 1 \notin s => s \in SUBSET (1..k)
      OBVIOUS
    <2>3. \A s \in SUBSET (1..(k + 1)) : s \ {k + 1} \in SUBSET (1..k)
      OBVIOUS
    <2>4. ASSUME NEW s \in SUBSET (1..(k + 1)), k + 1 \in s PROVE Max(s) = k + 1
      <3>1. \A y \in s : k + 1 >= y /\ y \in Nat
        OBVIOUS
      <3>2. \A x \in s : (\A y \in s : x >= y) => x = k + 1
        BY <2>4, <3>1
      <3> QED BY <2>4, <3>1, <3>2 DEF Max
    <2>5. k + 1 \in 1..n /\ \A v \in V : H[k + 1][v] \in V
      BY <1>2
    <2>6. h \in [SUBSET (1..(k + 1)) -> V]
      BY <2>2, <2>3, <2>5
    <2>7. \A s \in SUBSET (1..k) : s \in SUBSET (1..(k + 1)) /\ k + 1 \notin s /\ h[s] = g[s]
      OBVIOUS
    <2>8. ASSUME NEW s \in SUBSET (1..(k + 1))
          PROVE  /\ s # {} => Max(s) \in 1..(k + 1)
                 /\ h[s] = IF s = {} THEN base ELSE H[Max(s)][h[s \ {Max(s)}]]
      <3>1. CASE k + 1 \in s
        BY <2>3, <2>4, <2>7, <3>1
      <3>2. CASE k + 1 \notin s
        <4>1. s \in SUBSET (1..k) /\ s \ {Max(s)} \in SUBSET (1..k)
          BY <2>2, <3>2
        <4> HIDE DEF h
        <4> QED BY <2>1, <2>7, <4>1 DEF IsFold
      <3> QED BY <3>1, <3>2
    <2> HIDE DEF h
    <2> QED BY <2>6, <2>8 DEF IsFold
  <1> HIDE DEF Found
  <1>3. \A k \in Nat : k \in S => k + 1 \in S
    BY <1>2
  <1>4. 0 \in S
    BY <1>1
  <1>5. Nat \subseteq S
    <2> HIDE DEF S
    <2> QED BY <1>3, <1>4, Induction
  <1>6. Found(n)
    BY <1>5
  <1> QED BY <1>6 DEF Found

\* The fold takes the numbers in order.
LEMMA FoldOrder ==
    ASSUME NEW i \in Nat \ {0}
    PROVE  1..i # {} /\ Max(1..i) = i /\ (1..i) \ {Max(1..i)} = 1..(i - 1)
  <1>1. i \in 1..i /\ \A y \in 1..i : i >= y
    OBVIOUS
  <1>2. \A x \in 1..i : (\A y \in 1..i : x >= y) => x = i
    BY <1>1
  <1>3. Max(1..i) = i
    BY <1>1, <1>2 DEF Max
  <1>4. \A x : x \in (1..i) \ {i} <=> x \in 1..(i - 1)
    OBVIOUS
  <1> QED BY <1>1, <1>3, <1>4

\* p has the intermediate results, one after the other.
Results(p, base, n, H, last) ==
    p[0] = base /\ p[n] = last /\ \A i \in 1..n : i - 1 \in 0..n /\ p[i] = H[i][p[i - 1]]

\* g folds as long as it stays in V.
FoldsIn(g, V, base, n, H) ==
    /\ g[{}] = base
    /\ \A i \in 1..n : g[1..(i - 1)] \in V => g[1..i] = H[i][g[1..(i - 1)]]

\* Then it has intermediate results, all of them in V.
LEMMA FoldResults ==
    ASSUME NEW V, NEW base \in V, NEW n \in Nat, NEW H \in [1..n -> [V -> V]],
           NEW g, FoldsIn(g, V, base, n, H)
    PROVE  \E p \in [0..n -> V] : Results(p, base, n, H, g[1..n])
  <1> DEFINE p == [i \in 0..n |-> g[1..i]]
             S == {i \in Nat : i <= n => g[1..i] \in V}
  <1>1. 1..0 = {}
    OBVIOUS
  <1>2. 0 \in S
    BY <1>1 DEF FoldsIn
  <1>3. ASSUME NEW i \in Nat, i \in S PROVE i + 1 \in S
    <2> SUFFICES ASSUME i + 1 <= n PROVE g[1..(i + 1)] \in V
      OBVIOUS
    <2>1. i + 1 \in 1..n /\ (i + 1) - 1 = i /\ g[1..i] \in V
      BY <1>3
    <2>2. g[1..(i + 1)] = H[i + 1][g[1..i]]
      BY <2>1 DEF FoldsIn
    <2> QED BY <2>1, <2>2
  <1>4. Nat \subseteq S
    <2> HIDE DEF S
    <2> QED BY <1>2, <1>3, Induction
  <1>5. \A i \in 0..n : g[1..i] \in V
    BY <1>4
  <1>6. \A i \in 1..n : i \in 0..n /\ i - 1 \in 0..n
    OBVIOUS
  <1>7. /\ p \in [0..n -> V]
        /\ Results(p, base, n, H, g[1..n])
    BY <1>1, <1>5, <1>6 DEF Results, FoldsIn
  <1> QED BY <1>7

-----------------------------------------------------------------------------
(* MatchingItems *)

\* Where the inner loop stands.
Standing == [out : Seq(ItemType), broken : BOOLEAN]

\* The inner loop goes through the rules one by one.
LEMMA TrySteps ==
    ASSUME NEW rs \in RuleList, NEW matched \in Seq(ItemType), NEW item \in ItemType
    PROVE  \E p \in [0..Len(rs) -> Standing] :
              /\ p[0] = [out |-> matched, broken |-> FALSE]
              /\ \A i \in 1..Len(rs) : p[i] = Try(item, p[i - 1], rs[i])
              /\ InnerLoop(rs, matched, item) = p[Len(rs)].out
  <1> DEFINE n == Len(rs)
             V == Standing
             base == [out |-> matched, broken |-> FALSE]
             H == [i \in 1..n |-> [v \in V |-> Try(item, v, rs[i])]]
             Iter(f) == f = [s \in SUBSET (DOMAIN rs) |->
                               IF s = {} THEN base ELSE Try(item, f[s \ {Max(s)}], rs[Max(s)])]
             it == CHOOSE f : Iter(f)
  <1>1. n \in Nat /\ DOMAIN rs = 1..n
    BY DEF RuleList
  <1>2. base \in V
    BY DEF Standing
  <1>3. H \in [1..n -> [V -> V]]
    <2>1. \A r : \A v \in V : Try(item, v, r) \in V
      BY DEF Try, Standing
    <2> HIDE DEF V, n
    <2> QED BY <1>1, <2>1
  <1> HIDE DEF base
  <1>4. PICK g \in [SUBSET (1..n) -> V] : IsFold(g, base, n, H)
    <2> HIDE DEF H, V, n
    <2> QED BY <1>1, <1>2, <1>3, FoldExists
  <1>5. \A s \in SUBSET (1..n) :
           g[s] = IF s = {} THEN base ELSE Try(item, g[s \ {Max(s)}], rs[Max(s)])
    <2> HIDE DEF V, n
    <2>1. \A s \in SUBSET (1..n) : s # {} =>
             H[Max(s)][g[s \ {Max(s)}]] = Try(item, g[s \ {Max(s)}], rs[Max(s)])
      BY <1>4 DEF IsFold
    <2> HIDE DEF H
    <2> QED BY <1>4, <2>1 DEF IsFold
  <1>6. Iter(it)
    <2> HIDE DEF V, n, H
    <2>1. Iter(g)
      BY <1>1, <1>4, <1>5
    <2> HIDE DEF Iter
    <2> QED BY <2>1
  <1>7. \A s \in SUBSET (1..n) :
           it[s] = IF s = {} THEN base ELSE Try(item, it[s \ {Max(s)}], rs[Max(s)])
    <2> HIDE DEF n, it
    <2> QED BY <1>1, <1>6
  <1>8. InnerLoop(rs, matched, item) = it[DOMAIN rs].out
    BY DEF InnerLoop, FoldLeft, MapThenFoldSet, base
  <1>9. ASSUME NEW i \in 1..n, it[1..(i - 1)] \in V
        PROVE  it[1..i] = H[i][it[1..(i - 1)]]
    <2>1. i \in Nat \ {0} /\ 1..i \in SUBSET (1..n)
      BY <1>1
    <2> HIDE DEF it, V, n
    <2>2. it[1..i] = Try(item, it[1..(i - 1)], rs[i])
      BY <1>7, <2>1, FoldOrder
    <2> QED BY <1>9, <2>2
  <1>10. FoldsIn(it, V, base, n, H)
    <2>1. it[{}] = base
      <3> HIDE DEF it, n
      <3> QED BY <1>7
    <2> HIDE DEF it, H, V, n
    <2> QED BY <1>9, <2>1 DEF FoldsIn
  <1>11. PICK p \in [0..n -> V] : Results(p, base, n, H, it[1..n])
    <2> HIDE DEF it, H, V, n
    <2> QED BY <1>1, <1>2, <1>3, <1>10, FoldResults
  <1>12. p[0] = base /\ p[n] = it[1..n] /\ \A i \in 1..n : p[i] = Try(item, p[i - 1], rs[i])
    <2> HIDE DEF V, n
    <2> QED BY <1>1, <1>11 DEF Results
  <1> HIDE DEF it
  <1> QED BY <1>1, <1>8, <1>12 DEF base

\* Some rule among the first n accepts the item.
Taken(rs, n, item) == \E k \in 1..n : Accepts(rs[k], item)

\* It takes an item that some rule accepts, once.
LEMMA InnerMeans ==
    ASSUME NEW rs \in RuleList, NEW matched \in Seq(ItemType), NEW item \in ItemType
    PROVE  InnerLoop(rs, matched, item) =
              IF Taken(rs, Len(rs), item) THEN Append(matched, item) ELSE matched
  <1> DEFINE n == Len(rs)
  <1>1. PICK p \in [0..n -> Standing] :
           /\ p[0] = [out |-> matched, broken |-> FALSE]
           /\ \A i \in 1..n : p[i] = Try(item, p[i - 1], rs[i])
           /\ InnerLoop(rs, matched, item) = p[n].out
    BY TrySteps
  <1>2. n \in Nat /\ \A i \in 1..n : Matches(rs[i], item) <=> Accepts(rs[i], item)
    <2>1. n \in Nat /\ \A i \in 1..n : rs[i] \in Rule
      BY DEF RuleList
    <2>2. \A r \in Rule : r.filter \in FilterType
      BY FilterAssumption DEF Rule
    <2>3. \A i \in 1..n : rs[i].filter \in FilterType
      BY <2>1, <2>2
    <2> QED BY <2>1, <2>3, MatchesIsAccepts
  <1> DEFINE Q(i) == p[i] = IF Taken(rs, i, item)
                            THEN [out |-> Append(matched, item), broken |-> TRUE]
                            ELSE [out |-> matched, broken |-> FALSE]
             S == {i \in Nat : i <= n => Q(i)}
  <1>3. 0 \in S
    BY <1>1 DEF Taken
  <1>4. ASSUME NEW i \in Nat, i \in S PROVE i + 1 \in S
    <2> SUFFICES ASSUME i + 1 <= n PROVE Q(i + 1)
      OBVIOUS
    <2>1. i + 1 \in 1..n /\ (i + 1) - 1 = i /\ 1..(i + 1) = (1..i) \cup {i + 1}
      BY <1>2
    <2>2. Q(i) /\ p[i + 1] = Try(item, p[i], rs[i + 1])
      BY <1>1, <1>2, <1>4, <2>1
    <2>3. Taken(rs, i + 1, item) <=> Taken(rs, i, item) \/ Accepts(rs[i + 1], item)
      BY <2>1 DEF Taken
    <2>4. Matches(rs[i + 1], item) <=> Accepts(rs[i + 1], item)
      BY <1>2, <2>1
    <2> HIDE DEF n
    <2>5. CASE Taken(rs, i, item)
      BY <2>2, <2>3, <2>5 DEF Try
    <2>6. CASE ~Taken(rs, i, item)
      BY <2>2, <2>3, <2>4, <2>6 DEF Try
    <2> QED BY <2>5, <2>6
  <1>5. Nat \subseteq S
    <2> HIDE DEF S
    <2> QED BY <1>3, <1>4, Induction
  <1>6. Q(n)
    BY <1>2, <1>5
  <1> QED BY <1>1, <1>6

\* The outer loop goes through the items one by one.
LEMMA LoopSteps ==
    ASSUME NEW rs \in RuleList, NEW items \in Seq(ItemType)
    PROVE  \E p \in [0..Len(items) -> Seq(ItemType)] :
              /\ p[0] = <<>>
              /\ \A i \in 1..Len(items) : p[i] = InnerLoop(rs, p[i - 1], items[i])
              /\ MatchingItems(rs, items) = p[Len(items)]
  <1> DEFINE n == Len(items)
             V == Seq(ItemType)
             H == [i \in 1..n |-> [v \in V |-> InnerLoop(rs, v, items[i])]]
             Iter(f) == f = [s \in SUBSET (DOMAIN items) |->
                               IF s = {} THEN <<>>
                               ELSE InnerLoop(rs, f[s \ {Max(s)}], items[Max(s)])]
             it == CHOOSE f : Iter(f)
  <1>1. n \in Nat /\ DOMAIN items = 1..n /\ \A i \in 1..n : items[i] \in ItemType
    OBVIOUS
  <1>2. <<>> \in V
    OBVIOUS
  <1>3. H \in [1..n -> [V -> V]]
    <2>1. \A v \in V, m \in ItemType : InnerLoop(rs, v, m) \in V
      BY InnerMeans
    <2> HIDE DEF V, n
    <2> QED BY <1>1, <2>1
  <1>4. PICK g \in [SUBSET (1..n) -> V] : IsFold(g, <<>>, n, H)
    <2> HIDE DEF H, V, n
    <2> QED BY <1>1, <1>2, <1>3, FoldExists
  <1>5. \A s \in SUBSET (1..n) :
           g[s] = IF s = {} THEN <<>> ELSE InnerLoop(rs, g[s \ {Max(s)}], items[Max(s)])
    <2> HIDE DEF V, n
    <2>1. \A s \in SUBSET (1..n) : s # {} =>
             H[Max(s)][g[s \ {Max(s)}]] = InnerLoop(rs, g[s \ {Max(s)}], items[Max(s)])
      BY <1>4 DEF IsFold
    <2> HIDE DEF H
    <2> QED BY <1>4, <2>1 DEF IsFold
  <1>6. Iter(it)
    <2> HIDE DEF V, n, H
    <2>1. Iter(g)
      BY <1>1, <1>4, <1>5
    <2> HIDE DEF Iter
    <2> QED BY <2>1
  <1>7. \A s \in SUBSET (1..n) :
           it[s] = IF s = {} THEN <<>> ELSE InnerLoop(rs, it[s \ {Max(s)}], items[Max(s)])
    <2> HIDE DEF n, it
    <2> QED BY <1>1, <1>6
  <1>8. MatchingItems(rs, items) = it[DOMAIN items]
    BY DEF MatchingItems, FoldLeft, MapThenFoldSet
  <1>9. ASSUME NEW i \in 1..n, it[1..(i - 1)] \in V
        PROVE  it[1..i] = H[i][it[1..(i - 1)]]
    <2>1. i \in Nat \ {0} /\ 1..i \in SUBSET (1..n)
      BY <1>1
    <2> HIDE DEF it, V, n
    <2>2. it[1..i] = InnerLoop(rs, it[1..(i - 1)], items[i])
      BY <1>7, <2>1, FoldOrder
    <2> QED BY <1>9, <2>2
  <1>10. FoldsIn(it, V, <<>>, n, H)
    <2>1. it[{}] = <<>>
      <3> HIDE DEF it, n
      <3> QED BY <1>7
    <2> HIDE DEF it, H, V, n
    <2> QED BY <1>9, <2>1 DEF FoldsIn
  <1>11. PICK p \in [0..n -> V] : Results(p, <<>>, n, H, it[1..n])
    <2> HIDE DEF it, H, V, n
    <2> QED BY <1>1, <1>2, <1>3, <1>10, FoldResults
  <1>12. p[0] = <<>> /\ p[n] = it[1..n] /\ \A i \in 1..n : p[i] = InnerLoop(rs, p[i - 1], items[i])
    <2> HIDE DEF V, n
    <2> QED BY <1>1, <1>11 DEF Results
  <1> HIDE DEF it
  <1> QED BY <1>1, <1>8, <1>12

\* One more item that is wanted comes last.
LEMMA ListGrows ==
    ASSUME NEW items \in Seq(ItemType), NEW n \in Nat, n + 1 <= Len(items),
           NEW places \in SUBSET (1..n), NEW out \in Seq(ItemType), Lists(out, items, places)
    PROVE  Lists(Append(out, items[n + 1]), items, places \cup {n + 1})
  <1> DEFINE long == Append(out, items[n + 1])
             more == places \cup {n + 1}
  <1>1. n + 1 \notin places /\ items[n + 1] \in ItemType
    OBVIOUS
  <1>2. IsFiniteSet(places)
    <2>1. IsFiniteSet(1..n)
      BY FS_Interval
    <2> QED BY <2>1, FS_Subset
  <1>3. Cardinality(places) \in Nat /\ Cardinality(more) = Cardinality(places) + 1
    BY <1>1, <1>2, FS_CardinalityType, FS_AddElement
  <1>4. /\ Len(long) = Len(out) + 1 /\ long[Len(out) + 1] = items[n + 1] /\ Len(out) \in Nat
        /\ \A q \in 1..Len(out) : long[q] = out[q]
    BY <1>1
  <1>5. Len(out) = Cardinality(places)
    BY DEF Lists
  <1> HIDE DEF long
  <1>6. ASSUME NEW i \in more PROVE long[Cardinality({j \in more : j <= i})] = items[i]
    <2>1. CASE i = n + 1
      <3>1. \A j \in more : j <= i
        BY <2>1
      <3>2. {j \in more : j <= i} = more
        BY <3>1
      <3> QED BY <1>3, <1>4, <1>5, <2>1, <3>2
    <2>2. CASE i \in places
      <3> DEFINE B == {j \in places : j <= i}
      <3>1. {j \in more : j <= i} = B
        BY <2>2
      <3>2. B \subseteq places /\ i \in B
        BY <2>2
      <3>3. IsFiniteSet(B) /\ Cardinality(B) \in Nat /\ Cardinality(B) <= Cardinality(places)
        BY <1>2, <3>2, FS_Subset, FS_CardinalityType
      <3>4. Cardinality(B) # 0
        BY <3>2, <3>3, FS_EmptySet
      <3>5. Cardinality(B) \in 1..Len(out)
        BY <1>3, <1>5, <3>3, <3>4
      <3>6. out[Cardinality(B)] = items[i]
        BY <2>2 DEF Lists
      <3> HIDE DEF B
      <3> QED BY <1>4, <3>1, <3>5, <3>6
    <2> QED BY <2>1, <2>2
  <1> HIDE DEF more
  <1>7. Lists(long, items, more)
    BY <1>3, <1>4, <1>5, <1>6 DEF Lists
  <1> QED BY <1>7 DEF long, more

\* MatchingItems gives the wanted items, for all rules and items.
LEMMA MatchingMeans ==
    ASSUME NEW rs \in RuleList, NEW items \in Seq(ItemType)
    PROVE  Lists(MatchingItems(rs, items), items, Wanted(rs, items))
  <1> DEFINE n == Len(items)
             W(k) == {i \in 1..k : Taken(rs, Len(rs), items[i])}
  <1>1. PICK p \in [0..n -> Seq(ItemType)] :
           /\ p[0] = <<>>
           /\ \A i \in 1..n : p[i] = InnerLoop(rs, p[i - 1], items[i])
           /\ MatchingItems(rs, items) = p[n]
    BY LoopSteps
  <1> DEFINE Q(i) == Lists(p[i], items, W(i))
             S == {i \in Nat : i <= n => Q(i)}
  <1>2. n \in Nat
    OBVIOUS
  <1>3. 0 \in S
    <2>1. W(0) = {} /\ Len(p[0]) = 0
      BY <1>1
    <2> QED BY <2>1, FS_EmptySet DEF Lists
  <1>4. ASSUME NEW i \in Nat, i \in S PROVE i + 1 \in S
    <2> SUFFICES ASSUME i + 1 <= n PROVE Q(i + 1)
      OBVIOUS
    <2>1. i + 1 \in 1..n /\ (i + 1) - 1 = i /\ i \in 0..n /\ 1..(i + 1) = (1..i) \cup {i + 1}
      BY <1>2
    <2>2. Q(i) /\ p[i] \in Seq(ItemType) /\ p[i + 1] = InnerLoop(rs, p[i], items[i + 1])
      BY <1>1, <1>2, <1>4, <2>1
    <2>3. items[i + 1] \in ItemType
      BY <2>1
    <2>4. CASE Taken(rs, Len(rs), items[i + 1])
      <3>1. p[i + 1] = Append(p[i], items[i + 1])
        BY <2>2, <2>3, <2>4, InnerMeans
      <3>2. W(i + 1) = W(i) \cup {i + 1} /\ W(i) \in SUBSET (1..i)
        BY <2>1, <2>4
      <3> HIDE DEF W
      <3> QED BY <2>2, <3>1, <3>2, ListGrows
    <2>5. CASE ~Taken(rs, Len(rs), items[i + 1])
      <3>1. p[i + 1] = p[i]
        BY <2>2, <2>3, <2>5, InnerMeans
      <3>2. W(i + 1) = W(i)
        BY <2>1, <2>5
      <3> HIDE DEF W
      <3> QED BY <2>2, <3>1, <3>2
    <2> QED BY <2>4, <2>5
  <1>5. Nat \subseteq S
    <2> HIDE DEF S
    <2> QED BY <1>3, <1>4, Induction
  <1>6. Q(n)
    <2> HIDE DEF Q
    <2> QED BY <1>2, <1>5
  <1>7. W(n) = Wanted(rs, items)
    BY DEF Wanted, Taken
  <1> QED BY <1>1, <1>6, <1>7

-----------------------------------------------------------------------------
(* The inductive invariant *)

\* The only save in progress is that of mu's holder, and saves what is in
\* memory.
OneSaver == /\ saving = IF mu = NoOne THEN {} ELSE {mu}
            /\ mixed = {}
            /\ mu # NoOne => doc[mu] = rules

\* What holds while a change is being saved: its kind, where it can have come
\* from, and that a roll back leads to what is on disk.
InProgress == /\ mu = NoOne => op = "none" /\ up # "starting"
              /\ mu = Main => up = "starting"
              /\ mu \in Clients => up = "up" /\ op \in {"add", "update", "delete", "enable"}
              /\ up = "up" /\ mu # NoOne /\ ~ahead => undo = file
              /\ up # "up" => ~ahead

IInv == TypeOK /\ OneSaver /\ InProgress /\ Agreement /\ Parseable

-----------------------------------------------------------------------------
(* Every change makes a list of rules *)

LEMMA UpdatedList ==
    ASSUME NEW s \in RuleList, NEW i \in 1..Len(s), NEW f \in Filters, NEW e \in BOOLEAN
    PROVE  [s EXCEPT ![i].filter = f, ![i].enabled = e] \in RuleList
  <1> DEFINE new == [s[i] EXCEPT !.filter = f, !.enabled = e]
  <1>1. s[i] \in Rule
    BY DEF RuleList
  <1>2. new \in Rule
    BY <1>1 DEF Rule
  <1>3. [s EXCEPT ![i].filter = f, ![i].enabled = e] = [s EXCEPT ![i] = new]
    BY DEF RuleList
  <1>4. [s EXCEPT ![i] = new] \in RuleList
    <2> HIDE DEF new
    <2> QED BY <1>2 DEF RuleList
  <1> QED BY <1>3, <1>4

LEMMA EnabledList ==
    ASSUME NEW s \in RuleList, NEW e \in BOOLEAN
    PROVE  [i \in 1..Len(s) |-> [s[i] EXCEPT !.enabled = e]] \in RuleList
  <1>1. \A i \in 1..Len(s) : s[i] \in Rule
    BY DEF RuleList
  <1>2. \A i \in 1..Len(s) : [s[i] EXCEPT !.enabled = e] \in Rule
    BY <1>1 DEF Rule
  <1>3. Len(s) \in Nat
    BY DEF RuleList
  <1> QED BY <1>2, <1>3, IsASeq DEF RuleList

LEMMA ShorterList ==
    ASSUME NEW s \in RuleList, NEW i \in 1..Len(s)
    PROVE  SubSeq(s, 1, i - 1) \o SubSeq(s, i + 1, Len(s)) \in RuleList
  <1>1. SubSeq(s, 1, i - 1) \in Seq(Rule)
    BY DEF RuleList
  <1>2. SubSeq(s, i + 1, Len(s)) \in Seq(Rule)
    BY DEF RuleList
  <1> QED BY <1>1, <1>2 DEF RuleList

-----------------------------------------------------------------------------
LEMMA InitIInv == Init => IInv
  <1> SUFFICES ASSUME Init PROVE IInv
    OBVIOUS
  <1>1. <<>> \in RuleList
    BY DEF RuleList
  <1>2. TypeOK
    BY <1>1, GoroutinesDistinct
       DEF Init, TypeOK, RuleFile!FileTypeOK, RuleFile!Contents, Goroutines
  <1>3. OneSaver /\ InProgress /\ Agreement
    BY GoroutinesDistinct DEF Init, OneSaver, InProgress, Agreement, Readable
  <1>4. Parseable
    BY FileMarks DEF Init, Parseable
  <1> QED BY <1>2, <1>3, <1>4 DEF IInv

\* A change begins: mu was free, so no other save is running.
LEMMA ChangeStep ==
    ASSUME IInv, NEW g \in Goroutines, NEW k, NEW new \in RuleList, Change(g, k, new),
           \/ g = Main /\ k = "default" /\ up = "down" /\ up' = "starting"
           \/ g \in Clients /\ k \in {"add", "update", "delete", "enable"}
              /\ up = "up" /\ up' = "up"
    PROVE  IInv'
  <1>1. /\ mu = NoOne /\ mu' = g /\ op' = k /\ undo' = rules /\ rules' = new
        /\ doc' = [doc EXCEPT ![g] = new] /\ saving = {} /\ saving' = {g}
        /\ mixed' = {} /\ file' = file /\ ahead' = ahead
    BY DEF IInv, OneSaver, Change, RuleFile!Open
  <1>2. g # NoOne
    BY GoroutinesDistinct DEF Goroutines
  <1>3. TypeOK'
    BY <1>1 DEF IInv, TypeOK, RuleFile!FileTypeOK, RuleFile!Contents
  <1>4. OneSaver'
    <2>1. doc'[g] = new
      BY <1>1 DEF IInv, TypeOK, RuleFile!FileTypeOK
    <2> QED BY <1>1, <1>2, <2>1 DEF OneSaver
  <1>5. up = "up" /\ ~ahead => rules = file
    BY <1>1 DEF IInv, Agreement, Readable
  <1>6. InProgress'
    BY <1>1, <1>2, <1>5, GoroutinesDistinct DEF IInv, InProgress
  <1>7. Agreement' /\ Parseable'
    BY <1>1, <1>2 DEF IInv, Agreement, Readable, Parseable
  <1> QED BY <1>3, <1>4, <1>6, <1>7 DEF IInv

LEMMA StepIInv == ASSUME IInv, [Next]_vars PROVE IInv'
  <1>t. /\ TypeOK /\ rules \in RuleList /\ undo \in RuleList
        /\ <<>> \in RuleList
    BY DEF IInv, TypeOK, RuleList
  <1>1. CASE Load
    <2>1. file \in RuleList
      BY <1>1, <1>t DEF Load, TypeOK, RuleFile!FileTypeOK, RuleFile!Contents
    <2>2. mu = NoOne
      BY <1>1, <1>t, GoroutinesDistinct DEF Load, IInv, InProgress, TypeOK, Goroutines
    <2>3. TypeOK'
      BY <1>1, <2>1, <1>t DEF Load, TypeOK, fileVars, RuleFile!FileTypeOK, RuleFile!Contents
    <2> QED BY <1>1, <2>2, <2>3, GoroutinesDistinct
            DEF Load, IInv, OneSaver, InProgress, Agreement, Readable, Parseable, fileVars
  <1>2. CASE CreateDefault
    <2>1. PICK id \in IDs :
            Change(Main, "default", <<[id |-> id, filter |-> AnyFile, enabled |-> TRUE]>>)
      BY <1>2 DEF CreateDefault
    <2>2. <<[id |-> id, filter |-> AnyFile, enabled |-> TRUE]>> \in RuleList
      BY FilterAssumption DEF RuleList, Rule
    <2> QED BY <1>2, <2>1, <2>2, ChangeStep DEF CreateDefault, Goroutines
  <1>3. CASE Dies
    <2>1. /\ up' = "down" /\ rules' = <<>> /\ mu' = NoOne /\ op' = "none"
          /\ undo' = <<>> /\ ahead' = FALSE /\ file' = file
          /\ doc' = [g \in Goroutines |-> <<>>] /\ saving' = {} /\ mixed' = {}
      BY <1>3 DEF Dies, RuleFile!Kill
    <2>2. TypeOK'
      BY <2>1, <1>t DEF TypeOK, RuleFile!FileTypeOK, RuleFile!Contents
    <2> QED BY <2>1, <2>2, GoroutinesDistinct
            DEF IInv, OneSaver, InProgress, Agreement, Readable, Parseable
  <1>4. ASSUME NEW g \in Goroutines, SaveCommit(g) PROVE IInv'
    <2>1. /\ mu = g /\ saving = {g} /\ mixed = {} /\ doc[g] = rules
      BY <1>4 DEF SaveCommit, IInv, OneSaver
    <2>2. /\ file' = rules /\ saving' = {} /\ mixed' = {} /\ doc' = doc
      BY <1>4, <2>1 DEF SaveCommit, RuleFile!Commit, RuleFile!Leave
    <2>3. /\ mu' = NoOne /\ op' = "none" /\ undo' = <<>> /\ ahead' = FALSE
          /\ up' = "up" /\ rules' = rules
      BY <1>4 DEF SaveCommit
    <2>4. TypeOK'
      BY <2>2, <2>3, <1>t DEF TypeOK, RuleFile!FileTypeOK, RuleFile!Contents
    <2>5. Parseable'
      BY <2>2, <1>t, FileMarks DEF Parseable
    <2> QED BY <2>2, <2>3, <2>4, <2>5, GoroutinesDistinct
            DEF IInv, OneSaver, InProgress, Agreement, Readable
  <1>5. ASSUME NEW c \in Clients, SaveFails(c) PROVE IInv'
    <2>1. /\ mu = c /\ saving = {c} /\ mixed = {} /\ up = "up"
          /\ op \in {"add", "update", "delete", "enable"}
          /\ ~ahead => undo = file
      BY <1>5, GoroutinesDistinct DEF SaveFails, IInv, OneSaver, InProgress, Goroutines
    <2>2. /\ file' = file /\ saving' = {} /\ mixed' = {} /\ doc' = doc
      BY <1>5, <2>1 DEF SaveFails, RuleFile!Fail, RuleFile!Leave
    <2>3. /\ mu' = NoOne /\ op' = "none" /\ undo' = <<>> /\ up' = up
          /\ rules' = IF op \in {"add", "update"} THEN undo ELSE rules
          /\ ahead' = (ahead \/ op \in {"delete", "enable"})
      BY <1>5 DEF SaveFails
    <2>4. rules' \in RuleList /\ ahead' \in BOOLEAN
      BY <2>3, <1>t DEF TypeOK
    <2>5. TypeOK'
      BY <2>2, <2>3, <2>4, <1>t DEF TypeOK, RuleFile!FileTypeOK, RuleFile!Contents
    <2>6. Agreement'
      BY <2>1, <2>2, <2>3 DEF Agreement, Readable
    <2>7. OneSaver' /\ InProgress' /\ Parseable'
      BY <2>1, <2>2, <2>3, GoroutinesDistinct DEF IInv, OneSaver, InProgress, Parseable
    <2> QED BY <2>5, <2>6, <2>7 DEF IInv
  <1>6. ASSUME NEW c \in Clients,
               AddRule(c) \/ UpdateRule(c) \/ DeleteRule(c) \/ SetAllEnabled(c)
        PROVE  IInv'
    <2>1. PICK k \in {"add", "update", "delete", "enable"}, new \in RuleList :
            Change(c, k, new)
      <3>1. CASE AddRule(c)
        <4>1. PICK id \in IDs, f \in Filters, e \in BOOLEAN :
                Change(c, "add", Append(rules, [id |-> id, filter |-> f, enabled |-> e]))
          BY <3>1 DEF AddRule
        <4>2. [id |-> id, filter |-> f, enabled |-> e] \in Rule
          BY DEF Rule
        <4>3. Append(rules, [id |-> id, filter |-> f, enabled |-> e]) \in RuleList
          BY <4>2, <1>t DEF RuleList
        <4> QED BY <4>1, <4>3
      <3>2. CASE UpdateRule(c)
        BY <3>2, <1>t, UpdatedList DEF UpdateRule
      <3>3. CASE DeleteRule(c)
        BY <3>3, <1>t, ShorterList DEF DeleteRule
      <3>4. CASE SetAllEnabled(c)
        BY <3>4, <1>t, EnabledList DEF SetAllEnabled
      <3> QED BY <1>6, <3>1, <3>2, <3>3, <3>4
    <2>2. up = "up" /\ up' = "up"
      BY <1>6 DEF AddRule, UpdateRule, DeleteRule, SetAllEnabled
    <2> QED BY <2>1, <2>2, ChangeStep DEF Goroutines
  <1>7. CASE UNCHANGED vars
    BY <1>7, <1>t DEF vars, fileVars, IInv, TypeOK, OneSaver, InProgress, Agreement, Readable,
                      Parseable, RuleFile!FileTypeOK, RuleFile!Contents
  <1> QED BY <1>1, <1>2, <1>3, <1>4, <1>5, <1>6, <1>7 DEF Next

LEMMA Inductive == Spec => []IInv
  <1>1. IInv /\ [Next]_vars => IInv'
    BY StepIInv
  <1> QED BY InitIInv, <1>1, PTL DEF Spec

\* The manager's state has its types; in particular every change leaves a list
\* of rules.
THEOREM TypeCorrect == Spec => []TypeOK
  BY Inductive, PTL DEF IInv

\* Whenever Rules or MatchingItems can read the list, memory and autopin.json
\* agree, unless a write that is not rolled back has failed: changes persist, and
\* nobody uses one that may still be undone.
THEOREM RulesAgree == Spec => []Agreement
  BY Inductive, PTL DEF IInv

\* autopin.json never holds half a list, so a restart never fails to parse it.
THEOREM RulesParseable == Spec => []Parseable
  BY Inductive, PTL DEF IInv

\* MatchingItems gives exactly the items that some enabled rule the user has saved
\* accepts, in their order and each once, for any rules, items and numbers of them,
\* whatever edits, failed saves and restarts came before.
THEOREM MatchingIsExact == Spec => []MatchesMeaning
  <1>1. IInv => MatchesMeaning
    <2> SUFFICES ASSUME IInv, Readable, NEW items \in Batches
                 PROVE  Lists(MatchingItems(rules, items), items,
                              Wanted(IF ahead THEN rules ELSE file, items))
      BY DEF MatchesMeaning
    <2>1. rules \in RuleList /\ items \in Seq(ItemType)
      BY BatchAssumption DEF IInv, TypeOK
    <2>2. (IF ahead THEN rules ELSE file) = rules
      BY DEF IInv, Agreement
    <2> QED BY <2>1, <2>2, MatchingMeans
  <1> QED BY <1>1, Inductive, PTL
=============================================================================

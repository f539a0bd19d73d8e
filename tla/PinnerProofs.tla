----------------------------- MODULE PinnerProofs -----------------------------
(***************************************************************************)
(* Proofs about the process, for any database, number of posts and number  *)
(* of requests: the list of items means what the rows say, batches of the  *)
(* refreshers stay apart, and no pin is in flight once Drain has succeeded.*)
(***************************************************************************)
EXTENDS Pinner, Integers, FiniteSetTheorems, SequenceTheorems, WellFoundedInduction, TLAPS

-----------------------------------------------------------------------------
(* Induction and folds *)

\* A set with 0 and the successor of each of its numbers has them all.
LEMMA Induction ==
    ASSUME NEW S, 0 \in S, \A n \in Nat : n \in S => n + 1 \in S
    PROVE  Nat \subseteq S
  <1> DEFINE R == OpToRel(<, Nat)
             T == Nat \ S
  <1> SUFFICES ASSUME T # {} PROVE FALSE
    OBVIOUS
  <1>1. IsWellFoundedOn(R, Nat)
    BY NatLessThanWellFounded
  <1>2. \A x, y \in Nat : <<x, y>> \in R <=> x < y
    BY DEF OpToRel
  <1>3. T \in SUBSET Nat
    OBVIOUS
  <1> HIDE DEF R, T
  <1>4. PICK x \in T : \A y \in T : ~(<<y, x>> \in R)
    BY <1>1, <1>3, WFMin, Zenon
  <1>5. x \in Nat /\ x \notin S /\ \A y \in Nat : y \notin S => ~(y < x)
    BY <1>2, <1>4 DEF T
  <1>6. x # 0 /\ x - 1 \in Nat /\ x - 1 < x
    BY <1>5
  <1> QED BY <1>5, <1>6

\* g solves the recursion of a fold over 1..n that starts with base and makes the
\* step H[i] with the number i.
IsFold(g, base, n, H) ==
    \A s \in SUBSET (1..n) :
       /\ s # {} => Max(s) \in 1..n
       /\ g[s] = IF s = {} THEN base ELSE H[Max(s)][g[s \ {Max(s)}]]

\* There is a solution.
LEMMA FoldExists ==
    ASSUME NEW V, NEW base \in V, NEW n \in Nat, NEW H \in [1..n -> [V -> V]]
    PROVE  \E g \in [SUBSET (1..n) -> V] : IsFold(g, base, n, H)
  <1> DEFINE Found(k) == \E g \in [SUBSET (1..k) -> V] : IsFold(g, base, k, H)
             S == {k \in Nat : k <= n => Found(k)}
  <1>1. Found(0)
    <2>1. SUBSET (1..0) = {{}}
      OBVIOUS
    <2> DEFINE g0 == [s \in SUBSET (1..0) |-> base]
    <2>2. g0 \in [SUBSET (1..0) -> V] /\ IsFold(g0, base, 0, H)
      BY <2>1 DEF IsFold
    <2> QED BY <2>2
  <1>2. ASSUME NEW k \in Nat, k + 1 <= n, Found(k) PROVE Found(k + 1)
    <2>1. PICK g \in [SUBSET (1..k) -> V] : IsFold(g, base, k, H)
      BY <1>2
    <2> DEFINE h == [s \in SUBSET (1..(k + 1)) |->
                        IF k + 1 \in s THEN H[k + 1][g[s \ {k + 1}]] ELSE g[s]]
    <2>2. \A s \in SUBSET (1..(k + 1)) : k + 1 \notin s => s \in SUBSET (1..k)
      OBVIOUS
    <2>3. \A s \in SUBSET (1..(k + 1)) : s \ {k + 1} \in SUBSET (1..k)
      OBVIOUS
    <2>4. ASSUME NEW s \in SUBSET (1..(k + 1)), k + 1 \in s PROVE Max(s) = k + 1
      <3>1. \A y \in s : k + 1 >= y /\ y \in Nat
        OBVIOUS
      <3>2. \A x \in s : (\A y \in s : x >= y) => x = k + 1
        BY <2>4, <3>1
      <3> QED BY <2>4, <3>1, <3>2 DEF Max
    <2>5. k + 1 \in 1..n /\ \A v \in V : H[k + 1][v] \in V
      BY <1>2
    <2>6. h \in [SUBSET (1..(k + 1)) -> V]
      BY <2>2, <2>3, <2>5
    <2>7. \A s \in SUBSET (1..k) : s \in SUBSET (1..(k + 1)) /\ k + 1 \notin s /\ h[s] = g[s]
      OBVIOUS
    <2>8. ASSUME NEW s \in SUBSET (1..(k + 1))
          PROVE  /\ s # {} => Max(s) \in 1..(k + 1)
                 /\ h[s] = IF s = {} THEN base ELSE H[Max(s)][h[s \ {Max(s)}]]
      <3>1. CASE k + 1 \in s
        BY <2>3, <2>4, <2>7, <3>1
      <3>2. CASE k + 1 \notin s
        <4>1. s \in SUBSET (1..k) /\ s \ {Max(s)} \in SUBSET (1..k)
          BY <2>2, <3>2
        <4> HIDE DEF h
        <4> QED BY <2>1, <2>7, <4>1 DEF IsFold
      <3> QED BY <3>1, <3>2
    <2> HIDE DEF h
    <2> QED BY <2>6, <2>8 DEF IsFold
  <1> HIDE DEF Found
  <1>3. \A k \in Nat : k \in S => k + 1 \in S
    BY <1>2
  <1>4. 0 \in S
    BY <1>1
  <1>5. Nat \subseteq S
    <2> HIDE DEF S
    <2> QED BY <1>3, <1>4, Induction
  <1>6. Found(n)
    BY <1>5
  <1> QED BY <1>6 DEF Found

\* The fold takes the numbers in order.
LEMMA FoldOrder ==
    ASSUME NEW i \in Nat \ {0}
    PROVE  1..i # {} /\ Max(1..i) = i /\ (1..i) \ {Max(1..i)} = 1..(i - 1)
  <1>1. i \in 1..i /\ \A y \in 1..i : i >= y
    OBVIOUS
  <1>2. \A x \in 1..i : (\A y \in 1..i : x >= y) => x = i
    BY <1>1
  <1>3. Max(1..i) = i
    BY <1>1, <1>2 DEF Max
  <1>4. \A x : x \in (1..i) \ {i} <=> x \in 1..(i - 1)
    OBVIOUS
  <1> QED BY <1>1, <1>3, <1>4

\* p has the intermediate results, one after the other.
Results(p, base, n, H, last) ==
    p[0] = base /\ p[n] = last /\ \A i \in 1..n : i - 1 \in 0..n /\ p[i] = H[i][p[i - 1]]

\* g folds as long as it stays in V.
FoldsIn(g, V, base, n, H) ==
    /\ g[{}] = base
    /\ \A i \in 1..n : g[1..(i - 1)] \in V => g[1..i] = H[i][g[1..(i - 1)]]

\* Then it has intermediate results, all of them in V.
LEMMA FoldResults ==
    ASSUME NEW V, NEW base \in V, NEW n \in Nat, NEW H \in [1..n -> [V -> V]],
           NEW g, FoldsIn(g, V, base, n, H)
    PROVE  \E p \in [0..n -> V] : Results(p, base, n, H, g[1..n])
  <1> DEFINE p == [i \in 0..n |-> g[1..i]]
             S == {i \in Nat : i <= n => g[1..i] \in V}
  <1>1. 1..0 = {}
    OBVIOUS
  <1>2. 0 \in S
    BY <1>1 DEF FoldsIn
  <1>3. ASSUME NEW i \in Nat, i \in S PROVE i + 1 \in S
    <2> SUFFICES ASSUME i + 1 <= n PROVE g[1..(i + 1)] \in V
      OBVIOUS
    <2>1. i + 1 \in 1..n /\ (i + 1) - 1 = i /\ g[1..i] \in V
      BY <1>3
    <2>2. g[1..(i + 1)] = H[i + 1][g[1..i]]
      BY <2>1 DEF FoldsIn
    <2> QED BY <2>1, <2>2
  <1>4. Nat \subseteq S
    <2> HIDE DEF S
    <2> QED BY <1>2, <1>3, Induction
  <1>5. \A i \in 0..n : g[1..i] \in V
    BY <1>4
  <1>6. \A i \in 1..n : i \in 0..n /\ i - 1 \in 0..n
    OBVIOUS
  <1>7. /\ p \in [0..n -> V]
        /\ Results(p, base, n, H, g[1..n])
    BY <1>1, <1>5, <1>6 DEF Results, FoldsIn
  <1> QED BY <1>7

-----------------------------------------------------------------------------
(* Extracted *)

\* What a row may say of a CID, whether it is valid, and given, or not.
Mention == [author : Authors, cid : AnyCID, type : {"paper", "supplementary", "inline_image"}]

LEMMA MentionsType ==
    ASSUME NEW row \in Row
    PROVE  Mentions(row) \in Seq(Mention)
  <1> DEFINE from(cs, t) == [i \in 1..Len(cs) |-> [author |-> row.author, cid |-> cs[i], type |-> t]]
  <1>1. ASSUME NEW cs \in Seq(AnyCID), NEW t \in {"paper", "supplementary", "inline_image"}
        PROVE  from(cs, t) \in Seq(Mention)
    <2>1. \A i \in 1..Len(cs) : cs[i] \in AnyCID
      OBVIOUS
    <2>2. \A i \in 1..Len(cs) : [author |-> row.author, cid |-> cs[i], type |-> t] \in Mention
      BY <2>1 DEF Mention, Row
    <2>3. Len(cs) \in Nat
      OBVIOUS
    <2> QED BY <2>2, <2>3
  <1>2. <<row.paper>> \in Seq(AnyCID) /\ row.supp \in Seq(AnyCID) /\ row.body \in Seq(AnyCID)
    BY DEF Row
  <1>3. /\ from(<<row.paper>>, "paper") \in Seq(Mention)
        /\ from(row.supp, "supplementary") \in Seq(Mention)
        /\ from(row.body, "inline_image") \in Seq(Mention)
    <2> HIDE DEF from
    <2> QED BY <1>1, <1>2
  <1>4. from(<<row.paper>>, "paper") \o from(row.supp, "supplementary")
           \o from(row.body, "inline_image") \in Seq(Mention)
    <2> HIDE DEF from
    <2> QED BY <1>3
  <1> QED BY <1>4 DEF Mentions

\* The flattened list of lists of mentions is a list of mentions.
LEMMA FlattenType ==
    ASSUME NEW M, NEW seqs \in Seq(Seq(M))
    PROVE  FlattenSeq(seqs) \in Seq(M)
  <1> DEFINE n == Len(seqs)
             V == Seq(M)
             H == [i \in 1..n |-> [v \in V |-> v \o seqs[i]]]
             Flat(f) == f = [i \in 1..n |-> IF i = 1 THEN seqs[i] ELSE f[i - 1] \o seqs[i]]
             fl == CHOOSE f : Flat(f)
  <1>1. n \in Nat /\ \A i \in 1..n : seqs[i] \in V
    OBVIOUS
  <1>2. CASE n = 0
    <2>1. seqs = <<>>
      BY <1>2
    <2>2. FlattenSeq(seqs) = seqs
      BY <1>2 DEF FlattenSeq
    <2>3. <<>> \in Seq(M)
      OBVIOUS
    <2> QED BY <2>1, <2>2, <2>3, Zenon
  <1>3. CASE n # 0
    <2>1. H \in [1..n -> [V -> V]]
      <3>1. \A v, w \in V : v \o w \in V
        OBVIOUS
      <3> HIDE DEF V, n
      <3> QED BY <1>1, <3>1
    <2>2. PICK g \in [SUBSET (1..n) -> V] : IsFold(g, <<>>, n, H)
      <3>1. <<>> \in V
        OBVIOUS
      <3> HIDE DEF H, V, n
      <3> QED BY <1>1, <2>1, <3>1, FoldExists
    <2> DEFINE f == [i \in 1..n |-> g[1..i]]
    <2>3. ASSUME NEW i \in 1..n
          PROVE  f[i] = IF i = 1 THEN seqs[i] ELSE f[i - 1] \o seqs[i]
      <3>1. i \in Nat \ {0} /\ 1..i \in SUBSET (1..n) /\ 1..(i - 1) \in SUBSET (1..n)
        BY <1>1
      <3>2. g[1..i] = H[i][g[1..(i - 1)]]
        <4> HIDE DEF H, n
        <4> QED BY <2>2, <3>1, FoldOrder DEF IsFold
      <3>3. g[1..(i - 1)] \in V
        <4> HIDE DEF n, V
        <4> QED BY <3>1
      <3>4. g[1..i] = g[1..(i - 1)] \o seqs[i]
        <4> HIDE DEF n, V
        <4> QED BY <3>2, <3>3
      <3>5. CASE i = 1
        <4>1. g[1..(i - 1)] = <<>>
          <5>1. {} \in SUBSET (1..n) /\ 1..(i - 1) = {}
            BY <3>5
          <5> HIDE DEF H, n
          <5> QED BY <2>2, <5>1 DEF IsFold
        <4>2. seqs[i] \in V
          BY <1>1
        <4> QED BY <3>4, <3>5, <4>1, <4>2
      <3>6. CASE i # 1
        <4>1. i - 1 \in 1..n
          BY <1>1, <3>6
        <4> HIDE DEF n
        <4> QED BY <3>4, <3>6, <4>1
      <3> QED BY <3>5, <3>6
    <2>4. Flat(fl)
      <3>1. Flat(f)
        <4> HIDE DEF n
        <4> QED BY <2>3
      <3> HIDE DEF Flat, f
      <3> QED BY <3>1
    <2>5. \A i \in 1..n : fl[i] = IF i = 1 THEN seqs[i] ELSE fl[i - 1] \o seqs[i]
      <3> HIDE DEF fl, n
      <3> QED BY <2>4
    <2> DEFINE S == {i \in Nat : i + 1 <= n => fl[i + 1] \in V}
    <2>6. 0 \in S
      <3>1. 1 \in 1..n
        BY <1>1, <1>3
      <3> HIDE DEF fl, n, V
      <3> QED BY <1>1, <2>5, <3>1
    <2>7. ASSUME NEW i \in Nat, i \in S PROVE i + 1 \in S
      <3> SUFFICES ASSUME (i + 1) + 1 <= n PROVE fl[(i + 1) + 1] \in V
        OBVIOUS
      <3>1. (i + 1) + 1 \in 1..n /\ (i + 1) + 1 # 1 /\ ((i + 1) + 1) - 1 = i + 1 /\ i + 1 <= n
        BY <1>1
      <3>2. fl[i + 1] \in V /\ seqs[(i + 1) + 1] \in V
        BY <1>1, <2>7, <3>1
      <3>3. fl[(i + 1) + 1] = fl[i + 1] \o seqs[(i + 1) + 1]
        <4> HIDE DEF fl, n
        <4> QED BY <2>5, <3>1
      <3> HIDE DEF fl
      <3> QED BY <3>2, <3>3
    <2>8. Nat \subseteq S
      <3> HIDE DEF S
      <3> QED BY <2>6, <2>7, Induction
    <2>9. fl[n] \in V
      <3>1. n - 1 \in Nat /\ (n - 1) + 1 = n
        BY <1>1, <1>3
      <3> HIDE DEF fl, n, V
      <3> QED BY <2>8, <3>1
    <2>10. FlattenSeq(seqs) = fl[n]
      BY <1>3 DEF FlattenSeq
    <2> QED BY <2>9, <2>10
  <1> QED BY <1>2, <1>3

LEMMA ValidMention ==
    ASSUME NEW m \in Mention, m.cid \in CIDs
    PROVE  m \in Item
  <1>1. /\ m = [author |-> m.author, cid |-> m.cid, type |-> m.type]
        /\ m.author \in Authors /\ m.type \in {"paper", "supplementary", "inline_image"}
    BY DEF Mention
  <1> QED BY <1>1 DEF Item

LEMMA KeepType ==
    ASSUME NEW out \in Seq(Item), NEW m \in Mention
    PROVE  Keep(out, m) \in Seq(Item)
  <1>1. CASE m.cid \notin CIDs \/ \E i \in 1..Len(out) : out[i].cid = m.cid
    BY <1>1 DEF Keep
  <1>2. CASE m.cid \in CIDs /\ ~\E i \in 1..Len(out) : out[i].cid = m.cid
    BY <1>2, ValidMention DEF Keep
  <1> QED BY <1>1, <1>2

\* extractItemsFromRow goes through the mentions one by one.
LEMMA KeepSteps ==
    ASSUME NEW ms \in Seq(Mention)
    PROVE  \E p \in [0..Len(ms) -> Seq(Item)] :
              /\ p[0] = <<>>
              /\ \A i \in 1..Len(ms) : p[i] = Keep(p[i - 1], ms[i])
              /\ FoldLeft(Keep, <<>>, ms) = p[Len(ms)]
  <1> DEFINE n == Len(ms)
             V == Seq(Item)
             H == [i \in 1..n |-> [v \in V |-> Keep(v, ms[i])]]
             Iter(f) == f = [s \in SUBSET (DOMAIN ms) |->
                               IF s = {} THEN <<>> ELSE Keep(f[s \ {Max(s)}], ms[Max(s)])]
             it == CHOOSE f : Iter(f)
  <1>1. n \in Nat /\ DOMAIN ms = 1..n /\ \A i \in 1..n : ms[i] \in Mention
    OBVIOUS
  <1>2. <<>> \in V
    OBVIOUS
  <1>3. H \in [1..n -> [V -> V]]
    <2>1. \A v \in V, m \in Mention : Keep(v, m) \in V
      BY KeepType
    <2> HIDE DEF V, n
    <2> QED BY <1>1, <2>1
  <1>4. PICK g \in [SUBSET (1..n) -> V] : IsFold(g, <<>>, n, H)
    <2> HIDE DEF H, V, n
    <2> QED BY <1>1, <1>2, <1>3, FoldExists
  <1>5. \A s \in SUBSET (1..n) :
           g[s] = IF s = {} THEN <<>> ELSE Keep(g[s \ {Max(s)}], ms[Max(s)])
    <2> HIDE DEF V, n
    <2>1. \A s \in SUBSET (1..n) : s # {} =>
             H[Max(s)][g[s \ {Max(s)}]] = Keep(g[s \ {Max(s)}], ms[Max(s)])
      BY <1>4 DEF IsFold
    <2> HIDE DEF H
    <2> QED BY <1>4, <2>1 DEF IsFold
  <1>6. Iter(it)
    <2> HIDE DEF V, n, H
    <2>1. Iter(g)
      BY <1>1, <1>4, <1>5
    <2> HIDE DEF Iter
    <2> QED BY <2>1
  <1>7. \A s \in SUBSET (1..n) :
           it[s] = IF s = {} THEN <<>> ELSE Keep(it[s \ {Max(s)}], ms[Max(s)])
    <2> HIDE DEF n, it
    <2> QED BY <1>1, <1>6
  <1>8. FoldLeft(Keep, <<>>, ms) = it[DOMAIN ms]
    BY DEF FoldLeft, MapThenFoldSet
  <1>9. ASSUME NEW i \in 1..n, it[1..(i - 1)] \in V
        PROVE  it[1..i] = H[i][it[1..(i - 1)]]
    <2>1. i \in Nat \ {0} /\ 1..i \in SUBSET (1..n)
      BY <1>1
    <2> HIDE DEF it, V, n
    <2>2. it[1..i] = Keep(it[1..(i - 1)], ms[i])
      BY <1>7, <2>1, FoldOrder
    <2> QED BY <1>9, <2>2
  <1>10. FoldsIn(it, V, <<>>, n, H)
    <2>1. it[{}] = <<>>
      <3> HIDE DEF it, n
      <3> QED BY <1>7
    <2> HIDE DEF it, H, V, n
    <2> QED BY <1>9, <2>1 DEF FoldsIn
  <1>11. PICK p \in [0..n -> V] : Results(p, <<>>, n, H, it[1..n])
    <2> HIDE DEF it, H, V, n
    <2> QED BY <1>1, <1>2, <1>3, <1>10, FoldResults
  <1>12. p[0] = <<>> /\ p[n] = it[1..n] /\ \A i \in 1..n : p[i] = Keep(p[i - 1], ms[i])
    <2> HIDE DEF V, n
    <2> QED BY <1>1, <1>11 DEF Results
  <1> HIDE DEF it
  <1> QED BY <1>1, <1>8, <1>12

\* The places among the first n mentions where a valid CID is new.
Firsts(ms, n) == {i \in 1..n : /\ ms[i].cid \in CIDs
                               /\ \A j \in 1..(i - 1) : ms[j].cid # ms[i].cid}

\* out is what these mentions come to.
Means(out, ms, n) ==
    /\ Len(out) = Cardinality(Firsts(ms, n))
    /\ \A i \in Firsts(ms, n) : out[Cardinality({j \in Firsts(ms, n) : j <= i})] = ms[i]

\* The CIDs of out are those the mentions have had.
SameCIDs(out, ms, n) ==
    \A c \in CIDs : (\E q \in 1..Len(out) : out[q].cid = c) <=> (\E j \in 1..n : ms[j].cid = c)

LEMMA FirstsFinite ==
    ASSUME NEW ms, NEW n \in Nat
    PROVE  IsFiniteSet(Firsts(ms, n)) /\ Cardinality(Firsts(ms, n)) \in Nat
  <1>1. IsFiniteSet(1..n)
    BY FS_Interval
  <1>2. Firsts(ms, n) \subseteq 1..n
    BY DEF Firsts
  <1> QED BY <1>1, <1>2, FS_Subset, FS_CardinalityType

\* A mention that is skipped is not first ...
LEMMA KeepSkips ==
    ASSUME NEW ms \in Seq(Mention), NEW n \in Nat, n + 1 <= Len(ms), NEW out \in Seq(Item),
           Means(out, ms, n), SameCIDs(out, ms, n),
           ms[n + 1].cid \notin CIDs \/ \E q \in 1..Len(out) : out[q].cid = ms[n + 1].cid
    PROVE  Means(out, ms, n + 1) /\ SameCIDs(out, ms, n + 1)
  <1>1. ms[n + 1].cid \in CIDs => \E j \in 1..n : ms[j].cid = ms[n + 1].cid
    BY DEF SameCIDs
  <1>2. 1..(n + 1) = (1..n) \cup {n + 1} /\ (n + 1) - 1 = n
    OBVIOUS
  <1>3. Firsts(ms, n + 1) = Firsts(ms, n)
    BY <1>1, <1>2 DEF Firsts
  <1>4. Means(out, ms, n + 1)
    BY <1>3 DEF Means
  <1>5. SameCIDs(out, ms, n + 1)
    BY <1>1, <1>2 DEF SameCIDs
  <1> QED BY <1>4, <1>5

\* ... and one that is kept is, and comes last.
LEMMA KeepAppends ==
    ASSUME NEW ms \in Seq(Mention), NEW n \in Nat, n + 1 <= Len(ms), NEW out \in Seq(Item),
           Means(out, ms, n), SameCIDs(out, ms, n),
           ms[n + 1].cid \in CIDs, ~\E q \in 1..Len(out) : out[q].cid = ms[n + 1].cid
    PROVE  Means(Append(out, ms[n + 1]), ms, n + 1) /\ SameCIDs(Append(out, ms[n + 1]), ms, n + 1)
  <1> DEFINE m == ms[n + 1]
             F == Firsts(ms, n)
             G == Firsts(ms, n + 1)
             long == Append(out, m)
  <1>1. \A j \in 1..n : ms[j].cid # m.cid
    BY DEF SameCIDs
  <1>2. 1..(n + 1) = (1..n) \cup {n + 1} /\ (n + 1) - 1 = n /\ n + 1 \notin 1..n
    OBVIOUS
  <1>3. G = F \cup {n + 1} /\ n + 1 \notin F /\ F \subseteq 1..n
    BY <1>1, <1>2 DEF Firsts
  <1>4. IsFiniteSet(F) /\ Cardinality(F) \in Nat /\ Cardinality(G) = Cardinality(F) + 1
    BY <1>3, FirstsFinite, FS_AddElement
  <1>5. m \in Item
    <2>1. m \in Mention
      OBVIOUS
    <2> QED BY <2>1, ValidMention
  <1>6. /\ Len(long) = Len(out) + 1 /\ long[Len(out) + 1] = m /\ Len(out) \in Nat
        /\ \A q \in 1..Len(out) : long[q] = out[q]
    BY <1>5
  <1>7. Len(out) = Cardinality(F)
    BY DEF Means
  <1> HIDE DEF long, F, G
  <1>8. ASSUME NEW i \in G PROVE long[Cardinality({j \in G : j <= i})] = ms[i]
    <2>1. CASE i = n + 1
      <3>1. \A j \in G : j <= i
        BY <1>3, <2>1
      <3>2. {j \in G : j <= i} = G
        BY <3>1
      <3> QED BY <1>4, <1>6, <1>7, <2>1, <3>2
    <2>2. CASE i \in F
      <3> DEFINE B == {j \in F : j <= i}
      <3>1. {j \in G : j <= i} = B
        BY <1>3, <2>2
      <3>2. B \subseteq F /\ i \in B
        <4>1. i \in 1..n
          BY <1>3, <2>2
        <4>2. i <= i
          BY <4>1
        <4> QED BY <2>2, <4>2
      <3>3. IsFiniteSet(B) /\ Cardinality(B) \in Nat /\ Cardinality(B) <= Cardinality(F)
        BY <1>4, <3>2, FS_Subset, FS_CardinalityType
      <3>4. Cardinality(B) # 0
        BY <3>2, <3>3, FS_EmptySet
      <3>5. Cardinality(B) \in 1..Len(out)
        BY <1>7, <3>3, <3>4
      <3>6. out[Cardinality(B)] = ms[i]
        BY <2>2 DEF Means, F
      <3> HIDE DEF B
      <3> QED BY <1>6, <3>1, <3>5, <3>6
    <2> QED BY <1>3, <2>1, <2>2
  <1>9. Means(long, ms, n + 1)
    BY <1>4, <1>6, <1>7, <1>8 DEF Means, G
  <1>10. SameCIDs(long, ms, n + 1)
    <2>1. 1..Len(long) = (1..Len(out)) \cup {Len(out) + 1}
      BY <1>6
    <2> SUFFICES ASSUME NEW c \in CIDs
                 PROVE  (\E q \in 1..Len(long) : long[q].cid = c)
                           <=> (\E j \in 1..(n + 1) : ms[j].cid = c)
      BY DEF SameCIDs
    <2>2. (\E q \in 1..Len(long) : long[q].cid = c)
             <=> (\E q \in 1..Len(out) : out[q].cid = c) \/ m.cid = c
      <3> HIDE DEF m
      <3> QED BY <1>6, <2>1
    <2>3. (\E j \in 1..(n + 1) : ms[j].cid = c) <=> (\E j \in 1..n : ms[j].cid = c) \/ m.cid = c
      BY <1>2
    <2>4. (\E q \in 1..Len(out) : out[q].cid = c) <=> (\E j \in 1..n : ms[j].cid = c)
      BY DEF SameCIDs
    <2> QED BY <2>2, <2>3, <2>4
  <1> QED BY <1>9, <1>10 DEF long

\* The items of a list of mentions, however long it is.
LEMMA Extraction ==
    ASSUME NEW ms \in Seq(Mention)
    PROVE  /\ FoldLeft(Keep, <<>>, ms) \in Seq(Item)
           /\ Means(FoldLeft(Keep, <<>>, ms), ms, Len(ms))
  <1> DEFINE n == Len(ms)
  <1>1. PICK p \in [0..n -> Seq(Item)] : /\ p[0] = <<>>
                                         /\ \A i \in 1..n : p[i] = Keep(p[i - 1], ms[i])
                                         /\ FoldLeft(Keep, <<>>, ms) = p[n]
    BY KeepSteps
  <1> DEFINE Q(i) == Means(p[i], ms, i) /\ SameCIDs(p[i], ms, i)
             S == {i \in Nat : i <= n => Q(i)}
  <1>2. n \in Nat
    OBVIOUS
  <1>3. 0 \in S
    <2>1. 1..0 = {} /\ Firsts(ms, 0) = {}
      BY DEF Firsts
    <2>2. Len(p[0]) = 0
      BY <1>1
    <2> QED BY <2>1, <2>2, FS_EmptySet DEF Means, SameCIDs
  <1>4. ASSUME NEW i \in Nat, i \in S PROVE i + 1 \in S
    <2> SUFFICES ASSUME i + 1 <= n PROVE Q(i + 1)
      OBVIOUS
    <2>1. i + 1 \in 1..n /\ (i + 1) - 1 = i /\ i \in 0..n
      BY <1>2
    <2>2. Q(i) /\ p[i] \in Seq(Item) /\ p[i + 1] = Keep(p[i], ms[i + 1])
      BY <1>1, <1>4, <2>1
    <2>3. CASE ms[i + 1].cid \notin CIDs \/ \E q \in 1..Len(p[i]) : p[i][q].cid = ms[i + 1].cid
      <3>1. p[i + 1] = p[i]
        BY <2>2, <2>3 DEF Keep
      <3> QED BY <2>2, <2>3, <3>1, KeepSkips
    <2>4. CASE ms[i + 1].cid \in CIDs /\ ~\E q \in 1..Len(p[i]) : p[i][q].cid = ms[i + 1].cid
      <3>1. p[i + 1] = Append(p[i], ms[i + 1])
        BY <2>2, <2>4 DEF Keep
      <3> QED BY <2>2, <2>4, <3>1, KeepAppends
    <2> QED BY <2>3, <2>4
  <1>5. Nat \subseteq S
    <2> HIDE DEF S
    <2> QED BY <1>3, <1>4, Induction
  <1>6. Means(p[n], ms, n)
    BY <1>2, <1>5
  <1>7. p[n] \in Seq(Item)
    BY <1>2
  <1> QED BY <1>1, <1>6, <1>7

\* The mentions of a list of rows.
AllMentions(rows) == FlattenSeq([i \in 1..Len(rows) |-> Mentions(rows[i])])

LEMMA ExtractedMeans ==
    ASSUME NEW rows \in Seq(Row)
    PROVE  /\ Extracted(rows) \in Seq(Item)
           /\ Means(Extracted(rows), AllMentions(rows), Len(AllMentions(rows)))
           /\ CIDsOf(Extracted(rows)) \subseteq CIDs
  <1> DEFINE per == [i \in 1..Len(rows) |-> Mentions(rows[i])]
  <1>1. per \in Seq(Seq(Mention))
    <2>1. Len(rows) \in Nat /\ \A i \in 1..Len(rows) : Mentions(rows[i]) \in Seq(Mention)
      BY MentionsType
    <2> QED BY <2>1
  <1>2. AllMentions(rows) \in Seq(Mention)
    <2> HIDE DEF per
    <2>1. FlattenSeq(per) \in Seq(Mention)
      BY <1>1, FlattenType
    <2> QED BY <2>1 DEF AllMentions, per
  <1>3. Extracted(rows) = FoldLeft(Keep, <<>>, AllMentions(rows))
    BY DEF Extracted, AllMentions
  <1>4. /\ Extracted(rows) \in Seq(Item)
        /\ Means(Extracted(rows), AllMentions(rows), Len(AllMentions(rows)))
    BY <1>2, <1>3, Extraction
  <1>5. CIDsOf(Extracted(rows)) \subseteq CIDs
    <2>1. \A i \in 1..Len(Extracted(rows)) : Extracted(rows)[i] \in Item
      BY <1>4
    <2>2. \A m \in Item : m.cid \in CIDs
      BY DEF Item
    <2> QED BY <2>1, <2>2 DEF CIDsOf
  <1> QED BY <1>4, <1>5

\* An empty list of rows has no items.
LEMMA ExtractedNothing == Extracted(<<>>) = <<>>
  <1>1. <<>> \in Seq(Row)
    OBVIOUS
  <1>2. AllMentions(<<>>) = <<>>
    <2>1. [i \in 1..Len(<<>>) |-> Mentions(<<>>[i])] = <<>>
      OBVIOUS
    <2> QED BY <2>1 DEF AllMentions, FlattenSeq
  <1>3. Len(AllMentions(<<>>)) = 0
    BY <1>2
  <1>4. Firsts(AllMentions(<<>>), 0) = {}
    BY DEF Firsts
  <1>5. Extracted(<<>>) \in Seq(Item) /\ Len(Extracted(<<>>)) = 0
    BY <1>1, <1>3, <1>4, ExtractedMeans, FS_EmptySet DEF Means
  <1> QED BY <1>5

-----------------------------------------------------------------------------
(* The inductive invariant *)

\* The ticker's goroutine begins after the first refresh, a refresher is in Run
\* only within its callback, and the list is Extracted's of the rows it names.
Order == refresh[Ticker] # "gone" => refresh[Main] = "gone"

InCallback == \A g \in running \cap Refreshers : refresh[g] = "callback"

\* What a refresher reads is at least as new as what is published, and not newer
\* than the database.
Versions ==
    /\ itemsAsOf <= version
    /\ \A g \in Refreshers : refresh[g] = "rows" => asOf[g] >= itemsAsOf /\ asOf[g] <= version

\* The gate is closed before Drain looks at the pins in flight.
Gate == /\ main \in {"draining", "close"} => ~gate
        /\ drained => ~gate

Published == items = Extracted(itemsRead)

Inv == /\ TypeOK /\ Order /\ InCallback /\ Versions /\ Gate /\ LateCallsRejected
       /\ Published

LEMMA InitInv == Init => Inv
  <1> SUFFICES ASSUME Init PROVE Inv
    OBVIOUS
  <1> USE DEF Init, DiscoveryInit
  <1>1. DiscoveryTypeOK
    <2>1. 0 \in 0..MaxVersion
      BY DiscoveryConstants
    <2>2. <<>> \in Seq(Row) /\ <<>> \in Seq(Item)
      OBVIOUS
    <2> QED BY <2>1, <2>2 DEF DiscoveryTypeOK
  <1>2. TypeOK
    BY <1>1 DEF TypeOK
  <1>3. Order /\ InCallback /\ Versions /\ Gate /\ LateCallsRejected
    BY DiscoveryConstants DEF Order, InCallback, Versions, Gate, LateCallsRejected, Refreshers
  <1>4. Published
    BY ExtractedNothing DEF Published
  <1> QED BY <1>2, <1>3, <1>4 DEF Inv

\* The rows of the database and of the refreshers are rows; so are the items
\* items, and a batch has valid CIDs.
LEMMA TypeStep ==
    ASSUME TypeOK, [Next]_vars
    PROVE  TypeOK'
  <1> USE DEF TypeOK, DiscoveryTypeOK
  <1>1. CASE UNCHANGED vars
    BY <1>1 DEF vars, discoveryVars, refreshVars, listVars, runVars
  <1>2. ASSUME NEW g \in Refreshers, Query(g), UNCHANGED <<main, runVars, gate, drained>>
        PROVE  TypeOK'
    <2>1. db \in Seq(Row) /\ <<>> \in Seq(Row)
      BY DiscoveryConstants
    <2> QED BY <1>2, <2>1 DEF Query, Goto, listVars, runVars
  <1>3. ASSUME NEW g \in Refreshers, ReadRow(g), UNCHANGED <<main, runVars, gate, drained>>
        PROVE  TypeOK'
    <2>1. rest[g] \in Seq(Row) /\ read[g] \in Seq(Row) /\ rest[g] # <<>>
      BY <1>3 DEF ReadRow
    <2>2. Tail(rest[g]) \in Seq(Row) /\ Append(read[g], Head(rest[g])) \in Seq(Row)
      BY <2>1
    <2> QED BY <1>3, <2>2 DEF ReadRow, listVars, runVars
  <1>4. ASSUME NEW g \in Refreshers, After(g), UNCHANGED <<db, version, dbOpen, ctxDone, listVars>>
        PROVE  DiscoveryTypeOK'
    <2>1. 0 \in 0..MaxVersion /\ <<>> \in Seq(Row)
      BY DiscoveryConstants
    <2> QED BY <1>4, <2>1 DEF After, Goto, listVars
  <1>5. ASSUME NEW g \in Refreshers, RefreshFails(g), UNCHANGED <<main, runVars, gate, drained>>
        PROVE  TypeOK'
    <2> HIDE DEF DiscoveryTypeOK
    <2> QED BY <1>4, <1>5 DEF RefreshFails, runVars
  <1>6. ASSUME NEW g \in Refreshers, Publish(g), UNCHANGED <<main, runVars, gate, drained>>
        PROVE  TypeOK'
    <2>1. read[g] \in Seq(Row) /\ Extracted(read[g]) \in Seq(Item) /\ asOf[g] \in 0..MaxVersion
      BY ExtractedMeans
    <2> QED BY <1>6, <2>1 DEF Publish, Goto, runVars
  <1>7. CASE /\ TickRefresh \/ TickerExits \/ DBChanges
             /\ UNCHANGED <<main, runVars, gate, drained>>
    <2>1. Ticker \in Refreshers
      BY DEF Refreshers
    <2>2. CASE TickRefresh \/ TickerExits
      BY <1>7, <2>1, <2>2 DEF TickRefresh, TickerExits, Goto, listVars, runVars
    <2>3. CASE DBChanges
      BY <1>7, <2>3, DiscoveryConstants DEF DBChanges, refreshVars, listVars, runVars
    <2> QED BY <1>7, <2>2, <2>3
  <1>8. ASSUME NEW c \in Callers, NEW matched \in SUBSET CIDs, RunStart(c, matched),
               UNCHANGED discoveryVars
        PROVE  TypeOK'
    BY <1>8 DEF RunStart, discoveryVars, refreshVars, listVars
  <1>9. ASSUME NEW g \in Refreshers, CallbackRuns(g) PROVE TypeOK'
    <2>1. g \in Callers /\ CIDsOf(Extracted(read[g])) \subseteq CIDs
      BY ExtractedMeans DEF Callers
    <2>2. PICK matched \in SUBSET CIDsOf(Extracted(read[g])) \ {{}} : RunStart(g, matched)
      BY <1>9 DEF CallbackRuns
    <2>3. matched \in SUBSET CIDs /\ UNCHANGED discoveryVars
      BY <1>9, <2>1, <2>2 DEF CallbackRuns
    <2> HIDE DEF TypeOK, DiscoveryTypeOK
    <2> QED BY <1>8, <2>1, <2>2, <2>3
  <1>10. ASSUME NEW g \in Refreshers, CallbackSkips(g) PROVE TypeOK'
    <2> HIDE DEF DiscoveryTypeOK
    <2> QED BY <1>4, <1>10 DEF CallbackSkips, RefreshEnds, runVars
  <1>11. ASSUME NEW h \in Handlers, HandlerRuns(h) PROVE TypeOK'
    <2>1. h \in Callers /\ CIDsOf(items) \subseteq CIDs
      <3>1. \A i \in 1..Len(items) : items[i] \in Item
        OBVIOUS
      <3>2. \A m \in Item : m.cid \in CIDs
        BY DEF Item
      <3> QED BY <3>1, <3>2 DEF CIDsOf, Callers
    <2>2. PICK matched \in SUBSET CIDsOf(items) : RunStart(h, matched)
      BY <1>11 DEF HandlerRuns
    <2>3. matched \in SUBSET CIDs /\ UNCHANGED discoveryVars
      BY <1>11, <2>1, <2>2 DEF HandlerRuns
    <2> HIDE DEF TypeOK, DiscoveryTypeOK
    <2> QED BY <1>8, <2>1, <2>2, <2>3
  <1>12. ASSUME NEW h \in Handlers, ClientLeaves(h) PROVE TypeOK'
    BY <1>12 DEF ClientLeaves, Callers, discoveryVars, refreshVars, listVars
  <1>13. ASSUME NEW c \in Callers, NEW x \in CIDs, PinBegins(c, x) \/ PinRejected(c, x) \/ PinEnds(c, x)
         PROVE  TypeOK'
    BY <1>13 DEF PinBegins, PinRejected, PinEnds, discoveryVars, refreshVars, listVars
  <1>14. ASSUME NEW c \in Callers, RunReturns(c) PROVE TypeOK'
    <2>1. CASE c \in Refreshers
      <3> HIDE DEF DiscoveryTypeOK
      <3> QED BY <1>4, <1>14, <2>1 DEF RunReturns, RefreshEnds
    <2>2. CASE c \notin Refreshers
      BY <1>14, <2>2 DEF RunReturns, discoveryVars, refreshVars, listVars
    <2> QED BY <2>1, <2>2
  <1>15. CASE Serve
    BY <1>15 DEF Serve, StartTicker, Goto, Refreshers, listVars, runVars
  <1>16. CASE SignalKills \/ ServerFails \/ Signal \/ HTTPShutdown \/ DrainGate \/ CloseAndExit
    BY <1>16 DEF SignalKills, ServerFails, Signal, HTTPShutdown, DrainGate, CloseAndExit,
                 discoveryVars, refreshVars, listVars, runVars
  <1>17. CASE StopDiscovery
    BY <1>17 DEF StopDiscovery, Stop, refreshVars, listVars, runVars
  <1>18. CASE DrainReturns
    BY <1>18 DEF DrainReturns, discoveryVars, refreshVars, listVars, runVars
  <1> HIDE DEF TypeOK, DiscoveryTypeOK
  <1> QED BY <1>1, <1>2, <1>3, <1>5, <1>6, <1>7, <1>9, <1>10, <1>11, <1>12, <1>13, <1>14,
             <1>15, <1>16, <1>17, <1>18
       DEF Next, RefreshStep, MainStep

\* The two refreshers are never at work together.
LEMMA OneRefresher ==
    ASSUME TypeOK, Order, NEW f \in Refreshers, NEW g \in Refreshers, f # g,
           refresh[f] # "gone"
    PROVE  refresh[g] = "gone"
  BY DEF Order, Refreshers

\* Steps of Discovery: only the end of Start lets the ticker's goroutine begin, and
\* what a refresher publishes it has read after the list that is there.
LEMMA DiscoveryStep ==
    ASSUME TypeOK, Order, InCallback, Versions, Published,
           \/ \E g \in Refreshers : RefreshStep(g)
           \/ TickRefresh \/ TickerExits \/ DBChanges \/ StartTicker \/ Stop,
           UNCHANGED running
    PROVE  /\ Order' /\ InCallback' /\ Versions' /\ Published'
           /\ itemsAsOf' >= itemsAsOf
  <1> USE DEF Order, InCallback, Versions, Published
  <1>1. /\ version \in Nat /\ itemsAsOf \in Nat
        /\ refresh \in [Refreshers -> {"idle", "query", "rows", "callback", "gone"}]
        /\ asOf \in [Refreshers -> Nat]
        /\ Main \in Refreshers /\ Ticker \in Refreshers /\ Main # Ticker
    BY DiscoveryConstants DEF TypeOK, DiscoveryTypeOK, Refreshers
  <1>2. ASSUME NEW g \in Refreshers, Query(g)
        PROVE  /\ Order' /\ InCallback' /\ Versions' /\ Published' /\ itemsAsOf' >= itemsAsOf
    BY <1>1, <1>2 DEF Query, Goto, listVars
  <1>3. ASSUME NEW g \in Refreshers, ReadRow(g)
        PROVE  /\ Order' /\ InCallback' /\ Versions' /\ Published' /\ itemsAsOf' >= itemsAsOf
    BY <1>1, <1>3 DEF ReadRow, listVars
  <1>4. ASSUME NEW g \in Refreshers, RefreshFails(g)
        PROVE  /\ Order' /\ InCallback' /\ Versions' /\ Published' /\ itemsAsOf' >= itemsAsOf
    BY <1>1, <1>4 DEF RefreshFails, After, Goto, listVars
  <1>5. ASSUME NEW g \in Refreshers, Publish(g)
        PROVE  /\ Order' /\ InCallback' /\ Versions' /\ Published' /\ itemsAsOf' >= itemsAsOf
    <2>1. \A f \in Refreshers : f # g => refresh[f] = "gone"
      BY <1>5, OneRefresher DEF Publish
    <2>2. itemsAsOf' = asOf[g] /\ itemsAsOf' >= itemsAsOf /\ itemsAsOf' <= version
      BY <1>1, <1>5 DEF Publish
    <2>3. Order' /\ InCallback' /\ Published'
      BY <1>1, <1>5, <2>1 DEF Publish, Goto
    <2>4. Versions'
      BY <1>1, <1>5, <2>1, <2>2 DEF Publish, Goto
    <2> QED BY <2>2, <2>3, <2>4
  <1>6. CASE TickRefresh \/ TickerExits
    BY <1>1, <1>6 DEF TickRefresh, TickerExits, Goto, listVars
  <1>7. CASE DBChanges \/ Stop
    BY <1>1, <1>7 DEF DBChanges, Stop, refreshVars, listVars
  <1>8. CASE StartTicker
    BY <1>1, <1>8 DEF StartTicker, Goto, listVars
  <1> QED BY <1>2, <1>3, <1>4, <1>5, <1>6, <1>7, <1>8 DEF RefreshStep

\* A refresh ends after its callback has left Run.
LEMMA RefreshEndsStep ==
    ASSUME TypeOK, Order, InCallback, Versions, Published,
           NEW g \in Refreshers, RefreshEnds(g), running' = running \ {g}
    PROVE  /\ Order' /\ InCallback' /\ Versions' /\ Published'
           /\ itemsAsOf' >= itemsAsOf
  <1>1. /\ version \in Nat /\ itemsAsOf \in Nat
        /\ refresh \in [Refreshers -> {"idle", "query", "rows", "callback", "gone"}]
        /\ asOf \in [Refreshers -> Nat]
        /\ Main \in Refreshers /\ Ticker \in Refreshers /\ Main # Ticker
    BY DiscoveryConstants DEF TypeOK, DiscoveryTypeOK, Refreshers
  <1>2. refresh' = [refresh EXCEPT ![g] = IF g = Main THEN "gone" ELSE "idle"]
    BY DEF RefreshEnds, After, Goto
  <1>3. UNCHANGED <<version, listVars>> /\ asOf' = [asOf EXCEPT ![g] = 0] /\ refresh[g] = "callback"
    BY DEF RefreshEnds, After
  <1>4. Order'
    BY <1>1, <1>2, <1>3 DEF Order, Refreshers
  <1>5. InCallback' /\ Versions' /\ Published' /\ itemsAsOf' >= itemsAsOf
    BY <1>1, <1>2, <1>3 DEF InCallback, Versions, Published, listVars
  <1> QED BY <1>4, <1>5

\* Steps of main and of the callers of Run: a Pin begins only while the gate is
\* open, and Drain closes it before it looks.
LEMMA GateStep ==
    ASSUME TypeOK, Gate, LateCallsRejected, Next
    PROVE  Gate' /\ LateCallsRejected'
  <1> USE DEF Gate, LateCallsRejected
  <1>1. flight \in [Callers -> SUBSET CIDs]
    BY DEF TypeOK
  <1>2. ASSUME UNCHANGED <<main, flight, gate, drained>>
        PROVE  Gate' /\ LateCallsRejected'
    BY <1>2
  <1>3. CASE /\ (\E g \in Refreshers : RefreshStep(g)) \/ TickRefresh \/ TickerExits \/ DBChanges
             /\ UNCHANGED <<main, runVars, gate, drained>>
    BY <1>2, <1>3 DEF runVars
  <1>4. ASSUME NEW g \in Refreshers, CallbackRuns(g) \/ CallbackSkips(g)
        PROVE  Gate' /\ LateCallsRejected'
    BY <1>2, <1>4 DEF CallbackRuns, RunStart, CallbackSkips, runVars
  <1>5. ASSUME NEW h \in Handlers, HandlerRuns(h) \/ ClientLeaves(h)
        PROVE  Gate' /\ LateCallsRejected'
    BY <1>2, <1>5 DEF HandlerRuns, RunStart, ClientLeaves
  <1>6. ASSUME NEW c \in Callers, NEW x \in CIDs, PinBegins(c, x) \/ PinRejected(c, x) \/ PinEnds(c, x)
        PROVE  Gate' /\ LateCallsRejected'
    BY <1>1, <1>6 DEF PinBegins, PinRejected, PinEnds
  <1>7. ASSUME NEW c \in Callers, RunReturns(c) PROVE Gate' /\ LateCallsRejected'
    BY <1>2, <1>7 DEF RunReturns
  <1>8. CASE \/ Serve \/ SignalKills \/ ServerFails \/ Signal \/ HTTPShutdown \/ StopDiscovery
             \/ CloseAndExit
    BY <1>8 DEF Serve, SignalKills, ServerFails, Signal, HTTPShutdown, StopDiscovery,
                CloseAndExit, runVars
  <1>9. CASE DrainGate
    BY <1>9 DEF DrainGate, runVars
  <1>10. CASE DrainReturns
    BY <1>10 DEF DrainReturns, runVars
  <1> QED BY <1>3, <1>4, <1>5, <1>6, <1>7, <1>8, <1>9, <1>10 DEF Next, MainStep

LEMMA ListStep ==
    ASSUME Inv, Next
    PROVE  /\ Order' /\ InCallback' /\ Versions' /\ Published'
           /\ itemsAsOf' >= itemsAsOf
  <1> USE DEF Inv
  <1>1. ASSUME UNCHANGED discoveryVars, running' \cap Refreshers \subseteq running \cap Refreshers
        PROVE  /\ Order' /\ InCallback' /\ Versions' /\ Published' /\ itemsAsOf' >= itemsAsOf
    <2>1. itemsAsOf \in Nat
      BY DEF TypeOK, DiscoveryTypeOK
    <2> QED BY <1>1, <2>1 DEF Order, InCallback, Versions, Published, discoveryVars, refreshVars, listVars
  <1>2. CASE /\ (\E g \in Refreshers : RefreshStep(g)) \/ TickRefresh \/ TickerExits \/ DBChanges
             /\ UNCHANGED <<main, runVars, gate, drained>>
    BY <1>2, DiscoveryStep DEF runVars
  <1>3. CASE Serve
    BY <1>3, DiscoveryStep DEF Serve, runVars
  <1>4. CASE StopDiscovery
    BY <1>4, DiscoveryStep DEF StopDiscovery, runVars
  <1>5. ASSUME NEW g \in Refreshers, CallbackRuns(g)
        PROVE  /\ Order' /\ InCallback' /\ Versions' /\ Published' /\ itemsAsOf' >= itemsAsOf
    <2>1. itemsAsOf \in Nat
      BY DEF TypeOK, DiscoveryTypeOK
    <2> QED BY <1>5, <2>1 DEF CallbackRuns, RunStart, Order, InCallback, Versions, Published,
                              discoveryVars, refreshVars, listVars
  <1>6. ASSUME NEW g \in Refreshers, CallbackSkips(g)
        PROVE  /\ Order' /\ InCallback' /\ Versions' /\ Published' /\ itemsAsOf' >= itemsAsOf
    <2>1. running' = running \ {g}
      BY <1>6 DEF CallbackSkips, runVars
    <2> QED BY <1>6, <2>1, RefreshEndsStep DEF CallbackSkips
  <1>7. ASSUME NEW h \in Handlers, HandlerRuns(h) \/ ClientLeaves(h)
        PROVE  /\ Order' /\ InCallback' /\ Versions' /\ Published' /\ itemsAsOf' >= itemsAsOf
    BY <1>1, <1>7, HandlersApart DEF HandlerRuns, RunStart, ClientLeaves
  <1>8. ASSUME NEW c \in Callers, NEW x \in CIDs, PinBegins(c, x) \/ PinRejected(c, x) \/ PinEnds(c, x)
        PROVE  /\ Order' /\ InCallback' /\ Versions' /\ Published' /\ itemsAsOf' >= itemsAsOf
    BY <1>1, <1>8 DEF PinBegins, PinRejected, PinEnds
  <1>9. ASSUME NEW c \in Callers, RunReturns(c)
        PROVE  /\ Order' /\ InCallback' /\ Versions' /\ Published' /\ itemsAsOf' >= itemsAsOf
    <2>1. CASE c \in Refreshers
      BY <1>9, <2>1, RefreshEndsStep DEF RunReturns
    <2>2. CASE c \notin Refreshers
      BY <1>1, <1>9, <2>2 DEF RunReturns
    <2> QED BY <2>1, <2>2
  <1>10. CASE \/ SignalKills \/ ServerFails \/ Signal \/ HTTPShutdown \/ DrainGate
              \/ DrainReturns \/ CloseAndExit
    BY <1>1, <1>10 DEF SignalKills, ServerFails, Signal, HTTPShutdown, DrainGate, DrainReturns,
                       CloseAndExit, runVars
  <1> QED BY <1>2, <1>3, <1>4, <1>5, <1>6, <1>7, <1>8, <1>9, <1>10 DEF Next, MainStep

LEMMA Invariant == Spec => []Inv
  <1>1. ASSUME Inv, [Next]_vars PROVE Inv'
    <2>1. CASE UNCHANGED vars
      <3>1. TypeOK'
        BY <1>1, TypeStep DEF Inv
      <3>2. (Order /\ InCallback /\ Versions /\ Gate /\ LateCallsRejected /\ Published)'
        BY <1>1, <2>1 DEF Inv, vars, discoveryVars, refreshVars, listVars, runVars,
             Order, InCallback, Versions, Gate, LateCallsRejected, Published
      <3> QED BY <3>1, <3>2 DEF Inv
    <2>2. CASE Next
      BY <1>1, <2>2, TypeStep, GateStep, ListStep DEF Inv
    <2> QED BY <1>1, <2>1, <2>2
  <1> QED BY InitInv, <1>1, PTL DEF Spec

-----------------------------------------------------------------------------
(* The properties *)

\* Every variable of the process keeps its type; in particular what refresh
\* publishes are items with valid CIDs, whatever the rows say.
THEOREM TypeCorrect == Spec => []TypeOK
  <1>1. Inv => TypeOK
    BY DEF Inv
  <1> QED BY Invariant, <1>1, PTL

\* For any number of rows and mentions, extractItemsFromRow over the rows yields
\* every valid CID once, at its first mention.
THEOREM ItemsMean == Spec => []ItemsMeaning
  <1>1. ASSUME Inv PROVE ItemsMeaning
    <2>1. items = Extracted(itemsRead) /\ itemsRead \in Seq(Row)
      BY <1>1 DEF Inv, Published, TypeOK, DiscoveryTypeOK
    <2>2. Means(items, AllMentions(itemsRead), Len(AllMentions(itemsRead)))
      BY <2>1, ExtractedMeans
    <2> QED BY <2>2 DEF ItemsMeaning, Means, Firsts, AllMentions
  <1> QED BY Invariant, <1>1, PTL

\* The first refresh and those of the ticker never replace a list by an older one,
\* whatever the database does meanwhile.
THEOREM ListsNeverOlder == Spec => NeverOlder
  <1>1. Inv /\ [Next]_vars => [itemsAsOf' >= itemsAsOf]_vars
    BY ListStep
  <1> QED BY Invariant, <1>1, PTL DEF Spec, NeverOlder

\* The batches of two refreshes never run together.
THEOREM BatchesStayApart == Spec => []BatchesApart
  <1>1. Inv => BatchesApart
    BY DiscoveryConstants DEF Inv, Order, InCallback, BatchesApart, Refreshers
  <1> QED BY Invariant, <1>1, PTL

\* A successful Drain is final: no call that comes late, from a refresh Stop did
\* not wait for or from a handler, pins anything.
THEOREM DrainIsFinal == Spec => []LateCallsRejected
  <1>1. Inv => LateCallsRejected
    BY DEF Inv
  <1> QED BY Invariant, <1>1, PTL
=============================================================================

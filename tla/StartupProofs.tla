----------------------------- MODULE StartupProofs -----------------------------
(***************************************************************************)
(* Proofs about the start of the process, for all command lines,           *)
(* environments, .env files and data directories.                          *)
(***************************************************************************)
EXTENDS Startup, SequenceTheorems, WellFoundedInduction, TLAPS

-----------------------------------------------------------------------------
(* Induction and folds *)

\* A set with 0 and the successor of each of its numbers has them all.
LEMMA Induction ==
    ASSUME NEW S, 0 \in S, \A n \in Nat : n \in S => n + 1 \in S
    PROVE  Nat \subseteq S
  <1> DEFINE R == OpToRel(<, Nat)
             T == Nat \ S
  <1> SUFFICES ASSUME T # {} PROVE FALSE
    OBVIOUS
  <1>1. IsWellFoundedOn(R, Nat)
    BY NatLessThanWellFounded
  <1>2. \A x, y \in Nat : <<x, y>> \in R <=> x < y
    BY DEF OpToRel
  <1>3. T \in SUBSET Nat
    OBVIOUS
  <1> HIDE DEF R, T
  <1>4. PICK x \in T : \A y \in T : ~(<<y, x>> \in R)
    BY <1>1, <1>3, WFMin, Zenon
  <1>5. x \in Nat /\ x \notin S /\ \A y \in Nat : y \notin S => ~(y < x)
    BY <1>2, <1>4 DEF T
  <1>6. x # 0 /\ x - 1 \in Nat /\ x - 1 < x
    BY <1>5
  <1> QED BY <1>5, <1>6

\* g solves the recursion of a fold over 1..n that starts with base and makes the
\* step H[i] with the number i.
IsFold(g, base, n, H) ==
    \A s \in SUBSET (1..n) :
       /\ s # {} => Max(s) \in 1..n
       /\ g[s] = IF s = {} THEN base ELSE H[Max(s)][g[s \ {Max(s)}]]

\* There is a solution.
LEMMA FoldExists ==
    ASSUME NEW V, NEW base \in V, NEW n \in Nat, NEW H \in [1..n -> [V -> V]]
    PROVE  \E g \in [SUBSET (1..n) -> V] : IsFold(g, base, n, H)
  <1> DEFINE Found(k) == \E g \in [SUBSET (1..k) -> V] : IsFold(g, base, k, H)
             S == {k \in Nat : k <= n => Found(k)}
  <1>1. Found(0)
    <2>1. SUBSET (1..0) = {{}}
      OBVIOUS
    <2> DEFINE g0 == [s \in SUBSET (1..0) |-> base]
    <2>2. g0 \in [SUBSET (1..0) -> V] /\ IsFold(g0, base, 0, H)
      BY <2>1 DEF IsFold
    <2> QED BY <2>2
  <1>2. ASSUME NEW k \in Nat, k + 1 <= n, Found(k) PROVE Found(k + 1)
    <2>1. PICK g \in [SUBSET (1..k) -> V] : IsFold(g, base, k, H)
      BY <1>2
    <2> DEFINE h == [s \in SUBSET (1..(k + 1)) |->
                        IF k + 1 \in s THEN H[k + 1][g[s \ {k + 1}]] ELSE g[s]]
    <2>2. \A s \in SUBSET (1..(k + 1)) : k + 1 \notin s => s \in SUBSET (1..k)
      OBVIOUS
    <2>3. \A s \in SUBSET (1..(k + 1)) : s \ {k + 1} \in SUBSET (1..k)
      OBVIOUS
    <2>4. ASSUME NEW s \in SUBSET (1..(k + 1)), k + 1 \in s PROVE Max(s) = k + 1
      <3>1. \A y \in s : k + 1 >= y /\ y \in Nat
        OBVIOUS
      <3>2. \A x \in s : (\A y \in s : x >= y) => x = k + 1
        BY <2>4, <3>1
      <3> QED BY <2>4, <3>1, <3>2 DEF Max
    <2>5. k + 1 \in 1..n /\ \A v \in V : H[k + 1][v] \in V
      BY <1>2
    <2>6. h \in [SUBSET (1..(k + 1)) -> V]
      BY <2>2, <2>3, <2>5
    <2>7. \A s \in SUBSET (1..k) : s \in SUBSET (1..(k + 1)) /\ k + 1 \notin s /\ h[s] = g[s]
      OBVIOUS
    <2>8. ASSUME NEW s \in SUBSET (1..(k + 1))
          PROVE  /\ s # {} => Max(s) \in 1..(k + 1)
                 /\ h[s] = IF s = {} THEN base ELSE H[Max(s)][h[s \ {Max(s)}]]
      <3>1. CASE k + 1 \in s
        BY <2>3, <2>4, <2>7, <3>1
      <3>2. CASE k + 1 \notin s
        <4>1. s \in SUBSET (1..k) /\ s \ {Max(s)} \in SUBSET (1..k)
          BY <2>2, <3>2
        <4> HIDE DEF h
        <4> QED BY <2>1, <2>7, <4>1 DEF IsFold
      <3> QED BY <3>1, <3>2
    <2> HIDE DEF h
    <2> QED BY <2>6, <2>8 DEF IsFold
  <1> HIDE DEF Found
  <1>3. \A k \in Nat : k \in S => k + 1 \in S
    BY <1>2
  <1>4. 0 \in S
    BY <1>1
  <1>5. Nat \subseteq S
    <2> HIDE DEF S
    <2> QED BY <1>3, <1>4, Induction
  <1>6. Found(n)
    BY <1>5
  <1> QED BY <1>6 DEF Found

\* The fold takes the numbers in order.
LEMMA FoldOrder ==
    ASSUME NEW i \in Nat \ {0}
    PROVE  1..i # {} /\ Max(1..i) = i /\ (1..i) \ {Max(1..i)} = 1..(i - 1)
  <1>1. i \in 1..i /\ \A y \in 1..i : i >= y
    OBVIOUS
  <1>2. \A x \in 1..i : (\A y \in 1..i : x >= y) => x = i
    BY <1>1
  <1>3. Max(1..i) = i
    BY <1>1, <1>2 DEF Max
  <1>4. \A x : x \in (1..i) \ {i} <=> x \in 1..(i - 1)
    OBVIOUS
  <1> QED BY <1>1, <1>3, <1>4

\* p has the intermediate results, one after the other.
Results(p, base, n, H, last) ==
    p[0] = base /\ p[n] = last /\ \A i \in 1..n : i - 1 \in 0..n /\ p[i] = H[i][p[i - 1]]

\* g folds as long as it stays in V.
FoldsIn(g, V, base, n, H) ==
    /\ g[{}] = base
    /\ \A i \in 1..n : g[1..(i - 1)] \in V => g[1..i] = H[i][g[1..(i - 1)]]

\* Then it has intermediate results, all of them in V.
LEMMA FoldResults ==
    ASSUME NEW V, NEW base \in V, NEW n \in Nat, NEW H \in [1..n -> [V -> V]],
           NEW g, FoldsIn(g, V, base, n, H)
    PROVE  \E p \in [0..n -> V] : Results(p, base, n, H, g[1..n])
  <1> DEFINE p == [i \in 0..n |-> g[1..i]]
             S == {i \in Nat : i <= n => g[1..i] \in V}
  <1>1. 1..0 = {}
    OBVIOUS
  <1>2. 0 \in S
    BY <1>1 DEF FoldsIn
  <1>3. ASSUME NEW i \in Nat, i \in S PROVE i + 1 \in S
    <2> SUFFICES ASSUME i + 1 <= n PROVE g[1..(i + 1)] \in V
      OBVIOUS
    <2>1. i + 1 \in 1..n /\ (i + 1) - 1 = i /\ g[1..i] \in V
      BY <1>3
    <2>2. g[1..(i + 1)] = H[i + 1][g[1..i]]
      BY <2>1 DEF FoldsIn
    <2> QED BY <2>1, <2>2
  <1>4. Nat \subseteq S
    <2> HIDE DEF S
    <2> QED BY <1>2, <1>3, Induction
  <1>5. \A i \in 0..n : g[1..i] \in V
    BY <1>4
  <1>6. \A i \in 1..n : i \in 0..n /\ i - 1 \in 0..n
    OBVIOUS
  <1>7. /\ p \in [0..n -> V]
        /\ Results(p, base, n, H, g[1..n])
    BY <1>1, <1>5, <1>6 DEF Results, FoldsIn
  <1> QED BY <1>7

-----------------------------------------------------------------------------
(* What ParseConfig accepts *)

\* A setting that is given has passed the check of its sign; one that is not has
\* a default, here or where it is used.
LEMMA AcceptedKnobs ==
    ASSUME NEW flag, NEW env, NEW home, NEW c \in ParseConfig(flag, env, home),
           NEW k \in Counts \cup Timeouts
    PROVE  /\ c.num[k] \in Int
           /\ c.num[k] >= 0
           /\ k \in {"AUTOPIN_CONCURRENCY", "AUTOPIN_AUTHOR_CAP"} => c.num[k] > 0
  <1> DEFINE t == Chosen(flag, env)
  <1>1. ~Rejected(t, home)
    BY DEF ParseConfig
  <1>2. c.num[k] = Value(k, t[k])
    BY <1>1 DEF ParseConfig
  <1>3. t[k] # Unset => /\ k \in Counts => Positive(Numbers, t[k])
                        /\ k \in Timeouts => Positive(Durations, t[k])
    <2> HIDE DEF t
    <2> QED BY <1>1 DEF Rejected
  <1>4. /\ Durations \in [DOMAIN Durations -> Int]
        /\ Numbers \in [DOMAIN Numbers -> Int]
    BY ConfigConstants
  <1>5. /\ \A x \in DOMAIN Durations : Durations[x] \in Int
        /\ \A x \in DOMAIN Numbers : Numbers[x] \in Int
    BY <1>4
  <1> HIDE DEF t
  <1>6. CASE t[k] = Unset
    BY <1>2, <1>6 DEF Value, Counts, Timeouts
  <1>7. CASE t[k] # Unset
    <2>1. c.num[k] = IF k \in Counts THEN Numbers[t[k]] ELSE Durations[t[k]]
      BY <1>2, <1>7 DEF Value
    <2>2. CASE k \in Counts
      <3>1. Positive(Numbers, t[k])
        BY <1>3, <1>7, <2>2
      <3>2. c.num[k] = Numbers[t[k]]
        BY <2>1, <2>2
      <3> QED BY <1>5, <3>1, <3>2 DEF Positive
    <2>3. CASE k \in Timeouts \ Counts
      <3>1. Positive(Durations, t[k])
        BY <1>3, <1>7, <2>3
      <3>2. c.num[k] = Durations[t[k]]
        BY <2>1, <2>3
      <3> QED BY <1>5, <3>1, <3>2 DEF Positive
    <2> QED BY <2>2, <2>3
  <1> QED BY <1>6, <1>7

\* With the defaults put in place of zero, every bound and timeout is positive.
LEMMA EffectivePositive ==
    ASSUME NEW flag, NEW env, NEW home, cfg \in ParseConfig(flag, env, home),
           NEW k \in Counts \cup Timeouts
    PROVE  Effective(k) \in Int /\ Effective(k) > 0
  <1>1. /\ cfg.num[k] \in Int
        /\ cfg.num[k] >= 0
        /\ k \in {"AUTOPIN_CONCURRENCY", "AUTOPIN_AUTHOR_CAP"} => cfg.num[k] > 0
    BY AcceptedKnobs
  <1> QED BY <1>1 DEF Effective, Counts, Timeouts

-----------------------------------------------------------------------------
(* The sources of a setting *)

\* First returns the text that has only texts that are not given before it ...
LEMMA FirstFound ==
    ASSUME NEW texts, Len(texts) \in Nat, NEW j \in 1..Len(texts), texts[j] # Unset,
           \A m \in 1..(j - 1) : texts[m] = Unset
    PROVE  First(texts) = texts[j]
  <1> DEFINE P(i) == texts[i] # Unset /\ \A m \in 1..(i - 1) : texts[m] = Unset
  <1>1. \A i \in 1..Len(texts) : P(i) => i = j
    <2>1. \A i \in 1..Len(texts) : i < j => i \in 1..(j - 1)
      OBVIOUS
    <2>2. \A i \in 1..Len(texts) : j < i => j \in 1..(i - 1)
      OBVIOUS
    <2>3. \A i \in 1..Len(texts) : i < j \/ j < i \/ i = j
      OBVIOUS
    <2> QED BY <2>1, <2>2, <2>3
  <1>2. P(j)
    OBVIOUS
  <1>3. (CHOOSE i \in 1..Len(texts) : P(i)) = j
    <2> HIDE DEF P
    <2> QED BY <1>1, <1>2
  <1> QED BY <1>3 DEF First

\* ... and Unset if none is given.
LEMMA FirstMissing ==
    ASSUME NEW texts, \A m \in 1..Len(texts) : texts[m] = Unset
    PROVE  First(texts) = Unset
  BY DEF First

\* What a line of .env says of the setting k.
Says(l, k) == IF l.key = k THEN l.val ELSE Unset

\* What loadDotenv does with a line.
LoadLine(e, l) == IF e[l.key] = Unset THEN [e EXCEPT ![l.key] = l.val] ELSE e

\* loadDotenv goes through the lines one by one.
LEMMA LoadSteps ==
    ASSUME NEW env \in [Settings -> Texts], NEW lines \in Seq(Line)
    PROVE  \E p \in [0..Len(lines) -> [Settings -> Texts]] :
              /\ p[0] = env
              /\ \A i \in 1..Len(lines) : p[i] = LoadLine(p[i - 1], lines[i])
              /\ loadDotenv(env, lines) = p[Len(lines)]
  <1> DEFINE n == Len(lines)
             V == [Settings -> Texts]
             H == [i \in 1..n |-> [e \in V |-> LoadLine(e, lines[i])]]
             Iter(f) == f = [s \in SUBSET (DOMAIN lines) |->
                               IF s = {} THEN env
                               ELSE LoadLine(f[s \ {Max(s)}], lines[Max(s)])]
             it == CHOOSE f : Iter(f)
  <1>1. n \in Nat /\ DOMAIN lines = 1..n /\ \A i \in 1..n : lines[i] \in Line
    OBVIOUS
  <1>2. \A e \in V, l \in Line : LoadLine(e, l) \in V
    BY DEF LoadLine, Line
  <1>3. H \in [1..n -> [V -> V]]
    <2> HIDE DEF V
    <2> QED BY <1>1, <1>2
  <1>4. PICK g \in [SUBSET (1..n) -> V] : IsFold(g, env, n, H)
    <2>1. env \in V
      OBVIOUS
    <2> HIDE DEF H, V, n
    <2> QED BY <1>1, <1>3, <2>1, FoldExists
  <1>5. \A s \in SUBSET (1..n) :
           g[s] = IF s = {} THEN env ELSE LoadLine(g[s \ {Max(s)}], lines[Max(s)])
    <2> HIDE DEF V, n
    <2>1. \A s \in SUBSET (1..n) : s # {} =>
             H[Max(s)][g[s \ {Max(s)}]] = LoadLine(g[s \ {Max(s)}], lines[Max(s)])
      BY <1>4 DEF IsFold
    <2> HIDE DEF H
    <2> QED BY <1>4, <2>1 DEF IsFold
  <1>6. Iter(it)
    <2> HIDE DEF V, n, H
    <2>1. Iter(g)
      BY <1>1, <1>4, <1>5
    <2> HIDE DEF Iter
    <2> QED BY <2>1
  <1>7. \A s \in SUBSET (1..n) :
           it[s] = IF s = {} THEN env ELSE LoadLine(it[s \ {Max(s)}], lines[Max(s)])
    <2> HIDE DEF n, it
    <2> QED BY <1>1, <1>6
  <1>8. loadDotenv(env, lines) = it[DOMAIN lines]
    BY DEF LoadLine, loadDotenv, FoldLeft, MapThenFoldSet
  <1>9. \A i \in 1..n : it[1..(i - 1)] \in V => it[1..i] = H[i][it[1..(i - 1)]]
    <2> SUFFICES ASSUME NEW i \in 1..n, it[1..(i - 1)] \in V
                 PROVE  it[1..i] = LoadLine(it[1..(i - 1)], lines[i])
      <3> HIDE DEF it, V, n
      <3> QED BY <1>1
    <2>1. i \in Nat \ {0} /\ 1..i \in SUBSET (1..n)
      BY <1>1
    <2> HIDE DEF it, V, n
    <2> QED BY <1>7, <2>1, FoldOrder
  <1>10. FoldsIn(it, V, env, n, H) /\ env \in V
    <2>1. it[{}] = env
      <3> HIDE DEF it, n
      <3> QED BY <1>7
    <2>2. env \in V
      OBVIOUS
    <2> HIDE DEF it, H, V, n
    <2> QED BY <1>9, <2>1, <2>2 DEF FoldsIn
  <1>11. PICK p \in [0..n -> V] : Results(p, env, n, H, it[1..n])
    <2> HIDE DEF it, H, V, n
    <2> QED BY <1>1, <1>3, <1>10, FoldResults
  <1>12. p[0] = env /\ p[n] = it[1..n] /\ \A i \in 1..n : p[i] = LoadLine(p[i - 1], lines[i])
    <2> HIDE DEF V, n
    <2> QED BY <1>1, <1>11 DEF Results
  <1> HIDE DEF it
  <1> QED BY <1>1, <1>8, <1>12

\* The text after k lines: that of the environment, if it has one, and otherwise
\* that of the first line that has one.
LEMMA LoadedText ==
    ASSUME NEW env \in [Settings -> Texts], NEW lines \in Seq(Line), NEW k \in Settings
    PROVE  LET text == loadDotenv(env, lines)[k]
           IN  \/ text = env[k] /\ (env[k] # Unset \/ \A j \in 1..Len(lines) : Says(lines[j], k) = Unset)
               \/ /\ env[k] = Unset
                  /\ \E j \in 1..Len(lines) :
                        /\ text = Says(lines[j], k) /\ text # Unset
                        /\ \A m \in 1..(j - 1) : Says(lines[m], k) = Unset
  <1> DEFINE n == Len(lines)
             L(j) == Says(lines[j], k)
             Q(i, text) ==
                 \/ text = env[k] /\ (env[k] # Unset \/ \A j \in 1..i : L(j) = Unset)
                 \/ /\ env[k] = Unset
                    /\ \E j \in 1..i : /\ text = L(j) /\ text # Unset
                                       /\ \A m \in 1..(j - 1) : L(m) = Unset
  <1>1. PICK p \in [0..n -> [Settings -> Texts]] :
           /\ p[0] = env
           /\ \A i \in 1..n : p[i] = LoadLine(p[i - 1], lines[i])
           /\ loadDotenv(env, lines) = p[n]
    BY LoadSteps
  <1> DEFINE S == {i \in Nat : i <= n => Q(i, p[i][k])}
  <1>2. 0 \in S
    BY <1>1
  <1>3. ASSUME NEW i \in Nat, i \in S PROVE i + 1 \in S
    <2> SUFFICES ASSUME i + 1 <= n PROVE Q(i + 1, p[i + 1][k])
      OBVIOUS
    <2>1. i + 1 \in 1..n /\ (i + 1) - 1 = i /\ i \in 0..n /\ i <= n /\ lines[i + 1] \in Line
      OBVIOUS
    <2>2. Q(i, p[i][k])
      BY <1>3, <2>1
    <2>3. p[i + 1] = LoadLine(p[i], lines[i + 1])
      BY <1>1, <2>1
    <2>4. p[i + 1][k] = IF p[i][k] = Unset THEN L(i + 1) ELSE p[i][k]
      <3>1. p[i] \in [Settings -> Texts] /\ lines[i + 1].key \in Settings
        BY <2>1 DEF Line
      <3>2. CASE lines[i + 1].key = k
        BY <2>3, <3>1, <3>2 DEF LoadLine, Says
      <3>3. CASE lines[i + 1].key # k
        BY <2>3, <3>1, <3>3 DEF LoadLine, Says
      <3> QED BY <3>2, <3>3
    <2>5. 1..(i + 1) = (1..i) \cup {i + 1}
      OBVIOUS
    <2>6. CASE p[i][k] # Unset
      <3> HIDE DEF L
      <3> QED BY <2>2, <2>4, <2>5, <2>6
    <2>7. CASE p[i][k] = Unset
      <3>1. env[k] = Unset /\ \A j \in 1..i : L(j) = Unset
        <4> HIDE DEF L
        <4> QED BY <2>2, <2>7
      <3> HIDE DEF L
      <3> QED BY <2>1, <2>4, <2>5, <2>7, <3>1
    <2> QED BY <2>6, <2>7
  <1>4. Nat \subseteq S
    <2> HIDE DEF S
    <2> QED BY <1>2, <1>3, Induction
  <1>5. Q(n, p[n][k])
    <2> HIDE DEF Q
    <2> QED BY <1>4
  <1> QED BY <1>1, <1>5

\* The texts the sources give, by rank.
LEMMA SourcesByRank ==
    ASSUME input \in Inputs, NEW k \in Settings
    PROVE  LET n == Len(input.dotenv)
               s == Sources(k)
           IN  /\ n \in Nat /\ s \in Seq(Texts) /\ Len(s) = n + 3
               /\ s[1] = input.flag[k] /\ s[2] = input.env[k] /\ s[n + 3] = Default(k)
               /\ \A j \in 1..n : s[j + 2] = Says(input.dotenv[j], k)
  <1> DEFINE n == Len(input.dotenv)
             said == [j \in 1..n |-> Says(input.dotenv[j], k)]
             first == <<input.flag[k], input.env[k]>>
             last == <<Default(k)>>
  <1>1. /\ input.flag \in [Settings -> Texts] /\ input.env \in [Settings -> Texts]
        /\ input.dotenv \in Seq(Line)
    BY StartupConstants
  <1>2. Unset \in Texts /\ Default(k) \in Texts
    BY ConfigConstants
  <1>3. n \in Nat /\ \A j \in 1..n : input.dotenv[j] \in Line
    BY <1>1
  <1>4. said \in Seq(Texts) /\ Len(said) = n /\ \A j \in 1..n : said[j] = Says(input.dotenv[j], k)
    <2> HIDE DEF n
    <2>1. \A j \in 1..n : Says(input.dotenv[j], k) \in Texts
      BY <1>2, <1>3 DEF Says, Line
    <2> QED BY <1>3, <2>1
  <1>5. first \in Seq(Texts) /\ Len(first) = 2 /\ first[1] = input.flag[k] /\ first[2] = input.env[k]
    BY <1>1
  <1>6. last \in Seq(Texts) /\ Len(last) = 1 /\ last[1] = Default(k)
    BY <1>2
  <1>7. Sources(k) = (first \o said) \o last
    BY DEF Sources, Says
  <1> HIDE DEF n, said, first, last
  <1>8. /\ first \o said \in Seq(Texts) /\ Len(first \o said) = n + 2
        /\ (first \o said)[1] = input.flag[k] /\ (first \o said)[2] = input.env[k]
        /\ \A j \in 1..n : (first \o said)[j + 2] = Says(input.dotenv[j], k)
    <2>1. /\ first \o said \in Seq(Texts) /\ Len(first \o said) = n + 2
          /\ \A i \in 1..(n + 2) : (first \o said)[i] = IF i <= 2 THEN first[i] ELSE said[i - 2]
      <3>1. /\ first \o said \in Seq(Texts) /\ Len(first \o said) = Len(first) + Len(said)
            /\ \A i \in 1..(Len(first) + Len(said)) :
                  (first \o said)[i] = IF i <= Len(first) THEN first[i] ELSE said[i - Len(first)]
        BY <1>3, <1>4, <1>5, ConcatProperties
      <3>2. Len(first) + Len(said) = n + 2 /\ Len(first) = 2
        BY <1>3, <1>4, <1>5
      <3> QED BY <3>1, <3>2
    <2>2. 1 \in 1..(n + 2) /\ 2 \in 1..(n + 2)
      BY <1>3
    <2>3. \A j \in 1..n : j + 2 \in 1..(n + 2) /\ ~(j + 2 <= 2) /\ (j + 2) - 2 = j
      BY <1>3
    <2> QED BY <1>4, <1>5, <2>1, <2>2, <2>3
  <1> DEFINE t == first \o said
  <1>9. Sources(k) = t \o last
    BY <1>7
  <1> HIDE DEF t
  <1>10. /\ t \in Seq(Texts) /\ Len(t) = n + 2
         /\ t[1] = input.flag[k] /\ t[2] = input.env[k]
         /\ \A j \in 1..n : t[j + 2] = Says(input.dotenv[j], k)
    BY <1>8 DEF t
  <1>11. /\ Sources(k) \in Seq(Texts) /\ Len(Sources(k)) = n + 3
         /\ Sources(k)[1] = input.flag[k] /\ Sources(k)[2] = input.env[k]
         /\ Sources(k)[n + 3] = Default(k)
         /\ \A j \in 1..n : Sources(k)[j + 2] = Says(input.dotenv[j], k)
    <2>1. /\ t \o last \in Seq(Texts) /\ Len(t \o last) = n + 3
          /\ \A i \in 1..(n + 3) :
                (t \o last)[i] = IF i <= n + 2 THEN t[i] ELSE last[i - (n + 2)]
      <3>1. /\ t \o last \in Seq(Texts) /\ Len(t \o last) = Len(t) + Len(last)
            /\ \A i \in 1..(Len(t) + Len(last)) :
                  (t \o last)[i] = IF i <= Len(t) THEN t[i] ELSE last[i - Len(t)]
        BY <1>3, <1>6, <1>10, ConcatProperties
      <3>2. Len(t) + Len(last) = n + 3 /\ Len(t) = n + 2
        BY <1>3, <1>6, <1>10
      <3> QED BY <3>1, <3>2
    <2>2. /\ 1 \in 1..(n + 3) /\ 2 \in 1..(n + 3) /\ n + 3 \in 1..(n + 3)
          /\ 1 <= n + 2 /\ 2 <= n + 2 /\ ~(n + 3 <= n + 2) /\ (n + 3) - (n + 2) = 1
      BY <1>3
    <2>3. \A j \in 1..n : j + 2 \in 1..(n + 3) /\ j + 2 <= n + 2
      BY <1>3
    <2> QED BY <1>6, <1>9, <1>10, <2>1, <2>2, <2>3
  <1> QED BY <1>3, <1>11 DEF n

\* The environment once loadDotenv has run.
Env == loadDotenv(input.env, input.dotenv)

\* ParseConfig takes the text of the highest-ranking source, with the command
\* line and without it.
LEMMA Ranked ==
    ASSUME input \in Inputs, NEW k \in Settings
    PROVE  /\ First(Sources(k)) = envOrFlag(k, input.flag, Env)
           /\ First(Tail(Sources(k))) = IF Env[k] # Unset THEN Env[k] ELSE Default(k)
  <1> DEFINE n == Len(input.dotenv)
             s == Sources(k)
             r == Tail(s)
             L(j) == Says(input.dotenv[j], k)
  <1>1. /\ n \in Nat /\ s \in Seq(Texts) /\ Len(s) = n + 3
        /\ s[1] = input.flag[k] /\ s[2] = input.env[k] /\ s[n + 3] = Default(k)
        /\ \A j \in 1..n : s[j + 2] = L(j)
    BY SourcesByRank
  <1>2. input.env \in [Settings -> Texts] /\ input.dotenv \in Seq(Line)
    BY StartupConstants
  <1>3. \/ Env[k] = input.env[k] /\ (input.env[k] # Unset \/ \A j \in 1..n : L(j) = Unset)
        \/ /\ input.env[k] = Unset
           /\ \E j \in 1..n : /\ Env[k] = L(j) /\ Env[k] # Unset
                              /\ \A m \in 1..(j - 1) : L(m) = Unset
    BY <1>2, LoadedText DEF Env
  <1> HIDE DEF n, s, L
  <1>4. Len(r) = n + 2 /\ \A j \in 1..(n + 2) : r[j] = s[j + 1]
    BY <1>1
  <1> HIDE DEF r
  <1>5. r[1] = input.env[k] /\ r[n + 2] = Default(k) /\ \A j \in 1..n : r[j + 1] = L(j)
    <2>1. 1 \in 1..(n + 2) /\ n + 2 \in 1..(n + 2) /\ \A j \in 1..n : j + 1 \in 1..(n + 2)
      BY <1>1
    <2> QED BY <1>1, <1>4, <2>1
  <1>6. ASSUME NEW j \in 1..(n + 2), r[j] # Unset, \A m \in 1..(j - 1) : r[m] = Unset
        PROVE  First(r) = r[j] /\ First(s) = IF input.flag[k] # Unset THEN input.flag[k] ELSE r[j]
    <2>1. First(r) = r[j]
      <3>1. Len(r) \in Nat /\ j \in 1..Len(r)
        BY <1>1, <1>4
      <3> QED BY <1>6, <3>1, FirstFound
    <2>2. CASE input.flag[k] # Unset
      <3>1. 1 \in 1..(n + 3) /\ 1..(1 - 1) = {}
        BY <1>1
      <3> QED BY <1>1, <2>1, <2>2, <3>1, FirstFound
    <2>3. CASE input.flag[k] = Unset
      <3>1. j + 1 \in 1..(n + 3) /\ s[j + 1] = r[j]
        BY <1>1, <1>4
      <3>2. ASSUME NEW m \in 1..((j + 1) - 1) PROVE s[m] = Unset
        <4>1. CASE m = 1
          BY <1>1, <2>3, <4>1
        <4>2. CASE m # 1
          <5>1. m - 1 \in 1..(j - 1) /\ m - 1 \in 1..(n + 2) /\ (m - 1) + 1 = m
            BY <1>1, <4>2
          <5> QED BY <1>4, <1>6, <5>1
        <4> QED BY <4>1, <4>2
      <3>3. First(s) = s[j + 1]
        <4>1. Len(s) \in Nat /\ j + 1 \in 1..Len(s) /\ s[j + 1] # Unset
          BY <1>1, <1>6, <3>1
        <4> QED BY <3>2, <4>1, FirstFound
      <3> QED BY <2>1, <2>3, <3>1, <3>3
    <2> QED BY <2>2, <2>3
  <1>7. CASE input.env[k] # Unset
    <2>1. 1 \in 1..(n + 2) /\ 1..(1 - 1) = {}
      BY <1>1
    <2> QED BY <1>3, <1>5, <1>6, <1>7, <2>1 DEF envOrFlag, r, s
  <1>8. ASSUME input.env[k] = Unset,
               NEW j \in 1..n, Env[k] = L(j), Env[k] # Unset, \A m \in 1..(j - 1) : L(m) = Unset
        PROVE  /\ First(s) = envOrFlag(k, input.flag, Env)
               /\ First(r) = IF Env[k] # Unset THEN Env[k] ELSE Default(k)
    <2>1. j + 1 \in 1..(n + 2) /\ r[j + 1] = Env[k]
      BY <1>1, <1>5, <1>8
    <2>2. ASSUME NEW m \in 1..((j + 1) - 1) PROVE r[m] = Unset
      <3>1. CASE m = 1
        BY <1>5, <1>8, <3>1
      <3>2. CASE m # 1
        <4>1. m - 1 \in 1..(j - 1) /\ m - 1 \in 1..n /\ (m - 1) + 1 = m
          BY <1>1, <3>2
        <4> QED BY <1>5, <1>8, <4>1
      <3> QED BY <3>1, <3>2
    <2> QED BY <1>6, <1>8, <2>1, <2>2 DEF envOrFlag
  <1>9. CASE /\ input.env[k] = Unset /\ Env[k] = Unset /\ \A j \in 1..n : L(j) = Unset
    <2>1. \A m \in 1..(n + 1) : r[m] = Unset
      <3> SUFFICES ASSUME NEW m \in 1..(n + 1) PROVE r[m] = Unset
        OBVIOUS
      <3>1. CASE m = 1
        BY <1>5, <1>9, <3>1
      <3>2. CASE m # 1
        <4>1. m - 1 \in 1..n /\ (m - 1) + 1 = m
          BY <1>1, <3>2
        <4> QED BY <1>5, <1>9, <4>1
      <3> QED BY <3>1, <3>2
    <2>2. CASE Default(k) # Unset
      <3>1. n + 2 \in 1..(n + 2) /\ (n + 2) - 1 = n + 1
        BY <1>1
      <3> QED BY <1>5, <1>6, <1>9, <2>1, <2>2, <3>1 DEF envOrFlag, r, s
    <2>3. CASE Default(k) = Unset
      <3>1. \A m \in 1..(n + 2) : r[m] = Unset
        <4>1. \A m \in 1..(n + 2) : m \in 1..(n + 1) \/ m = n + 2
          BY <1>1
        <4> QED BY <1>5, <2>1, <2>3, <4>1
      <3>2. First(r) = Unset
        BY <1>1, <1>4, <3>1, FirstMissing
      <3>3. CASE input.flag[k] # Unset
        <4>1. 1 \in 1..(n + 3) /\ 1..(1 - 1) = {}
          BY <1>1
        <4> QED BY <1>1, <1>9, <2>3, <3>2, <3>3, <4>1, FirstFound DEF envOrFlag, r, s
      <3>4. CASE input.flag[k] = Unset
        <4>1. \A m \in 1..(n + 3) : s[m] = Unset
          <5> SUFFICES ASSUME NEW m \in 1..(n + 3), m # 1 PROVE s[m] = Unset
            BY <1>1, <3>4
          <5>1. m - 1 \in 1..(n + 2) /\ (m - 1) + 1 = m
            BY <1>1
          <5> QED BY <1>4, <3>1, <5>1
        <4>2. First(s) = Unset
          BY <1>1, <4>1, FirstMissing
        <4> QED BY <1>9, <2>3, <3>2, <3>4, <4>2 DEF envOrFlag, r, s
      <3> QED BY <3>3, <3>4
    <2> QED BY <2>2, <2>3
  <1> QED BY <1>3, <1>7, <1>8, <1>9 DEF r, s

-----------------------------------------------------------------------------
(* The inductive invariant *)

\* From Parse on there is a configuration, the one ParseConfig has made of the
\* inputs of this start.
Accepted ==
    /\ pc \in Places
    /\ pc # "down" => input \in Inputs
    /\ IF pc \in {"down", "parse"} THEN cfg = NoConfig ELSE cfg \in Parsed

\* What is open at each place of main.
Resources ==
    /\ IF pc \in {"down", "parse", "log", "mkdir", "discovery"} THEN held = {} ELSE "db" \in held
    /\ pc \in {"rules", "repo", "failed"} => held = {"db"}
    /\ pc \in {"key", "create", "write", "host"} => held = {"db", "datastore"}
    /\ pc = "bitswap" => held = {"db", "datastore", "host", "dht"}
    /\ pc = "gateway" => held = {"db", "datastore", "host", "dht", "bitswap"}

\* A key that is being made is for a directory without an identity, or with one
\* that a power loss has taken; one that is about to be used is in its file.
Identity ==
    /\ keyFile \in [Dirs -> Keys \cup {NoFile, Partial}]
    /\ used \in [Dirs -> Keys \cup {NoKey}]
    /\ pc \in {"create", "write", "host"} => priv \in Keys
    /\ pc \in {"create", "write"} /\ Dir \in Dirs => used[Dir] = NoKey \/ Dir \in powerLost
    /\ pc = "host" /\ Dir \in Dirs => keyFile[Dir] = priv

Inv == Accepted /\ Resources /\ Identity /\ IdentityKept

LEMMA InitInv == Init => Inv
  BY StartupConstants DEF Init, Inv, Accepted, Resources, Identity, IdentityKept, Places

\* Every step of main ends the process, or goes on from one place to the next.
LEMMA AcceptedStep ==
    ASSUME Accepted, [Next]_vars
    PROVE  Accepted'
  <1> USE DEF Accepted, Places
  <1>1. CASE UNCHANGED vars
    BY <1>1 DEF vars, Parsed
  <1>2. ASSUME NEW i \in Inputs, Boot(i) PROVE Accepted'
    BY <1>2 DEF Boot
  <1>3. CASE Parse
    BY <1>3 DEF Parse, Goes, Parsed
  <1>4. ASSUME NEW from, NEW to, Goes(from, to), cfg' = cfg,
               from \notin {"down", "parse"}, to \in Places \ {"down", "parse"}
        PROVE  Accepted'
    BY <1>4 DEF Goes, Parsed
  <1>5. ASSUME NEW how, Ends(how) PROVE Accepted'
    BY <1>5 DEF Ends
  <1>6. CASE ParseFails \/ LogPanics \/ Panics \/ StartFails \/ Stops \/ Killed \/ PowerLoss
    BY <1>5, <1>6 DEF ParseFails, Fatal, LogPanics, Panics, StartFails, Stops, Killed, PowerLoss
  <1>7. CASE \/ LogConfig \/ MakeDataDir \/ NewDiscovery \/ NewAutoPinManager
             \/ openRepo \/ openRepoFails \/ LoadKey \/ GenerateKey \/ CreateKeyFile
             \/ WriteKeyFile \/ KeyFails
    BY <1>4, <1>7 DEF LogConfig, MakeDataDir, NewDiscovery, NewAutoPinManager, openRepo, openRepoFails,
             LoadKey, GenerateKey, CreateKeyFile, WriteKeyFile, KeyFails, NodeError, disk
  <1>8. CASE \/ NewHost \/ NewHostFails \/ NewBitswap \/ startGateway \/ startGatewayFails
             \/ startMesh \/ FirstRefresh \/ Listen
    BY <1>4, <1>8 DEF NewHost, NewHostFails, NewBitswap, startGateway, startGatewayFails,
             startMesh, FirstRefresh, Listen, NodeError, disk
  <1>9. CASE StartTicker \/ WriteBack
    BY <1>9 DEF StartTicker, WriteBack, Parsed
  <1> QED BY <1>1, <1>2, <1>3, <1>6, <1>7, <1>8, <1>9 DEF Next

\* Each error path of NewEmbeddedNode closes what the steps before it have opened.
LEMMA ResourcesStep ==
    ASSUME Resources, [Next]_vars
    PROVE  Resources'
  <1> USE DEF Resources
  <1>1. CASE UNCHANGED vars
    BY <1>1 DEF vars
  <1>2. CASE \/ (\E i \in Inputs : Boot(i)) \/ Parse \/ StartTicker \/ WriteBack
    BY <1>2 DEF Boot, Parse, StartTicker, WriteBack, Goes
  <1>3. CASE ParseFails \/ LogPanics \/ Panics \/ StartFails \/ Stops \/ Killed \/ PowerLoss
    BY <1>3 DEF ParseFails, Fatal, LogPanics, Panics, StartFails, Stops, Killed, PowerLoss, Ends
  <1>4. CASE LogConfig \/ MakeDataDir \/ NewDiscovery \/ NewAutoPinManager
    BY <1>4 DEF LogConfig, MakeDataDir, NewDiscovery, NewAutoPinManager, Goes
  <1>5. CASE openRepo \/ openRepoFails \/ KeyFails \/ NewHostFails \/ startGatewayFails
    BY <1>5 DEF openRepo, openRepoFails, KeyFails, NewHostFails, startGatewayFails,
                NodeError, Goes, shutdownInternals
  <1>6. CASE LoadKey \/ GenerateKey \/ CreateKeyFile \/ WriteKeyFile
    BY <1>6 DEF LoadKey, GenerateKey, CreateKeyFile, WriteKeyFile, Goes
  <1>7. CASE NewHost \/ NewBitswap \/ startGateway \/ startMesh \/ FirstRefresh \/ Listen
    BY <1>7 DEF NewHost, NewBitswap, startGateway, startMesh, FirstRefresh, Listen, Goes
  <1> QED BY <1>1, <1>2, <1>3, <1>4, <1>5, <1>6, <1>7 DEF Next

\* Only the steps of newLibp2pHost and a power loss touch peer.key or the identity
\* in use.
LEMMA IdentityStep ==
    ASSUME Identity, IdentityKept, [Next]_vars
    PROVE  (Identity /\ IdentityKept)'
  <1> USE StartupConstants DEF Identity, IdentityKept, Dir
  <1>1. ASSUME UNCHANGED <<keyFile, used, powerLost>>, pc' \notin {"create", "write", "host"}
        PROVE  (Identity /\ IdentityKept)'
    BY <1>1
  <1>2. CASE UNCHANGED vars
    BY <1>2 DEF vars
  <1>3. CASE ParseFails \/ LogPanics \/ Panics \/ StartFails \/ Stops \/ Killed
    BY <1>1, <1>3 DEF ParseFails, Fatal, LogPanics, Panics, StartFails, Stops, Killed, Ends, disk
  <1>4. CASE \/ (\E i \in Inputs : Boot(i)) \/ Parse \/ LogConfig \/ MakeDataDir
             \/ NewDiscovery \/ NewAutoPinManager \/ openRepo
    BY <1>1, <1>4 DEF Boot, Parse, LogConfig, MakeDataDir, NewDiscovery, NewAutoPinManager, openRepo,
                      Goes, disk
  <1>5. CASE openRepoFails \/ KeyFails \/ NewHostFails \/ startGatewayFails
    BY <1>1, <1>5 DEF openRepoFails, KeyFails, NewHostFails, startGatewayFails, NodeError,
                      Goes, disk
  <1>6. CASE NewBitswap \/ startGateway \/ startMesh \/ FirstRefresh \/ Listen
    BY <1>1, <1>6 DEF NewBitswap, startGateway, startMesh, FirstRefresh, Listen, Goes, disk
  <1>7. CASE StartTicker \/ WriteBack
    BY <1>7 DEF StartTicker, WriteBack, disk
  <1>8. CASE LoadKey
    BY <1>8 DEF LoadKey, Goes, disk
  <1>9. CASE GenerateKey
    BY <1>9 DEF GenerateKey, Goes, disk
  <1>10. CASE CreateKeyFile
    BY <1>10 DEF CreateKeyFile, Goes
  <1>11. CASE WriteKeyFile
    BY <1>11 DEF WriteKeyFile, Goes
  <1>12. CASE NewHost
    BY <1>12 DEF NewHost, Goes
  <1>13. CASE PowerLoss
    BY <1>13 DEF PowerLoss, Ends
  <1> QED BY <1>2, <1>3, <1>4, <1>5, <1>6, <1>7, <1>8, <1>9, <1>10, <1>11, <1>12, <1>13
       DEF Next

LEMMA Invariant == Spec => []Inv
  <1>1. Inv /\ [Next]_vars => Inv'
    BY AcceptedStep, ResourcesStep, IdentityStep DEF Inv
  <1> QED BY InitInv, <1>1, PTL DEF Spec

-----------------------------------------------------------------------------
(* The properties *)

\* Whatever the command line, the environment and the .env file say, and however
\* many lines the file has, every setting has the value its highest-ranking
\* source gives it, as loadDotenv and ParseConfig compute it; the two booleans
\* where only one source has a value.
THEOREM SourcesRank == Spec => []Precedence
  <1>1. ASSUME Inv PROVE Precedence
    <2> SUFFICES ASSUME cfg # NoConfig PROVE Precedence
      BY DEF Precedence
    <2>1. input \in Inputs /\ cfg \in Parsed
      BY <1>1 DEF Inv, Accepted
    <2> DEFINE t == Chosen(input.flag, Env)
    <2>2. ~Rejected(t, input.home)
      BY <2>1 DEF Parsed, ParseConfig, Env
    <2>3. cfg = [ text |-> [k \in PlainTexts \cup Secrets |-> t[k]],
                  haf |-> t["HAF_DATABASE_URL"],
                  dir |-> Expand(t["DATA_DIR"]),
                  list |-> [k \in ListSettings |-> Entries(t[k])],
                  num |-> [k \in Counts \cup Timeouts |-> Value(k, t[k])],
                  refresh |-> Durations[t["REFRESH_INTERVAL"]],
                  mesh |-> t["MESH_ENABLED"] \notin Falsy,
                  truth |-> [k \in Booleans |-> Truth(k, input.flag, Env)] ]
      BY <2>1, <2>2 DEF Parsed, ParseConfig, Env
    <2>4. \A k \in Settings \ Booleans : t[k] = First(Sources(k))
      BY <2>1, Ranked DEF Chosen
    <2>5. ASSUME NEW k \in Booleans, Unset \in {input.flag[k], First(Tail(Sources(k)))}
          PROVE  Truth(k, input.flag, Env) <=> \/ input.flag[k] # Unset
                                               \/ First(Tail(Sources(k))) \in Truthy
      <3>1. Default(k) = Unset
        BY DEF Default, Booleans
      <3>2. k \in Settings
        BY DEF Settings
      <3>3. First(Tail(Sources(k))) = Env[k]
        BY <2>1, <3>1, <3>2, Ranked
      <3>4. Unset \notin Truthy
        BY DEF Truthy, Unset
      <3> QED BY <2>5, <3>3, <3>4 DEF Truth
    <2> HIDE DEF t
    <2>6. /\ PlainTexts \cup Secrets \cup ListSettings \cup Counts \cup Timeouts
                \cup {"HAF_DATABASE_URL", "DATA_DIR", "REFRESH_INTERVAL", "MESH_ENABLED"}
             \subseteq Settings \ Booleans
      BY DEF Settings, PlainTexts, Secrets, ListSettings, Counts, Timeouts, Booleans
    <2> QED BY <2>3, <2>4, <2>5, <2>6 DEF Precedence
  <1> QED BY Invariant, <1>1, PTL

\* A process that has accepted its configuration works with positive bounds and
\* timeouts everywhere, whatever was given.
THEOREM KnobsArePositive == Spec => []KnobsPositive
  <1>1. Inv => KnobsPositive
    BY EffectivePositive DEF Inv, Accepted, Parsed, KnobsPositive
  <1> QED BY Invariant, <1>1, PTL

\* No setting makes an accepted process panic but a REFRESH_INTERVAL that is not
\* positive and a HAF_DATABASE_URL that redactURL cannot slice.
THEOREM OthersDoNotPanic == Spec => PanicsExplained
  <1> DEFINE ByRefresh == "db" \in held /\ cfg.refresh <= 0
             ByURL == held = {} /\ cfg.haf \in Unredactable
  <1>1. ASSUME Inv, Panics PROVE ByRefresh
    <2>1. PICK p \in RefreshPeriod \cup MeshPeriod : p <= 0
      BY <1>1 DEF Panics
    <2>2. CASE p \in RefreshPeriod
      BY <1>1, <2>1, <2>2 DEF RefreshPeriod, Inv, Resources
    <2>3. CASE p \in MeshPeriod
      <3>1. "mesh" \in held /\ p = Effective("MESH_HEARTBEAT_INTERVAL")
        BY <2>3 DEF MeshPeriod
      <3>2. cfg \in Parsed
        BY <1>1, <3>1 DEF Inv, Accepted, Resources
      <3>3. p \in Int /\ p > 0
        BY <3>1, <3>2, EffectivePositive DEF Parsed, Timeouts
      <3> QED BY <2>1, <3>3
    <2> QED BY <2>2, <2>3
  <1>2. ASSUME Next, ended' = "panic", ended # "panic" PROVE LogPanics \/ Panics
    <2>1. CASE ParseFails \/ StartFails \/ Stops \/ Killed \/ PowerLoss
      BY <1>2, <2>1 DEF ParseFails, Fatal, StartFails, Stops, Killed, PowerLoss, Ends
    <2>2. CASE \/ (\E i \in Inputs : Boot(i)) \/ Parse \/ LogConfig \/ MakeDataDir
               \/ NewDiscovery \/ NewAutoPinManager \/ StartTicker \/ WriteBack
      BY <1>2, <2>2 DEF Boot, Parse, LogConfig, MakeDataDir, NewDiscovery, NewAutoPinManager,
                        StartTicker, WriteBack, Goes
    <2>3. CASE \/ openRepo \/ openRepoFails \/ LoadKey \/ GenerateKey \/ CreateKeyFile
               \/ WriteKeyFile \/ KeyFails
      BY <1>2, <2>3 DEF openRepo, openRepoFails, LoadKey, GenerateKey, CreateKeyFile,
                        WriteKeyFile, KeyFails, NodeError, Goes
    <2>4. CASE \/ NewHost \/ NewHostFails \/ NewBitswap \/ startGateway \/ startGatewayFails
               \/ startMesh \/ FirstRefresh \/ Listen
      BY <1>2, <2>4 DEF NewHost, NewHostFails, NewBitswap, startGateway, startGatewayFails,
                        startMesh, FirstRefresh, Listen, NodeError, Goes
    <2> QED BY <1>2, <2>1, <2>2, <2>3, <2>4 DEF Next
  <1>3. ASSUME Inv, LogPanics PROVE ByURL
    BY <1>3 DEF LogPanics, Inv, Resources
  <1>4. Inv /\ [Next]_vars => [ended' = "panic" /\ ended # "panic" => ByRefresh \/ ByURL]_vars
    <2> HIDE DEF ByRefresh, ByURL
    <2> QED BY <1>1, <1>2, <1>3
  <1> QED BY Invariant, <1>4, PTL DEF Spec, PanicsExplained

\* An identity a host has had stays in peer.key until the power fails, for any
\* number of directories, keys and restarts.
THEOREM IdentityIsKept == Spec => []IdentityKept
  <1>1. Inv => IdentityKept
    BY DEF Inv
  <1> QED BY Invariant, <1>1, PTL

\* NewEmbeddedNode returns no error with anything open.
THEOREM NodeIsReleased == Spec => []NodeReleased
  <1>1. Inv => NodeReleased
    BY DEF Inv, Resources, NodeReleased, NodeResources
  <1> QED BY Invariant, <1>1, PTL
=============================================================================

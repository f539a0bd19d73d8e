------------------------------ MODULE MeshProofs ------------------------------
(* Theorems about Mesh, for all peers, gateways, bounds and options. *)
EXTENDS Mesh, Integers, FiniteSetTheorems, SequenceTheorems, WellFoundedInduction, TLAPS

\* A loop's share of the WaitGroup.
Share(place) == IF place = "gone" THEN 0 ELSE 1

\* The WaitGroup counts the loops and the dials; when Stop has returned it is 0.
Counted == /\ wg = Share(recv) + Share(evict) + Share(advert) + dials
           /\ stop = "stopped" => wg = 0

Allowed(p) == {NoURL} \cup {normalizeFallbackURL(u) : u \in Gateways[p]}
Safe(u) == ~AllowPrivate => u = NoURL \/ u.host \notin UnsafeHosts

\* The heartbeat being applied is there, and its gateway may enter the cache.
Pending == recv \in {"insert", "dial"} =>
              /\ msg \in Msgs
              /\ msg.entry.gatewayURL \in Allowed(msg.from)
              /\ Safe(msg.entry.gatewayURL)

IInv == TypeOK /\ Counted /\ Pending /\ CacheSound

-----------------------------------------------------------------------------
\* normalizeFallbackURL gives a URL with the same host.
LEMMA Normal ==
    ASSUME NEW u \in URL PROVE normalizeFallbackURL(u) \in URL /\ normalizeFallbackURL(u).host = u.host
  BY DEF normalizeFallbackURL, URL

\* What validateMeshGatewayURL lets through is an allowed form of what the peer
\* advertised.
LEMMA Validated ==
    ASSUME NEW p \in Peers, NEW u \in Gateways[p],
           NEW g \in validateMeshGatewayURL(u, AllowPrivate)
    PROVE  g \in MaybeURL /\ g \in Allowed(p) /\ Safe(g)
  <1>1. CASE g = NoURL
    BY <1>1 DEF MaybeURL, Allowed, Safe
  <1>2. CASE g # NoURL
    <2>1. /\ u # NoURL /\ g = normalizeFallbackURL(u)
          /\ AllowPrivate \/ u.host \notin UnsafeHosts
      BY <1>2 DEF validateMeshGatewayURL
    <2>2. u \in URL
      BY <2>1, MeshConstants DEF MaybeURL
    <2>3. normalizeFallbackURL(u) \in URL /\ normalizeFallbackURL(u).host = u.host
      BY <2>2, Normal
    <2> QED BY <2>1, <2>3 DEF MaybeURL, Allowed, Safe
  <1> QED BY <1>1, <1>2

LEMMA InitIInv == Init => IInv
  <1> SUFFICES ASSUME Init PROVE IInv
    OBVIOUS
  <1> USE DEF Init
  <1>1. Known = {}
    BY DEF Known
  <1>2. TypeOK
    BY <1>1, MeshConstants DEF TypeOK, NoTick, MaxAge
  <1>3. CacheSound
    BY <1>1, FS_EmptySet, MeshConstants DEF CacheSound
  <1> QED BY <1>2, <1>3, MeshConstants DEF IInv, Counted, Share, Pending

-----------------------------------------------------------------------------
\* An entry or a heartbeat that grows older stays what it is otherwise.
LEMMA Aged ==
    ASSUME NEW e \in Entry
    PROVE  /\ [e EXCEPT !.age = Older(@)] \in Entry
           /\ [e EXCEPT !.age = Older(@)].gatewayURL = e.gatewayURL
  BY MeshConstants DEF Entry, Older, Ages, MaxAge

\* Steps that leave the cache and the heartbeat alone.
LEMMA QuietStep ==
    ASSUME IInv, UNCHANGED <<cache, msg>>, TypeOK', Counted',
           recv' \in {"insert", "dial"} => recv \in {"insert", "dial"}
    PROVE  IInv'
  <1>1. Known' = Known
    BY DEF Known
  <1>2. CacheSound'
    BY <1>1 DEF IInv, CacheSound
  <1>3. Pending'
    BY DEF IInv, Pending
  <1> QED BY <1>2, <1>3 DEF IInv

\* The cache with one entry put in.
LEMMA PutEntry ==
    ASSUME IInv, recv = "insert",
           msg.from \in Known \/ Cardinality(Known) < MaxPeers,
           cache' = [p \in Known \cup {msg.from} |->
                       IF p = msg.from THEN msg.entry ELSE cache[p]]
    PROVE  /\ Known' \subseteq Peers /\ cache' \in [Known' -> Entry]
           /\ CacheSound'
           /\ Known \subseteq Known'
  <1>1. msg \in Msgs /\ msg.from \in Peers /\ msg.entry \in Entry
    BY DEF IInv, Pending, Msgs
  <1>2. Known' = Known \cup {msg.from}
    BY DEF Known
  <1>3. Known \subseteq Peers /\ IsFiniteSet(Known) /\ Cardinality(Known) \in Nat
    BY MeshConstants, FS_Subset, FS_CardinalityType DEF IInv, TypeOK
  <1>4. Cardinality(Known') <= MaxPeers
    <2>1. CASE msg.from \in Known
      <3>1. Known' = Known
        BY <1>2, <2>1
      <3> QED BY <3>1 DEF IInv, CacheSound
    <2>2. CASE msg.from \notin Known
      <3>1. Cardinality(Known') = Cardinality(Known) + 1
        BY <1>2, <1>3, <2>2, FS_AddElement
      <3> QED BY <3>1, <1>3, <2>2, MeshConstants
    <2> QED BY <2>1, <2>2
  <1>5. \A p \in Known' : /\ cache'[p] \in Entry
                          /\ cache'[p].gatewayURL \in Allowed(p)
                          /\ Safe(cache'[p].gatewayURL)
    <2> SUFFICES ASSUME NEW p \in Known'
                 PROVE  /\ cache'[p] \in Entry
                        /\ cache'[p].gatewayURL \in Allowed(p)
                        /\ Safe(cache'[p].gatewayURL)
      OBVIOUS
    <2>1. CASE p = msg.from
      BY <2>1, <1>1, <1>2 DEF IInv, Pending
    <2>2. CASE p # msg.from
      <3>1. p \in Known /\ cache'[p] = cache[p]
        BY <2>2, <1>2
      <3>2. cache[p] \in Entry
        BY <3>1 DEF IInv, TypeOK
      <3>3. cache[p].gatewayURL \in Allowed(p) /\ Safe(cache[p].gatewayURL)
        BY <3>1 DEF IInv, CacheSound, Allowed, Safe
      <3> QED BY <3>1, <3>2, <3>3
    <2> QED BY <2>1, <2>2
  <1>6. cache' \in [Known' -> Entry]
    <2>1. cache' = [p \in Known' |-> IF p = msg.from THEN msg.entry ELSE cache[p]]
      BY <1>2
    <2>2. \A p \in Known' : (IF p = msg.from THEN msg.entry ELSE cache[p]) \in Entry
      BY <1>5, <2>1
    <2> QED BY <2>1, <2>2
  <1>7. CacheSound'
    BY <1>4, <1>5 DEF CacheSound, Allowed, Safe
  <1> QED BY <1>1, <1>2, <1>3, <1>6, <1>7

LEMMA InsertStep == ASSUME IInv, Insert PROVE IInv'
  <1> USE DEF Insert
  <1>1. msg \in Msgs
    BY DEF IInv, Pending
  <1>2. Counted'
    BY DEF IInv, Counted, Share
  <1>3. CASE recv' = "next" /\ msg' = NoMsg /\ UNCHANGED cache
    <2>1. Known' = Known
      BY <1>3 DEF Known
    <2>2. TypeOK'
      BY <1>3, <2>1 DEF IInv, TypeOK
    <2>3. Pending'
      BY <1>3 DEF Pending
    <2>4. CacheSound'
      BY <1>3, <2>1 DEF IInv, CacheSound
    <2> QED BY <1>2, <2>2, <2>3, <2>4 DEF IInv
  <1>4. CASE /\ msg.from \in Known \/ Cardinality(Known) < MaxPeers
             /\ cache' = [p \in Known \cup {msg.from} |->
                            IF p = msg.from THEN msg.entry ELSE cache[p]]
             /\ IF msg.from \notin Known /\ msg.dialable
                THEN recv' = "dial" /\ UNCHANGED msg
                ELSE recv' = "next" /\ msg' = NoMsg
    <2>2. /\ Known' \subseteq Peers /\ cache' \in [Known' -> Entry]
          /\ CacheSound'
      BY <1>4, PutEntry
    <2>3. \/ recv' = "dial" /\ msg' = msg
          \/ recv' = "next" /\ msg' = NoMsg
      BY <1>4
    <2>4. TypeOK'
      BY <2>2, <2>3, <1>1 DEF IInv, TypeOK
    <2>5. Pending'
      BY <2>3 DEF IInv, Pending
    <2> QED BY <1>2, <2>2, <2>4, <2>5 DEF IInv
  <1> QED BY <1>3, <1>4

LEMMA EvictStep == ASSUME IInv, evictExpired PROVE IInv'
  <1> USE DEF evictExpired
  <1>1. Known' = {q \in Known : ~Stale(q)}
    BY DEF Known
  <1>2. Known' \subseteq Known /\ \A p \in Known' : cache'[p] = cache[p]
    BY <1>1
  <1>3. IsFiniteSet(Known)
    BY MeshConstants, FS_Subset DEF IInv, TypeOK
  <1>4. Cardinality(Known') <= MaxPeers
    <2>1. /\ Cardinality(Known') <= Cardinality(Known)
          /\ Cardinality(Known) \in Nat /\ Cardinality(Known') \in Nat
      BY <1>2, <1>3, FS_Subset, FS_CardinalityType
    <2> QED BY <2>1, MeshConstants DEF IInv, CacheSound
  <1>5. CacheSound'
    BY <1>2, <1>4 DEF IInv, CacheSound
  <1>6. cache' \in [Known' -> Entry]
    <2>1. cache' = [p \in Known' |-> cache[p]]
      BY <1>1
    <2>2. \A p \in Known' : cache[p] \in Entry
      BY <1>2 DEF IInv, TypeOK
    <2> QED BY <2>1, <2>2
  <1>7. TypeOK'
    BY <1>2, <1>6 DEF IInv, TypeOK
  <1> QED BY <1>5, <1>7 DEF IInv, Counted, Pending

LEMMA TickStep == ASSUME IInv, Tick PROVE IInv'
  <1> USE DEF Tick
  <1>1. Known' = Known
    BY DEF Known
  <1>2. \A p \in Known : /\ cache'[p] \in Entry
                         /\ cache'[p].gatewayURL = cache[p].gatewayURL
    <2> SUFFICES ASSUME NEW p \in Known
                 PROVE  /\ cache'[p] \in Entry
                        /\ cache'[p].gatewayURL = cache[p].gatewayURL
      OBVIOUS
    <2>1. cache[p] \in Entry
      BY DEF IInv, TypeOK
    <2>2. cache'[p] = [cache[p] EXCEPT !.age = Older(@)]
      OBVIOUS
    <2> QED BY <2>1, <2>2, Aged
  <1>3. cache' \in [Known' -> Entry]
    <2>1. cache' = [p \in Known' |-> [cache[p] EXCEPT !.age = Older(@)]]
      BY <1>1
    <2>2. \A p \in Known' : [cache[p] EXCEPT !.age = Older(@)] \in Entry
      BY <1>1, <1>2, <2>1
    <2> QED BY <2>1, <2>2
  <1>5. /\ msg' \in Msgs \cup {NoMsg}
        /\ Pending'
    <2>1. CASE recv = "insert"
      <3>1. msg' \in Msgs /\ msg'.from = msg.from /\ msg'.entry.gatewayURL = msg.entry.gatewayURL
        <4>1. msg \in Msgs /\ msg.entry \in Entry /\ msg.entry.age \in Nat
          BY <2>1, MeshConstants DEF IInv, Pending, Msgs, Entry, Ages
        <4>2. msg' = [msg EXCEPT !.entry.age = @ + 1] /\ msg.entry.age < MaxLag
          BY <2>1
        <4>3. msg.entry.age + 1 \in Ages
          BY <4>1, <4>2, MeshConstants DEF Ages, MaxAge
        <4> QED BY <4>1, <4>2, <4>3 DEF Msgs, Entry
      <3> QED BY <2>1, <3>1 DEF IInv, Pending
    <2>2. CASE recv # "insert"
      BY <2>2 DEF IInv, TypeOK, Pending
    <2> QED BY <2>1, <2>2
  <1>6. tick' \in 0..MaxLag \cup {NoTick}
    BY MeshConstants DEF IInv, TypeOK, NoTick, MaxAge
  <1>7. TypeOK'
    BY <1>1, <1>3, <1>5, <1>6 DEF IInv, TypeOK
  <1>8. CacheSound'
    BY <1>1, <1>2 DEF IInv, CacheSound
  <1> QED BY <1>5, <1>7, <1>8 DEF IInv, Counted

LEMMA ReceiveStep ==
    ASSUME IInv, NEW p \in Peers, NEW u \in Gateways[p], Receive(p, u) PROVE IInv'
  <1> USE DEF Receive, Taken
  <1>1. PICK g \in validateMeshGatewayURL(u, AllowPrivate), d \in BOOLEAN :
          msg' = [from |-> p, entry |-> [gatewayURL |-> g, age |-> 0], dialable |-> d]
    OBVIOUS
  <1>2. g \in MaybeURL /\ g \in Allowed(p) /\ Safe(g)
    BY Validated
  <1>3. msg' \in Msgs
    BY <1>1, <1>2, MeshConstants DEF Msgs, Entry, Ages, MaxAge
  <1>4. Pending'
    BY <1>1, <1>2, <1>3 DEF Pending
  <1>5. Known' = Known
    BY DEF Known
  <1>6. TypeOK'
    <2>1. backlog' \in 0..MaxBacklog
      BY MeshConstants DEF IInv, TypeOK
    <2> QED BY <1>3, <1>5, <2>1 DEF IInv, TypeOK
  <1>7. CacheSound'
    BY <1>5 DEF IInv, CacheSound
  <1> QED BY <1>4, <1>6, <1>7 DEF IInv, Counted, Share

\* Everything else leaves the cache and the heartbeat alone, but Dial, which is
\* done with the heartbeat.
LEMMA OtherStep ==
    ASSUME IInv,
           \/ Deliver \/ Ignore \/ Dial \/ DialEnds \/ RecvExits
           \/ TickerFires \/ EvictExits \/ Publish \/ AdvertTick \/ AdvertExits
           \/ StopCancel \/ StopUnsubscribe \/ StopReturns
           \/ UNCHANGED vars
    PROVE  IInv'
  <1> USE MeshConstants DEF IInv
  <1>1. Known' = Known
    BY DEF Known, Deliver, Ignore, Dial, DialEnds, RecvExits, TickerFires, EvictExits,
           Publish, AdvertTick, AdvertExits, StopCancel, StopUnsubscribe, StopReturns, vars
  <1>2. CASE Dial
    <2>1. TypeOK'
      BY <1>1, <1>2 DEF Dial, TypeOK
    <2>2. Counted'
      BY <1>2 DEF Dial, TypeOK, Counted, Share
    <2>3. CacheSound'
      BY <1>1, <1>2 DEF Dial, CacheSound
    <2>4. Pending'
      BY <1>2 DEF Dial, Pending
    <2> QED BY <2>1, <2>2, <2>3, <2>4
  <1>3. CASE Deliver \/ Ignore \/ TickerFires \/ Publish \/ AdvertTick
    <2>1. TypeOK'
      BY <1>1, <1>3 DEF TypeOK, Deliver, Ignore, Taken, TickerFires, Publish, AdvertTick
    <2>2. Counted'
      BY <1>3 DEF Counted, Share, Deliver, Ignore, Taken, TickerFires, Publish, AdvertTick
    <2> QED BY <1>3, <2>1, <2>2, QuietStep
          DEF Deliver, Ignore, TickerFires, Publish, AdvertTick
  <1>4. CASE DialEnds \/ RecvExits \/ EvictExits \/ AdvertExits
    <2>1. wg > 0
      BY <1>4 DEF TypeOK, Counted, Share, DialEnds, RecvExits, EvictExits, AdvertExits
    <2>2. TypeOK'
      BY <1>1, <1>4, <2>1 DEF TypeOK, DialEnds, RecvExits, EvictExits, AdvertExits
    <2>3. Counted'
      BY <1>4, <2>1 DEF TypeOK, Counted, Share, DialEnds, RecvExits, EvictExits, AdvertExits
    <2> QED BY <1>4, <2>2, <2>3, QuietStep
          DEF DialEnds, RecvExits, EvictExits, AdvertExits
  <1>5. CASE StopCancel \/ StopUnsubscribe \/ StopReturns \/ UNCHANGED vars
    <2>1. TypeOK'
      BY <1>1, <1>5 DEF TypeOK, StopCancel, StopUnsubscribe, StopReturns, vars
    <2>2. Counted'
      BY <1>5 DEF Counted, Share, StopCancel, StopUnsubscribe, StopReturns, vars
    <2> QED BY <1>5, <2>1, <2>2, QuietStep
          DEF StopCancel, StopUnsubscribe, StopReturns, vars
  <1> QED BY <1>2, <1>3, <1>4, <1>5

LEMMA StepIInv == ASSUME IInv, [Next]_vars PROVE IInv'
  <1>1. CASE \E p \in Peers : \E u \in Gateways[p] : Receive(p, u)
    BY <1>1, ReceiveStep
  <1>2. CASE Insert
    BY <1>2, InsertStep
  <1>3. CASE evictExpired
    BY <1>3, EvictStep
  <1>4. CASE Tick
    BY <1>4, TickStep
  <1> QED BY <1>1, <1>2, <1>3, <1>4, OtherStep DEF Next, RecvStep

LEMMA Inductive == Spec => []IInv
  BY InitIInv, StepIInv, PTL DEF Spec

-----------------------------------------------------------------------------
(* Induction and folds *)

\* A set with 0 and the successor of each of its numbers has them all.
LEMMA Induction ==
    ASSUME NEW S, 0 \in S, \A n \in Nat : n \in S => n + 1 \in S
    PROVE  Nat \subseteq S
  <1> DEFINE R == OpToRel(<, Nat)
             T == Nat \ S
  <1> SUFFICES ASSUME T # {} PROVE FALSE
    OBVIOUS
  <1>1. IsWellFoundedOn(R, Nat)
    BY NatLessThanWellFounded
  <1>2. \A x, y \in Nat : <<x, y>> \in R <=> x < y
    BY DEF OpToRel
  <1>3. T \in SUBSET Nat
    OBVIOUS
  <1> HIDE DEF R, T
  <1>4. PICK x \in T : \A y \in T : ~(<<y, x>> \in R)
    BY <1>1, <1>3, WFMin, Zenon
  <1>5. x \in Nat /\ x \notin S /\ \A y \in Nat : y \notin S => ~(y < x)
    BY <1>2, <1>4 DEF T
  <1>6. x # 0 /\ x - 1 \in Nat /\ x - 1 < x
    BY <1>5
  <1> QED BY <1>5, <1>6

\* g solves the recursion of a fold over 1..n that starts with base and makes the
\* step H[i] with the number i.
IsFold(g, base, n, H) ==
    \A s \in SUBSET (1..n) :
       /\ s # {} => Max(s) \in 1..n
       /\ g[s] = IF s = {} THEN base ELSE H[Max(s)][g[s \ {Max(s)}]]

\* There is a solution.
LEMMA FoldExists ==
    ASSUME NEW V, NEW base \in V, NEW n \in Nat, NEW H \in [1..n -> [V -> V]]
    PROVE  \E g \in [SUBSET (1..n) -> V] : IsFold(g, base, n, H)
  <1> DEFINE Found(k) == \E g \in [SUBSET (1..k) -> V] : IsFold(g, base, k, H)
             S == {k \in Nat : k <= n => Found(k)}
  <1>1. Found(0)
    <2>1. SUBSET (1..0) = {{}}
      OBVIOUS
    <2> DEFINE g0 == [s \in SUBSET (1..0) |-> base]
    <2>2. g0 \in [SUBSET (1..0) -> V] /\ IsFold(g0, base, 0, H)
      BY <2>1 DEF IsFold
    <2> QED BY <2>2
  <1>2. ASSUME NEW k \in Nat, k + 1 <= n, Found(k) PROVE Found(k + 1)
    <2>1. PICK g \in [SUBSET (1..k) -> V] : IsFold(g, base, k, H)
      BY <1>2
    <2> DEFINE h == [s \in SUBSET (1..(k + 1)) |->
                        IF k + 1 \in s THEN H[k + 1][g[s \ {k + 1}]] ELSE g[s]]
    <2>2. \A s \in SUBSET (1..(k + 1)) : k + 1 \notin s => s \in SUBSET (1..k)
      OBVIOUS
    <2>3. \A s \in SUBSET (1..(k + 1)) : s \ {k + 1} \in SUBSET (1..k)
      OBVIOUS
    <2>4. ASSUME NEW s \in SUBSET (1..(k + 1)), k + 1 \in s PROVE Max(s) = k + 1
      <3>1. \A y \in s : k + 1 >= y /\ y \in Nat
        OBVIOUS
      <3>2. \A x \in s : (\A y \in s : x >= y) => x = k + 1
        BY <2>4, <3>1
      <3> QED BY <2>4, <3>1, <3>2 DEF Max
    <2>5. k + 1 \in 1..n /\ \A v \in V : H[k + 1][v] \in V
      BY <1>2
    <2>6. h \in [SUBSET (1..(k + 1)) -> V]
      BY <2>2, <2>3, <2>5
    <2>7. \A s \in SUBSET (1..k) : s \in SUBSET (1..(k + 1)) /\ k + 1 \notin s /\ h[s] = g[s]
      OBVIOUS
    <2>8. ASSUME NEW s \in SUBSET (1..(k + 1))
          PROVE  /\ s # {} => Max(s) \in 1..(k + 1)
                 /\ h[s] = IF s = {} THEN base ELSE H[Max(s)][h[s \ {Max(s)}]]
      <3>1. CASE k + 1 \in s
        BY <2>3, <2>4, <2>7, <3>1
      <3>2. CASE k + 1 \notin s
        <4>1. s \in SUBSET (1..k) /\ s \ {Max(s)} \in SUBSET (1..k)
          BY <2>2, <3>2
        <4> HIDE DEF h
        <4> QED BY <2>1, <2>7, <4>1 DEF IsFold
      <3> QED BY <3>1, <3>2
    <2> HIDE DEF h
    <2> QED BY <2>6, <2>8 DEF IsFold
  <1> HIDE DEF Found
  <1>3. \A k \in Nat : k \in S => k + 1 \in S
    BY <1>2
  <1>4. 0 \in S
    BY <1>1
  <1>5. Nat \subseteq S
    <2> HIDE DEF S
    <2> QED BY <1>3, <1>4, Induction
  <1>6. Found(n)
    BY <1>5
  <1> QED BY <1>6 DEF Found

\* The fold takes the numbers in order.
LEMMA FoldOrder ==
    ASSUME NEW i \in Nat \ {0}
    PROVE  1..i # {} /\ Max(1..i) = i /\ (1..i) \ {Max(1..i)} = 1..(i - 1)
  <1>1. i \in 1..i /\ \A y \in 1..i : i >= y
    OBVIOUS
  <1>2. \A x \in 1..i : (\A y \in 1..i : x >= y) => x = i
    BY <1>1
  <1>3. Max(1..i) = i
    BY <1>1, <1>2 DEF Max
  <1>4. \A x : x \in (1..i) \ {i} <=> x \in 1..(i - 1)
    OBVIOUS
  <1> QED BY <1>1, <1>3, <1>4

\* p has the intermediate results, one after the other.
Results(p, base, n, H, last) ==
    p[0] = base /\ p[n] = last /\ \A i \in 1..n : i - 1 \in 0..n /\ p[i] = H[i][p[i - 1]]

\* g folds as long as it stays in V.
FoldsIn(g, V, base, n, H) ==
    /\ g[{}] = base
    /\ \A i \in 1..n : g[1..(i - 1)] \in V => g[1..i] = H[i][g[1..(i - 1)]]

\* Then it has intermediate results, all of them in V.
LEMMA FoldResults ==
    ASSUME NEW V, NEW base \in V, NEW n \in Nat, NEW H \in [1..n -> [V -> V]],
           NEW g, FoldsIn(g, V, base, n, H)
    PROVE  \E p \in [0..n -> V] : Results(p, base, n, H, g[1..n])
  <1> DEFINE p == [i \in 0..n |-> g[1..i]]
             S == {i \in Nat : i <= n => g[1..i] \in V}
  <1>1. 1..0 = {}
    OBVIOUS
  <1>2. 0 \in S
    BY <1>1 DEF FoldsIn
  <1>3. ASSUME NEW i \in Nat, i \in S PROVE i + 1 \in S
    <2> SUFFICES ASSUME i + 1 <= n PROVE g[1..(i + 1)] \in V
      OBVIOUS
    <2>1. i + 1 \in 1..n /\ (i + 1) - 1 = i /\ g[1..i] \in V
      BY <1>3
    <2>2. g[1..(i + 1)] = H[i + 1][g[1..i]]
      BY <2>1 DEF FoldsIn
    <2> QED BY <2>1, <2>2
  <1>4. Nat \subseteq S
    <2> HIDE DEF S
    <2> QED BY <1>2, <1>3, Induction
  <1>5. \A i \in 0..n : g[1..i] \in V
    BY <1>4
  <1>6. \A i \in 1..n : i \in 0..n /\ i - 1 \in 0..n
    OBVIOUS
  <1>7. /\ p \in [0..n -> V]
        /\ Results(p, base, n, H, g[1..n])
    BY <1>1, <1>5, <1>6 DEF Results, FoldsIn
  <1> QED BY <1>7

-----------------------------------------------------------------------------
(* The fallback chain *)

\* The places of the first gateways of their kind among the first k.
Firsts(all, k) ==
    {i \in 1..k : /\ normalizeFallbackURL(all[i]) # NoURL
                  /\ \A j \in 1..(i - 1) : normalizeFallbackURL(all[j]) # normalizeFallbackURL(all[i])}

\* out has the gateways at these places, in their order and each once.
Lists(out, all, places) ==
    /\ Len(out) = Cardinality(places)
    /\ \A i \in places : out[Cardinality({j \in places : j <= i})] = all[i]

Keys(out) == {normalizeFallbackURL(v) : v \in ToSet(out)}

\* add adds a gateway, and its normal form, or nothing.
LEMMA AddMeans ==
    ASSUME NEW out \in Seq(MaybeURL), NEW u \in MaybeURL
    PROVE  /\ Add(out, u) \in Seq(MaybeURL)
           /\ normalizeFallbackURL(u) \in {NoURL} \cup Keys(out) => Add(out, u) = out
           /\ normalizeFallbackURL(u) \notin {NoURL} \cup Keys(out) =>
                 /\ Add(out, u) = Append(out, u)
                 /\ Keys(Add(out, u)) = Keys(out) \cup {normalizeFallbackURL(u)}
  <1>1. /\ normalizeFallbackURL(u) \in {NoURL} \cup Keys(out) => Add(out, u) = out
        /\ normalizeFallbackURL(u) \notin {NoURL} \cup Keys(out) => Add(out, u) = Append(out, u)
    BY DEF Add, Keys
  <1>2. Append(out, u) \in Seq(MaybeURL)
    OBVIOUS
  <1>3. ToSet(Append(out, u)) = ToSet(out) \cup {u}
    <2>1. /\ Len(out) \in Nat /\ DOMAIN out = 1..Len(out)
          /\ DOMAIN Append(out, u) = 1..(Len(out) + 1)
          /\ Append(out, u)[Len(out) + 1] = u
          /\ \A i \in 1..Len(out) : Append(out, u)[i] = out[i]
      OBVIOUS
    <2>2. \A i \in 1..(Len(out) + 1) : i \in 1..Len(out) \/ i = Len(out) + 1
      BY <2>1
    <2>3. Len(out) + 1 \in 1..(Len(out) + 1) /\ \A i \in 1..Len(out) : i \in 1..(Len(out) + 1)
      BY <2>1
    <2>4. \A x \in ToSet(Append(out, u)) : x \in ToSet(out) \cup {u}
      BY <2>1, <2>2 DEF ToSet
    <2>5. \A x \in ToSet(out) \cup {u} : x \in ToSet(Append(out, u))
      BY <2>1, <2>3 DEF ToSet
    <2> QED BY <2>4, <2>5
  <1>4. Keys(Append(out, u)) = Keys(out) \cup {normalizeFallbackURL(u)}
    BY <1>3 DEF Keys
  <1> QED BY <1>1, <1>2, <1>4

\* The chain is made by adding the gateways one by one.
LEMMA ChainSteps ==
    ASSUME NEW all \in Seq(MaybeURL)
    PROVE  \E p \in [0..Len(all) -> Seq(MaybeURL)] :
              /\ p[0] = <<>>
              /\ \A i \in 1..Len(all) : p[i] = Add(p[i - 1], all[i])
              /\ FoldLeft(Add, <<>>, all) = p[Len(all)]
  <1> DEFINE n == Len(all)
             V == Seq(MaybeURL)
             H == [i \in 1..n |-> [v \in V |-> Add(v, all[i])]]
             Iter(f) == f = [s \in SUBSET (DOMAIN all) |->
                               IF s = {} THEN <<>> ELSE Add(f[s \ {Max(s)}], all[Max(s)])]
             it == CHOOSE f : Iter(f)
  <1>1. n \in Nat /\ DOMAIN all = 1..n /\ \A i \in 1..n : all[i] \in MaybeURL
    OBVIOUS
  <1>2. <<>> \in V
    OBVIOUS
  <1>3. H \in [1..n -> [V -> V]]
    <2>1. \A v \in V, u \in MaybeURL : Add(v, u) \in V
      BY AddMeans
    <2> HIDE DEF V, n
    <2> QED BY <1>1, <2>1
  <1>4. PICK g \in [SUBSET (1..n) -> V] : IsFold(g, <<>>, n, H)
    <2> HIDE DEF H, V, n
    <2> QED BY <1>1, <1>2, <1>3, FoldExists
  <1>5. \A s \in SUBSET (1..n) :
           g[s] = IF s = {} THEN <<>> ELSE Add(g[s \ {Max(s)}], all[Max(s)])
    <2> HIDE DEF V, n
    <2>1. \A s \in SUBSET (1..n) : s # {} =>
             H[Max(s)][g[s \ {Max(s)}]] = Add(g[s \ {Max(s)}], all[Max(s)])
      BY <1>4 DEF IsFold
    <2> HIDE DEF H
    <2> QED BY <1>4, <2>1 DEF IsFold
  <1>6. Iter(it)
    <2> HIDE DEF V, n, H
    <2>1. Iter(g)
      BY <1>1, <1>4, <1>5
    <2> HIDE DEF Iter
    <2> QED BY <2>1
  <1>7. \A s \in SUBSET (1..n) :
           it[s] = IF s = {} THEN <<>> ELSE Add(it[s \ {Max(s)}], all[Max(s)])
    <2> HIDE DEF n, it
    <2> QED BY <1>1, <1>6
  <1>8. FoldLeft(Add, <<>>, all) = it[DOMAIN all]
    BY DEF FoldLeft, MapThenFoldSet
  <1>9. ASSUME NEW i \in 1..n, it[1..(i - 1)] \in V
        PROVE  it[1..i] = H[i][it[1..(i - 1)]]
    <2>1. i \in Nat \ {0} /\ 1..i \in SUBSET (1..n)
      BY <1>1
    <2> HIDE DEF it, V, n
    <2>2. it[1..i] = Add(it[1..(i - 1)], all[i])
      BY <1>7, <2>1, FoldOrder
    <2> QED BY <1>9, <2>2
  <1>10. FoldsIn(it, V, <<>>, n, H)
    <2>1. it[{}] = <<>>
      <3> HIDE DEF it, n
      <3> QED BY <1>7
    <2> HIDE DEF it, H, V, n
    <2> QED BY <1>9, <2>1 DEF FoldsIn
  <1>11. PICK p \in [0..n -> V] : Results(p, <<>>, n, H, it[1..n])
    <2> HIDE DEF it, H, V, n
    <2> QED BY <1>1, <1>2, <1>3, <1>10, FoldResults
  <1>12. p[0] = <<>> /\ p[n] = it[1..n] /\ \A i \in 1..n : p[i] = Add(p[i - 1], all[i])
    <2> HIDE DEF V, n
    <2> QED BY <1>1, <1>11 DEF Results
  <1> HIDE DEF it
  <1> QED BY <1>1, <1>8, <1>12

\* One more gateway that is new comes last.
LEMMA ListGrows ==
    ASSUME NEW all \in Seq(MaybeURL), NEW n \in Nat, n + 1 <= Len(all),
           NEW places \in SUBSET (1..n), NEW out \in Seq(MaybeURL), Lists(out, all, places)
    PROVE  Lists(Append(out, all[n + 1]), all, places \cup {n + 1})
  <1> DEFINE long == Append(out, all[n + 1])
             more == places \cup {n + 1}
  <1>1. n + 1 \notin places /\ all[n + 1] \in MaybeURL
    OBVIOUS
  <1>2. IsFiniteSet(places)
    <2>1. IsFiniteSet(1..n)
      BY FS_Interval
    <2> QED BY <2>1, FS_Subset
  <1>3. Cardinality(places) \in Nat /\ Cardinality(more) = Cardinality(places) + 1
    BY <1>1, <1>2, FS_CardinalityType, FS_AddElement
  <1>4. /\ Len(long) = Len(out) + 1 /\ long[Len(out) + 1] = all[n + 1] /\ Len(out) \in Nat
        /\ \A q \in 1..Len(out) : long[q] = out[q]
    BY <1>1
  <1>5. Len(out) = Cardinality(places)
    BY DEF Lists
  <1> HIDE DEF long
  <1>6. ASSUME NEW i \in more PROVE long[Cardinality({j \in more : j <= i})] = all[i]
    <2>1. CASE i = n + 1
      <3>1. \A j \in more : j <= i
        BY <2>1
      <3>2. {j \in more : j <= i} = more
        BY <3>1
      <3> QED BY <1>3, <1>4, <1>5, <2>1, <3>2
    <2>2. CASE i \in places
      <3> DEFINE B == {j \in places : j <= i}
      <3>1. {j \in more : j <= i} = B
        BY <2>2
      <3>2. B \subseteq places /\ i \in B
        BY <2>2
      <3>3. IsFiniteSet(B) /\ Cardinality(B) \in Nat /\ Cardinality(B) <= Cardinality(places)
        BY <1>2, <3>2, FS_Subset, FS_CardinalityType
      <3>4. Cardinality(B) # 0
        BY <3>2, <3>3, FS_EmptySet
      <3>5. Cardinality(B) \in 1..Len(out)
        BY <1>3, <1>5, <3>3, <3>4
      <3>6. out[Cardinality(B)] = all[i]
        BY <2>2 DEF Lists
      <3> HIDE DEF B
      <3> QED BY <1>4, <3>1, <3>5, <3>6
    <2> QED BY <2>1, <2>2
  <1> HIDE DEF more
  <1>7. Lists(long, all, more)
    BY <1>3, <1>4, <1>5, <1>6 DEF Lists
  <1> QED BY <1>7 DEF long, more

\* The chain has the first gateways of their kind, for all gateways.
LEMMA ChainMeans ==
    ASSUME NEW all \in Seq(MaybeURL)
    PROVE  Lists(FoldLeft(Add, <<>>, all), all, Firsts(all, Len(all)))
  <1> DEFINE n == Len(all)
             key(i) == normalizeFallbackURL(all[i])
  <1>1. PICK p \in [0..n -> Seq(MaybeURL)] :
           /\ p[0] = <<>>
           /\ \A i \in 1..n : p[i] = Add(p[i - 1], all[i])
           /\ FoldLeft(Add, <<>>, all) = p[n]
    BY ChainSteps
  <1> DEFINE Seen(k) == \A x : x \in {NoURL} \cup Keys(p[k]) <=>
                                    x = NoURL \/ \E i \in 1..k : x = key(i)
             Q(k) == Lists(p[k], all, Firsts(all, k)) /\ Seen(k)
             S == {k \in Nat : k <= n => Q(k)}
  <1>2. n \in Nat
    OBVIOUS
  <1>3. 0 \in S
    <2>1. Firsts(all, 0) = {} /\ Len(p[0]) = 0
      BY <1>1 DEF Firsts
    <2>2. Keys(p[0]) = {}
      BY <1>1 DEF Keys, ToSet
    <2>3. Lists(p[0], all, Firsts(all, 0))
      BY <2>1, FS_EmptySet DEF Lists
    <2>4. Seen(0)
      BY <2>2
    <2> QED BY <2>3, <2>4
  <1>4. ASSUME NEW k \in Nat, k \in S PROVE k + 1 \in S
    <2> SUFFICES ASSUME k + 1 <= n PROVE Q(k + 1)
      OBVIOUS
    <2>1. /\ k + 1 \in 1..n /\ (k + 1) - 1 = k /\ k \in 0..n
          /\ \A i : i \in 1..(k + 1) <=> i \in 1..k \/ i = k + 1
      BY <1>2
    <2>2. Q(k) /\ p[k] \in Seq(MaybeURL) /\ p[k + 1] = Add(p[k], all[k + 1])
      BY <1>1, <1>2, <1>4, <2>1
    <2>3. all[k + 1] \in MaybeURL
      BY <2>1
    <2>4. k + 1 \in Firsts(all, k + 1) <=> key(k + 1) # NoURL /\ \A j \in 1..k : key(j) # key(k + 1)
      BY <2>1 DEF Firsts
    <2>5. \A i \in 1..k : i \in Firsts(all, k + 1) <=> i \in Firsts(all, k)
      BY <2>1 DEF Firsts
    <2>6. Firsts(all, k) \in SUBSET (1..k) /\ Firsts(all, k + 1) \in SUBSET (1..(k + 1))
      BY DEF Firsts
    <2>7. CASE key(k + 1) \in {NoURL} \cup Keys(p[k])
      <3>1. p[k + 1] = p[k]
        BY <2>2, <2>3, <2>7, AddMeans
      <3>2. Firsts(all, k + 1) = Firsts(all, k)
        BY <2>1, <2>2, <2>4, <2>5, <2>6, <2>7
      <3>3. Seen(k + 1)
        BY <2>1, <2>2, <2>7, <3>1
      <3> HIDE DEF Seen
      <3> QED BY <2>2, <3>1, <3>2, <3>3
    <2>8. CASE key(k + 1) \notin {NoURL} \cup Keys(p[k])
      <3>1. p[k + 1] = Append(p[k], all[k + 1]) /\ Keys(p[k + 1]) = Keys(p[k]) \cup {key(k + 1)}
        BY <2>2, <2>3, <2>8, AddMeans
      <3>2. Firsts(all, k + 1) = Firsts(all, k) \cup {k + 1}
        BY <2>1, <2>2, <2>4, <2>5, <2>6, <2>8
      <3>3. Seen(k + 1)
        BY <2>1, <2>2, <3>1
      <3> HIDE DEF Seen
      <3>4. Lists(p[k + 1], all, Firsts(all, k + 1))
        <4>1. Lists(Append(p[k], all[k + 1]), all, Firsts(all, k) \cup {k + 1})
          BY <2>2, <2>6, ListGrows
        <4> QED BY <3>1, <3>2, <4>1
      <3> QED BY <3>3, <3>4
    <2> QED BY <2>7, <2>8
  <1>5. Nat \subseteq S
    <2> HIDE DEF S
    <2> QED BY <1>3, <1>4, Induction
  <1>6. Q(n)
    <2> HIDE DEF Q
    <2> QED BY <1>2, <1>5
  <1> QED BY <1>1, <1>6

\* Splicing the mesh into the static gateways makes a list of gateways.
LEMMA SplicedType ==
    ASSUME NEW s \in Seq(MaybeURL), NEW h \in Nat, NEW m \in Seq(MaybeURL)
    PROVE  Spliced(s, h, m) \in Seq(MaybeURL)
  <1> DEFINE e == IF h > Len(s) THEN Len(s) ELSE h
  <1>1. e \in Nat /\ e <= Len(s)
    OBVIOUS
  <1> HIDE DEF e
  <1>2. SubSeq(s, 1, e) \in Seq(MaybeURL)
    BY <1>1
  <1>3. SubSeq(s, e + 1, Len(s)) \in Seq(MaybeURL)
    BY <1>1
  <1>4. SubSeq(s, 1, e) \o m \o SubSeq(s, e + 1, Len(s)) \in Seq(MaybeURL)
    BY <1>2, <1>3
  <1> QED BY <1>4 DEF Spliced, e

-----------------------------------------------------------------------------
\* The mesh manager keeps its types; the WaitGroup never goes negative.
THEOREM TypeCorrect == Spec => []TypeOK
  <1>1. IInv => TypeOK
    BY DEF IInv
  <1> QED BY <1>1, Inductive, PTL

\* The cache stays within its cap and holds only what its own peers
\* advertised and the validation allows.
THEOREM CacheIsSound == Spec => []CacheSound
  <1>1. IInv => CacheSound
    BY DEF IInv
  <1> QED BY <1>1, Inductive, PTL

\* Once Stop has returned no goroutine of the mesh is left, although a dial may
\* be added to the WaitGroup while Stop waits on it: recvLoop, which adds it,
\* is itself counted.
THEOREM StopWaits == Spec => []StoppedQuiet
  <1>1. IInv => StoppedQuiet
    BY DEF IInv, TypeOK, Counted, Share, StoppedQuiet, Loops
  <1> QED BY <1>1, Inductive, PTL

\* A peer leaves the cache only when its TTL has passed.
THEOREM EvictsOnlyStale == Spec => OnlyStaleEvicted
  <1>1. ASSUME IInv, [Next]_vars
        PROVE  [\A p \in Known : p \notin DOMAIN cache' => cache[p].age > TTL]_vars
    <2> SUFFICES ASSUME NEW p \in Known, p \notin DOMAIN cache' PROVE cache[p].age > TTL
      OBVIOUS
    <2>1. cache[p].age \in Nat
      <3>1. cache[p] \in Entry
        BY <1>1 DEF IInv, TypeOK
      <3> QED BY <3>1, MeshConstants DEF Entry, Ages, MaxAge
    <2>2. CASE evictExpired
      <3>1. Stale(p) /\ tick \in 0..MaxLag
        BY <1>1, <2>2 DEF evictExpired, IInv, TypeOK
      <3> QED BY <2>1, <3>1, MeshConstants DEF Stale
    <2>3. CASE Insert \/ Tick \/ UNCHANGED cache
      BY <2>3 DEF Insert, Tick, Known
    <2>4. evictExpired \/ Insert \/ Tick \/ UNCHANGED cache
      BY <1>1 DEF Next, RecvStep, Deliver, Ignore, Receive, Dial, DialEnds, RecvExits, TickerFires,
             EvictExits, Publish, AdvertTick, AdvertExits, StopCancel, StopUnsubscribe,
             StopReturns, vars
    <2> QED BY <2>2, <2>3, <2>4
  <1> QED BY <1>1, Inductive, PTL DEF Spec, OnlyStaleEvicted

\* Whatever peers are known, and in whatever order KnownPeers lists them, a
\* fetch tries each gateway once, in the spelling and at the place that come
\* first: a peer that repeats a configured gateway cannot move it or double it.
THEOREM ChainIsSound == Spec => []ChainSound
  <1>1. ASSUME TypeOK PROVE ChainSound
    <2> SUFFICES ASSUME NEW order \in SetToSeqs(Known)
                 PROVE  LET all == Spliced(Static, HeadLen,
                                           [i \in 1..Len(order) |-> cache[order[i]].gatewayURL])
                            chain == assembleFallbackChain(Static, HeadLen,
                                           [i \in 1..Len(order) |-> cache[order[i]].gatewayURL])
                            key(i) == normalizeFallbackURL(all[i])
                            firsts == {i \in 1..Len(all) :
                                         key(i) # NoURL /\ \A j \in 1..(i - 1) : key(j) # key(i)}
                        IN  /\ order = <<>> => chain = Static
                            /\ order # <<>> =>
                                 /\ Len(chain) = Cardinality(firsts)
                                 /\ \A i \in firsts :
                                       chain[Cardinality({j \in firsts : j <= i})] = all[i]
      BY DEF ChainSound
    <2> DEFINE mesh == [i \in 1..Len(order) |-> cache[order[i]].gatewayURL]
               all == Spliced(Static, HeadLen, mesh)
    <2>1. Cardinality(Known) \in Nat
      BY <1>1, MeshConstants, FS_Subset, FS_CardinalityType DEF TypeOK
    <2>2. order \in [1..Cardinality(Known) -> Known]
      BY DEF SetToSeqs
    <2>3. Len(order) \in Nat /\ \A i \in 1..Len(order) : order[i] \in Known
      BY <2>1, <2>2
    <2>4. \A q \in Known : cache[q].gatewayURL \in MaybeURL
      BY <1>1 DEF TypeOK, Entry
    <2>5. mesh \in Seq(MaybeURL) /\ Len(mesh) = Len(order)
      BY <2>3, <2>4
    <2>6. mesh = <<>> <=> order = <<>>
      BY <2>1, <2>2, <2>5
    <2>7. all \in Seq(MaybeURL)
      <3> HIDE DEF mesh
      <3> QED BY <2>5, MeshConstants, SplicedType
    <2>8. CASE order = <<>>
      <3>1. assembleFallbackChain(Static, HeadLen, mesh) = Static
        BY <2>6, <2>8 DEF assembleFallbackChain
      <3> QED BY <2>8, <3>1
    <2>9. CASE order # <<>>
      <3>1. assembleFallbackChain(Static, HeadLen, mesh) = FoldLeft(Add, <<>>, all)
        BY <2>6, <2>9 DEF assembleFallbackChain
      <3>2. Lists(assembleFallbackChain(Static, HeadLen, mesh), all, Firsts(all, Len(all)))
        <4> HIDE DEF all, mesh
        <4> QED BY <2>7, <3>1, ChainMeans
      <3> QED BY <2>9, <3>2 DEF Lists, Firsts
    <2> QED BY <2>8, <2>9
  <1> QED BY <1>1, TypeCorrect, PTL
=============================================================================

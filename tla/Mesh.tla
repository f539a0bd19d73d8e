--------------------------------- MODULE Mesh ---------------------------------
(***************************************************************************)
(* The pinner mesh (src/ipfsnode_pubsub.go): the cache of peers heard      *)
(* from, the goroutines that fill and empty it, and Stop.                  *)
(*                                                                         *)
(* Time is kept as ages: cache[p].age is how many units ago lastSeen was   *)
(* set.  An age above MaxAge can make no difference and stays there.       *)
(***************************************************************************)
EXTENDS FallbackChain, FiniteSets

CONSTANTS Peers,         \* the other pinners
          NoMsg,
          Gateways,      \* Gateways[p]: the gateway URLs p puts in its heartbeats
          Static, HeadLen, \* the configured fallback chain
          MaxPeers,      \* meshMaxPeers
          TTL,           \* units after which a silent peer is evicted
          MaxLag,        \* bound: units a tick or a heartbeat waits to be handled
          MaxBacklog,    \* bound: messages waiting in the subscription
          MaxDials,      \* bound: dials at a time
          AllowPrivate, AdvertiseOff

MaxAge == TTL + MaxLag + 1
NoTick == MaxAge + 1
Ages == 0..MaxAge
Older(a) == IF a < MaxAge THEN a + 1 ELSE a
Entry == [gatewayURL : MaybeURL, age : Ages]
\* A heartbeat being applied: its sender, its cache entry, and whether it has
\* an address to dial.
Msgs == [from : Peers, entry : Entry, dialable : BOOLEAN]

ASSUME MeshConstants ==
    /\ IsFiniteSet(Peers) /\ NoMsg \notin Msgs
    /\ Gateways \in [Peers -> SUBSET MaybeURL]
    /\ Static \in Seq(MaybeURL) /\ HeadLen \in Nat
    /\ MaxPeers \in Nat /\ TTL \in Nat /\ MaxLag \in Nat
    /\ MaxBacklog \in Nat /\ MaxDials \in Nat
    /\ AllowPrivate \in BOOLEAN /\ AdvertiseOff \in BOOLEAN

VARIABLES cache,    \* m.peers
          recv,     \* recvLoop's place
          msg,      \* the heartbeat it is applying
          backlog,  \* number of messages in the subscription
          evict,    \* evictLoop's place
          tick,     \* age of the tick in evictLoop's ticker channel, or NoTick
          advert,   \* advertiseLoop's place
          dials,    \* number of dial goroutines
          wg,       \* the WaitGroup
          stop      \* Stop's progress: "no", then "cancelled" (m.cancel),
                    \* "unsubscribed" (sub.Cancel), "stopped" (Wait and topic.Close)

vars == <<cache, recv, msg, backlog, evict, tick, advert, dials, wg, stop>>

Known == DOMAIN cache
ctxDone == stop # "no"

\* Goroutines of the manager that have not called wg.Done.
Loops == {l \in {"recv", "evict", "advert"} :
            \/ l = "recv" /\ recv # "gone"
            \/ l = "evict" /\ evict # "gone"
            \/ l = "advert" /\ advert # "gone"}

TypeOK ==
    /\ Known \subseteq Peers /\ cache \in [Known -> Entry]
    /\ recv \in {"next", "insert", "dial", "gone"}
    /\ msg \in Msgs \cup {NoMsg}
    /\ backlog \in 0..MaxBacklog
    /\ evict \in {"select", "gone"}
    /\ tick \in 0..MaxLag \cup {NoTick}
    /\ advert \in {"publish", "select", "gone"}
    /\ dials \in 0..MaxDials
    /\ wg \in Nat
    /\ stop \in {"no", "cancelled", "unsubscribed", "stopped"}

\* startMesh
Init ==
    /\ cache = [p \in {} |-> NoMsg]
    /\ recv = "next" /\ backlog = 0
    /\ msg = NoMsg
    /\ evict = "select" /\ tick = NoTick
    /\ advert = IF AdvertiseOff THEN "gone" ELSE "publish"
    /\ dials = 0
    /\ wg = IF AdvertiseOff THEN 2 ELSE 3
    /\ stop = "no"


-----------------------------------------------------------------------------
(* recvLoop *)

\* A message reaches the subscription.
Deliver ==
    /\ stop \in {"no", "cancelled"} /\ backlog < MaxBacklog
    /\ backlog' = backlog + 1
    /\ UNCHANGED <<cache, recv, msg, evict, tick, advert, dials, wg, stop>>

\* sub.Next returns a message; ctx may be done already, since it selects
\* between the two.
Taken == recv = "next" /\ backlog > 0 /\ backlog' = backlog - 1

\* Our own, or not a heartbeat, or one that claims to be another peer's.
Ignore ==
    /\ Taken
    /\ UNCHANGED <<cache, recv, msg, evict, tick, advert, dials, wg, stop>>

\* Fault: the claimed peer ID is believed.
ReceiveClaimed(sender, url) ==
    /\ Taken
    /\ \E g \in validateMeshGatewayURL(url, AllowPrivate), d \in BOOLEAN, claimed \in Peers :
          msg' = [from |-> claimed, entry |-> [gatewayURL |-> g, age |-> 0], dialable |-> d]
    /\ recv' = "insert"
    /\ UNCHANGED <<cache, evict, tick, advert, dials, wg, stop>>

\* applyHeartbeat up to m.mu.Lock: the entry is stamped before the lock.
Receive(sender, url) ==
    /\ Taken
    /\ \E g \in validateMeshGatewayURL(url, AllowPrivate), d \in BOOLEAN :
          msg' = [from |-> sender, entry |-> [gatewayURL |-> g, age |-> 0], dialable |-> d]
    /\ recv' = "insert"
    /\ UNCHANGED <<cache, evict, tick, advert, dials, wg, stop>>

\* A new peer is dropped when the cache is full; one that is new is dialled.
Insert ==
    /\ recv = "insert"
    /\ \/ /\ msg.from \notin Known /\ Cardinality(Known) >= MaxPeers
          /\ recv' = "next" /\ msg' = NoMsg
          /\ UNCHANGED cache
       \/ /\ msg.from \in Known \/ Cardinality(Known) < MaxPeers
          /\ cache' = [p \in Known \cup {msg.from} |->
                         IF p = msg.from THEN msg.entry ELSE cache[p]]
          /\ IF msg.from \notin Known /\ msg.dialable
             THEN recv' = "dial" /\ UNCHANGED msg
             ELSE recv' = "next" /\ msg' = NoMsg
    /\ UNCHANGED <<backlog, evict, tick, advert, dials, wg, stop>>

\* Fault: the dial is not counted.
DialUncounted ==
    /\ recv = "dial" /\ dials < MaxDials
    /\ dials' = dials + 1
    /\ recv' = "next" /\ msg' = NoMsg
    /\ UNCHANGED <<cache, backlog, evict, tick, advert, wg, stop>>

\* wg.Add and the dial goroutine.
Dial ==
    /\ recv = "dial" /\ dials < MaxDials
    /\ wg' = wg + 1
    /\ dials' = dials + 1
    /\ recv' = "next" /\ msg' = NoMsg
    /\ UNCHANGED <<cache, backlog, evict, tick, advert, stop>>

\* host.Connect returns, at the latest after its timeout; wg.Done.
DialEnds ==
    /\ dials > 0
    /\ dials' = dials - 1
    /\ wg' = wg - 1
    /\ UNCHANGED <<cache, recv, msg, backlog, evict, tick, advert, stop>>

RecvExits ==
    /\ recv = "next" /\ ctxDone
    /\ recv' = "gone" /\ wg' = wg - 1
    /\ UNCHANGED <<cache, msg, backlog, evict, tick, advert, dials, stop>>

-----------------------------------------------------------------------------
(* evictLoop and advertiseLoop *)

\* The ticker's channel holds one tick; a further one is dropped.
TickerFires ==
    /\ evict # "gone" /\ tick = NoTick
    /\ tick' = 0
    /\ UNCHANGED <<cache, recv, msg, backlog, evict, advert, dials, wg, stop>>

\* Fault: lastSeen <= cutoff.
StaleEarly(p) == cache[p].age >= TTL + tick

\* lastSeen before now - ttl, where now is the time of the tick.
Stale(p) == cache[p].age > TTL + tick

\* Fault: peers are evicted only to make room.
EvictWhenFull ==
    /\ evict = "select" /\ tick # NoTick
    /\ cache' = IF Cardinality(Known) < MaxPeers THEN cache
                ELSE [p \in {q \in Known : ~Stale(q)} |-> cache[p]]
    /\ tick' = NoTick
    /\ UNCHANGED <<recv, msg, backlog, evict, advert, dials, wg, stop>>

evictExpired ==
    /\ evict = "select" /\ tick # NoTick
    /\ cache' = [p \in {q \in Known : ~Stale(q)} |-> cache[p]]
    /\ tick' = NoTick
    /\ UNCHANGED <<recv, msg, backlog, evict, advert, dials, wg, stop>>

\* Fault: the loop waits for the end of Stop.
EvictExitsLate ==
    /\ evict = "select" /\ stop = "stopped"
    /\ evict' = "gone" /\ tick' = NoTick /\ wg' = wg - 1
    /\ UNCHANGED <<cache, recv, msg, backlog, advert, dials, stop>>

EvictExits ==
    /\ evict = "select" /\ ctxDone
    /\ evict' = "gone" /\ tick' = NoTick /\ wg' = wg - 1
    /\ UNCHANGED <<cache, recv, msg, backlog, advert, dials, stop>>

\* publishHeartbeat; a failure is only logged.
Publish ==
    /\ advert = "publish"
    /\ advert' = "select"
    /\ UNCHANGED <<cache, recv, msg, backlog, evict, tick, dials, wg, stop>>

AdvertTick ==
    /\ advert = "select"
    /\ advert' = "publish"
    /\ UNCHANGED <<cache, recv, msg, backlog, evict, tick, dials, wg, stop>>

AdvertExits ==
    /\ advert = "select" /\ ctxDone
    /\ advert' = "gone" /\ wg' = wg - 1
    /\ UNCHANGED <<cache, recv, msg, backlog, evict, tick, dials, stop>>

-----------------------------------------------------------------------------
(* Stop, and time *)

StopCancel ==
    /\ stop = "no"
    /\ stop' = "cancelled"
    /\ UNCHANGED <<cache, recv, msg, backlog, evict, tick, advert, dials, wg>>

StopUnsubscribe ==
    /\ stop = "cancelled"
    /\ stop' = "unsubscribed"
    /\ UNCHANGED <<cache, recv, msg, backlog, evict, tick, advert, dials, wg>>

\* wg.Wait, topic.Close; the caller goes on to close the host.
StopReturns ==
    /\ stop = "unsubscribed" /\ wg = 0
    /\ stop' = "stopped"
    /\ UNCHANGED <<cache, recv, msg, backlog, evict, tick, advert, dials, wg>>

Tick ==
    /\ stop # "stopped"
    /\ tick = NoTick \/ tick < MaxLag
    /\ recv = "insert" => msg.entry.age < MaxLag
    /\ cache' = [p \in Known |-> [cache[p] EXCEPT !.age = Older(@)]]
    /\ tick' = IF tick = NoTick THEN tick ELSE tick + 1
    /\ msg' = IF recv = "insert" THEN [msg EXCEPT !.entry.age = @ + 1] ELSE msg
    /\ UNCHANGED <<recv, backlog, evict, advert, dials, wg, stop>>

RecvStep == \/ Ignore
            \/ \E p \in Peers : \E u \in Gateways[p] : Receive(p, u)
            \/ Insert \/ Dial \/ RecvExits

Next == \/ Deliver \/ RecvStep \/ DialEnds
        \/ TickerFires \/ evictExpired \/ EvictExits
        \/ Publish \/ AdvertTick \/ AdvertExits
        \/ StopCancel \/ StopUnsubscribe \/ StopReturns
        \/ Tick

Spec == Init /\ [][Next]_vars

\* Goroutines are scheduled, tickers fire, a dial ends with its timeout, and a
\* select whose ctx.Done case stays ready takes it sooner or later.
Fairness ==
    /\ WF_vars(RecvStep)
    /\ WF_vars(DialEnds)
    /\ WF_vars(TickerFires) /\ WF_vars(evictExpired) /\ WF_vars(EvictExits)
    /\ WF_vars(Publish) /\ SF_vars(AdvertExits)
    /\ WF_vars(StopUnsubscribe) /\ WF_vars(StopReturns)

FairSpec == Spec /\ Fairness

-----------------------------------------------------------------------------
(* Properties *)

\* The cache holds at most meshMaxPeers peers, and an entry's gateway is one
\* that its own peer advertised, in normal form and allowed: the key is the
\* authenticated sender and nothing else gets in.
CacheSound ==
    /\ Cardinality(Known) <= MaxPeers
    /\ \A p \in Known : cache[p].gatewayURL \in
          {NoURL} \cup {normalizeFallbackURL(u) : u \in Gateways[p]}
    /\ ~AllowPrivate => \A p \in Known : cache[p].gatewayURL = NoURL
                                         \/ cache[p].gatewayURL.host \notin UnsafeHosts

\* A peer leaves the cache only when its TTL has passed, however late the tick
\* is handled and whichever heartbeats arrive meanwhile.
OnlyStaleEvicted ==
    [][\A p \in Known : p \notin DOMAIN cache' => cache[p].age > TTL]_vars

\* The WaitGroup counts the loops and the dials, although dials are added to it
\* while Stop may be waiting; so once Stop has returned nothing of the mesh
\* touches the host that Close closes next.
StoppedQuiet ==
    stop = "stopped" => Loops = {} /\ dials = 0

NoDefaultPort(all) == \A i \in 1..Len(all) : all[i] # NoURL => all[i].port # "default"

\* For every order in which KnownPeers may list the cache, the chain has each
\* gateway once, spelt as it came first, in the order main and extras, mesh,
\* public defaults; without known peers it is the configured list. It says
\* nothing of a list with a URL that spells out the default port of its scheme:
\* src/ipfsnode_fetch.go:142 claims that it collapses with the plain one, and
\* normalizeFallbackURL keeps the two apart.
ChainSound ==
    \A order \in SetToSeqs(Known) :
        LET all == Spliced(Static, HeadLen, [i \in 1..Len(order) |-> cache[order[i]].gatewayURL])
            chain == assembleFallbackChain(Static, HeadLen,
                         [i \in 1..Len(order) |-> cache[order[i]].gatewayURL])
            key(i) == normalizeFallbackURL(all[i])
            firsts == {i \in 1..Len(all) : key(i) # NoURL /\ \A j \in 1..(i - 1) : key(j) # key(i)}
        IN  /\ order = <<>> => chain = Static
            /\ (order # <<>> /\ NoDefaultPort(all)) =>
                  /\ Len(chain) = Cardinality(firsts)
                  /\ \A i \in firsts : chain[Cardinality({j \in firsts : j <= i})] = all[i]

\* A peer that has been silent for long is forgotten, unless the mesh stops.
SilentForgotten ==
    \A p \in Peers :
        (p \in Known /\ cache[p].age = MaxAge)
            ~> (p \notin Known \/ cache[p].age < MaxAge \/ stop # "no")

\* Stop returns, although heartbeats keep arriving and dials are running.
StopEnds == stop = "cancelled" ~> stop = "stopped"
=============================================================================

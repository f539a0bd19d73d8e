-------------------------------- MODULE Pinner --------------------------------
(***************************************************************************)
(* The process (src/main.go, server.go): Discovery composed with the batch *)
(* calls of the runner, the backend's drain gate and main's sequence from  *)
(* the first refresh to exit.                                              *)
(*                                                                         *)
(* AutoPinRunner and EmbeddedNode model Run and Pin in detail.  Here a Run *)
(* call is the set of CIDs it has still to pin and the set it is pinning,  *)
(* and the backend is its gate; a Pin may take for ever.                   *)
(***************************************************************************)
EXTENDS Discovery, FiniteSets

CONSTANT Handlers   \* goroutines of the pin-all and evaluate-rules handlers

ASSUME HandlersApart == Handlers \cap Refreshers = {}

Callers == Refreshers \cup Handlers

VARIABLES main,      \* main's place
          running,   \* callers inside Run
          batch,     \* CIDs each has still to pin
          flight,    \* CIDs each is pinning
          gate,      \* does the backend accept Pin calls?
          drained    \* has Drain returned nil?

runVars == <<running, batch, flight>>
vars == <<discoveryVars, main, runVars, gate, drained>>

TypeOK ==
    /\ DiscoveryTypeOK
    /\ main \in {"start", "serve", "http", "stop", "drain", "draining", "close", "exited"}
    /\ running \subseteq Callers
    /\ batch \in [Callers -> SUBSET CIDs]
    /\ flight \in [Callers -> SUBSET CIDs]
    /\ gate \in BOOLEAN /\ drained \in BOOLEAN

Init == /\ DiscoveryInit
        /\ main = "start"
        /\ running = {}
        /\ batch = [c \in Callers |-> {}]
        /\ flight = [c \in Callers |-> {}]
        /\ gate = TRUE /\ drained = FALSE

CIDsOf(list) == {list[i].cid : i \in 1..Len(list)}

-----------------------------------------------------------------------------
(* Run, called by the refresh callback and by handlers *)

RunStart(c, matched) ==
    /\ c \notin running
    /\ running' = running \cup {c}
    /\ batch' = [batch EXCEPT ![c] = matched]
    /\ UNCHANGED <<flight, main, gate, drained>>

\* The callback: those items the rules match and the cap does not shed.
CallbackRuns(g) ==
    /\ refresh[g] = "callback"
    /\ \E matched \in SUBSET CIDsOf(Extracted(read[g])) \ {{}} : RunStart(g, matched)
    /\ UNCHANGED discoveryVars

\* No rule matches.
CallbackSkips(g) ==
    /\ g \notin running /\ RefreshEnds(g)
    /\ UNCHANGED <<main, runVars, gate, drained>>

\* A request to pin-all or evaluate-rules, while the server listens.
HandlerRuns(h) ==
    /\ main = "serve"
    /\ \E matched \in SUBSET CIDsOf(items) : RunStart(h, matched)
    /\ UNCHANGED discoveryVars

\* Its client goes away: what is not scheduled is dropped.
ClientLeaves(h) ==
    /\ h \in running /\ batch[h] # {}
    /\ batch' = [batch EXCEPT ![h] = {}]
    /\ UNCHANGED <<discoveryVars, main, running, flight, gate, drained>>

PinBegins(c, x) ==
    /\ x \in batch[c] /\ gate
    /\ batch' = [batch EXCEPT ![c] = @ \ {x}]
    /\ flight' = [flight EXCEPT ![c] = @ \cup {x}]
    /\ UNCHANGED <<discoveryVars, main, running, gate, drained>>

\* ErrPinnerShuttingDown.
PinRejected(c, x) ==
    /\ x \in batch[c] /\ ~gate
    /\ batch' = [batch EXCEPT ![c] = @ \ {x}]
    /\ UNCHANGED <<discoveryVars, main, running, flight, gate, drained>>

PinEnds(c, x) ==
    /\ x \in flight[c]
    /\ flight' = [flight EXCEPT ![c] = @ \ {x}]
    /\ UNCHANGED <<discoveryVars, main, running, batch, gate, drained>>

\* Run returns when its pool is drained; a refresh ends with its callback.
RunReturns(c) ==
    /\ c \in running /\ batch[c] = {} /\ flight[c] = {}
    /\ running' = running \ {c}
    /\ IF c \in Refreshers THEN RefreshEnds(c) ELSE UNCHANGED discoveryVars
    /\ UNCHANGED <<main, batch, flight, gate, drained>>

-----------------------------------------------------------------------------
(* main *)

\* Start returns; main starts the server and waits for a signal.
Serve ==
    /\ main = "start"
    /\ StartTicker
    /\ main' = "serve"
    /\ UNCHANGED <<runVars, gate, drained>>

\* Before signal.Notify a signal ends the process at once.
SignalKills ==
    /\ main = "start"
    /\ main' = "exited"
    /\ UNCHANGED <<discoveryVars, runVars, gate, drained>>

\* ListenAndServe fails, at once or later: log.Fatalf, and nothing is drained.
ServerFails ==
    /\ main = "serve"
    /\ main' = "exited"
    /\ UNCHANGED <<discoveryVars, runVars, gate, drained>>

Signal ==
    /\ main = "serve"
    /\ main' = "http"
    /\ UNCHANGED <<discoveryVars, runVars, gate, drained>>

\* Fault: httpServer.Shutdown without a deadline.
HTTPWaits ==
    /\ main = "http" /\ running \cap Handlers = {}
    /\ main' = "stop"
    /\ UNCHANGED <<discoveryVars, runVars, gate, drained>>

\* httpServer.Shutdown: the handlers are done or its deadline passes.
HTTPShutdown ==
    /\ main = "http"
    /\ main' = "stop"
    /\ UNCHANGED <<discoveryVars, runVars, gate, drained>>

StopDiscovery ==
    /\ main = "stop"
    /\ Stop
    /\ main' = "drain"
    /\ UNCHANGED <<runVars, gate, drained>>

\* Fault: Drain only waits.
DrainUngated ==
    /\ main = "drain"
    /\ main' = "draining"
    /\ UNCHANGED <<discoveryVars, runVars, gate, drained>>

DrainGate ==
    /\ main = "drain"
    /\ gate' = FALSE
    /\ main' = "draining"
    /\ UNCHANGED <<discoveryVars, runVars, drained>>

\* No Pin is in flight, or the deadline passes and those that are get abandoned.
DrainReturns ==
    /\ main = "draining"
    /\ drained' \in {FALSE, \A c \in Callers : flight[c] = {}}
    /\ main' = "close"
    /\ UNCHANGED <<discoveryVars, runVars, gate>>

CloseAndExit ==
    /\ main = "close"
    /\ main' = "exited"
    /\ UNCHANGED <<discoveryVars, runVars, gate, drained>>

MainStep == HTTPShutdown \/ StopDiscovery \/ DrainGate \/ DrainReturns \/ CloseAndExit

Next ==
    /\ main # "exited"
    /\ \/ /\ (\E g \in Refreshers : RefreshStep(g)) \/ TickRefresh \/ TickerExits \/ DBChanges
          /\ UNCHANGED <<main, runVars, gate, drained>>
       \/ \E g \in Refreshers : CallbackRuns(g) \/ CallbackSkips(g)
       \/ \E h \in Handlers : HandlerRuns(h) \/ ClientLeaves(h)
       \/ \E c \in Callers : \/ \E x \in CIDs : PinBegins(c, x) \/ PinRejected(c, x) \/ PinEnds(c, x)
                             \/ RunReturns(c)
       \/ Serve \/ SignalKills \/ ServerFails \/ Signal
       \/ MainStep

\* main is scheduled and its deadlines expire; nothing is asked of the
\* backend, the database or the clients.
Spec == Init /\ [][Next]_vars /\ WF_vars(MainStep)

-----------------------------------------------------------------------------
(* Properties *)

\* The published list has every valid CID of the rows read for it exactly once,
\* under the newest post that mentions it and the first of its places there.
ItemsMeaning ==
    LET all == FlattenSeq([i \in 1..Len(itemsRead) |-> Mentions(itemsRead[i])])
        firsts == {i \in 1..Len(all) : /\ all[i].cid \in CIDs
                                       /\ \A j \in 1..(i - 1) : all[j].cid # all[i].cid}
    IN  /\ Len(items) = Cardinality(firsts)
        /\ \A i \in firsts : items[Cardinality({j \in firsts : j <= i})] = all[i]

\* A refresh never replaces a list by one from an older state of the database:
\* the first refresh is over before the ticker's goroutine begins.
NeverOlder == [][itemsAsOf' >= itemsAsOf]_vars

\* "successive discovery batches don't overlap each other's in-flight pins".
BatchesApart == ~({Main, Ticker} \subseteq running)

\* Once Drain has succeeded nothing is pinned, although a refresh that Stop did
\* not wait for, or a handler that outlived Shutdown, may call Pin still.
LateCallsRejected == drained => \A c \in Callers : flight[c] = {}

\* A signal leads to the exit, whatever pins, handlers and queries do.
ShutdownEnds == main = "http" ~> main = "exited"
=============================================================================

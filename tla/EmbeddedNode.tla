----------------------------- MODULE EmbeddedNode -----------------------------
(***************************************************************************)
(* The embedded IPFS backend (src/ipfsnode.go, ipfsnode_fetch.go,          *)
(* ipfsnode_gateway.go): Pin, Unpin and gateway reads by concurrent        *)
(* callers, the drain gate, Close, process death and restart.              *)
(*                                                                         *)
(* A DAG is the set of its blocks.  pins.json is the register SavedFile,   *)
(* whose promise StateFile shows atomicWriteFile to keep.  Critical        *)
(* sections of mu, and those of drainMu that meet no other shared state,   *)
(* are single steps; the one in Pin is split because Close closes done     *)
(* without taking drainMu.                                                 *)
(***************************************************************************)
EXTENDS Naturals, FiniteSets

CONSTANTS Callers,      \* goroutines that call into the backend
          CIDs, BadCID, \* well-formed CIDs; one string ValidateCID rejects
          Blocks, Dag,  \* Dag[x]: the blocks of the DAG rooted at x
          MaxChain,     \* bound: longest fallback chain
          NoCaller,
          Absent, Damaged,
          DiskFaults,   \* may a write of pins.json fail?
          PowerFails    \* may the machine lose power?

ASSUME CallersFinite == IsFiniteSet(Callers) /\ NoCaller \notin Callers
ASSUME DagAssumption == Dag \in [CIDs -> SUBSET Blocks] /\ BadCID \notin CIDs
ASSUME ChainAssumption == MaxChain \in Nat

VARIABLES
    up,          \* is the process running?
    pins,        \* n.pins, guarded by mu
    store,       \* the blockstore's blocks
    done,        \* is channel done closed?
    drainMu,     \* holder of drainMu
    inFlight,    \* WaitGroup counter
    cancels,     \* callers with a CancelFunc in n.cancels
    cancelled,   \* callers whose pinCtx is cancelled
    pc, op, cid, \* each caller's place, operation and argument
    left,        \* gateways not yet tried in its fallback chain
    got,         \* has the current gateway delivered a block?
    snap,        \* the copy of pins it is about to save
    drain,       \* Drain's progress
    finished,    \* is Drain's channel finished closed?
    closing,     \* Close's progress
    file, saving, mixed,
    raced,       \* history: callers whose change and save of the pin set
                 \* overlapped another caller's
    lost         \* history: blocks a power loss took and nobody stored since

PinFile == INSTANCE SavedFile
           WITH Writers <- Callers, Payloads <- SUBSET CIDs, doc <- snap

blockVars == <<store, lost>>
gateVars == <<done, drainMu, inFlight, cancels>>
callVars == <<op, cid, left, got, snap>>
shutVars == <<drain, finished, closing>>
fileVars == <<file, saving, mixed>>
vars == <<up, pins, blockVars, gateVars, cancelled, pc, callVars, shutVars,
          fileVars, raced>>

\* A Pin call between WaitGroup.Add and WaitGroup.Done.
PinBody == {"bitswap", "car", "walk", "mark", "unregister", "finish"}
SaveBody == {"snapshot", "open", "write"}
Places == {"idle", "register", "serve"} \cup PinBody \cup SaveBody
Registered(c) == \/ pc[c] \in PinBody
                 \/ pc[c] \in SaveBody /\ op[c] = "pin"
InFlightPins == {c \in Callers : Registered(c)}

TypeOK ==
    /\ up \in BOOLEAN /\ done \in BOOLEAN /\ finished \in BOOLEAN
    /\ pins \subseteq CIDs
    /\ store \subseteq Blocks
    /\ drainMu \in Callers \cup {NoCaller}
    /\ inFlight \in Nat
    /\ cancels \subseteq Callers
    /\ cancelled \subseteq Callers
    /\ pc \in [Callers -> Places]
    /\ op \in [Callers -> {"pin", "unpin", "get"}]
    /\ cid \in [Callers -> CIDs \cup {BadCID}]
    /\ left \in [Callers -> 0..MaxChain]
    /\ got \in [Callers -> BOOLEAN]
    /\ snap \in [Callers -> SUBSET CIDs]
    /\ drain \in {"idle", "waiting", "grace", "drained", "expired"}
    /\ closing \in {"idle", "server", "closed"}
    /\ PinFile!FileTypeOK
    /\ raced \subseteq Callers
    /\ lost \subseteq Blocks

Init == /\ up = TRUE
        /\ pins = {} /\ store = {}
        /\ done = FALSE /\ drainMu = NoCaller /\ inFlight = 0
        /\ cancels = {} /\ cancelled = {}
        /\ pc = [c \in Callers |-> "idle"]
        /\ op = [c \in Callers |-> "get"]
        /\ cid = [c \in Callers |-> BadCID]
        /\ left = [c \in Callers |-> 0]
        /\ got = [c \in Callers |-> FALSE]
        /\ snap = [c \in Callers |-> {}]
        /\ drain = "idle" /\ finished = FALSE /\ closing = "idle"
        /\ file = Absent /\ saving = {} /\ mixed = {} /\ raced = {} /\ lost = {}

Goto(c, l) == pc' = [pc EXCEPT ![c] = l]
StoreOpen == closing # "closed"
Put(b) == store' = store \cup {b} /\ lost' = lost \ {b}

\* Caller c changes the pin set, which savePins has to follow.
Savers == {d \in Callers : pc[d] \in SaveBody}
EnterSave(c) == /\ Goto(c, "snapshot")
                /\ raced' = IF Savers = {} THEN raced ELSE Savers \cup {c}

-----------------------------------------------------------------------------
(* Pin *)

\* Take drainMu and look at done.
PinGate(c, x) ==
    /\ up /\ pc[c] = "idle" /\ drainMu = NoCaller
    /\ op' = [op EXCEPT ![c] = "pin"]
    /\ cid' = [cid EXCEPT ![c] = x]
    /\ \/ /\ done
          /\ UNCHANGED <<pc, drainMu>>
       \/ /\ ~done
          /\ drainMu' = c
          /\ Goto(c, "register")
    /\ UNCHANGED <<up, pins, blockVars, done, inFlight, cancels, cancelled, left,
                   got, snap, shutVars, fileVars, raced>>

\* Fault: the CancelFunc is not registered.
RegisterUncancellable(c) ==
    /\ pc[c] = "register"
    /\ inFlight' = inFlight + 1
    /\ drainMu' = NoCaller
    /\ Goto(c, IF cid[c] \in CIDs THEN "bitswap" ELSE "unregister")
    /\ UNCHANGED <<up, pins, blockVars, done, cancels, cancelled, callVars, shutVars,
                   fileVars, raced>>

\* WaitGroup.Add and the CancelFunc, unlock drainMu; then validate the CID.
PinRegister(c) ==
    /\ pc[c] = "register"
    /\ inFlight' = inFlight + 1
    /\ cancels' = cancels \cup {c}
    /\ drainMu' = NoCaller
    /\ \/ cid[c] \in CIDs /\ Goto(c, "bitswap")
       \/ cid[c] = BadCID /\ Goto(c, "unregister")
    /\ UNCHANGED <<up, pins, blockVars, done, cancelled, callVars, shutVars,
                   fileVars, raced>>

\* Tier 1: bitswap delivers a block of the DAG.  It stays whatever follows.
BitswapBlock(c) ==
    /\ pc[c] = "bitswap" /\ c \notin cancelled /\ StoreOpen
    /\ \E b \in Dag[cid[c]] \ store : Put(b)
    /\ UNCHANGED <<up, pins, gateVars, cancelled, pc, callVars, shutVars,
                   fileVars, raced>>

\* FetchGraph has visited every block of the DAG.
BitswapDone(c) ==
    /\ pc[c] = "bitswap" /\ StoreOpen
    /\ Dag[cid[c]] \subseteq store
    /\ Goto(c, "mark")
    /\ UNCHANGED <<up, pins, blockVars, gateVars, cancelled, callVars, shutVars,
                   fileVars, raced>>

\* Timeout, cancellation or a closed store: assemble the fallback chain.
BitswapFails(c) ==
    /\ pc[c] = "bitswap"
    /\ Goto(c, "car")
    /\ \E k \in 0..MaxChain : left' = [left EXCEPT ![c] = k]
    /\ got' = [got EXCEPT ![c] = FALSE]
    /\ UNCHANGED <<up, pins, blockVars, gateVars, cancelled, op, cid, snap,
                   shutVars, fileVars, raced>>

\* Tier 2/3: a batch of hash-valid blocks, of this DAG or of any other.
CarFlush(c) ==
    /\ pc[c] = "car" /\ left[c] > 0 /\ c \notin cancelled /\ StoreOpen
    /\ \E b \in Blocks : Put(b)
    /\ got' = [got EXCEPT ![c] = TRUE]
    /\ UNCHANGED <<up, pins, gateVars, cancelled, pc, op, cid, left, snap,
                   shutVars, fileVars, raced>>

\* The CAR ends cleanly after at least one block: try no further gateway.
CarEnd(c) ==
    /\ pc[c] = "car" /\ left[c] > 0 /\ got[c]
    /\ Goto(c, "walk")
    /\ UNCHANGED <<up, pins, blockVars, gateVars, cancelled, callVars, shutVars,
                   fileVars, raced>>

\* Fault: the same gateway is tried again.
CarRetries(c) ==
    /\ pc[c] = "car" /\ left[c] > 0
    /\ got' = [got EXCEPT ![c] = FALSE]
    /\ UNCHANGED <<up, pins, blockVars, gateVars, cancelled, pc, op, cid, left, snap,
                   shutVars, fileVars, raced>>

\* Bad status, bad block, byte cap, timeout, failed put: the next gateway.
\* Blocks flushed before the failure stay.
CarFails(c) ==
    /\ pc[c] = "car" /\ left[c] > 0
    /\ left' = [left EXCEPT ![c] = @ - 1]
    /\ got' = [got EXCEPT ![c] = FALSE]
    /\ UNCHANGED <<up, pins, blockVars, gateVars, cancelled, pc, op, cid, snap,
                   shutVars, fileVars, raced>>

CarExhausted(c) ==
    /\ pc[c] = "car" /\ left[c] = 0
    /\ Goto(c, "unregister")
    /\ UNCHANGED <<up, pins, blockVars, gateVars, cancelled, callVars, shutVars,
                   fileVars, raced>>

\* Fault: the CAR import is trusted.
WalkSkipped(c) ==
    /\ pc[c] = "walk"
    /\ Goto(c, "mark")
    /\ UNCHANGED <<up, pins, blockVars, gateVars, cancelled, callVars, shutVars,
                   fileVars, raced>>

\* The offline re-walk after a CAR import.
WalkDone(c) ==
    /\ pc[c] = "walk" /\ StoreOpen
    /\ Dag[cid[c]] \subseteq store
    /\ Goto(c, "mark")
    /\ UNCHANGED <<up, pins, blockVars, gateVars, cancelled, callVars, shutVars,
                   fileVars, raced>>

WalkFails(c) ==
    /\ pc[c] = "walk"
    /\ Goto(c, "unregister")
    /\ UNCHANGED <<up, pins, blockVars, gateVars, cancelled, callVars, shutVars,
                   fileVars, raced>>

\* Fault: the copy to save is taken before the CID is added.
MarkAfterCopy(c) ==
    /\ pc[c] = "mark"
    /\ snap' = [snap EXCEPT ![c] = pins]
    /\ pins' = pins \cup {cid[c]}
    /\ Goto(c, "open")
    /\ raced' = IF Savers = {} THEN raced ELSE Savers \cup {c}
    /\ UNCHANGED <<up, blockVars, gateVars, cancelled, op, cid, left, got, shutVars,
                   fileVars>>

\* markPinned, up to its call of savePins.
MarkPinned(c) ==
    /\ pc[c] = "mark"
    /\ pins' = pins \cup {cid[c]}
    /\ EnterSave(c)
    /\ UNCHANGED <<up, blockVars, gateVars, cancelled, callVars, shutVars,
                   fileVars>>

\* Pin's deferred function: forget the CancelFunc under drainMu, then cancel
\* pinCtx and call WaitGroup.Done.
Unregister(c) ==
    /\ pc[c] = "unregister" /\ drainMu = NoCaller
    /\ cancels' = cancels \ {c}
    /\ Goto(c, "finish")
    /\ UNCHANGED <<up, pins, blockVars, done, drainMu, inFlight, cancelled,
                   callVars, shutVars, fileVars, raced>>

PinReturn(c) ==
    /\ pc[c] = "finish"
    /\ inFlight' = inFlight - 1
    /\ cancelled' = cancelled \ {c}
    /\ Goto(c, "idle")
    /\ UNCHANGED <<up, pins, blockVars, done, drainMu, cancels, callVars,
                   shutVars, fileVars, raced>>

\* The ctx passed to Pin is cancelled (the HTTP client went away).
CallerCancels(c) ==
    /\ c \in cancels \ cancelled
    /\ cancelled' = cancelled \cup {c}
    /\ UNCHANGED <<up, pins, blockVars, gateVars, pc, callVars, shutVars,
                   fileVars, raced>>

-----------------------------------------------------------------------------
(* savePins, called by Pin and by Unpin *)

Snapshot(c) ==
    /\ pc[c] = "snapshot"
    /\ snap' = [snap EXCEPT ![c] = pins]
    /\ Goto(c, "open")
    /\ UNCHANGED <<up, pins, blockVars, gateVars, cancelled, op, cid, left, got,
                   shutVars, fileVars, raced>>

SaveOpen(c) ==
    /\ pc[c] = "open"
    /\ PinFile!Open(c, snap[c])
    /\ Goto(c, "write")
    /\ UNCHANGED <<up, pins, blockVars, gateVars, cancelled, callVars, shutVars,
                   raced>>

\* savePins only logs a failed write: the operation succeeds either way.
SaveEnds(c) ==
    /\ Goto(c, IF op[c] = "pin" THEN "unregister" ELSE "idle")
    /\ raced' = raced \ {c}
    /\ UNCHANGED <<up, pins, blockVars, gateVars, cancelled, callVars, shutVars>>

SaveCommit(c) == pc[c] = "write" /\ PinFile!Commit(c) /\ SaveEnds(c)

SaveFails(c) == DiskFaults /\ pc[c] = "write" /\ PinFile!Fail(c) /\ SaveEnds(c)

\* Overlapping saves write through each other's temporary file.
SavesCollide ==
    /\ up
    /\ PinFile!Scramble
    /\ UNCHANGED <<up, pins, blockVars, gateVars, cancelled, pc, callVars,
                   shutVars, raced>>

-----------------------------------------------------------------------------
(* Unpin and the gateway *)

Begin(c, o, x) ==
    /\ up /\ pc[c] = "idle"
    /\ op' = [op EXCEPT ![c] = o]
    /\ cid' = [cid EXCEPT ![c] = x]

\* Unpin is not behind the drain gate.
Unpin(c, x) ==
    /\ Begin(c, "unpin", x)
    /\ \/ x = BadCID /\ UNCHANGED <<pins, pc, raced>>
       \/ /\ x \in CIDs
          /\ pins' = pins \ {x}
          /\ EnterSave(c)
    /\ UNCHANGED <<up, blockVars, gateVars, cancelled, left, got, snap, shutVars,
                   fileVars>>

\* Fault: every well-formed CID is passed on.
GuardOpen(c, x) ==
    /\ Begin(c, "get", x)
    /\ closing = "idle"
    /\ x \in CIDs /\ Goto(c, "serve")
    /\ UNCHANGED <<up, pins, blockVars, gateVars, cancelled, left, got, snap,
                   shutVars, fileVars, raced>>

\* gatewayGuard: 400, 404, or on to the handler, without keeping the lock.
GatewayGuard(c, x) ==
    /\ Begin(c, "get", x)
    /\ closing = "idle"
    /\ \/ x \notin pins /\ UNCHANGED pc
       \/ x \in pins /\ Goto(c, "serve")
    /\ UNCHANGED <<up, pins, blockVars, gateVars, cancelled, left, got, snap,
                   shutVars, fileVars, raced>>

\* The handler has read the blocks from the offline block service.
GatewayServe(c) ==
    /\ pc[c] = "serve"
    /\ Goto(c, "idle")
    /\ UNCHANGED <<up, pins, blockVars, gateVars, cancelled, callVars, shutVars,
                   fileVars, raced>>

-----------------------------------------------------------------------------
(* Drain and Close *)

\* Fault: done is closed without drainMu.
GateUnlocked ==
    /\ up /\ drain = "idle"
    /\ done' = TRUE
    /\ drain' = "waiting"
    /\ UNCHANGED <<up, pins, blockVars, drainMu, inFlight, cancels, cancelled, pc,
                   callVars, finished, closing, fileVars, raced>>

\* Fault: the gate stays open.
GateOpen ==
    /\ up /\ drain = "idle" /\ drainMu = NoCaller
    /\ drain' = "waiting"
    /\ UNCHANGED <<up, pins, blockVars, gateVars, cancelled, pc, callVars, finished,
                   closing, fileVars, raced>>

\* Fault: drainMu is not unlocked (held on behalf of no running call).
GateLocked ==
    /\ up /\ drain = "idle" /\ drainMu = NoCaller
    /\ done' = TRUE
    /\ drain' = "waiting"
    /\ \E c \in Callers : drainMu' = c
    /\ UNCHANGED <<up, pins, blockVars, inFlight, cancels, cancelled, pc, callVars,
                   finished, closing, fileVars, raced>>

\* Close done under drainMu, once; then wait for the WaitGroup.
DrainGate ==
    /\ up /\ drain = "idle" /\ drainMu = NoCaller
    /\ done' = TRUE
    /\ drain' = "waiting"
    /\ UNCHANGED <<up, pins, blockVars, drainMu, inFlight, cancels, cancelled, pc,
                   callVars, finished, closing, fileVars, raced>>

\* The goroutine behind inFlight.Wait.
WaiterFinishes ==
    /\ drain \in {"waiting", "grace"} /\ ~finished /\ inFlight = 0
    /\ finished' = TRUE
    /\ UNCHANGED <<up, pins, blockVars, gateVars, cancelled, pc, callVars, drain,
                   closing, fileVars, raced>>

DrainCompletes ==
    /\ drain = "waiting" /\ finished
    /\ drain' = "drained"
    /\ UNCHANGED <<up, pins, blockVars, gateVars, cancelled, pc, callVars,
                   finished, closing, fileVars, raced>>

\* ctx.Done: cancel every registered Pin under drainMu.
DrainDeadline ==
    /\ drain = "waiting" /\ drainMu = NoCaller
    /\ cancelled' = cancelled \cup cancels
    /\ drain' = "grace"
    /\ UNCHANGED <<up, pins, blockVars, gateVars, pc, callVars, finished, closing,
                   fileVars, raced>>

\* The cleanup finished or the grace period ended: either way ctx.Err().
DrainExpires ==
    /\ drain = "grace"
    /\ drain' = "expired"
    /\ UNCHANGED <<up, pins, blockVars, gateVars, cancelled, pc, callVars,
                   finished, closing, fileVars, raced>>

\* Close signals done without drainMu and stops the gateway listener ...
CloseSignal ==
    /\ up /\ closing = "idle"
    /\ done' = TRUE
    /\ closing' = "server"
    /\ UNCHANGED <<up, pins, blockVars, drainMu, inFlight, cancels, cancelled, pc,
                   callVars, drain, finished, fileVars, raced>>

\* ... and tears down bitswap, DHT, host and datastore, whoever still runs.
CloseInternals ==
    /\ closing = "server"
    /\ closing' = "closed"
    /\ UNCHANGED <<up, pins, blockVars, gateVars, cancelled, pc, callVars, drain,
                   finished, fileVars, raced>>

-----------------------------------------------------------------------------
(* Process death and restart *)

\* Killed, or main returned: every goroutine is gone, and with them all that
\* was only in memory.
Dies == /\ up
        /\ up' = FALSE
        /\ pins' = {}
        /\ done' = FALSE /\ drainMu' = NoCaller /\ inFlight' = 0
        /\ cancels' = {} /\ cancelled' = {}
        /\ pc' = [c \in Callers |-> "idle"]
        /\ op' = [c \in Callers |-> "get"]
        /\ cid' = [c \in Callers |-> BadCID]
        /\ left' = [c \in Callers |-> 0]
        /\ got' = [c \in Callers |-> FALSE]
        /\ snap' = [c \in Callers |-> {}]
        /\ drain' = "idle" /\ finished' = FALSE /\ closing' = "idle"
        /\ raced' = {}
        /\ PinFile!Kill

Exit == Dies /\ UNCHANGED blockVars

\* flatfs is opened with sync = false, so blocks may still be in the page
\* cache; pins.json is fsynced.
PowerLoss == /\ PowerFails /\ Dies
             /\ store' \in SUBSET store
             /\ lost' = lost \cup (store \ store')

\* The pin set NewEmbeddedNode loads: a missing or unreadable pins.json is
\* only logged.
Loadable == IF file \in {Absent, Damaged} THEN {} ELSE file

Restart ==
    /\ ~up
    /\ up' = TRUE
    /\ pins' = Loadable
    /\ UNCHANGED <<blockVars, gateVars, cancelled, pc, callVars, shutVars,
                   fileVars, raced>>

-----------------------------------------------------------------------------
\* What caller c's goroutine does on its own once a call has begun.
Step(c) == \/ PinRegister(c)
           \/ BitswapBlock(c) \/ BitswapDone(c) \/ BitswapFails(c)
           \/ CarFlush(c) \/ CarEnd(c) \/ CarFails(c) \/ CarExhausted(c)
           \/ WalkDone(c) \/ WalkFails(c)
           \/ MarkPinned(c)
           \/ Snapshot(c) \/ SaveOpen(c) \/ SaveCommit(c) \/ SaveFails(c)
           \/ Unregister(c) \/ PinReturn(c)
           \/ GatewayServe(c)

Call(c) == \/ \E x \in CIDs \cup {BadCID} : \/ PinGate(c, x)
                                            \/ Unpin(c, x)
                                            \/ GatewayGuard(c, x)
           \/ CallerCancels(c)

DrainStep == \/ WaiterFinishes \/ DrainCompletes \/ DrainDeadline \/ DrainExpires

Next == \/ \E c \in Callers : Call(c) \/ Step(c)
        \/ SavesCollide
        \/ DrainGate \/ DrainStep
        \/ CloseSignal \/ CloseInternals
        \/ Exit \/ PowerLoss \/ Restart

Spec == Init /\ [][Next]_vars

\* A running goroutine is scheduled; every network leg has a timeout, so its
\* failure step keeps it from blocking; Go's mutex does not starve a waiter
\* for drainMu; Drain's timers fire.
Fairness == /\ \A c \in Callers : WF_vars(Step(c)) /\ SF_vars(Unregister(c))
            /\ WF_vars(DrainStep)

FairSpec == Spec /\ Fairness

-----------------------------------------------------------------------------
(* Properties *)

\* A CID is listed as pinned, about to be saved as pinned or saved as pinned
\* only if every block of its DAG is in the blockstore or was until the power
\* failed: Pin marks a CID only after a walk that found all of it there at that
\* moment, and nothing else removes blocks.
Kept(x) == Dag[x] \subseteq store \cup lost
PinnedComplete ==
    /\ \A x \in pins \cup Loadable : Kept(x)
    /\ \A c \in Callers : \A x \in snap[c] : Kept(x)
    /\ \A c \in Callers : pc[c] = "mark" => Dag[cid[c]] \subseteq store

\* The gateway passes on only requests it can serve in full, but for blocks lost
\* with the power: between gatewayGuard's look at the pin set and the handler's
\* reads an Unpin may come in, but the blocks are still there.
GatewayWhole == \A c \in Callers : pc[c] = "serve" => Kept(cid[c])

\* The WaitGroup counts exactly the Pin calls between Add and Done, so Wait
\* cannot return early or hang.
WaitGroupExact == inFlight = Cardinality(InFlightPins)

\* Once Drain has closed the gate no Pin is added to the WaitGroup it waits on,
\* although a Pin may have looked at done just before.
GateHolds == [][drain # "idle" => inFlight' <= inFlight]_vars

\* Drain reports success only when no Pin is in flight, and none starts after.
DrainedQuiet == drain = "drained" => InFlightPins = {}

\* After the deadline every Pin still in flight has been cancelled, unless it
\* is already past its own cleanup and about to return.
DeadlineCancelsAll ==
    drain \in {"grace", "expired"} =>
        \A c \in InFlightPins : c \in cancelled \/ pc[c] = "finish"

\* A successful save whose change and write overlapped no other caller's
\* leaves pins.json equal to the pin set in memory.
SoloSavePersists ==
    [][\A c \in Callers : SaveCommit(c) /\ c \notin raced => file' = pins']_vars

\* When no change is being saved, a readable pins.json lists every pinned CID,
\* so a restart finds them again (pin_test.go: "proves pins.json survives
\* Close -> re-open round-trips").
PinsSaved == up /\ Savers = {} /\ file # Damaged => pins \subseteq Loadable

\* Every Pin call returns (or its process dies).
PinReturns == \A c \in Callers : Registered(c) ~> pc[c] = "idle"

\* A Drain call returns, with nil or with the deadline's error (or its
\* process dies).
DrainReturns == drain = "waiting" ~> drain \in {"drained", "expired", "idle"}
=============================================================================
